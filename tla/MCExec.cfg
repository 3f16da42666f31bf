\* The engine, in a debug build as the tests run it, on the program shapes
\* of the tests: loops re-anchor their matches, edits stay inside the
\* initial dot, and execute always returns (or panics).
CONSTANTS
    UsizeModulus = 65536
    OverflowChecks = TRUE
    OnePastLastLine = FALSE
    FileName <- MCFileName
    Programs <- MCPrograms
    Texts <- MCTexts
    BufDots <- MCBufDots
    Targets <- MCTargets
    MaxCollect <- MCMaxCollect
SPECIFICATION Spec
INVARIANTS
    TypeOK
    LoopOffsetsTrack
    OutsideDotUntouched
PROPERTIES
    Termination
    ImplementsSam
\* execute returns to its caller: a finished run is a final state.
CHECK_DEADLOCK FALSE
