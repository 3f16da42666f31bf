\* Groups whose first branch edits: the spec has each branch see the dot
\* the previous branch produced; the code hands every branch the group's
\* original match, so a later branch edits at stale positions.
CONSTANTS
    UsizeModulus = 65536
    OverflowChecks = FALSE
    OnePastLastLine = FALSE
    FileName <- MCFileName
    Programs <- MCGroupPrograms
    Texts <- MCTexts
    BufDots <- MCBufDots
    Targets <- MCTargets
    MaxCollect <- MCMaxCollect
SPECIFICATION Spec
INVARIANTS
    OutsideDotUntouched
\* execute returns to its caller: a finished run is a final state.
CHECK_DEADLOCK FALSE
