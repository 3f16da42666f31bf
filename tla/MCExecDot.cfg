\* Programs that only print or test, from addresses that select a range
\* inside the text: spec 4.6 has them return the match they were given;
\* the code returns its exclusive end as the inclusive end of a Dot.
CONSTANTS
    UsizeModulus = 65536
    OverflowChecks = FALSE
    OnePastLastLine = FALSE
    FileName <- MCFileName
    Programs <- MCReadOnlyPrograms
    Texts <- MCTexts
    BufDots <- MCBufDots
    Targets <- MCTargets
    MaxCollect <- MCMaxCollect
SPECIFICATION Spec
INVARIANTS
    ReadOnlyKeepsDot
\* execute returns to its caller: a finished run is a final state.
CHECK_DEADLOCK FALSE
