\* y/re/ with a regex that matches the empty string (y/a*/ d).
CONSTANTS
    UsizeModulus = 65536
    OverflowChecks = FALSE
    OnePastLastLine = FALSE
    FileName <- MCFileName
    Programs <- MCEmptyYPrograms
    Texts <- MCTexts
    BufDots <- MCBufDots
    Targets <- MCTargets
    MaxCollect <- MCMaxCollect
SPECIFICATION Spec
PROPERTIES
    Termination
CHECK_DEADLOCK FALSE
