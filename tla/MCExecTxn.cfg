\* The shapes of the tests, among them templates naming $1 of a match that
\* has no group 1 (InvalidSubstitution).
CONSTANTS
    UsizeModulus = 65536
    OverflowChecks = FALSE
    OnePastLastLine = FALSE
    FileName <- MCFileName
    Programs <- MCPrograms
    Texts <- MCTexts
    BufDots <- MCBufDots
    Targets <- MCTargets
    MaxCollect <- MCMaxCollect
SPECIFICATION Spec
INVARIANTS
    TransactionClosed
CHECK_DEADLOCK FALSE
