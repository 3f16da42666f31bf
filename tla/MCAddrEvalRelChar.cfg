\* -#n from a cursor closer than n characters to the start of the text.
CONSTANTS
    UsizeModulus = 65536
    OverflowChecks = FALSE
    OnePastLastLine = FALSE
    Texts <- MCTexts
    Addrs <- MCAddrs
SPECIFICATION Spec
INVARIANTS
    BackwardCharStaysBehind
CHECK_DEADLOCK FALSE
