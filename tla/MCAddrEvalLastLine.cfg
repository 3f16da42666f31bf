\* A line address on the last line of a text, in a debug build (overflow
\* checks on, as in the tests): the empty buffer, whose only line is the
\* last one, and the last line of every other text.
CONSTANTS
    UsizeModulus = 65536
    OverflowChecks = TRUE
    OnePastLastLine = FALSE
    Texts <- MCTexts
    Addrs <- MCAddrs
SPECIFICATION Spec
INVARIANTS
    LineAddrCoversLine
CHECK_DEADLOCK FALSE
