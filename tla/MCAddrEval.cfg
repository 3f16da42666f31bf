\* Address resolution in a release build: every address of the grammar on
\* every small text and dot stays in bounds, regex addresses select their
\* match and relative line suffixes step by whole lines.
CONSTANTS
    UsizeModulus = 65536
    OverflowChecks = FALSE
    OnePastLastLine = FALSE
    Texts <- MCTexts
    Addrs <- MCAddrs
SPECIFICATION Spec
INVARIANTS
    TypeOK
    ResultInBounds
    RegexAddrSelectsMatch
    RelativeLineSteps
\* map_addr returns once the address is resolved.
CHECK_DEADLOCK FALSE
