\* Strings of address and command characters: a compound whose start or
\* end is an address Addr::parse gave up on, such as #,5 or 5,#d, parses
\* with that side defaulted.
CONSTANTS
    UsizeModulus = 65536
    OverflowChecks = FALSE
    OnePastLastLine = FALSE
    Inputs <- MCStrings
    Progs <- MCNoInputs
SPECIFICATION Spec
INVARIANTS
    DefaultsOnlyMissingSides
\* try_parse returns once it has parsed.
CHECK_DEADLOCK FALSE
