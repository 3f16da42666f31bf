\* Every program of the grammar, with and without an address (every address
\* of the grammar among them), parses back to itself, and the default
\* address is only taken for a program that starts with a command.
CONSTANTS
    UsizeModulus = 65536
    OverflowChecks = FALSE
    OnePastLastLine = FALSE
    Inputs <- MCStrings
    Progs <- MCProgs
SPECIFICATION Spec
INVARIANTS
    ProgramRoundTrip
    DefaultOnlyWithoutAddress
\* try_parse returns once it has parsed.
CHECK_DEADLOCK FALSE
