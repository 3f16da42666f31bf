\* A program whose address is a regex ending in an escaped backslash, such
\* as /\\/ d, does not parse back to itself.
CONSTANTS
    UsizeModulus = 65536
    OverflowChecks = FALSE
    OnePastLastLine = FALSE
    Inputs <- MCNoInputs
    Progs <- MCEscProgs
SPECIFICATION Spec
INVARIANTS
    ProgramRoundTrip
\* try_parse returns once it has parsed.
CHECK_DEADLOCK FALSE
