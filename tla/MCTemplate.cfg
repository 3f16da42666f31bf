\* Every short template against plain and unplain values: plain values are
\* expanded as one pass would, and only variables of the template itself
\* can fail.
CONSTANTS
    Templates <- MCTemplates
    FileNames <- MCFileNames
    Texts <- MCTexts
    Matches <- MCMatches
SPECIFICATION Spec
INVARIANTS
    ExpansionIsSinglePass
    InvalidSubstitutionNamesTemplateVar
\* template_match returns once: the expanded state is final.
CHECK_DEADLOCK FALSE
