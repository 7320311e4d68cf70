SPECIFICATION Spec
CONSTANT MaxRuns = 3
CHECK_DEADLOCK FALSE
INVARIANTS
    CleanRunMakesTuple
    SecretMatches
    ThingHasPolicy
    ErrorLinksNothing
