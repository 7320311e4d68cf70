SPECIFICATION Spec
INVARIANTS
    GateOpensOnPassOnly
    ExitCodeTellsVerdict
PROPERTIES
    HandledRunsEnd
    EndedAppFailsBuild
