SPECIFICATION Spec
CONSTANTS
    ToggleKeys = {"insert"}
    OtherMessages = {"mouse"}
CHECK_DEADLOCK FALSE
INVARIANTS TypeOK NeededIsMapped OneLayer GivenBack QuietTeardown
PROPERTIES ExitEnds ImplementsStandstill
