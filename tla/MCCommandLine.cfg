SPECIFICATION Spec
CONSTANTS
    Floats = {"fov"}
    Booleans = {"flag"}
    Strings = {"filter"}
    Commands = {"say"}
    NumberOf <- MCNumberOf
    TruthOf <- MCTruthOf
    TextOf <- MCTextOf
    Lowest <- MCLowest
    Highest <- MCHighest
    Default <- MCDefault
    Panel = {1, 3}
    NaN = NaN
    Lines <- MCLines
    Stored <- MCStored
    MaxLine = 5
INVARIANTS TypeOK LineRuns InBounds TextRestores
PROPERTY QuotesProtect
