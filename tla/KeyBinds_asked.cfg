SPECIFICATION Spec
CONSTANTS
    Keys = {a, ins}
    Wheel = {}
    Unbindable = {ins}
    Cancels = {}
    Uis = {"cheat", "game"}
    NoKey = NoKey
    a = a
    ins = ins
PROPERTY AskedIsDone
