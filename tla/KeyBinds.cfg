SPECIFICATION Spec
CONSTANTS
    Keys = {a, lbutton}
    Wheel = {}
    Unbindable = {}
    Cancels = {lbutton}
    Uis = {"cheat"}
    NoKey = NoKey
    a = a
    lbutton = lbutton
INVARIANTS TypeOK BindsAreWired InCommandWired 
PROPERTY InCommandFollowsItsKey
