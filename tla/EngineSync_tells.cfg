SPECIFICATION Spec
CONSTANT Detours = {d1}
CONSTANT d1 = d1
CHECK_DEADLOCK FALSE
PROPERTY OnlyTheDetourTells
