SPECIFICATION FairSpec
CONSTANT Detours = {d1, d2}
CONSTANT d1 = d1
CONSTANT d2 = d2
CHECK_DEADLOCK FALSE
INVARIANTS TypeOK NoNullCall UnhookedBeforePost
PROPERTIES PatchedWhileHanging OneLastCode FreedWhenLeft ImplementsStandstill AsleepEnds ShutdownEnds EndIsReported
