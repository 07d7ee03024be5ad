--------------------------- MODULE EngineSync_proofs ---------------------------
(***************************************************************************)
(* Theorems about EngineSync, for every set of detours: the type           *)
(* invariant, the five safety properties of the handshake, and that it     *)
(* implements Standstill.                                                  *)
(*                                                                         *)
(* The properties speak of the moments at which the two threads meet.  The *)
(* inductive invariant says for each place the module's thread can be at   *)
(* what is installed and where the engine may be, as long as every wait    *)
(* ended with the engine's answer (~unsynced).                             *)
(***************************************************************************)
EXTENDS EngineSync, TLAPS

\* The engine is in CEngine__Unload and has set the flags.
Flagged   == Unloading \ {"u_flag"}
TookOver  == {"u_wait", "u_call", "u_drop", "u_post", "u_tail"}
Released  == {"u_call", "u_drop", "u_post", "u_tail"}
Over      == {"left", "quit", "fault", "lost"}

Bare   == ~hostHooked /\ ~unloadHooked /\ installed = {}
Away   == epc \in {"out", "left", "quit"}
Gone   == Away \/ epc = "tail"
Asleep == epc = "loop" /\ isSleeping /\ shouldSleep
Waits  == epc = "u_wait" /\ unloadHooked

\* The flags follow the two threads; whatever the waits did.
Flags ==
    /\ shuttedDown <=> tpc \in {"write", "post", "end"}
    /\ tpc \in {"init", "phase2", "run", "check"} => stage = "install"
    /\ tpc \in {"unhost", "reread", "down", "write", "post", "end"} => stage = "remove"
    /\ epc \in Flagged => unloadFlag
    /\ unloadFlag => epc \in Flagged \cup Over
    /\ epc \in TookOver => dontWrite
    /\ dontWrite => epc \in TookOver \cup Over
    /\ dontWrite /\ ~shuttedDown => epc \in {"u_wait", "fault"}
    /\ epc \in Released => shuttedDown
    /\ c2m \in FinalCodes => shuttedDown
    /\ mem = "freed" => c2m \in FinalCodes

\* The two flags of the handshake.
Handshake ==
    /\ tpc \in {"init", "put", "phase2", "run", "check"} => ~shouldSleep /\ ~isSleeping
    /\ tpc = "ack" => hostHooked /\ shouldSleep /\ (isSleeping => epc = "loop")
    /\ tpc = "awake" => ~shouldSleep
    /\ isSleeping => epc \in {"loop", "exit", "lost"}
    /\ isSleeping /\ epc = "lost" => shuttedDown

\* What is installed, and where the engine may be, while detours come ...
Installing ==
    /\ tpc = "init" => Bare /\ Away
    /\ tpc \in {"put", "ack"} /\ stage = "install" =>
          /\ ~unloadHooked /\ installed = {} /\ (hostHooked \/ Away)
          /\ epc \notin Unloading \cup {"hook"}
    /\ tpc \in {"patch", "patch3", "resume"} /\ stage = "install" => hostHooked /\ Asleep
    /\ tpc = "awake" /\ stage = "install" => hostHooked
    /\ tpc \in {"phase2", "run"} => hostHooked

\* ... while they go ...
Removing ==
    /\ tpc = "check" => hostHooked \/ (Bare /\ Away)
    /\ tpc = "put" /\ stage = "remove" => hostHooked \/ (Bare /\ Away)
    /\ tpc \in {"patch", "patch3", "unhost"} /\ stage = "remove" =>
          (hostHooked /\ (Asleep \/ Waits)) \/ (Bare /\ Away)
    /\ tpc \in {"patch3", "unhost"} /\ stage = "remove" => (unloadHooked => Waits)
    /\ tpc = "unhost" => installed = {}
    /\ tpc = "reread" =>
          ~hostHooked /\ installed = {} /\ (Waits \/ (~unloadHooked /\ (Asleep \/ Away)))
    /\ tpc = "resume" /\ stage = "remove" => Bare /\ (Asleep \/ Away)
    /\ tpc = "awake" /\ stage = "remove" =>
          Bare /\ (Gone \/ (epc \in {"loop", "exit"} /\ isSleeping))

\* ... and once they are gone.
Removed ==
    /\ tpc = "down" => ~hostHooked /\ installed = {} /\ (Waits \/ (~unloadHooked /\ Gone))
    /\ shuttedDown =>
          /\ ~hostHooked /\ installed = {}
          /\ \/ epc \in {"u_wait", "u_call", "u_drop"} /\ unloadHooked
             \/ epc \in {"u_post", "u_tail", "tail", "out", "left", "quit"} /\ ~unloadHooked
             \/ epc = "lost"
    /\ tpc = "post" /\ ~failed => Bare /\ epc \notin Unloading

\* The engine is only where the detours that brought it there still are.
Inside ==
    /\ epc \in {"loop", "exit"} /\ ~isSleeping => hostHooked
    /\ epc = "hook" => within # {} /\ within \subseteq installed
    /\ epc \in {"u_flag", "u_end", "u_dont", "u_wait", "u_call", "u_drop"} => unloadHooked
    /\ epc # "fault"

\* One of the two threads posts, if the module was initialized.
Codes ==
    /\ c2m \in FinalCodes => tpc = "end" \/ dontWrite
    /\ tpc = "post" /\ ~failed => c2m \notin FinalCodes
    /\ epc \in TookOver \ {"u_tail"} /\ ~failed => c2m \notin FinalCodes
    /\ c2m \in {"Unloading", "Restarting"} => Bare

Synced == Handshake /\ Installing /\ Removing /\ Removed /\ Inside /\ Codes
IInv == TypeOK /\ Flags /\ (~unsynced => Synced)

\* The definitions every step of the proofs needs.
\* (A step is a conjunction over the variables; these only name groups of them.)
USE DEF tvars, evars, sleep, exit, hooks, outer, At, Goto, In, EngineGoes, Running
USE DEF FinalCodes, Unloading, InModule, Flagged, TookOver, Released, Over

-----------------------------------------------------------------------------
(* Types and flags: every step, by itself. *)

\* The type invariant is inductive by itself.
LEMMA StepTypeOK == TypeOK /\ [Next]_vars => TypeOK'
<1> SUFFICES ASSUME TypeOK, [Next]_vars PROVE TypeOK'
  OBVIOUS
<1> USE DEF TypeOK
<1>1. CASE InitFails
  BY <1>1 DEF InitFails
<1>2. CASE HookHostFrame
  BY <1>2 DEF HookHostFrame
<1>3. CASE PutEngineInSleep
  BY <1>3 DEF PutEngineInSleep
<1>4. CASE EngineAcked
  BY <1>4 DEF EngineAcked
<1>5. CASE EngineDidNotAck
  BY <1>5 DEF EngineDidNotAck
<1>6. CASE PatchOne
  BY <1>6 DEF PatchOne
<1>7. CASE PatchUnload
  BY <1>7 DEF PatchUnload
<1>8. CASE PatchDone
  BY <1>8 DEF PatchDone
<1>9. CASE UnhookHostFrame
  BY <1>9 DEF UnhookHostFrame
<1>10. CASE RereadFlag
  BY <1>10 DEF RereadFlag
<1>11. CASE ResumeEngine
  BY <1>11 DEF ResumeEngine
<1>12. CASE EngineResumed
  BY <1>12 DEF EngineResumed, AfterResume
<1>13. CASE EngineDidNotResume
  BY <1>13 DEF EngineDidNotResume, AfterResume
<1>14. CASE InitSucceeds
  BY <1>14 DEF InitSucceeds
<1>15. CASE LeaveMainLoop
  BY <1>15 DEF LeaveMainLoop
<1>16. CASE BeginShutdown
  BY <1>16 DEF BeginShutdown
<1>17. CASE ShuttedDown
  BY <1>17 DEF ShuttedDown
<1>18. CASE CheckWhoWrites
  BY <1>18 DEF CheckWhoWrites
<1>19. CASE PostLastCode
  BY <1>19 DEF PostLastCode
<1>20. CASE EngineSleeps
  BY <1>20 DEF EngineSleeps
<1>21. CASE LeaveSleepLoop
  BY <1>21 DEF LeaveSleepLoop
<1>22. CASE WakeUp
  BY <1>22 DEF WakeUp
<1>23. CASE CallFrame
  BY <1>23 DEF CallFrame
<1>24. CASE FlagUnload
  BY <1>24 DEF FlagUnload
<1>25. CASE EndExecution
  BY <1>25 DEF EndExecution
<1>26. CASE TakeOverWriting
  BY <1>26 DEF TakeOverWriting
<1>27. CASE WaitForShutdown
  BY <1>27 DEF WaitForShutdown
<1>28. CASE CallUnload
  BY <1>28 DEF CallUnload
<1>29. CASE DropUnload
  BY <1>29 DEF DropUnload
<1>30. CASE PostUnload
  BY <1>30 DEF PostUnload
<1>31. CASE Quit
  BY <1>31 DEF Quit
<1>32. CASE EngineLost
  BY <1>32 DEF EngineLost
<1>33. CASE EnterHostFrame
  BY <1>33 DEF EnterHostFrame
<1>34. CASE FrameEnds
  BY <1>34 DEF FrameEnds
<1>35. CASE EnterDetour
  BY <1>35 DEF EnterDetour
<1>36. CASE LeaveDetour
  BY <1>36 DEF LeaveDetour
<1>37. CASE RequestExit
  BY <1>37 DEF RequestExit
<1>38. CASE GameUnloads
  BY <1>38 DEF GameUnloads
<1>39. CASE LoaderFrees
  BY <1>39 DEF LoaderFrees
<1>40. CASE LeaveHostFrame
  BY <1>40 DEF LeaveHostFrame
<1>41. CASE UNCHANGED vars
  BY <1>41 DEF vars
<1> QED
  BY <1>1, <1>2, <1>3, <1>4, <1>5, <1>6, <1>7, <1>8, <1>9, <1>10, <1>11, <1>12, <1>13, <1>14,
     <1>15, <1>16, <1>17, <1>18, <1>19, <1>20, <1>21, <1>22, <1>23, <1>24, <1>25, <1>26, <1>27,
     <1>28, <1>29, <1>30, <1>31, <1>32, <1>33, <1>34, <1>35, <1>36, <1>37, <1>38, <1>39, <1>40,
     <1>41
     DEF Next, ModuleStep, EngineStep, GameStep

\* The flags follow the two threads, whatever the waits did.
LEMMA StepFlags == TypeOK /\ Flags /\ [Next]_vars => Flags'
<1> SUFFICES ASSUME TypeOK /\ Flags, [Next]_vars PROVE Flags'
  OBVIOUS
<1> USE DEF TypeOK, Flags
<1>1. CASE InitFails
  BY <1>1 DEF InitFails
<1>2. CASE HookHostFrame
  BY <1>2 DEF HookHostFrame
<1>3. CASE PutEngineInSleep
  BY <1>3 DEF PutEngineInSleep
<1>4. CASE EngineAcked
  BY <1>4 DEF EngineAcked
<1>5. CASE EngineDidNotAck
  BY <1>5 DEF EngineDidNotAck
<1>6. CASE PatchOne
  BY <1>6 DEF PatchOne
<1>7. CASE PatchUnload
  BY <1>7 DEF PatchUnload
<1>8. CASE PatchDone
  BY <1>8 DEF PatchDone
<1>9. CASE UnhookHostFrame
  BY <1>9 DEF UnhookHostFrame
<1>10. CASE RereadFlag
  BY <1>10 DEF RereadFlag
<1>11. CASE ResumeEngine
  BY <1>11 DEF ResumeEngine
<1>12. CASE EngineResumed
  BY <1>12 DEF EngineResumed, AfterResume
<1>13. CASE EngineDidNotResume
  BY <1>13 DEF EngineDidNotResume, AfterResume
<1>14. CASE InitSucceeds
  BY <1>14 DEF InitSucceeds
<1>15. CASE LeaveMainLoop
  BY <1>15 DEF LeaveMainLoop
<1>16. CASE BeginShutdown
  BY <1>16 DEF BeginShutdown
<1>17. CASE ShuttedDown
  BY <1>17 DEF ShuttedDown
<1>18. CASE CheckWhoWrites
  BY <1>18 DEF CheckWhoWrites
<1>19. CASE PostLastCode
  BY <1>19 DEF PostLastCode
<1>20. CASE EngineSleeps
  BY <1>20 DEF EngineSleeps
<1>21. CASE LeaveSleepLoop
  BY <1>21 DEF LeaveSleepLoop
<1>22. CASE WakeUp
  BY <1>22 DEF WakeUp
<1>23. CASE CallFrame
  BY <1>23 DEF CallFrame
<1>24. CASE FlagUnload
  BY <1>24 DEF FlagUnload
<1>25. CASE EndExecution
  BY <1>25 DEF EndExecution
<1>26. CASE TakeOverWriting
  BY <1>26 DEF TakeOverWriting
<1>27. CASE WaitForShutdown
  BY <1>27 DEF WaitForShutdown
<1>28. CASE CallUnload
  BY <1>28 DEF CallUnload
<1>29. CASE DropUnload
  BY <1>29 DEF DropUnload
<1>30. CASE PostUnload
  BY <1>30 DEF PostUnload
<1>31. CASE Quit
  BY <1>31 DEF Quit
<1>32. CASE EngineLost
  BY <1>32 DEF EngineLost
<1>33. CASE EnterHostFrame
  BY <1>33 DEF EnterHostFrame
<1>34. CASE FrameEnds
  BY <1>34 DEF FrameEnds
<1>35. CASE EnterDetour
  BY <1>35 DEF EnterDetour
<1>36. CASE LeaveDetour
  BY <1>36 DEF LeaveDetour
<1>37. CASE RequestExit
  BY <1>37 DEF RequestExit
<1>38. CASE GameUnloads
  BY <1>38 DEF GameUnloads
<1>39. CASE LoaderFrees
  BY <1>39 DEF LoaderFrees
<1>40. CASE LeaveHostFrame
  BY <1>40 DEF LeaveHostFrame
<1>41. CASE UNCHANGED vars
  BY <1>41 DEF vars
<1> QED
  BY <1>1, <1>2, <1>3, <1>4, <1>5, <1>6, <1>7, <1>8, <1>9, <1>10, <1>11, <1>12, <1>13, <1>14,
     <1>15, <1>16, <1>17, <1>18, <1>19, <1>20, <1>21, <1>22, <1>23, <1>24, <1>25, <1>26, <1>27,
     <1>28, <1>29, <1>30, <1>31, <1>32, <1>33, <1>34, <1>35, <1>36, <1>37, <1>38, <1>39, <1>40,
     <1>41
     DEF Next, ModuleStep, EngineStep, GameStep

-----------------------------------------------------------------------------
(* The handshake: no step breaks it unless a wait ends without an answer. *)

\* The module patches only once the engine hangs, and ends with nothing installed.
LEMMA ModuleStepSynced ==
  ASSUME TypeOK, Flags, Synced, ~unsynced', ModuleStep \/ LeaveMainLoop
  PROVE  Synced'
<1> USE DEF TypeOK, Flags, Synced, Handshake, Installing, Removing, Removed, Inside, Codes
<1> USE DEF Bare, Away, Gone, Asleep, Waits
<1>1. CASE InitFails
  BY <1>1 DEF InitFails
<1>2. CASE HookHostFrame
  BY <1>2 DEF HookHostFrame
<1>3. CASE PutEngineInSleep
  BY <1>3 DEF PutEngineInSleep
<1>4. CASE EngineAcked
  BY <1>4 DEF EngineAcked
<1>5. CASE EngineDidNotAck
  BY <1>5 DEF EngineDidNotAck
<1>6. CASE PatchOne
  BY <1>6 DEF PatchOne
<1>7. CASE PatchUnload
  BY <1>7 DEF PatchUnload
<1>8. CASE PatchDone
  BY <1>8 DEF PatchDone
<1>9. CASE UnhookHostFrame
  BY <1>9 DEF UnhookHostFrame
<1>10. CASE RereadFlag
  BY <1>10 DEF RereadFlag
<1>11. CASE ResumeEngine
  BY <1>11 DEF ResumeEngine
<1>12. CASE EngineResumed
  BY <1>12 DEF EngineResumed, AfterResume
<1>13. CASE EngineDidNotResume
  BY <1>13 DEF EngineDidNotResume, AfterResume
<1>14. CASE InitSucceeds
  BY <1>14 DEF InitSucceeds
<1>15. CASE LeaveMainLoop
  BY <1>15 DEF LeaveMainLoop
<1>16. CASE BeginShutdown
  BY <1>16 DEF BeginShutdown
<1>17. CASE ShuttedDown
  BY <1>17 DEF ShuttedDown
<1>18. CASE CheckWhoWrites
  BY <1>18 DEF CheckWhoWrites
<1>19. CASE PostLastCode
  BY <1>19 DEF PostLastCode
<1> QED
  BY <1>1, <1>2, <1>3, <1>4, <1>5, <1>6, <1>7, <1>8, <1>9, <1>10, <1>11, <1>12, <1>13, <1>14,
     <1>15, <1>16, <1>17, <1>18, <1>19
     DEF ModuleStep

\* The engine leaves its wait only when told, and posts only what the module does not.
LEMMA EngineStepSynced ==
  ASSUME TypeOK, Flags, Synced, ~unsynced', EngineStep
  PROVE  Synced'
<1> USE DEF TypeOK, Flags, Synced, Handshake, Installing, Removing, Removed, Inside, Codes
<1> USE DEF Bare, Away, Gone, Asleep, Waits
<1>1. CASE EngineSleeps
  BY <1>1 DEF EngineSleeps
<1>2. CASE LeaveSleepLoop
  BY <1>2 DEF LeaveSleepLoop
<1>3. CASE WakeUp
  BY <1>3 DEF WakeUp
<1>4. CASE CallFrame
  BY <1>4 DEF CallFrame
<1>5. CASE FlagUnload
  BY <1>5 DEF FlagUnload
<1>6. CASE EndExecution
  BY <1>6 DEF EndExecution
<1>7. CASE TakeOverWriting
  BY <1>7 DEF TakeOverWriting
<1>8. CASE WaitForShutdown
  BY <1>8 DEF WaitForShutdown
<1>9. CASE CallUnload
  BY <1>9 DEF CallUnload
<1>10. CASE DropUnload
  BY <1>10 DEF DropUnload
<1>11. CASE PostUnload
  BY <1>11 DEF PostUnload
<1>12. CASE Quit
  BY <1>12 DEF Quit
<1>13. CASE EngineLost
  BY <1>13 DEF EngineLost
<1>14. CASE LeaveHostFrame
  BY <1>14 DEF LeaveHostFrame
<1> QED
  BY <1>1, <1>2, <1>3, <1>4, <1>5, <1>6, <1>7, <1>8, <1>9, <1>10, <1>11, <1>12, <1>13,
     <1>14 DEF EngineStep

\* The game cannot enter what is not installed.
LEMMA GameStepSynced ==
  ASSUME TypeOK, Flags, Synced, ~unsynced', GameStep \/ LoaderFrees
  PROVE  Synced'
<1> USE DEF TypeOK, Flags, Synced, Handshake, Installing, Removing, Removed, Inside, Codes
<1> USE DEF Bare, Away, Gone, Asleep, Waits
<1>1. CASE EnterHostFrame
  BY <1>1 DEF EnterHostFrame
<1>2. CASE FrameEnds
  BY <1>2 DEF FrameEnds
<1>3. CASE EnterDetour
  BY <1>3 DEF EnterDetour
<1>4. CASE LeaveDetour
  BY <1>4 DEF LeaveDetour
<1>5. CASE RequestExit
  BY <1>5 DEF RequestExit
<1>6. CASE GameUnloads
  BY <1>6 DEF GameUnloads
<1>7. CASE LoaderFrees
  BY <1>7 DEF LoaderFrees
<1> QED
  BY <1>1, <1>2, <1>3, <1>4, <1>5, <1>6, <1>7 DEF GameStep

\* Nothing happens.
LEMMA StutterSynced ==
  ASSUME Synced, UNCHANGED vars
  PROVE  Synced'
  BY DEF vars, Synced, Handshake, Installing, Removing, Removed, Inside, Codes,
     Bare, Away, Gone, Asleep, Waits

-----------------------------------------------------------------------------
(* The invariant. *)

\* A wait that ended without the engine's answer is not forgotten.
LEMMA UnsyncedStays == [Next]_vars => (unsynced => unsynced')
<1> SUFFICES ASSUME [Next]_vars PROVE unsynced => unsynced'
  OBVIOUS
<1>1. CASE ModuleStep
  BY <1>1 DEF ModuleStep, InitFails, HookHostFrame, PutEngineInSleep, EngineAcked,
     EngineDidNotAck, PatchOne, PatchUnload, PatchDone, UnhookHostFrame, RereadFlag,
     ResumeEngine, EngineResumed, EngineDidNotResume, InitSucceeds, BeginShutdown,
     ShuttedDown, CheckWhoWrites, PostLastCode
<1>2. CASE LeaveMainLoop \/ LoaderFrees
  BY <1>2 DEF LeaveMainLoop, LoaderFrees
<1>3. CASE EngineStep
  BY <1>3 DEF EngineStep, EngineSleeps, LeaveSleepLoop, WakeUp, LeaveHostFrame, CallFrame,
    FlagUnload,
     EndExecution, TakeOverWriting, WaitForShutdown, CallUnload, DropUnload, PostUnload,
     Quit, EngineLost
<1>4. CASE GameStep
  BY <1>4 DEF GameStep, EnterHostFrame, FrameEnds, EnterDetour, LeaveDetour, RequestExit,
     GameUnloads
<1>5. CASE UNCHANGED vars
  BY <1>5 DEF vars
<1> QED
  BY <1>1, <1>2, <1>3, <1>4, <1>5 DEF Next

\* The module's thread starts with nothing installed and the engine outside.
LEMMA InitIInv == Init => IInv
<1> SUFFICES ASSUME Init PROVE IInv
  OBVIOUS
<1>1. TypeOK
  BY DEF Init, TypeOK
<1>2. Flags
  BY DEF Init, Flags
<1>3. Handshake /\ Installing
  BY DEF Init, Handshake, Installing, Bare, Away
<1>4. Removing /\ Removed
  BY DEF Init, Removing, Removed
<1>5. Inside /\ Codes
  BY DEF Init, Inside, Codes
<1> QED
  BY <1>1, <1>2, <1>3, <1>4, <1>5 DEF IInv, Synced

\* No step of either thread, and no free by the injector, breaks the invariant.
LEMMA StepIInv == IInv /\ [Next]_vars => IInv'
<1> SUFFICES ASSUME IInv, [Next]_vars PROVE IInv'
  OBVIOUS
<1>1. TypeOK' /\ Flags'
  BY StepTypeOK, StepFlags DEF IInv
<1>2. ASSUME ~unsynced' PROVE Synced'
  <2>1. TypeOK /\ Flags /\ Synced
    BY <1>2, UnsyncedStays DEF IInv
  <2> QED
    BY <1>2, <2>1, ModuleStepSynced, EngineStepSynced, GameStepSynced, StutterSynced
    DEF Next
<1> QED
  BY <1>1, <1>2 DEF IInv

\* In every execution: the flags follow the threads and, while every wait ended
\* with the engine's answer, what is installed and where the engine is fit.
THEOREM SpecIInv == Spec => []IInv
<1> QED
  BY InitIInv, StepIInv, PTL DEF Spec

-----------------------------------------------------------------------------
(* The properties. *)

\* Every variable keeps its type, for any set of detours.
THEOREM TypeCorrect == Spec => []TypeOK
<1>1. IInv => TypeOK
  BY DEF IInv
<1> QED
  BY <1>1, SpecIInv, PTL

\* The engine never calls the original of a detour that is removed already
\* (GenericMemoryFnDetour::call after restore_internal).
THEOREM OriginalsAreThere == Spec => []NoNullCall
<1>1. IInv => NoNullCall
  BY DEF IInv, Synced, Inside, NoNullCall
<1> QED
  BY <1>1, SpecIInv, PTL

\* C2I_Unloading and C2I_Restarting are posted with every detour removed, by
\* COxWare::run as well as by the CEngine__Unload detour.
THEOREM HooksGoneBeforePost == Spec => []UnhookedBeforePost
<1>1. IInv => UnhookedBeforePost
  BY DEF IInv, Synced, Codes, Bare, UnhookedBeforePost
<1> QED
  BY <1>1, SpecIInv, PTL

\* CMemoryFnDetourMgr patches detours only while the engine hangs in its frame
\* or in CEngine__Unload.
THEOREM PatchesAreSafe == Spec => PatchedWhileHanging
<1>1. IInv /\ [Next]_vars => [installed' # installed => unsynced \/ Hanging]_vars
  <2> SUFFICES ASSUME IInv, [Next]_vars, installed' # installed, ~unsynced PROVE Hanging
    BY DEF vars
  <2>1. PatchOne
    BY DEF Next, vars, ModuleStep, InitFails, HookHostFrame, PutEngineInSleep, EngineAcked,
       EngineDidNotAck, PatchUnload, PatchDone, UnhookHostFrame, RereadFlag,
       ResumeEngine, EngineResumed, EngineDidNotResume, InitSucceeds, BeginShutdown,
       ShuttedDown, CheckWhoWrites, PostLastCode, LeaveMainLoop, LoaderFrees,
       EngineStep, EngineSleeps, LeaveSleepLoop, WakeUp, LeaveHostFrame, CallFrame, FlagUnload,
       EndExecution, TakeOverWriting, WaitForShutdown, CallUnload, DropUnload, PostUnload,
       Quit, EngineLost, GameStep, EnterHostFrame, FrameEnds, EnterDetour, LeaveDetour,
       RequestExit, GameUnloads
  <2>2. tpc \in {"patch", "patch3"} /\ stage \in {"install", "remove"}
    BY <2>1 DEF PatchOne, IInv, TypeOK
  <2>3. CASE stage = "install"
    BY <2>2, <2>3 DEF IInv, Synced, Installing, Asleep, Hanging
  <2>4. CASE stage = "remove"
    <3>1. installed # {}
      BY <2>1, <2>4 DEF PatchOne
    <3>2. Asleep \/ Waits
      BY <2>2, <2>4, <3>1 DEF IInv, Synced, Removing, Bare
    <3>3. ~shuttedDown
      BY <2>2 DEF IInv, Flags
    <3> QED
      BY <3>2, <3>3 DEF Asleep, Waits, Hanging
  <2> QED
    BY <2>2, <2>3, <2>4
<1> QED
  BY <1>1, SpecIInv, PTL DEF Spec, PatchedWhileHanging

\* The first final code of an initialized module stays: of COxWare::run and the
\* CEngine__Unload detour only one writes.
THEOREM EndReportedOnce == Spec => OneLastCode
<1>1. IInv /\ [Next]_vars =>
        [~failed /\ ~unsynced /\ c2m \in FinalCodes => c2m' = c2m]_vars
  <2> SUFFICES ASSUME IInv, [Next]_vars, ~failed, ~unsynced, c2m \in FinalCodes
               PROVE  c2m' = c2m
    OBVIOUS
  <2>1. ~InitSucceeds
    BY DEF IInv, Flags, InitSucceeds
  <2>2. ~PostLastCode
    BY DEF IInv, Synced, Codes, PostLastCode
  <2>3. ~PostUnload
    BY DEF IInv, Synced, Codes, PostUnload
  <2> QED
    BY <2>1, <2>2, <2>3
    DEF Next, vars, ModuleStep, InitFails, HookHostFrame, PutEngineInSleep, EngineAcked,
       EngineDidNotAck, PatchOne, PatchUnload, PatchDone, UnhookHostFrame, RereadFlag,
       ResumeEngine, EngineResumed, EngineDidNotResume, BeginShutdown,
       ShuttedDown, CheckWhoWrites, LeaveMainLoop, LoaderFrees,
       EngineStep, EngineSleeps, LeaveSleepLoop, WakeUp, LeaveHostFrame, CallFrame, FlagUnload,
       EndExecution, TakeOverWriting, WaitForShutdown, CallUnload, DropUnload,
       Quit, EngineLost, GameStep, EnterHostFrame, FrameEnds, EnterDetour, LeaveDetour,
       RequestExit, GameUnloads
<1> QED
  BY <1>1, SpecIInv, PTL DEF Spec, OneLastCode

\* The module's memory is freed after the engine's thread has left it and the module's
\* own has done its work, or in one of the four ways the property names.
THEOREM FreedAfterBoth == Spec => FreedWhenLeft
<1>1. IInv /\ [Next]_vars => [mem' # mem => unsynced \/ BothLeft]_vars
  <2> SUFFICES ASSUME IInv, [Next]_vars, mem' # mem, ~unsynced PROVE BothLeft
    OBVIOUS
  <2>1. LoaderFrees
    BY DEF Next, vars, ModuleStep, InitFails, HookHostFrame, PutEngineInSleep, EngineAcked,
       EngineDidNotAck, PatchOne, PatchUnload, PatchDone, UnhookHostFrame, RereadFlag,
       ResumeEngine, EngineResumed, EngineDidNotResume, InitSucceeds, BeginShutdown,
       ShuttedDown, CheckWhoWrites, PostLastCode, LeaveMainLoop, EngineStep, EngineSleeps,
       LeaveSleepLoop, WakeUp, LeaveHostFrame, CallFrame, FlagUnload, EndExecution, TakeOverWriting,
       WaitForShutdown, CallUnload, DropUnload, PostUnload, Quit, EngineLost, GameStep,
       EnterHostFrame, FrameEnds, EnterDetour, LeaveDetour, RequestExit, GameUnloads
  <2>2. c2m \in FinalCodes /\ shuttedDown
    BY <2>1 DEF IInv, Flags, LoaderFrees
  <2>3. epc \in InModule => epc \in Unloading \cup {"tail"}
    BY <2>2 DEF IInv, Synced, Removed
  <2>4. epc \in Unloading /\ ~failed => epc = "u_tail"
    BY <2>2 DEF IInv, Synced, Removed, Codes
  <2>5. tpc = "end" \/ dontWrite
    BY <2>2 DEF IInv, Synced, Codes
  <2> QED
    BY <2>3, <2>4, <2>5 DEF BothLeft
<1> QED
  BY <1>1, SpecIInv, PTL DEF Spec, FreedWhenLeft


-----------------------------------------------------------------------------
(* EngineSync implements Standstill: the detours come off, and what lies behind *)
(* them, while the engine stands still.                                         *)

LEMMA StandstillInit == Init => Still!Init
  BY DEF Init, Still!Init, Phase, EnginePlace, NoDetour, Hanging

\* Before the shutdown has the engine's answer everything may happen.
LEMMA StillWorking ==
  ASSUME Phase = "working", Phase' = "working", UNCHANGED unsynced
  PROVE  Still!Next
<1>1. EnginePlace' \in {"away", "free", "stands", "leaving"}
  BY DEF EnginePlace
<1>2. Still!Work
  BY <1>1 DEF Still!Work
<1> QED
  BY <1>2 DEF Still!Next

\* Only the module's thread goes from one phase to another, and only in these steps.
LEMMA PhaseSteps ==
  ASSUME Flags, [Next]_vars, Phase' # Phase
  PROVE  \/ PutEngineInSleep \/ EngineAcked \/ EngineDidNotAck \/ BeginShutdown
         \/ (RereadFlag \/ ResumeEngine) /\ stage # "install"
<1>1. tpc' # tpc \/ stage' # stage
  BY DEF Phase
<1>2. ModuleStep \/ LeaveMainLoop
  BY <1>1
     DEF Next, vars, EngineStep, EngineSleeps, LeaveSleepLoop, WakeUp, LeaveHostFrame, CallFrame,
         FlagUnload,
         EndExecution, TakeOverWriting, WaitForShutdown, CallUnload, DropUnload, PostUnload,
         Quit, EngineLost, GameStep, EnterHostFrame, FrameEnds, EnterDetour, LeaveDetour,
         RequestExit, GameUnloads, LoaderFrees
<1>3. ~InitFails /\ ~HookHostFrame /\ ~InitSucceeds /\ ~LeaveMainLoop
  BY DEF Flags, Phase, InitFails, HookHostFrame, InitSucceeds, LeaveMainLoop
<1>4. ~PatchOne /\ ~PatchUnload /\ ~PatchDone /\ ~UnhookHostFrame
  BY DEF Flags, Phase, PatchOne, PatchUnload, PatchDone, UnhookHostFrame
<1>5. ~EngineResumed /\ ~EngineDidNotResume
  BY DEF Flags, Phase, EngineResumed, EngineDidNotResume, AfterResume
<1>6. ~ShuttedDown /\ ~CheckWhoWrites /\ ~PostLastCode
  BY DEF Flags, Phase, ShuttedDown, CheckWhoWrites, PostLastCode
<1>7. RereadFlag \/ ResumeEngine => stage # "install"
  BY DEF Phase, RereadFlag, ResumeEngine
<1> QED
  BY <1>2, <1>3, <1>4, <1>5, <1>6, <1>7 DEF ModuleStep

\* The last step before the module is taken apart finds the engine at rest.
LEMMA StillDismantles ==
  ASSUME IInv, [Next]_vars, ~unsynced', Phase = "working", Phase' # "working"
  PROVE  Still!Next
<1>1. TypeOK /\ Flags /\ Synced /\ unsynced = FALSE
  BY UnsyncedStays DEF IInv, TypeOK
<1> USE DEF TypeOK, Flags, Synced, Handshake, Installing, Removing, Inside
<1> USE DEF Bare, Away, Gone, Asleep, Waits, Phase, EnginePlace, NoDetour, Hanging
<1>2. CASE PutEngineInSleep
  BY <1>1, <1>2 DEF PutEngineInSleep, Still!Dismantle, Still!Next
<1>3. CASE EngineAcked
  BY <1>1, <1>3 DEF EngineAcked, Still!Dismantle, Still!Next
<1>4. CASE EngineDidNotAck
  BY <1>1, <1>4 DEF EngineDidNotAck, Still!Dismantle, Still!Next
<1>5. CASE BeginShutdown
  BY <1>1, <1>5 DEF BeginShutdown, Still!Dismantle, Still!Next
<1>6. ~RereadFlag /\ ~ResumeEngine
  BY <1>1 DEF RereadFlag, ResumeEngine
<1> QED
  BY <1>1, <1>2, <1>3, <1>4, <1>5, <1>6, PhaseSteps

\* While it is taken apart, the engine either stands still, waiting for the flag that the
\* module has not set, or has nothing to come in by; and stays as it is.
LEMMA StillRests ==
  ASSUME IInv, [Next]_vars, ~unsynced', Phase = "dismantling", Phase' = Phase
  PROVE  EnginePlace' = EnginePlace
<1>1. TypeOK /\ Flags /\ Synced /\ unsynced = FALSE
  BY UnsyncedStays DEF IInv, TypeOK
<1>2. tpc \in {"patch", "patch3", "unhost", "reread", "resume"} /\ stage = "remove"
  BY <1>1 DEF TypeOK, Phase
<1>3. \/ epc = "loop" /\ isSleeping /\ shouldSleep
      \/ epc = "u_wait" /\ ~shuttedDown
      \/ epc \in {"out", "left", "quit"} /\ NoDetour
  BY <1>1, <1>2 DEF Flags, Synced, Removing, Bare, Away, Asleep, Waits, NoDetour
<1>4. CASE ModuleStep \/ LeaveMainLoop
  <2>1. UNCHANGED <<epc, isSleeping, shuttedDown>>
    BY <1>2, <1>4
       DEF ModuleStep, InitFails, HookHostFrame, PutEngineInSleep,
           EngineAcked, EngineDidNotAck, PatchOne, PatchUnload, PatchDone, UnhookHostFrame,
           RereadFlag, ResumeEngine, EngineResumed, EngineDidNotResume, InitSucceeds,
           BeginShutdown, ShuttedDown, CheckWhoWrites, PostLastCode, LeaveMainLoop
  <2>2. NoDetour => NoDetour'
    <3>1. CASE PatchOne
      BY <1>2, <3>1 DEF PatchOne, NoDetour
    <3>2. CASE PatchUnload
      BY <1>2, <3>2 DEF PatchUnload, NoDetour
    <3>3. CASE UnhookHostFrame
      BY <3>3 DEF UnhookHostFrame, NoDetour
    <3>4. CASE ~PatchOne /\ ~PatchUnload /\ ~UnhookHostFrame
      <4>1. UNCHANGED hooks
        BY <1>2, <1>4, <3>4
           DEF ModuleStep, InitFails, HookHostFrame, PutEngineInSleep, EngineAcked,
               EngineDidNotAck, PatchDone, RereadFlag, ResumeEngine, EngineResumed,
               EngineDidNotResume, InitSucceeds, BeginShutdown, ShuttedDown, CheckWhoWrites,
               PostLastCode, LeaveMainLoop
      <4> QED
        BY <4>1 DEF NoDetour
    <3> QED
      BY <3>1, <3>2, <3>3, <3>4
  <2>3. shouldSleep' = shouldSleep
    BY <1>2, <1>4
       DEF Phase, ModuleStep, InitFails, HookHostFrame, PutEngineInSleep,
           EngineAcked, EngineDidNotAck, PatchOne, PatchUnload, PatchDone, UnhookHostFrame,
           RereadFlag, ResumeEngine, EngineResumed, EngineDidNotResume, InitSucceeds,
           BeginShutdown, ShuttedDown, CheckWhoWrites, PostLastCode, LeaveMainLoop
  <2> QED
    BY <1>3, <2>1, <2>2, <2>3 DEF EnginePlace, Hanging
<1>5. CASE EngineStep \/ GameStep
  <2>1. mem = "mapped" /\ ~shuttedDown
    BY <1>1, <1>2 DEF TypeOK, Flags
  <2>2. CASE epc \in {"loop", "u_wait"}
    <3>1. UNCHANGED <<epc, shouldSleep, shuttedDown>> /\ (isSleeping => isSleeping')
      BY <1>3, <1>5, <2>1, <2>2
         DEF EngineStep, EngineSleeps, LeaveSleepLoop, WakeUp, LeaveHostFrame, CallFrame,
             FlagUnload,
             EndExecution, TakeOverWriting, WaitForShutdown, CallUnload, DropUnload,
             PostUnload, Quit, EngineLost, GameStep, EnterHostFrame, FrameEnds, EnterDetour,
             LeaveDetour, RequestExit, GameUnloads
    <3> QED
      BY <1>3, <2>2, <3>1 DEF EnginePlace, Hanging
  <2>3. CASE epc \in {"out", "left", "quit"}
    <3>1. epc' \in {"out", "left", "quit"} /\ UNCHANGED hooks
      BY <1>3, <1>5, <2>3
         DEF NoDetour, EngineStep, EngineSleeps, LeaveSleepLoop, WakeUp, LeaveHostFrame, CallFrame,
             FlagUnload, EndExecution, TakeOverWriting, WaitForShutdown, CallUnload,
             DropUnload, PostUnload, Quit, EngineLost, GameStep, EnterHostFrame, FrameEnds,
             EnterDetour, LeaveDetour, RequestExit, GameUnloads
    <3> QED
      BY <1>3, <2>3, <3>1 DEF EnginePlace, Hanging, NoDetour
  <2> QED
    BY <1>3, <2>2, <2>3
<1>6. CASE LoaderFrees \/ UNCHANGED vars
  BY <1>6 DEF LoaderFrees, vars, EnginePlace, Hanging, NoDetour
<1> QED
  BY <1>4, <1>5, <1>6 DEF Next

\* The dismantling ends with the engine let go, or told so by the flag of the shutdown.
LEMMA StillFinishes ==
  ASSUME IInv, [Next]_vars, ~unsynced', Phase = "dismantling", Phase' # Phase
  PROVE  Still!Next
<1>1. TypeOK /\ Flags /\ unsynced = FALSE /\ unsynced' = FALSE
  BY UnsyncedStays, StepIInv DEF IInv, TypeOK
<1>2. tpc \in {"reread", "resume"} /\ stage = "remove" /\ (RereadFlag \/ ResumeEngine)
  BY <1>1, PhaseSteps
     DEF TypeOK, Phase, PutEngineInSleep, EngineAcked, EngineDidNotAck, BeginShutdown,
         RereadFlag, ResumeEngine
<1>3. Phase' = "over"
  BY <1>2 DEF Phase, RereadFlag, ResumeEngine
<1>4. EnginePlace' = EnginePlace \/ (EnginePlace = "stands" /\ EnginePlace' = "leaving")
  BY <1>2 DEF RereadFlag, ResumeEngine, EnginePlace, Hanging, NoDetour
<1>5. Still!Finish
  BY <1>1, <1>3, <1>4 DEF Still!Finish
<1> QED
  BY <1>5 DEF Still!Next

\* Afterwards the engine only goes on its way out.
LEMMA StillLeaves ==
  ASSUME IInv, [Next]_vars, ~unsynced', Phase = "over"
  PROVE  Still!Next \/ UNCHANGED Still!vars
<1>1. TypeOK /\ Flags /\ Synced /\ unsynced = FALSE /\ unsynced' = FALSE
  BY UnsyncedStays, StepIInv DEF IInv, TypeOK
<1>2. tpc \in {"awake", "down", "write", "post", "end"} /\ stage = "remove"
  BY <1>1 DEF TypeOK, Flags, Phase
<1>3. Phase' = "over"
  BY <1>1, <1>2, PhaseSteps
     DEF PutEngineInSleep, EngineAcked, EngineDidNotAck, BeginShutdown, RereadFlag,
         ResumeEngine
<1>4. \/ epc \in {"out", "left", "quit"} /\ NoDetour
      \/ epc = "lost"
      \/ epc = "u_wait"
      \/ epc \in Released /\ shuttedDown
      \/ epc \in {"loop", "exit"} /\ isSleeping /\ ~shouldSleep /\ NoDetour
      \/ epc = "tail" /\ NoDetour
  BY <1>1, <1>2
     DEF Flags, Synced, Handshake, Removing, Removed, Bare, Away, Gone, Waits, NoDetour
<1>5. SUFFICES
        \/ EnginePlace' = EnginePlace
        \/ EnginePlace = "stands" /\ EnginePlace' = "leaving"
        \/ EnginePlace = "leaving" /\ EnginePlace' = "away"
  BY <1>1, <1>3 DEF Still!LetGo, Still!Leave, Still!Next, Still!vars
<1>6. CASE ModuleStep \/ LeaveMainLoop
  <2>1. UNCHANGED <<epc, sleep, hooks>> /\ (shuttedDown => shuttedDown')
    BY <1>1, <1>2, <1>6
       DEF TypeOK, ModuleStep, InitFails, HookHostFrame, PutEngineInSleep, EngineAcked,
           EngineDidNotAck, PatchOne, PatchUnload, PatchDone, UnhookHostFrame, RereadFlag,
           ResumeEngine, EngineResumed, EngineDidNotResume, InitSucceeds, BeginShutdown,
           ShuttedDown, CheckWhoWrites, PostLastCode, LeaveMainLoop
  <2> QED
    BY <1>4, <2>1 DEF EnginePlace, Hanging, NoDetour
<1>7. CASE EngineStep \/ GameStep
  <2>1. CASE epc \in {"out", "left", "quit", "lost"}
    <3>1. epc' \in {"out", "left", "quit", "lost"} /\ UNCHANGED hooks
          /\ (epc' = "out" => epc = "out")
      BY <1>4, <1>7, <2>1
         DEF NoDetour, EngineStep, EngineSleeps, LeaveSleepLoop, WakeUp, LeaveHostFrame, CallFrame,
             FlagUnload, EndExecution, TakeOverWriting, WaitForShutdown, CallUnload,
             DropUnload, PostUnload, Quit, EngineLost, GameStep, EnterHostFrame, FrameEnds,
             EnterDetour, LeaveDetour, RequestExit, GameUnloads
    <3> QED
      BY <1>4, <2>1, <3>1 DEF EnginePlace, Hanging, NoDetour
  <2>2. CASE epc \in {"loop", "exit"}
    <3>1. /\ \/ epc' \in {"loop", "exit"} /\ isSleeping'
             \/ epc' \in {"tail", "lost"}
          /\ UNCHANGED <<hooks, shouldSleep>>
      BY <1>4, <1>7, <2>2
         DEF EngineStep, EngineSleeps, LeaveSleepLoop, WakeUp, LeaveHostFrame, CallFrame,
             FlagUnload, EndExecution, TakeOverWriting, WaitForShutdown, CallUnload,
             DropUnload, PostUnload, Quit, EngineLost, GameStep, EnterHostFrame, FrameEnds,
             EnterDetour, LeaveDetour, RequestExit, GameUnloads
    <3> QED
      BY <1>4, <2>2, <3>1 DEF EnginePlace, Hanging, NoDetour
  <2>3. CASE epc = "tail"
    <3>1. epc' \in {"tail", "out", "lost"} /\ UNCHANGED hooks
      BY <1>4, <1>7, <2>3
         DEF EngineStep, EngineSleeps, LeaveSleepLoop, WakeUp, LeaveHostFrame, CallFrame,
             FlagUnload, EndExecution, TakeOverWriting, WaitForShutdown, CallUnload,
             DropUnload, PostUnload, Quit, EngineLost, GameStep, EnterHostFrame, FrameEnds,
             EnterDetour, LeaveDetour, RequestExit, GameUnloads
    <3> QED
      BY <1>4, <2>3, <3>1 DEF EnginePlace, Hanging, NoDetour
  <2>4. CASE epc \in Unloading
    <3>1. mem = "freed" => shuttedDown
      BY <1>1 DEF Flags
    <3>2. /\ UNCHANGED shuttedDown
          /\ \/ epc' = epc
             \/ epc' \in Released \cup {"left", "quit", "lost"} /\ shuttedDown
      BY <1>1, <1>4, <1>7, <2>4, <3>1
         DEF Synced, Inside, EngineStep, EngineSleeps, LeaveSleepLoop, WakeUp, LeaveHostFrame,
             CallFrame,
             FlagUnload, EndExecution, TakeOverWriting, WaitForShutdown, CallUnload,
             DropUnload, PostUnload, Quit, EngineLost, GameStep, EnterHostFrame, FrameEnds,
             EnterDetour, LeaveDetour, RequestExit, GameUnloads
    <3> QED
      BY <1>4, <2>4, <3>2 DEF EnginePlace, Hanging
  <2> QED
    BY <1>4, <2>1, <2>2, <2>3, <2>4
<1>8. CASE LoaderFrees \/ UNCHANGED vars
  BY <1>8 DEF LoaderFrees, vars, EnginePlace, Hanging, NoDetour
<1> QED
  BY <1>6, <1>7, <1>8 DEF Next

LEMMA StillStep == IInv /\ [Next]_vars => [Still!Next]_Still!vars
<1> SUFFICES ASSUME IInv, [Next]_vars PROVE Still!Next \/ UNCHANGED Still!vars
  OBVIOUS
<1>1. IInv' /\ (unsynced => unsynced')
  BY StepIInv, UnsyncedStays
<1>2. CASE unsynced'
  <2>1. Still!Break
    BY <1>1, <1>2 DEF IInv, TypeOK, Still!Break
  <2> QED
    BY <2>1 DEF Still!Next
<1>3. CASE ~unsynced'
  <2>1. unsynced' = unsynced
    BY <1>1, <1>3 DEF IInv, TypeOK
  <2>2. CASE Phase = "working"
    BY <1>3, <2>1, <2>2, StillWorking, StillDismantles
  <2>3. CASE Phase = "dismantling"
    <3>1. CASE Phase' = Phase
      BY <1>3, <2>1, <2>3, <3>1, StillRests DEF Still!vars
    <3>2. CASE Phase' # Phase
      BY <1>3, <2>3, <3>2, StillFinishes
    <3> QED
      BY <3>1, <3>2
  <2>4. CASE Phase = "over"
    BY <1>3, <2>4, StillLeaves
  <2> QED
    BY <2>2, <2>3, <2>4 DEF Phase
<1> QED
  BY <1>2, <1>3

\* The handshake of CEngineSynchronization keeps what Standstill says, whatever the engine
\* is doing when the module is to end, up to the first wait that nobody answered.
THEOREM KeepsStandstill == Spec => ImplementsStandstill
<1>1. ImplementsStandstill <=> Still!Init /\ [][Still!Next]_Still!vars
  BY DEF ImplementsStandstill, Still!Spec
<1> QED
  BY <1>1, StandstillInit, StillStep, SpecIInv, PTL DEF Spec

=============================================================================
