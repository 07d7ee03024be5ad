--------------------------- MODULE UiSession_proofs ----------------------------
(***************************************************************************)
(* Theorems about UiSession, for all messages of the window: the type      *)
(* invariant and the four safety properties of the run, and that it        *)
(* implements Standstill.                                                  *)
(*                                                                         *)
(* The inductive invariant has three parts: which libraries are there at   *)
(* each place of the module's thread; that the engine's thread is in its   *)
(* sleep or in CEngine__Unload whenever the module takes something down    *)
(* that it could be using (Away), and stays there; and what is left of the *)
(* interface at each step of that.                                         *)
(***************************************************************************)
EXTENDS UiSession, TLAPS

Loading == {"begin", "util", "deps"}
Ended == {"resume", "awake", "gone"}
Freeing == {"free"} \cup Ended
Torn == Teardown \cup {"hooks"} \cup Freeing    \* after the engine's answer
Alone == Torn \ {"awake", "gone"}               \* before it is let go

Libraries ==
    /\ mpc = "begin" => \A l \in Libs : libs[l] = "absent" /\ ~pointers[l]
    /\ mpc = "util" => libs["util"] = "listed" /\ libs["gui"] = "absent" /\ ~pointers["gui"]
    /\ mpc \in {"deps", "phase2", "run"} \/ hooked => \A l \in Libs : libs[l] = "listed"
    /\ inits > 0 => \A l \in Libs : libs[l] \in {"listed", "freed"}
    /\ \A l \in Libs : libs[l] = "freed" => mpc \in Freeing
    /\ \A l \in Libs : pointers[l] /\ mpc # "free" => Mapped(l)
    /\ mpc \in Ended => \A l \in Libs : libs[l] # "listed" /\ ~pointers[l]
    /\ mpc \in Loading => ~hooked /\ inits = 0
    /\ mpc \in {"phase2", "run", "ack"} => hooked
    /\ mpc \in Freeing => ~hooked
    /\ inits > 0 => hooked \/ mpc \in Freeing

\* Where the engine is.
Away ==
    /\ mpc \in Alone => epc \in {"asleep", "quit"} \/ (~hooked /\ inits = 0)
    /\ epc = "asleep" => shouldSleep \/ mpc = "awake"
    /\ shouldSleep => mpc \in Torn \cup {"ack"}
    /\ shouldSleep /\ mpc \in {"awake", "gone"} => Quitting
    /\ Quitting => at = "out"
    /\ epc = "closed" => mpc = "gone"

\* What there is of the interface.
Interface ==
    /\ inits <= 1
    /\ inited \/ gl => inits = 1
    /\ inits = 0 =>
          /\ ~contexts /\ ~layer /\ ~active /\ input
          /\ wndproc = "game" /\ at = "out"
    /\ inits = 1 /\ ~inited => mpc \in {"hooks"} \cup Freeing
    /\ layer => inited
    /\ wndproc = "hook" => saved = "game"
    /\ mpc \in Teardown \ {"input"} => gl
    /\ gl /\ mpc \in Torn \ {"input"} => input
    /\ gl => (contexts <=> mpc \notin Torn \ {"input", "contexts"})
    /\ gl /\ mpc \in Torn \ {"input", "contexts", "unhook"} => wndproc = "game"
    /\ gl /\ mpc \in {"hooks"} \cup Freeing => ~layer

\* A message that is on its way; an engine that does not pump is awake then.
OnItsWay ==
    at # "out" /\ ~pumps /\ gl =>
        epc = "frame" /\ mpc \notin Torn /\ saved = "game"

IInv == TypeOK /\ Libraries /\ Away /\ Interface /\ OnItsWay /\ QuietTeardown

\* The definitions every step of the proofs needs.
\* (A step is a conjunction over the variables; these only name groups of them.)
USE DEF module, ui, window, message, vars, Libs, Teardown, Mapped, Quitting, Go, ModuleOnly,
        UiOnly, Between, EngineOnly, Inside, Leave

-----------------------------------------------------------------------------
(* Each part of the invariant is kept by every step. *)

\* Types.
LEMMA StepTypeOK == IInv /\ [Next]_vars => TypeOK'
<1> SUFFICES ASSUME IInv, [Next]_vars PROVE TypeOK'
  OBVIOUS
<1> USE DEF IInv, TypeOK, ModulePlaces, Messages
<1>1. CASE LoadUtil
  <2>1. mpc' \in ModulePlaces
    BY <1>1 DEF LoadUtil, Load
  <2>2. libs' \in [Libs -> {"absent", "mapped", "listed", "freed"}]
    BY <1>1 DEF LoadUtil, Load
  <2>3. pointers' \in [Libs -> BOOLEAN]
    <3>1. PICK set \in BOOLEAN : pointers' = [pointers EXCEPT !["util"] = set] \/ UNCHANGED pointers
      BY <1>1 DEF LoadUtil, Load
    <3> QED
      BY <3>1
  <2> QED
    BY <1>1, <2>1, <2>2, <2>3 DEF LoadUtil
<1>2. CASE LoadGui
  <2>1. mpc' \in ModulePlaces
    BY <1>2 DEF LoadGui, Load
  <2>2. libs' \in [Libs -> {"absent", "mapped", "listed", "freed"}]
    BY <1>2 DEF LoadGui, Load
  <2>3. pointers' \in [Libs -> BOOLEAN]
    <3>1. PICK set \in BOOLEAN : pointers' = [pointers EXCEPT !["gui"] = set] \/ UNCHANGED pointers
      BY <1>2 DEF LoadGui, Load
    <3> QED
      BY <3>1
  <2> QED
    BY <1>2, <2>1, <2>2, <2>3 DEF LoadGui
<1>3. CASE CheckFails
  BY <1>3 DEF CheckFails
<1>4. CASE InstallHooks
  BY <1>4 DEF InstallHooks
<1>5. CASE Phase2
  BY <1>5 DEF Phase2
<1>6. CASE LeaveLoop
  BY <1>6 DEF LeaveLoop
<1>7. CASE HangEngine
  BY <1>7 DEF HangEngine
<1>8. CASE EngineAcked
  BY <1>8 DEF EngineAcked
<1>9. CASE NothingToDestroy
  BY <1>9 DEF NothingToDestroy
<1>10. CASE GiveInputBack
  BY <1>10 DEF GiveInputBack
<1>11. CASE DestroyContexts
  BY <1>11 DEF DestroyContexts
<1>12. CASE UnhookWindow
  BY <1>12 DEF UnhookWindow
<1>13. CASE ForgetProcedure
  BY <1>13 DEF ForgetProcedure
<1>14. CASE DestroyLayer
  BY <1>14 DEF DestroyLayer
<1>15. CASE RemoveHooks
  BY <1>15 DEF RemoveHooks
<1>16. ASSUME NEW l \in Libs, FreeLibrary(l) PROVE TypeOK'
  BY <1>16 DEF FreeLibrary
<1>17. CASE ClearPointers
  BY <1>17 DEF ClearPointers
<1>18. CASE ResumeEngine
  BY <1>18 DEF ResumeEngine
<1>19. CASE EngineResumed
  BY <1>19 DEF EngineResumed
<1>20. CASE InitUI
  <2>1. /\ inited' \in BOOLEAN /\ contexts' \in BOOLEAN /\ layer' \in BOOLEAN /\ gl' \in BOOLEAN
        /\ UNCHANGED <<menu, active, input, hooked, exiting, shouldSleep, pumps>>
    BY <1>20 DEF InitUI
  <2>2. {hooked', exiting', shouldSleep', inited', gl', contexts', layer', menu', active', input',
         pumps'} \subseteq BOOLEAN
    BY <2>1
  <2>3. wndproc' \in {"game", "hook"} /\ saved' \in {"null", "game"}
    BY <1>20 DEF InitUI, Interface, Away, Libraries, Torn, Alone, Freeing, Ended
  <2> QED
    BY <1>20, <2>2, <2>3 DEF InitUI
<1>21. CASE RunUI
  BY <1>21 DEF RunUI
<1>22. CASE RequestExit
  BY <1>22 DEF RequestExit
<1>23. CASE Sleep
  BY <1>23 DEF Sleep
<1>24. CASE Wake
  BY <1>24 DEF Wake
<1>25. CASE Quit
  BY <1>25 DEF Quit
<1>26. CASE Close
  BY <1>26 DEF Close
<1>27. ASSUME NEW m \in Messages, Dispatch(m) PROVE TypeOK'
  BY <1>27 DEF Dispatch
<1>28. CASE RunCallbacks
  BY <1>28 DEF RunCallbacks
<1>29. CASE RunReturnCallback
  BY <1>29 DEF RunReturnCallback
<1>30. CASE CallGame
  BY <1>30 DEF CallGame
<1>31. CASE RunFreed
  BY <1>31 DEF RunFreed
<1>32. CASE UNCHANGED vars
  BY <1>32
<1>33. QED
  BY <1>1, <1>2, <1>3, <1>4, <1>5, <1>6, <1>7, <1>8, <1>9, <1>10, <1>11, <1>12, <1>13, <1>14,
     <1>15, <1>16, <1>17, <1>18, <1>19, <1>20, <1>21, <1>22, <1>23, <1>24, <1>25, <1>26, <1>27,
     <1>28, <1>29, <1>30, <1>31, <1>32
     DEF Next, ModuleNext, EngineNext, InMessage

\* The libraries.
LEMMA StepLibraries == IInv /\ [Next]_vars => Libraries'
<1> SUFFICES ASSUME IInv, [Next]_vars PROVE Libraries'
  OBVIOUS
<1> USE DEF IInv, TypeOK, Libraries, Loading, Ended, Freeing, Torn, Alone
<1>1. CASE LoadUtil
  BY <1>1 DEF LoadUtil, Load
<1>2. CASE LoadGui
  BY <1>2 DEF LoadGui, Load
<1>3. CASE CheckFails
  BY <1>3 DEF CheckFails
<1>4. CASE InstallHooks
  BY <1>4 DEF InstallHooks
<1>5. CASE Phase2
  BY <1>5 DEF Phase2
<1>6. CASE LeaveLoop
  BY <1>6 DEF LeaveLoop
<1>7. CASE HangEngine
  BY <1>7 DEF HangEngine, Away, Interface
<1>8. CASE EngineAcked
  BY <1>8 DEF EngineAcked, Away, Interface
<1>9. CASE NothingToDestroy
  BY <1>9 DEF NothingToDestroy, Away, Interface
<1>10. CASE GiveInputBack
  BY <1>10 DEF GiveInputBack, Away, Interface
<1>11. CASE DestroyContexts
  BY <1>11 DEF DestroyContexts
<1>12. CASE UnhookWindow
  BY <1>12 DEF UnhookWindow
<1>13. CASE ForgetProcedure
  BY <1>13 DEF ForgetProcedure
<1>14. CASE DestroyLayer
  BY <1>14 DEF DestroyLayer
<1>15. CASE RemoveHooks
  BY <1>15 DEF RemoveHooks, Away, Interface
<1>16. ASSUME NEW l \in Libs, FreeLibrary(l) PROVE Libraries'
  BY <1>16 DEF FreeLibrary
<1>17. CASE ClearPointers
  BY <1>17 DEF ClearPointers
<1>18. CASE ResumeEngine
  BY <1>18 DEF ResumeEngine
<1>19. CASE EngineResumed
  BY <1>19 DEF EngineResumed
<1>20. CASE InitUI
  BY <1>20 DEF InitUI, Away, Interface
<1>21. CASE RunUI
  BY <1>21 DEF RunUI
<1>22. CASE RequestExit
  BY <1>22 DEF RequestExit
<1>23. CASE Sleep
  BY <1>23 DEF Sleep, Away, Interface
<1>24. CASE Wake
  BY <1>24 DEF Wake
<1>25. CASE Quit
  BY <1>25 DEF Quit
<1>26. CASE Close
  BY <1>26 DEF Close
<1>27. ASSUME NEW m \in Messages, Dispatch(m) PROVE Libraries'
  BY <1>27 DEF Dispatch
<1>28. CASE RunCallbacks
  BY <1>28 DEF RunCallbacks
<1>29. CASE RunReturnCallback
  BY <1>29 DEF RunReturnCallback
<1>30. CASE CallGame
  BY <1>30 DEF CallGame
<1>31. CASE RunFreed
  BY <1>31 DEF RunFreed
<1>32. CASE UNCHANGED vars
  BY <1>32
<1>33. QED
  BY <1>1, <1>2, <1>3, <1>4, <1>5, <1>6, <1>7, <1>8, <1>9, <1>10, <1>11, <1>12, <1>13, <1>14,
     <1>15, <1>16, <1>17, <1>18, <1>19, <1>20, <1>21, <1>22, <1>23, <1>24, <1>25, <1>26, <1>27,
     <1>28, <1>29, <1>30, <1>31, <1>32
     DEF Next, ModuleNext, EngineNext, InMessage

\* The engine.
LEMMA StepAway == IInv /\ [Next]_vars => Away'
<1> SUFFICES ASSUME IInv, [Next]_vars PROVE Away'
  OBVIOUS
<1> USE DEF IInv, TypeOK, Away, Libraries, Loading, Ended, Freeing, Torn, Alone
<1>1. CASE LoadUtil
  BY <1>1 DEF LoadUtil, Load
<1>2. CASE LoadGui
  BY <1>2 DEF LoadGui, Load
<1>3. CASE CheckFails
  BY <1>3 DEF CheckFails
<1>4. CASE InstallHooks
  BY <1>4 DEF InstallHooks
<1>5. CASE Phase2
  BY <1>5 DEF Phase2
<1>6. CASE LeaveLoop
  BY <1>6 DEF LeaveLoop
<1>7. CASE HangEngine
  BY <1>7 DEF HangEngine, Interface
<1>8. CASE EngineAcked
  BY <1>8 DEF EngineAcked
<1>9. CASE NothingToDestroy
  BY <1>9 DEF NothingToDestroy
<1>10. CASE GiveInputBack
  BY <1>10 DEF GiveInputBack
<1>11. CASE DestroyContexts
  BY <1>11 DEF DestroyContexts
<1>12. CASE UnhookWindow
  BY <1>12 DEF UnhookWindow
<1>13. CASE ForgetProcedure
  BY <1>13 DEF ForgetProcedure
<1>14. CASE DestroyLayer
  BY <1>14 DEF DestroyLayer
<1>15. CASE RemoveHooks
  BY <1>15 DEF RemoveHooks
<1>16. ASSUME NEW l \in Libs, FreeLibrary(l) PROVE Away'
  BY <1>16 DEF FreeLibrary
<1>17. CASE ClearPointers
  BY <1>17 DEF ClearPointers
<1>18. CASE ResumeEngine
  BY <1>18 DEF ResumeEngine
<1>19. CASE EngineResumed
  BY <1>19 DEF EngineResumed
<1>20. CASE InitUI
  BY <1>20 DEF InitUI, Interface
<1>21. CASE RunUI
  BY <1>21 DEF RunUI
<1>22. CASE RequestExit
  BY <1>22 DEF RequestExit
<1>23. CASE Sleep
  BY <1>23 DEF Sleep
<1>24. CASE Wake
  BY <1>24 DEF Wake
<1>25. CASE Quit
  BY <1>25 DEF Quit
<1>26. CASE Close
  BY <1>26 DEF Close
<1>27. ASSUME NEW m \in Messages, Dispatch(m) PROVE Away'
  BY <1>27 DEF Dispatch, Interface
<1>28. CASE RunCallbacks
  BY <1>28 DEF RunCallbacks
<1>29. CASE RunReturnCallback
  BY <1>29 DEF RunReturnCallback
<1>30. CASE CallGame
  BY <1>30 DEF CallGame
<1>31. CASE RunFreed
  BY <1>31 DEF RunFreed
<1>32. CASE UNCHANGED vars
  BY <1>32
<1>33. QED
  BY <1>1, <1>2, <1>3, <1>4, <1>5, <1>6, <1>7, <1>8, <1>9, <1>10, <1>11, <1>12, <1>13, <1>14,
     <1>15, <1>16, <1>17, <1>18, <1>19, <1>20, <1>21, <1>22, <1>23, <1>24, <1>25, <1>26, <1>27,
     <1>28, <1>29, <1>30, <1>31, <1>32
     DEF Next, ModuleNext, EngineNext, InMessage

\* The interface.
LEMMA StepInterface == IInv /\ [Next]_vars => Interface'
<1> SUFFICES ASSUME IInv, [Next]_vars PROVE Interface'
  OBVIOUS
<1> USE DEF IInv, TypeOK, Interface, Away, Loading, Ended, Freeing, Torn, Alone
<1>1. CASE LoadUtil
  BY <1>1 DEF LoadUtil, Load
<1>2. CASE LoadGui
  BY <1>2 DEF LoadGui, Load
<1>3. CASE CheckFails
  BY <1>3 DEF CheckFails
<1>4. CASE InstallHooks
  BY <1>4 DEF InstallHooks, Libraries
<1>5. CASE Phase2
  BY <1>5 DEF Phase2
<1>6. CASE LeaveLoop
  BY <1>6 DEF LeaveLoop
<1>7. CASE HangEngine
  <2>1. mpc = "hang" /\ mpc' \in {"ack", "input"} /\ UNCHANGED <<ui, window, message>>
    BY <1>7 DEF HangEngine
  <2>2. mpc \notin Torn /\ mpc' \notin Torn \ {"input"}
    BY <2>1 DEF Torn, Freeing, Ended
  <2>3. mpc \notin {"hooks"} \cup Freeing
    BY <2>1 DEF Freeing, Ended
  <2> QED
    BY <2>1, <2>2, <2>3
<1>8. CASE EngineAcked
  BY <1>8 DEF EngineAcked
<1>9. CASE NothingToDestroy
  BY <1>9 DEF NothingToDestroy
<1>10. CASE GiveInputBack
  BY <1>10 DEF GiveInputBack
<1>11. CASE DestroyContexts
  BY <1>11 DEF DestroyContexts
<1>12. CASE UnhookWindow
  BY <1>12 DEF UnhookWindow
<1>13. CASE ForgetProcedure
  BY <1>13 DEF ForgetProcedure
<1>14. CASE DestroyLayer
  BY <1>14 DEF DestroyLayer
<1>15. CASE RemoveHooks
  BY <1>15 DEF RemoveHooks
<1>16. ASSUME NEW l \in Libs, FreeLibrary(l) PROVE Interface'
  BY <1>16 DEF FreeLibrary
<1>17. CASE ClearPointers
  BY <1>17 DEF ClearPointers
<1>18. CASE ResumeEngine
  BY <1>18 DEF ResumeEngine
<1>19. CASE EngineResumed
  BY <1>19 DEF EngineResumed
<1>20. CASE InitUI
  BY <1>20 DEF InitUI, Libraries
<1>21. CASE RunUI
  BY <1>21 DEF RunUI, Libraries
<1>22. CASE RequestExit
  BY <1>22 DEF RequestExit
<1>23. CASE Sleep
  BY <1>23 DEF Sleep
<1>24. CASE Wake
  BY <1>24 DEF Wake
<1>25. CASE Quit
  BY <1>25 DEF Quit
<1>26. CASE Close
  BY <1>26 DEF Close
<1>27. ASSUME NEW m \in Messages, Dispatch(m) PROVE Interface'
  BY <1>27 DEF Dispatch
<1>28. CASE RunCallbacks
  BY <1>28 DEF RunCallbacks
<1>29. CASE RunReturnCallback
  BY <1>29 DEF RunReturnCallback
<1>30. CASE CallGame
  BY <1>30 DEF CallGame
<1>31. CASE RunFreed
  BY <1>31 DEF RunFreed
<1>32. CASE UNCHANGED vars
  BY <1>32
<1>33. QED
  BY <1>1, <1>2, <1>3, <1>4, <1>5, <1>6, <1>7, <1>8, <1>9, <1>10, <1>11, <1>12, <1>13, <1>14,
     <1>15, <1>16, <1>17, <1>18, <1>19, <1>20, <1>21, <1>22, <1>23, <1>24, <1>25, <1>26, <1>27,
     <1>28, <1>29, <1>30, <1>31, <1>32
     DEF Next, ModuleNext, EngineNext, InMessage

\* The messages.
LEMMA StepOnItsWay == IInv /\ [Next]_vars => OnItsWay'
<1> SUFFICES ASSUME IInv, [Next]_vars PROVE OnItsWay'
  OBVIOUS
<1> USE DEF IInv, TypeOK, OnItsWay, Away, Interface, Loading, Ended, Freeing, Torn, Alone
<1>1. CASE LoadUtil
  BY <1>1 DEF LoadUtil, Load
<1>2. CASE LoadGui
  BY <1>2 DEF LoadGui, Load
<1>3. CASE CheckFails
  BY <1>3 DEF CheckFails
<1>4. CASE InstallHooks
  BY <1>4 DEF InstallHooks
<1>5. CASE Phase2
  BY <1>5 DEF Phase2
<1>6. CASE LeaveLoop
  BY <1>6 DEF LeaveLoop
<1>7. CASE HangEngine
  BY <1>7 DEF HangEngine, Libraries
<1>8. CASE EngineAcked
  BY <1>8 DEF EngineAcked
<1>9. CASE NothingToDestroy
  BY <1>9 DEF NothingToDestroy
<1>10. CASE GiveInputBack
  BY <1>10 DEF GiveInputBack
<1>11. CASE DestroyContexts
  BY <1>11 DEF DestroyContexts
<1>12. CASE UnhookWindow
  BY <1>12 DEF UnhookWindow
<1>13. CASE ForgetProcedure
  BY <1>13 DEF ForgetProcedure
<1>14. CASE DestroyLayer
  BY <1>14 DEF DestroyLayer
<1>15. CASE RemoveHooks
  BY <1>15 DEF RemoveHooks
<1>16. ASSUME NEW l \in Libs, FreeLibrary(l) PROVE OnItsWay'
  BY <1>16 DEF FreeLibrary
<1>17. CASE ClearPointers
  BY <1>17 DEF ClearPointers
<1>18. CASE ResumeEngine
  BY <1>18 DEF ResumeEngine
<1>19. CASE EngineResumed
  BY <1>19 DEF EngineResumed
<1>20. CASE InitUI
  BY <1>20 DEF InitUI
<1>21. CASE RunUI
  BY <1>21 DEF RunUI
<1>22. CASE RequestExit
  BY <1>22 DEF RequestExit
<1>23. CASE Sleep
  BY <1>23 DEF Sleep
<1>24. CASE Wake
  BY <1>24 DEF Wake
<1>25. CASE Quit
  BY <1>25 DEF Quit
<1>26. CASE Close
  BY <1>26 DEF Close
<1>27. ASSUME NEW m \in Messages, Dispatch(m) PROVE OnItsWay'
  BY <1>27 DEF Dispatch
<1>28. CASE RunCallbacks
  BY <1>28 DEF RunCallbacks
<1>29. CASE RunReturnCallback
  BY <1>29 DEF RunReturnCallback
<1>30. CASE CallGame
  BY <1>30 DEF CallGame
<1>31. CASE RunFreed
  BY <1>31 DEF RunFreed
<1>32. CASE UNCHANGED vars
  BY <1>32
<1>33. QED
  BY <1>1, <1>2, <1>3, <1>4, <1>5, <1>6, <1>7, <1>8, <1>9, <1>10, <1>11, <1>12, <1>13, <1>14,
     <1>15, <1>16, <1>17, <1>18, <1>19, <1>20, <1>21, <1>22, <1>23, <1>24, <1>25, <1>26, <1>27,
     <1>28, <1>29, <1>30, <1>31, <1>32
     DEF Next, ModuleNext, EngineNext, InMessage

\* The faults.
LEMMA StepQuiet == IInv /\ [Next]_vars => QuietTeardown'
<1> SUFFICES ASSUME IInv, [Next]_vars PROVE QuietTeardown'
  OBVIOUS
<1> USE DEF IInv, TypeOK, QuietTeardown, OnItsWay, Interface, Libraries,
            Loading, Ended, Freeing, Torn, Alone
<1>1. CASE LoadUtil
  BY <1>1 DEF LoadUtil, Load
<1>2. CASE LoadGui
  BY <1>2 DEF LoadGui, Load
<1>3. CASE CheckFails
  BY <1>3 DEF CheckFails
<1>4. CASE InstallHooks
  BY <1>4 DEF InstallHooks
<1>5. CASE Phase2
  BY <1>5 DEF Phase2
<1>6. CASE LeaveLoop
  BY <1>6 DEF LeaveLoop
<1>7. CASE HangEngine
  BY <1>7 DEF HangEngine
<1>8. CASE EngineAcked
  BY <1>8 DEF EngineAcked
<1>9. CASE NothingToDestroy
  BY <1>9 DEF NothingToDestroy
<1>10. CASE GiveInputBack
  BY <1>10 DEF GiveInputBack
<1>11. CASE DestroyContexts
  BY <1>11 DEF DestroyContexts
<1>12. CASE UnhookWindow
  BY <1>12 DEF UnhookWindow
<1>13. CASE ForgetProcedure
  BY <1>13 DEF ForgetProcedure
<1>14. CASE DestroyLayer
  BY <1>14 DEF DestroyLayer
<1>15. CASE RemoveHooks
  BY <1>15 DEF RemoveHooks
<1>16. ASSUME NEW l \in Libs, FreeLibrary(l) PROVE QuietTeardown'
  BY <1>16 DEF FreeLibrary
<1>17. CASE ClearPointers
  BY <1>17 DEF ClearPointers
<1>18. CASE ResumeEngine
  BY <1>18 DEF ResumeEngine
<1>19. CASE EngineResumed
  BY <1>19 DEF EngineResumed
<1>20. CASE InitUI
  BY <1>20 DEF InitUI, Away
<1>21. CASE RunUI
  BY <1>21 DEF RunUI
<1>22. CASE RequestExit
  BY <1>22 DEF RequestExit
<1>23. CASE Sleep
  BY <1>23 DEF Sleep
<1>24. CASE Wake
  BY <1>24 DEF Wake
<1>25. CASE Quit
  BY <1>25 DEF Quit
<1>26. CASE Close
  BY <1>26 DEF Close
<1>27. ASSUME NEW m \in Messages, Dispatch(m) PROVE QuietTeardown'
  BY <1>27 DEF Dispatch
<1>28. CASE RunCallbacks
  BY <1>28 DEF RunCallbacks
<1>29. CASE RunReturnCallback
  BY <1>29 DEF RunReturnCallback
<1>30. CASE CallGame
  BY <1>30 DEF CallGame
<1>31. CASE RunFreed
  BY <1>31 DEF RunFreed
<1>32. CASE UNCHANGED vars
  BY <1>32
<1>33. QED
  BY <1>1, <1>2, <1>3, <1>4, <1>5, <1>6, <1>7, <1>8, <1>9, <1>10, <1>11, <1>12, <1>13, <1>14,
     <1>15, <1>16, <1>17, <1>18, <1>19, <1>20, <1>21, <1>22, <1>23, <1>24, <1>25, <1>26, <1>27,
     <1>28, <1>29, <1>30, <1>31, <1>32
     DEF Next, ModuleNext, EngineNext, InMessage

-----------------------------------------------------------------------------
(* The theorems. *)

LEMMA InitIInv == Init => IInv
<1> SUFFICES ASSUME Init PROVE IInv
  OBVIOUS
<1>1. TypeOK
  BY DEF Init, TypeOK, ModulePlaces
<1>2. Libraries /\ Away
  BY DEF Init, Libraries, Away, Loading, Ended, Freeing, Torn, Alone
<1>3. Interface /\ OnItsWay /\ QuietTeardown
  BY DEF Init, Interface, OnItsWay, QuietTeardown, Freeing, Ended, Torn, Alone
<1> QED
  BY <1>1, <1>2, <1>3 DEF IInv

LEMMA StepIInv == IInv /\ [Next]_vars => IInv'
  BY StepTypeOK, StepLibraries, StepAway, StepInterface, StepOnItsWay, StepQuiet DEF IInv

\* The libraries, the engine and the interface, at every step of a session.
THEOREM Invariance == Spec => []IInv
  BY InitIInv, StepIInv, PTL DEF Spec

\* The variables stay in their types; in particular the procedure that is saved is the
\* game's, never our own.
THEOREM TypeCorrect == Spec => []TypeOK
<1>1. IInv => TypeOK
  BY DEF IInv
<1> QED
  BY <1>1, Invariance, PTL

\* What the two threads use is mapped.
THEOREM NeededMapped == Spec => []NeededIsMapped
<1>1. IInv => NeededIsMapped
  BY
     DEF IInv, TypeOK, Libraries, Away, Interface, NeededIsMapped, Loading, Ended, Freeing,
         Torn, Alone
<1> QED
  BY <1>1, Invariance, PTL

\* The interface is made once at most.
THEOREM MadeOnce == Spec => []OneLayer
<1>1. IInv => OneLayer
  BY DEF IInv, Interface, OneLayer
<1> QED
  BY <1>1, Invariance, PTL

\* The game has its window and its input back.
THEOREM GivesBack == Spec => []GivenBack
<1>1. IInv => GivenBack
  BY DEF IInv, TypeOK, Libraries, Away, Interface, GivenBack, Loading, Ended, Freeing, Torn, Alone
<1> QED
  BY <1>1, Invariance, PTL

\* A complete interface is taken down without a fault, if a sleeping engine is quiet.
THEOREM TeardownIsQuiet == Spec => []QuietTeardown
<1>1. IInv => QuietTeardown
  BY DEF IInv
<1> QED
  BY <1>1, Invariance, PTL


-----------------------------------------------------------------------------
(* UiSession implements Standstill: the interface, the detours and the          *)
(* libraries go while the engine stands still.                                  *)

LEMMA StillInit == Init => Still!Init
  BY DEF Init, Still!Init, Phase, EnginePlace

\* Only these steps of the module's thread go from one phase to another.
LEMMA PhaseSteps ==
  ASSUME [Next]_vars, Phase' # Phase
  PROVE  HangEngine \/ EngineAcked \/ ResumeEngine
<1>1. mpc' # mpc
  BY DEF Phase
<1>2. ModuleNext
  BY <1>1
     DEF Next, EngineNext, InMessage, InitUI, RunUI, RequestExit, Sleep, Wake, Quit, Close,
         Dispatch, RunCallbacks, RunReturnCallback, CallGame, RunFreed
<1>3. ~LoadUtil /\ ~LoadGui /\ ~CheckFails /\ ~InstallHooks /\ ~Phase2 /\ ~LeaveLoop
  BY DEF Phase, LoadUtil, LoadGui, Load, CheckFails, InstallHooks, Phase2, LeaveLoop
<1>4. /\ ~NothingToDestroy /\ ~GiveInputBack /\ ~DestroyContexts /\ ~UnhookWindow
      /\ ~ForgetProcedure /\ ~DestroyLayer
  BY DEF Phase, NothingToDestroy, GiveInputBack, DestroyContexts, UnhookWindow,
         ForgetProcedure, DestroyLayer
<1>5. ~RemoveHooks /\ ~(\E l \in Libs : FreeLibrary(l)) /\ ~ClearPointers /\ ~EngineResumed
  BY DEF Phase, RemoveHooks, FreeLibrary, ClearPointers, EngineResumed
<1> QED
  BY <1>2, <1>3, <1>4, <1>5 DEF ModuleNext

\* Before the shutdown has the engine's answer everything may happen; what ends that
\* finds the engine at rest.
LEMMA StillWorks ==
  ASSUME IInv, [Next]_vars, Phase = "working"
  PROVE  Still!Next
<1>1. EnginePlace' \in {"away", "free", "stands", "leaving"}
  BY DEF EnginePlace
<1>2. CASE Phase' = Phase
  BY <1>1, <1>2 DEF Still!Work, Still!Next
<1>3. CASE HangEngine /\ Phase' # Phase
  <2>1. mpc = "hang" /\ mpc' = "input" /\ (~hooked \/ Quitting) /\ UNCHANGED <<hooked, epc>>
    BY <1>3 DEF HangEngine, Phase
  <2>2. epc # "asleep" /\ epc # "closed" /\ shouldSleep' = shouldSleep
    BY <2>1, <1>3 DEF IInv, Away, Torn, Freeing, Ended, HangEngine
  <2>3. Phase' = "dismantling" /\ EnginePlace' = EnginePlace /\ EnginePlace \in {"stands", "away"}
    BY <2>1, <2>2 DEF Phase, EnginePlace, IInv, TypeOK
  <2> QED
    BY <2>3 DEF Still!Dismantle, Still!Next
<1>4. CASE EngineAcked
  <2>1. mpc = "ack" /\ mpc' = "input" /\ epc \in {"asleep", "quit"}
        /\ UNCHANGED <<hooked, epc, shouldSleep>>
    BY <1>4 DEF EngineAcked, IInv, Away
  <2>2. epc = "asleep" => shouldSleep
    BY <2>1 DEF IInv, Away
  <2>3. Phase' = "dismantling" /\ EnginePlace' = EnginePlace /\ EnginePlace = "stands"
    BY <2>1, <2>2 DEF Phase, EnginePlace
  <2> QED
    BY <2>3 DEF Still!Dismantle, Still!Next
<1>5. ~ResumeEngine
  BY DEF Phase, ResumeEngine
<1> QED
  BY <1>2, <1>3, <1>4, <1>5, PhaseSteps

\* While it is dismantled the engine stays where it is, and ResumeEngine lets it go.
LEMMA StillDismantles ==
  ASSUME IInv, [Next]_vars, Phase = "dismantling"
  PROVE  Still!Next \/ UNCHANGED Still!vars
<1>1. mpc \in Alone
  BY DEF IInv, TypeOK, ModulePlaces, Phase, Alone, Torn, Freeing, Ended
<1>2. \/ epc = "asleep" /\ shouldSleep
      \/ epc = "quit"
      \/ epc = "frame" /\ ~hooked
  BY <1>1 DEF IInv, TypeOK, Away, Alone, Torn, Freeing, Ended
<1>3. CASE ResumeEngine
  <2>1. Phase' = "over" /\ UNCHANGED <<hooked, epc>> /\ mpc' = "awake"
    BY <1>3 DEF Phase, ResumeEngine
  <2>2. epc = "asleep" => ~shouldSleep'
    BY <1>3 DEF ResumeEngine
  <2>3. mpc = "resume"
    BY <1>3 DEF ResumeEngine
  <2>4. EnginePlace' = EnginePlace \/ (EnginePlace = "stands" /\ EnginePlace' = "leaving")
    BY <1>2, <2>1, <2>2, <2>3 DEF EnginePlace
  <2> QED
    BY <2>1, <2>4 DEF Still!Finish, Still!Next
<1>4. CASE ModuleNext /\ ~ResumeEngine
  <2>1. UNCHANGED <<epc, shouldSleep>> /\ (~hooked => ~hooked')
    BY <1>4, <1>1
       DEF ModuleNext, LoadUtil, LoadGui, CheckFails, InstallHooks, Phase2, LeaveLoop,
           HangEngine, EngineAcked, NothingToDestroy, GiveInputBack, DestroyContexts,
           UnhookWindow, ForgetProcedure, DestroyLayer, RemoveHooks, FreeLibrary,
           ClearPointers, EngineResumed, Alone, Torn, Freeing, Ended
  <2>2. mpc # "gone" /\ mpc' # "gone"
    BY <1>4, <1>1, PhaseSteps
       DEF Phase, HangEngine, EngineAcked, Alone, Torn, Freeing, Ended
  <2>3. EnginePlace' = EnginePlace
    BY <1>2, <2>1, <2>2 DEF EnginePlace
  <2>4. Phase' = Phase
    BY <1>4, <1>1, PhaseSteps DEF HangEngine, EngineAcked, Alone, Torn, Freeing, Ended
  <2> QED
    BY <2>3, <2>4 DEF Still!vars
<1>5. CASE EngineNext
  <2>1. UNCHANGED <<epc, shouldSleep, hooked, mpc>>
    BY <1>5, <1>1, <1>2
       DEF EngineNext, InMessage, InitUI, RunUI, RequestExit, Sleep, Wake, Quit, Close,
           Dispatch, RunCallbacks, RunReturnCallback, CallGame, RunFreed, Alone
  <2> QED
    BY <2>1 DEF Still!vars, Phase, EnginePlace
<1>6. CASE UNCHANGED vars
  BY <1>6 DEF Still!vars, Phase, EnginePlace
<1> QED
  BY <1>3, <1>4, <1>5, <1>6 DEF Next

\* Afterwards it only leaves: out of its sleep, or with the game.
LEMMA StillLeaves ==
  ASSUME IInv, [Next]_vars, Phase = "over"
  PROVE  Still!Next \/ UNCHANGED Still!vars
<1>1. mpc \in {"awake", "gone"} /\ ~hooked
  BY DEF IInv, TypeOK, ModulePlaces, Libraries, Phase, Freeing, Ended
<1>2. /\ epc = "asleep" => ~shouldSleep
      /\ epc = "closed" => mpc = "gone"
      /\ epc \in {"frame", "asleep", "quit", "closed"}
  BY <1>1 DEF IInv, TypeOK, Away
<1>3. CASE ModuleNext
  <2>1. EngineResumed
    BY <1>1, <1>3
       DEF ModuleNext, LoadUtil, LoadGui, CheckFails, InstallHooks, Phase2, LeaveLoop,
           HangEngine, EngineAcked, NothingToDestroy, GiveInputBack, DestroyContexts,
           UnhookWindow, ForgetProcedure, DestroyLayer, RemoveHooks, FreeLibrary,
           ClearPointers, ResumeEngine, EngineResumed
  <2>2. Phase' = Phase /\ UNCHANGED <<epc, hooked, shouldSleep>> /\ mpc = "awake"
        /\ mpc' = "gone"
    BY <2>1 DEF EngineResumed, Phase
  <2>3. EnginePlace' = EnginePlace \/ (EnginePlace = "stands" /\ EnginePlace' = "leaving")
    BY <1>2, <2>2 DEF EnginePlace
  <2> QED
    BY <2>2, <2>3 DEF Still!LetGo, Still!Next, Still!vars
<1>4. CASE EngineNext
  <2>1. Phase' = Phase /\ UNCHANGED <<hooked, shouldSleep, mpc>>
    BY <1>1, <1>4
       DEF Phase, EngineNext, InMessage, InitUI, RunUI, RequestExit, Sleep, Wake, Quit, Close,
           Dispatch, RunCallbacks, RunReturnCallback, CallGame, RunFreed
  <2>2. \/ epc' = epc
        \/ epc = "asleep" /\ epc' = "frame"
        \/ epc = "quit" /\ mpc = "gone" /\ epc' = "closed"
    BY <1>1, <1>4
       DEF EngineNext, InMessage, InitUI, RunUI, RequestExit, Sleep, Wake, Quit, Close,
           Dispatch, RunCallbacks, RunReturnCallback, CallGame, RunFreed
  <2>3. EnginePlace' = EnginePlace \/ (EnginePlace = "leaving" /\ EnginePlace' = "away")
    BY <1>1, <1>2, <2>1, <2>2 DEF EnginePlace
  <2> QED
    BY <2>1, <2>3 DEF Still!Leave, Still!Next, Still!vars
<1>5. CASE UNCHANGED vars
  BY <1>5 DEF Still!vars, Phase, EnginePlace
<1> QED
  BY <1>3, <1>4, <1>5 DEF Next

LEMMA StillStep == IInv /\ [Next]_vars => [Still!Next]_Still!vars
<1>1. Phase \in {"working", "dismantling", "over"}
  BY DEF Phase
<1> QED
  BY <1>1, StillWorks, StillDismantles, StillLeaves

\* What this module takes for granted of the handshake, in one step each way, is what
\* EngineSync keeps: the interface and the libraries go while the engine stands still.
THEOREM KeepsStandstill == Spec => ImplementsStandstill
<1>1. ImplementsStandstill <=> Still!Init /\ [][Still!Next]_Still!vars
  BY DEF ImplementsStandstill, Still!Spec
<1> QED
  BY <1>1, StillInit, StillStep, Invariance, PTL DEF Spec

=============================================================================
