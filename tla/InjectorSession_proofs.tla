------------------------ MODULE InjectorSession_proofs ------------------------
(***************************************************************************)
(* Proofs about InjectorSession, for all values of its timeouts: its type  *)
(* invariant, that the loader's heartbeat keeps the module alive, that no  *)
(* working module loses its memory without a reason, and that a session    *)
(* implements ModuleLifecycle.                                             *)
(***************************************************************************)
EXTENDS InjectorSession, TLAPS

\* Who owns the module's memory: code runs only in mapped memory, mapped
\* memory is the memory of a thread that runs or has returned, and a loader
\* that is still there has the module it mapped in its table.
Ownership ==
    /\ cpc \in Live => mem = "mapped"
    /\ mem = "mapped" => cpc \in Live \cup {"done"} /\ game
    /\ mem = "mapped" /\ lpc # "gone" => listed /\ ~unloaded
    /\ lpc = "gone" => ~listed

\* What the block says about its module, and what the loader knows of it.
Messages ==
    /\ mem # "mapped" => c2m = "None" /\ m2c = "None"
    /\ requested /\ mem = "mapped" => m2c = "RequestUnload"
    /\ c2m \in FinalCodes => cpc \in {"tail", "done"}
    /\ cpc \in {"entry", "init", "failing"} => c2m = "None"
    /\ mem = "mapped" /\ c2m = "None" => seen = "None"
    /\ mem = "mapped" /\ seen \in FinalCodes => cpc \in {"tail", "done"}
    /\ ~listed => seen = "None"

\* Between two beats: a running module that has seen the latest beat has not
\* waited for longer than the loader has been silent.
Beating ==
    /\ listed => age["poll"] <= PollGap
    /\ listed /\ cpc = "run" /\ ~beat => age["beat"] <= age["poll"]

IInv == TypeOK /\ Ownership /\ Messages /\ Beating
-----------------------------------------------------------------------------
(* Timers. *)

\* Every timer is compared with a number of seconds.
LEMMA LimitType == \A t \in Timers : Limit[t] \in Nat
  BY ConstantsAssumption DEF Limit, Timers

\* The two limits NoFalseAlarm is about.
LEMMA PollLimit == Limit["poll"] = PollGap /\ Limit["beat"] = BeatTimeout
  BY DEF Limit, Timers

\* Starting timers again keeps the ages well typed and below their limits.
LEMMA RestartedType ==
  ASSUME TypeOK, NEW S
  PROVE  /\ Restarted(S) \in [Timers -> Nat]
         /\ \A t \in Timers : Restarted(S)[t] <= Limit[t] + 1
         /\ \A t \in Timers : t \in S => Restarted(S)[t] = 0
         /\ \A t \in Timers : t \notin S => Restarted(S)[t] = age[t]
  BY LimitType DEF TypeOK, Restarted

-----------------------------------------------------------------------------
(* The inductive invariant. *)

\* No module and no message: the loader has just started.
LEMMA InitIInv == Init => IInv
<1> SUFFICES ASSUME Init PROVE IInv
  OBVIOUS
<1>1. age \in [Timers -> Nat] /\ \A t \in Timers : age[t] = 0 /\ age[t] <= Limit[t] + 1
  BY LimitType DEF Init
<1>2. TypeOK
  BY <1>1 DEF Init, TypeOK, Live, ClientCodes
<1>3. Ownership /\ Messages
  BY DEF Init, Ownership, Messages, Live, FinalCodes
<1>4. Beating
  BY DEF Init, Beating
<1> QED
  BY <1>2, <1>3, <1>4 DEF IInv

\* unload(true) leaves the heartbeat's timers alone.
LEMMA AskOrFreeAges ==
  ASSUME TypeOK, NEW S \in SUBSET {"wait"}, AskOrFree(S)
  PROVE  /\ age' \in [Timers -> Nat] /\ \A t \in Timers : age'[t] <= Limit[t] + 1
         /\ age'["poll"] = age["poll"] /\ age'["beat"] = age["beat"]
<1>1. PICK R \in SUBSET {"wait", "request"} : age' = Restarted(R)
  BY DEF AskOrFree
<1>2. "poll" \in Timers \ R /\ "beat" \in Timers \ R
  BY DEF Timers
<1> QED
  BY <1>1, <1>2, RestartedType

\* A fresh module object, and a module thread that has not run yet.
LEMMA StartInjectionIInv ==
  ASSUME IInv, StartInjection, lpc # "gone", lpc' \in {"due", "poll"}, ~listed,
         allow' \in BOOLEAN, reinject' \in BOOLEAN, UNCHANGED <<closing, lastCode>>
  PROVE  IInv'
<1> USE DEF IInv, StartInjection, Live, ClientCodes, FinalCodes
<1>1. TypeOK'
  BY RestartedType DEF TypeOK
<1>2. Ownership'
  BY DEF Ownership, TypeOK
<1>3. Messages'
  BY DEF Messages, TypeOK, Ownership
<1>4. Beating'
  BY RestartedType, ConstantsAssumption DEF Beating, TypeOK, Timers
<1> QED
  BY <1>1, <1>2, <1>3, <1>4

\* Every handler of the loader, every step of the module, the end and start of the
\* game, and a tick of the clock keep the invariant.
LEMMA StepIInv == IInv /\ [Next]_vars => IInv'
<1> SUFFICES ASSUME IInv, [Next]_vars PROVE IInv'
  OBVIOUS
<1> USE DEF IInv, TypeOK, Ownership, Messages, Beating, Live, ClientCodes, FinalCodes, Timers,
            loader, object, ui, block, target
<1>1. CASE UIFrame
  <2>1. allow' \in BOOLEAN
    BY <1>1 DEF UIFrame, RefreshAllow
  <2> QED
    BY <1>1, <2>1 DEF UIFrame
<1>2. CASE ClickStart
  <2>1. allow' \in BOOLEAN
    BY <1>2 DEF ClickStart, RefreshAllow
  <2>2. CASE NoInjection
    BY <1>2, <2>1, <2>2 DEF ClickStart, NoInjection
  <2>3. CASE ~listed /\ StartInjection
    BY <1>2, <2>1, <2>3, StartInjectionIInv DEF ClickStart
  <2> QED
    BY <1>2, <2>2, <2>3 DEF ClickStart, InjectToTargetProcess
<1>3. CASE ClickUnload
  <2>1. AskOrFree({}) /\ {} \in SUBSET {"wait"}
    BY <1>3 DEF ClickUnload
  <2>2. CASE requested \/ ~Readable
    <3>1. TypeOK'
      BY <1>3, <2>1, <2>2, AskOrFreeAges DEF ClickUnload, AskOrFree, Free, Readable
    <3>2. Ownership'
      BY <1>3, <2>1, <2>2, AskOrFreeAges DEF ClickUnload, AskOrFree, Free, Readable
    <3>3. Messages'
      BY <1>3, <2>1, <2>2, AskOrFreeAges DEF ClickUnload, AskOrFree, Free, Readable
    <3>4. Beating'
      BY <1>3, <2>1, <2>2, AskOrFreeAges DEF ClickUnload, AskOrFree, Free, Readable
    <3> QED
      BY <3>1, <3>2, <3>3, <3>4
  <2>3. CASE ~(requested \/ ~Readable)
    <3>1. TypeOK'
      BY <1>3, <2>1, <2>3, AskOrFreeAges DEF ClickUnload, AskOrFree, Readable
    <3>2. Ownership'
      BY <1>3, <2>1, <2>3, AskOrFreeAges DEF ClickUnload, AskOrFree, Readable
    <3>3. Messages'
      BY <1>3, <2>1, <2>3, AskOrFreeAges DEF ClickUnload, AskOrFree, Readable
    <3>4. Beating'
      BY <1>3, <2>1, <2>3, AskOrFreeAges DEF ClickUnload, AskOrFree, Readable
    <3> QED
      BY <3>1, <3>2, <3>3, <3>4
  <2> QED
    BY <2>2, <2>3
<1>4. CASE CloseWindow
  <2>1. CASE ~listed \/ unloaded
    BY <1>4, <2>1 DEF CloseWindow, Leave, Erase
  <2>2. CASE listed /\ ~unloaded
    <3>1. AskOrFree({"wait"})
      BY <1>4, <2>2 DEF CloseWindow
    <3>2. CASE requested \/ ~Readable
      <4>1. TypeOK'
        BY <1>4, <2>2, <3>1, <3>2, AskOrFreeAges
           DEF CloseWindow, AskOrFree, Free, Readable
      <4>2. Ownership'
        BY <1>4, <2>2, <3>1, <3>2, AskOrFreeAges
           DEF CloseWindow, AskOrFree, Free, Readable
      <4>3. Messages'
        BY <1>4, <2>2, <3>1, <3>2, AskOrFreeAges
           DEF CloseWindow, AskOrFree, Free, Readable
      <4>4. Beating'
        BY <1>4, <2>2, <3>1, <3>2, AskOrFreeAges
           DEF CloseWindow, AskOrFree, Free, Readable
      <4> QED
        BY <4>1, <4>2, <4>3, <4>4
    <3>3. CASE ~(requested \/ ~Readable)
      <4>1. TypeOK'
        BY <1>4, <2>2, <3>1, <3>3, AskOrFreeAges DEF CloseWindow, AskOrFree, Readable
      <4>2. Ownership'
        BY <1>4, <2>2, <3>1, <3>3, AskOrFreeAges DEF CloseWindow, AskOrFree, Readable
      <4>3. Messages'
        BY <1>4, <2>2, <3>1, <3>3, AskOrFreeAges DEF CloseWindow, AskOrFree, Readable
      <4>4. Beating'
        BY <1>4, <2>2, <3>1, <3>3, AskOrFreeAges DEF CloseWindow, AskOrFree, Readable
      <4> QED
        BY <4>1, <4>2, <4>3, <4>4
    <3> QED
      BY <3>2, <3>3
  <2> QED
    BY <2>1, <2>2
<1>5. CASE UpdateSkip
  BY <1>5 DEF UpdateSkip
<1>6. CASE UpdateBegin
  <2>1. CASE NoInjection
    <3>1. TypeOK'
      BY <1>6, <2>1 DEF UpdateBegin, NoInjection
    <3>2. Ownership'
      BY <1>6, <2>1 DEF UpdateBegin, NoInjection
    <3>3. Messages'
      BY <1>6, <2>1 DEF UpdateBegin, NoInjection
    <3>4. Beating'
      BY <1>6, <2>1 DEF UpdateBegin, NoInjection
    <3> QED
      BY <3>1, <3>2, <3>3, <3>4
  <2>2. CASE ~listed /\ StartInjection
    BY <1>6, <2>2, StartInjectionIInv DEF UpdateBegin
  <2> QED
    BY <1>6, <2>1, <2>2 DEF UpdateBegin, InjectToTargetProcess
<1>7. CASE PollNothing
  BY <1>7 DEF PollNothing
<1>8. CASE PollReap
  BY <1>8 DEF PollReap, Erase
<1>9. CASE PollRead
  BY <1>9 DEF PollRead, Readable
<1>10. CASE PollBeat
  BY <1>10, RestartedType, ConstantsAssumption DEF PollBeat, Readable
<1>11. CASE PollHalt
  BY <1>11 DEF PollHalt, Free, Erase
<1>12. CASE HearNothingNew
  <2>1. requested' \in BOOLEAN /\ (requested' => requested)
    BY <1>12 DEF HearNothingNew, Keep
  <2>2. lastCode' \in ClientCodes
    BY <1>12 DEF HearNothingNew, Heard
  <2>3. allow' \in BOOLEAN /\ lpc' = "ui" /\ lpc = "eval"
    BY <1>12 DEF HearNothingNew, Evaluating
  <2>4. UNCHANGED <<closing, listed, unloaded, seen, reinject, block, target, age>>
    BY <1>12 DEF HearNothingNew, Keep
  <2> QED
    BY <2>1, <2>2, <2>3, <2>4
<1>13. CASE HearInitOK
  <2>1. requested' \in BOOLEAN /\ (requested' => requested)
    BY <1>13 DEF HearInitOK, Keep
  <2>2. lastCode' \in ClientCodes
    BY <1>13 DEF HearInitOK, Heard
  <2>3. allow' \in BOOLEAN /\ lpc' = "ui" /\ lpc = "eval"
    BY <1>13 DEF HearInitOK, Evaluating
  <2>4. UNCHANGED <<closing, listed, unloaded, seen, reinject, block, target, age>>
    BY <1>13 DEF HearInitOK, Keep
  <2> QED
    BY <2>1, <2>2, <2>3, <2>4
<1>14. CASE HearFinal
  BY <1>14 DEF HearFinal, Free, Erase
<1>15. CASE DestroyGiveUp
  BY <1>15 DEF DestroyGiveUp, Leave, Erase
<1>16. CASE DestroyHang
  BY <1>16 DEF DestroyHang, Keep, Evaluating
<1>17. CASE DestroyFree
  BY <1>17 DEF DestroyFree, Free, Leave, Erase
<1>18. CASE LoaderKilled
  BY <1>18 DEF LoaderKilled, Leave, Erase
<1>19. CASE ClientEstablish
  BY <1>19 DEF ClientEstablish, Client, Post
<1>20. CASE ClientInitOK
  BY <1>20, RestartedType DEF ClientInitOK, Client
<1>21. CASE ClientInitFails
  BY <1>21 DEF ClientInitFails, Client
<1>22. CASE ClientPostFailed
  BY <1>22 DEF ClientPostFailed, Client, Post
<1>23. CASE ClientFrame
  <2>1. CASE beat
    <3>1. TypeOK'
      BY <1>23, <2>1, RestartedType DEF ClientFrame, Client, HeartBeating
    <3>2. Ownership'
      BY <1>23, <2>1, RestartedType DEF ClientFrame, Client, HeartBeating
    <3>3. Messages'
      BY <1>23, <2>1, RestartedType DEF ClientFrame, Client, HeartBeating
    <3>4. Beating'
      BY <1>23, <2>1, RestartedType DEF ClientFrame, Client, HeartBeating
    <3> QED
      BY <3>1, <3>2, <3>3, <3>4
  <2>2. CASE ~beat
    BY <1>23, <2>2 DEF ClientFrame, Client, HeartBeating
  <2> QED
    BY <2>1, <2>2
<1>24. CASE ClientStopBeat
  BY <1>24 DEF ClientStopBeat, Client
<1>25. CASE ClientStopRequest
  <2>1. CASE beat
    <3>1. TypeOK'
      BY <1>25, <2>1, RestartedType DEF ClientStopRequest, Client, HeartBeating
    <3>2. Ownership'
      BY <1>25, <2>1, RestartedType DEF ClientStopRequest, Client, HeartBeating
    <3>3. Messages'
      BY <1>25, <2>1, RestartedType DEF ClientStopRequest, Client, HeartBeating
    <3>4. Beating'
      BY <1>25, <2>1, RestartedType DEF ClientStopRequest, Client, HeartBeating
    <3> QED
      BY <3>1, <3>2, <3>3, <3>4
  <2>2. CASE ~beat
    BY <1>25, <2>2 DEF ClientStopRequest, Client, HeartBeating
  <2> QED
    BY <2>1, <2>2
<1>26. CASE ClientStopItself
  BY <1>26 DEF ClientStopItself, Client
<1>27. CASE ClientRestartGame
  BY <1>27 DEF ClientRestartGame, Client
<1>28. CASE ClientPostUnloading
  BY <1>28 DEF ClientPostUnloading, Client, Post
<1>29. CASE ClientPostRestarting
  BY <1>29 DEF ClientPostRestarting, Client, Post
<1>30. CASE ClientReturn
  BY <1>30 DEF ClientReturn, Client
<1>31. CASE GameEnds
  <2>1. TypeOK'
    BY <1>31 DEF GameEnds
  <2>2. Ownership'
    BY <1>31 DEF GameEnds
  <2>3. Messages'
    BY <1>31 DEF GameEnds
  <2>4. Beating'
    BY <1>31 DEF GameEnds
  <2> QED
    BY <2>1, <2>2, <2>3, <2>4
<1>32. CASE GameStarts
  BY <1>32 DEF GameStarts
<1>33. CASE Tick
  BY <1>33, LimitType, PollLimit, ConstantsAssumption DEF Tick, OnTime, Running
<1>34. CASE UNCHANGED vars
  BY <1>34 DEF vars
<1> QED
  BY <1>1, <1>2, <1>3, <1>4, <1>5, <1>6, <1>7, <1>8, <1>9, <1>10, <1>11, <1>12, <1>13,
     <1>14, <1>15, <1>16, <1>17, <1>18, <1>19, <1>20, <1>21, <1>22, <1>23, <1>24, <1>25,
     <1>26, <1>27, <1>28, <1>29, <1>30, <1>31, <1>32, <1>33, <1>34
     DEF Next, UserStep, UpdateStep, DestroyStep, ClientStep

-----------------------------------------------------------------------------
(* The theorems. *)

\* In every execution the object of a module is in the table until its memory is
\* dealt with, the messages fit the two threads, and the heartbeat is not late.
THEOREM SpecIInv == Spec => []IInv
  BY InitIInv, StepIInv, PTL DEF Spec

\* Every state of a session is well typed, whatever the timeouts.
THEOREM TypeCorrect == Spec => []TypeOK
  BY SpecIInv, PTL DEF IInv

\* heart_beating() fails only when the loader is gone, for every poll interval
\* that fits into the heartbeat's timeout.
THEOREM HeartbeatKeepsAlive == Spec => []NoFalseAlarm
<1>1. IInv => NoFalseAlarm
  <2> SUFFICES ASSUME IInv, cpc = "run", HeartStopped, lpc # "gone" PROVE FALSE
    BY DEF NoFalseAlarm
  <2>1. listed
    BY DEF IInv, Ownership, Live
  <2>2. age["beat"] <= age["poll"] /\ age["poll"] <= PollGap
    BY <2>1 DEF IInv, Beating, HeartStopped
  <2>3. age["beat"] \in Nat /\ age["poll"] \in Nat
    BY DEF IInv, TypeOK, Timers
  <2> QED
    BY <2>2, <2>3, ConstantsAssumption DEF HeartStopped
<1> QED
  BY <1>1, SpecIInv, PTL

\* No working module loses its memory without a request or an expired start.
THEOREM ReleasesEarned == Spec => ReleaseIsEarned
<1> DEFINE Earned == cpc' = "crashed" /\ cpc \in Live \ {"tail"}
                       => requested \/ (seen = "None" /\ age["start"] > InitTimeout)
<1>1. IInv /\ [Next]_vars => [Earned]_vars
  <2> SUFFICES ASSUME IInv, Next, cpc' = "crashed", cpc \in Live \ {"tail"},
                      ~requested
               PROVE  seen = "None" /\ age["start"] > InitTimeout
    OBVIOUS
  <2>1. mem = "mapped" /\ game /\ cpc # "crashed" /\ cpc # "done" /\ cpc # "tail"
    BY DEF IInv, Ownership, Live
  <2>2. CASE ClickUnload
    BY <2>1, <2>2 DEF ClickUnload, AskOrFree, Readable, target
  <2>3. CASE CloseWindow
    BY <2>1, <2>3 DEF CloseWindow, AskOrFree, Readable, target
  <2>4. CASE PollHalt
    BY <2>1, <2>4 DEF PollHalt, CommunicationFails, InitExpired, Readable
  <2>5. CASE HearFinal
    <3>1. seen \in FinalCodes
      BY <2>5 DEF HearFinal, Heard, UnloadExpired
    <3> QED
      BY <2>1, <3>1 DEF IInv, Messages
  <2>6. CASE DestroyFree
    <3>1. seen \in FinalCodes
      BY <2>6 DEF DestroyFree, Heard, UnloadExpired, FinalCodes
    <3> QED
      BY <2>1, <3>1 DEF IInv, Messages
  <2>7. CASE \/ UIFrame \/ UpdateSkip \/ PollNothing \/ PollReap \/ PollRead \/ PollBeat
             \/ HearNothingNew \/ HearInitOK \/ DestroyGiveUp \/ DestroyHang \/ LoaderKilled
             \/ Tick
    BY <2>1, <2>7 DEF UIFrame, UpdateSkip, PollNothing, PollReap, PollRead, PollBeat,
         HearNothingNew, HearInitOK, Keep, DestroyGiveUp, DestroyHang, LoaderKilled, Tick, target
  <2>8. CASE ClickStart \/ UpdateBegin
    BY <2>1, <2>8 DEF ClickStart, UpdateBegin, InjectToTargetProcess, StartInjection,
         NoInjection, target
  <2>9. CASE ClientStep
    BY <2>1, <2>9 DEF ClientStep, ClientEstablish, ClientInitOK, ClientInitFails,
         ClientPostFailed, ClientFrame, ClientStopBeat, ClientStopRequest, ClientStopItself,
         ClientRestartGame, ClientPostUnloading, ClientPostRestarting, ClientReturn, Client
  <2>10. CASE GameEnds \/ GameStarts
    BY <2>10 DEF GameEnds, GameStarts
  <2> QED
    BY <2>2, <2>3, <2>4, <2>5, <2>6, <2>7, <2>8, <2>9, <2>10
       DEF Next, UserStep, UpdateStep, DestroyStep
<1> QED
  BY <1>1, SpecIInv, PTL DEF Spec, ReleaseIsEarned

-----------------------------------------------------------------------------
(* The session implements ModuleLifecycle. *)

\* A session starts as an absent module that nobody has asked for anything.
LEMMA LifecycleInit == Init => Lifecycle!Init
  BY DEF Init, Lifecycle!Init, Phase

\* A release of mapped memory, seen from outside: after the module's last code
\* it is a Release, before it an Evict, for which there must be a reason.
LEMMA FreeIsReleaseOrEvict ==
  ASSUME IInv, Free, mem = "mapped", listed' \in BOOLEAN,
         cpc \in {"tail", "done"} \/ requested \/ (listed /\ seen = "None")
  PROVE  Lifecycle!Release \/ Lifecycle!Evict
<1> USE DEF Free, Phase, Live
<1>1. CASE cpc \in {"tail", "done"}
  BY <1>1 DEF Lifecycle!Release
<1>2. CASE cpc \notin {"tail", "done"}
  <2>1. requested \/ (listed /\ seen = "None")
    BY <1>2
  <2>2. cpc \in Live \ {"tail"}
    BY <1>2 DEF IInv, Ownership
  <2> QED
    BY <2>1, <2>2 DEF Lifecycle!Evict, Lifecycle!Present, Lifecycle!Phases, IInv, Messages
<1> QED
  BY <1>1, <1>2

\* Memory that is not mapped any more has nothing to release.
LEMMA FreeOfNothing ==
  ASSUME IInv, Free, mem # "mapped"
  PROVE  UNCHANGED Lifecycle!vars
  BY DEF IInv, Messages, Free, Phase, Lifecycle!vars

\* Seen from outside, start_injection begins a life.
LEMMA StartInjectionBegins ==
  ASSUME IInv, StartInjection, lpc # "gone", ~listed
  PROVE  Lifecycle!Begin
<1>1. Phase = "absent"
  <2>1. mem # "mapped"
    BY DEF IInv, Ownership
  <2> QED
    BY <2>1 DEF Phase
<1>2. Phase' = "starting"
  BY DEF StartInjection, Phase
<1>3. (m2c = "RequestUnload")' = FALSE /\ (cpc = "crashed")' = FALSE
  BY DEF StartInjection
<1>4. (listed /\ mem = "mapped" /\ seen = "None")' = TRUE
  BY DEF StartInjection
<1> QED
  BY <1>1, <1>2, <1>3, <1>4 DEF Lifecycle!Begin

\* unload(true) asks, or releases as unload(false) does.
LEMMA AskOrFreeSteps ==
  ASSUME IInv, NEW S, AskOrFree(S), listed, UNCHANGED <<listed, seen>>
  PROVE  [Lifecycle!Next]_Lifecycle!vars
<1>1. CASE ~Readable
  BY <1>1, FreeOfNothing DEF AskOrFree, Readable
<1>2. CASE Readable /\ requested
  BY <1>2, FreeIsReleaseOrEvict DEF AskOrFree, Readable, Lifecycle!Next, IInv, TypeOK
<1>3. CASE Readable /\ ~requested
  <2>1. Lifecycle!Ask
    BY <1>3 DEF AskOrFree, Readable, target, Phase, Lifecycle!Ask, Lifecycle!Present,
         Lifecycle!Phases
  <2> QED
    BY <2>1 DEF Lifecycle!Next
<1> QED
  BY <1>1, <1>2, <1>3

\* Steps of the module's thread: one phase after the other.
LEMMA ClientLifecycle ==
  ASSUME IInv, ClientStep
  PROVE  [Lifecycle!Next]_Lifecycle!vars
<1> USE DEF Client, Phase, object
<1>0. mem = "mapped"
  BY DEF IInv, Ownership, Live, ClientStep, ClientEstablish, ClientInitOK, ClientInitFails,
     ClientPostFailed, ClientFrame, ClientStopBeat, ClientStopRequest, ClientStopItself,
     ClientRestartGame, ClientPostUnloading, ClientPostRestarting, ClientReturn
<1>1. CASE ClientInitOK
  <2>1. Lifecycle!Ready
    BY <1>0, <1>1 DEF ClientInitOK, Lifecycle!Ready
  <2> QED
    BY <2>1 DEF Lifecycle!Next
<1>2. CASE \/ ClientInitFails \/ ClientStopBeat \/ ClientStopRequest \/ ClientStopItself
           \/ ClientRestartGame
  <2>1. Lifecycle!Leave
    BY <1>0, <1>2 DEF ClientInitFails, ClientStopBeat, ClientStopRequest, ClientStopItself,
       ClientRestartGame, Lifecycle!Leave
  <2> QED
    BY <2>1 DEF Lifecycle!Next
<1>3. CASE ClientPostFailed \/ ClientPostUnloading \/ ClientPostRestarting
  <2>1. Lifecycle!Announce
    BY <1>0, <1>3 DEF ClientPostFailed, ClientPostUnloading, ClientPostRestarting,
       Lifecycle!Announce
  <2> QED
    BY <2>1 DEF Lifecycle!Next
<1>4. CASE ClientEstablish \/ ClientFrame \/ ClientReturn
  BY <1>0, <1>4 DEF ClientEstablish, ClientFrame, ClientReturn, Lifecycle!vars
<1> QED
  BY <1>1, <1>2, <1>3, <1>4 DEF ClientStep

\* A loader that keeps the module and looks at it, or that ends.
LEMMA LookLifecycle ==
  ASSUME IInv, UNCHANGED <<c2m, m2c, mem, cpc>>,
         (listed /\ mem = "mapped" /\ seen = "None")'
           => (listed /\ mem = "mapped" /\ seen = "None")
  PROVE  [Lifecycle!Next]_Lifecycle!vars
<1>1. UNCHANGED <<Phase, m2c = "RequestUnload", cpc = "crashed">>
  BY DEF Phase
<1>2. CASE (listed /\ mem = "mapped" /\ seen = "None")' = FALSE
  <2>1. Lifecycle!Notice
    BY <1>1, <1>2 DEF Lifecycle!Notice
  <2> QED
    BY <2>1 DEF Lifecycle!Next
<1>3. CASE (listed /\ mem = "mapped" /\ seen = "None")' # FALSE
  BY <1>1, <1>3 DEF Lifecycle!vars
<1> QED
  BY <1>2, <1>3

\* Every step of a session is a step of the life, or none.
LEMMA LifecycleStep == IInv /\ [Next]_vars => [Lifecycle!Next]_Lifecycle!vars
<1> SUFFICES ASSUME IInv, [Next]_vars PROVE [Lifecycle!Next]_Lifecycle!vars
  OBVIOUS
<1> USE DEF object, block, target
<1>1. CASE ClickStart \/ UpdateBegin
  <2>1. CASE ~listed /\ StartInjection
    <3>1. Lifecycle!Begin
      BY <1>1, <2>1, StartInjectionBegins DEF ClickStart, UpdateBegin
    <3> QED
      BY <3>1 DEF Lifecycle!Next
  <2>2. CASE NoInjection
    BY <2>2, LookLifecycle DEF NoInjection
  <2> QED
    BY <1>1, <2>1, <2>2 DEF ClickStart, UpdateBegin, InjectToTargetProcess
<1>2. CASE ClickUnload
  BY <1>2, AskOrFreeSteps DEF ClickUnload
<1>3. CASE CloseWindow
  <2>1. CASE listed /\ ~unloaded
    BY <1>3, <2>1, AskOrFreeSteps DEF CloseWindow
  <2>2. CASE ~listed \/ unloaded
    BY <1>3, <2>2, LookLifecycle DEF CloseWindow, Leave, Erase
  <2> QED
    BY <2>1, <2>2
<1>4. CASE \/ UIFrame \/ UpdateSkip \/ PollNothing \/ PollBeat \/ HearNothingNew \/ HearInitOK
           \/ DestroyHang \/ Tick
  <2>1. UNCHANGED <<c2m, m2c, mem, cpc, listed, seen>>
    BY <1>4 DEF UIFrame, UpdateSkip, PollNothing, PollBeat, HearNothingNew, HearInitOK,
         DestroyHang, Keep, Tick
  <2> QED
    BY <2>1, LookLifecycle
<1>5. CASE PollReap \/ DestroyGiveUp \/ LoaderKilled
  BY <1>5, LookLifecycle DEF PollReap, DestroyGiveUp, LoaderKilled, Leave, Erase
<1>6. CASE PollRead
  <2>1. (mem = "mapped" /\ c2m = "None") => seen = "None"
    BY DEF IInv, Messages
  <2> QED
    BY <1>6, <2>1, LookLifecycle DEF PollRead
<1>7. CASE PollHalt \/ HearFinal \/ DestroyFree
  <2>1. Free /\ listed' = FALSE /\ lpc # "gone"
    BY <1>7 DEF PollHalt, HearFinal, DestroyFree, Leave, Erase, Evaluating, CommunicationFails
  <2>2. CASE mem # "mapped"
    BY <2>1, <2>2, FreeOfNothing
  <2>3. CASE mem = "mapped"
    <3>1. cpc \in {"tail", "done"} \/ requested \/ (listed /\ seen = "None")
      BY <1>7, <2>1, <2>3 DEF IInv, Ownership, Messages, PollHalt, CommunicationFails, InitExpired,
         Readable, HearFinal, DestroyFree, Heard, UnloadExpired, FinalCodes
    <3> QED
      BY <2>1, <2>3, <3>1, FreeIsReleaseOrEvict DEF Lifecycle!Next
  <2> QED
    BY <2>2, <2>3
<1>8. CASE ClientStep
  BY <1>8, ClientLifecycle
<1>9. CASE GameEnds
  <2>1. Lifecycle!TargetGone
    BY <1>9 DEF GameEnds, Phase, Lifecycle!TargetGone
  <2> QED
    BY <2>1 DEF Lifecycle!Next
<1>10. CASE GameStarts
  <2>1. Lifecycle!TargetGone
    BY <1>10 DEF GameStarts, Phase, IInv, Ownership, Messages, Lifecycle!TargetGone
  <2> QED
    BY <2>1 DEF Lifecycle!Next
<1>11. CASE UNCHANGED vars
  BY <1>11, LookLifecycle DEF vars
<1> QED
  BY <1>1, <1>2, <1>3, <1>4, <1>5, <1>6, <1>7, <1>8, <1>9, <1>10, <1>11
     DEF Next, UserStep, UpdateStep, DestroyStep

\* Every session is a life as ModuleLifecycle describes it.
THEOREM SessionImplementsLifecycle == Spec => ImplementsLifecycle
<1>1. ImplementsLifecycle <=> Lifecycle!Init /\ [][Lifecycle!Next]_Lifecycle!vars
  BY DEF ImplementsLifecycle, Lifecycle!Spec
<1> QED
  BY <1>1, LifecycleInit, LifecycleStep, SpecIInv, PTL DEF Spec

=============================================================================
