--------------------------- MODULE InjectorSession ---------------------------
(***************************************************************************)
(* One loader and the one communicative module it injects: the loader's    *)
(* main thread (window frames, CBaseInjector::update and ::destroy), the   *)
(* module object CLoadLibrareredDll / CManualMappedDll, the IPC block in   *)
(* the target process, and the module's own thread (COxWare::run).         *)
(*                                                                         *)
(* The two processes share only the block: the module writes c2m, the      *)
(* loader writes m2c and the heartbeat sequence, each without a lock.      *)
(* Time is a set of ages advanced by Tick.                                 *)
(***************************************************************************)
EXTENDS Naturals

CONSTANTS
    BeatTimeout,    \* k_havent_received_hbeat_in_seconds, module side
    WaitTimeout,    \* k_max_module_unload_wait_time_sec, destroy()
    UnloadTimeout,  \* k_seconds_for_the_client_dll_to_unload
    InitTimeout,    \* k_load_and_init_threshold_seconds
    PollGap         \* the longest the loader's thread leaves between beats

ASSUME ConstantsAssumption ==
    /\ {BeatTimeout, WaitTimeout, UnloadTimeout, InitTimeout} \subseteq Nat
    /\ PollGap \in Nat \ {0}
    /\ PollGap <= BeatTimeout

ClientCodes == {"None", "Init_OK", "Init_Failed", "Unloading", "Restarting"}
FinalCodes  == {"Init_Failed", "Unloading", "Restarting"}
Timers      == {"start", "request", "wait", "beat", "poll"}

\* What each timer is compared with.  A timer that has run out stops counting.
Limit == [t \in Timers |-> CASE t = "start"   -> InitTimeout
                             [] t = "request" -> UnloadTimeout
                             [] t = "wait"    -> WaitTimeout
                             [] t = "beat"    -> BeatTimeout
                             [] t = "poll"    -> PollGap]

VARIABLES
    lpc,        \* where the loader's thread is
    closing,    \* it is inside destroy()
    listed,     \* m_injected_dlls holds the module object
    unloaded,   \* m_unloaded of that object
    requested,  \* m_requested_injected_dll_unload of that object
    seen,       \* the object's copy of m_c2m, as of its last look at the block
    lastCode,   \* the function-local static last_code of update()
    reinject,   \* m_should_reinject
    allow,      \* m_allow_to_load_again of the loader's window
    c2m, m2c,   \* the block: m_c2m and m_m2c
    beat,       \* the block: a sequence number the module has not seen yet
    mem,        \* the module's memory in the target process
    game,       \* the target process is running
    cpc,        \* where the module's thread is
    age         \* time since each timer was started

loader  == <<lpc, closing>>
object  == <<listed, unloaded, requested, seen>>
ui      == <<allow, reinject>>
block   == <<c2m, m2c, beat>>
target  == <<mem, game, cpc>>
vars == <<loader, object, lastCode, ui, block, target, age>>

\* The module's thread executes code that lives in the module's memory.
Live == {"entry", "init", "run", "failing", "stop", "restart", "tail"}

TypeOK ==
    /\ lpc \in {"ui", "due", "poll", "beat", "eval", "gone"}
    /\ {closing, listed, unloaded, requested, reinject, allow, beat, game} \subseteq BOOLEAN
    /\ lastCode \in ClientCodes /\ seen \in ClientCodes /\ c2m \in ClientCodes
    /\ m2c \in {"None", "RequestUnload"}
    /\ mem \in {"none", "mapped", "freed"}
    /\ cpc \in Live \cup {"none", "done", "crashed"}
    /\ age \in [Timers -> Nat] /\ \A t \in Timers : age[t] <= Limit[t] + 1

Init ==
    /\ lpc = "ui" /\ closing = FALSE
    /\ listed = FALSE /\ unloaded = FALSE /\ requested = FALSE
    /\ seen = "None" /\ lastCode = "None"
    /\ allow = TRUE /\ reinject = FALSE
    /\ c2m = "None" /\ m2c = "None" /\ beat = FALSE
    /\ mem = "none" /\ game \in BOOLEAN /\ cpc = "none"
    /\ age = [t \in Timers |-> 0]

-----------------------------------------------------------------------------
(* The injected module object. *)

Readable == mem = "mapped"

\* unload(false): free the image and the block, close the handle.  A thread
\* that still executes in the image takes the target process down.
Free ==
    LET faults == mem = "mapped" /\ cpc \in Live IN
    /\ mem' = IF mem = "mapped" THEN "freed" ELSE mem
    /\ cpc' = IF faults THEN "crashed" ELSE cpc
    /\ game' = (game /\ ~faults)
    /\ c2m' = "None" /\ m2c' = "None" /\ beat' = FALSE

\* The ages once these timers have been started again.
Restarted(timers) == [t \in Timers |-> IF t \in timers THEN 0 ELSE age[t]]

\* unload(true): ask the module once, otherwise free it.  The caller starts
\* timers of its own.
AskOrFree(timers) ==
    IF requested \/ ~Readable
    THEN Free /\ unloaded' = TRUE /\ UNCHANGED requested /\ age' = Restarted(timers)
    ELSE /\ requested' = TRUE
         /\ m2c' = "RequestUnload"
         /\ age' = Restarted(timers \cup {"request"})
         /\ UNCHANGED <<unloaded, c2m, beat, target>>

\* insert + start_injection: a fresh object, a fresh block, a new thread.
StartInjection ==
    /\ game
    /\ listed' = TRUE /\ unloaded' = FALSE /\ requested' = FALSE /\ seen' = "None"
    /\ c2m' = "None" /\ m2c' = "None" /\ beat' = FALSE
    /\ mem' = "mapped" /\ cpc' = "entry"
    /\ age' = Restarted({"start", "poll"})
    /\ UNCHANGED game

\* Inserting fails when the module is still listed; starting fails when there
\* is no target process, or for a reason of its own.  Nothing is kept then.
NoInjection == UNCHANGED <<object, block, target, age>>

InjectToTargetProcess_Unchecked == StartInjection \/ NoInjection      \* mutant
InjectToTargetProcess == IF listed THEN NoInjection ELSE StartInjection \/ NoInjection

-----------------------------------------------------------------------------
(* The loader's window: one frame, with at most one button pressed. *)

\* Drawing the main tab re-enables "Start cheat" when no module is listed.
RefreshAllow == allow' = (allow \/ ~listed')

UIFrame ==
    /\ lpc = "ui" /\ lpc' = "due"
    /\ UNCHANGED <<closing, object, lastCode, reinject, block, target, age>>
    /\ RefreshAllow \/ UNCHANGED allow      \* main tab, or another one

ClickStart ==
    /\ lpc = "ui" /\ lpc' = "due"
    /\ allow
    /\ InjectToTargetProcess
    /\ RefreshAllow
    /\ UNCHANGED <<closing, lastCode, reinject>>

ClickUnload ==
    /\ lpc = "ui" /\ lpc' = "due"
    /\ ~allow /\ listed
    /\ AskOrFree({})
    /\ UNCHANGED <<closing, listed, seen, lastCode, ui>>

-----------------------------------------------------------------------------
(* CBaseInjector::update *)

\* The entry leaves the table, and the object is never looked at again.
Erase == listed' = FALSE /\ unloaded' = FALSE /\ requested' = FALSE /\ seen' = "None"

\* The threshold has not passed since the last check.
UpdateSkip ==
    /\ lpc = "due" /\ lpc' = "ui"
    /\ age["poll"] < PollGap
    /\ UNCHANGED <<closing, object, lastCode, ui, block, target, age>>

UpdateBegin ==
    /\ lpc = "due" /\ lpc' = "poll"
    /\ IF reinject THEN InjectToTargetProcess ELSE NoInjection
    /\ reinject' = FALSE
    /\ UNCHANGED <<closing, lastCode, allow>>

PollNothing ==
    /\ lpc = "poll" /\ ~closing /\ ~listed
    /\ lpc' = "ui"
    /\ UNCHANGED <<closing, object, lastCode, ui, block, target, age>>

\* The module was unloaded since the last poll: drop the entry.
PollReap ==
    /\ lpc = "poll" /\ ~closing /\ listed /\ unloaded
    /\ Erase /\ lpc' = "ui"
    /\ UNCHANGED <<closing, lastCode, ui, block, target, age>>

\* Mutant: the other field of the block.
PollRead_WrongField ==
    /\ lpc = "poll" /\ listed /\ ~unloaded /\ Readable
    /\ closing => age["wait"] <= WaitTimeout
    /\ seen' = m2c
    /\ lpc' = "beat"
    /\ UNCHANGED <<closing, listed, unloaded, requested, lastCode, ui, block, target, age>>

\* listen_to_injected_dll, first half: copy the block ...
PollRead ==
    /\ lpc = "poll" /\ listed /\ ~unloaded /\ Readable
    /\ closing => age["wait"] <= WaitTimeout
    /\ seen' = c2m
    /\ lpc' = "beat"
    /\ UNCHANGED <<closing, listed, unloaded, requested, lastCode, ui, block, target, age>>

\* Mutant: no heartbeat from destroy().
PollBeat_OnlyUpdate ==
    /\ lpc = "beat" /\ Readable
    /\ beat' = (beat \/ ~closing)
    /\ age' = Restarted({"poll"})
    /\ lpc' = "eval"
    /\ UNCHANGED <<closing, object, lastCode, ui, c2m, m2c, target>>

\* Mutant: the whole copy is written back, not the sequence alone.
PollBeat_WholeBlock ==
    /\ lpc = "beat" /\ Readable
    /\ beat' = TRUE /\ c2m' = seen
    /\ age' = Restarted({"poll"})
    /\ lpc' = "eval"
    /\ UNCHANGED <<closing, object, lastCode, ui, m2c, target>>

\* ... second half: write the next sequence number, and only that, back.
PollBeat ==
    /\ lpc = "beat" /\ Readable
    /\ beat' = TRUE
    /\ age' = Restarted({"poll"})
    /\ lpc' = "eval"
    /\ UNCHANGED <<closing, object, lastCode, ui, c2m, m2c, target>>

InitExpired   == seen = "None" /\ age["start"] > InitTimeout
UnloadExpired == requested /\ age["request"] > UnloadTimeout

\* The block could not be accessed, or the module never said anything.
CommunicationFails ==
    \/ lpc \in {"poll", "beat", "eval"} /\ listed /\ ~unloaded /\ ~Readable
    \/ lpc = "eval" /\ InitExpired

Heard_NoDeadline == seen      \* mutant: a request may take forever

\* The code communicate_with_injected_dll returns: a request that ran out of
\* time is answered by the loader itself.
Heard == IF UnloadExpired THEN "Unloading" ELSE seen

PollHalt ==
    /\ ~closing /\ CommunicationFails
    /\ Free /\ Erase
    /\ allow' = TRUE
    /\ lpc' = "ui"
    /\ UNCHANGED <<closing, lastCode, reinject, age>>

Evaluating == lpc = "eval" /\ Readable /\ ~InitExpired

\* Evaluating a code that leaves the module in place.
Keep ==
    /\ requested' = (requested /\ ~UnloadExpired)
    /\ UNCHANGED <<closing, listed, unloaded, seen, reinject, block, target, age>>

\* The same code as last time, or none yet.
HearNothingNew ==
    /\ Evaluating /\ ~closing
    /\ Heard \in {lastCode, "None"}
    /\ lastCode' = Heard
    /\ lpc' = "ui"
    /\ Keep /\ UNCHANGED allow

HearInitOK ==
    /\ Evaluating /\ ~closing
    /\ Heard = "Init_OK" /\ lastCode # Heard
    /\ lastCode' = Heard
    /\ allow' = FALSE
    /\ lpc' = "ui"
    /\ Keep

\* Init_Failed, Unloading, Restarting: the module is freed and dropped.
HearFinal ==
    /\ Evaluating /\ ~closing
    /\ Heard \in FinalCodes /\ lastCode # Heard
    /\ lastCode' = Heard
    /\ Free /\ Erase
    /\ allow' = (Heard # "Restarting")
    /\ reinject' = (Heard = "Restarting" \/ reinject)
    /\ lpc' = "ui"
    /\ UNCHANGED <<closing, age>>

-----------------------------------------------------------------------------
(* CBaseInjector::destroy, after the main loop has ended. *)

\* The loader's process is over.
Leave == lpc' = "gone" /\ Erase /\ UNCHANGED <<lastCode, ui, age>>

\* The window was closed: ask the module, then wait for it.
CloseWindow ==
    /\ lpc = "ui"
    /\ closing' = TRUE
    /\ \/ /\ listed /\ ~unloaded
          /\ AskOrFree({"wait"})
          /\ lpc' = "poll"
          /\ UNCHANGED <<listed, seen, lastCode, ui>>
       \/ /\ ~listed \/ unloaded
          /\ Leave
          /\ UNCHANGED <<block, target>>

\* hang_till_module_unloads gives up: the module stays where it is.
DestroyGiveUp ==
    /\ closing
    /\ \/ lpc = "poll" /\ (age["wait"] > WaitTimeout \/ unloaded)
       \/ CommunicationFails
    /\ Leave
    /\ UNCHANGED <<closing, block, target>>

DestroyHang ==
    /\ Evaluating /\ closing
    /\ Heard # "Unloading"
    /\ lpc' = "poll"
    /\ Keep /\ UNCHANGED <<lastCode, allow>>

DestroyFree ==
    /\ Evaluating /\ closing
    /\ Heard = "Unloading"
    /\ Free /\ Leave
    /\ UNCHANGED closing

\* The loader's process is terminated.
LoaderKilled ==
    /\ lpc # "gone" /\ Leave
    /\ UNCHANGED <<closing, block, target>>

-----------------------------------------------------------------------------
(* The module's thread: CommunicativeDllEntryPoint and COxWare::run. *)

Client(from, to) ==
    /\ cpc = from /\ cpc' = to
    /\ UNCHANGED <<loader, object, lastCode, ui, m2c, mem, game>>

\* A step that posts a code and touches nothing else.
Post(code) == c2m' = code /\ UNCHANGED <<beat, age>>

\* establish_communication
ClientEstablish == Client("entry", "init") /\ Post("None")

ClientInitOK ==
    /\ Client("init", "run")
    /\ c2m' = "Init_OK"
    /\ age' = Restarted({"beat"})
    /\ UNCHANGED beat

\* initialize() returned false: shut down what was loaded, then say so.
ClientInitFails  == Client("init", "failing") /\ UNCHANGED <<c2m, beat, age>>
ClientPostFailed == Client("failing", "tail") /\ Post("Init_Failed")

\* heart_beating() returns false.
HeartStopped == ~beat /\ age["beat"] > BeatTimeout

\* Mutant: the timer starts again on every call.
HeartBeating_AlwaysFresh ==
    /\ ~HeartStopped
    /\ beat' = FALSE
    /\ age' = Restarted({"beat"})

\* heart_beating() otherwise: a new sequence number starts the timer again.
HeartBeating ==
    /\ ~HeartStopped
    /\ beat' = FALSE
    /\ age' = IF beat THEN Restarted({"beat"}) ELSE age

ClientFrame ==
    /\ Client("run", "run")
    /\ HeartBeating
    /\ m2c # "RequestUnload"
    /\ UNCHANGED c2m

ClientStopBeat == Client("run", "stop") /\ HeartStopped /\ UNCHANGED <<c2m, beat, age>>

ClientStopRequest ==
    /\ Client("run", "stop")
    /\ HeartBeating
    /\ m2c = "RequestUnload"
    /\ UNCHANGED c2m

\* Mutant: the last code is posted before shutdown(), not after it.
ClientStopItself_PostsFirst == Client("run", "stop") /\ Post("Unloading")

\* end_cheat_execution: from the menu or a command, or because the engine is
\* exiting or restarting, in which case its thread writes the last code.
ClientStopItself  == Client("run", "stop") /\ UNCHANGED <<c2m, beat, age>>
ClientRestartGame == Client("run", "restart") /\ UNCHANGED <<c2m, beat, age>>

\* shutdown() is over.
ClientPostUnloading  == Client("stop", "tail") /\ Post("Unloading")
ClientPostRestarting == Client("restart", "tail") /\ Post("Restarting")

\* The thread leaves the module's code.
ClientReturn == Client("tail", "done") /\ UNCHANGED <<c2m, beat, age>>

-----------------------------------------------------------------------------
(* The target process and time. *)

GameEnds ==
    /\ game /\ game' = FALSE
    /\ mem' = IF mem = "mapped" THEN "freed" ELSE mem
    /\ cpc' = "none"
    /\ c2m' = "None" /\ m2c' = "None" /\ beat' = FALSE
    /\ UNCHANGED <<loader, object, lastCode, ui, age>>

GameStarts ==
    /\ ~game /\ game' = TRUE
    /\ cpc' = "none"
    /\ UNCHANGED <<loader, object, lastCode, ui, block, mem, age>>

\* The loader's thread is never kept from beating for longer than PollGap.
OnTime == listed => age["poll"] < PollGap

\* The timers somebody is going to look at.
Running ==
    {t \in Timers : CASE t \in {"start", "poll"} -> listed
                      [] t = "request"          -> requested
                      [] t = "wait"             -> closing /\ listed
                      [] t = "beat"             -> cpc = "run"}

Tick ==
    /\ OnTime
    /\ age' = [t \in Timers |-> CASE t \notin Running      -> 0
                                  [] age[t] <= Limit[t]   -> age[t] + 1
                                  [] OTHER                -> age[t]]
    /\ UNCHANGED <<loader, object, lastCode, ui, block, target>>

-----------------------------------------------------------------------------
UserStep   == ClickStart \/ ClickUnload \/ CloseWindow
UpdateStep == \/ UpdateSkip \/ UpdateBegin \/ PollNothing \/ PollReap \/ PollRead
              \/ PollBeat \/ PollHalt \/ HearNothingNew \/ HearInitOK \/ HearFinal
DestroyStep == DestroyGiveUp \/ DestroyHang \/ DestroyFree
ClientStep == \/ ClientEstablish \/ ClientInitOK \/ ClientInitFails \/ ClientPostFailed
              \/ ClientFrame \/ ClientStopBeat \/ ClientStopRequest \/ ClientStopItself
              \/ ClientRestartGame \/ ClientPostUnloading \/ ClientPostRestarting
              \/ ClientReturn

Next ==
    \/ UIFrame \/ UserStep \/ UpdateStep \/ DestroyStep \/ LoaderKilled
    \/ ClientStep \/ GameEnds \/ GameStarts \/ Tick

Spec == Init /\ [][Next]_vars

\* The loader's loop and the module's frames go on, and time passes.  Nothing
\* is assumed of initialisation and shutdown, which can hang in the game.
Fairness ==
    /\ WF_vars(UIFrame \/ UpdateStep \/ DestroyStep)
    /\ WF_vars(ClientFrame \/ ClientStopBeat \/ ClientStopRequest)
    /\ WF_vars(Tick)

FairSpec == Spec /\ Fairness

-----------------------------------------------------------------------------
(* Properties. *)

\* Memory is taken from under a working module only when the loader had asked
\* it to unload, or when the last look at the block showed no report and the
\* initialisation threshold is over.  (Working: it has not posted its last code.)
ReleaseIsEarned ==
    [][cpc' = "crashed" /\ cpc \in Live \ {"tail"}
         => requested \/ (seen = "None" /\ age["start"] > InitTimeout)]_vars

\* A module stops for a missing heartbeat only once the loader's process is
\* gone: as long as the loader is there, heart_beating() does not fail.
NoFalseAlarm == cpc = "run" /\ HeartStopped => lpc = "gone"

\* What a session looks like from outside: one module at a time, which leaves
\* only in the ways ModuleLifecycle allows.
Phase ==
    IF mem # "mapped" THEN "absent" ELSE
        CASE cpc \in {"entry", "init"}   -> "starting"
          [] cpc = "failing"             -> "aborting"
          [] cpc = "run"                 -> "running"
          [] cpc \in {"stop", "restart"} -> "leaving"
          [] OTHER                       -> "left"
Lifecycle == INSTANCE ModuleLifecycle WITH
    phase <- Phase,
    asked <- m2c = "RequestUnload",
    silent <- listed /\ mem = "mapped" /\ seen = "None",
    fault <- cpc = "crashed"
ImplementsLifecycle == Lifecycle!Spec

\* A last code the module posts is noticed, although loader and module write
\* the block without a lock: unless it is the very code the loader noticed
\* last, the module's entry is dropped.
FinalCodeHandled ==
    \A k \in FinalCodes :
        (listed /\ ~unloaded /\ Readable /\ c2m = k /\ lastCode # k) ~> ~listed

\* A module that lost its loader does not keep running in the game.
OrphanStops == (lpc = "gone" /\ cpc = "run") ~> cpc # "run"

\* An unload request comes to an end, also when the module hangs in its
\* shutdown and never answers.
RequestTerminates == (listed /\ requested) ~> ~listed

\* The promise of the interface header: a module that was requested to unload
\* has time to acknowledge that before it is freed.
RequestIsPatient ==
    [][cpc' = "crashed" /\ cpc \in {"run", "stop"} /\ requested => UnloadExpired]_vars

\* The promise of update(): a module that reports a failed initialisation is
\* unloaded.  It is not if the module before it failed as well and this one fails
\* before its first poll: then no C2I_None was read in between, which would have
\* taken the place of that report in last_code.
FailedInitUnloads == (listed /\ c2m = "Init_Failed") ~> ~listed

=============================================================================
