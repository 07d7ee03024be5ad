------------------------------ MODULE EngineSync ------------------------------
(***************************************************************************)
(* Inside the target process: the cheat module's own thread (COxWare::run, *)
(* ::shutdown, CMemoryFnDetourMgr) and the engine's thread, which enters   *)
(* the module through the detours the first thread installs and removes.   *)
(*                                                                         *)
(* CEngineSynchronization keeps the engine inside the _Host_Frame detour   *)
(* while the others are patched; CEngine__Unload hangs the engine until    *)
(* the module has shut down.  The two waits can meet: each side then waits *)
(* for the other and only a timeout of k_time_to_acknowledge_sleep parts   *)
(* them.  All the flags are plain bools, read and written without a lock.  *)
(***************************************************************************)

CONSTANT Detours    \* those between _Host_Frame and the end of install_hooks,
                    \* without CEngine__Unload

VARIABLES
    tpc,            \* where the module's thread is
    stage,          \* its detours are being installed, or removed
    failed,         \* initialize() returned false
    epc,            \* where the engine's thread is
    within,         \* the detours whose code the engine is in: one at most
    back,           \* where the engine returns to from that detour
    restarting,     \* engine_restarting, a local of the CEngine__Unload detour
    shouldSleep,    \* m_engine_should_sleep
    isSleeping,     \* m_engine_is_sleeping
    exitReq,        \* m_requested_to_exit_cheat
    dontWrite,      \* m_dont_write_unloading_code
    shuttedDown,    \* m_shutted_down
    unloadFlag,     \* m_unloading_from_CEngine__Unload
    hostHooked,     \* _Host_Frame().is_installed()
    unloadHooked,   \* CEngine__Unload().is_installed()
    installed,      \* the other detours that are installed
    c2m,            \* m_c2m of the IPC block
    mem,            \* the module's memory
    unsynced        \* ghost: detours were patched though a wait of 20 s ended
                    \* without the engine's answer, or without any wait

tvars  == <<tpc, stage, failed>>
evars  == <<epc, within, back, restarting>>
sleep  == <<shouldSleep, isSleeping>>
exit   == <<exitReq, dontWrite, shuttedDown, unloadFlag>>
hooks  == <<hostHooked, unloadHooked, installed>>
outer  == <<c2m, mem>>
vars == <<tvars, evars, sleep, exit, hooks, outer, unsynced>>

FinalCodes == {"Init_Failed", "Unloading", "Restarting"}

\* The engine's thread executes the module's code, or will return into it.
Unloading == {"u_flag", "u_end", "u_dont", "u_wait", "u_call", "u_drop", "u_post", "u_tail"}
InModule  == {"loop", "exit", "tail", "frame", "hook"} \cup Unloading

\* The process still runs.
Running == epc \notin {"quit", "fault", "lost"}

TypeOK ==
    /\ tpc \in {"init", "put", "ack", "patch", "patch3", "unhost", "reread", "resume",
                "awake", "phase2", "run", "check", "down", "write", "post", "end"}
    /\ stage \in {"install", "remove"}
    /\ epc \in {"out", "left", "quit", "fault", "lost"} \cup InModule
    /\ back \in {"out", "frame"}
    /\ {within, installed} \subseteq SUBSET Detours
    /\ c2m \in {"None", "Init_OK"} \cup FinalCodes
    /\ mem \in {"mapped", "freed"}
    /\ {failed, restarting, shouldSleep, isSleeping, exitReq, dontWrite, shuttedDown,
        unloadFlag, hostHooked, unloadHooked, unsynced} \subseteq BOOLEAN

Init ==
    /\ tpc = "init" /\ stage = "install" /\ failed = FALSE
    /\ epc = "out" /\ within = {} /\ back = "out" /\ restarting = FALSE
    /\ shouldSleep = FALSE /\ isSleeping = FALSE
    /\ exitReq = FALSE /\ dontWrite = FALSE /\ shuttedDown = FALSE /\ unloadFlag = FALSE
    /\ hostHooked = FALSE /\ unloadHooked = FALSE /\ installed = {}
    /\ c2m = "None" /\ mem = "mapped"
    /\ unsynced = FALSE

-----------------------------------------------------------------------------
(* The module's thread: steps of its code, while there is any. *)

At(pc) == Running /\ mem = "mapped" /\ tpc = pc
Goto(pc) == tpc' = pc /\ UNCHANGED stage

\* initialize() fails before, or after, the detours were installed.
InitFails ==
    /\ At("init") \/ At("phase2")
    /\ Goto("check") /\ failed' = TRUE
    /\ UNCHANGED <<evars, sleep, exit, hooks, outer, unsynced>>

\* install_hooks: the detour the engine will hang in comes first.
HookHostFrame ==
    /\ At("init") /\ Goto("put")
    /\ hostHooked' \in BOOLEAN      \* the result of install() is not looked at
    /\ UNCHANGED <<failed, evars, sleep, exit, unloadHooked, installed, outer, unsynced>>

\* put_engine_in_sleep, up to the wait.
PutEngineInSleep ==
    /\ At("put")
    /\ IF hostHooked
       THEN shouldSleep' = TRUE /\ Goto("ack") /\ UNCHANGED unsynced
       ELSE /\ Goto("patch") /\ UNCHANGED shouldSleep
            /\ unsynced' = (unsynced \/ stage = "install" \/ installed # {})
    /\ UNCHANGED <<failed, evars, isSleeping, exit, hooks, outer>>

EngineAcked ==
    /\ At("ack") /\ isSleeping
    /\ Goto("patch")
    /\ UNCHANGED <<failed, evars, sleep, exit, hooks, outer, unsynced>>

EngineDidNotAck_Never == FALSE      \* mutant: no timeout

\* 20 seconds passed: the game's own code is busy for that long, or the engine
\* waits for this thread in CEngine__Unload.
EngineDidNotAck ==
    /\ At("ack") /\ ~isSleeping
    /\ epc \in {"out", "frame", "hook", "left", "u_wait"}
    /\ Goto("patch")
    /\ unsynced' = (unsynced \/ epc # "u_wait")
    /\ UNCHANGED <<failed, evars, sleep, exit, hooks, outer>>

\* install_hooks / uninstall_hooks, one detour at a time: some of them (nobody looks
\* at the results of install(), so that any may be missing) ...
PatchOne ==
    /\ At("patch") \/ At("patch3")
    /\ \E d \in Detours :
        IF stage = "install" THEN d \notin installed /\ installed' = installed \cup {d}
                             ELSE d \in installed /\ installed' = installed \ {d}
    /\ UNCHANGED <<tvars, evars, sleep, exit, hostHooked, unloadHooked, outer, unsynced>>

\* Mutant: the detour is removed under the engine that hangs in it.
PatchUnload_Always ==
    /\ At("patch") /\ Goto("patch3")
    /\ unloadHooked' \in IF stage = "install" THEN BOOLEAN ELSE {FALSE}
    /\ UNCHANGED <<failed, evars, sleep, exit, hostHooked, installed, outer, unsynced>>

\* ... CEngine__Unload, which is left to the engine when the engine is in it ...
PatchUnload ==
    /\ At("patch") /\ Goto("patch3")
    /\ unloadHooked' \in IF stage = "install" THEN BOOLEAN ELSE {unloadHooked /\ unloadFlag}
    /\ UNCHANGED <<failed, evars, sleep, exit, hostHooked, installed, outer, unsynced>>

\* ... and the others.
PatchDone ==
    /\ At("patch3")
    /\ IF stage = "install" THEN Goto("resume") ELSE installed = {} /\ Goto("unhost")
    /\ UNCHANGED <<failed, evars, sleep, exit, hooks, outer, unsynced>>

UnhookHostFrame ==
    /\ At("unhost") /\ Goto("reread")
    /\ hostHooked' = FALSE
    /\ UNCHANGED <<failed, evars, sleep, exit, unloadHooked, installed, outer, unsynced>>

\* shutdown() looks at the flag a second time before it wakes the engine.
RereadFlag ==
    /\ At("reread")
    /\ Goto(IF dontWrite THEN "down" ELSE "resume")
    /\ UNCHANGED <<failed, evars, sleep, exit, hooks, outer, unsynced>>

\* Mutant: the engine is never told.
ResumeEngine_Forgotten ==
    /\ At("resume") /\ Goto("awake")
    /\ UNCHANGED <<failed, evars, sleep, exit, hooks, outer, unsynced>>

ResumeEngine ==
    /\ At("resume") /\ Goto("awake")
    /\ shouldSleep' = FALSE
    /\ UNCHANGED <<failed, evars, isSleeping, exit, hooks, outer, unsynced>>

AfterResume == IF stage = "install" THEN "phase2" ELSE "down"

\* Mutant: nobody waits for the engine to leave.
EngineResumed_NoWait ==
    /\ At("awake")
    /\ Goto(AfterResume)
    /\ UNCHANGED <<failed, evars, sleep, exit, hooks, outer, unsynced>>

EngineResumed ==
    /\ At("awake") /\ ~isSleeping
    /\ Goto(AfterResume)
    /\ UNCHANGED <<failed, evars, sleep, exit, hooks, outer, unsynced>>

\* 20 seconds passed while the engine was inside SDL_PumpEvents.
EngineDidNotResume ==
    /\ At("awake") /\ isSleeping /\ epc = "loop"
    /\ Goto(AfterResume)
    /\ unsynced' = TRUE
    /\ UNCHANGED <<failed, evars, sleep, exit, hooks, outer>>

InitSucceeds ==
    /\ At("phase2") /\ Goto("run")
    /\ c2m' = "Init_OK"
    /\ UNCHANGED <<failed, evars, sleep, exit, hooks, mem, unsynced>>

\* run_frame() returns false: somebody asked for it, or the injector asked or
\* was silent for too long (InjectorSession), or a dependency failed.
LeaveMainLoop ==
    /\ At("run") /\ Goto("check")
    /\ UNCHANGED <<failed, evars, sleep, exit, hooks, outer, unsynced>>

\* Mutant: the request is taken for the answer.
BeginShutdown_Requested ==
    /\ At("check")
    /\ stage' = "remove"
    /\ tpc' = IF exitReq THEN "patch" ELSE "put"
    /\ UNCHANGED <<failed, evars, sleep, exit, hooks, outer, unsynced>>

\* shutdown() begins; the engine is put to sleep unless it waits already.
BeginShutdown ==
    /\ At("check")
    /\ stage' = "remove"
    /\ tpc' = IF dontWrite THEN "patch" ELSE "put"
    /\ UNCHANGED <<failed, evars, sleep, exit, hooks, outer, unsynced>>

ShuttedDown ==
    /\ At("down")
    /\ shuttedDown' = TRUE
    /\ Goto(IF failed THEN "post" ELSE "write")
    /\ UNCHANGED <<failed, evars, sleep, exitReq, dontWrite, unloadFlag, hooks, outer, unsynced>>

\* Mutant: the code is written whoever unloads the module.
CheckWhoWrites_Always ==
    /\ At("write")
    /\ Goto("post")
    /\ UNCHANGED <<failed, evars, sleep, exit, hooks, outer, unsynced>>

CheckWhoWrites ==
    /\ At("write")
    /\ Goto(IF dontWrite THEN "end" ELSE "post")
    /\ UNCHANGED <<failed, evars, sleep, exit, hooks, outer, unsynced>>

PostLastCode ==
    /\ At("post") /\ Goto("end")
    /\ c2m' = IF failed THEN "Init_Failed" ELSE "Unloading"
    /\ UNCHANGED <<failed, evars, sleep, exit, hooks, mem, unsynced>>

ModuleStep ==
    \/ InitFails \/ HookHostFrame
    \/ PutEngineInSleep \/ EngineAcked \/ EngineDidNotAck
    \/ PatchOne \/ PatchUnload \/ PatchDone \/ UnhookHostFrame
    \/ RereadFlag \/ ResumeEngine \/ EngineResumed \/ EngineDidNotResume
    \/ InitSucceeds
    \/ BeginShutdown \/ ShuttedDown \/ CheckWhoWrites \/ PostLastCode

-----------------------------------------------------------------------------
(* The engine's thread. *)

\* A step that executes the module's code.
In(pc) == mem = "mapped" /\ epc = pc
EngineGoes(pc) == epc' = pc /\ UNCHANGED <<within, back, restarting>>

EnterHostFrame ==
    /\ In("out") /\ hostHooked
    /\ EngineGoes("loop")
    /\ UNCHANGED <<tvars, sleep, exit, hooks, outer, unsynced>>

\* engine_frame: the body of the loop ...
EngineSleeps ==
    /\ In("loop") /\ shouldSleep
    /\ isSleeping' = TRUE
    /\ UNCHANGED <<tvars, evars, shouldSleep, exit, hooks, outer, unsynced>>

\* ... its end, as the engine sees it ...
LeaveSleepLoop ==
    /\ In("loop") /\ ~shouldSleep
    /\ EngineGoes("exit")
    /\ UNCHANGED <<tvars, sleep, exit, hooks, outer, unsynced>>

\* ... and after it: an engine that has slept says so, and then leaves the detour,
WakeUp ==
    /\ In("exit") /\ isSleeping
    /\ isSleeping' = FALSE
    /\ EngineGoes("tail")
    /\ UNCHANGED <<tvars, shouldSleep, exit, hooks, outer, unsynced>>

LeaveHostFrame ==
    /\ In("tail")
    /\ EngineGoes("out")
    /\ UNCHANGED <<tvars, sleep, exit, hooks, outer, unsynced>>

\* any other calls the original, whose address uninstall() sets to null.
CallFrame ==
    /\ In("exit") /\ ~isSleeping
    /\ EngineGoes(IF hostHooked THEN "frame" ELSE "fault")
    /\ UNCHANGED <<tvars, sleep, exit, hooks, outer, unsynced>>

FrameEnds ==
    /\ In("frame")
    /\ EngineGoes("out")
    /\ UNCHANGED <<tvars, sleep, exit, hooks, outer, unsynced>>

EnterDetour ==
    /\ In("out") \/ In("frame")
    /\ \E d \in installed : within' = {d}
    /\ epc' = "hook" /\ back' = epc
    /\ UNCHANGED <<tvars, restarting, sleep, exit, hooks, outer, unsynced>>

\* The original is called through the same kind of pointer.
LeaveDetour ==
    /\ In("hook")
    /\ within' = {}
    /\ epc' = IF within \subseteq installed THEN back ELSE "fault"
    /\ UNCHANGED <<tvars, back, restarting, sleep, exit, hooks, outer, unsynced>>

\* Mutant: the flag of the other caller.
RequestExit_TakesOver ==
    /\ In("hook")
    /\ exitReq' = TRUE /\ dontWrite' = TRUE
    /\ UNCHANGED <<tvars, evars, sleep, shuttedDown, unloadFlag, hooks, outer, unsynced>>

\* end_cheat_execution() from the menu, from a command, or from the failed
\* creation of the menu: all of them inside a detour.
RequestExit ==
    /\ In("hook")
    /\ exitReq' = TRUE /\ dontWrite' = FALSE
    /\ UNCHANGED <<tvars, evars, sleep, shuttedDown, unloadFlag, hooks, outer, unsynced>>

\* The game quits or restarts: through the detour, if there is one.
GameUnloads ==
    /\ epc = "out" /\ (unloadHooked => mem = "mapped")
    /\ restarting' \in BOOLEAN
    /\ epc' = IF unloadHooked THEN "u_flag" ELSE IF restarting' THEN "left" ELSE "quit"
    /\ UNCHANGED <<tvars, within, back, sleep, exit, hooks, outer, unsynced>>

FlagUnload ==
    /\ In("u_flag") /\ EngineGoes("u_end")
    /\ unloadFlag' = TRUE
    /\ UNCHANGED <<tvars, sleep, exitReq, dontWrite, shuttedDown, hooks, outer, unsynced>>

\* end_cheat_execution(true) sets one flag ...
EndExecution ==
    /\ In("u_end") /\ EngineGoes("u_dont")
    /\ exitReq' = TRUE
    /\ UNCHANGED <<tvars, sleep, dontWrite, shuttedDown, unloadFlag, hooks, outer, unsynced>>

\* ... and then the other.
TakeOverWriting ==
    /\ In("u_dont") /\ EngineGoes("u_wait")
    /\ dontWrite' = TRUE
    /\ UNCHANGED <<tvars, sleep, exitReq, shuttedDown, unloadFlag, hooks, outer, unsynced>>

\* Mutant: the code is posted before the engine's own unload.
WaitForShutdown_PostsFirst ==
    /\ In("u_wait") /\ shuttedDown
    /\ EngineGoes("u_call")
    /\ c2m' = IF restarting THEN "Restarting" ELSE "Unloading"
    /\ UNCHANGED <<tvars, sleep, exit, hooks, mem, unsynced>>

WaitForShutdown ==
    /\ In("u_wait") /\ shuttedDown
    /\ EngineGoes("u_call")
    /\ UNCHANGED <<tvars, sleep, exit, hooks, outer, unsynced>>

CallUnload ==
    /\ In("u_call")
    /\ EngineGoes(IF unloadHooked THEN "u_drop" ELSE "fault")
    /\ UNCHANGED <<tvars, sleep, exit, hooks, outer, unsynced>>

DropUnload ==
    /\ In("u_drop") /\ EngineGoes("u_post")
    /\ unloadHooked' = FALSE
    /\ UNCHANGED <<tvars, sleep, exit, hostHooked, installed, outer, unsynced>>

\* Mutant: a code of the other direction.
PostUnload_WrongCode ==
    /\ In("u_post")
    /\ c2m' = IF restarting THEN "Restarting" ELSE "RequestUnload"
    /\ EngineGoes(IF restarting THEN "left" ELSE "u_tail")
    /\ UNCHANGED <<tvars, sleep, exit, hooks, mem, unsynced>>

\* The detour returns when the game restarts, and sleeps a second when it quits.
PostUnload ==
    /\ In("u_post")
    /\ c2m' = IF restarting THEN "Restarting" ELSE "Unloading"
    /\ EngineGoes(IF restarting THEN "left" ELSE "u_tail")
    /\ UNCHANGED <<tvars, sleep, exit, hooks, mem, unsynced>>

Quit ==
    /\ In("u_tail")
    /\ EngineGoes("quit")
    /\ UNCHANGED <<tvars, sleep, exit, hooks, outer, unsynced>>

\* Any of this in memory that has been freed.
EngineLost ==
    /\ mem = "freed" /\ epc \in InModule
    /\ EngineGoes("lost")
    /\ UNCHANGED <<tvars, sleep, exit, hooks, outer, unsynced>>

\* What the engine does in the module's code without the game's help.
EngineStep ==
    \/ EngineSleeps \/ LeaveSleepLoop \/ WakeUp \/ LeaveHostFrame \/ CallFrame
    \/ FlagUnload \/ EndExecution \/ TakeOverWriting
    \/ WaitForShutdown \/ CallUnload \/ DropUnload \/ PostUnload \/ Quit
    \/ EngineLost

GameStep ==
    \/ EnterHostFrame \/ FrameEnds \/ EnterDetour \/ LeaveDetour
    \/ RequestExit \/ GameUnloads

-----------------------------------------------------------------------------
(* The injector, in the other process. *)

\* InjectorSession: a final code has the module freed, at some later poll.
LoaderFrees ==
    /\ Running /\ mem = "mapped" /\ c2m \in FinalCodes
    /\ mem' = "freed"
    /\ UNCHANGED <<tvars, evars, sleep, exit, hooks, c2m, unsynced>>

Next == ModuleStep \/ LeaveMainLoop \/ EngineStep \/ GameStep \/ LoaderFrees

Spec == Init /\ [][Next]_vars

\* Each thread goes on where only its own code is needed.  The game owes no
\* frame and no return from one; the main loop ends when it sees the request.
Fairness ==
    /\ WF_vars(ModuleStep)
    /\ WF_vars(exitReq /\ LeaveMainLoop)
    /\ WF_vars(EngineStep)

FairSpec == Spec /\ Fairness

-----------------------------------------------------------------------------
(* Properties. *)

\* The engine stands still, and touches no detour until it is told to go on.
Hanging ==
    \/ epc = "loop" /\ isSleeping /\ shouldSleep
    \/ epc = "u_wait" /\ ~shuttedDown

\* No detour is patched while the engine may run into it, whichever way the
\* shutdown was asked for and whenever the game chose to quit; the exception is
\* a wait for the engine that ended without its answer.  (The race the class
\* comment of CEngineSynchronization is about.)
PatchedWhileHanging ==
    [][installed' # installed => unsynced \/ Hanging]_vars

\* The engine never calls through the null pointer a removed detour leaves
\* behind: neither the frame it was put to sleep in, nor the detours it was in
\* when the shutdown began, nor CEngine::Unload.
NoNullCall == epc = "fault" => unsynced

\* When the injector reads that the module is unloading or restarting, no
\* detour is left that leads into the memory it is about to free.
UnhookedBeforePost ==
    c2m \in {"Unloading", "Restarting"} /\ ~unsynced =>
        ~hostHooked /\ ~unloadHooked /\ installed = {}

\* The two threads do not both report the end of a module that was initialized:
\* what the injector has read as the reason is not replaced by the other reason.
OneLastCode ==
    [][~failed /\ ~unsynced /\ c2m \in FinalCodes => c2m' = c2m]_vars

\* The injector frees the module when neither thread is in its code any more.  The
\* exceptions: the second that CEngine__Unload sleeps after its code, a failed start
\* that meets it, and a thread that is overtaken on its last steps out: of run(), or of
\* _Host_Frame after the engine has said that it is awake.  (A thread that has only to
\* return after its code was posted counts as gone.)
BothLeft ==
    /\ epc \notin InModule \/ epc \in {"tail", "u_tail"} \/ (failed /\ epc \in Unloading)
    /\ tpc = "end" \/ dontWrite
FreedWhenLeft == [][mem' # mem => unsynced \/ BothLeft]_vars

\* The game is not left frozen: an engine that was put to sleep is let go.
AsleepEnds == (epc = "loop" /\ isSleeping) ~> ~(epc = "loop" /\ isSleeping)

\* Whoever asks for the end gets it, also when the engine waits for the module
\* and the module for the engine; unless the game ends before.
ShutdownEnds == exitReq ~> shuttedDown \/ ~Running

\* The injector is told: when the module's thread is done, a final code is
\* posted or "some other thread will write this code nonetheless".
EndIsReported == (tpc = "end") ~> (c2m \in FinalCodes \/ ~Running)

\* Whatever the two threads are doing when the end is asked for: the module takes its
\* detours, its interface and its libraries away only while the engine stands still or
\* cannot come in, and whatever the engine is in then, it only leaves.
Phase ==
    IF stage = "install" \/ tpc \in {"put", "ack"} THEN "working"
    ELSE IF tpc \in {"patch", "patch3", "unhost", "reread", "resume"} THEN "dismantling"
    ELSE "over"
NoDetour == ~hostHooked /\ ~unloadHooked /\ installed = {}
EnginePlace ==
    IF Hanging THEN "stands"
    ELSE IF (epc \in {"loop", "exit"} /\ isSleeping) \/ epc \in Unloading \cup {"tail"}
         THEN "leaving"
    ELSE IF epc \in InModule \/ (epc = "out" /\ ~NoDetour) THEN "free"
    ELSE "away"
Still == INSTANCE Standstill WITH phase <- Phase, engine <- EnginePlace, broken <- unsynced
ImplementsStandstill == Still!Spec

\* What oxware.h says of m_dont_write_unloading_code: the detour tells the
\* injector that the module is gone, "instead of it being told after the shutdown".
OnlyTheDetourTells ==
    [][dontWrite /\ c2m' # c2m /\ c2m' \in FinalCodes => unsynced \/ epc = "u_post"]_vars

\* What the comment in the _Host_Frame detour promises of an initialized module:
\* "after cheat unload, we don't access unloaded memory"; an engine that is overtaken
\* on its last steps out of that detour is not held against it.
NothingAfterFree ==
    [][epc # "lost" /\ epc' = "lost" => unsynced \/ failed \/ epc = "tail"]_vars
=============================================================================
