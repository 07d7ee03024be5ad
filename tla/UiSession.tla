------------------------------ MODULE UiSession -------------------------------
(***************************************************************************)
(* The module's user interface in the game's window, from the first frame  *)
(* to the end of the module: the libraries it lives in (CDependencyLoader),*)
(* COxWareUI, and the window procedure that CWindowMsgHandler puts before  *)
(* the game's.  The module's thread loads the libraries, and takes the     *)
(* interface away while the engine's thread sleeps; the engine's thread    *)
(* draws and dispatches the window's messages, between two frames and, in  *)
(* the builds with SDL, in its sleep as well.                              *)
(* The handshake that puts it to sleep is the subject of EngineSync; here  *)
(* it is one step, and only CEngine__Unload keeps the engine from it.      *)
(***************************************************************************)
EXTENDS Naturals

CONSTANTS
    ToggleKeys,     \* messages that open or close the menu (insert, console)
    OtherMessages   \* all others

ASSUME MessagesAssumption == ToggleKeys \cap OtherMessages = {}

VARIABLES
    mpc,        \* where the module's thread is
    libs,       \* util and gui: "absent", "mapped" only, "listed" too, "freed"
    pointers,   \* the interface pointers of that library are set
    hooked,     \* the detours of _Host_Frame and wglSwapBuffers are installed
    exiting,    \* is_cheat_exiting
    shouldSleep,
    epc,        \* the engine's thread: "frame", "asleep", "quit", "closed"
    inited,     \* m_initialized
    inits,      \* ghost: how often COxWareUI::initialize ran
    gl,         \* m_cheat_context and m_original_context are there
    contexts,   \* m_rendering_contexts: not empty
    layer,      \* m_platform_layer
    menu,       \* an interactible context is to be rendered
    active,     \* m_is_any_interactible_rendering_context_active
    input,      \* the game gets its input
    wndproc,    \* the window's procedure: "game" or "hook"
    saved,      \* m_wnd_proc: "null" or "game"
    msg,        \* the message inside wndproc_hook
    at,         \* how far it is: "out", "callbacks", "return", "call"
    pumps,      \* the build has SDL: asleep, the engine pumps events
    fault       \* ghost: what the process died of

module == <<mpc, libs, pointers, exiting, shouldSleep>>
ui == <<inited, inits, gl, contexts, layer, menu, active, input>>
window == <<wndproc, saved>>
message == <<msg, at>>
vars == <<module, hooked, epc, ui, window, message, pumps, fault>>

Libs == {"util", "gui"}
Messages == ToggleKeys \cup OtherMessages
Teardown == {"input", "contexts", "unhook", "clear", "layer"}
ModulePlaces == {"begin", "util", "deps", "phase2", "run", "hang", "ack", "hooks", "free",
                 "resume", "awake", "gone"} \cup Teardown

TypeOK ==
    /\ mpc \in ModulePlaces
    /\ libs \in [Libs -> {"absent", "mapped", "listed", "freed"}]
    /\ pointers \in [Libs -> BOOLEAN]
    /\ {hooked, exiting, shouldSleep, inited, gl, contexts, layer, menu, active, input, pumps}
          \subseteq BOOLEAN
    /\ epc \in {"frame", "asleep", "quit", "closed"}
    /\ inits \in Nat
    /\ wndproc \in {"game", "hook"} /\ saved \in {"null", "game"}
    /\ msg \in Messages \cup {"none"}
    /\ at \in {"out", "callbacks", "return", "call"}
    /\ fault \in {"none", "context", "null", "freed"}

Init ==
    /\ mpc = "begin" /\ libs = [l \in Libs |-> "absent"] /\ pointers = [l \in Libs |-> FALSE]
    /\ hooked = FALSE /\ exiting = FALSE /\ shouldSleep = FALSE
    /\ epc = "frame" /\ pumps \in BOOLEAN
    /\ inited = FALSE /\ inits = 0 /\ gl = FALSE /\ contexts = FALSE /\ layer = FALSE
    /\ menu = FALSE /\ active = FALSE /\ input = TRUE
    /\ wndproc = "game" /\ saved = "null"
    /\ msg = "none" /\ at = "out" /\ fault = "none"

Mapped(l) == libs[l] \in {"mapped", "listed"}
Quitting == epc \in {"quit", "closed"}
Go(from, to) == mpc = from /\ mpc' = to
\* A step of the module's thread that is about its own state only.
ModuleOnly == UNCHANGED <<hooked, epc, ui, window, message, pumps, fault>>
\* A step of COxWareUI::destroy.
UiOnly == UNCHANGED <<libs, pointers, exiting, shouldSleep, hooked, epc, message, pumps, fault>>

-----------------------------------------------------------------------------
(* The module's thread: start. *)

\* load_and_initialize_module.  It fails before the library is mapped, or after: no
\* ExposeModule, initialize() false, an interface missing.  Then it stays mapped, but
\* not in the list; if it came to the callback the pointers are set all the same.
Load(l, next) ==
    \/ /\ mpc' = next
       /\ libs' = [libs EXCEPT ![l] = "listed"]
       /\ pointers' = [pointers EXCEPT ![l] = TRUE]
    \/ /\ mpc' = "hang"
       /\ \/ libs' = [libs EXCEPT ![l] = "mapped"]
             /\ \E set \in BOOLEAN : pointers' = [pointers EXCEPT ![l] = set]
          \/ UNCHANGED <<libs, pointers>>

LoadUtil ==
    /\ mpc = "begin" /\ Load("util", "util")
    /\ UNCHANGED <<exiting, shouldSleep>> /\ ModuleOnly

LoadGui ==
    /\ mpc = "util" /\ Load("gui", "deps")
    /\ UNCHANGED <<exiting, shouldSleep>> /\ ModuleOnly

\* What initialize() checks before any hook is installed, directories included.
CheckFails ==
    /\ Go("deps", "hang")
    /\ UNCHANGED <<libs, pointers, exiting, shouldSleep>> /\ ModuleOnly

InstallHooks ==
    /\ Go("deps", "phase2")
    /\ hooked' = TRUE
    /\ UNCHANGED <<libs, pointers, exiting, shouldSleep, epc, ui, window, message, pumps, fault>>

\* A later hook manager fails; the detours are in, and nobody says it is exiting.
Phase2 ==
    /\ Go("phase2", "run") \/ Go("phase2", "hang")
    /\ UNCHANGED <<libs, pointers, exiting, shouldSleep>> /\ ModuleOnly

\* Somebody asked for it, the injector is gone, or a library's update wants it.
LeaveLoop ==
    /\ Go("run", "hang")
    /\ exiting' = TRUE
    /\ UNCHANGED <<libs, pointers, shouldSleep>> /\ ModuleOnly

-----------------------------------------------------------------------------
(* The module's thread: shutdown. *)

HangEngine ==
    /\ mpc = "hang"
    /\ IF hooked /\ ~Quitting THEN shouldSleep' = TRUE /\ mpc' = "ack"
                              ELSE mpc' = "input" /\ UNCHANGED shouldSleep
    /\ UNCHANGED <<libs, pointers, exiting>> /\ ModuleOnly

\* The engine sleeps; in CEngine__Unload it never will, and the wait runs out.
EngineAcked_Impatient ==        \* mutant: the answer is not waited for
    /\ Go("ack", "input")
    /\ UNCHANGED <<libs, pointers, exiting, shouldSleep>> /\ ModuleOnly
EngineAcked ==
    /\ Go("ack", "input")
    /\ epc = "asleep" \/ Quitting
    /\ UNCHANGED <<libs, pointers, exiting, shouldSleep>> /\ ModuleOnly

\* COxWareUI::destroy takes missing contexts for an interface that is not there.
NothingToDestroy ==
    /\ Go("input", "hooks") /\ ~gl
    /\ UNCHANGED <<ui, window>> /\ UiOnly

\* (is_game_exiting_or_restarting never holds: CEngine__Unload does not set it.)
GiveInputBack_Not ==            \* mutant: the game's input stays as it is
    /\ Go("input", "contexts") /\ gl
    /\ UNCHANGED <<ui, window>> /\ UiOnly
GiveInputBack ==
    /\ Go("input", "contexts") /\ gl
    /\ input' = TRUE
    /\ UNCHANGED <<inited, inits, gl, contexts, layer, menu, active, window>> /\ UiOnly

DestroyContexts ==
    /\ Go("contexts", "unhook")
    /\ contexts' = FALSE
    /\ UNCHANGED <<inited, inits, gl, layer, menu, active, input, window>> /\ UiOnly

\* CWindowMsgHandler::destroy: the old procedure is put back, then forgotten.
UnhookWindow ==
    /\ Go("unhook", "clear")
    /\ wndproc' = IF saved = "null" THEN wndproc ELSE saved
    /\ UNCHANGED <<ui, saved>> /\ UiOnly

ForgetProcedure ==
    /\ Go("clear", "layer")
    /\ saved' = "null"
    /\ UNCHANGED <<ui, wndproc>> /\ UiOnly

DestroyLayer ==
    /\ Go("layer", "hooks")
    /\ layer' = FALSE /\ inited' = FALSE
    /\ UNCHANGED <<inits, gl, contexts, menu, active, input, window>> /\ UiOnly

RemoveHooks_Left ==             \* mutant: the detours stay
    /\ Go("hooks", "free")
    /\ UNCHANGED <<libs, pointers, exiting, shouldSleep>> /\ ModuleOnly
RemoveHooks ==
    /\ Go("hooks", "free")
    /\ hooked' = FALSE
    /\ UNCHANGED <<libs, pointers, exiting, shouldSleep, epc, ui, window, message, pumps, fault>>

\* unload_all: what is in the list, in the order it was loaded.
FreeLibrary(l) ==
    /\ mpc = "free" /\ libs[l] = "listed" /\ (l = "gui" => libs["util"] # "listed")
    /\ libs' = [libs EXCEPT ![l] = "freed"]
    /\ UNCHANGED <<mpc, pointers, exiting, shouldSleep>> /\ ModuleOnly

ClearPointers ==
    /\ Go("free", "resume") /\ \A l \in Libs : libs[l] # "listed"
    /\ pointers' = [l \in Libs |-> FALSE]
    /\ UNCHANGED <<libs, exiting, shouldSleep>> /\ ModuleOnly

ResumeEngine_Forgotten ==       \* mutant: the engine is not told
    /\ Go("resume", "awake")
    /\ UNCHANGED <<libs, pointers, exiting, shouldSleep>> /\ ModuleOnly
ResumeEngine ==
    /\ Go("resume", "awake")
    /\ shouldSleep' = IF Quitting THEN shouldSleep ELSE FALSE
    /\ UNCHANGED <<libs, pointers, exiting>> /\ ModuleOnly

EngineResumed ==
    /\ Go("awake", "gone") /\ epc # "asleep"
    /\ UNCHANGED <<libs, pointers, exiting, shouldSleep>> /\ ModuleOnly

-----------------------------------------------------------------------------
(* The engine's thread. *)

Between == epc = "frame" /\ at = "out"      \* it is in no message

\* swapbuffers_detour, the first time: the window is hooked (which may fail, and
\* nobody looks), the layer is made, and the contexts of the graphics library may fail.
InitUI_Again ==                 \* mutant: every frame is taken for the first
    /\ Between /\ hooked /\ ~exiting
    /\ inited' = TRUE /\ inits' = inits + 1
    /\ contexts' = TRUE /\ layer' = TRUE /\ gl' \in BOOLEAN
    /\ wndproc' = "hook" /\ saved' = wndproc
    /\ UNCHANGED <<module, hooked, epc, menu, active, input, message, pumps, fault>>
InitUI ==
    /\ Between /\ hooked /\ ~exiting /\ ~inited
    /\ inited' = TRUE /\ inits' = inits + 1
    /\ contexts' = TRUE /\ layer' = TRUE /\ gl' \in BOOLEAN
    /\ \/ wndproc' = "hook" /\ saved' = wndproc
       \/ saved' = "null" /\ UNCHANGED wndproc
    /\ UNCHANGED <<module, hooked, epc, menu, active, input, message, pumps, fault>>

\* run_ui and post_render: the game's input goes off and on with the menu.
RunUI ==
    /\ Between /\ hooked /\ ~exiting /\ inited
    /\ active' = menu
    /\ input' = IF active # menu THEN ~menu ELSE input
    /\ UNCHANGED <<module, hooked, epc, inited, inits, gl, contexts, layer, menu, window,
                   message, pumps, fault>>

\* The menu's button, or a command.
RequestExit ==
    /\ Between /\ hooked /\ inited
    /\ exiting' = TRUE
    /\ UNCHANGED <<mpc, libs, pointers, shouldSleep, hooked, epc, ui, window, message,
                   pumps, fault>>

Sleep ==
    /\ Between /\ hooked /\ shouldSleep
    /\ epc' = "asleep"
    /\ UNCHANGED <<module, hooked, ui, window, message, pumps, fault>>

Wake ==
    /\ epc = "asleep" /\ at = "out" /\ ~shouldSleep
    /\ epc' = "frame"
    /\ UNCHANGED <<module, hooked, ui, window, message, pumps, fault>>

\* CEngine__Unload; it hangs until the module is shut down, then the game closes.
Quit ==
    /\ Between /\ hooked
    /\ epc' = "quit" /\ exiting' = TRUE
    /\ UNCHANGED <<mpc, libs, pointers, shouldSleep, hooked, ui, window, message, pumps, fault>>

Close ==
    /\ epc = "quit" /\ mpc = "gone"
    /\ epc' = "closed"
    /\ UNCHANGED <<module, hooked, ui, window, message, pumps, fault>>

-----------------------------------------------------------------------------
(* Messages of the window: wndproc_hook, in util, with callbacks in the module. *)

EngineOnly == UNCHANGED <<module, hooked, epc, inited, inits, gl, contexts, layer, active, input,
                          window, pumps>>
Inside(place) == at = place /\ Mapped("util") /\ mpc # "gone"
Leave == at' = "out" /\ msg' = "none"

\* Without the hook the game's procedure has it at once, which is no step of ours.
Dispatch(m) ==
    /\ at = "out" /\ wndproc = "hook"
    /\ epc = "frame" \/ (epc = "asleep" /\ pumps)
    /\ msg' = m /\ at' = "callbacks"
    /\ UNCHANGED <<menu, fault>> /\ EngineOnly

\* run_callbacks, and what the user input calls for the key.
RunCallbacks ==
    /\ Inside("callbacks")
    /\ IF msg \in ToggleKeys THEN
          IF contexts THEN menu' = ~menu /\ at' = "return" /\ UNCHANGED <<msg, fault>>
                      ELSE fault' = "context" /\ Leave /\ UNCHANGED menu
       ELSE at' = "return" /\ UNCHANGED <<menu, msg, fault>>
    /\ EngineOnly

\* The return callback: the interface takes what it is active for.
RunReturnCallback ==
    /\ Inside("return")
    /\ \/ active /\ layer /\ Leave
       \/ at' = "call" /\ UNCHANGED msg
    /\ UNCHANGED <<menu, fault>> /\ EngineOnly

CallGame ==
    /\ Inside("call")
    /\ fault' = IF saved = "null" THEN "null" ELSE fault
    /\ Leave /\ UNCHANGED menu /\ EngineOnly

\* The code it is in, or is dispatched to, is not there any more.
RunFreed ==
    /\ at # "out" /\ ~Inside(at)
    /\ fault' = "freed"
    /\ Leave /\ UNCHANGED menu /\ EngineOnly

-----------------------------------------------------------------------------
ModuleNext ==
    \/ LoadUtil \/ LoadGui \/ CheckFails \/ InstallHooks \/ Phase2 \/ LeaveLoop
    \/ HangEngine \/ EngineAcked
    \/ NothingToDestroy \/ GiveInputBack \/ DestroyContexts \/ UnhookWindow
    \/ ForgetProcedure \/ DestroyLayer
    \/ RemoveHooks \/ (\E l \in Libs : FreeLibrary(l)) \/ ClearPointers
    \/ ResumeEngine \/ EngineResumed

InMessage == RunCallbacks \/ RunReturnCallback \/ CallGame \/ RunFreed

EngineNext ==
    \/ InitUI \/ RunUI \/ RequestExit \/ Sleep \/ Wake \/ Quit \/ Close
    \/ (\E m \in Messages : Dispatch(m)) \/ InMessage

Next == fault = "none" /\ (ModuleNext \/ EngineNext)

\* The module's thread goes on once it shuts down, the engine ends the message it is
\* in, and comes to its next frame however many messages there are.
Ending == mpc \notin {"begin", "util", "deps", "phase2", "run"} /\ ModuleNext
Fairness ==
    /\ WF_vars(fault = "none" /\ Ending)
    /\ WF_vars(fault = "none" /\ InMessage)
    /\ SF_vars(fault = "none" /\ Sleep) /\ SF_vars(fault = "none" /\ Wake)

Spec == Init /\ [][Next]_vars /\ Fairness

-----------------------------------------------------------------------------
(* Properties. *)

\* What is set is there: an interface pointer until the libraries are freed, both
\* libraries as long as the engine's frames come into the module, or it can still
\* be in one of them; a start that failed half way has no detour that needs more.
NeededIsMapped ==
    /\ \A l \in Libs : pointers[l] /\ mpc # "free" => Mapped(l)
    /\ hooked \/ mpc \in Teardown \ {"input"} => \A l \in Libs : Mapped(l)
    /\ (\E l \in Libs : libs[l] = "freed") /\ inits > 0 =>
          epc # "frame" \/ mpc \in {"awake", "gone"}

\* create_new_layer asserts that it runs once: no frame of a session that is being
\* taken down, or whose start has failed, makes the interface anew.
OneLayer == inits <= 1 /\ (layer => inited)

\* When the module is gone the window has its own procedure and the game its input,
\* whatever was open or in flight; an interface that had been made is gone.
GivenBack ==
    mpc = "gone" /\ (gl \/ inits = 0) =>
        wndproc = "game" /\ input /\ ~layer /\ ~contexts /\ ~hooked /\ epc # "asleep"

\* No message finds the interface half destroyed, the procedure forgotten or a
\* library freed, unless the engine pumps in its sleep, or the interface was made
\* without its contexts and destroy() left its window procedure behind.
QuietTeardown == fault # "none" => pumps \/ (inits > 0 /\ ~gl)

\* Every shutdown comes to its end: the two threads do not wait for each other.
ExitEnds == mpc = "hang" ~> (mpc = "gone" \/ fault # "none")

\* The interface, the hooks and the libraries are taken away under an engine that stands
\* still or cannot come in through a detour: of the handshake no more is assumed than
\* EngineSync keeps.  (Window messages come another way, see QuietTeardown.)
Phase ==
    IF mpc \in Teardown \cup {"hooks", "free", "resume"} THEN "dismantling"
    ELSE IF mpc \in {"awake", "gone"} THEN "over" ELSE "working"
EnginePlace ==
    CASE epc = "asleep" -> IF shouldSleep THEN "stands" ELSE "leaving"
      [] epc = "quit"   -> IF mpc # "gone" THEN "stands" ELSE "leaving"
      [] epc = "frame"  -> IF hooked THEN "free" ELSE "away"
      [] OTHER          -> "away"
Still == INSTANCE Standstill WITH phase <- Phase, engine <- EnginePlace, broken <- FALSE
ImplementsStandstill == Still!Spec

=============================================================================
