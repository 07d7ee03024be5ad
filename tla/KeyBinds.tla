------------------------------- MODULE KeyBinds -------------------------------
(***************************************************************************)
(* Keys, binds and one in-command inside the target process: UserKey_t and *)
(* CUserInput (key state and callbacks), CBindManager (a bind per key),    *)
(* BaseInCommand (active while its key is held) and the two panels that    *)
(* share the key binding mode, CUIKeyBinding and CUIInCommandKeyBinding.   *)
(* All of it runs on the engine's thread, one message, command or frame at *)
(* a time: each is an action.  Messages may repeat, and may be lost to     *)
(* another window, so an "up" without a "down" and the reverse can come.   *)
(*                                                                         *)
(* A key's callbacks are two maps from an id to a function, and adding an  *)
(* id that is already there changes nothing (unordered_map::insert); what  *)
(* a bound command does is left open.                                      *)
(***************************************************************************)
EXTENDS FiniteSets

CONSTANTS
    Keys,           \* virtual keys
    Wheel,          \* the mouse wheel, which is never "up"
    Unbindable,     \* is_key_bindable is false: escape, insert, the console's key
    Cancels,        \* what ends the binding mode without a pick: escape, left button
    Uis,            \* "cheat" and "game": what may be on top of the game
    NoKey           \* NULL as a virtual key

ASSUME KeysAssumption ==
    /\ {Wheel, Unbindable, Cancels} \subseteq SUBSET Keys
    /\ "cheat" \in Uis
    /\ NoKey \notin Keys

VARIABLES
    lock,           \* keys with m_press_lock: what the program takes for "held"
    bind,           \* m_registerd_binds: the type of a key's bind
    over,           \* flags of the bind: the UIs it executes over
    met,            \* internal_state of the bind: the UIs its key went down on
    onPress,        \* which function a key's pressed callback "vk_<key>" is
    onRelease,      \* keys with an unpressed callback "vk_<key>"
    inVk,           \* m_vk of the in-command
    inCb,           \* keys with its pressed callback "in_<name>"
    outCb,          \* keys with its unpressed callback "out_<name>"
    active,         \* m_is_active
    up,             \* the UIs that are running
    mode,           \* m_key_binding_mode
    picked,         \* m_any_key_pressed
    asked,          \* the button that waits for a key (m_current_key_bound,
                    \* m_in_cmd_to_be_rebound)
    askKey,         \* prev_vk of the button's info
    callback,       \* m_on_key_bound_callback
    hold            \* ghost: for a key that went down on the bind it still has,
                    \* whether the first command ran then

bindv == <<bind, over, met, onPress, onRelease, hold>>
inv   == <<inVk, inCb, outCb, active>>
askv  == <<mode, picked, asked, askKey, callback>>
vars == <<lock, bindv, inv, askv, up>>

Types == {"push", "pair"}       \* BIND_OnPush, BIND_OnPushAndRelease

IsBound(k) == bind[k] # "none"
Bound == {k \in Keys : IsBound(k)}

\* The shape of the state; a key is picked for a panel that waits, and only
\* after the binding mode ended.
TypeOK ==
    /\ {lock, onRelease, inCb, outCb} \subseteq SUBSET Keys
    /\ {bind, onPress} \subseteq [Keys -> Types \cup {"none"}]
    /\ {over, met} \subseteq [Keys -> SUBSET Uis]
    /\ {inVk, picked, askKey} \subseteq Keys \cup {NoKey}
    /\ up \subseteq Uis
    /\ {active, mode} \subseteq BOOLEAN
    /\ asked \in Types \cup {"none", "move", "in"}
    /\ callback \in Types \cup {"none", "move"}
    /\ hold \in [Keys -> {"ran", "quiet", "other"}]
    /\ asked = "none" => ~mode /\ picked = NoKey
    /\ mode => picked = NoKey

Init ==
    /\ lock = {} /\ hold = [k \in Keys |-> "other"]
    /\ bind = [k \in Keys |-> "none"] /\ over = [k \in Keys |-> {}] /\ met = over
    /\ onPress = bind /\ onRelease = {}
    /\ inVk \in Keys \cup {NoKey}
    /\ inCb = {inVk} \cap Keys /\ outCb = inCb /\ active = FALSE
    /\ up = {}
    /\ mode = FALSE /\ picked = NoKey /\ asked = "none" /\ askKey = NoKey /\ callback = "none"

-----------------------------------------------------------------------------
(* Key messages. *)

\* In the binding mode a key that goes down is only remembered.
Pick(k) ==
    /\ mode
    /\ picked' = k /\ mode' = FALSE
    /\ UNCHANGED <<lock, bindv, inv, asked, askKey, callback, up>>

\* Held keys repeat their message; nothing runs.
Repeat(k) ==
    /\ ~mode /\ k \in lock
    /\ UNCHANGED <<lock, bindv, inv, askv, up>>

\* What the pressed callback remembers of the UIs: only that of a pair does.
Met_IfExecuted(k) ==        \* mutant: the UIs are remembered for what executed
    IF onPress[k] = "pair" /\ IsBound(k) /\ up \subseteq over[k]
    THEN [met EXCEPT ![k] = @ \cup up]
    ELSE met

Met(k) ==
    IF onPress[k] = "pair" /\ IsBound(k) THEN [met EXCEPT ![k] = @ \cup up] ELSE met

\* should_execute_bind, asked by whichever pressed callback is there.
RunsFirst(k) == onPress[k] # "none" /\ IsBound(k) /\ up \subseteq over[k]

Press(k) ==
    /\ ~mode /\ k \notin lock
    /\ lock' = lock \cup {k}
    /\ met' = Met(k)
    /\ hold' = [hold EXCEPT ![k] = IF ~IsBound(k) THEN "other"
                                   ELSE IF RunsFirst(k) THEN "ran" ELSE "quiet"]
    /\ active' = (active \/ (k \in inCb /\ up = {}))
    /\ UNCHANGED <<bind, over, onPress, onRelease, inVk, inCb, outCb, askv, up>>

RunsSecond(k) == k \in onRelease /\ IsBound(k) /\ met[k] \subseteq over[k]

\* The in-command's callback runs whatever UI is up.
StaysActive_OverUi(k) == active /\ (k \notin outCb \/ up # {})      \* mutant: as when pressed

StaysActive(k) == active /\ k \notin outCb

Release(k) ==
    /\ k \in lock
    /\ lock' = lock \ {k}
    /\ hold' = [hold EXCEPT ![k] = "other"]
    /\ active' = StaysActive(k)
    /\ UNCHANGED <<bind, over, met, onPress, onRelease, inVk, inCb, outCb, askv, up>>

KeyMessage(k) ==
    \/ Pick(k)
    \/ Repeat(k)
    \/ Press(k)
    \/ k \notin Wheel /\ Release(k)

-----------------------------------------------------------------------------
(* Binding and unbinding, by a command, the configuration or a panel.  A   *)
(* panel and the console take no input in the binding mode.                *)

\* register_bind_internal for each key of new (a bind that is there is replaced,
\* a callback that is there is not), then remove_bind for each of old, which takes
\* away the callbacks of the type the bind has now.
Rebind_OnlyNew(new, type, uis, old) ==     \* mutant: no callbacks when a bind was there
    /\ bind' = [k \in Keys |-> IF k \in new THEN type ELSE IF k \in old THEN "none" ELSE bind[k]]
    /\ over' = [k \in Keys |-> IF k \in new THEN uis ELSE IF k \in old THEN {} ELSE over[k]]
    /\ met' = [k \in Keys |-> IF k \in new \cup old THEN {} ELSE met[k]]
    /\ onPress' = [k \in Keys |->
                    IF k \in new \ Bound THEN type ELSE IF k \in old THEN "none" ELSE onPress[k]]
    /\ onRelease' = (onRelease \cup (IF type = "pair" THEN new \ Bound ELSE {}))
                        \ {k \in old : bind[k] = "pair"}
    /\ hold' = [k \in Keys |-> IF k \in new \cup old THEN "other" ELSE hold[k]]

Rebind(new, type, uis, old) ==
    /\ bind' = [k \in Keys |-> IF k \in new THEN type ELSE IF k \in old THEN "none" ELSE bind[k]]
    /\ over' = [k \in Keys |-> IF k \in new THEN uis ELSE IF k \in old THEN {} ELSE over[k]]
    /\ met' = [k \in Keys |-> IF k \in new \cup old THEN {} ELSE met[k]]
    /\ onPress' = [k \in Keys |->
                    IF k \in new /\ onPress[k] = "none" THEN type
                    ELSE IF k \in old THEN "none" ELSE onPress[k]]
    /\ onRelease' = (onRelease \cup (IF type = "pair" THEN new ELSE {}))
                        \ {k \in old : bind[k] = "pair"}
    /\ hold' = [k \in Keys |-> IF k \in new \cup old THEN "other" ELSE hold[k]]

AddBind(k, type, uis) ==
    /\ ~mode
    /\ k \notin Unbindable
    /\ Rebind({k}, type, uis, {})
    /\ UNCHANGED <<lock, inv, askv, up>>

\* remove_bind of one key, or remove_all_binds.
Unbind(ks) ==
    /\ ~mode
    /\ ks \subseteq Bound /\ ks # {}
    /\ Rebind({}, "push", {}, ks)
    /\ UNCHANGED <<lock, inv, askv, up>>

\* The check boxes of a bind's popup.
SetFlag(k, ui) ==
    /\ ~mode /\ "cheat" \in up
    /\ IsBound(k)
    /\ over' = [over EXCEPT ![k] = IF ui \in @ THEN @ \ {ui} ELSE @ \cup {ui}]
    /\ hold' = [hold EXCEPT ![k] = "other"]
    /\ UNCHANGED <<lock, bind, met, onPress, onRelease, inv, askv, up>>

\* rebind_key_to: nothing for the key it has already, or for none.
RebindIn_KeepsOld(v) ==     \* mutant: the callbacks stay on the old key
    /\ IF v \in {inVk, NoKey}
       THEN UNCHANGED <<inVk, inCb, outCb>>
       ELSE inVk' = v /\ inCb' = inCb \cup {v} /\ outCb' = outCb \cup {v}
    /\ UNCHANGED active

RebindIn(v) ==
    /\ IF v \in {inVk, NoKey}
       THEN UNCHANGED <<inVk, inCb, outCb>>
       ELSE /\ inVk' = v
            /\ inCb' = (inCb \ {inVk}) \cup {v}
            /\ outCb' = (outCb \ {inVk}) \cup {v}
    /\ UNCHANGED active

\* load_configuration: the file's binds are added to those there are, and the
\* in-command takes the file's key (NoKey: "unbound").  Files that bind every key,
\* to one type, stand for the rest: AddBind and this one compose them.
LoadConfig(type, v) ==
    /\ ~mode
    /\ Rebind(Keys \ Unbindable, type, {}, {})
    /\ RebindIn(v)
    /\ UNCHANGED <<lock, askv, up>>

-----------------------------------------------------------------------------
(* The panels.  Their buttons can be clicked while the menu is up and no   *)
(* button waits for a key: input is blocked in the binding mode, and the   *)
(* first frame after it ends the wait before it looks at clicks.           *)

CanClick == ~mode /\ asked = "none" /\ "cheat" \in up

Activate(what, key) ==
    /\ mode' = TRUE /\ picked' = NoKey
    /\ asked' = what /\ askKey' = key
    /\ UNCHANGED <<lock, bindv, inv, up>>

\* switch_to_key_binding_mode keeps a callback that is there.
KeepOrSet(what) == callback' = IF callback = "none" THEN what ELSE callback

\* "On Push", "On Push and Release": a new bind.
ClickNew(type) == CanClick /\ KeepOrSet(type) /\ Activate(type, NoKey)

\* The button that shows a bind's key: the bind is to move to another one.
ClickMove(k) == CanClick /\ IsBound(k) /\ KeepOrSet("move") /\ Activate("move", k)

\* The in-command's button.
ClickIn == CanClick /\ Activate("in", NoKey) /\ UNCHANGED callback

\* What the callback does with the key that was picked.
CreateBind == Rebind({picked} \ Unbindable, callback, {}, {})
MoveBind ==
    Rebind({picked} \ Unbindable, bind[askKey], over[askKey], {askKey})

OnKeyBound ==
    CASE callback \in Types /\ ~IsBound(picked) -> CreateBind
      [] callback = "move" /\ askKey \in Bound /\ ~IsBound(picked) -> MoveBind
      [] OTHER -> UNCHANGED bindv

\* reset_bound_key, and no button waits any more.
ResetAsk_Picked == asked' = "none" /\ askKey' = NoKey /\ UNCHANGED picked   \* mutant: no reset

ResetAsk == picked' = NoKey /\ asked' = "none" /\ askKey' = NoKey

Frame == "cheat" \in up /\ picked # NoKey /\ asked # "none"

\* end_key_binding_mode of CUIKeyBinding.
EndBinding ==
    /\ Frame /\ asked # "in"
    /\ IF picked \in Cancels
       THEN UNCHANGED <<bindv, callback>>
       ELSE OnKeyBound /\ callback' = "none"
    /\ ResetAsk
    /\ UNCHANGED <<lock, inv, mode, up>>

\* end_key_binding_mode of CUIInCommandKeyBinding.
EndInBinding ==
    /\ Frame /\ asked = "in"
    /\ RebindIn(IF picked \in Cancels THEN NoKey ELSE picked)
    /\ ResetAsk
    /\ UNCHANGED <<lock, bindv, mode, callback, up>>

\* is_any_ui_rendering and is_gameui_rendering, as the frames set them.  Keys
\* that show or hide the menu are picked, not handled, in the binding mode.
ToggleUi(ui) ==
    /\ ui = "cheat" => ~mode
    /\ up' = IF ui \in up THEN up \ {ui} ELSE up \cup {ui}
    /\ UNCHANGED <<lock, bindv, inv, askv>>

Next ==
    \/ \E k \in Keys :
        \/ KeyMessage(k)
        \/ Unbind({k})
        \/ ClickMove(k)
        \/ \E type \in Types, uis \in SUBSET Uis : AddBind(k, type, uis)
        \/ \E ui \in Uis : SetFlag(k, ui)
    \/ Unbind(Bound)
    \/ \E type \in Types, v \in Keys \cup {NoKey} : LoadConfig(type, v)
    \/ \E type \in Types : ClickNew(type)
    \/ ClickIn
    \/ EndBinding
    \/ EndInBinding
    \/ \E ui \in Uis : ToggleUi(ui)

Spec == Init /\ [][Next]_vars

-----------------------------------------------------------------------------
(* Properties. *)

\* However a bind came to its key (command, file, panel, another type over it,
\* moved from another key), the callbacks it needs are there, and a key whose bind
\* is gone runs nothing when it goes down.
BindsAreWired ==
    \A k \in Keys :
        /\ IsBound(k) <=> onPress[k] # "none"
        /\ bind[k] = "pair" => k \in onRelease
        /\ IsBound(k) => k \notin Unbindable

\* The in-command listens to the key it says it is bound to, to both messages of
\* it, and to no key it was bound to before.
InCommandWired == inCb = {inVk} \cap Keys /\ outCb = inCb

\* The in-command starts only by its key, with no UI up; whenever its key goes up
\* it stops, also when a UI came up meanwhile or the binding mode is on.
InCommandFollowsItsKey ==
    [][/\ active' /\ ~active => inVk \in lock' \ lock /\ up = {}
       /\ inVk \in lock \ lock' => ~active']_vars

\* A pair pressed on top of a UI it does not execute over does nothing when the
\* key comes up, even if every UI is gone by then.
NoLoneRelease ==
    \A k \in lock : hold[k] = "quiet" /\ onPress[k] = "pair" => ~RunsSecond(k)

\* The comment in the release callback: "always execute release callbacks, even
\* we're on top of UI", for a pair that "we pressed [...] before the UI was up".
ReleaseFollowsPress ==
    \A k \in lock : hold[k] = "ran" /\ bind[k] = "pair" => RunsSecond(k)

\* A panel that was asked for a new bind makes one of the type on the button; one
\* that was asked to "rebind same command to different key" does not lose it.
AskedIsDone ==
    [][EndBinding /\ picked \notin Cancels /\ ~IsBound(picked) =>
        IF asked = "move"
        THEN bind[askKey] \in {"none", bind'[picked], bind'[askKey]}
        ELSE picked \in Unbindable \/ bind'[picked] = asked]_vars

=============================================================================
