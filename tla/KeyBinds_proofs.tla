---------------------------- MODULE KeyBinds_proofs ----------------------------
(***************************************************************************)
(* Proofs about KeyBinds, for every set of keys and of UIs.  The invariant *)
(* IInv is the type, the wiring of binds and of the in-command, and Quiet: *)
(* a pair that was pressed without running remembers a UI that was up and  *)
(* that it does not execute over, for as long as its bind is not changed.  *)
(***************************************************************************)
EXTENDS KeyBinds, TLAPS

Quiet ==
    \A k \in Keys : hold[k] = "quiet" /\ onPress[k] = "pair" => ~(met[k] \subseteq over[k])

\* The parts of TypeOK that are about binds and callbacks.
BindTypes ==
    /\ {bind, onPress} \subseteq [Keys -> Types \cup {"none"}]
    /\ {over, met} \subseteq [Keys -> SUBSET Uis]
    /\ onRelease \subseteq Keys
    /\ hold \in [Keys -> {"ran", "quiet", "other"}]

IInv == TypeOK /\ BindsAreWired /\ InCommandWired /\ Quiet

-----------------------------------------------------------------------------
(* What the operators that change several variables do. *)

\* The pressed callback of a pair remembers every UI that is up.
LEMMA MetEffect ==
    ASSUME TypeOK, NEW k \in Keys
    PROVE  /\ Met(k) \in [Keys -> SUBSET Uis]
           /\ \A j \in Keys : j # k => Met(k)[j] = met[j]
           /\ onPress[k] = "pair" /\ IsBound(k) => up \subseteq Met(k)[k]
BY DEF Met, TypeOK

\* Binds registered on some keys and removed from others keep the types, the
\* wiring and what quiet pairs remember.
LEMMA RebindKeeps ==
    ASSUME IInv, NEW new \in SUBSET (Keys \ Unbindable), NEW type \in Types,
           NEW uis \in SUBSET Uis, NEW old \in SUBSET Bound, new \cap old = {},
           Rebind(new, type, uis, old)
    PROVE  BindTypes' /\ BindsAreWired' /\ Quiet'
<1>1. BindTypes'
  <2>1. bind' \in [Keys -> Types \cup {"none"}] /\ onPress' \in [Keys -> Types \cup {"none"}]
    BY DEF Rebind, IInv, TypeOK
  <2>2. over' \in [Keys -> SUBSET Uis] /\ met' \in [Keys -> SUBSET Uis]
    BY DEF Rebind, IInv, TypeOK
  <2>3. onRelease' \subseteq Keys /\ hold' \in [Keys -> {"ran", "quiet", "other"}]
    BY DEF Rebind, IInv, TypeOK
  <2> QED BY <2>1, <2>2, <2>3 DEF BindTypes
<1>2. BindsAreWired'
  <2> SUFFICES ASSUME NEW k \in Keys
               PROVE  /\ bind'[k] # "none" <=> onPress'[k] # "none"
                      /\ bind'[k] = "pair" => k \in onRelease'
                      /\ bind'[k] # "none" => k \notin Unbindable
    BY DEF BindsAreWired, IsBound
  <2>1. /\ bind[k] # "none" <=> onPress[k] # "none"
        /\ bind[k] = "pair" => k \in onRelease
        /\ bind[k] # "none" => k \notin Unbindable
    BY DEF IInv, BindsAreWired, IsBound
  <2>2. bind'[k] = IF k \in new THEN type ELSE IF k \in old THEN "none" ELSE bind[k]
    BY DEF Rebind
  <2>3. onPress'[k] = IF k \in new /\ onPress[k] = "none" THEN type
                      ELSE IF k \in old THEN "none" ELSE onPress[k]
    BY DEF Rebind
  <2>4. k \in onRelease' <=> /\ k \in onRelease \/ (type = "pair" /\ k \in new)
                             /\ ~(k \in old /\ bind[k] = "pair")
    BY DEF Rebind
  <2> QED BY <2>1, <2>2, <2>3, <2>4 DEF Types
<1>3. Quiet'
  <2> SUFFICES ASSUME NEW k \in Keys, hold'[k] = "quiet", onPress'[k] = "pair"
               PROVE  ~(met'[k] \subseteq over'[k])
    BY DEF Quiet
  <2>1. k \notin new \cup old /\ hold[k] = "quiet"
    BY DEF Rebind
  <2>2. met'[k] = met[k] /\ over'[k] = over[k] /\ onPress'[k] = onPress[k]
    BY <2>1 DEF Rebind
  <2> QED BY <2>1, <2>2 DEF IInv, Quiet
<1> QED BY <1>1, <1>2, <1>3

\* The in-command's callbacks move with its key.
LEMMA RebindInKeeps ==
    ASSUME IInv, NEW v \in Keys \cup {NoKey}, RebindIn(v)
    PROVE  /\ inVk' \in Keys \cup {NoKey} /\ inCb' \subseteq Keys /\ outCb' \subseteq Keys
           /\ active' = active
           /\ InCommandWired'
<1>1. inCb = {inVk} \cap Keys /\ outCb = inCb /\ inVk \in Keys \cup {NoKey} /\ NoKey \notin Keys
  BY KeysAssumption DEF IInv, TypeOK, InCommandWired
<1>2. CASE v \in {inVk, NoKey}
  <2>1. UNCHANGED <<inVk, inCb, outCb, active>>
    BY <1>2 DEF RebindIn
  <2> QED BY <1>1, <2>1 DEF InCommandWired
<1>3. CASE v \notin {inVk, NoKey}
  <2>1. inVk' = v /\ inCb' = (inCb \ {inVk}) \cup {v} /\ outCb' = (outCb \ {inVk}) \cup {v}
    BY <1>3 DEF RebindIn
  <2>2. v \in Keys /\ inCb \ {inVk} = {} /\ outCb \ {inVk} = {}
    BY <1>1, <1>3
  <2>3. inCb' = {v} /\ outCb' = {v} /\ active' = active
    BY <2>1, <2>2 DEF RebindIn
  <2> QED BY <2>1, <2>2, <2>3 DEF InCommandWired
<1> QED BY <1>2, <1>3

\* Nothing about binds is disturbed by what leaves their variables alone.
LEMMA BindsUnchanged ==
    ASSUME IInv, UNCHANGED bindv
    PROVE  BindTypes' /\ BindsAreWired' /\ Quiet'
BY DEF bindv, IInv, TypeOK, BindTypes, BindsAreWired, IsBound, Quiet

-----------------------------------------------------------------------------
(* The inductive invariant. *)

LEMMA InitIInv == Init => IInv
<1> SUFFICES ASSUME Init PROVE IInv
  OBVIOUS
<1>1. TypeOK
  BY KeysAssumption DEF Init, TypeOK, Types
<1>2. BindsAreWired /\ Quiet
  BY DEF Init, BindsAreWired, IsBound, Quiet
<1>3. InCommandWired
  BY DEF Init, InCommandWired
<1> QED BY <1>1, <1>2, <1>3 DEF IInv

\* A key that goes down.
LEMMA PressKeeps == ASSUME IInv, NEW k \in Keys, Press(k) PROVE IInv'
<1>1. /\ met' \in [Keys -> SUBSET Uis]
      /\ \A j \in Keys : j # k => met'[j] = met[j]
      /\ onPress[k] = "pair" /\ IsBound(k) => up \subseteq met'[k]
  BY MetEffect DEF IInv, Press
<1>2. TypeOK'
  BY <1>1 DEF IInv, TypeOK, Press, askv
<1>3. BindsAreWired' /\ InCommandWired'
  BY DEF IInv, BindsAreWired, IsBound, InCommandWired, Press
<1>4. Quiet'
  <2> SUFFICES ASSUME NEW j \in Keys, hold'[j] = "quiet", onPress'[j] = "pair"
               PROVE  ~(met'[j] \subseteq over'[j])
    BY DEF Quiet
  <2>1. CASE j = k
    <3>1. IsBound(k) /\ ~RunsFirst(k)
      BY <2>1 DEF Press, IInv, TypeOK
    <3>2. onPress[k] = "pair" /\ ~(up \subseteq over[k])
      BY <2>1, <3>1 DEF Press, RunsFirst
    <3> QED BY <1>1, <2>1, <3>1, <3>2 DEF Press
  <2>2. CASE j # k
    <3>1. hold[j] = "quiet" /\ met'[j] = met[j]
      BY <1>1, <2>2 DEF Press, IInv, TypeOK
    <3> QED BY <3>1 DEF Press, IInv, Quiet
  <2> QED BY <2>1, <2>2
<1> QED BY <1>2, <1>3, <1>4 DEF IInv

\* A key that goes up.
LEMMA ReleaseKeeps == ASSUME IInv, NEW k \in Keys, Release(k) PROVE IInv'
<1>1. TypeOK'
  BY DEF IInv, TypeOK, Release, StaysActive, askv
<1>2. BindsAreWired' /\ InCommandWired'
  BY DEF IInv, BindsAreWired, IsBound, InCommandWired, Release
<1>3. Quiet'
  <2> SUFFICES ASSUME NEW j \in Keys, hold'[j] = "quiet", onPress'[j] = "pair"
               PROVE  ~(met'[j] \subseteq over'[j])
    BY DEF Quiet
  <2>1. hold[j] = "quiet"
    BY DEF Release, IInv, TypeOK
  <2> QED BY <2>1 DEF Release, IInv, Quiet
<1> QED BY <1>1, <1>2, <1>3 DEF IInv

\* A check box of a bind: what its key remembered no longer counts as quiet.
LEMMA SetFlagKeeps == ASSUME IInv, NEW k \in Keys, NEW ui \in Uis, SetFlag(k, ui) PROVE IInv'
<1>1. over' \in [Keys -> SUBSET Uis] /\ \A j \in Keys : j # k => over'[j] = over[j]
  BY DEF IInv, TypeOK, SetFlag
<1>2. TypeOK'
  BY <1>1 DEF IInv, TypeOK, SetFlag, inv, askv
<1>3. BindsAreWired' /\ InCommandWired'
  BY DEF IInv, BindsAreWired, IsBound, InCommandWired, SetFlag, inv
<1>4. Quiet'
  <2> SUFFICES ASSUME NEW j \in Keys, hold'[j] = "quiet", onPress'[j] = "pair"
               PROVE  ~(met'[j] \subseteq over'[j])
    BY DEF Quiet
  <2>1. j # k /\ hold[j] = "quiet"
    BY DEF SetFlag, IInv, TypeOK
  <2> QED BY <1>1, <2>1 DEF SetFlag, IInv, Quiet
<1> QED BY <1>2, <1>3, <1>4 DEF IInv

\* A button of a panel that starts the binding mode.
LEMMA ActivateKeeps ==
    ASSUME IInv, NEW what \in Types \cup {"move", "in"}, NEW key \in Keys \cup {NoKey},
           Activate(what, key), callback' \in Types \cup {"none", "move"}
    PROVE  IInv'
<1>1. BindTypes' /\ BindsAreWired' /\ Quiet'
  BY BindsUnchanged DEF Activate
<1>2. TypeOK'
  BY <1>1 DEF IInv, TypeOK, BindTypes, Activate, inv, Types
<1>3. InCommandWired'
  BY DEF IInv, InCommandWired, Activate, inv
<1> QED BY <1>1, <1>2, <1>3 DEF IInv

\* The frame in which a panel gets the key it waited for: a new bind, a moved
\* one, or nothing.
LEMMA EndBindingKeeps == ASSUME IInv, EndBinding PROVE IInv'
<1>1. picked \in Keys
  BY DEF EndBinding, Frame, IInv, TypeOK
<1>2. BindTypes' /\ BindsAreWired' /\ Quiet'
  <2>1. CASE UNCHANGED bindv
    BY <2>1, BindsUnchanged
  <2>2. CASE callback \in Types /\ CreateBind
    <3>1. {picked} \ Unbindable \in SUBSET (Keys \ Unbindable) /\ {} \in SUBSET Uis
      BY <1>1
    <3>2. {} \in SUBSET Bound /\ ({picked} \ Unbindable) \cap {} = {}
      OBVIOUS
    <3> QED BY <2>2, <3>1, <3>2, RebindKeeps DEF CreateBind
  <2>3. CASE askKey \in Bound /\ ~IsBound(picked) /\ MoveBind
    <3>1. {picked} \ Unbindable \in SUBSET (Keys \ Unbindable)
      BY <1>1
    <3>2. {askKey} \in SUBSET Bound /\ ({picked} \ Unbindable) \cap {askKey} = {}
      BY <2>3 DEF Bound
    <3>3. bind[askKey] \in Types /\ over[askKey] \in SUBSET Uis
      BY <2>3 DEF Bound, IsBound, IInv, TypeOK
    <3> QED BY <2>3, <3>1, <3>2, <3>3, RebindKeeps DEF MoveBind
  <2> QED BY <2>1, <2>2, <2>3 DEF EndBinding, OnKeyBound
<1>3. TypeOK'
  <2>1. callback' \in Types \cup {"none", "move"}
    BY DEF EndBinding, IInv, TypeOK
  <2>2. ~mode
    BY DEF EndBinding, Frame, IInv, TypeOK
  <2> QED BY <1>2, <2>1, <2>2 DEF IInv, TypeOK, BindTypes, EndBinding, ResetAsk, inv
<1>4. InCommandWired'
  BY DEF IInv, InCommandWired, EndBinding, inv
<1> QED BY <1>2, <1>3, <1>4 DEF IInv

\* The same for the in-command's panel.
LEMMA EndInBindingKeeps == ASSUME IInv, EndInBinding PROVE IInv'
<1>1. BindTypes' /\ BindsAreWired' /\ Quiet'
  BY BindsUnchanged DEF EndInBinding
<1> DEFINE v == IF picked \in Cancels THEN NoKey ELSE picked
<1>2. v \in Keys \cup {NoKey} /\ RebindIn(v)
  BY DEF EndInBinding, IInv, TypeOK
<1>3. /\ inVk' \in Keys \cup {NoKey} /\ inCb' \subseteq Keys /\ outCb' \subseteq Keys
      /\ active' = active
      /\ InCommandWired'
  <2> HIDE DEF v
  <2> QED BY <1>2, RebindInKeeps
<1>4. ~mode
  BY DEF EndInBinding, Frame, IInv, TypeOK
<1>5. TypeOK'
  BY <1>1, <1>3, <1>4 DEF IInv, TypeOK, BindTypes, EndInBinding, ResetAsk
<1> QED BY <1>1, <1>3, <1>5 DEF IInv

\* A configuration adds its binds and moves the in-command.
LEMMA LoadConfigKeeps ==
    ASSUME IInv, NEW type \in Types, NEW v \in Keys \cup {NoKey}, LoadConfig(type, v)
    PROVE  IInv'
<1>1. BindTypes' /\ BindsAreWired' /\ Quiet'
  <2>1. Keys \ Unbindable \in SUBSET (Keys \ Unbindable) /\ {} \in SUBSET Uis
    OBVIOUS
  <2>2. {} \in SUBSET Bound /\ (Keys \ Unbindable) \cap {} = {}
    OBVIOUS
  <2> QED BY <2>1, <2>2, RebindKeeps DEF LoadConfig
<1>2. /\ inVk' \in Keys \cup {NoKey} /\ inCb' \subseteq Keys /\ outCb' \subseteq Keys
      /\ active' = active
      /\ InCommandWired'
  BY RebindInKeeps DEF LoadConfig
<1>3. TypeOK'
  BY <1>1, <1>2 DEF IInv, TypeOK, BindTypes, LoadConfig, askv
<1> QED BY <1>1, <1>2, <1>3 DEF IInv

\* A command that binds a key, or unbinds some.
LEMMA BindKeeps ==
    ASSUME IInv, NEW new \in SUBSET (Keys \ Unbindable), NEW type \in Types,
           NEW uis \in SUBSET Uis, NEW old \in SUBSET Bound, new \cap old = {},
           Rebind(new, type, uis, old), UNCHANGED <<lock, inv, askv, up>>
    PROVE  IInv'
<1>1. BindTypes' /\ BindsAreWired' /\ Quiet'
  BY RebindKeeps
<1>2. TypeOK'
  BY <1>1 DEF IInv, TypeOK, BindTypes, inv, askv
<1>3. InCommandWired'
  BY DEF IInv, InCommandWired, inv
<1> QED BY <1>1, <1>2, <1>3 DEF IInv

\* What touches neither binds nor the in-command.
LEMMA RestKeeps ==
    ASSUME IInv, UNCHANGED <<bindv, inv>>, TypeOK'
    PROVE  IInv'
<1>1. BindsAreWired' /\ Quiet'
  BY BindsUnchanged
<1>2. InCommandWired'
  BY DEF IInv, InCommandWired, inv
<1> QED BY <1>1, <1>2 DEF IInv

LEMMA StepKeepsIInv == IInv /\ [Next]_vars => IInv'
<1> SUFFICES ASSUME IInv, [Next]_vars PROVE IInv'
  OBVIOUS
<1>1. ASSUME NEW k \in Keys, Pick(k) PROVE IInv'
  <2>1. asked # "none"
    BY <1>1 DEF Pick, IInv, TypeOK
  <2>2. TypeOK'
    BY <1>1, <2>1 DEF IInv, TypeOK, Pick, bindv, inv
  <2> QED BY <1>1, <2>2, RestKeeps DEF Pick
<1>2. ASSUME NEW k \in Keys, Repeat(k) PROVE IInv'
  <2>1. TypeOK'
    BY <1>2 DEF IInv, TypeOK, Repeat, bindv, inv, askv
  <2> QED BY <1>2, <2>1, RestKeeps DEF Repeat
<1>3. ASSUME NEW k \in Keys, KeyMessage(k) PROVE IInv'
  BY <1>1, <1>2, <1>3, PressKeeps, ReleaseKeeps DEF KeyMessage
<1>4. ASSUME NEW k \in Keys, NEW type \in Types, NEW uis \in SUBSET Uis, AddBind(k, type, uis)
      PROVE  IInv'
  <2>1. {k} \in SUBSET (Keys \ Unbindable) /\ {} \in SUBSET Bound /\ {k} \cap {} = {}
    BY <1>4 DEF AddBind
  <2> QED BY <1>4, <2>1, BindKeeps DEF AddBind
<1>5. ASSUME NEW ks \in SUBSET Keys, Unbind(ks) PROVE IInv'
  <2>1. {} \in SUBSET (Keys \ Unbindable) /\ {} \in SUBSET Uis /\ {} \cap ks = {}
    OBVIOUS
  <2>2. ks \in SUBSET Bound /\ "push" \in Types
    BY <1>5 DEF Unbind, Types
  <2> QED BY <1>5, <2>1, <2>2, BindKeeps DEF Unbind
<1>6. ASSUME NEW k \in Keys, ClickMove(k) PROVE IInv'
  BY <1>6, ActivateKeeps DEF ClickMove, KeepOrSet, IInv, TypeOK
<1>7. ASSUME NEW type \in Types, ClickNew(type) PROVE IInv'
  BY <1>7, ActivateKeeps DEF ClickNew, KeepOrSet, IInv, TypeOK
<1>8. ASSUME ClickIn PROVE IInv'
  BY <1>8, ActivateKeeps DEF ClickIn, IInv, TypeOK
<1>9. ASSUME NEW ui \in Uis, ToggleUi(ui) PROVE IInv'
  <2>1. TypeOK'
    BY <1>9 DEF IInv, TypeOK, ToggleUi, bindv, inv, askv
  <2> QED BY <1>9, <2>1, RestKeeps DEF ToggleUi
<1>10. ASSUME UNCHANGED vars PROVE IInv'
  <2>1. TypeOK'
    BY <1>10 DEF IInv, TypeOK, vars, bindv, inv, askv
  <2> QED BY <1>10, <2>1, RestKeeps DEF vars
<1>11. Bound \in SUBSET Keys
  BY DEF Bound
<1> QED
  BY <1>3, <1>4, <1>5, <1>6, <1>7, <1>8, <1>9, <1>10, <1>11,
     SetFlagKeeps, LoadConfigKeeps, EndBindingKeeps, EndInBindingKeeps DEF Next

\* The strengthened invariant holds in every reachable state.
THEOREM SpecIInv == Spec => []IInv
BY InitIInv, StepKeepsIInv, PTL DEF Spec

-----------------------------------------------------------------------------
(* The properties. *)

\* Type correctness; a picked key always has a panel that waits for it.
THEOREM TypeCorrect == Spec => []TypeOK
<1>1. IInv => TypeOK
  BY DEF IInv
<1> QED BY <1>1, SpecIInv, PTL

\* Every bind has its callbacks, and an unbound key runs no first command.
THEOREM EveryBindIsWired == Spec => []BindsAreWired
<1>1. IInv => BindsAreWired
  BY DEF IInv
<1> QED BY <1>1, SpecIInv, PTL

\* The in-command listens to its key and to no key it had before.
THEOREM InCommandListens == Spec => []InCommandWired
<1>1. IInv => InCommandWired
  BY DEF IInv
<1> QED BY <1>1, SpecIInv, PTL

\* A pair that was pressed on top of a UI and did not run stays silent when it
\* is released.
THEOREM QuietPairsStayQuiet == Spec => []NoLoneRelease
<1>1. IInv => NoLoneRelease
  BY DEF IInv, TypeOK, Quiet, NoLoneRelease, RunsSecond
<1> QED BY <1>1, SpecIInv, PTL

\* The in-command starts by its key alone and stops whenever its key goes up.
THEOREM InCommandIsHeld == Spec => InCommandFollowsItsKey
<1> DEFINE A == /\ active' /\ ~active => inVk \in lock' \ lock /\ up = {}
                /\ inVk \in lock \ lock' => ~active'
<1>1. ASSUME IInv, Next PROVE A \/ UNCHANGED vars
  <2>1. ASSUME NEW k \in Keys, Press(k) PROVE A
    BY <1>1, <2>1, KeysAssumption DEF Press, IInv, TypeOK, InCommandWired
  <2>2. ASSUME NEW k \in Keys, Release(k) PROVE A
    BY <1>1, <2>2, KeysAssumption DEF Release, StaysActive, IInv, TypeOK, InCommandWired
  <2>3. CASE UNCHANGED <<lock, active>>
    BY <2>3
  <2>4. ASSUME NEW k \in Keys, KeyMessage(k) PROVE A
    BY <2>1, <2>2, <2>3, <2>4 DEF KeyMessage, Pick, Repeat, inv
  <2>5. (\E k \in Keys : KeyMessage(k)) \/ UNCHANGED <<lock, active>>
    BY <1>1 DEF Next, AddBind, Unbind, SetFlag, LoadConfig, RebindIn, ClickNew, ClickMove,
                ClickIn, Activate, EndBinding, EndInBinding, ToggleUi, inv
  <2> QED BY <2>3, <2>4, <2>5
<1>2. IInv /\ [Next]_vars => [A]_vars
  BY <1>1
<1> QED BY <1>2, SpecIInv, PTL DEF Spec, InCommandFollowsItsKey

=============================================================================
