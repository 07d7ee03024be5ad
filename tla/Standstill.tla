------------------------------- MODULE Standstill -------------------------------
(***************************************************************************)
(* What CEngineSynchronization is for: the module takes itself apart only  *)
(* while the engine's thread stands still in it or cannot come into it,    *)
(* and an engine that is let go after that only leaves.                    *)
(*                                                                         *)
(* EngineSync implements this with its flags and waits.  UiSession, which  *)
(* has the handshake in one step, implements it as well: it assumes of the *)
(* handshake what the other one keeps.                                     *)
(***************************************************************************)

VARIABLES
    phase,      \* of the module's thread
    engine,     \* the engine's thread, as far as the module's detours go
    broken      \* a wait for the engine ended without its answer

vars == <<phase, engine, broken>>

TypeOK ==
    /\ phase \in {"working", "dismantling", "over"}
    /\ engine \in {"away", "free", "stands", "leaving"}
    /\ broken \in BOOLEAN

Init == phase = "working" /\ engine = "away" /\ broken = FALSE

\* Detours come, the engine runs through them, is put to sleep and let go, or quits.
Work ==
    /\ phase = "working"
    /\ engine' \in {"away", "free", "stands", "leaving"}
    /\ UNCHANGED <<phase, broken>>

Dismantle ==
    /\ phase = "working" /\ engine \in {"stands", "away"}
    /\ phase' = "dismantling"
    /\ UNCHANGED <<engine, broken>>

\* All is removed.  The engine is told to go on, unless it is elsewhere, or waits in
\* CEngine__Unload for the last steps of the module's thread.
Finish ==
    /\ phase = "dismantling"
    /\ phase' = "over"
    /\ engine' = engine \/ (engine = "stands" /\ engine' = "leaving")
    /\ UNCHANGED broken

LetGo ==
    /\ phase = "over" /\ engine = "stands"
    /\ engine' = "leaving"
    /\ UNCHANGED <<phase, broken>>

Leave ==
    /\ phase = "over" /\ engine = "leaving"
    /\ engine' = "away"
    /\ UNCHANGED <<phase, broken>>

\* Nothing is promised once a wait has ended without an answer.
Break == broken' = TRUE

Next == Work \/ Dismantle \/ Finish \/ LetGo \/ Leave \/ Break

Spec == Init /\ [][Next]_vars

=============================================================================
