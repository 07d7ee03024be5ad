--------------------------- MODULE ModuleLifecycle ---------------------------
(***************************************************************************)
(* What the loader promises about one injected module, seen from outside:  *)
(* the phases a module goes through between two injections, and the only   *)
(* reasons for which it may disappear.  InjectorSession implements this.   *)
(*                                                                         *)
(*   absent -> starting -> running -> leaving -> left -> absent            *)
(*                    \-> aborting ---------------^                        *)
(*                                                                         *)
(* "aborting" is a module whose initialisation failed, "leaving" one that  *)
(* tears itself down after it ran, "left" one that has told the loader so  *)
(* and may be taken out of memory.                                         *)
(***************************************************************************)

VARIABLES
    phase,      \* where the module is in its life
    asked,      \* the loader asked the module to unload
    silent,     \* the loader has not seen any report of the module yet
    fault       \* the module was taken out of memory under its own feet

vars == <<phase, asked, silent, fault>>

Phases  == {"absent", "starting", "aborting", "running", "leaving", "left"}
Present == Phases \ {"absent"}

TypeOK ==
    /\ phase \in Phases
    /\ {asked, silent, fault} \subseteq BOOLEAN

Init ==
    /\ phase = "absent"
    /\ asked = FALSE /\ silent = FALSE /\ fault = FALSE

\* One module at a time: an injection starts only where none is present.
Begin ==
    /\ phase = "absent"
    /\ phase' = "starting"
    /\ asked' = FALSE /\ silent' = TRUE /\ fault' = FALSE

Ready ==
    /\ phase = "starting"
    /\ phase' = "running"
    /\ UNCHANGED <<asked, silent, fault>>

Ask ==
    /\ phase \in Present
    /\ asked' = TRUE
    /\ UNCHANGED <<phase, silent, fault>>

\* The loader sees a report of the module, or its process ends.
Notice ==
    /\ silent' = FALSE
    /\ UNCHANGED <<phase, asked, fault>>

\* Initialisation failed, or the running module decided to stop.
Leave ==
    /\ \/ phase = "starting" /\ phase' = "aborting"
       \/ phase = "running" /\ phase' = "leaving"
    /\ UNCHANGED <<asked, silent, fault>>

Announce ==
    /\ phase \in {"aborting", "leaving"}
    /\ phase' = "left"
    /\ UNCHANGED <<asked, silent, fault>>

\* The module's memory is released after its announcement.  Its thread may
\* still be on the way out, so this release can fault as well.
Release ==
    /\ phase = "left"
    /\ phase' = "absent"
    /\ asked' = FALSE /\ silent' = FALSE
    /\ fault' \in BOOLEAN

\* A module is released by force only after it was asked to unload, or when the
\* loader has not seen it report anything since its injection.
Evict ==
    /\ phase \in Present \ {"left"}
    /\ asked \/ silent
    /\ phase' = "absent"
    /\ asked' = FALSE /\ silent' = FALSE
    /\ fault' = TRUE

\* The target process ended by itself.
TargetGone ==
    /\ phase' = "absent"
    /\ asked' = FALSE /\ silent' = FALSE
    /\ fault' = FALSE

Next ==
    \/ Begin \/ Ready \/ Ask \/ Notice \/ Leave \/ Announce
    \/ Release \/ Evict \/ TargetGone

Spec == Init /\ [][Next]_vars

=============================================================================
