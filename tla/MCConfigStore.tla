---------------------------- MODULE MCConfigStore -----------------------------
(* An instance of ConfigStore: the autosave's interval, and one bind that is *)
(* not there by default.                                                     *)
EXTENDS ConfigStore

MCValues == [e \in Entries |-> IF e = Interval THEN {"on", "off"} ELSE {"set", Unset}]
MCDefault == [e \in Entries |-> IF e = Interval THEN "on" ELSE Unset]

=============================================================================
