--------------------------- MODULE SettingsRegister ---------------------------
(***************************************************************************)
(* What the configuration promises from one session of the module to the   *)
(* next, seen from outside: some settings are held while a session is      *)
(* open, and something is stored all the time.  A session opens with what  *)
(* is stored, put over the defaults; nothing is stored while none is open, *)
(* whatever else starts, fails or dies meanwhile.                          *)
(***************************************************************************)
CONSTANTS
    Entries,    \* variables, binds, in-commands
    Values,     \* for each entry, what it can be
    Default     \* the settings of a program without a file

VARIABLES
    isOpen,     \* a session has loaded its settings
    held,       \* the settings in memory
    stored      \* what a load of the saved file would apply

Partial(S) ==
    {s \in [S -> UNION {Values[e] : e \in Entries}] : \A e \in S : s[e] \in Values[e]}
Settings == Partial(Entries)
Docs == UNION {Partial(S) : S \in SUBSET Entries}

\* The entries of a document replace those of the settings it is put over.
Over(doc, base) == [e \in Entries |-> IF e \in DOMAIN doc THEN doc[e] ELSE base[e]]

Init == isOpen = FALSE /\ held = Default /\ stored \in Docs

Enter ==
    /\ ~isOpen /\ isOpen'
    /\ held' = Over(stored, Default)
    /\ UNCHANGED stored

Change ==
    /\ isOpen /\ held' \in Settings
    /\ UNCHANGED <<isOpen, stored>>

Store ==
    /\ isOpen /\ stored' \in Docs
    /\ UNCHANGED <<isOpen, held>>

Leave ==
    /\ isOpen /\ ~isOpen'
    /\ held' = Default
    /\ UNCHANGED stored

Next == Enter \/ Change \/ Store \/ Leave

Spec == Init /\ [][Next]_<<isOpen, held, stored>>

=============================================================================
