---------------------------- MODULE MCCommandLine -----------------------------
EXTENDS CommandLine

CONSTANTS MaxLine       \* symbols of a line

MCNumberOf == ("0" :> 0) @@ ("1" :> 1) @@ ("2" :> 2) @@ ("3" :> 3) @@ ("nan" :> NaN)
MCTruthOf == ("yes" :> TRUE) @@ ("no" :> FALSE) @@ ("1" :> TRUE) @@ ("0" :> FALSE)
MCTextOf == <<"1", "2", "3">>
MCLowest == [v \in Floats |-> 1]
MCHighest == [v \in Floats |-> 2]
MCDefault == [v \in Floats |-> 2]

\* Words have a space or a separator between them: two words without are another word.
WholeWords(s) ==
    \A i, j \in DOMAIN s : i < j /\ {s[i], s[j]} \cap {" ", ";", Quote} = {} =>
        \E k \in i..j : s[k] \in {" ", ";"}

Typed == {"fov", "flag", "say", "hl", "1"}
MCLines == {s \in BoundedSeq(Typed \cup {" ", ";", Quote}, MaxLine) : s # <<>> /\ WholeWords(s)}
MCStored == {<<"fov", <<" ", "0">>>>, <<"fov", <<"nan">>>>, <<"flag", <<"no">>>>,
             <<"filter", <<"say", ";">>>>}

=============================================================================
