------------------------------ MODULE CommandLine -----------------------------
(***************************************************************************)
(* CVariableManager: lines of commands, as they are typed into the console *)
(* or bound to a key, are split at ';', cut into tokens, and run; and the  *)
(* variables they set, with the text each of them keeps of its value.      *)
(*                                                                         *)
(* A line is a sequence of symbols: a word, a space, a quote, a semicolon. *)
(* All of it runs on one thread; a command is a step so that the line can  *)
(* be looked at between two of them.  What a command prints is left out.   *)
(***************************************************************************)
EXTENDS Integers, Sequences, FiniteSets, SequencesExt

CONSTANTS
    Floats,         \* names of the variables with bounds (VarFloat; a VarInteger has no NaN)
    Booleans,       \* VarBoolean
    Strings,        \* VarString
    Commands,       \* names of the commands
    NumberOf,       \* what a word says as a number
    TruthOf,        \* what a word says as a truth value
    TextOf,         \* how a number is written (std::to_string)
    Lowest, Highest, Default,   \* of each of the Floats
    NaN,            \* std::stof reads one
    Lines,          \* what is entered or bound to a key
    Panel,          \* the numbers the menu sets
    Stored          \* what a configuration may hold: variables and texts

Variables == Floats \cup Booleans \cup Strings
Words == Variables \cup Commands \cup DOMAIN NumberOf \cup DOMAIN TruthOf \cup {"hl"}
Quote == "quote"
Symbols == Words \cup {" ", Quote, ";"}

ASSUME BoundsAssumption ==
    /\ Lowest \in [Floats -> Int] /\ Highest \in [Floats -> Int] /\ Default \in [Floats -> Int]
    /\ \A v \in Floats : Lowest[v] <= Default[v] /\ Default[v] <= Highest[v]
    /\ NaN \notin Int /\ Panel \subseteq Int

ASSUME NumbersAssumption ==
    /\ NumberOf \in [DOMAIN NumberOf -> Int \cup {NaN}]
    /\ \A n \in Panel \cup UNION {{Lowest[v], Highest[v], Default[v]} : v \in Floats} :
          n \in DOMAIN TextOf /\ TextOf[n] \in DOMAIN NumberOf /\ NumberOf[TextOf[n]] = n

ASSUME TruthsAssumption ==
    /\ TruthOf \in [DOMAIN TruthOf -> BOOLEAN] /\ {"yes", "no"} \subseteq DOMAIN TruthOf
    /\ TruthOf["yes"] = TRUE /\ TruthOf["no"] = FALSE

\* The files hold what the program wrote: names it has, and texts of variables.
ASSUME StoredAssumption ==
    \A entry \in Stored :
        \/ entry[1] \in Floats \cup Booleans /\ entry[2] \in Seq(Symbols \ {Quote})
        \/ entry[1] \in Strings /\ entry[2] \in Seq(Symbols)

ASSUME WordsAssumption ==
    /\ " " \notin Words /\ Quote \notin Words /\ ";" \notin Words
    /\ Floats \cap Booleans = {} /\ Strings \cap (Floats \cup Booleans) = {}
    /\ Lines \subseteq Seq(Symbols) \ {<<>>}

VARIABLES
    float,      \* m_value of each of the Floats
    bool,       \* and of the Booleans
    string,     \* m_value_string of every variable
    line,       \* the line that execute_command is in, if any
    pending,    \* its commands that are still to run
    ran         \* ghost: what it has run so far

vars == <<float, bool, string, line, pending, ran>>

TypeOK ==
    /\ float \in [Floats -> Int \cup {NaN}]
    /\ bool \in [Booleans -> BOOLEAN]
    /\ DOMAIN string = Variables
    /\ \A v \in Floats \cup Booleans : string[v] \in Seq(Symbols \ {Quote})
    /\ \A v \in Strings : string[v] \in Seq(Symbols)
    /\ line \in Seq(Symbols)
    /\ pending \in Seq(Seq(Symbols))

Init ==
    /\ float = Default
    /\ bool = [v \in Booleans |-> FALSE]
    /\ string = [v \in Variables |->
                    IF v \in Floats THEN <<TextOf[Default[v]]>>
                    ELSE IF v \in Booleans THEN <<"no">> ELSE <<>>]
    /\ line = <<>> /\ pending = <<>> /\ ran = <<>>

-----------------------------------------------------------------------------
(* Scanning. *)

\* CStringTools::ltrim
LTrim(s) ==
    LET words == {i \in 1..Len(s) : s[i] # " "}
    IN IF words = {} THEN <<>> ELSE SubSeq(s, Min(words), Len(s))

\* What the loops below have after their symbols, one by one.
Unquoted_Kept(s) == s           \* mutant: quotes are not erased
Unquoted(s) ==
    LET kept[i \in 0..Len(s)] ==
          IF i = 0 THEN <<>> ELSE IF s[i] = Quote THEN kept[i - 1] ELSE Append(kept[i - 1], s[i])
    IN kept[Len(s)]

\* The loop of execute_command.  A quote that ends the line closes nothing, and its
\* last symbol belongs to the last command, whatever it is: "say;" runs "say;".
SplitStep_Unquoted(s, i, at) ==     \* mutant: a separator counts inside quotes, too
    LET last == i = Len(s)
        current == IF s[i] = ";" /\ ~last THEN at.current ELSE Append(at.current, s[i])
        ends == s[i] = ";" \/ last
    IN [quotes |-> FALSE,
        current |-> IF ends THEN <<>> ELSE current,
        commands |-> IF ends THEN Append(at.commands, LTrim(current)) ELSE at.commands]
SplitStep(s, i, at) ==
    LET last == i = Len(s)
        quotes == IF s[i] = Quote THEN ~at.quotes \/ last ELSE at.quotes
        ends == (s[i] = ";" /\ ~quotes) \/ last
        current == IF ends /\ ~last THEN at.current ELSE Append(at.current, s[i])
    IN [quotes |-> quotes,
        current |-> IF ends THEN <<>> ELSE current,
        commands |-> IF ends THEN Append(at.commands, LTrim(current)) ELSE at.commands]
Splitting(s) ==
    LET at[i \in 0..Len(s)] ==
          IF i = 0 THEN [quotes |-> FALSE, current |-> <<>>, commands |-> <<>>]
          ELSE SplitStep(s, i, at[i - 1])
    IN at
Split(s) == Splitting(s)[Len(s)].commands

\* The loop of tokenize_command: quotes are dropped, and a last symbol that is still
\* inside quotes.  An opening quote at the end takes the token before it along: there
\* is no token.  (An empty command, from ";;", it asserts never to see; without the
\* assertion it finds no token in it.)
TokenStep_LastDropped(c, i, at) ==  \* mutant: the last symbol is not pushed
    LET last == i = Len(c)
        ends == (c[i] = " " /\ ~at.quotes) \/ last
        token == IF ends THEN at.token ELSE Append(at.token, c[i])
    IN IF c[i] = Quote /\ ~(at.quotes /\ last) THEN [at EXCEPT !.quotes = ~@]
       ELSE IF ends THEN [at EXCEPT !.token = <<>>, !.tokens = Append(@, token)]
       ELSE [at EXCEPT !.token = token]
TokenStep(c, i, at) ==
    LET last == i = Len(c)
        ends == (c[i] = " " /\ ~at.quotes) \/ last
        token == IF ends /\ ~(last /\ ~at.quotes) THEN at.token ELSE Append(at.token, c[i])
    IN IF c[i] = Quote /\ ~(at.quotes /\ last) THEN [at EXCEPT !.quotes = ~@]
       ELSE IF ends THEN [at EXCEPT !.token = <<>>, !.tokens = Append(@, token)]
       ELSE [at EXCEPT !.token = token]
Tokenizing(c) ==
    LET at[i \in 0..Len(c)] ==
          IF i = 0 THEN [quotes |-> FALSE, token |-> <<>>, tokens |-> <<>>]
          ELSE TokenStep(c, i, at[i - 1])
    IN at
Tokens(c) == Tokenizing(c)[Len(c)].tokens

-----------------------------------------------------------------------------
(* Values and their texts. *)

\* string_to_T: nothing, or what it reads.  std::stof skips spaces, and stops at what
\* is no number any more; a truth value is the whole text.
Number(text) ==
    {NumberOf[text[i]] : i \in {j \in 1..Len(text) : /\ text[j] \in DOMAIN NumberOf
                                                     /\ \A k \in 1..(j - 1) : text[k] = " "}}
Truth(text) == {TruthOf[w] : w \in {x \in DOMAIN TruthOf : text = <<x>>}}

Written(n) == [value |-> n, text |-> <<TextOf[n]>>]

\* clamp_value_if_needed: no comparison with NaN holds.
Clamped_Above(v, n, text) ==    \* mutant: only one of the bounds
    IF n # NaN /\ n > Highest[v] THEN Written(Highest[v]) ELSE [value |-> n, text |-> text]
Clamped(v, n, text) ==
    IF n # NaN /\ n < Lowest[v] THEN Written(Lowest[v])
    ELSE IF n # NaN /\ n > Highest[v] THEN Written(Highest[v])
    ELSE [value |-> n, text |-> text]

\* set_from_string of each kind, from what the variable is now.
ReadNumber(v, text, now) ==
    IF text = now.text \/ Number(text) = {} THEN now
    ELSE Clamped(v, CHOOSE n \in Number(text) : TRUE, text)
ReadTruth(text, now) ==
    IF text = now.text \/ Truth(text) = {} THEN now
    ELSE [value |-> CHOOSE b \in Truth(text) : TRUE, text |-> text]

ToFloat(v, to) ==
    /\ float' = [float EXCEPT ![v] = to.value] /\ string' = [string EXCEPT ![v] = to.text]
    /\ UNCHANGED bool
ToBool(v, to) ==
    /\ bool' = [bool EXCEPT ![v] = to.value] /\ string' = [string EXCEPT ![v] = to.text]
    /\ UNCHANGED float

ValueFromString(v, text) ==
    \/ v \in Floats /\ ToFloat(v, ReadNumber(v, text, [value |-> float[v], text |-> string[v]]))
    \/ v \in Booleans /\ ToBool(v, ReadTruth(text, [value |-> bool[v], text |-> string[v]]))

-----------------------------------------------------------------------------
(* Actions. *)

\* execute_command, up to the commands it finds.
Enter ==
    /\ line = <<>>
    /\ \E s \in Lines :
          line' = s /\ pending' = IF s = <<" ">> THEN <<>> ELSE Split(s)
    /\ UNCHANGED <<float, bool, string, ran>>

Return ==
    /\ line # <<>> /\ pending = <<>>
    /\ line' = <<>> /\ ran' = <<>>
    /\ UNCHANGED <<float, bool, string, pending>>

NoVariable == UNCHANGED <<float, bool, string>>
Ran(kind, words) == ran' = Append(ran, [kind |-> kind, words |-> words])
Names(tokens, names) == tokens # <<>> /\ tokens[1] \in {<<n>> : n \in names}
ForEngine(command) == Len(command) > 1 /\ command[1] = "hl" /\ command[2] = " "
After(n, command) == SubSeq(command, n + 1, Len(command))

\* execute_internal.  What is after a variable's name and one more character is the
\* text of its value.  (A VarString does not override the set_from_string that is
\* called here: it is an assertion, and without it nothing is set.)
ExecuteInternal ==
    /\ pending # <<>>
    /\ pending' = Tail(pending) /\ UNCHANGED line
    /\ LET command == Head(pending)
           tokens == Tokens(command)
           raw == Unquoted(After(2, command))
       IN \/ ForEngine(command) /\ Ran("engine", <<After(2, command)>>) /\ NoVariable
          \/ /\ ~ForEngine(command) /\ Names(tokens, Commands)
             /\ Ran("command", tokens) /\ NoVariable
          \/ /\ ~ForEngine(command) /\ ~Names(tokens, Commands) /\ Len(tokens) > 1
             /\ \E v \in Floats \cup Booleans :
                   /\ tokens[1] = <<v>>
                   /\ Ran("set", <<tokens[1], raw>>) /\ ValueFromString(v, raw)
          \/ /\ ~ForEngine(command) /\ ~Names(tokens, Commands)
             /\ Names(tokens, Floats \cup Booleans) => Len(tokens) = 1
             /\ UNCHANGED ran /\ NoVariable

\* set_value, from the menu.
SetNumber_Early(v, n) ==        \* mutant: the text is written before the value is assigned
    /\ line = <<>> /\ float[v] \notin {n, NaN}
    /\ ToFloat(v, [Clamped(v, n, <<>>) EXCEPT !.text = <<TextOf[float[v]]>>])
    /\ UNCHANGED <<line, pending, ran>>
SetNumber(v, n) ==
    /\ line = <<>>
    /\ IF float[v] = n THEN NoVariable ELSE ToFloat(v, Clamped(v, n, <<TextOf[n]>>))
    /\ UNCHANGED <<line, pending, ran>>

SetTruth(v, b) ==
    /\ line = <<>>
    /\ IF bool[v] = b THEN NoVariable
                      ELSE ToBool(v, [value |-> b, text |-> <<IF b THEN "yes" ELSE "no">>])
    /\ UNCHANGED <<line, pending, ran>>

\* The configuration is loaded: set_from_string with a text of the file.
LoadVariable(v, text) ==
    /\ line = <<>>
    /\ \/ ValueFromString(v, text)
       \/ v \in Strings /\ string' = [string EXCEPT ![v] = text] /\ UNCHANGED <<float, bool>>
    /\ UNCHANGED <<line, pending, ran>>

Next ==
    \/ Enter \/ ExecuteInternal \/ Return
    \/ \E v \in Floats, n \in Panel : SetNumber(v, n)
    \/ \E v \in Booleans, b \in BOOLEAN : SetTruth(v, b)
    \/ \E entry \in Stored : LoadVariable(entry[1], entry[2])

Spec == Init /\ [][Next]_vars

-----------------------------------------------------------------------------
(* What a line means, from the places of its quotes. *)

UpTo(places, i) == Cardinality({j \in places : j <= i})
Quotes(s, i) == UpTo({j \in DOMAIN s : s[j] = Quote}, i)
Cuts(s, separator) == {i \in 1..(Len(s) - 1) : s[i] = separator /\ Quotes(s, i) % 2 = 0}

\* The k-th cut; the line begins after cut 0 and ends before the one after the last.
CutAt(s, separator, k) ==
    LET cuts == Cuts(s, separator)
    IN IF k = 0 THEN 0
       ELSE IF k > Cardinality(cuts) THEN Len(s) + 1
       ELSE CHOOSE i \in cuts : UpTo(cuts, i) = k
Pieces(s, separator) ==
    [k \in 1..(Cardinality(Cuts(s, separator)) + 1) |->
        SubSeq(s, CutAt(s, separator, k - 1) + 1, CutAt(s, separator, k) - 1)]

\* What one command is to do: at most one thing.
Meaning(command) ==
    LET pieces == Pieces(command, " ")
        words == [k \in DOMAIN pieces |-> Unquoted(pieces[k])]
    IN IF ForEngine(command) THEN <<[kind |-> "engine", words |-> <<After(2, command)>>]>>
       ELSE IF Names(words, Commands) THEN <<[kind |-> "command", words |-> words]>>
       ELSE IF Names(words, Floats \cup Booleans) /\ Len(words) > 1
            THEN <<[kind |-> "set",
                    words |-> <<words[1], Unquoted(After(Len(pieces[1]) + 1, command))>>]>>
       ELSE <<>>

Parts(s) == LET pieces == Pieces(s, ";") IN [k \in DOMAIN pieces |-> LTrim(pieces[k])]

\* Quotes are closed, and none is around the name a command begins with.
WellFormed(s) ==
    /\ Quotes(s, Len(s)) % 2 = 0
    /\ \A part \in ToSet(Parts(s)) :
          LET name == Pieces(part, " ")[1] IN Quotes(name, Len(name)) = 0

-----------------------------------------------------------------------------
(* Properties. *)

\* A well-formed line runs what it says: each of its commands once, in their order,
\* each argument as it was written between its quotes or spaces.
LineRuns ==
    pending = <<>> /\ line \notin {<<>>, <<" ">>} /\ WellFormed(line) =>
        LET parts == Parts(line) IN ran = FlattenSeq([k \in DOMAIN parts |-> Meaning(parts[k])])

\* No text brings a variable out of its bounds but "nan", which the clamp lets pass.
InBounds == \A v \in Floats : float[v] = NaN \/ float[v] \in Lowest[v]..Highest[v]

\* What a configuration keeps of a variable is its text: a fresh variable that reads
\* it has the value again, clamped or not, typed or set from the menu.
Fresh(v) == Written(Default[v])
TextRestores ==
    /\ \A v \in Floats :
          ReadNumber(v, string[v], Fresh(v)) = [value |-> float[v], text |-> string[v]]
    /\ \A v \in Booleans :
          ReadTruth(string[v], [value |-> FALSE, text |-> <<"no">>]).value = bool[v]

\* Quotes protect: a line sets a variable only where its name begins a command, even
\* when a quote is not closed, and never from inside an argument.
BeginsCommand(v) ==
    \E k \in DOMAIN line :
        /\ line[k] = v
        /\ \E cut \in {0} \cup Cuts(line, ";") :
              cut < k /\ \A j \in (cut + 1)..(k - 1) : line[j] \in {" ", Quote}
QuotesProtect ==
    [][line # <<>> => \A v \in Variables : string'[v] # string[v] => BeginsCommand(v)]_vars

=============================================================================
