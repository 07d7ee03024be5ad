-------------------------- MODULE CommandLine_proofs ---------------------------
(***************************************************************************)
(* Theorems about CommandLine, for all variables, bounds, words and lines. *)
(* However a line is split, a variable stays in its bounds, and its text   *)
(* reads as its value: that is the inductive invariant, and what restoring *)
(* a configuration rests on.                                               *)
(***************************************************************************)
EXTENDS CommandLine_lines

Values ==
    /\ float \in [Floats -> Int \cup {NaN}]
    /\ bool \in [Booleans -> BOOLEAN]
    /\ string = [v \in Variables |-> string[v]]

\* The text of a variable reads as its value, and as nothing else.
TextsRead ==
    /\ \A v \in Floats : Number(string[v]) = {float[v]}
    /\ \A v \in Booleans : Truth(string[v]) = {bool[v]}

IInv == Values /\ InBounds /\ TextsRead

\* A value and a text that may belong to one of the Floats.
Fits(v, to) ==
    /\ to.value = NaN \/ to.value \in Lowest[v]..Highest[v]
    /\ Number(to.text) = {to.value}

Bounds(v) == {Lowest[v], Highest[v], Default[v]}

-----------------------------------------------------------------------------
(* What is read from a text. *)

\* A number that was written is read again.
LEMMA WrittenReads ==
    ASSUME NEW n \in Panel \cup UNION {Bounds(v) : v \in Floats}
    PROVE  n \in Int /\ Number(<<TextOf[n]>>) = {n}
<1>1. n \in DOMAIN TextOf /\ TextOf[n] \in DOMAIN NumberOf /\ NumberOf[TextOf[n]] = n
  BY NumbersAssumption DEF Bounds
<1>2. n \in Int
  BY BoundsAssumption DEF Bounds
<1> DEFINE text == <<TextOf[n]>>
<1> DEFINE first == {j \in 1..Len(text) : /\ text[j] \in DOMAIN NumberOf
                                          /\ \A k \in 1..(j - 1) : text[k] = " "}
<1>3. Len(text) = 1 /\ text[1] = TextOf[n]
  OBVIOUS
<1>4. first = {1}
  <2>1. \A j \in 1..Len(text) : j = 1
    BY <1>3
  <2>2. 1 \in 1..Len(text)
    BY <1>3
  <2>3. 1..(1 - 1) = {}
    OBVIOUS
  <2>4. text[1] \in DOMAIN NumberOf
    BY <1>1, <1>3
  <2> HIDE DEF text
  <2> QED
    BY <2>1, <2>2, <2>3, <2>4
<1>5. Number(text) = {NumberOf[text[i]] : i \in first}
  BY DEF Number
<1>6. Number(text) = {NumberOf[text[1]]}
  <2> HIDE DEF text, first
  <2> QED
    BY <1>4, <1>5
<1> QED
  BY <1>1, <1>2, <1>3, <1>6

\* A text says one number at most: the first word of it.
LEMMA NumberOnce ==
    ASSUME NEW text, NEW m \in Number(text), NEW n \in Number(text)
    PROVE  m = n /\ m \in Int \cup {NaN}
<1>1. PICK i \in 1..Len(text) : /\ m = NumberOf[text[i]] /\ text[i] \in DOMAIN NumberOf
                                /\ \A k \in 1..(i - 1) : text[k] = " "
  BY DEF Number
<1>2. PICK j \in 1..Len(text) : /\ n = NumberOf[text[j]] /\ text[j] \in DOMAIN NumberOf
                                /\ \A k \in 1..(j - 1) : text[k] = " "
  BY DEF Number
<1>3. " " \notin DOMAIN NumberOf
  BY WordsAssumption DEF Words
<1>4. i \in Int /\ j \in Int /\ 1 <= i /\ 1 <= j
  OBVIOUS
<1>5. ~(i < j)
  <2>1. i < j => i \in 1..(j - 1)
    BY <1>4
  <2> QED
    BY <2>1, <1>1, <1>2, <1>3
<1>6. ~(j < i)
  <2>1. j < i => j \in 1..(i - 1)
    BY <1>4
  <2> QED
    BY <2>1, <1>1, <1>2, <1>3
<1>7. i = j
  BY <1>4, <1>5, <1>6
<1> QED
  BY <1>1, <1>2, <1>7, NumbersAssumption

LEMMA TruthOnce ==
    ASSUME NEW text, NEW a \in Truth(text), NEW b \in Truth(text)
    PROVE  a = b /\ a \in BOOLEAN
<1>1. PICK w \in DOMAIN TruthOf : text = <<w>> /\ a = TruthOf[w]
  BY DEF Truth
<1>2. PICK x \in DOMAIN TruthOf : text = <<x>> /\ b = TruthOf[x]
  BY DEF Truth
<1>3. w = x
  BY <1>1, <1>2
<1> QED
  BY <1>1, <1>2, <1>3, TruthsAssumption

\* What the clamp leaves is in the bounds, and its text reads as it.
LEMMA ClampedFits ==
    ASSUME NEW v \in Floats, NEW n \in Int \cup {NaN}, NEW text, Number(text) = {n}
    PROVE  Fits(v, Clamped(v, n, text)) /\ Clamped(v, n, text).value \in Int \cup {NaN}
<1>1. Lowest[v] \in Int /\ Highest[v] \in Int /\ Lowest[v] <= Highest[v]
  BY BoundsAssumption
<1>2. /\ Number(<<TextOf[Lowest[v]]>>) = {Lowest[v]}
      /\ Number(<<TextOf[Highest[v]]>>) = {Highest[v]}
  BY WrittenReads DEF Bounds
<1>3. CASE n = NaN
  BY <1>3 DEF Fits, Clamped
<1>4. CASE n \in Int /\ n < Lowest[v] /\ n # NaN
  BY <1>1, <1>2, <1>4 DEF Fits, Clamped, Written
<1>5. CASE n \in Int /\ n > Highest[v] /\ n # NaN
  BY <1>1, <1>2, <1>5 DEF Fits, Clamped, Written
<1>6. CASE n \in Int /\ Lowest[v] <= n /\ n <= Highest[v] /\ n # NaN
  BY <1>1, <1>6 DEF Fits, Clamped
<1> QED
  BY <1>1, <1>3, <1>4, <1>5, <1>6

\* So is what set_from_string leaves of a variable that was all right before.
LEMMA ReadFits ==
    ASSUME NEW v \in Floats, NEW text, NEW now, Fits(v, now), now.value \in Int \cup {NaN}
    PROVE  /\ Fits(v, ReadNumber(v, text, now))
           /\ ReadNumber(v, text, now).value \in Int \cup {NaN}
<1>1. CASE text = now.text \/ Number(text) = {}
  BY <1>1 DEF ReadNumber
<1>2. CASE ~(text = now.text \/ Number(text) = {})
  <2> DEFINE n == CHOOSE m \in Number(text) : TRUE
  <2>1. n \in Number(text)
    BY <1>2
  <2>2. Number(text) = {n} /\ n \in Int \cup {NaN}
    BY <2>1, NumberOnce
  <2>3. ReadNumber(v, text, now) = Clamped(v, n, text)
    BY <1>2 DEF ReadNumber
  <2> HIDE DEF n
  <2> QED
    BY <2>2, <2>3, ClampedFits
<1> QED
  BY <1>1, <1>2

LEMMA ReadTruthFits ==
    ASSUME NEW text, NEW now, Truth(now.text) = {now.value}, now.value \in BOOLEAN
    PROVE  /\ Truth(ReadTruth(text, now).text) = {ReadTruth(text, now).value}
           /\ ReadTruth(text, now).value \in BOOLEAN
<1>1. CASE text = now.text \/ Truth(text) = {}
  BY <1>1 DEF ReadTruth
<1>2. CASE ~(text = now.text \/ Truth(text) = {})
  <2> DEFINE b == CHOOSE c \in Truth(text) : TRUE
  <2>1. b \in Truth(text)
    BY <1>2
  <2>2. Truth(text) = {b} /\ b \in BOOLEAN
    BY <2>1, TruthOnce
  <2>3. ReadTruth(text, now) = [value |-> b, text |-> text]
    BY <1>2 DEF ReadTruth
  <2> HIDE DEF b
  <2> QED
    BY <2>2, <2>3
<1> QED
  BY <1>1, <1>2

\* The words that truth values are written with.
LEMMA YesAndNo == Truth(<<"yes">>) = {TRUE} /\ Truth(<<"no">>) = {FALSE}
  BY TruthsAssumption DEF Truth

-----------------------------------------------------------------------------
(* The steps. *)

\* A variable takes a value and a text that fit it.
LEMMA ToFloatKeeps ==
    ASSUME IInv, NEW v \in Floats, NEW to, Fits(v, to), to.value \in Int \cup {NaN}, ToFloat(v, to)
    PROVE  IInv'
<1>1. Values'
  BY DEF IInv, Values, ToFloat, Variables
<1>2. \A w \in Floats : float'[w] = (IF w = v THEN to.value ELSE float[w])
                         /\ string'[w] = (IF w = v THEN to.text ELSE string[w])
  BY DEF IInv, Values, ToFloat, Variables
<1>3. \A w \in Booleans : bool'[w] = bool[w] /\ string'[w] = string[w]
  BY WordsAssumption DEF IInv, Values, ToFloat, Variables
<1>4. InBounds'
  BY <1>2 DEF IInv, InBounds, Fits
<1>5. TextsRead'
  BY <1>2, <1>3 DEF IInv, TextsRead, Fits
<1> QED
  BY <1>1, <1>4, <1>5 DEF IInv

LEMMA ToBoolKeeps ==
    ASSUME IInv, NEW v \in Booleans, NEW to, Truth(to.text) = {to.value}, to.value \in BOOLEAN,
           ToBool(v, to)
    PROVE  IInv'
<1>1. Values'
  BY DEF IInv, Values, ToBool, Variables
<1>2. \A w \in Booleans : bool'[w] = (IF w = v THEN to.value ELSE bool[w])
                           /\ string'[w] = (IF w = v THEN to.text ELSE string[w])
  BY DEF IInv, Values, ToBool, Variables
<1>3. \A w \in Floats : float'[w] = float[w] /\ string'[w] = string[w]
  BY WordsAssumption DEF IInv, Values, ToBool, Variables
<1>4. InBounds'
  BY <1>3 DEF IInv, InBounds
<1>5. TextsRead'
  BY <1>2, <1>3 DEF IInv, TextsRead
<1> QED
  BY <1>1, <1>4, <1>5 DEF IInv

LEMMA NoVariableKeeps == IInv /\ NoVariable => IInv'
  BY DEF IInv, Values, InBounds, TextsRead, NoVariable

LEMMA FromStringKeeps ==
    ASSUME IInv, NEW v, NEW text, ValueFromString(v, text)
    PROVE  IInv'
<1>1. CASE v \in Floats /\ ToFloat(v, ReadNumber(v, text, [value |-> float[v], text |-> string[v]]))
  <2> DEFINE now == [value |-> float[v], text |-> string[v]]
  <2>1. Fits(v, now) /\ now.value \in Int \cup {NaN}
    BY <1>1 DEF IInv, Values, InBounds, TextsRead, Fits
  <2> HIDE DEF now
  <2>2. Fits(v, ReadNumber(v, text, now)) /\ ReadNumber(v, text, now).value \in Int \cup {NaN}
    BY <1>1, <2>1, ReadFits
  <2> QED
    BY <1>1, <2>2, ToFloatKeeps DEF now
<1>2. CASE v \in Booleans /\ ToBool(v, ReadTruth(text, [value |-> bool[v], text |-> string[v]]))
  <2> DEFINE now == [value |-> bool[v], text |-> string[v]]
  <2>1. Truth(now.text) = {now.value} /\ now.value \in BOOLEAN
    BY <1>2 DEF IInv, Values, TextsRead
  <2> HIDE DEF now
  <2>2. /\ Truth(ReadTruth(text, now).text) = {ReadTruth(text, now).value}
        /\ ReadTruth(text, now).value \in BOOLEAN
    BY <2>1, ReadTruthFits
  <2> QED
    BY <1>2, <2>2, ToBoolKeeps DEF now
<1> QED
  BY <1>1, <1>2 DEF ValueFromString

LEMMA InitIInv == Init => IInv
<1> SUFFICES ASSUME Init PROVE IInv
  OBVIOUS
<1>1. Values
  BY BoundsAssumption DEF Init, Values
<1>2. InBounds
  BY BoundsAssumption DEF Init, InBounds
<1>3. ASSUME NEW v \in Floats PROVE Number(string[v]) = {float[v]}
  <2>1. string[v] = <<TextOf[Default[v]]>> /\ float[v] = Default[v]
    BY DEF Init, Variables
  <2>2. Default[v] \in Panel \cup UNION {Bounds(w) : w \in Floats}
    BY DEF Bounds
  <2> QED
    BY <2>1, <2>2, WrittenReads
<1>4. ASSUME NEW v \in Booleans PROVE Truth(string[v]) = {bool[v]}
  <2>1. string[v] = <<"no">> /\ bool[v] = FALSE
    BY WordsAssumption DEF Init, Variables
  <2> QED
    BY <2>1, YesAndNo
<1> QED
  BY <1>1, <1>2, <1>3, <1>4 DEF IInv, TextsRead

LEMMA StepIInv == IInv /\ [Next]_vars => IInv'
<1> SUFFICES ASSUME IInv, [Next]_vars PROVE IInv'
  OBVIOUS
<1>1. CASE Enter
  BY <1>1, NoVariableKeeps DEF Enter, NoVariable
<1>2. CASE Return
  BY <1>2, NoVariableKeeps DEF Return, NoVariable
<1>3. CASE ExecuteInternal
  <2>1. NoVariable \/ \E v, text : ValueFromString(v, text)
    BY <1>3 DEF ExecuteInternal
  <2> QED
    BY <2>1, NoVariableKeeps, FromStringKeeps
<1>4. ASSUME NEW v \in Floats, NEW n \in Panel, SetNumber(v, n) PROVE IInv'
  <2>1. n \in Int /\ Number(<<TextOf[n]>>) = {n}
    BY WrittenReads
  <2>2. /\ Fits(v, Clamped(v, n, <<TextOf[n]>>))
        /\ Clamped(v, n, <<TextOf[n]>>).value \in Int \cup {NaN}
    BY <2>1, ClampedFits
  <2> QED
    BY <1>4, <2>2, NoVariableKeeps, ToFloatKeeps DEF SetNumber
<1>5. ASSUME NEW v \in Booleans, NEW b \in BOOLEAN, SetTruth(v, b) PROVE IInv'
  <2> DEFINE to == [value |-> b, text |-> <<IF b THEN "yes" ELSE "no">>]
  <2>1. Truth(to.text) = {to.value} /\ to.value \in BOOLEAN
    BY YesAndNo
  <2>2. NoVariable \/ ToBool(v, to)
    BY <1>5 DEF SetTruth
  <2> HIDE DEF to
  <2> QED
    BY <2>1, <2>2, NoVariableKeeps, ToBoolKeeps
<1>6. ASSUME NEW v, NEW text, LoadVariable(v, text) PROVE IInv'
  <2>1. CASE ValueFromString(v, text)
    BY <2>1, FromStringKeeps
  <2>2. CASE v \in Strings /\ string' = [string EXCEPT ![v] = text] /\ UNCHANGED <<float, bool>>
    <3>1. Values'
      BY <2>2 DEF IInv, Values, Variables
    <3>2. \A w \in Floats \cup Booleans : string'[w] = string[w]
      BY <2>2, WordsAssumption DEF IInv, Values, Variables
    <3> QED
      BY <2>2, <3>1, <3>2 DEF IInv, InBounds, TextsRead
  <2> QED
    BY <1>6, <2>1, <2>2 DEF LoadVariable
<1>7. CASE UNCHANGED vars
  BY <1>7, NoVariableKeeps DEF vars, NoVariable
<1> QED
  BY <1>1, <1>2, <1>3, <1>4, <1>5, <1>6, <1>7 DEF Next

-----------------------------------------------------------------------------
(* What every text is. *)

StringsTyped ==
    /\ \A v \in Floats \cup Booleans : string[v] \in Plain
    /\ \A v \in Strings : string[v] \in Texts

\* A word that is written has no quote in it.
LEMMA WordIsPlain ==
    ASSUME NEW w \in Words
    PROVE  <<w>> \in Plain
<1>1. w \in Symbols \ {Quote}
  BY WordsAssumption DEF Symbols
<1> QED
  BY <1>1 DEF Plain

LEMMA WrittenIsPlain ==
    /\ \A n \in Panel \cup UNION {Bounds(v) : v \in Floats} : <<TextOf[n]>> \in Plain
    /\ <<"yes">> \in Plain /\ <<"no">> \in Plain
<1>1. ASSUME NEW n \in Panel \cup UNION {Bounds(v) : v \in Floats} PROVE TextOf[n] \in Words
  BY NumbersAssumption DEF Bounds, Words
<1>2. "yes" \in Words /\ "no" \in Words
  BY TruthsAssumption DEF Words
<1> QED
  BY <1>1, <1>2, WordIsPlain

LEMMA ReadIsPlain ==
    ASSUME NEW v \in Floats, NEW text \in Plain, NEW now, now.text \in Plain
    PROVE  ReadNumber(v, text, now).text \in Plain
<1>1. <<TextOf[Lowest[v]]>> \in Plain /\ <<TextOf[Highest[v]]>> \in Plain
  BY WrittenIsPlain DEF Bounds
<1>2. ASSUME NEW n PROVE Clamped(v, n, text).text \in Plain
  BY <1>1 DEF Clamped, Written
<1> QED
  BY <1>2 DEF ReadNumber

LEMMA ReadTruthIsPlain ==
    ASSUME NEW text \in Plain, NEW now, now.text \in Plain
    PROVE  ReadTruth(text, now).text \in Plain
  BY DEF ReadTruth

\* A text without quotes is given to a variable that keeps such.
LEMMA SetTyped ==
    ASSUME Values, StringsTyped, NEW v \in Floats \cup Booleans, NEW text \in Plain,
           string' = [string EXCEPT ![v] = text]
    PROVE  StringsTyped'
<1>1. \A w \in Variables : string'[w] = IF w = v THEN text ELSE string[w]
  BY DEF Values
<1>2. \A w \in Floats \cup Booleans : string'[w] \in Plain
  BY <1>1 DEF StringsTyped, Variables
<1>3. \A w \in Strings : w # v /\ string'[w] = string[w]
  BY <1>1, WordsAssumption DEF Variables
<1>4. \A w \in Strings : string'[w] \in Texts
  BY <1>3 DEF StringsTyped
<1> QED
  BY <1>2, <1>4 DEF StringsTyped

LEMMA FromStringTyped ==
    ASSUME Values, StringsTyped, NEW v, NEW text \in Plain, ValueFromString(v, text)
    PROVE  StringsTyped'
<1>1. CASE v \in Floats /\ ToFloat(v, ReadNumber(v, text, [value |-> float[v], text |-> string[v]]))
  <2> DEFINE now == [value |-> float[v], text |-> string[v]]
  <2>1. now.text \in Plain
    BY <1>1 DEF StringsTyped
  <2> HIDE DEF now
  <2>2. ReadNumber(v, text, now).text \in Plain
    BY <1>1, <2>1, ReadIsPlain
  <2>3. string' = [string EXCEPT ![v] = ReadNumber(v, text, now).text]
    BY <1>1 DEF ToFloat, now
  <2> QED
    BY <1>1, <2>2, <2>3, SetTyped
<1>2. CASE v \in Booleans /\ ToBool(v, ReadTruth(text, [value |-> bool[v], text |-> string[v]]))
  <2> DEFINE now == [value |-> bool[v], text |-> string[v]]
  <2>1. now.text \in Plain
    BY <1>2 DEF StringsTyped
  <2> HIDE DEF now
  <2>2. ReadTruth(text, now).text \in Plain
    BY <2>1, ReadTruthIsPlain
  <2>3. string' = [string EXCEPT ![v] = ReadTruth(text, now).text]
    BY <1>2 DEF ToBool, now
  <2> QED
    BY <1>2, <2>2, <2>3, SetTyped
<1> QED
  BY <1>1, <1>2 DEF ValueFromString

LEMMA InitTyped == Init => StringsTyped
<1> SUFFICES ASSUME Init PROVE StringsTyped
  OBVIOUS
<1>1. ASSUME NEW v \in Floats PROVE string[v] \in Plain
  <2>1. string[v] = <<TextOf[Default[v]]>>
    BY DEF Init, Variables
  <2>2. Default[v] \in Panel \cup UNION {Bounds(w) : w \in Floats}
    BY DEF Bounds
  <2> QED
    BY <2>1, <2>2, WrittenIsPlain
<1>2. ASSUME NEW v \in Booleans PROVE string[v] \in Plain
  <2>1. string[v] = <<"no">>
    BY WordsAssumption DEF Init, Variables
  <2> QED
    BY <2>1, WrittenIsPlain
<1>3. ASSUME NEW v \in Strings PROVE string[v] \in Texts
  <2>1. string[v] = <<>>
    BY WordsAssumption DEF Init, Variables
  <2> QED
    BY <2>1, EmptySeq DEF Texts
<1> QED
  BY <1>1, <1>2, <1>3 DEF StringsTyped

-----------------------------------------------------------------------------
(* What the line is. *)

LineTyped == line \in Texts /\ pending \in Seq(Texts) /\ ran \in Seq(Effects)
LineInv == LineTyped /\ LineIs(line, pending, ran)

\* One command, whatever it is, does one thing at most.
LEMMA CommandTyped ==
    ASSUME LineTyped, ExecuteInternal
    PROVE  /\ Head(pending) \in Texts /\ Unquoted(After(2, Head(pending))) \in Plain
           /\ pending' = Tail(pending) /\ Tail(pending) \in Seq(Texts) /\ line' = line
           /\ ran' \in Seq(Effects)
<1> DEFINE command == Head(pending)
<1> DEFINE tokens == Tokens(command)
<1> DEFINE raw == Unquoted(After(2, command))
<1>1. command \in Texts /\ Tail(pending) \in Seq(Texts)
  BY HeadTailProperties DEF LineTyped, ExecuteInternal
<1>2. pending' = Tail(pending) /\ line' = line
  BY DEF ExecuteInternal
<1> HIDE DEF command
<1>3. tokens \in Seq(Texts) /\ After(2, command) \in Texts /\ raw \in Texts /\ raw \in Plain
  BY <1>1, TokensType, AfterType, UnquotedIs
<1>4. tokens # <<>> => tokens[1] \in Texts
  BY <1>3
<1>5. \/ ran' = ran
      \/ Ran("engine", <<After(2, command)>>)
      \/ Ran("command", tokens)
      \/ tokens # <<>> /\ Ran("set", <<tokens[1], raw>>)
  <2>1. Len(tokens) > 1 => tokens # <<>>
    BY <1>3
  <2> QED
    BY <2>1 DEF ExecuteInternal, Names, command
<1> HIDE DEF tokens, raw
<1>6. ASSUME NEW kind \in {"engine", "command", "set"}, NEW words \in Seq(Texts), Ran(kind, words)
      PROVE  ran' \in Seq(Effects)
  <2>1. [kind |-> kind, words |-> words] \in Effects
    BY DEF Effects
  <2> QED
    BY <1>6, <2>1, AppendProperties DEF Ran, LineTyped
<1>7. <<After(2, command)>> \in Seq(Texts)
  BY <1>3
<1>8. tokens # <<>> => <<tokens[1], raw>> \in Seq(Texts)
  BY <1>3, <1>4
<1>9. ran' \in Seq(Effects)
  BY <1>3, <1>5, <1>6, <1>7, <1>8 DEF LineTyped
<1> QED
  BY <1>1, <1>2, <1>3, <1>9 DEF command, raw

\* A proper command does what it means.
LEMMA CommandRuns ==
    ASSUME LineTyped, ExecuteInternal, NEW command, command = Head(pending), Proper(command)
    PROVE  ran' = ran \o Meaning(command)
<1> DEFINE tokens == Tokens(command)
<1> DEFINE words == WordsOf(command)
<1> DEFINE raw == Unquoted(After(2, command))
<1> DEFINE text == Unquoted(After(Len(Pieces(command, " ")[1]) + 1, command))
<1>1. command \in Texts /\ Closed(command)
  BY CommandTyped DEF Proper
<1>2. \/ ForEngine(command) /\ Ran("engine", <<After(2, command)>>)
      \/ ~ForEngine(command) /\ Names(tokens, Commands) /\ Ran("command", tokens)
      \/ /\ ~ForEngine(command) /\ ~Names(tokens, Commands) /\ Len(tokens) > 1
         /\ \E v \in Floats \cup Booleans : tokens[1] = <<v>> /\ Ran("set", <<tokens[1], raw>>)
      \/ /\ ~ForEngine(command) /\ ~Names(tokens, Commands)
         /\ Names(tokens, Floats \cup Booleans) => Len(tokens) = 1
         /\ UNCHANGED ran
  BY DEF ExecuteInternal
<1>3. Meaning(command) =
        IF ForEngine(command) THEN <<[kind |-> "engine", words |-> <<After(2, command)>>]>>
        ELSE IF Names(words, Commands) THEN <<[kind |-> "command", words |-> words]>>
        ELSE IF Names(words, Floats \cup Booleans) /\ Len(words) > 1
             THEN <<[kind |-> "set", words |-> <<words[1], text>>]>>
        ELSE <<>>
  BY DEF Meaning, WordsOf
<1>4. tokens = words \/ (tokens = <<>> /\ words = <<<<>>>>)
  BY <1>1, ClosedTokens
<1>5. ASSUME NEW v, words[1] = <<v>> PROVE raw = text
  <2>1. Pieces(command, " ")[1] = <<v>>
    BY <1>1, <1>5, NameIsPiece
  <2>2. Len(<<v>>) + 1 = 2
    OBVIOUS
  <2> QED
    BY <2>1, <2>2
<1>6. words \in Seq(Texts)
  BY <1>1, WordsAre
<1> HIDE DEF tokens, words, raw, text
<1>7. \A names : Names(tokens, names) <=> Names(words, names)
  <2>1. ASSUME NEW names PROVE ~Names(<<<<>>>>, names) /\ ~Names(<<>>, names)
    BY DEF Names
  <2> QED
    BY <1>4, <2>1
<1>8. Len(tokens) > 1 <=> Len(words) > 1
  <2>1. ~(Len(<<<<>>>>) > 1) /\ ~(Len(<<>>) > 1)
    OBVIOUS
  <2> QED
    BY <1>4, <2>1
<1>9. \A names : Names(words, names) => tokens = words
  BY <1>4 DEF Names
<1>10. \A kind, list : Ran(kind, list) => ran' = ran \o <<[kind |-> kind, words |-> list]>>
  <2> SUFFICES ASSUME NEW kind, NEW list, Ran(kind, list)
               PROVE  ran' = ran \o <<[kind |-> kind, words |-> list]>>
    OBVIOUS
  <2> DEFINE one == [kind |-> kind, words |-> list]
  <2>1. ran' = Append(ran, one)
    BY DEF Ran
  <2> HIDE DEF one
  <2>2. Append(ran, one) = ran \o <<one>>
    BY DEF LineTyped
  <2> QED
    BY <2>1, <2>2 DEF one
<1>11. CASE ForEngine(command)
  BY <1>2, <1>3, <1>10, <1>11
<1>12. CASE ~ForEngine(command) /\ Names(words, Commands)
  BY <1>2, <1>3, <1>7, <1>9, <1>10, <1>12
<1>13. CASE /\ ~ForEngine(command) /\ ~Names(words, Commands)
            /\ Names(words, Floats \cup Booleans) /\ Len(words) > 1
  <2>1. PICK v : words[1] = <<v>>
    BY <1>13 DEF Names
  <2>2. tokens = words /\ raw = text
    BY <1>5, <1>9, <1>13, <2>1
  <2>3. ~(Len(words) = 1)
    <3> DEFINE count == Len(words)
    <3>1. count \in Nat /\ count > 1
      BY <1>6, <1>13, LenProperties
    <3> HIDE DEF count
    <3>2. count # 1
      BY <3>1
    <3> QED
      BY <3>2 DEF count
  <2>4. Ran("set", <<tokens[1], raw>>)
    BY <1>2, <1>7, <1>13, <2>2, <2>3
  <2>5. ran' = ran \o <<[kind |-> "set", words |-> <<words[1], text>>]>>
    BY <1>10, <2>2, <2>4
  <2> QED
    BY <1>3, <1>13, <2>5
<1>14. CASE /\ ~ForEngine(command) /\ ~Names(words, Commands)
            /\ ~(Names(words, Floats \cup Booleans) /\ Len(words) > 1)
  <2>1. ~(Len(tokens) > 1 /\ \E v \in Floats \cup Booleans : tokens[1] = <<v>>)
    <3> SUFFICES ASSUME Len(tokens) > 1, NEW v \in Floats \cup Booleans, tokens[1] = <<v>>
                 PROVE  FALSE
      OBVIOUS
    <3>1. tokens # <<>>
      OBVIOUS
    <3>2. Names(tokens, Floats \cup Booleans)
      BY <3>1 DEF Names
    <3> QED
      BY <1>7, <1>8, <1>14, <3>2
  <2>2. ran' = ran
    BY <1>2, <1>7, <1>14, <2>1
  <2>3. ran \o <<>> = ran
    BY ConcatEmptySeq DEF LineTyped
  <2> QED
    BY <1>3, <1>14, <2>2, <2>3
<1> QED
  BY <1>11, <1>12, <1>13, <1>14

\* Every command of a well-formed line is such a command.
LEMMA PartsWellFormed ==
    ASSUME NEW s \in Texts, s # <<>>, WellFormed(s), NEW part \in ToSet(Parts(s))
    PROVE  Proper(part)
<1>1. Closed(s)
  BY DEF WellFormed, Closed
<1>2. Closed(part)
  BY <1>1, PartQuotes
<1>3. Unmarked(Pieces(part, " ")[1])
  BY DEF WellFormed, Unmarked
<1> QED
  BY <1>2, <1>3 DEF Proper

LEMMA InitLine == Init => LineInv
<1> SUFFICES ASSUME Init PROVE LineInv
  OBVIOUS
<1>1. line = <<>> /\ pending = <<>> /\ ran = <<>>
  BY DEF Init
<1>2. LineTyped
  BY <1>1, EmptySeq DEF LineTyped, Texts
<1> QED
  BY <1>1, <1>2, LineLeaves DEF LineInv

LEMMA StepLine == LineInv /\ [Next]_vars => LineInv'
<1> SUFFICES ASSUME LineInv, [Next]_vars PROVE LineInv'
  OBVIOUS
<1> USE DEF LineInv
<1>1. CASE Enter
  <2>1. line = <<>> /\ ran = <<>> /\ ran' = <<>>
    BY <1>1 DEF Enter, LineIs
  <2>2. PICK s \in Lines : line' = s /\ pending' = IF s = <<" ">> THEN <<>> ELSE Split(s)
    BY <1>1 DEF Enter
  <2>3. s \in Texts /\ s # <<>>
    BY WordsAssumption DEF Texts
  <2>4. pending' \in Seq(Texts) /\ LineIs(s, pending', <<>>)
    BY <2>2, <2>3, LineEnters
  <2> QED
    BY <2>1, <2>2, <2>3, <2>4, EmptySeq DEF LineTyped
<1>2. CASE Return
  <2>1. line' = <<>> /\ ran' = <<>> /\ pending' = <<>>
    BY <1>2 DEF Return
  <2>2. LineTyped'
    BY <2>1, EmptySeq DEF LineTyped, Texts
  <2> QED
    BY <2>1, <2>2, LineLeaves
<1>3. CASE ExecuteInternal
  <2>1. pending # <<>> /\ LineTyped /\ LineIs(line, pending, ran) /\ line \in Texts
    BY <1>3 DEF ExecuteInternal, LineTyped
  <2>2. /\ pending' = Tail(pending) /\ Tail(pending) \in Seq(Texts)
        /\ line' = line /\ ran' \in Seq(Effects)
    BY <1>3, CommandTyped
  <2>3. line # <<>> /\ Head(pending) \in ToSet(Parts(line))
    BY <2>1, LineNext
  <2>4. WellFormed(line) => ran' = ran \o Meaning(Head(pending))
    BY <1>3, <2>1, <2>3, PartsWellFormed, CommandRuns
  <2>5. LineIs(line, Tail(pending), ran')
    BY <2>1, <2>4, LineGoesOn
  <2> QED
    BY <2>1, <2>2, <2>5 DEF LineTyped
<1>4. CASE UNCHANGED <<line, pending, ran>>
  BY <1>4 DEF LineTyped
<1> QED
  BY <1>1, <1>2, <1>3, <1>4 DEF Next, SetNumber, SetTruth, LoadVariable, vars

LEMMA StepTyped ==
    Values /\ StringsTyped /\ LineTyped /\ [Next]_vars => StringsTyped'
<1> SUFFICES ASSUME Values, StringsTyped, LineTyped, [Next]_vars PROVE StringsTyped'
  OBVIOUS
<1>1. CASE UNCHANGED string
  BY <1>1 DEF StringsTyped
<1>2. CASE ExecuteInternal
  <2>1. UNCHANGED string \/ \E v : ValueFromString(v, Unquoted(After(2, Head(pending))))
    BY <1>2 DEF ExecuteInternal, NoVariable
  <2>2. Unquoted(After(2, Head(pending))) \in Plain
    BY <1>2, CommandTyped
  <2> QED
    BY <1>1, <2>1, <2>2, FromStringTyped
<1>3. ASSUME NEW v \in Floats, NEW n \in Panel, SetNumber(v, n) PROVE StringsTyped'
  <2>1. /\ <<TextOf[n]>> \in Plain
        /\ <<TextOf[Lowest[v]]>> \in Plain /\ <<TextOf[Highest[v]]>> \in Plain
    BY WrittenIsPlain DEF Bounds
  <2>2. Clamped(v, n, <<TextOf[n]>>).text \in Plain
    BY <2>1 DEF Clamped, Written
  <2>3. UNCHANGED string \/ string' = [string EXCEPT ![v] = Clamped(v, n, <<TextOf[n]>>).text]
    BY <1>3 DEF SetNumber, NoVariable, ToFloat
  <2> QED
    BY <1>1, <2>2, <2>3, SetTyped
<1>4. ASSUME NEW v \in Booleans, NEW b \in BOOLEAN, SetTruth(v, b) PROVE StringsTyped'
  <2> DEFINE text == <<IF b THEN "yes" ELSE "no">>
  <2>1. text \in Plain
    BY WrittenIsPlain
  <2>2. UNCHANGED string \/ string' = [string EXCEPT ![v] = text]
    BY <1>4 DEF SetTruth, NoVariable, ToBool
  <2> HIDE DEF text
  <2> QED
    BY <1>1, <2>1, <2>2, SetTyped
<1>5. ASSUME NEW entry \in Stored, LoadVariable(entry[1], entry[2]) PROVE StringsTyped'
  <2>1. CASE entry[1] \in Floats \cup Booleans /\ entry[2] \in Plain
    <3>1. ValueFromString(entry[1], entry[2])
      BY <1>5, <2>1, WordsAssumption DEF LoadVariable
    <3> QED
      BY <2>1, <3>1, FromStringTyped
  <2>2. CASE entry[1] \in Strings /\ entry[2] \in Texts
    <3>1. string' = [string EXCEPT ![entry[1]] = entry[2]]
      BY <1>5, <2>2, WordsAssumption DEF LoadVariable, ValueFromString
    <3>2. \A w \in Variables : string'[w] = IF w = entry[1] THEN entry[2] ELSE string[w]
      BY <3>1 DEF Values
    <3>3. \A w \in Floats \cup Booleans : w # entry[1] /\ string'[w] = string[w]
      BY <2>2, <3>2, WordsAssumption DEF Variables
    <3>4. \A w \in Strings : string'[w] \in Texts
      BY <2>2, <3>2 DEF StringsTyped, Variables
    <3> QED
      BY <3>3, <3>4 DEF StringsTyped
  <2> QED
    BY <2>1, <2>2, StoredAssumption DEF Plain, Texts
<1> QED
  BY <1>1, <1>2, <1>3, <1>4, <1>5 DEF Next, Enter, Return, vars

-----------------------------------------------------------------------------
(* What a command may set. *)

\* A token that names a variable is the beginning of the command, quotes apart.
LEMMA NameBegins ==
    ASSUME NEW c \in Texts, NEW v, Tokens(c) # <<>>, Tokens(c)[1] = <<v>>
    PROVE  \E m \in 1..Len(c) : c[m] = v /\ \A j \in 1..(m - 1) : c[j] = Quote
<1> DEFINE n == Len(c)
<1> DEFINE first == Tokens(c)[1]
<1>1. n \in Nat
  BY LenProperties DEF Texts
<1>2. first = <<v>>
  OBVIOUS
<1>3. PICK b \in 0..n : first = Unquoted(SubSeq(c, 1, b))
  BY FirstToken
<1> HIDE DEF first
<1> DEFINE name == SubSeq(c, 1, b)
<1>4. /\ 1 \in 1..(n + 1) /\ b \in (1 - 1)..n /\ b - 1 + 1 = b
      /\ \A i \in 1..b : 1 + i - 1 = i /\ i \in 1..n
  <2> HIDE DEF n
  <2> QED
    BY <1>1
<1>5. name \in Texts /\ Len(name) = b /\ \A i \in 1..b : name[i] = c[i]
  <2>1. /\ name \in Texts /\ Len(name) = b - 1 + 1
        /\ \A i \in 1..(b - 1 + 1) : name[i] = c[1 + i - 1]
    BY <1>4, Piece DEF Texts
  <2> HIDE DEF n, name
  <2> QED
    BY <1>4, <2>1
<1> HIDE DEF name
<1>6. Unquoted(name) = <<v>>
  BY <1>2, <1>3 DEF name
<1>7. PICK m \in 1..Len(name) : name[m] = v /\ \A j \in 1..(m - 1) : name[j] = Quote
  BY <1>5, <1>6, UnquotedSingle
<1>8. m \in 1..b /\ \A j \in 1..(m - 1) : j \in 1..b
  <2>1. m \in 1..b /\ b \in Nat
    BY <1>1, <1>5
  <2> HIDE DEF n
  <2> QED
    BY <2>1
<1>9. m \in 1..n /\ c[m] = v /\ \A j \in 1..(m - 1) : c[j] = Quote
  BY <1>4, <1>5, <1>7, <1>8
<1> QED
  BY <1>9

\* So a part that names a variable is where the line has the name after a cut.
LEMMA PartBegins ==
    ASSUME NEW v, line \in Texts, line # <<>>, NEW c \in ToSet(Parts(line)), c \in Texts,
           Tokens(c) # <<>>, Tokens(c)[1] = <<v>>
    PROVE  BeginsCommand(v)
<1> DEFINE n == Len(line)
<1>1. PICK m \in 1..Len(c) : c[m] = v /\ \A j \in 1..(m - 1) : c[j] = Quote
  BY NameBegins
<1>2. n \in Nat /\ DOMAIN line = 1..n
  BY LenProperties DEF Texts
<1>3. PICK a \in 0..n, p \in 0..n : \E q \in p..n :
        /\ c = SubSeq(line, p + 1, q) /\ a \in {0} \cup Cuts(line, ";")
        /\ a \in 0..p /\ \A j \in (a + 1)..p : line[j] = " "
  BY PartIs
<1>4. PICK q \in p..n : /\ c = SubSeq(line, p + 1, q) /\ a \in {0} \cup Cuts(line, ";")
                        /\ a \in 0..p /\ \A j \in (a + 1)..p : line[j] = " "
  BY <1>3
<1> DEFINE len == Len(c)
<1>5. p + 1 \in 1..(n + 1) /\ q \in ((p + 1) - 1)..n /\ q - (p + 1) + 1 = q - p
  <2>1. n \in Nat
    BY <1>2
  <2> HIDE DEF n
  <2> QED
    BY <2>1
<1>6. len = q - p /\ \A i \in 1..(q - p) : c[i] = line[(p + 1) + i - 1]
  <2>1. /\ Len(SubSeq(line, p + 1, q)) = q - (p + 1) + 1
        /\ \A i \in 1..(q - (p + 1) + 1) : SubSeq(line, p + 1, q)[i] = line[(p + 1) + i - 1]
    BY <1>5, Piece DEF Texts
  <2> QED
    BY <1>4, <1>5, <2>1
<1> HIDE DEF n, len
<1>7. m \in 1..(q - p)
  BY <1>6 DEF len
<1> DEFINE k == p + m
<1>8. /\ k \in 1..n /\ (p + 1) + m - 1 = k /\ a < k
      /\ \A j \in (a + 1)..(k - 1) :
            \/ j \in (a + 1)..p
            \/ (j - p \in 1..(m - 1) /\ j - p \in 1..(q - p) /\ (p + 1) + (j - p) - 1 = j)
  <2>1. n \in Nat /\ a \in 0..p /\ p \in 0..n /\ q \in p..n
    BY <1>2, <1>4
  <2> QED
    BY <1>7, <2>1
<1> HIDE DEF k
<1>9. line[k] = v
  BY <1>1, <1>6, <1>7, <1>8
<1>10. ASSUME NEW j \in (a + 1)..(k - 1) PROVE line[j] \in {" ", Quote}
  BY <1>1, <1>4, <1>6, <1>8
<1> QED
  BY <1>2, <1>4, <1>8, <1>9, <1>10 DEF BeginsCommand

\* A step sets a variable only where its name begins a command of the line.
LEMMA StepProtects ==
    Values /\ LineInv /\ [Next]_vars =>
        (line # <<>> => \A v \in Variables : string'[v] # string[v] => BeginsCommand(v))
<1> SUFFICES ASSUME Values, LineInv, [Next]_vars, line # <<>>,
                    NEW v \in Variables, string'[v] # string[v]
             PROVE  BeginsCommand(v)
  OBVIOUS
<1>1. ExecuteInternal
  BY DEF Next, Enter, Return, SetNumber, SetTruth, LoadVariable, vars
<1> DEFINE c == Head(pending)
<1>2. pending # <<>> /\ LineTyped /\ line \in Texts /\ LineIs(line, pending, ran)
  BY <1>1 DEF ExecuteInternal, LineInv, LineTyped
<1>3. c \in Texts
  BY <1>1, <1>2, CommandTyped
<1>4. c \in ToSet(Parts(line))
  BY <1>2, LineNext
<1>5. PICK w \in Floats \cup Booleans : /\ Len(Tokens(c)) > 1 /\ Tokens(c)[1] = <<w>>
                                        /\ \E text : ValueFromString(w, text)
  BY <1>1 DEF ExecuteInternal, NoVariable
<1>6. w = v
  BY <1>5 DEF ValueFromString, ToFloat, ToBool, Values, Variables
<1> HIDE DEF c
<1>7. Tokens(c) # <<>>
  <2>1. ~(Len(<<>>) > 1)
    OBVIOUS
  <2>2. Len(Tokens(c)) > 1
    BY <1>5
  <2> QED
    BY <2>1, <2>2
<1> QED
  BY <1>2, <1>3, <1>4, <1>5, <1>6, <1>7, PartBegins

-----------------------------------------------------------------------------
(* The theorems. *)

\* Values, bounds and texts, whatever is entered, set or loaded.
THEOREM Invariance == Spec => []IInv
  BY InitIInv, StepIInv, PTL DEF Spec

\* Every bounded variable stays in its bounds, "nan" apart.
THEOREM StaysInBounds == Spec => []InBounds
<1>1. IInv => InBounds
  BY DEF IInv
<1> QED
  BY <1>1, Invariance, PTL

\* The text of a variable, which is what is saved, restores its value.
THEOREM SavedRestores == Spec => []TextRestores
<1>1. IInv => TextRestores
  <2> SUFFICES ASSUME IInv PROVE TextRestores
    OBVIOUS
  <2>1. ASSUME NEW v \in Floats
        PROVE  ReadNumber(v, string[v], Fresh(v)) = [value |-> float[v], text |-> string[v]]
    <3>1. Number(string[v]) = {float[v]}
      BY DEF IInv, TextsRead
    <3>2. Number(<<TextOf[Default[v]]>>) = {Default[v]}
      <4>1. Default[v] \in Panel \cup UNION {Bounds(w) : w \in Floats}
        BY DEF Bounds
      <4> QED
        BY <4>1, WrittenReads
    <3>3. CASE string[v] = <<TextOf[Default[v]]>>
      <4>1. float[v] = Default[v]
        BY <3>1, <3>2, <3>3
      <4> QED
        BY <3>3, <4>1 DEF ReadNumber, Fresh, Written
    <3>4. CASE string[v] # <<TextOf[Default[v]]>>
      <4>1. (CHOOSE n \in Number(string[v]) : TRUE) = float[v]
        BY <3>1
      <4>2. ReadNumber(v, string[v], Fresh(v)) = Clamped(v, float[v], string[v])
        BY <3>1, <3>4, <4>1 DEF ReadNumber, Fresh, Written
      <4>3. Clamped(v, float[v], string[v]) = [value |-> float[v], text |-> string[v]]
        BY BoundsAssumption DEF IInv, InBounds, Clamped
      <4> QED
        BY <4>2, <4>3
    <3> QED
      BY <3>3, <3>4
  <2>2. ASSUME NEW v \in Booleans
        PROVE  ReadTruth(string[v], [value |-> FALSE, text |-> <<"no">>]).value = bool[v]
    <3>1. Truth(string[v]) = {bool[v]}
      BY DEF IInv, TextsRead
    <3>2. CASE string[v] = <<"no">>
      BY <3>1, <3>2, YesAndNo DEF ReadTruth
    <3>3. CASE string[v] # <<"no">>
      <4>1. (CHOOSE b \in Truth(string[v]) : TRUE) = bool[v]
        BY <3>1
      <4> QED
        BY <3>1, <3>3, <4>1 DEF ReadTruth
    <3> QED
      BY <3>2, <3>3
  <2> QED
    BY <2>1, <2>2 DEF TextRestores
<1> QED
  BY <1>1, Invariance, PTL

\* All of it together: values, texts, the line and what has been run of it.
FullInv == IInv /\ StringsTyped /\ LineInv

\* While a line runs, what has been run is what the commands it is past say, and what is
\* pending are the others; the values and texts fit meanwhile.
THEOREM FullInvariance == Spec => []FullInv
<1>1. Init => FullInv
  BY InitIInv, InitTyped, InitLine DEF FullInv
<1>2. FullInv /\ [Next]_vars => FullInv'
  BY StepIInv, StepTyped, StepLine DEF FullInv, IInv, LineInv
<1> QED
  BY <1>1, <1>2, PTL DEF Spec

\* Every text that is kept is one of symbols, and without quotes where it is a number's
\* or a truth value's; so is every line, and every command that is cut out of it.
THEOREM TypeCorrect == Spec => []TypeOK
<1>1. FullInv => TypeOK
  BY DEF FullInv, IInv, Values, StringsTyped, LineInv, LineTyped, TypeOK, Plain, Texts
<1> QED
  BY <1>1, FullInvariance, PTL

\* A well-formed line of any length runs its commands once each, in their order, with
\* the arguments that were written.
THEOREM RunsWhatItSays == Spec => []LineRuns
<1>1. FullInv => LineRuns
  <2> SUFFICES ASSUME FullInv, pending = <<>>, line # <<>>, line # <<" ">>, WellFormed(line)
               PROVE  LET parts == Parts(line)
                      IN  ran = FlattenSeq([k \in DOMAIN parts |-> Meaning(parts[k])])
    BY DEF LineRuns
  <2>1. line \in Texts /\ LineIs(line, <<>>, ran)
    BY DEF FullInv, LineInv, LineTyped
  <2> QED
    BY <2>1, LineEnds
<1> QED
  BY <1>1, FullInvariance, PTL

\* No argument, quoted or not, and no unclosed quote makes a line set a variable that it
\* does not name where a command begins.
THEOREM QuotesAreKept == Spec => QuotesProtect
<1>1. FullInv /\ [Next]_vars =>
          [line # <<>> => \A v \in Variables : string'[v] # string[v] => BeginsCommand(v)]_vars
  BY StepProtects DEF FullInv, IInv
<1> QED
  BY <1>1, FullInvariance, PTL DEF Spec, QuotesProtect

=============================================================================
