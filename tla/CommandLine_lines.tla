-------------------------- MODULE CommandLine_lines ---------------------------
(***************************************************************************)
(* Lemmas about how CommandLine takes a line apart, for every line: what   *)
(* the loops of execute_command and tokenize_command find, against the     *)
(* places of the quotes, the semicolons and the spaces.                    *)
(***************************************************************************)
EXTENDS CommandLine, SequenceLemmas, FiniteSetTheorems

Texts == Seq(Symbols)
SplitStates == [quotes : BOOLEAN, current : Texts, commands : Seq(Texts)]
TokenStates == [quotes : BOOLEAN, token : Texts, tokens : Seq(Texts)]

-----------------------------------------------------------------------------
(* The loops end, in states of these types. *)

LEMMA Smallest ==
    ASSUME NEW S, S \subseteq Nat, S # {}
    PROVE  Min(S) \in S /\ \A i \in S : Min(S) <= i
<1> DEFINE R == OpToRel(<, Nat)
<1>1. \A i, j \in Nat : i < j => <<i, j>> \in R
  BY DEF OpToRel
<1>2. IsWellFoundedOn(R, Nat)
  BY NatLessThanWellFounded
<1> HIDE DEF R
<1>3. PICK m \in S : \A i \in S : ~(<<i, m>> \in R)
  BY <1>2, WFMin
<1>4. ASSUME NEW i \in S PROVE m <= i
  <2>1. m \in Nat /\ i \in Nat
    OBVIOUS
  <2>2. ~(i < m)
    BY <1>1, <1>3, <2>1
  <2> QED
    BY <2>1, <2>2
<1> QED
  BY <1>4 DEF Min

\* Leading spaces are taken off.
LEMMA LTrimIs ==
    ASSUME NEW s \in Texts
    PROVE  \E t \in 0..Len(s) : /\ LTrim(s) = SubSeq(s, t + 1, Len(s))
                               /\ \A j \in 1..t : s[j] = " "
<1> DEFINE n == Len(s)
<1> DEFINE words == {i \in 1..n : s[i] # " "}
<1>1. LTrim(s) = IF words = {} THEN <<>> ELSE SubSeq(s, Min(words), n)
  BY DEF LTrim
<1>2. n \in Nat
  BY LenProperties DEF Texts
<1>3. \A i \in 1..n : i \notin words => s[i] = " "
  OBVIOUS
<1>4. words \subseteq 1..n
  OBVIOUS
<1> HIDE DEF n, words
<1>5. CASE words = {}
  <2>1. SubSeq(s, n + 1, n) = <<>>
    BY <1>2, SubSeqEmpty
  <2>2. n \in 0..n
    BY <1>2
  <2>3. LTrim(s) = SubSeq(s, n + 1, n)
    BY <1>1, <1>5, <2>1
  <2>4. \A j \in 1..n : s[j] = " "
    BY <1>3, <1>5
  <2> QED
    BY <2>2, <2>3, <2>4 DEF n
<1>6. CASE words # {}
  <2> DEFINE first == Min(words)
  <2>1. words \subseteq Nat
    BY <1>2, <1>4
  <2>2. first \in words /\ \A i \in words : first <= i
    BY <1>6, <2>1, Smallest
  <2> HIDE DEF first
  <2>3. first \in 1..n /\ first - 1 \in 0..n /\ (first - 1) + 1 = first
    BY <1>2, <1>4, <2>2
  <2>4. ASSUME NEW j \in 1..(first - 1) PROVE s[j] = " "
    <3>1. j \in 1..n /\ ~(first <= j)
      BY <1>2, <2>3
    <3> QED
      BY <1>3, <2>2, <3>1
  <2>5. LTrim(s) = SubSeq(s, (first - 1) + 1, n)
    BY <1>1, <1>6, <2>3 DEF first
  <2> QED
    BY <2>3, <2>4, <2>5 DEF n
<1> QED
  BY <1>5, <1>6

LEMMA LTrimType == ASSUME NEW s \in Texts PROVE LTrim(s) \in Texts
<1>1. PICK t \in 0..Len(s) : LTrim(s) = SubSeq(s, t + 1, Len(s))
  BY LTrimIs
<1>2. Len(s) \in Nat
  BY LenProperties DEF Texts
<1> QED
  BY <1>1, <1>2, Piece DEF Texts

LEMMA SplitStepType ==
    ASSUME NEW s \in Texts, NEW i \in 1..Len(s), NEW at \in SplitStates
    PROVE  SplitStep(s, i, at) \in SplitStates
<1> DEFINE current == Append(at.current, s[i])
<1>1. s[i] \in Symbols /\ at.current \in Texts /\ at.commands \in Seq(Texts)
  BY DEF SplitStates, Texts
<1>2. current \in Texts
  BY <1>1, AppendProperties DEF Texts
<1>3. LTrim(current) \in Texts /\ LTrim(at.current) \in Texts
  BY <1>1, <1>2, LTrimType
<1> HIDE DEF current
<1>4. /\ Append(at.commands, LTrim(current)) \in Seq(Texts)
      /\ Append(at.commands, LTrim(at.current)) \in Seq(Texts)
  BY <1>1, <1>3, AppendProperties
<1>5. <<>> \in Texts
  BY DEF Texts
<1> QED
  BY <1>1, <1>2, <1>3, <1>4, <1>5 DEF SplitStep, SplitStates, current

\* The loop of execute_command ends.
LEMMA SplittingIs ==
    ASSUME NEW s \in Texts
    PROVE  /\ Splitting(s) \in [0..Len(s) -> SplitStates]
           /\ Splitting(s)[0] = [quotes |-> FALSE, current |-> <<>>, commands |-> <<>>]
           /\ \A i \in 1..Len(s) : Splitting(s)[i] = SplitStep(s, i, Splitting(s)[i - 1])
<1> DEFINE n == Len(s)
<1> DEFINE start == [quotes |-> FALSE, current |-> <<>>, commands |-> <<>>]
<1> DEFINE step == [p \in (1..n) \X SplitStates |-> SplitStep(s, p[1], p[2])]
<1> DEFINE Is(at) == at = [i \in 0..n |-> IF i = 0 THEN start ELSE SplitStep(s, i, at[i - 1])]
<1>1. n \in Nat
  BY DEF Texts
<1>2. start \in SplitStates
  BY DEF SplitStates, Texts
<1>3. ASSUME NEW i \in 1..n, NEW a \in SplitStates
      PROVE  step[<<i, a>>] = SplitStep(s, i, a) /\ step[<<i, a>>] \in SplitStates
  BY SplitStepType
<1>4. PICK at : LoopStates(n, SplitStates, start, step, at)
  <2>1. Steps(n, SplitStates, step)
    BY <1>3 DEF Steps
  <2> HIDE DEF n, start, step
  <2> QED
    BY <1>1, <1>2, <2>1, Loop
<1>5. Is(at)
  <2>1. ASSUME NEW i \in 0..n
        PROVE  at[i] = IF i = 0 THEN start ELSE SplitStep(s, i, at[i - 1])
    <3> HIDE DEF n, start, step
    <3>1. i # 0 => i - 1 \in 0..n /\ i \in 1..n
      BY <1>1
    <3> QED
      BY <1>3, <1>4, <3>1 DEF LoopStates
  <2> HIDE DEF n, start, step
  <2>2. at \in [0..n -> SplitStates]
    BY <1>4 DEF LoopStates
  <2> QED
    BY <2>1, <2>2
<1> DEFINE f == Splitting(s)
<1>6. f = CHOOSE g : Is(g)
  BY DEF Splitting
<1>7. Is(f)
  <2> HIDE DEF Is, f
  <2> QED
    BY <1>5, <1>6
<1> HIDE DEF n, start, step, f
<1>8. f[0] = start /\ \A i \in 1..n : f[i] = SplitStep(s, i, f[i - 1])
  BY <1>1, <1>7
<1>9. f \in [0..n -> SplitStates]
  <2> DEFINE S == {i \in 0..n : f[i] \in SplitStates}
  <2>1. ASSUME NEW i \in 0..(n - 1), i \in S PROVE i + 1 \in S
    <3>1. i + 1 \in 1..n /\ i + 1 \in 0..n /\ (i + 1) - 1 = i
      BY <1>1
    <3> QED
      BY <1>8, <2>1, <3>1, SplitStepType DEF n
  <2>2. 0 \in S
    BY <1>1, <1>2, <1>8
  <2>3. 0..n \subseteq S
    <3> HIDE DEF S
    <3> QED
      BY <1>1, <2>1, <2>2, InductionTo
  <2>4. f = [i \in 0..n |-> f[i]]
    BY <1>7
  <2> QED
    BY <2>3, <2>4
<1> QED
  BY <1>8, <1>9 DEF f, n, start

LEMMA TokenStepType ==
    ASSUME NEW c \in Texts, NEW i \in 1..Len(c), NEW at \in TokenStates
    PROVE  TokenStep(c, i, at) \in TokenStates
<1> DEFINE token == Append(at.token, c[i])
<1>1. c[i] \in Symbols /\ at.token \in Texts /\ at.tokens \in Seq(Texts) /\ at.quotes \in BOOLEAN
  BY DEF TokenStates, Texts
<1>2. token \in Texts
  BY <1>1, AppendProperties DEF Texts
<1> HIDE DEF token
<1>3. Append(at.tokens, token) \in Seq(Texts) /\ Append(at.tokens, at.token) \in Seq(Texts)
  BY <1>1, <1>2, AppendProperties
<1>4. <<>> \in Texts
  BY DEF Texts
<1> QED
  BY <1>1, <1>2, <1>3, <1>4 DEF TokenStep, TokenStates, token

\* The loop of tokenize_command ends.
LEMMA TokenizingIs ==
    ASSUME NEW c \in Texts
    PROVE  /\ Tokenizing(c) \in [0..Len(c) -> TokenStates]
           /\ Tokenizing(c)[0] = [quotes |-> FALSE, token |-> <<>>, tokens |-> <<>>]
           /\ \A i \in 1..Len(c) : Tokenizing(c)[i] = TokenStep(c, i, Tokenizing(c)[i - 1])
<1> DEFINE n == Len(c)
<1> DEFINE start == [quotes |-> FALSE, token |-> <<>>, tokens |-> <<>>]
<1> DEFINE step == [p \in (1..n) \X TokenStates |-> TokenStep(c, p[1], p[2])]
<1> DEFINE Is(at) == at = [i \in 0..n |-> IF i = 0 THEN start ELSE TokenStep(c, i, at[i - 1])]
<1>1. n \in Nat
  BY DEF Texts
<1>2. start \in TokenStates
  BY DEF TokenStates, Texts
<1>3. ASSUME NEW i \in 1..n, NEW a \in TokenStates
      PROVE  step[<<i, a>>] = TokenStep(c, i, a) /\ step[<<i, a>>] \in TokenStates
  BY TokenStepType
<1>4. PICK at : LoopStates(n, TokenStates, start, step, at)
  <2>1. Steps(n, TokenStates, step)
    BY <1>3 DEF Steps
  <2> HIDE DEF n, start, step
  <2> QED
    BY <1>1, <1>2, <2>1, Loop
<1>5. Is(at)
  <2>1. ASSUME NEW i \in 0..n
        PROVE  at[i] = IF i = 0 THEN start ELSE TokenStep(c, i, at[i - 1])
    <3> HIDE DEF n, start, step
    <3>1. i # 0 => i - 1 \in 0..n /\ i \in 1..n
      BY <1>1
    <3> QED
      BY <1>3, <1>4, <3>1 DEF LoopStates
  <2> HIDE DEF n, start, step
  <2>2. at \in [0..n -> TokenStates]
    BY <1>4 DEF LoopStates
  <2> QED
    BY <2>1, <2>2
<1> DEFINE f == Tokenizing(c)
<1>6. f = CHOOSE g : Is(g)
  BY DEF Tokenizing
<1>7. Is(f)
  <2> HIDE DEF Is, f
  <2> QED
    BY <1>5, <1>6
<1> HIDE DEF n, start, step, f
<1>8. f[0] = start /\ \A i \in 1..n : f[i] = TokenStep(c, i, f[i - 1])
  BY <1>1, <1>7
<1>9. f \in [0..n -> TokenStates]
  <2> DEFINE S == {i \in 0..n : f[i] \in TokenStates}
  <2>1. ASSUME NEW i \in 0..(n - 1), i \in S PROVE i + 1 \in S
    <3>1. i + 1 \in 1..n /\ i + 1 \in 0..n /\ (i + 1) - 1 = i
      BY <1>1
    <3> QED
      BY <1>8, <2>1, <3>1, TokenStepType DEF n
  <2>2. 0 \in S
    BY <1>1, <1>2, <1>8
  <2>3. 0..n \subseteq S
    <3> HIDE DEF S
    <3> QED
      BY <1>1, <2>1, <2>2, InductionTo
  <2>4. f = [i \in 0..n |-> f[i]]
    BY <1>7
  <2> QED
    BY <2>3, <2>4
<1> QED
  BY <1>8, <1>9 DEF f, n, start

\* Erasing quotes, symbol by symbol.
Plain == Seq(Symbols \ {Quote})
KeepStep(s, i, kept) == IF s[i] = Quote THEN kept ELSE Append(kept, s[i])
Keeping(s) ==
    LET kept[i \in 0..Len(s)] == IF i = 0 THEN <<>> ELSE KeepStep(s, i, kept[i - 1])
    IN kept

LEMMA KeepStepType ==
    ASSUME NEW s \in Texts, NEW i \in 1..Len(s), NEW kept \in Plain
    PROVE  KeepStep(s, i, kept) \in Plain
<1>1. s[i] \in Symbols
  BY DEF Texts
<1> QED
  BY <1>1, AppendProperties DEF KeepStep, Plain

\* That loop ends, too.
LEMMA KeepingIs ==
    ASSUME NEW s \in Texts
    PROVE  /\ Keeping(s) \in [0..Len(s) -> Plain]
           /\ Keeping(s)[0] = <<>>
           /\ \A i \in 1..Len(s) : Keeping(s)[i] = KeepStep(s, i, Keeping(s)[i - 1])
<1> DEFINE n == Len(s)
<1> DEFINE start == <<>>
<1> DEFINE step == [p \in (1..n) \X Plain |-> KeepStep(s, p[1], p[2])]
<1> DEFINE Is(at) == at = [i \in 0..n |-> IF i = 0 THEN start ELSE KeepStep(s, i, at[i - 1])]
<1>1. n \in Nat
  BY DEF Texts
<1>2. start \in Plain
  BY DEF Plain, Texts
<1>3. ASSUME NEW i \in 1..n, NEW a \in Plain
      PROVE  step[<<i, a>>] = KeepStep(s, i, a) /\ step[<<i, a>>] \in Plain
  BY KeepStepType
<1>4. PICK at : LoopStates(n, Plain, start, step, at)
  <2>1. Steps(n, Plain, step)
    BY <1>3 DEF Steps
  <2> HIDE DEF n, start, step
  <2> QED
    BY <1>1, <1>2, <2>1, Loop
<1>5. Is(at)
  <2>1. ASSUME NEW i \in 0..n
        PROVE  at[i] = IF i = 0 THEN start ELSE KeepStep(s, i, at[i - 1])
    <3> HIDE DEF n, start, step
    <3>1. i # 0 => i - 1 \in 0..n /\ i \in 1..n
      BY <1>1
    <3> QED
      BY <1>3, <1>4, <3>1 DEF LoopStates
  <2> HIDE DEF n, start, step
  <2>2. at \in [0..n -> Plain]
    BY <1>4 DEF LoopStates
  <2> QED
    BY <2>1, <2>2
<1> DEFINE f == Keeping(s)
<1>6. f = CHOOSE g : Is(g)
  BY DEF Keeping
<1>7. Is(f)
  <2> HIDE DEF Is, f
  <2> QED
    BY <1>5, <1>6
<1> HIDE DEF n, start, step, f
<1>8. f[0] = start /\ \A i \in 1..n : f[i] = KeepStep(s, i, f[i - 1])
  BY <1>1, <1>7
<1>9. f \in [0..n -> Plain]
  <2> DEFINE S == {i \in 0..n : f[i] \in Plain}
  <2>1. ASSUME NEW i \in 0..(n - 1), i \in S PROVE i + 1 \in S
    <3>1. i + 1 \in 1..n /\ i + 1 \in 0..n /\ (i + 1) - 1 = i
      BY <1>1
    <3> QED
      BY <1>8, <2>1, <3>1, KeepStepType DEF n
  <2>2. 0 \in S
    BY <1>1, <1>2, <1>8
  <2>3. 0..n \subseteq S
    <3> HIDE DEF S
    <3> QED
      BY <1>1, <2>1, <2>2, InductionTo
  <2>4. f = [i \in 0..n |-> f[i]]
    BY <1>7
  <2> QED
    BY <2>3, <2>4
<1> QED
  BY <1>8, <1>9 DEF f, n, start

-----------------------------------------------------------------------------
(* Quotes are erased. *)

\* A text is read from its beginning.
LEMMA Prefix ==
    ASSUME NEW s \in Texts
    PROVE  /\ Len(s) \in Nat /\ SubSeq(s, 1, 0) = <<>> /\ SubSeq(s, 1, Len(s)) = s
           /\ \A i \in 1..Len(s) :
                 /\ s[i] \in Symbols /\ SubSeq(s, 1, i - 1) \in Texts
                 /\ SubSeq(s, 1, i) = Append(SubSeq(s, 1, i - 1), s[i])
<1>1. Len(s) \in Nat
  BY LenProperties DEF Texts
<1>2. SubSeq(s, 1, 0) = <<>> /\ SubSeq(s, 1, Len(s)) = s
  BY SubSeqEmpty, SubSeqFull DEF Texts
<1>3. ASSUME NEW i \in 1..Len(s)
      PROVE  /\ s[i] \in Symbols /\ SubSeq(s, 1, i - 1) \in Texts
             /\ SubSeq(s, 1, i) = Append(SubSeq(s, 1, i - 1), s[i])
  <2>1. 1 \in 1..Len(s) /\ i \in 1..Len(s) /\ 1 \in 1..(Len(s) + 1) /\ i - 1 \in (1 - 1)..Len(s)
    BY <1>1
  <2>2. s[i] \in Symbols
    BY ElementOfSeq DEF Texts
  <2>3. SubSeq(s, 1, i - 1) \in Texts
    BY <2>1, Piece DEF Texts
  <2>4. SubSeq(s, 1, i) = Append(SubSeq(s, 1, i - 1), s[i])
    BY <2>1, SubSeqNext DEF Texts
  <2> QED
    BY <2>2, <2>3, <2>4
<1> QED
  BY <1>1, <1>2, <1>3

LEMMA UnquotedIs ==
    ASSUME NEW s \in Texts
    PROVE  Unquoted(s) = Keeping(s)[Len(s)] /\ Unquoted(s) \in Plain /\ Unquoted(s) \in Texts
<1>1. Unquoted(s) = Keeping(s)[Len(s)]
  BY DEF Unquoted, Keeping, KeepStep
<1>2. Unquoted(s) \in Plain
  BY <1>1, KeepingIs, LenProperties DEF Texts
<1>3. Symbols \ {Quote} \subseteq Symbols
  OBVIOUS
<1> QED
  BY <1>1, <1>2, <1>3, SeqMonotonic DEF Plain, Texts

\* Quotes are erased one by one.
LEMMA UnquotedNext ==
    /\ Unquoted(<<>>) = <<>>
    /\ \A s \in Texts, e \in Symbols :
          Unquoted(Append(s, e)) = IF e = Quote THEN Unquoted(s) ELSE Append(Unquoted(s), e)
<1>1. Unquoted(<<>>) = <<>>
  <2>1. <<>> \in Texts /\ Len(<<>>) = 0
    BY DEF Texts
  <2> QED
    BY <2>1, UnquotedIs, KeepingIs
<1>2. ASSUME NEW s \in Texts, NEW e \in Symbols
      PROVE  Unquoted(Append(s, e)) = IF e = Quote THEN Unquoted(s) ELSE Append(Unquoted(s), e)
  <2> DEFINE n == Len(s)
  <2> DEFINE t == Append(s, e)
  <2>1. n \in Nat /\ t \in Texts /\ Len(t) = n + 1
    BY AppendProperties, LenProperties DEF Texts
  <2>2. \A i \in 1..n : t[i] = s[i]
    BY AppendProperties DEF Texts
  <2>3. t[n + 1] = e
    BY AppendProperties DEF Texts
  <2>4. Keeping(s)[0] = <<>> /\ \A i \in 1..n : Keeping(s)[i] = KeepStep(s, i, Keeping(s)[i - 1])
    BY KeepingIs
  <2>5. /\ Keeping(t)[0] = <<>>
        /\ \A i \in 1..Len(t) : Keeping(t)[i] = KeepStep(t, i, Keeping(t)[i - 1])
    BY <2>1, KeepingIs
  <2>6. \A i \in 1..n : \A kept : KeepStep(t, i, kept) = KeepStep(s, i, kept)
    BY <2>2 DEF KeepStep
  <2> HIDE DEF n, t
  <2> DEFINE S == {i \in 0..n : Keeping(t)[i] = Keeping(s)[i]}
  <2>7. 0 \in S
    BY <2>1, <2>4, <2>5
  <2>8. ASSUME NEW i \in 0..(n - 1), i \in S PROVE i + 1 \in S
    <3>1. i + 1 \in 1..n /\ i + 1 \in 1..(n + 1) /\ i + 1 \in 0..n /\ (i + 1) - 1 = i
      BY <2>1
    <3>2. Keeping(t)[i + 1] = KeepStep(t, i + 1, Keeping(t)[i])
      BY <2>1, <2>5, <3>1
    <3>3. Keeping(s)[i + 1] = KeepStep(s, i + 1, Keeping(s)[i])
      BY <2>4, <3>1
    <3> QED
      BY <2>6, <2>8, <3>1, <3>2, <3>3
  <2>9. n \in S
    <3> HIDE DEF S
    <3>1. 0..n \subseteq S
      BY <2>1, <2>7, <2>8, InductionTo
    <3> QED
      BY <2>1, <3>1
  <2>10. Unquoted(s) = Keeping(s)[n]
    BY UnquotedIs DEF n
  <2>11. n + 1 \in 1..Len(t) /\ (n + 1) - 1 = n
    BY <2>1
  <2>12. Unquoted(t) = KeepStep(t, n + 1, Keeping(t)[n])
    BY <2>1, <2>5, <2>11, UnquotedIs
  <2> QED
    BY <2>3, <2>9, <2>10, <2>12 DEF KeepStep, t
<1> QED
  BY <1>1, <1>2

\* Nothing is erased where there is no quote.
LEMMA UnquotedPlain ==
    ASSUME NEW s \in Texts, \A i \in 1..Len(s) : s[i] # Quote
    PROVE  Unquoted(s) = s
<1> DEFINE n == Len(s)
<1> DEFINE S == {i \in 0..n : Unquoted(SubSeq(s, 1, i)) = SubSeq(s, 1, i)}
<1>1. n \in Nat
  BY Prefix
<1>2. 0 \in S
  <2>1. SubSeq(s, 1, 0) = <<>> /\ 0 \in 0..n
    BY <1>1, Prefix
  <2> HIDE DEF n
  <2> QED
    BY <2>1, UnquotedNext
<1>3. ASSUME NEW i \in 0..(n - 1), i \in S PROVE i + 1 \in S
  <2>1. i + 1 \in 1..n /\ i + 1 \in 0..n /\ (i + 1) - 1 = i
    BY <1>1
  <2>2. /\ s[i + 1] \in Symbols /\ SubSeq(s, 1, i) \in Texts
        /\ SubSeq(s, 1, i + 1) = Append(SubSeq(s, 1, i), s[i + 1])
    BY <2>1, Prefix
  <2>3. Unquoted(SubSeq(s, 1, i + 1)) = Append(Unquoted(SubSeq(s, 1, i)), s[i + 1])
    BY <2>1, <2>2, UnquotedNext
  <2> QED
    BY <1>3, <2>1, <2>2, <2>3
<1>4. n \in S
  <2> HIDE DEF S, n
  <2>1. 0..n \subseteq S
    BY <1>1, <1>2, <1>3, InductionTo
  <2> QED
    BY <1>1, <2>1
<1> QED
  BY <1>4, Prefix

\* What is left of a text that one symbol is left of: quotes are before it.
LEMMA UnquotedSingle ==
    ASSUME NEW s \in Texts, NEW v, Unquoted(s) = <<v>>
    PROVE  \E m \in 1..Len(s) : s[m] = v /\ \A j \in 1..(m - 1) : s[j] = Quote
<1> DEFINE n == Len(s)
<1> DEFINE Before(i) == \A j \in 1..i : s[j] = Quote
<1> DEFINE Single(i) == \E m \in 1..i : s[m] = v /\ \A j \in 1..(m - 1) : s[j] = Quote
<1> DEFINE Kept(i) == Unquoted(SubSeq(s, 1, i))
<1> DEFINE S == {i \in 0..n : (Kept(i) = <<>> => Before(i)) /\ (Kept(i) = <<v>> => Single(i))}
<1>1. n \in Nat
  BY Prefix
<1>2. 0 \in S
  <2>1. Kept(0) = <<>> /\ <<>> # <<v>>
    BY Prefix, UnquotedNext
  <2> QED
    BY <1>1, <2>1
<1>3. ASSUME NEW i \in 0..(n - 1), i \in S PROVE i + 1 \in S
  <2>1. i + 1 \in 1..n /\ i + 1 \in 0..n /\ (i + 1) - 1 = i /\ 1..(i + 1) = 1..i \cup {i + 1}
    BY <1>1
  <2>2. /\ s[i + 1] \in Symbols /\ SubSeq(s, 1, i) \in Texts
        /\ SubSeq(s, 1, i + 1) = Append(SubSeq(s, 1, i), s[i + 1])
    BY <2>1, Prefix
  <2>3. Kept(i) \in Texts
    BY <2>2, UnquotedIs
  <2>4. Kept(i + 1) = IF s[i + 1] = Quote THEN Kept(i) ELSE Append(Kept(i), s[i + 1])
    BY <2>2, UnquotedNext
  <2>5. (Kept(i) = <<>> => Before(i)) /\ (Kept(i) = <<v>> => Single(i))
    BY <1>3
  <2> HIDE DEF Kept
  <2>6. CASE s[i + 1] = Quote
    <3>1. Before(i) => Before(i + 1)
      BY <2>1, <2>6
    <3>2. Single(i) => Single(i + 1)
      BY <2>1
    <3> HIDE DEF Before, Single
    <3> QED
      BY <2>1, <2>4, <2>5, <2>6, <3>1, <3>2
  <2>7. CASE s[i + 1] # Quote
    <3>1. Kept(i + 1) = Append(Kept(i), s[i + 1])
      BY <2>4, <2>7
    <3>2. Kept(i + 1) # <<>>
      BY <2>2, <2>3, <3>1, AppendProperties DEF Texts
    <3>3. ASSUME Kept(i + 1) = <<v>> PROVE Kept(i) = <<>> /\ s[i + 1] = v
      <4>1. Len(Kept(i)) + 1 = 1 /\ Kept(i + 1)[Len(Kept(i)) + 1] = s[i + 1]
        BY <2>2, <2>3, <3>1, <3>3, AppendProperties DEF Texts
      <4>2. Len(Kept(i)) = 0
        BY <2>3, <4>1, LenProperties DEF Texts
      <4> QED
        BY <2>3, <3>3, <4>1, <4>2, EmptySeq DEF Texts
    <3>4. Before(i) /\ s[i + 1] = v => Single(i + 1)
      BY <2>1
    <3> HIDE DEF Before, Single
    <3> QED
      BY <2>1, <2>5, <3>2, <3>3, <3>4
  <2> QED
    BY <2>6, <2>7
<1>4. n \in S
  <2> HIDE DEF S, n
  <2>1. 0..n \subseteq S
    BY <1>1, <1>2, <1>3, InductionTo
  <2> QED
    BY <1>1, <2>1
<1> QED
  BY <1>4, Prefix

-----------------------------------------------------------------------------
(* Counting places. *)

Positive(places) == \A j \in places : j \in Nat /\ 0 < j

\* The count of the places up to i goes up by one at each of them.
LEMMA UpToNext ==
    ASSUME NEW places, Positive(places)
    PROVE  /\ UpTo(places, 0) = 0
           /\ \A i \in Nat :
                 /\ UpTo(places, i) \in Nat
                 /\ UpTo(places, i + 1) = IF i + 1 \in places THEN UpTo(places, i) + 1
                                                            ELSE UpTo(places, i)
<1> DEFINE B(i) == {j \in places : j <= i}
<1> USE DEF Positive
<1>1. UpTo(places, 0) = 0
  <2>1. B(0) = {}
    OBVIOUS
  <2> QED
    BY <2>1, FS_EmptySet DEF UpTo
<1>2. ASSUME NEW i \in Nat
      PROVE  /\ UpTo(places, i) \in Nat
             /\ UpTo(places, i + 1) = IF i + 1 \in places THEN UpTo(places, i) + 1
                                                        ELSE UpTo(places, i)
  <2>1. IsFiniteSet(B(i))
    <3>1. B(i) \subseteq 1..i
      OBVIOUS
    <3>2. IsFiniteSet(1..i)
      BY FS_Interval
    <3> HIDE DEF B
    <3> QED
      BY <3>1, <3>2, FS_Subset
  <2>2. Cardinality(B(i)) \in Nat
    BY <2>1, FS_CardinalityType
  <2>3. i + 1 \notin B(i)
    OBVIOUS
  <2>4. CASE i + 1 \in places
    <3>1. B(i + 1) = B(i) \cup {i + 1}
      BY <2>4
    <3> HIDE DEF B
    <3>2. Cardinality(B(i + 1)) = Cardinality(B(i)) + 1
      BY <2>1, <2>3, <3>1, FS_AddElement
    <3> QED
      BY <2>2, <2>4, <3>2 DEF UpTo, B
  <2>5. CASE i + 1 \notin places
    <3>1. B(i + 1) = B(i)
      BY <2>5
    <3> QED
      BY <2>2, <2>5, <3>1 DEF UpTo
  <2> QED
    BY <2>4, <2>5
<1> QED
  BY <1>1, <1>2

LEMMA UpToGrows ==
    ASSUME NEW places, Positive(places), NEW m \in Nat, NEW n \in Nat, m <= n
    PROVE  UpTo(places, m) <= UpTo(places, n)
<1> DEFINE S == {d \in Nat : UpTo(places, m) <= UpTo(places, m + d)}
<1>1. 0 \in S
  <2>1. UpTo(places, m) \in Nat /\ m + 0 = m
    BY UpToNext
  <2> QED
    BY <2>1
<1>2. ASSUME NEW d \in Nat, d \in S PROVE d + 1 \in S
  <2>1. m + d \in Nat /\ m + (d + 1) = (m + d) + 1
    OBVIOUS
  <2>2. UpTo(places, m) \in Nat /\ UpTo(places, m + d) \in Nat
    BY <2>1, UpToNext
  <2>3. UpTo(places, (m + d) + 1) \in {UpTo(places, m + d), UpTo(places, m + d) + 1}
    BY <2>1, UpToNext
  <2> QED
    BY <1>2, <2>1, <2>2, <2>3
<1>3. n - m \in S
  <2> HIDE DEF S
  <2>1. Nat \subseteq S
    BY <1>1, <1>2, Induction
  <2> QED
    BY <2>1
<1> QED
  BY <1>3

\* The places are told apart by their counts.
LEMMA UpToDiffers ==
    ASSUME NEW places, Positive(places), NEW m \in places, NEW n \in places, m < n
    PROVE  UpTo(places, m) < UpTo(places, n)
<1>1. m \in Nat /\ n - 1 \in Nat /\ m <= n - 1 /\ (n - 1) + 1 = n
  BY DEF Positive
<1>2. UpTo(places, m) <= UpTo(places, n - 1)
  BY <1>1, UpToGrows
<1>3. UpTo(places, (n - 1) + 1) = UpTo(places, n - 1) + 1
  BY <1>1, UpToNext
<1>4. UpTo(places, m) \in Nat /\ UpTo(places, n - 1) \in Nat
  BY <1>1, UpToNext
<1> QED
  BY <1>1, <1>2, <1>3, <1>4

\* Each count is that of a place.
LEMMA UpToFinds ==
    ASSUME NEW places, Positive(places), NEW n \in Nat, NEW k \in 1..UpTo(places, n)
    PROVE  \E i \in places : i <= n /\ UpTo(places, i) = k
<1> DEFINE Found(m) == k <= UpTo(places, m) => \E i \in places : i <= m /\ UpTo(places, i) = k
<1> DEFINE S == {m \in Nat : Found(m)}
<1>1. 0 \in S
  <2>1. UpTo(places, 0) = 0 /\ k \in Int /\ 1 <= k
    BY UpToNext
  <2> QED
    BY <2>1
<1>2. ASSUME NEW m \in Nat, m \in S PROVE m + 1 \in S
  <2>1. /\ UpTo(places, m) \in Nat
        /\ UpTo(places, m + 1) = IF m + 1 \in places THEN UpTo(places, m) + 1
                                                   ELSE UpTo(places, m)
    BY UpToNext
  <2>2. CASE k <= UpTo(places, m)
    <3>1. PICK i \in places : i <= m /\ UpTo(places, i) = k
      BY <1>2, <2>2
    <3>2. i <= m + 1
      BY <3>1 DEF Positive
    <3> QED
      BY <3>1, <3>2
  <2>3. CASE ~(k <= UpTo(places, m))
    <3>1. k <= UpTo(places, m + 1) => m + 1 \in places /\ UpTo(places, m + 1) = k
      BY <2>1, <2>3
    <3> QED
      BY <3>1
  <2> QED
    BY <2>2, <2>3
<1>3. n \in S
  <2> HIDE DEF S
  <2>1. Nat \subseteq S
    BY <1>1, <1>2, Induction
  <2> QED
    BY <2>1
<1>4. UpTo(places, n) \in Nat
  BY UpToNext
<1> QED
  BY <1>3, <1>4

\* The places up to the last one are all of them.
LEMMA UpToAll ==
    ASSUME NEW n \in Nat, NEW places, places \subseteq 1..n
    PROVE  /\ UpTo(places, n) = Cardinality(places) /\ Cardinality(places) \in Nat
           /\ Positive(places)
<1>1. {j \in places : j <= n} = places
  <2>1. \A j \in places : j \in 1..n
    OBVIOUS
  <2>2. \A j \in places : j <= n
    BY <2>1
  <2> QED
    BY <2>2
<1>2. Positive(places)
  BY DEF Positive
<1>3. UpTo(places, n) = Cardinality(places)
  BY <1>1 DEF UpTo
<1>4. UpTo(places, n) \in Nat
  BY <1>2, UpToNext
<1> QED
  BY <1>2, <1>3, <1>4

-----------------------------------------------------------------------------
(* Quotes and cuts. *)

LEMMA Parity ==
    ASSUME NEW n \in Nat
    PROVE  n % 2 \in {0, 1} /\ ((n + 1) % 2 = 0 <=> n % 2 # 0)
  OBVIOUS

\* The quotes up to a place, symbol by symbol.
LEMMA QuotesNext ==
    ASSUME NEW s \in Texts
    PROVE  /\ Quotes(s, 0) = 0
           /\ \A i \in 0..Len(s) : Quotes(s, i) \in Nat
           /\ \A i \in 0..(Len(s) - 1) :
                 Quotes(s, i + 1) = IF s[i + 1] = Quote THEN Quotes(s, i) + 1 ELSE Quotes(s, i)
<1> DEFINE n == Len(s)
<1> DEFINE places == {j \in DOMAIN s : s[j] = Quote}
<1>1. n \in Nat /\ DOMAIN s = 1..n
  BY LenProperties DEF Texts
<1>2. \A i \in 1..n : i \in places <=> s[i] = Quote
  BY <1>1
<1>3. Positive(places)
  <2>1. \A j \in places : j \in 1..n
    BY <1>1
  <2> HIDE DEF places
  <2> QED
    BY <1>1, <2>1 DEF Positive
<1>4. \A i : Quotes(s, i) = UpTo(places, i)
  BY DEF Quotes
<1> HIDE DEF n, places
<1>5. Quotes(s, 0) = 0
  BY <1>3, <1>4, UpToNext
<1>6. ASSUME NEW i \in 0..n PROVE Quotes(s, i) \in Nat
  BY <1>1, <1>3, <1>4, UpToNext
<1>7. ASSUME NEW i \in 0..(n - 1)
      PROVE  Quotes(s, i + 1) = IF s[i + 1] = Quote THEN Quotes(s, i) + 1 ELSE Quotes(s, i)
  <2>1. i \in Nat /\ i + 1 \in 1..n
    BY <1>1
  <2>2. Quotes(s, i + 1) = IF i + 1 \in places THEN Quotes(s, i) + 1 ELSE Quotes(s, i)
    BY <1>3, <1>4, <2>1, UpToNext
  <2> QED
    BY <1>2, <2>1, <2>2
<1> QED
  BY <1>5, <1>6, <1>7 DEF n

\* The cuts of a text, in their order.
LEMMA CutsAre ==
    ASSUME NEW s \in Texts, NEW separator
    PROVE  LET cuts == Cuts(s, separator)
           IN  /\ cuts \subseteq 1..(Len(s) - 1) /\ Positive(cuts) /\ Cardinality(cuts) \in Nat
               /\ UpTo(cuts, 0) = 0
               /\ Len(s) # 0 => UpTo(cuts, Len(s) - 1) = Cardinality(cuts)
               /\ CutAt(s, separator, 0) = 0
               /\ CutAt(s, separator, Cardinality(cuts) + 1) = Len(s) + 1
               /\ \A i \in cuts : /\ UpTo(cuts, i) \in 1..Cardinality(cuts)
                                  /\ CutAt(s, separator, UpTo(cuts, i)) = i
               /\ \A k \in 1..Cardinality(cuts) :
                     CutAt(s, separator, k) \in cuts /\ UpTo(cuts, CutAt(s, separator, k)) = k
<1> DEFINE n == Len(s)
<1> DEFINE cuts == Cuts(s, separator)
<1> DEFINE count == Cardinality(cuts)
<1> DEFINE At(k) == CutAt(s, separator, k)
<1>1. n \in Nat
  BY LenProperties DEF Texts
<1>2. cuts \subseteq 1..(n - 1)
  BY DEF Cuts
<1>3. \A k : At(k) = IF k = 0 THEN 0 ELSE IF k > count THEN n + 1
                     ELSE CHOOSE i \in cuts : UpTo(cuts, i) = k
  BY DEF CutAt
<1> HIDE DEF n, cuts, At
<1>4. Positive(cuts) /\ count \in Nat /\ UpTo(cuts, n) = count
  <2>1. cuts \subseteq 1..n
    BY <1>1, <1>2
  <2> QED
    BY <1>1, <2>1, UpToAll
<1>5. n # 0 => UpTo(cuts, n - 1) = count
  <2> SUFFICES ASSUME n # 0 PROVE UpTo(cuts, n - 1) = count
    OBVIOUS
  <2>1. n - 1 \in Nat
    BY <1>1
  <2> QED
    BY <1>2, <2>1, UpToAll
<1> HIDE DEF count
<1>6. UpTo(cuts, 0) = 0
  BY <1>4, UpToNext
<1>7. At(0) = 0 /\ At(count + 1) = n + 1
  BY <1>3, <1>4
<1>8. ASSUME NEW i \in cuts PROVE UpTo(cuts, i) \in 1..count /\ At(UpTo(cuts, i)) = i
  <2> DEFINE k == UpTo(cuts, i)
  <2>1. i \in Nat /\ i - 1 \in Nat /\ (i - 1) + 1 = i /\ i <= n
    BY <1>1, <1>2
  <2>2. UpTo(cuts, (i - 1) + 1) = UpTo(cuts, i - 1) + 1 /\ UpTo(cuts, i - 1) \in Nat
    BY <1>4, <2>1, UpToNext
  <2>3. k <= count /\ k \in Nat /\ 1 <= k
    <3>1. UpTo(cuts, i) <= UpTo(cuts, n)
      BY <1>1, <1>4, <2>1, UpToGrows
    <3> QED
      BY <1>4, <2>1, <2>2, <3>1
  <2> HIDE DEF k
  <2>4. At(k) = CHOOSE j \in cuts : UpTo(cuts, j) = k
    BY <1>3, <1>4, <2>3
  <2>5. PICK j \in cuts : j = At(k) /\ UpTo(cuts, j) = k
    <3>1. \E j \in cuts : UpTo(cuts, j) = k
      BY DEF k
    <3> QED
      BY <2>4, <3>1
  <2>6. j \in Nat
    BY <1>4 DEF Positive
  <2>7. ~(i < j) /\ ~(j < i)
    <3>1. i < j => UpTo(cuts, i) < UpTo(cuts, j)
      BY <1>4, UpToDiffers
    <3>2. j < i => UpTo(cuts, j) < UpTo(cuts, i)
      BY <1>4, UpToDiffers
    <3> QED
      BY <2>3, <2>5, <3>1, <3>2 DEF k
  <2>8. i = j
    BY <2>1, <2>6, <2>7
  <2> QED
    BY <1>4, <2>3, <2>5, <2>8 DEF k
<1>9. ASSUME NEW k \in 1..count PROVE At(k) \in cuts /\ UpTo(cuts, At(k)) = k
  <2>1. \E i \in cuts : UpTo(cuts, i) = k
    <3>1. k \in 1..UpTo(cuts, n)
      BY <1>4
    <3> QED
      BY <1>1, <1>4, <3>1, UpToFinds
  <2>2. At(k) = CHOOSE i \in cuts : UpTo(cuts, i) = k
    BY <1>3, <1>4
  <2> QED
    BY <2>1, <2>2
<1> QED
  BY <1>2, <1>4, <1>5, <1>6, <1>7, <1>8, <1>9 DEF n, cuts, count, At

PieceAt(s, separator, k) ==
    SubSeq(s, CutAt(s, separator, k - 1) + 1, CutAt(s, separator, k) - 1)

\* Pieces are between two cuts that follow each other.
LEMMA PiecesAre ==
    ASSUME NEW s \in Texts, NEW separator, NEW k \in 1..(Cardinality(Cuts(s, separator)) + 1)
    PROVE  /\ CutAt(s, separator, k - 1) \in {0} \cup Cuts(s, separator)
           /\ CutAt(s, separator, k - 1) \in 0..Len(s)
           /\ CutAt(s, separator, k) \in 1..(Len(s) + 1)
           /\ CutAt(s, separator, k - 1) < CutAt(s, separator, k)
           /\ PieceAt(s, separator, k) \in Texts
           /\ Pieces(s, separator)[k] = PieceAt(s, separator, k)
<1> DEFINE n == Len(s)
<1> DEFINE cuts == Cuts(s, separator)
<1> DEFINE count == Cardinality(cuts)
<1> DEFINE At(j) == CutAt(s, separator, j)
<1>1. n \in Nat
  BY LenProperties DEF Texts
<1>2. /\ cuts \subseteq 1..(n - 1) /\ Positive(cuts) /\ count \in Nat
      /\ At(0) = 0 /\ At(count + 1) = n + 1
      /\ \A j \in 1..count : At(j) \in cuts /\ UpTo(cuts, At(j)) = j
  BY CutsAre
<1>3. Pieces(s, separator)[k] = PieceAt(s, separator, k)
  BY DEF Pieces, PieceAt
<1>4. PieceAt(s, separator, k) = SubSeq(s, At(k - 1) + 1, At(k) - 1)
  BY DEF PieceAt
<1>5. k \in Nat /\ k \in 1..(count + 1) /\ k - 1 \in 0..count
  BY <1>2
<1> HIDE DEF n, cuts, count, At
<1>6. At(k - 1) \in {0} \cup cuts /\ \A j \in cuts : j \in Int /\ 1 <= j /\ j <= n - 1
  <2>1. \A j \in cuts : j \in 1..(n - 1)
    BY <1>2
  <2> QED
    BY <1>1, <1>2, <1>5, <2>1
<1>7. At(k - 1) \in 0..n /\ (At(k - 1) = 0 \/ At(k - 1) <= n - 1)
  BY <1>1, <1>6
<1>8. At(k) \in cuts \/ At(k) = n + 1
  BY <1>2, <1>5
<1>9. At(k) \in 1..(n + 1)
  BY <1>1, <1>6, <1>8
<1>10. At(k - 1) < At(k)
  <2>1. CASE k = 1
    BY <1>2, <1>9, <2>1
  <2>2. CASE k = count + 1
    BY <1>1, <1>2, <1>7, <2>2
  <2>3. CASE k # 1 /\ k # count + 1
    <3>1. k \in 1..count /\ k - 1 \in 1..count
      BY <1>2, <1>5, <2>3
    <3>2. UpTo(cuts, At(k)) = k /\ UpTo(cuts, At(k - 1)) = k - 1
      BY <1>2, <3>1
    <3>3. At(k) <= At(k - 1) => UpTo(cuts, At(k)) <= UpTo(cuts, At(k - 1))
      BY <1>1, <1>2, <1>7, <1>9, UpToGrows
    <3> QED
      BY <1>1, <1>5, <1>7, <1>9, <3>2, <3>3
  <2> QED
    BY <2>1, <2>2, <2>3
<1>11. SubSeq(s, At(k - 1) + 1, At(k) - 1) \in Texts
  <2>1. At(k - 1) + 1 \in 1..(n + 1) /\ At(k) - 1 \in ((At(k - 1) + 1) - 1)..n
    BY <1>1, <1>7, <1>9, <1>10
  <2> QED
    BY <2>1, Piece DEF n, Texts
<1> QED
  BY <1>3, <1>4, <1>6, <1>7, <1>9, <1>10, <1>11 DEF n, cuts, At

\* All of a text that is not empty is in its pieces: so is the last one.
LEMMA LastPiece ==
    ASSUME NEW s \in Texts, NEW separator
    PROVE  LET count == Cardinality(Cuts(s, separator))
           IN  PieceAt(s, separator, count + 1) = SubSeq(s, CutAt(s, separator, count) + 1, Len(s))
<1> DEFINE count == Cardinality(Cuts(s, separator))
<1>1. count \in Nat /\ CutAt(s, separator, count + 1) = Len(s) + 1
  BY CutsAre
<1>2. Len(s) \in Nat
  BY LenProperties DEF Texts
<1> HIDE DEF count
<1>3. (count + 1) - 1 = count
  BY <1>1
<1>4. (Len(s) + 1) - 1 = Len(s)
  BY <1>2
<1> QED
  BY <1>1, <1>3, <1>4 DEF PieceAt, count

\* The piece that is open after i symbols.
OpenAt(s, separator, i) == SubSeq(s, CutAt(s, separator, UpTo(Cuts(s, separator), i)) + 1, i)

\* It is closed by a cut, and grows with every other symbol; the last symbol is in the
\* last piece.
LEMMA OpenNext ==
    ASSUME NEW s \in Texts, s # <<>>, NEW separator
    PROVE  LET cuts == Cuts(s, separator)
           IN  /\ OpenAt(s, separator, 0) = <<>>
               /\ Append(OpenAt(s, separator, Len(s) - 1), s[Len(s)]) =
                      PieceAt(s, separator, Cardinality(cuts) + 1)
               /\ \A i \in 0..(Len(s) - 1) : /\ UpTo(cuts, i) \in 0..Cardinality(cuts)
                                            /\ OpenAt(s, separator, i) \in Texts
               /\ \A i \in 0..(Len(s) - 2) :
                     IF i + 1 \in cuts
                     THEN /\ UpTo(cuts, i + 1) = UpTo(cuts, i) + 1
                          /\ OpenAt(s, separator, i + 1) = <<>>
                          /\ OpenAt(s, separator, i) =
                                 PieceAt(s, separator, UpTo(cuts, i) + 1)
                     ELSE /\ UpTo(cuts, i + 1) = UpTo(cuts, i)
                          /\ OpenAt(s, separator, i + 1) = Append(OpenAt(s, separator, i), s[i + 1])
<1> DEFINE n == Len(s)
<1> DEFINE cuts == Cuts(s, separator)
<1> DEFINE count == Cardinality(cuts)
<1> DEFINE At(k) == CutAt(s, separator, k)
<1> DEFINE Open(i) == OpenAt(s, separator, i)
<1>1. n \in Nat /\ n # 0
  BY LenProperties, EmptySeq DEF Texts
<1>2. /\ cuts \subseteq 1..(n - 1) /\ Positive(cuts) /\ count \in Nat
      /\ UpTo(cuts, 0) = 0 /\ UpTo(cuts, n - 1) = count /\ At(0) = 0
      /\ \A i \in cuts : UpTo(cuts, i) \in 1..count /\ At(UpTo(cuts, i)) = i
      /\ \A k \in 1..count : At(k) \in cuts /\ UpTo(cuts, At(k)) = k
  BY <1>1, CutsAre
<1>3. \A i : Open(i) = SubSeq(s, At(UpTo(cuts, i)) + 1, i)
  BY DEF OpenAt
<1>4. \A k : PieceAt(s, separator, k) = SubSeq(s, At(k - 1) + 1, At(k) - 1)
  BY DEF PieceAt
<1>5. PieceAt(s, separator, count + 1) = SubSeq(s, At(count) + 1, n)
  BY LastPiece
<1> HIDE DEF n, cuts, count, At, Open
<1>6. ASSUME NEW i \in 0..(n - 1) PROVE UpTo(cuts, i) \in 0..count /\ At(UpTo(cuts, i)) \in 0..i
  <2> DEFINE k == UpTo(cuts, i)
  <2>1. i \in Nat /\ n - 1 \in Nat /\ i <= n - 1
    BY <1>1
  <2>2. k \in Nat /\ k <= count
    <3>1. UpTo(cuts, i) <= UpTo(cuts, n - 1)
      BY <1>2, <2>1, UpToGrows
    <3> QED
      BY <1>2, <2>1, <3>1, UpToNext
  <2>3. k \in 0..count
    BY <1>2, <2>2
  <2>4. At(k) \in 0..i
    <3>1. CASE k = 0
      <4>1. At(k) = 0
        BY <1>2, <3>1
      <4> HIDE DEF k
      <4> QED
        BY <2>1, <4>1
    <3>2. CASE k # 0
      <4>1. k \in 1..count
        BY <1>2, <2>2, <3>2
      <4>2. PICK j \in cuts : j <= i /\ UpTo(cuts, j) = k
        <5>1. k \in 1..UpTo(cuts, i)
          BY <2>2, <3>2
        <5>2. Positive(cuts)
          BY <1>2
        <5> HIDE DEF k
        <5> QED
          BY <2>1, <5>1, <5>2, UpToFinds
      <4>3. At(k) = j /\ j \in Nat
        BY <1>2, <4>2 DEF Positive
      <4> HIDE DEF k
      <4> QED
        BY <2>1, <4>2, <4>3
    <3> QED
      BY <3>1, <3>2
  <2> QED
    BY <2>3, <2>4
<1>7. ASSUME NEW i \in 0..(n - 1) PROVE Open(i) \in Texts
  <2>1. At(UpTo(cuts, i)) + 1 \in 1..(n + 1) /\ i \in ((At(UpTo(cuts, i)) + 1) - 1)..n
    BY <1>1, <1>6
  <2> QED
    BY <1>3, <2>1, Piece DEF n, Texts
<1>8. ASSUME NEW i \in 0..(n - 1)
      PROVE  SubSeq(s, At(UpTo(cuts, i)) + 1, i + 1) = Append(Open(i), s[i + 1])
  <2> DEFINE m == At(UpTo(cuts, i)) + 1
  <2>1. m \in 1..n /\ i + 1 \in m..n /\ (i + 1) - 1 = i
    BY <1>1, <1>6
  <2> HIDE DEF m
  <2>2. SubSeq(s, m, i + 1) = Append(SubSeq(s, m, (i + 1) - 1), s[i + 1])
    BY <2>1, SubSeqNext DEF n, Texts
  <2> QED
    BY <1>3, <2>1, <2>2 DEF m
<1>9. Open(0) = <<>>
  <2>1. Open(0) = SubSeq(s, 0 + 1, 0)
    BY <1>2, <1>3
  <2> QED
    BY <2>1, SubSeqEmpty
<1>10. Append(Open(n - 1), s[n]) = PieceAt(s, separator, count + 1)
  <2>1. n - 1 \in 0..(n - 1) /\ (n - 1) + 1 = n
    BY <1>1
  <2> QED
    BY <1>2, <1>5, <1>8, <2>1
<1>11. ASSUME NEW i \in 0..(n - 2)
       PROVE  IF i + 1 \in cuts
              THEN /\ UpTo(cuts, i + 1) = UpTo(cuts, i) + 1 /\ Open(i + 1) = <<>>
                   /\ Open(i) = PieceAt(s, separator, UpTo(cuts, i) + 1)
              ELSE UpTo(cuts, i + 1) = UpTo(cuts, i) /\ Open(i + 1) = Append(Open(i), s[i + 1])
  <2> DEFINE k == UpTo(cuts, i)
  <2>1. i \in Nat /\ i \in 0..(n - 1) /\ (i + 1) - 1 = i /\ i + 1 < (i + 1) + 1 /\ i + 1 \in Int
    BY <1>1
  <2>2. k \in Nat /\ (k + 1) - 1 = k
    BY <1>2, <2>1, UpToNext
  <2>3. CASE i + 1 \in cuts
    <3>1. UpTo(cuts, i + 1) = k + 1
      BY <1>2, <2>1, <2>3, UpToNext
    <3>2. At(k + 1) = i + 1
      BY <1>2, <2>3, <3>1
    <3>3. Open(i + 1) = SubSeq(s, (i + 1) + 1, i + 1)
      BY <1>3, <3>1, <3>2
    <3>4. Open(i + 1) = <<>>
      BY <2>1, <3>3, SubSeqEmpty
    <3>5. PieceAt(s, separator, k + 1) = SubSeq(s, At((k + 1) - 1) + 1, At(k + 1) - 1)
      BY <1>4
    <3>6. PieceAt(s, separator, k + 1) = SubSeq(s, At(k) + 1, i)
      BY <2>1, <2>2, <3>2, <3>5
    <3> QED
      BY <1>3, <2>3, <3>1, <3>4, <3>6
  <2>4. CASE i + 1 \notin cuts
    <3>1. UpTo(cuts, i + 1) = k
      BY <1>2, <2>1, <2>4, UpToNext
    <3>2. Open(i + 1) = SubSeq(s, At(k) + 1, i + 1)
      BY <1>3, <3>1
    <3> QED
      BY <1>8, <2>1, <2>4, <3>1, <3>2
  <2> QED
    BY <2>3, <2>4
<1> QED
  BY <1>6, <1>7, <1>9, <1>10, <1>11 DEF n, cuts, count, Open

-----------------------------------------------------------------------------
(* What the loops find. *)

\* Where the loop of execute_command is before the last symbol of a line.
LEMMA SplittingAt ==
    ASSUME NEW s \in Texts, s # <<>>, NEW i \in 0..(Len(s) - 1)
    PROVE  LET cuts == Cuts(s, ";")
           IN  /\ Splitting(s)[i].quotes <=> Quotes(s, i) % 2 # 0
               /\ Splitting(s)[i].current = OpenAt(s, ";", i)
               /\ Len(Splitting(s)[i].commands) = UpTo(cuts, i)
               /\ \A k \in 1..UpTo(cuts, i) :
                     Splitting(s)[i].commands[k] = LTrim(PieceAt(s, ";", k))
<1> DEFINE n == Len(s)
<1> DEFINE cuts == Cuts(s, ";")
<1> DEFINE Is(j) ==
      /\ Splitting(s)[j].quotes <=> Quotes(s, j) % 2 # 0
      /\ Splitting(s)[j].current = OpenAt(s, ";", j)
      /\ Len(Splitting(s)[j].commands) = UpTo(cuts, j)
      /\ \A k \in 1..UpTo(cuts, j) : Splitting(s)[j].commands[k] = LTrim(PieceAt(s, ";", k))
<1>1. n \in Nat /\ n # 0
  BY LenProperties, EmptySeq DEF Texts
<1>2. \A j \in 1..(n - 1) : j \in cuts <=> s[j] = ";" /\ Quotes(s, j) % 2 = 0
  BY DEF Cuts
<1> DEFINE S == {j \in 0..(n - 1) : Is(j)}
<1>3. 0 \in S
  <2>1. Splitting(s)[0] = [quotes |-> FALSE, current |-> <<>>, commands |-> <<>>]
    BY SplittingIs
  <2>2. Quotes(s, 0) % 2 = 0
    BY QuotesNext
  <2>3. UpTo(cuts, 0) = 0
    BY CutsAre
  <2>4. OpenAt(s, ";", 0) = <<>>
    BY OpenNext
  <2>5. 0 \in 0..(n - 1)
    BY <1>1
  <2>6. Is(0)
    <3> HIDE DEF cuts
    <3>1. Splitting(s)[0].quotes <=> Quotes(s, 0) % 2 # 0
      BY <2>1, <2>2
    <3>2. Splitting(s)[0].current = <<>>
      BY <2>1
    <3>3. Splitting(s)[0].current = OpenAt(s, ";", 0)
      BY <2>4, <3>2
    <3>4. Len(Splitting(s)[0].commands) = UpTo(cuts, 0)
      BY <2>1, <2>3
    <3>5. 1..UpTo(cuts, 0) = {}
      BY <2>3
    <3> QED
      BY <3>1, <3>3, <3>4, <3>5
  <2> HIDE DEF n, Is
  <2> QED
    BY <2>5, <2>6
<1>4. ASSUME NEW j \in 0..((n - 1) - 1), j \in S PROVE j + 1 \in S
  <2> DEFINE at == Splitting(s)[j]
  <2> DEFINE next == Splitting(s)[j + 1]
  <2> DEFINE k == UpTo(cuts, j)
  <2>1. /\ j + 1 \in 1..n /\ j + 1 # n /\ j + 1 \in 1..(n - 1) /\ (j + 1) - 1 = j
        /\ j \in 0..n /\ j \in 0..(n - 1) /\ j \in 0..(n - 2) /\ j + 1 \in 0..(n - 1)
    BY <1>1
  <2>2. next = SplitStep(s, j + 1, at)
    BY <2>1, SplittingIs
  <2>3. /\ at.quotes \in BOOLEAN /\ at.current \in Texts /\ at.commands \in Seq(Texts)
    BY <2>1, SplittingIs DEF SplitStates
  <2>4. Is(j)
    BY <1>4
  <2>5. /\ Quotes(s, j) \in Nat
        /\ Quotes(s, j + 1) = IF s[j + 1] = Quote THEN Quotes(s, j) + 1 ELSE Quotes(s, j)
    BY <2>1, QuotesNext
  <2>6. k \in Nat
    <3>1. Positive(cuts)
      BY CutsAre
    <3>2. j \in Nat
      BY <1>1
    <3> HIDE DEF cuts
    <3> QED
      BY <3>1, <3>2, UpToNext
  <2>7. IF j + 1 \in cuts
        THEN /\ UpTo(cuts, j + 1) = k + 1 /\ OpenAt(s, ";", j + 1) = <<>>
             /\ OpenAt(s, ";", j) = PieceAt(s, ";", k + 1)
        ELSE UpTo(cuts, j + 1) = k /\ OpenAt(s, ";", j + 1) = Append(OpenAt(s, ";", j), s[j + 1])
    BY <2>1, OpenNext
  <2> HIDE DEF n, cuts, at, next, k
  <2> DEFINE quotes == IF s[j + 1] = Quote THEN ~at.quotes ELSE at.quotes
  <2> DEFINE ends == s[j + 1] = ";" /\ ~quotes
  <2>8. quotes <=> Quotes(s, j + 1) % 2 # 0
    <3>1. at.quotes <=> Quotes(s, j) % 2 # 0
      BY <2>4 DEF at
    <3> QED
      BY <2>3, <2>5, <3>1, Parity
  <2>9. ends <=> j + 1 \in cuts
    BY <1>2, <2>1, <2>8
  <2>10. next = [quotes |-> quotes,
                 current |-> IF ends THEN <<>> ELSE Append(at.current, s[j + 1]),
                 commands |-> IF ends THEN Append(at.commands, LTrim(at.current)) ELSE at.commands]
    BY <2>1, <2>2, <2>3 DEF SplitStep, n
  <2> HIDE DEF quotes, ends
  <2>11. /\ at.current = OpenAt(s, ";", j) /\ Len(at.commands) = k
         /\ \A m \in 1..k : at.commands[m] = LTrim(PieceAt(s, ";", m))
    BY <2>4 DEF at, k
  <2>12. CASE ends
    <3>1. /\ UpTo(cuts, j + 1) = k + 1 /\ OpenAt(s, ";", j + 1) = <<>>
          /\ OpenAt(s, ";", j) = PieceAt(s, ";", k + 1)
      BY <2>7, <2>9, <2>12
    <3>2. /\ next.quotes = quotes /\ next.current = <<>>
          /\ next.commands = Append(at.commands, LTrim(PieceAt(s, ";", k + 1)))
      BY <2>10, <2>11, <2>12, <3>1
    <3>3. LTrim(PieceAt(s, ";", k + 1)) \in Texts
      BY <2>3, <2>11, <3>1, LTrimType
    <3>4. /\ Len(next.commands) = k + 1
          /\ \A m \in 1..k : next.commands[m] = at.commands[m]
          /\ next.commands[k + 1] = LTrim(PieceAt(s, ";", k + 1))
      <4> DEFINE old == at.commands
      <4> DEFINE new == LTrim(PieceAt(s, ";", k + 1))
      <4>1. old \in Seq(Texts) /\ new \in Texts /\ Len(old) = k /\ next.commands = Append(old, new)
        BY <2>3, <2>11, <3>2, <3>3
      <4> HIDE DEF old, new
      <4>2. /\ Len(next.commands) = k + 1
            /\ \A m \in 1..k : next.commands[m] = old[m]
            /\ next.commands[k + 1] = new
        BY <4>1, AppendProperties
      <4> QED
        BY <4>2 DEF old, new
    <3>5. ASSUME NEW m \in 1..(k + 1) PROVE next.commands[m] = LTrim(PieceAt(s, ";", m))
      <4>1. m \in 1..k \/ m = k + 1
        BY <2>6
      <4> QED
        BY <2>11, <3>4, <4>1
    <3> QED
      BY <2>1, <2>8, <3>1, <3>2, <3>4, <3>5 DEF next
  <2>13. CASE ~ends
    <3>1. UpTo(cuts, j + 1) = k /\ OpenAt(s, ";", j + 1) = Append(OpenAt(s, ";", j), s[j + 1])
      BY <2>7, <2>9, <2>13
    <3>2. /\ next.quotes = quotes /\ next.current = Append(at.current, s[j + 1])
          /\ next.commands = at.commands
      BY <2>10, <2>13
    <3> QED
      BY <2>1, <2>8, <2>11, <3>1, <3>2 DEF next
  <2> QED
    BY <2>12, <2>13
<1>5. i \in S
  <2> HIDE DEF S
  <2>1. n - 1 \in Nat
    BY <1>1
  <2>2. 0..(n - 1) \subseteq S
    BY <1>3, <1>4, <2>1, InductionTo
  <2> QED
    BY <2>2
<1> QED
  BY <1>5

\* What a sequence with one more element is.
LEMMA Appended ==
    ASSUME NEW S, NEW old \in Seq(S), NEW new \in S, NEW n, n = Len(old)
    PROVE  /\ Append(old, new) \in Seq(S) /\ Len(Append(old, new)) = n + 1
           /\ \A i \in 1..(n + 1) : Append(old, new)[i] = IF i = n + 1 THEN new ELSE old[i]
  BY AppendProperties, LenProperties

\* The sequence of a function on 1..n, as IsASeq says it, and what it is equal to.
LEMMA SequenceOf ==
    ASSUME NEW n \in Nat, NEW S, NEW f \in [1..n -> S]
    PROVE  /\ f \in Seq(S) /\ Len(f) = n
           /\ \A g \in Seq(S) : Len(g) = n /\ (\A i \in 1..n : g[i] = f[i]) => g = f
<1>1. f \in Seq(S) /\ Len(f) = n
  OBVIOUS
<1> QED
  BY <1>1, SeqEqual

\* What the loop of execute_command splits a line into, whatever its length and its
\* quotes, are the parts between the semicolons that an even number of quotes precedes.
THEOREM SplitIs ==
    ASSUME NEW s \in Texts, s # <<>>
    PROVE  /\ Split(s) = Parts(s) /\ Parts(s) \in Seq(Texts)
           /\ Len(Parts(s)) = Cardinality(Cuts(s, ";")) + 1
           /\ \A k \in 1..Len(Parts(s)) : Parts(s)[k] = LTrim(PieceAt(s, ";", k))
<1> DEFINE n == Len(s)
<1> DEFINE count == Cardinality(Cuts(s, ";"))
<1> DEFINE Part(k) == LTrim(PieceAt(s, ";", k))
<1>1. n \in Nat /\ n # 0 /\ n \in 1..n /\ n - 1 \in 0..(n - 1) /\ n - 1 \in 0..n
  BY LenProperties, EmptySeq DEF Texts
<1>2. count \in Nat /\ UpTo(Cuts(s, ";"), n - 1) = count
  BY <1>1, CutsAre
<1>3. \A k \in 1..(count + 1) : Part(k) \in Texts
  BY PiecesAre, LTrimType
<1>4. Parts(s) = [k \in 1..(count + 1) |-> Part(k)]
  <2>1. ASSUME NEW k \in 1..(count + 1) PROVE LTrim(Pieces(s, ";")[k]) = Part(k)
    BY <2>1, PiecesAre
  <2>2. DOMAIN Pieces(s, ";") = 1..(count + 1)
    BY DEF Pieces
  <2> HIDE DEF count, Part
  <2> QED
    BY <2>1, <2>2 DEF Parts
<1> DEFINE at == Splitting(s)[n - 1]
<1>5. /\ at.current \in Texts /\ at.commands \in Seq(Texts)
      /\ at.current = OpenAt(s, ";", n - 1) /\ Len(at.commands) = count
      /\ \A k \in 1..count : at.commands[k] = Part(k)
  <2>1. at \in SplitStates
    BY <1>1, SplittingIs
  <2>2. at.current \in Texts /\ at.commands \in Seq(Texts)
    BY <2>1 DEF SplitStates
  <2>3. /\ at.current = OpenAt(s, ";", n - 1)
        /\ Len(at.commands) = UpTo(Cuts(s, ";"), n - 1)
        /\ \A k \in 1..UpTo(Cuts(s, ";"), n - 1) : at.commands[k] = Part(k)
    BY <1>1, SplittingAt
  <2> HIDE DEF n, count, Part, at
  <2> QED
    BY <1>2, <2>2, <2>3
<1>6. Split(s) = Append(at.commands, Part(count + 1))
  <2>1. Splitting(s)[n] = SplitStep(s, n, at)
    BY <1>1, SplittingIs
  <2>2. SplitStep(s, n, at).commands = Append(at.commands, LTrim(Append(at.current, s[n])))
    <3> HIDE DEF at
    <3> QED
      BY DEF SplitStep
  <2>3. Append(at.current, s[n]) = PieceAt(s, ";", count + 1)
    BY <1>5, OpenNext
  <2> HIDE DEF at, count
  <2> QED
    BY <2>1, <2>2, <2>3 DEF Split
<1> HIDE DEF n, count, at, Part
<1>7. count \in Nat /\ count + 1 \in Nat /\ count + 1 \in 1..(count + 1)
  <2>1. count \in Nat
    BY <1>2
  <2> QED
    BY <2>1
<1>8. Part(count + 1) \in Texts
  BY <1>3, <1>7
<1>9. /\ Split(s) \in Seq(Texts) /\ Len(Split(s)) = count + 1
      /\ \A k \in 1..(count + 1) :
            Split(s)[k] = IF k = count + 1 THEN Part(count + 1) ELSE at.commands[k]
  <2> DEFINE old == at.commands
  <2> DEFINE new == Part(count + 1)
  <2>1. old \in Seq(Texts) /\ new \in Texts /\ count = Len(old) /\ Split(s) = Append(old, new)
    BY <1>5, <1>6, <1>8
  <2> HIDE DEF old, new
  <2>2. /\ Split(s) \in Seq(Texts) /\ Len(Split(s)) = count + 1
        /\ \A k \in 1..(count + 1) : Split(s)[k] = IF k = count + 1 THEN new ELSE old[k]
    BY <2>1, Appended
  <2> QED
    BY <2>2 DEF old, new
<1>10. \A k \in 1..(count + 1) : Split(s)[k] = Part(k)
  <2>1. \A k \in 1..(count + 1) : k \in 1..count \/ k = count + 1
    BY <1>7
  <2> QED
    BY <1>5, <1>9, <2>1
<1>11. Parts(s) \in [1..(count + 1) -> Texts] /\ \A k \in 1..(count + 1) : Parts(s)[k] = Part(k)
  BY <1>3, <1>4
<1>12. Parts(s) \in Seq(Texts) /\ Len(Parts(s)) = count + 1 /\ Split(s) = Parts(s)
  BY <1>7, <1>9, <1>10, <1>11, SequenceOf
<1> QED
  BY <1>11, <1>12 DEF count, Part

-----------------------------------------------------------------------------
(* tokenize_command. *)

\* The word that the k-th piece of a command is.
Word(c, k) == Unquoted(PieceAt(c, " ", k))

\* A symbol is a space, a quote, a semicolon or a word.
LEMMA SymbolsDiffer ==
    " " # Quote /\ ";" # Quote /\ " " # ";" /\ {" ", Quote, ";"} \subseteq Symbols
  BY DEF Quote, Symbols

\* Where the loop of tokenize_command is before the last symbol of a command.
LEMMA TokenizingAt ==
    ASSUME NEW c \in Texts, c # <<>>, NEW i \in 0..(Len(c) - 1)
    PROVE  LET cuts == Cuts(c, " ")
           IN  /\ Tokenizing(c)[i].quotes <=> Quotes(c, i) % 2 # 0
               /\ Tokenizing(c)[i].token = Unquoted(OpenAt(c, " ", i))
               /\ Len(Tokenizing(c)[i].tokens) = UpTo(cuts, i)
               /\ \A k \in 1..UpTo(cuts, i) : Tokenizing(c)[i].tokens[k] = Word(c, k)
<1> DEFINE n == Len(c)
<1> DEFINE cuts == Cuts(c, " ")
<1> DEFINE Is(j) ==
      /\ Tokenizing(c)[j].quotes <=> Quotes(c, j) % 2 # 0
      /\ Tokenizing(c)[j].token = Unquoted(OpenAt(c, " ", j))
      /\ Len(Tokenizing(c)[j].tokens) = UpTo(cuts, j)
      /\ \A k \in 1..UpTo(cuts, j) : Tokenizing(c)[j].tokens[k] = Word(c, k)
<1>1. n \in Nat /\ n # 0
  BY LenProperties, EmptySeq DEF Texts
<1>2. \A j \in 1..(n - 1) : j \in cuts <=> c[j] = " " /\ Quotes(c, j) % 2 = 0
  BY DEF Cuts
<1> DEFINE S == {j \in 0..(n - 1) : Is(j)}
<1>3. 0 \in S
  <2>1. Tokenizing(c)[0] = [quotes |-> FALSE, token |-> <<>>, tokens |-> <<>>]
    BY TokenizingIs
  <2>2. Quotes(c, 0) % 2 = 0
    BY QuotesNext
  <2>3. UpTo(cuts, 0) = 0
    BY CutsAre
  <2>4. OpenAt(c, " ", 0) = <<>>
    BY OpenNext
  <2>5. 0 \in 0..(n - 1)
    BY <1>1
  <2>6. Is(0)
    <3> HIDE DEF cuts
    <3>1. Tokenizing(c)[0].quotes <=> Quotes(c, 0) % 2 # 0
      BY <2>1, <2>2
    <3>2. Tokenizing(c)[0].token = <<>>
      BY <2>1
    <3>3. Tokenizing(c)[0].token = Unquoted(OpenAt(c, " ", 0))
      BY <2>4, <3>2, UnquotedNext
    <3>4. Len(Tokenizing(c)[0].tokens) = UpTo(cuts, 0)
      BY <2>1, <2>3
    <3>5. 1..UpTo(cuts, 0) = {}
      BY <2>3
    <3> QED
      BY <3>1, <3>3, <3>4, <3>5
  <2> HIDE DEF n, Is
  <2> QED
    BY <2>5, <2>6
<1>4. ASSUME NEW j \in 0..((n - 1) - 1), j \in S PROVE j + 1 \in S
  <2> DEFINE at == Tokenizing(c)[j]
  <2> DEFINE next == Tokenizing(c)[j + 1]
  <2> DEFINE k == UpTo(cuts, j)
  <2> DEFINE open == OpenAt(c, " ", j)
  <2> DEFINE e == c[j + 1]
  <2>1. /\ j + 1 \in 1..n /\ j + 1 # n /\ j + 1 \in 1..(n - 1) /\ (j + 1) - 1 = j
        /\ j \in 0..n /\ j \in 0..(n - 1) /\ j \in 0..(n - 2) /\ j + 1 \in 0..(n - 1)
    BY <1>1
  <2>2. next = TokenStep(c, j + 1, at)
    BY <2>1, TokenizingIs
  <2>3. /\ at \in TokenStates
        /\ at.quotes \in BOOLEAN /\ at.token \in Texts /\ at.tokens \in Seq(Texts)
    <3>1. at \in TokenStates
      BY <2>1, TokenizingIs
    <3> HIDE DEF at
    <3> QED
      BY <3>1 DEF TokenStates
  <2>4. /\ at.quotes <=> Quotes(c, j) % 2 # 0
        /\ at.token = Unquoted(open) /\ Len(at.tokens) = k
        /\ \A m \in 1..k : at.tokens[m] = Word(c, m)
    BY <1>4
  <2>5. /\ Quotes(c, j) \in Nat /\ e \in Symbols
        /\ Quotes(c, j + 1) = IF e = Quote THEN Quotes(c, j) + 1 ELSE Quotes(c, j)
    BY <2>1, QuotesNext, Prefix
  <2>6. k \in Nat /\ open \in Texts
    <3>1. Positive(cuts)
      BY CutsAre
    <3>2. j \in Nat
      BY <1>1
    <3>3. open \in Texts
      BY <2>1, OpenNext
    <3> HIDE DEF cuts, open
    <3> QED
      BY <3>1, <3>2, <3>3, UpToNext
  <2>7. IF j + 1 \in cuts
        THEN /\ UpTo(cuts, j + 1) = k + 1 /\ OpenAt(c, " ", j + 1) = <<>>
             /\ open = PieceAt(c, " ", k + 1)
        ELSE UpTo(cuts, j + 1) = k /\ OpenAt(c, " ", j + 1) = Append(open, e)
    BY <2>1, OpenNext
  <2> HIDE DEF n, cuts, at, next, k, open, e
  <2> DEFINE quotes == IF e = Quote THEN ~at.quotes ELSE at.quotes
  <2> DEFINE ends == e = " " /\ ~at.quotes
  <2>8. quotes <=> Quotes(c, j + 1) % 2 # 0
    BY <2>3, <2>4, <2>5, Parity
  <2>9. ends <=> j + 1 \in cuts
    BY <1>2, <2>1, <2>8, SymbolsDiffer DEF e
  <2>10. next = IF e = Quote THEN [at EXCEPT !.quotes = ~@]
                ELSE IF ends THEN [at EXCEPT !.token = <<>>, !.tokens = Append(@, at.token)]
                ELSE [at EXCEPT !.token = Append(at.token, e)]
    BY <2>1, <2>2 DEF TokenStep, n, e
  <2>11. /\ next.quotes = quotes
         /\ next.token = IF ends THEN <<>> ELSE IF e = Quote THEN at.token ELSE Append(at.token, e)
         /\ next.tokens = IF ends THEN Append(at.tokens, at.token) ELSE at.tokens
    BY <2>3, <2>10, SymbolsDiffer DEF TokenStates
  <2> HIDE DEF quotes, ends
  <2>12. CASE ends
    <3>1. /\ UpTo(cuts, j + 1) = k + 1 /\ OpenAt(c, " ", j + 1) = <<>>
          /\ open = PieceAt(c, " ", k + 1)
      BY <2>7, <2>9, <2>12
    <3>2. next.token = Unquoted(OpenAt(c, " ", j + 1))
      BY <2>11, <2>12, <3>1, UnquotedNext
    <3>3. at.token = Word(c, k + 1)
      BY <2>4, <3>1 DEF Word
    <3>4. next.tokens = Append(at.tokens, Word(c, k + 1))
      BY <2>11, <2>12, <3>3
    <3>5. /\ Len(next.tokens) = k + 1
          /\ \A m \in 1..(k + 1) : next.tokens[m] = Word(c, m)
      <4> DEFINE old == at.tokens
      <4> DEFINE new == Word(c, k + 1)
      <4>1. old \in Seq(Texts) /\ new \in Texts /\ k = Len(old) /\ next.tokens = Append(old, new)
        BY <2>3, <2>4, <3>3, <3>4
      <4> HIDE DEF old, new
      <4>2. /\ Len(next.tokens) = k + 1
            /\ \A m \in 1..(k + 1) : next.tokens[m] = IF m = k + 1 THEN new ELSE old[m]
        BY <4>1, Appended
      <4>3. \A m \in 1..(k + 1) : m \in 1..k \/ m = k + 1
        BY <2>6
      <4> QED
        BY <2>4, <4>2, <4>3 DEF old, new
    <3> QED
      BY <2>1, <2>8, <2>11, <3>1, <3>2, <3>5 DEF next
  <2>13. CASE ~ends
    <3>1. UpTo(cuts, j + 1) = k /\ OpenAt(c, " ", j + 1) = Append(open, e)
      BY <2>7, <2>9, <2>13
    <3>2. Unquoted(Append(open, e)) =
              IF e = Quote THEN Unquoted(open) ELSE Append(Unquoted(open), e)
      BY <2>5, <2>6, UnquotedNext
    <3>3. next.token = Unquoted(OpenAt(c, " ", j + 1)) /\ next.tokens = at.tokens
      BY <2>4, <2>11, <2>13, <3>1, <3>2
    <3> QED
      BY <2>1, <2>4, <2>8, <2>11, <3>1, <3>3 DEF next
  <2> QED
    BY <2>12, <2>13
<1>5. i \in S
  <2> HIDE DEF S
  <2>1. n - 1 \in Nat
    BY <1>1
  <2>2. 0..(n - 1) \subseteq S
    BY <1>3, <1>4, <2>1, InductionTo
  <2> QED
    BY <2>2
<1> QED
  BY <1>5

\* What tokenize_command finds in the end: an opening quote at the end of the command
\* drops the last token, and inside quotes the last symbol is dropped from it.
LEMMA TokensFound ==
    ASSUME NEW c \in Texts, c # <<>>
    PROVE  LET n == Len(c)
               count == Cardinality(Cuts(c, " "))
               at == Tokenizing(c)[n - 1]
           IN  /\ at.tokens \in Seq(Texts) /\ Len(at.tokens) = count
               /\ \A k \in 1..count : at.tokens[k] = Word(c, k)
               /\ \/ Tokens(c) = at.tokens /\ Quotes(c, n) % 2 # 0
                  \/ Tokens(c) = Append(at.tokens, Word(c, count + 1))
                  \/ /\ Tokens(c) = Append(at.tokens, Unquoted(OpenAt(c, " ", n - 1)))
                     /\ Quotes(c, n) % 2 # 0
<1> DEFINE n == Len(c)
<1> DEFINE count == Cardinality(Cuts(c, " "))
<1> DEFINE at == Tokenizing(c)[n - 1]
<1> DEFINE open == OpenAt(c, " ", n - 1)
<1> DEFINE e == c[n]
<1>1. /\ n \in Nat /\ n # 0 /\ n \in 1..n /\ n - 1 \in 0..(n - 1) /\ n - 1 \in 0..n
      /\ (n - 1) + 1 = n
  BY LenProperties, EmptySeq DEF Texts
<1>2. count \in Nat /\ UpTo(Cuts(c, " "), n - 1) = count
  BY <1>1, CutsAre
<1>3. at \in TokenStates
  BY <1>1, TokenizingIs
<1>4. /\ at.quotes <=> Quotes(c, n - 1) % 2 # 0
      /\ at.token = Unquoted(open) /\ Len(at.tokens) = count
      /\ \A k \in 1..count : at.tokens[k] = Word(c, k)
  <2>1. /\ at.quotes <=> Quotes(c, n - 1) % 2 # 0
        /\ at.token = Unquoted(open) /\ Len(at.tokens) = UpTo(Cuts(c, " "), n - 1)
        /\ \A k \in 1..UpTo(Cuts(c, " "), n - 1) : at.tokens[k] = Word(c, k)
    BY <1>1, TokenizingAt
  <2> HIDE DEF at, count, open, n
  <2> QED
    BY <1>2, <2>1
<1>5. /\ Quotes(c, n - 1) \in Nat /\ e \in Symbols
      /\ Quotes(c, n) = IF e = Quote THEN Quotes(c, n - 1) + 1 ELSE Quotes(c, n - 1)
  <2>1. /\ Quotes(c, n - 1) \in Nat /\ e \in Symbols
        /\ Quotes(c, (n - 1) + 1) = IF c[(n - 1) + 1] = Quote THEN Quotes(c, n - 1) + 1
                                                              ELSE Quotes(c, n - 1)
    BY <1>1, QuotesNext, Prefix
  <2> QED
    BY <1>1, <2>1
<1>6. open \in Texts /\ Append(open, e) = PieceAt(c, " ", count + 1)
  BY <1>1, OpenNext
<1>7. Tokens(c) = TokenStep(c, n, at).tokens
  <2>1. Tokenizing(c)[n] = TokenStep(c, n, at)
    BY <1>1, TokenizingIs
  <2> HIDE DEF at
  <2> QED
    BY <2>1 DEF Tokens
<1> HIDE DEF at, open
<1>8. TokenStep(c, n, at) =
          IF e = Quote /\ ~at.quotes THEN [at EXCEPT !.quotes = ~@]
          ELSE [at EXCEPT !.token = <<>>,
                          !.tokens = Append(@, IF at.quotes THEN at.token ELSE Append(at.token, e))]
  <2>1. at.quotes \in BOOLEAN
    BY <1>3 DEF TokenStates
  <2> QED
    BY <2>1 DEF TokenStep
<1> HIDE DEF n, count, e
<1>9. at.tokens \in Seq(Texts)
  BY <1>3 DEF TokenStates
<1>10. CASE e = Quote /\ ~at.quotes
  <2>1. Tokens(c) = at.tokens
    BY <1>3, <1>7, <1>8, <1>10 DEF TokenStates
  <2>2. Quotes(c, n) % 2 # 0
    BY <1>4, <1>5, <1>10, Parity
  <2> QED
    BY <1>4, <1>9, <2>1, <2>2 DEF n, count, at
<1>11. CASE ~(e = Quote /\ ~at.quotes)
  <2>1. Tokens(c) = Append(at.tokens, IF at.quotes THEN at.token ELSE Append(at.token, e))
    BY <1>3, <1>7, <1>8, <1>11 DEF TokenStates
  <2>2. Unquoted(Append(open, e)) = IF e = Quote THEN Unquoted(open) ELSE Append(Unquoted(open), e)
    BY <1>5, <1>6, UnquotedNext
  <2>3. CASE at.quotes /\ e = Quote
    <3>1. at.token = Word(c, count + 1)
      BY <1>4, <1>6, <2>2, <2>3 DEF Word
    <3>2. Tokens(c) = Append(at.tokens, Word(c, count + 1))
      BY <2>1, <2>3, <3>1
    <3> QED
      BY <1>4, <1>9, <3>2 DEF n, count, at
  <2>4. CASE at.quotes /\ e # Quote
    <3>1. Quotes(c, n) % 2 # 0
      BY <1>4, <1>5, <2>4
    <3>2. Tokens(c) = Append(at.tokens, Unquoted(open))
      BY <1>4, <2>1, <2>4
    <3> QED
      BY <1>4, <1>9, <3>1, <3>2 DEF n, count, at, open
  <2>5. CASE ~at.quotes
    <3>1. e # Quote
      BY <1>11, <2>5
    <3>2. Append(at.token, e) = Word(c, count + 1)
      BY <1>4, <1>6, <2>2, <3>1 DEF Word
    <3>3. Tokens(c) = Append(at.tokens, Word(c, count + 1))
      BY <2>1, <2>5, <3>2
    <3> QED
      BY <1>4, <1>9, <3>3 DEF n, count, at
  <2>6. at.quotes \in BOOLEAN
    BY <1>3 DEF TokenStates
  <2> QED
    BY <2>3, <2>4, <2>5, <2>6
<1> QED
  BY <1>10, <1>11

\* An empty command has no tokens.
LEMMA NoTokens == Tokens(<<>>) = <<>>
<1>1. <<>> \in Texts /\ Len(<<>>) = 0
  BY EmptySeq DEF Texts
<1>2. Tokenizing(<<>>)[0].tokens = <<>>
  BY <1>1, TokenizingIs
<1> QED
  BY <1>1, <1>2 DEF Tokens

\* The words of a command, as its meaning has them.
WordsOf(c) == LET pieces == Pieces(c, " ") IN [k \in DOMAIN pieces |-> Unquoted(pieces[k])]

LEMMA WordsAre ==
    ASSUME NEW c \in Texts
    PROVE  /\ WordsOf(c) \in Seq(Texts) /\ Len(WordsOf(c)) = Cardinality(Cuts(c, " ")) + 1
           /\ \A k \in 1..Len(WordsOf(c)) : WordsOf(c)[k] = Word(c, k)
<1> DEFINE count == Cardinality(Cuts(c, " "))
<1>1. count \in Nat
  BY CutsAre
<1>2. \A k \in 1..(count + 1) : Word(c, k) \in Texts /\ Unquoted(Pieces(c, " ")[k]) = Word(c, k)
  BY PiecesAre, UnquotedIs DEF Word
<1>3. DOMAIN Pieces(c, " ") = 1..(count + 1)
  BY DEF Pieces
<1> HIDE DEF count
<1>4. WordsOf(c) = [k \in 1..(count + 1) |-> Word(c, k)]
  BY <1>2, <1>3 DEF WordsOf
<1>5. /\ WordsOf(c) \in [1..(count + 1) -> Texts]
      /\ \A k \in 1..(count + 1) : WordsOf(c)[k] = Word(c, k)
  BY <1>2, <1>4
<1>6. count + 1 \in Nat
  BY <1>1
<1>7. WordsOf(c) \in Seq(Texts) /\ Len(WordsOf(c)) = count + 1
  BY <1>5, <1>6, SequenceOf
<1> QED
  BY <1>5, <1>7 DEF count

\* The tokens that tokenize_command finds in a command of any length whose quotes are
\* closed are its words: what is between the spaces outside quotes, without the quotes.
THEOREM TokensAre ==
    ASSUME NEW c \in Texts, c # <<>>, Quotes(c, Len(c)) % 2 = 0
    PROVE  Tokens(c) = WordsOf(c)
<1> DEFINE count == Cardinality(Cuts(c, " "))
<1> DEFINE old == Tokenizing(c)[Len(c) - 1].tokens
<1> DEFINE new == Word(c, count + 1)
<1>1. /\ old \in Seq(Texts) /\ count = Len(old) /\ Tokens(c) = Append(old, new)
      /\ \A k \in 1..count : old[k] = Word(c, k)
  BY TokensFound
<1>2. count \in Nat
  BY CutsAre
<1>3. /\ WordsOf(c) \in Seq(Texts) /\ Len(WordsOf(c)) = count + 1
      /\ \A k \in 1..Len(WordsOf(c)) : WordsOf(c)[k] = Word(c, k)
  BY WordsAre
<1>4. \A k \in 1..(count + 1) : k \in 1..count \/ k = count + 1
  <2> HIDE DEF count
  <2> QED
    BY <1>2
<1>5. new \in Texts
  <2>1. count + 1 \in 1..(count + 1)
    <3> HIDE DEF count
    <3> QED
      BY <1>2
  <2> HIDE DEF count
  <2> QED
    BY <1>3, <2>1, ElementOfSeq
<1> HIDE DEF count, old, new
<1>6. /\ Tokens(c) \in Seq(Texts) /\ Len(Tokens(c)) = count + 1
      /\ \A k \in 1..(count + 1) : Tokens(c)[k] = IF k = count + 1 THEN new ELSE old[k]
  BY <1>1, <1>5, Appended
<1>7. \A k \in 1..(count + 1) : Tokens(c)[k] = WordsOf(c)[k]
  BY <1>1, <1>3, <1>4, <1>6 DEF new
<1> QED
  BY <1>3, <1>6, <1>7, SeqEqual

\* The first token is what is left of a beginning of the command.
LEMMA FirstToken ==
    ASSUME NEW c \in Texts, Tokens(c) # <<>>
    PROVE  \E b \in 0..Len(c) : Tokens(c)[1] = Unquoted(SubSeq(c, 1, b))
<1> DEFINE n == Len(c)
<1> DEFINE count == Cardinality(Cuts(c, " "))
<1> DEFINE old == Tokenizing(c)[n - 1].tokens
<1>1. c # <<>>
  BY NoTokens
<1>2. n \in Nat /\ n # 0 /\ n - 1 \in 0..n
  BY <1>1, LenProperties, EmptySeq DEF Texts
<1>3. /\ old \in Seq(Texts) /\ Len(old) = count
      /\ \A k \in 1..count : old[k] = Word(c, k)
      /\ \/ Tokens(c) = old
         \/ Tokens(c) = Append(old, Word(c, count + 1))
         \/ Tokens(c) = Append(old, Unquoted(OpenAt(c, " ", n - 1)))
  BY <1>1, TokensFound
<1>4. count \in Nat
  BY CutsAre
<1>5. \E b \in 0..n : Word(c, 1) = Unquoted(SubSeq(c, 1, b))
  <2>1. 1 \in 1..(count + 1)
    <3> HIDE DEF count
    <3> QED
      BY <1>4
  <2>2. CutAt(c, " ", 1) \in 1..(n + 1)
    BY <2>1, PiecesAre
  <2>3. CutAt(c, " ", 1) - 1 \in 0..n
    <3> DEFINE cut == CutAt(c, " ", 1)
    <3>1. cut \in 1..(n + 1) /\ n \in Nat
      BY <1>2, <2>2
    <3> HIDE DEF n, cut
    <3>2. cut - 1 \in 0..n
      BY <3>1
    <3> QED
      BY <3>2 DEF cut
  <2>4. CutAt(c, " ", 0) = 0
    BY CutsAre
  <2>5. PieceAt(c, " ", 1) = SubSeq(c, 1, CutAt(c, " ", 1) - 1)
    <3>1. 1 - 1 = 0 /\ 0 + 1 = 1
      OBVIOUS
    <3>2. PieceAt(c, " ", 1) = SubSeq(c, CutAt(c, " ", 1 - 1) + 1, CutAt(c, " ", 1) - 1)
      BY DEF PieceAt
    <3> QED
      BY <2>4, <3>1, <3>2
  <2> QED
    BY <2>3, <2>5 DEF Word
<1>6. CASE count = 0
  <2>1. old = <<>>
    <3>1. old \in Seq(Texts) /\ Len(old) = 0
      BY <1>3, <1>6
    <3> HIDE DEF old
    <3> QED
      BY <3>1, EmptySeq
  <2>2. \A x : Append(<<>>, x)[1] = x
    OBVIOUS
  <2>3. CASE Tokens(c) = Append(old, Word(c, count + 1))
    <3>1. count + 1 = 1
      <4> HIDE DEF count
      <4> QED
        BY <1>6
    <3>2. Tokens(c)[1] = Word(c, 1)
      BY <2>1, <2>2, <2>3, <3>1
    <3> QED
      BY <1>5, <3>2
  <2>4. CASE Tokens(c) = Append(old, Unquoted(OpenAt(c, " ", n - 1)))
    <3>1. Tokens(c)[1] = Unquoted(OpenAt(c, " ", n - 1))
      BY <2>1, <2>2, <2>4
    <3>2. UpTo(Cuts(c, " "), n - 1) = 0
      BY <1>1, <1>2, <1>6, CutsAre
    <3>3. CutAt(c, " ", 0) = 0
      BY CutsAre
    <3>4. OpenAt(c, " ", n - 1) = SubSeq(c, 0 + 1, n - 1)
      BY <3>2, <3>3 DEF OpenAt
    <3>5. 0 + 1 = 1
      OBVIOUS
    <3> QED
      BY <1>2, <3>1, <3>4, <3>5
  <2> QED
    BY <1>3, <2>1, <2>3, <2>4
<1>7. CASE count # 0
  <2>1. 1 \in 1..count
    <3> HIDE DEF count
    <3> QED
      BY <1>4, <1>7
  <2>2. old[1] = Word(c, 1)
    BY <1>3, <2>1
  <2>3. \A x : Append(old, x)[1] = old[1]
    <3>1. old \in Seq(Texts) /\ 1 \in 1..Len(old)
      BY <1>3, <2>1
    <3> HIDE DEF old
    <3> QED
      BY <3>1
  <2>4. Tokens(c)[1] = Word(c, 1)
    BY <1>3, <2>2, <2>3
  <2> QED
    BY <1>5, <2>4
<1> QED
  BY <1>6, <1>7

-----------------------------------------------------------------------------
(* One after the other. *)

\* The loop in FlattenSeq, up to each of the sequences.
Flattening(all) ==
    LET flatten[i \in 1..Len(all)] == IF i = 1 THEN all[i] ELSE flatten[i - 1] \o all[i]
    IN flatten

LEMMA FlatteningIs ==
    ASSUME NEW S, NEW all \in Seq(Seq(S))
    PROVE  /\ \A i \in 1..Len(all) : Flattening(all)[i] \in Seq(S)
           /\ \A i \in 1..Len(all) :
                 Flattening(all)[i] = IF i = 1 THEN all[1] ELSE Flattening(all)[i - 1] \o all[i]
<1> DEFINE n == Len(all)
<1> DEFINE A == Seq(S)
<1> DEFINE start == <<>>
<1> DEFINE step == [p \in (1..n) \X A |-> IF p[1] = 1 THEN all[1] ELSE p[2] \o all[p[1]]]
<1> DEFINE Is(f) == f = [i \in 1..n |-> IF i = 1 THEN all[i] ELSE f[i - 1] \o all[i]]
<1>1. n \in Nat
  BY LenProperties
<1>2. start \in A
  BY EmptySeq
<1>3. ASSUME NEW i \in 1..n, NEW a \in A
      PROVE  step[<<i, a>>] = (IF i = 1 THEN all[1] ELSE a \o all[i]) /\ step[<<i, a>>] \in A
  <2>1. all[i] \in Seq(S)
    BY ElementOfSeq
  <2>2. a \o all[i] \in Seq(S)
    BY <2>1, ConcatProperties
  <2>3. step[<<i, a>>] = IF i = 1 THEN all[1] ELSE a \o all[i]
    OBVIOUS
  <2> HIDE DEF step
  <2> QED
    BY <2>1, <2>2, <2>3
<1>4. PICK at : LoopStates(n, A, start, step, at)
  <2>1. Steps(n, A, step)
    BY <1>3 DEF Steps
  <2> HIDE DEF n, A, start, step
  <2> QED
    BY <1>1, <1>2, <2>1, Loop
<1> DEFINE f == [i \in 1..n |-> at[i]]
<1>5. Is(f)
  <2> HIDE DEF n, A, start, step
  <2>1. ASSUME NEW i \in 1..n
        PROVE  at[i] = IF i = 1 THEN all[i] ELSE f[i - 1] \o all[i]
    <3>1. i - 1 \in 0..n /\ at[i - 1] \in A /\ at[i] = step[<<i, at[i - 1]>>]
      BY <1>1, <1>4 DEF LoopStates
    <3>2. at[i] = IF i = 1 THEN all[1] ELSE at[i - 1] \o all[i]
      BY <1>3, <3>1
    <3>3. i # 1 => i - 1 \in 1..n
      BY <1>1
    <3> QED
      BY <3>2, <3>3
  <2> QED
    BY <2>1
<1> DEFINE g == Flattening(all)
<1>6. g = CHOOSE h : Is(h)
  BY DEF Flattening
<1>7. Is(g)
  <2> HIDE DEF Is, f, g
  <2> QED
    BY <1>5, <1>6
<1> HIDE DEF n, A, start, step, f, g
<1>8. \A i \in 1..n : g[i] = IF i = 1 THEN all[1] ELSE g[i - 1] \o all[i]
  BY <1>7
<1> DEFINE T == {i \in 0..n : i # 0 => g[i] \in A}
<1>9. ASSUME NEW i \in 0..(n - 1), i \in T PROVE i + 1 \in T
  <2>1. i + 1 \in 1..n /\ i + 1 \in 0..n /\ (i + 1) - 1 = i /\ (i + 1 = 1 <=> i = 0)
    BY <1>1
  <2>2. all[i + 1] \in A
    BY <2>1, ElementOfSeq DEF n, A
  <2>3. CASE i = 0
    <3>1. g[i + 1] = all[i + 1]
      BY <1>8, <2>1, <2>3
    <3> QED
      BY <2>1, <2>2, <3>1
  <2>4. CASE i # 0
    <3>1. g[i + 1] = g[i] \o all[i + 1] /\ g[i] \in A
      BY <1>8, <1>9, <2>1, <2>4
    <3>2. g[i] \o all[i + 1] \in A
      BY <2>2, <3>1, ConcatProperties DEF A
    <3> QED
      BY <2>1, <3>1, <3>2
  <2> QED
    BY <2>3, <2>4
<1>10. 0 \in T
  BY <1>1
<1>11. 0..n \subseteq T
  <2> HIDE DEF T
  <2> QED
    BY <1>1, <1>9, <1>10, InductionTo
<1>12. \A i \in 1..n : g[i] \in A
  <2>1. \A i \in 1..n : i \in 0..n /\ i # 0
    BY <1>1
  <2> QED
    BY <1>11, <2>1
<1> QED
  BY <1>8, <1>12 DEF n, A, g

LEMMA FlattenIs ==
    ASSUME NEW S, NEW all \in Seq(Seq(S))
    PROVE  /\ FlattenSeq(all) = IF Len(all) = 0 THEN <<>> ELSE Flattening(all)[Len(all)]
           /\ FlattenSeq(all) \in Seq(S)
<1>1. Len(all) \in Nat /\ (Len(all) = 0 <=> all = <<>>) /\ <<>> \in Seq(S)
  BY LenProperties, EmptySeq
<1>2. FlattenSeq(all) = IF Len(all) = 0 THEN <<>> ELSE Flattening(all)[Len(all)]
  BY <1>1 DEF FlattenSeq, Flattening
<1>3. Len(all) # 0 => Len(all) \in 1..Len(all)
  BY <1>1
<1> QED
  BY <1>1, <1>2, <1>3, FlatteningIs

\* FlattenSeq puts one more sequence at the end.
LEMMA Flattened ==
    ASSUME NEW S, NEW all \in Seq(Seq(S)), NEW one \in Seq(S)
    PROVE  FlattenSeq(Append(all, one)) = FlattenSeq(all) \o one
<1> DEFINE n == Len(all)
<1> DEFINE more == Append(all, one)
<1> DEFINE f == Flattening(all)
<1> DEFINE g == Flattening(more)
<1>1. n \in Nat
  BY LenProperties
<1>2. /\ more \in Seq(Seq(S)) /\ Len(more) = n + 1
      /\ \A i \in 1..(n + 1) : more[i] = IF i = n + 1 THEN one ELSE all[i]
  BY Appended
<1>3. \A i \in 1..n : f[i] = IF i = 1 THEN all[1] ELSE f[i - 1] \o all[i]
  BY FlatteningIs
<1> HIDE DEF n, more, f
<1>4. \A i \in 1..(n + 1) : g[i] = IF i = 1 THEN more[1] ELSE g[i - 1] \o more[i]
  BY <1>2, FlatteningIs
<1> HIDE DEF g
<1>5. \A i \in 1..n : i \in 1..(n + 1) /\ i # n + 1
  BY <1>1
<1>6. n + 1 \in 1..(n + 1) /\ (n + 1) - 1 = n /\ n + 1 # 0
  BY <1>1
<1> DEFINE T == {i \in 0..n : i # 0 => g[i] = f[i]}
<1>7. ASSUME NEW i \in 0..(n - 1), i \in T PROVE i + 1 \in T
  <2>1. i + 1 \in 1..n /\ i + 1 \in 0..n /\ (i + 1) - 1 = i /\ (i + 1 = 1 <=> i = 0)
    BY <1>1
  <2>2. more[i + 1] = all[i + 1]
    BY <1>2, <1>5, <2>1
  <2>3. g[i + 1] = f[i + 1]
    <3>1. CASE i = 0
      BY <1>3, <1>4, <1>5, <2>1, <2>2, <3>1
    <3>2. CASE i # 0
      <4>1. g[i] = f[i]
        BY <1>7, <3>2
      <4>2. g[i + 1] = g[i] \o all[i + 1]
        BY <1>4, <1>5, <2>1, <2>2, <3>2
      <4>3. f[i + 1] = f[i] \o all[i + 1]
        BY <1>3, <2>1, <3>2
      <4> QED
        BY <4>1, <4>2, <4>3
    <3> QED
      BY <3>1, <3>2
  <2> QED
    BY <2>1, <2>3
<1>8. 0 \in T
  BY <1>1
<1>9. 0..n \subseteq T
  <2> HIDE DEF T
  <2> QED
    BY <1>1, <1>7, <1>8, InductionTo
<1>10. FlattenSeq(more) = g[n + 1]
  BY <1>2, <1>6, FlattenIs DEF g
<1>11. FlattenSeq(all) = (IF n = 0 THEN <<>> ELSE f[n]) /\ FlattenSeq(all) \in Seq(S)
  BY FlattenIs DEF n, f
<1>12. more[n + 1] = one
  BY <1>2, <1>6
<1>13. CASE n = 0
  <2>1. g[n + 1] = one
    BY <1>4, <1>6, <1>12, <1>13
  <2>2. <<>> \o one = one
    BY ConcatEmptySeq
  <2> QED
    BY <1>10, <1>11, <1>13, <2>1, <2>2 DEF more
<1>14. CASE n # 0
  <2>1. n + 1 # 1 /\ n \in 0..n
    BY <1>1, <1>14
  <2>2. g[n] = f[n]
    BY <1>9, <1>14, <2>1
  <2>3. g[n + 1] = g[n] \o one
    BY <1>4, <1>6, <1>12, <2>1
  <2> QED
    BY <1>10, <1>11, <1>14, <2>2, <2>3 DEF more
<1> QED
  BY <1>13, <1>14

-----------------------------------------------------------------------------
(* The parts of a line. *)

\* Where there is no quote, their count stays.
LEMMA QuotesSame ==
    ASSUME NEW s, NEW m \in Nat, NEW n \in Nat, m <= n,
           \A j \in (m + 1)..n : s[j] # Quote, DOMAIN s \subseteq Nat
    PROVE  Quotes(s, m) = Quotes(s, n)
<1> DEFINE places == {j \in DOMAIN s : s[j] = Quote}
<1>1. ASSUME NEW j \in places PROVE j <= m <=> j <= n
  <2>1. j \in Nat /\ j \notin (m + 1)..n
    OBVIOUS
  <2> HIDE DEF places
  <2> QED
    BY <2>1
<1>2. {j \in places : j <= m} = {j \in places : j <= n}
  <2> HIDE DEF places
  <2> QED
    BY <1>1
<1> QED
  BY <1>2 DEF Quotes, UpTo

\* The quotes of a piece are those that the text has there.
LEMMA QuotesPiece ==
    ASSUME NEW s \in Texts, NEW p \in 0..Len(s), NEW q \in p..Len(s)
    PROVE  \A j \in 0..(q - p) : Quotes(s, p + j) = Quotes(s, p) + Quotes(SubSeq(s, p + 1, q), j)
<1> DEFINE n == Len(s)
<1> DEFINE piece == SubSeq(s, p + 1, q)
<1> DEFINE len == q - p
<1>1. n \in Nat
  BY LenProperties DEF Texts
<1>2. p + 1 \in 1..(n + 1) /\ q \in ((p + 1) - 1)..n /\ q - (p + 1) + 1 = q - p
  <2>1. p \in 0..n /\ q \in p..n
    OBVIOUS
  <2> HIDE DEF n
  <2> QED
    BY <1>1, <2>1
<1>3. /\ piece \in Texts /\ Len(piece) = q - p
      /\ \A i \in 1..(q - p) : piece[i] = s[(p + 1) + i - 1]
  <2> HIDE DEF n
  <2>1. /\ piece \in Seq(Symbols) /\ Len(piece) = q - (p + 1) + 1
        /\ \A i \in 1..(q - (p + 1) + 1) : piece[i] = s[(p + 1) + i - 1]
    BY <1>2, Piece DEF n, Texts
  <2> QED
    BY <1>2, <2>1 DEF Texts
<1>4. len \in Nat /\ \A j \in 0..len : p + j \in 0..n /\ (j # len => p + j \in 0..(n - 1))
  <2>1. p \in 0..n /\ q \in p..n
    OBVIOUS
  <2> HIDE DEF n
  <2> QED
    BY <1>1, <2>1
<1>5. /\ Quotes(piece, 0) = 0
      /\ \A i \in 0..(len - 1) :
            Quotes(piece, i + 1) =
                IF piece[i + 1] = Quote THEN Quotes(piece, i) + 1 ELSE Quotes(piece, i)
      /\ \A i \in 0..len : Quotes(piece, i) \in Nat
  BY <1>3, QuotesNext
<1>6. /\ \A i \in 0..n : Quotes(s, i) \in Nat
      /\ \A i \in 0..(n - 1) :
            Quotes(s, i + 1) = IF s[i + 1] = Quote THEN Quotes(s, i) + 1 ELSE Quotes(s, i)
  BY QuotesNext
<1>7. p \in Nat /\ p \in 0..n
  BY <1>1
<1> DEFINE S == {j \in 0..len : Quotes(s, p + j) = Quotes(s, p) + Quotes(piece, j)}
<1> HIDE DEF n, piece, len
<1>8. 0 \in S
  <2>1. Quotes(s, p) \in Nat /\ p + 0 = p
    BY <1>6, <1>7
  <2>2. Quotes(s, p) = Quotes(s, p) + 0
    BY <2>1
  <2> QED
    BY <1>4, <1>5, <2>1, <2>2
<1>9. ASSUME NEW j \in 0..(len - 1), j \in S PROVE j + 1 \in S
  <2>1. /\ j \in 0..len /\ j # len /\ j + 1 \in 0..len /\ j + 1 \in 1..len
        /\ (p + 1) + (j + 1) - 1 = (p + j) + 1 /\ p + (j + 1) = (p + j) + 1
    BY <1>4, <1>7
  <2>2. p + j \in 0..(n - 1) /\ p + j \in 0..n
    BY <1>4, <2>1
  <2>3. piece[j + 1] = s[(p + j) + 1]
    BY <1>3, <2>1 DEF len
  <2> DEFINE a == Quotes(s, p)
  <2> DEFINE b == Quotes(piece, j)
  <2>4. a \in Nat /\ b \in Nat /\ Quotes(s, p + j) = a + b
    BY <1>5, <1>6, <1>7, <1>9, <2>1
  <2>5. Quotes(piece, j + 1) = IF piece[j + 1] = Quote THEN b + 1 ELSE b
    BY <1>5
  <2>6. Quotes(s, (p + j) + 1) = IF piece[j + 1] = Quote THEN (a + b) + 1 ELSE a + b
    BY <1>6, <2>2, <2>3, <2>4
  <2> HIDE DEF a, b
  <2>7. Quotes(s, (p + j) + 1) = a + Quotes(piece, j + 1)
    BY <2>4, <2>5, <2>6
  <2> QED
    BY <2>1, <2>7 DEF a
<1>10. 0..len \subseteq S
  <2> HIDE DEF S
  <2> QED
    BY <1>4, <1>8, <1>9, InductionTo
<1> QED
  BY <1>10 DEF piece, len

\* A piece of a piece.
LEMMA PieceOfPiece ==
    ASSUME NEW s \in Texts, NEW a \in 0..Len(s), NEW b \in a..Len(s), NEW t \in 0..(b - a)
    PROVE  SubSeq(SubSeq(s, a + 1, b), t + 1, b - a) = SubSeq(s, (a + t) + 1, b)
<1> DEFINE n == Len(s)
<1> DEFINE inner == SubSeq(s, a + 1, b)
<1> DEFINE outer == SubSeq(inner, t + 1, b - a)
<1> DEFINE other == SubSeq(s, (a + t) + 1, b)
<1> DEFINE len == b - (a + t)
<1>1. n \in Nat /\ a \in 0..n /\ b \in a..n /\ t \in 0..(b - a)
  BY LenProperties DEF Texts
<1> HIDE DEF n
<1>2. /\ a + 1 \in 1..(n + 1) /\ b \in ((a + 1) - 1)..n /\ b - (a + 1) + 1 = b - a
      /\ b - a \in Nat /\ t + 1 \in 1..((b - a) + 1) /\ b - a \in ((t + 1) - 1)..(b - a)
      /\ (b - a) - (t + 1) + 1 = len /\ len \in Nat
      /\ (a + t) + 1 \in 1..(n + 1) /\ b \in (((a + t) + 1) - 1)..n
      /\ b - ((a + t) + 1) + 1 = len
  BY <1>1
<1>3. /\ inner \in Texts /\ Len(inner) = b - a
      /\ \A i \in 1..(b - a) : inner[i] = s[(a + 1) + i - 1]
  <2>1. /\ inner \in Seq(Symbols) /\ Len(inner) = b - (a + 1) + 1
        /\ \A i \in 1..(b - (a + 1) + 1) : inner[i] = s[(a + 1) + i - 1]
    BY <1>2, Piece DEF n, Texts
  <2> QED
    BY <1>2, <2>1 DEF Texts
<1> HIDE DEF inner
<1>4. /\ outer \in Seq(Symbols) /\ Len(outer) = len
      /\ \A i \in 1..len : outer[i] = inner[(t + 1) + i - 1]
  <2> HIDE DEF len
  <2>1. /\ outer \in Seq(Symbols) /\ Len(outer) = (b - a) - (t + 1) + 1
        /\ \A i \in 1..((b - a) - (t + 1) + 1) : outer[i] = inner[(t + 1) + i - 1]
    BY <1>2, <1>3, Piece DEF Texts
  <2> QED
    BY <1>2, <2>1
<1>5. /\ other \in Seq(Symbols) /\ Len(other) = len
      /\ \A i \in 1..len : other[i] = s[((a + t) + 1) + i - 1]
  <2> HIDE DEF len
  <2>1. /\ other \in Seq(Symbols) /\ Len(other) = b - ((a + t) + 1) + 1
        /\ \A i \in 1..(b - ((a + t) + 1) + 1) : other[i] = s[((a + t) + 1) + i - 1]
    BY <1>2, Piece DEF n, Texts
  <2> QED
    BY <1>2, <2>1
<1>6. ASSUME NEW i \in 1..len
      PROVE  /\ (t + 1) + i - 1 \in 1..(b - a)
             /\ (a + 1) + ((t + 1) + i - 1) - 1 = ((a + t) + 1) + i - 1
  BY <1>1
<1> HIDE DEF len, outer, other
<1>7. \A i \in 1..len : outer[i] = other[i]
  BY <1>3, <1>4, <1>5, <1>6
<1>8. outer = other
  BY <1>4, <1>5, <1>7, SeqEqual
<1> QED
  BY <1>8 DEF inner, outer, other

\* A part of a line begins after a cut and spaces, and ends before the next cut or with
\* the line.
LEMMA PartIs ==
    ASSUME NEW s \in Texts, s # <<>>, NEW part \in ToSet(Parts(s))
    PROVE  \E a, p \in 0..Len(s) : \E q \in p..Len(s) :
              /\ part = SubSeq(s, p + 1, q) /\ a \in {0} \cup Cuts(s, ";")
              /\ a \in 0..p /\ \A j \in (a + 1)..p : s[j] = " "
              /\ q = Len(s) \/ q + 1 \in Cuts(s, ";")
<1> DEFINE n == Len(s)
<1> DEFINE cuts == Cuts(s, ";")
<1> DEFINE count == Cardinality(cuts)
<1>1. n \in Nat
  BY LenProperties DEF Texts
<1>2. PICK k \in 1..(count + 1) : part = LTrim(PieceAt(s, ";", k))
  <2>1. /\ Parts(s) \in Seq(Texts) /\ Len(Parts(s)) = count + 1
        /\ \A k \in 1..Len(Parts(s)) : Parts(s)[k] = LTrim(PieceAt(s, ";", k))
    BY SplitIs
  <2>2. DOMAIN Parts(s) = 1..Len(Parts(s))
    BY <2>1, LenProperties
  <2>3. PICK k \in DOMAIN Parts(s) : part = Parts(s)[k]
    BY DEF ToSet
  <2> HIDE DEF count
  <2> QED
    BY <2>1, <2>2, <2>3
<1> DEFINE a == CutAt(s, ";", k - 1)
<1> DEFINE z == CutAt(s, ";", k)
<1> DEFINE piece == PieceAt(s, ";", k)
<1>3. /\ a \in {0} \cup cuts /\ a \in 0..n /\ z \in 1..(n + 1) /\ a < z
      /\ piece \in Texts /\ piece = SubSeq(s, a + 1, z - 1)
  <2>1. piece = SubSeq(s, a + 1, z - 1)
    BY DEF PieceAt
  <2>2. a \in {0} \cup cuts /\ a \in 0..n /\ z \in 1..(n + 1) /\ a < z /\ piece \in Texts
    BY PiecesAre
  <2> HIDE DEF a, z, piece, cuts, n
  <2> QED
    BY <2>1, <2>2
<1>4. z = n + 1 \/ z \in cuts
  <2>1. /\ count \in Nat /\ CutAt(s, ";", count + 1) = n + 1
        /\ \A i \in 1..count : CutAt(s, ";", i) \in cuts
    BY CutsAre
  <2>2. k = count + 1 \/ k \in 1..count
    <3>1. count \in Nat
      BY <2>1
    <3> HIDE DEF count
    <3> QED
      BY <3>1
  <2> HIDE DEF count, cuts, n
  <2> QED
    BY <2>1, <2>2 DEF z
<1> HIDE DEF n, cuts, count, a, z, piece
<1>5. /\ a \in Nat /\ z - 1 \in a..n /\ (z - 1) - a \in Nat /\ (z - 1) + 1 = z
      /\ z = n + 1 => z - 1 = n
  BY <1>1, <1>3
<1>6. Len(piece) = (z - 1) - a /\ \A j \in 1..((z - 1) - a) : piece[j] = s[(a + 1) + j - 1]
  <2>1. /\ a + 1 \in 1..(n + 1) /\ z - 1 \in ((a + 1) - 1)..n
        /\ (z - 1) - (a + 1) + 1 = (z - 1) - a
    BY <1>1, <1>3
  <2>2. /\ Len(SubSeq(s, a + 1, z - 1)) = (z - 1) - (a + 1) + 1
        /\ \A j \in 1..((z - 1) - (a + 1) + 1) : SubSeq(s, a + 1, z - 1)[j] = s[(a + 1) + j - 1]
    BY <2>1, Piece DEF n, Texts
  <2> QED
    BY <1>3, <2>1, <2>2
<1>7. PICK t \in 0..((z - 1) - a) : /\ part = SubSeq(piece, t + 1, (z - 1) - a)
                                    /\ \A j \in 1..t : piece[j] = " "
  <2>1. \E t \in 0..Len(piece) : /\ LTrim(piece) = SubSeq(piece, t + 1, Len(piece))
                                 /\ \A j \in 1..t : piece[j] = " "
    BY <1>3, LTrimIs
  <2> QED
    BY <1>2, <1>6, <2>1 DEF piece
<1>8. part = SubSeq(s, (a + t) + 1, z - 1)
  <2>1. a \in 0..Len(s) /\ z - 1 \in a..Len(s) /\ t \in 0..((z - 1) - a)
    BY <1>3, <1>5 DEF n
  <2> DEFINE b == z - 1
  <2>2. piece = SubSeq(s, a + 1, b) /\ b \in a..Len(s) /\ t \in 0..(b - a)
        /\ part = SubSeq(piece, t + 1, b - a)
    BY <1>3, <1>7, <2>1
  <2> HIDE DEF b
  <2>3. part = SubSeq(s, (a + t) + 1, b)
    BY <2>1, <2>2, PieceOfPiece
  <2> QED
    BY <2>3 DEF b
<1>9. a + t \in 0..n /\ z - 1 \in (a + t)..n /\ a \in 0..(a + t)
  BY <1>1, <1>3, <1>5
<1>10. ASSUME NEW j \in (a + 1)..(a + t) PROVE s[j] = " "
  <2>1. j - a \in 1..t /\ j - a \in 1..((z - 1) - a) /\ (a + 1) + (j - a) - 1 = j
    BY <1>5
  <2> QED
    BY <1>6, <1>7, <2>1
<1>11. z - 1 = n \/ (z - 1) + 1 \in cuts
  BY <1>4, <1>5
<1> QED
  BY <1>3, <1>8, <1>9, <1>10, <1>11 DEF n, cuts

\* Every quote of a text is closed.
Closed(s) == Quotes(s, Len(s)) % 2 = 0

\* What is left of an even number of quotes is even.
LEMMA EvenRest ==
    ASSUME NEW x \in Nat, NEW y \in Nat, x % 2 = 0, (x + y) % 2 = 0
    PROVE  y % 2 = 0
  OBVIOUS

\* Every part of a line whose quotes are closed has its own quotes closed.
LEMMA PartQuotes ==
    ASSUME NEW s \in Texts, s # <<>>, Closed(s), NEW part \in ToSet(Parts(s))
    PROVE  part \in Texts /\ Closed(part)
<1> DEFINE n == Len(s)
<1>1. n \in Nat /\ DOMAIN s = 1..n
  BY LenProperties DEF Texts
<1>2. PICK a \in 0..n, p \in 0..n : \E q \in p..n :
        /\ part = SubSeq(s, p + 1, q) /\ a \in {0} \cup Cuts(s, ";")
        /\ a \in 0..p /\ \A j \in (a + 1)..p : s[j] = " "
        /\ q = n \/ q + 1 \in Cuts(s, ";")
  BY PartIs
<1>3. PICK q \in p..n : /\ part = SubSeq(s, p + 1, q) /\ a \in {0} \cup Cuts(s, ";")
                        /\ a \in 0..p /\ \A j \in (a + 1)..p : s[j] = " "
                        /\ q = n \/ q + 1 \in Cuts(s, ";")
  BY <1>2
<1>4. /\ Quotes(s, 0) = 0 /\ \A i \in 0..n : Quotes(s, i) \in Nat
      /\ \A i \in 0..(n - 1) :
            Quotes(s, i + 1) = IF s[i + 1] = Quote THEN Quotes(s, i) + 1 ELSE Quotes(s, i)
  BY QuotesNext
<1>5. \A i \in Cuts(s, ";") : i \in 1..(n - 1) /\ s[i] = ";" /\ Quotes(s, i) % 2 = 0
  BY DEF Cuts
<1>6. Quotes(s, n) % 2 = 0
  BY DEF Closed
<1>7. /\ part \in Texts /\ Len(part) = q - p
      /\ \A j \in 0..(q - p) : Quotes(s, p + j) = Quotes(s, p) + Quotes(part, j)
  <2>1. p \in 0..n /\ q \in p..n
    OBVIOUS
  <2>2. \A j \in 0..(q - p) : Quotes(s, p + j) = Quotes(s, p) + Quotes(part, j)
    BY <1>3, <2>1, QuotesPiece
  <2>3. p + 1 \in 1..(n + 1) /\ q \in ((p + 1) - 1)..n /\ q - (p + 1) + 1 = q - p
    <3> HIDE DEF n
    <3> QED
      BY <1>1, <2>1
  <2>4. part \in Seq(Symbols) /\ Len(part) = q - (p + 1) + 1
    BY <1>3, <2>3, Piece DEF Texts
  <2> HIDE DEF n
  <2> QED
    BY <2>2, <2>3, <2>4 DEF Texts
<1> HIDE DEF n
<1>8. a \in Nat /\ p \in Nat /\ q - p \in 0..(q - p) /\ p + (q - p) = q /\ q \in 0..n /\ p \in 0..n
  BY <1>1
<1>9. Quotes(s, a) % 2 = 0
  <2>1. 0 % 2 = 0
    OBVIOUS
  <2> QED
    BY <1>3, <1>4, <1>5, <2>1
<1>10. Quotes(s, a) = Quotes(s, p)
  <2>1. \A j \in (a + 1)..p : s[j] # Quote
    BY <1>3, SymbolsDiffer
  <2>2. DOMAIN s \subseteq Nat
    <3>1. 1..n \subseteq Nat
      OBVIOUS
    <3> QED
      BY <1>1, <3>1
  <2>3. a <= p
    <3>1. a \in 0..p
      BY <1>3
    <3> QED
      BY <1>8, <3>1
  <2> QED
    BY <1>8, <2>1, <2>2, <2>3, QuotesSame
<1>11. Quotes(s, q) % 2 = 0
  <2>1. CASE q = n
    BY <1>6, <2>1
  <2>2. CASE q + 1 \in Cuts(s, ";")
    <3>1. q + 1 \in 1..(n - 1) /\ s[q + 1] = ";" /\ Quotes(s, q + 1) % 2 = 0
      BY <1>5, <2>2
    <3>2. q \in 0..(n - 1)
      <4>1. q + 1 \in 1..(n - 1) /\ n \in Nat
        BY <1>1, <3>1
      <4> QED
        BY <1>8, <4>1
    <3>3. Quotes(s, q + 1) = Quotes(s, q)
      BY <1>4, <3>1, <3>2, SymbolsDiffer
    <3> QED
      BY <3>1, <3>3
  <2> QED
    BY <1>3, <2>1, <2>2
<1>12. Quotes(s, q) = Quotes(s, p) + Quotes(part, q - p)
  BY <1>7, <1>8
<1>13. Quotes(part, q - p) \in Nat
  BY <1>7, <1>8, QuotesNext
<1> DEFINE x == Quotes(s, p)
<1> DEFINE y == Quotes(part, q - p)
<1> DEFINE w == Quotes(s, q)
<1>14. x \in Nat /\ y \in Nat /\ w = x + y /\ x % 2 = 0 /\ w % 2 = 0
  BY <1>4, <1>8, <1>9, <1>10, <1>11, <1>12, <1>13
<1> HIDE DEF x, y, w
<1>15. y % 2 = 0
  BY <1>14, EvenRest
<1> QED
  BY <1>7, <1>15 DEF Closed, y

-----------------------------------------------------------------------------
(* One command. *)

\* An empty one has one word, which is empty.
LEMMA NoWords == WordsOf(<<>>) = <<<<>>>>
<1>1. <<>> \in Texts /\ Len(<<>>) = 0
  BY EmptySeq DEF Texts
<1>2. Cuts(<<>>, " ") = {}
  <2>1. 1..(0 - 1) = {}
    OBVIOUS
  <2> QED
    BY <1>1, <2>1 DEF Cuts
<1>3. Cardinality(Cuts(<<>>, " ")) = 0
  BY <1>2, FS_EmptySet
<1>4. /\ WordsOf(<<>>) \in Seq(Texts) /\ Len(WordsOf(<<>>)) = 0 + 1
      /\ \A k \in 1..Len(WordsOf(<<>>)) : WordsOf(<<>>)[k] = Word(<<>>, k)
  BY <1>1, <1>3, WordsAre
<1>5. Word(<<>>, 1) = <<>>
  <2>1. CutAt(<<>>, " ", 0) = 0 /\ CutAt(<<>>, " ", 0 + 1) = 0 + 1
    BY <1>1, <1>3, CutsAre
  <2>2. 0 + 1 = 1 /\ 1 - 1 = 0
    OBVIOUS
  <2>3. PieceAt(<<>>, " ", 1) = SubSeq(<<>>, CutAt(<<>>, " ", 1 - 1) + 1, CutAt(<<>>, " ", 1) - 1)
    BY DEF PieceAt
  <2>4. PieceAt(<<>>, " ", 1) = SubSeq(<<>>, 1, 0)
    BY <2>1, <2>2, <2>3
  <2>5. SubSeq(<<>>, 1, 0) = <<>>
    BY SubSeqEmpty
  <2> QED
    BY <2>4, <2>5, UnquotedNext DEF Word
<1> DEFINE words == WordsOf(<<>>)
<1>6. words \in Seq(Texts) /\ Len(words) = 1 /\ words[1] = <<>>
  BY <1>4, <1>5
<1> HIDE DEF words
<1>7. words = <<words[1]>>
  BY <1>6
<1> QED
  BY <1>6, <1>7 DEF words

\* The tokens of a command whose quotes are closed name what its words name.
LEMMA ClosedTokens ==
    ASSUME NEW c \in Texts, Closed(c)
    PROVE  Tokens(c) = WordsOf(c) \/ (Tokens(c) = <<>> /\ WordsOf(c) = <<<<>>>>)
  BY TokensAre, NoTokens, NoWords DEF Closed

\* There is always a first piece.
LEMMA FirstPiece ==
    ASSUME NEW c \in Texts, NEW separator
    PROVE  /\ 1 \in 1..(Cardinality(Cuts(c, separator)) + 1)
           /\ Pieces(c, separator)[1] \in Texts
           /\ Pieces(c, separator)[1] = PieceAt(c, separator, 1)
<1> DEFINE count == Cardinality(Cuts(c, separator))
<1>1. count \in Nat
  BY CutsAre
<1>2. 1 \in 1..(count + 1)
  <2> HIDE DEF count
  <2> QED
    BY <1>1
<1> QED
  BY <1>2, PiecesAre

\* A text without quotes.
Unmarked(s) == Quotes(s, Len(s)) = 0

LEMMA NoQuotes ==
    ASSUME NEW s \in Texts, Unmarked(s)
    PROVE  \A i \in 1..Len(s) : s[i] # Quote
<1> DEFINE n == Len(s)
<1> DEFINE places == {j \in DOMAIN s : s[j] = Quote}
<1>1. n \in Nat /\ DOMAIN s = 1..n
  BY LenProperties DEF Texts
<1>2. Positive(places)
  <2> DEFINE domain == DOMAIN s
  <2>1. domain = 1..n
    BY <1>1
  <2> HIDE DEF n, domain
  <2>2. \A j \in domain : j \in Nat /\ 0 < j
    BY <2>1
  <2> QED
    BY <2>2 DEF Positive, domain
<1>3. \A i \in 0..(n - 1) :
          Quotes(s, i + 1) = IF s[i + 1] = Quote THEN Quotes(s, i) + 1 ELSE Quotes(s, i)
  BY QuotesNext
<1>4. Quotes(s, n) = 0
  BY DEF Unmarked
<1>5. ASSUME NEW i \in 1..n PROVE s[i] # Quote
  <2> HIDE DEF n, places
  <2>1. i - 1 \in 0..(n - 1) /\ i - 1 \in Nat /\ (i - 1) + 1 = i /\ i \in Nat /\ i <= n
    BY <1>1
  <2>2. UpTo(places, i) <= UpTo(places, n) /\ UpTo(places, i - 1) \in Nat
    BY <1>1, <1>2, <2>1, UpToGrows, UpToNext
  <2> DEFINE x == Quotes(s, i - 1)
  <2>3. x \in Nat /\ Quotes(s, i) <= 0
    BY <1>4, <2>2 DEF Quotes, places
  <2>4. s[i] = Quote => Quotes(s, i) = x + 1
    BY <1>3, <2>1
  <2> HIDE DEF x
  <2> QED
    BY <2>3, <2>4
<1> QED
  BY <1>5

\* A command whose quotes are closed, with none around the name it begins with.
Proper(c) == Closed(c) /\ Unmarked(Pieces(c, " ")[1])

\* A word without quotes around it is its piece.
LEMMA NameIsPiece ==
    ASSUME NEW c \in Texts, NEW v, WordsOf(c)[1] = <<v>>, Proper(c)
    PROVE  Pieces(c, " ")[1] = <<v>>
<1> DEFINE name == Pieces(c, " ")[1]
<1>1. name \in Texts
  BY FirstPiece
<1>2. WordsOf(c)[1] = Unquoted(name)
  BY FirstPiece, WordsAre DEF Word
<1>3. \A i \in 1..Len(name) : name[i] # Quote
  <2>1. Unmarked(name)
    BY DEF Proper
  <2> HIDE DEF name
  <2> QED
    BY <1>1, <2>1, NoQuotes
<1> QED
  BY <1>1, <1>2, <1>3, UnquotedPlain

LEMMA AfterType == ASSUME NEW c \in Texts, NEW n \in Nat PROVE After(n, c) \in Texts
<1> DEFINE len == Len(c)
<1>1. len \in Nat
  BY LenProperties DEF Texts
<1>2. \A i \in 1..len : c[i] \in Symbols
  BY ElementOfSeq DEF Texts
<1> HIDE DEF len
<1>3. n + 1 \in Int /\ len \in Int /\ \A i \in (n + 1)..len : i \in 1..len
  BY <1>1
<1>4. \A i \in (n + 1)..len : c[i] \in Symbols
  BY <1>2, <1>3
<1>5. SubSeq(c, n + 1, len) \in Seq(Symbols)
  BY <1>3, <1>4, SubSeqProperties
<1> QED
  BY <1>5 DEF After, Texts, len

\* What a command may do, and nothing else.
Effects == [kind : {"engine", "command", "set"}, words : Seq(Texts)]

LEMMA TokensType == ASSUME NEW c \in Texts PROVE Tokens(c) \in Seq(Texts)
<1>1. Len(c) \in Nat
  BY LenProperties DEF Texts
<1>2. Tokenizing(c)[Len(c)] \in TokenStates
  BY <1>1, TokenizingIs
<1> QED
  BY <1>2 DEF Tokens, TokenStates

LEMMA MeaningType == ASSUME NEW c \in Texts PROVE Meaning(c) \in Seq(Effects)
<1> DEFINE words == WordsOf(c)
<1>1. words \in Seq(Texts) /\ Len(words) \in Nat
  BY WordsAre, LenProperties
<1>2. After(2, c) \in Texts
  BY AfterType
<1> DEFINE text == Unquoted(After(Len(Pieces(c, " ")[1]) + 1, c))
<1>3. Names(words, Floats \cup Booleans) => words[1] \in Texts
  <2> HIDE DEF words
  <2>1. words # <<>> => 1 \in 1..Len(words)
    BY <1>1, EmptySeq
  <2> QED
    BY <1>1, <2>1, ElementOfSeq DEF Names
<1>4. text \in Texts
  <2> DEFINE n == Len(Pieces(c, " ")[1])
  <2>1. n \in Nat
    BY FirstPiece, LenProperties DEF Texts
  <2> HIDE DEF n
  <2>2. n + 1 \in Nat
    BY <2>1
  <2>3. After(n + 1, c) \in Texts
    BY <2>2, AfterType
  <2> QED
    BY <2>3, UnquotedIs DEF n
<1>5. Meaning(c) =
        IF ForEngine(c) THEN <<[kind |-> "engine", words |-> <<After(2, c)>>]>>
        ELSE IF Names(words, Commands) THEN <<[kind |-> "command", words |-> words]>>
        ELSE IF Names(words, Floats \cup Booleans) /\ Len(words) > 1
             THEN <<[kind |-> "set", words |-> <<words[1], text>>]>>
        ELSE <<>>
  BY DEF Meaning, WordsOf
<1> HIDE DEF words, text
<1>6. [kind |-> "engine", words |-> <<After(2, c)>>] \in Effects
  BY <1>2 DEF Effects
<1>7. [kind |-> "command", words |-> words] \in Effects
  BY <1>1 DEF Effects
<1>8. Names(words, Floats \cup Booleans) =>
          [kind |-> "set", words |-> <<words[1], text>>] \in Effects
  BY <1>3, <1>4 DEF Effects
<1>9. \A e \in Effects : <<e>> \in Seq(Effects)
  OBVIOUS
<1> QED
  BY <1>5, <1>6, <1>7, <1>8, <1>9, EmptySeq

-----------------------------------------------------------------------------
(* A line, while its commands are run. *)

\* The commands of a line.
FoundIn(s) == IF s \in {<<>>, <<" ">>} THEN <<>> ELSE Parts(s)

\* What the first d of them mean.
Meant(s, d) == FlattenSeq([k \in 1..d |-> Meaning(FoundIn(s)[k])])

\* Some of them have been run, the rest are to run, and of a well-formed line what was
\* done is what they mean.
LineIs(s, todo, done) ==
    /\ s = <<>> => done = <<>>
    /\ \E d \in 0..Len(FoundIn(s)) : /\ todo = SubSeq(FoundIn(s), d + 1, Len(FoundIn(s)))
                                     /\ WellFormed(s) => done = Meant(s, d)

LEMMA FoundType ==
    ASSUME NEW s \in Texts
    PROVE  /\ FoundIn(s) \in Seq(Texts) /\ Len(FoundIn(s)) \in Nat
           /\ \A k \in 1..Len(FoundIn(s)) : FoundIn(s)[k] \in Texts
<1>1. FoundIn(s) \in Seq(Texts)
  BY SplitIs, EmptySeq DEF FoundIn
<1> QED
  BY <1>1, LenProperties, ElementOfSeq

\* One more command adds its meaning.
LEMMA MeantNext ==
    ASSUME NEW s \in Texts
    PROVE  /\ Meant(s, 0) = <<>>
           /\ \A d \in 0..(Len(FoundIn(s)) - 1) :
                 Meant(s, d + 1) = Meant(s, d) \o Meaning(FoundIn(s)[d + 1])
<1> DEFINE n == Len(FoundIn(s))
<1> DEFINE All(d) == [k \in 1..d |-> Meaning(FoundIn(s)[k])]
<1>1. n \in Nat
  BY FoundType
<1>2. \A k \in 1..n : Meaning(FoundIn(s)[k]) \in Seq(Effects)
  BY FoundType, MeaningType
<1>3. Meant(s, 0) = <<>>
  <2>1. All(0) = <<>>
    OBVIOUS
  <2>2. FlattenSeq(<<>>) = <<>>
    <3>1. <<>> \in Seq(Seq(Effects)) /\ Len(<<>>) = 0
      BY EmptySeq
    <3> QED
      BY <3>1, FlattenIs
  <2> QED
    BY <2>1, <2>2 DEF Meant
<1>4. ASSUME NEW d \in 0..(n - 1)
      PROVE  Meant(s, d + 1) = Meant(s, d) \o Meaning(FoundIn(s)[d + 1])
  <2> DEFINE M(k) == Meaning(FoundIn(s)[k])
  <2> DEFINE f == [k \in 1..d |-> M(k)]
  <2> DEFINE g == [k \in 1..(d + 1) |-> M(k)]
  <2> DEFINE one == M(d + 1)
  <2> HIDE DEF n
  <2>1. /\ d \in Nat /\ d + 1 \in Nat /\ d + 1 \in 1..n
        /\ \A k \in 1..(d + 1) : k \in 1..n /\ (k \in 1..d \/ k = d + 1)
        /\ \A k \in 1..d : k \in 1..n
    BY <1>1
  <2>2. \A k \in 1..n : M(k) \in Seq(Effects)
    BY <1>2 DEF n
  <2> HIDE DEF M
  <2>3. f \in [1..d -> Seq(Effects)] /\ g \in [1..(d + 1) -> Seq(Effects)] /\ one \in Seq(Effects)
    BY <2>1, <2>2
  <2>4. f \in Seq(Seq(Effects)) /\ d = Len(f)
    BY <2>1, <2>3, SequenceOf
  <2>5. \A k \in 1..(d + 1) : g[k] = (IF k = d + 1 THEN one ELSE f[k])
    BY <2>1
  <2> HIDE DEF f, g, one
  <2>6. /\ Append(f, one) \in Seq(Seq(Effects)) /\ Len(Append(f, one)) = d + 1
        /\ \A k \in 1..(d + 1) : Append(f, one)[k] = (IF k = d + 1 THEN one ELSE f[k])
    BY <2>3, <2>4, Appended
  <2>7. g = Append(f, one)
    BY <2>1, <2>3, <2>5, <2>6, SequenceOf
  <2>8. FlattenSeq(g) = FlattenSeq(f) \o one
    BY <2>3, <2>4, <2>7, Flattened
  <2> QED
    BY <2>8 DEF Meant, M, f, g, one
<1> QED
  BY <1>3, <1>4 DEF n

\* A line that is entered.
LEMMA LineEnters ==
    ASSUME NEW s \in Texts, s # <<>>
    PROVE  LET todo == IF s = <<" ">> THEN <<>> ELSE Split(s)
           IN  todo \in Seq(Texts) /\ LineIs(s, todo, <<>>)
<1> DEFINE todo == IF s = <<" ">> THEN <<>> ELSE Split(s)
<1>1. todo = FoundIn(s)
  BY SplitIs DEF FoundIn
<1>2. FoundIn(s) \in Seq(Texts) /\ Len(FoundIn(s)) \in Nat
  BY FoundType
<1> HIDE DEF todo
<1>3. todo = SubSeq(FoundIn(s), 1, Len(FoundIn(s)))
  BY <1>1, <1>2, SubSeqFull
<1>4. 0 \in 0..Len(FoundIn(s)) /\ 0 + 1 = 1
  BY <1>2
<1>5. Meant(s, 0) = <<>>
  BY MeantNext
<1> QED
  BY <1>1, <1>2, <1>3, <1>4, <1>5 DEF LineIs, todo

\* A line that is left.
LEMMA LineLeaves == LineIs(<<>>, <<>>, <<>>)
<1>1. <<>> \in Texts
  BY EmptySeq DEF Texts
<1>2. FoundIn(<<>>) = <<>>
  BY DEF FoundIn
<1>3. Len(<<>>) = 0 /\ 0 \in 0..0 /\ SubSeq(<<>>, 0 + 1, 0) = <<>>
  <2>1. Len(<<>>) = 0 /\ 0 \in 0..0 /\ 0 + 1 = 1 /\ 0 < 1
    OBVIOUS
  <2> QED
    BY <2>1, SubSeqEmpty
<1>4. Meant(<<>>, 0) = <<>>
  BY <1>1, MeantNext
<1> QED
  BY <1>2, <1>3, <1>4 DEF LineIs

\* The next command of a line is one of its parts.
LEMMA LineNext ==
    ASSUME NEW s \in Texts, NEW todo, NEW done, todo # <<>>, LineIs(s, todo, done)
    PROVE  /\ s # <<>> /\ s # <<" ">>
           /\ \E d \in 0..(Len(FoundIn(s)) - 1) :
                 /\ d + 1 \in 1..Len(FoundIn(s))
                 /\ Head(todo) = FoundIn(s)[d + 1] /\ Head(todo) \in ToSet(Parts(s))
                 /\ Tail(todo) = SubSeq(FoundIn(s), (d + 1) + 1, Len(FoundIn(s)))
                 /\ Tail(todo) \in Seq(Texts)
                 /\ WellFormed(s) => done = Meant(s, d)
<1> DEFINE found == FoundIn(s)
<1> DEFINE n == Len(found)
<1>1. PICK d \in 0..n : todo = SubSeq(found, d + 1, n) /\ (WellFormed(s) => done = Meant(s, d))
  BY DEF LineIs
<1>2. found \in Seq(Texts) /\ n \in Nat /\ DOMAIN found = 1..n
  BY FoundType, LenProperties
<1> HIDE DEF found, n
<1>3. d # n /\ todo \in Seq(Texts)
  BY <1>1, <1>2, Rest DEF n
<1>4. d \in 0..(n - 1) /\ d + 1 \in 1..n /\ n \in (d + 1)..n
  BY <1>2, <1>3
<1>5. Head(todo) = found[d + 1] /\ Tail(todo) = SubSeq(found, (d + 1) + 1, n)
  BY <1>1, <1>2, <1>4, HeadTailOfSubSeq DEF n
<1>6. Tail(todo) \in Seq(Texts)
  BY <1>3, HeadTailProperties
<1>7. s # <<>> /\ s # <<" ">>
  <2>1. s = <<>> \/ s = <<" ">> => found = <<>>
    BY DEF FoundIn, found
  <2>2. found = <<>> => n = 0
    BY DEF n
  <2>3. n # 0
    BY <1>4
  <2> QED
    BY <2>1, <2>2, <2>3
<1>8. found[d + 1] \in ToSet(Parts(s))
  <2>1. found = Parts(s)
    BY <1>7 DEF FoundIn, found
  <2>2. d + 1 \in DOMAIN Parts(s)
    BY <1>2, <1>4, <2>1
  <2> QED
    BY <2>1, <2>2 DEF ToSet
<1> QED
  BY <1>1, <1>4, <1>5, <1>6, <1>7, <1>8 DEF found, n

\* It is run.
LEMMA LineGoesOn ==
    ASSUME NEW s \in Texts, NEW todo, NEW done, NEW next, todo # <<>>, LineIs(s, todo, done),
           WellFormed(s) => next = done \o Meaning(Head(todo))
    PROVE  LineIs(s, Tail(todo), next)
<1>1. PICK d \in 0..(Len(FoundIn(s)) - 1) :
        /\ d + 1 \in 1..Len(FoundIn(s)) /\ Head(todo) = FoundIn(s)[d + 1]
        /\ Tail(todo) = SubSeq(FoundIn(s), (d + 1) + 1, Len(FoundIn(s)))
        /\ WellFormed(s) => done = Meant(s, d)
  BY LineNext
<1>2. s # <<>>
  BY LineNext
<1>3. Meant(s, d + 1) = Meant(s, d) \o Meaning(FoundIn(s)[d + 1])
  BY MeantNext
<1>4. d + 1 \in 0..Len(FoundIn(s))
  <2> DEFINE n == Len(FoundIn(s))
  <2>1. d + 1 \in 1..n /\ n \in Nat
    BY <1>1, FoundType
  <2> DEFINE e == d + 1
  <2> HIDE DEF n, e
  <2>2. e \in 0..n
    BY <2>1 DEF e
  <2> QED
    BY <2>2 DEF n, e
<1>5. WellFormed(s) => next = Meant(s, d + 1)
  BY <1>1, <1>3
<1> QED
  BY <1>1, <1>2, <1>4, <1>5 DEF LineIs

\* All of it has run.
LEMMA LineEnds ==
    ASSUME NEW s \in Texts, NEW done, LineIs(s, <<>>, done), s # <<>>, s # <<" ">>, WellFormed(s)
    PROVE  LET parts == Parts(s) IN done = FlattenSeq([k \in DOMAIN parts |-> Meaning(parts[k])])
<1> DEFINE found == FoundIn(s)
<1> DEFINE n == Len(found)
<1>1. PICK d \in 0..n : <<>> = SubSeq(found, d + 1, n) /\ done = Meant(s, d)
  BY DEF LineIs
<1>2. found \in Seq(Texts) /\ n \in Nat /\ DOMAIN found = 1..n
  BY FoundType, LenProperties
<1>3. found = Parts(s)
  BY DEF FoundIn
<1> HIDE DEF found, n
<1>4. d = n
  BY <1>1, <1>2, Rest DEF n
<1>5. Meant(s, n) = FlattenSeq([k \in 1..n |-> Meaning(found[k])])
  BY DEF Meant, found
<1> QED
  BY <1>1, <1>2, <1>3, <1>4, <1>5

=============================================================================
