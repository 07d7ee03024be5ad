---------------------------- MODULE SequenceLemmas ----------------------------
(***************************************************************************)
(* What the proofs about sequences and loops need and the library does not *)
(* state in a form that can be cited: induction over a set of numbers, and *)
(* that a loop (a recursive function on 0..n) is defined.                  *)
(***************************************************************************)
EXTENDS Integers, Sequences, SequenceTheorems, WellFoundedInduction, TLAPS

\* A set with 0 in it that is closed under successor holds every number.
LEMMA Induction ==
    ASSUME NEW S, 0 \in S, \A n \in Nat : n \in S => n + 1 \in S
    PROVE  Nat \subseteq S
<1> DEFINE R == OpToRel(<, Nat)
<1> DEFINE Rest == Nat \ S
<1> SUFFICES ASSUME Rest # {} PROVE FALSE
  OBVIOUS
<1>1. \A m, n \in Nat : m < n => <<m, n>> \in R
  BY DEF OpToRel
<1>2. IsWellFoundedOn(R, Nat)
  BY NatLessThanWellFounded
<1>3. PICK n \in Rest : \A m \in Rest : ~(<<m, n>> \in R)
  <2>1. Rest \subseteq Nat
    OBVIOUS
  <2> HIDE DEF R, Rest
  <2> QED
    BY <1>2, <2>1, WFMin
<1> HIDE DEF R
<1>4. n \in Nat /\ n \notin S
  OBVIOUS
<1>5. n # 0
  BY <1>4
<1>6. n - 1 \in Nat /\ (n - 1) + 1 = n
  BY <1>4, <1>5
<1>7. n - 1 \in Rest
  BY <1>4, <1>6
<1>8. <<n - 1, n>> \in R
  BY <1>1, <1>4, <1>6
<1> QED
  BY <1>3, <1>7, <1>8

\* Up to a bound.
LEMMA InductionTo ==
    ASSUME NEW n \in Nat, NEW S, 0 \in S, \A i \in 0..(n - 1) : i \in S => i + 1 \in S
    PROVE  0..n \subseteq S
<1> DEFINE T == {i \in Nat : i <= n => i \in S}
<1>1. 0 \in T
  OBVIOUS
<1>2. ASSUME NEW i \in Nat, i \in T PROVE i + 1 \in T
  BY <1>2
<1>3. Nat \subseteq T
  <2> HIDE DEF T
  <2> QED
    BY <1>1, <1>2, Induction
<1> QED
  BY <1>3

\* A loop of n steps, each of which finds a state in A from the one before.
Steps(n, A, step) == \A i \in 1..n, a \in A : step[<<i, a>>] \in A
LoopStates(n, A, start, step, at) ==
    /\ at \in [0..n -> A]
    /\ at[0] = start
    /\ \A i \in 1..n : at[i] = step[<<i, at[i - 1]>>]

\* It ends, and its states are one function.
LEMMA Loop ==
    ASSUME NEW n \in Nat, NEW A, NEW start \in A, NEW step, Steps(n, A, step)
    PROVE  \E at : LoopStates(n, A, start, step, at)
<1> USE DEF Steps, LoopStates
<1> DEFINE Good(m, at) == at[0] = start /\ \A i \in 1..m : at[i] = step[<<i, at[i - 1]>>]
<1> DEFINE S == {m \in Nat : \E at \in [0..m -> A] : Good(m, at)}
<1>1. 0 \in S
  <2> DEFINE at == [i \in 0..0 |-> start]
  <2>1. at \in [0..0 -> A] /\ Good(0, at)
    OBVIOUS
  <2> HIDE DEF at, Good
  <2> QED
    BY <2>1
<1>2. ASSUME NEW m \in 0..(n - 1), m \in S PROVE m + 1 \in S
  <2>1. PICK at \in [0..m -> A] : Good(m, at)
    BY <1>2
  <2> DEFINE next == [i \in 0..(m + 1) |-> IF i = m + 1 THEN step[<<m + 1, at[m]>>] ELSE at[i]]
  <2>2. next \in [0..(m + 1) -> A]
    OBVIOUS
  <2>3. next[0] = start
    BY <2>1
  <2>4. ASSUME NEW i \in 1..(m + 1) PROVE next[i] = step[<<i, next[i - 1]>>]
    <3>1. CASE i = m + 1
      <4>1. next[m] = at[m]
        OBVIOUS
      <4>2. next[i] = step[<<i, at[m]>>]
        BY <3>1
      <4> HIDE DEF next
      <4>3. i - 1 = m
        BY <3>1
      <4> QED
        BY <4>1, <4>2, <4>3
    <3>2. CASE i # m + 1
      <4>1. i \in 1..m /\ i - 1 \in 0..m
        BY <3>2
      <4> QED
        BY <2>1, <4>1
    <3> QED
      BY <3>1, <3>2
  <2> HIDE DEF next
  <2>5. Good(m + 1, next) /\ m + 1 \in Nat
    BY <2>3, <2>4
  <2> HIDE DEF Good
  <2> QED
    BY <2>2, <2>5
<1>3. 0..n \subseteq S
  <2> HIDE DEF S
  <2> QED
    BY <1>1, <1>2, InductionTo
<1> QED
  BY <1>3

-----------------------------------------------------------------------------
(* Sequences. *)

\* A piece of a sequence grows at its end.
LEMMA SubSeqNext ==
    ASSUME NEW S, NEW s \in Seq(S), NEW m \in 1..Len(s), NEW n \in m..Len(s)
    PROVE  SubSeq(s, m, n) = Append(SubSeq(s, m, n - 1), s[n])
<1>1. SubSeq(s, m, n) = SubSeq(s, m, n - 1) \o <<s[n]>>
  BY SubSeqRecursiveSecond
<1>2. Len(s) \in Nat /\ s[n] \in S
  BY ElementOfSeq
<1>3. SubSeq(s, m, n - 1) \in Seq(S)
  <2>1. \A i \in m..(n - 1) : s[i] \in S
    BY <1>2, ElementOfSeq
  <2>2. m \in Int /\ n - 1 \in Int
    BY <1>2
  <2> QED
    BY <2>1, <2>2, SubSeqProperties
<1> QED
  BY <1>1, <1>2, <1>3, AppendIsConcat

\* What a piece of a sequence is.
LEMMA Piece ==
    ASSUME NEW S, NEW s \in Seq(S), NEW m \in 1..(Len(s) + 1), NEW n \in (m - 1)..Len(s)
    PROVE  /\ SubSeq(s, m, n) \in Seq(S)
           /\ Len(SubSeq(s, m, n)) = n - m + 1
           /\ \A i \in 1..(n - m + 1) : SubSeq(s, m, n)[i] = s[m + i - 1]
<1>1. Len(s) \in Nat /\ m \in Int /\ n \in Int
  BY LenProperties
<1>2. \A i \in m..n : s[i] \in S
  BY <1>1, ElementOfSeq
<1>3. /\ SubSeq(s, m, n) \in Seq(S)
      /\ Len(SubSeq(s, m, n)) = IF m <= n THEN n - m + 1 ELSE 0
      /\ \A i \in 1..(n - m + 1) : SubSeq(s, m, n)[i] = s[m + i - 1]
  BY <1>1, <1>2, SubSeqProperties
<1> QED
  BY <1>1, <1>3

\* Of what follows a place nothing is left at the end, and only there.
LEMMA Rest ==
    ASSUME NEW S, NEW t \in Seq(S), NEW d \in 0..Len(t)
    PROVE  SubSeq(t, d + 1, Len(t)) \in Seq(S) /\ (SubSeq(t, d + 1, Len(t)) = <<>> <=> d = Len(t))
<1> DEFINE n == Len(t)
<1>1. n \in Nat
  BY LenProperties
<1> HIDE DEF n
<1>2. /\ d + 1 \in 1..(n + 1) /\ n \in ((d + 1) - 1)..n
      /\ (n - (d + 1) + 1 = 0 <=> d = n)
  BY <1>1 DEF n
<1>3. SubSeq(t, d + 1, n) \in Seq(S) /\ Len(SubSeq(t, d + 1, n)) = n - (d + 1) + 1
  BY <1>2, Piece DEF n
<1> DEFINE rest == SubSeq(t, d + 1, n)
<1> HIDE DEF rest
<1>4. rest = <<>> <=> Len(rest) = 0
  BY <1>3, EmptySeq DEF rest
<1> QED
  BY <1>2, <1>3, <1>4 DEF rest, n

=============================================================================
