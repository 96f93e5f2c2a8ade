---------------------------- MODULE SequenceFacts ----------------------------
(***************************************************************************)
(* Facts about sequences whose elements have no set of their own, such as  *)
(* the stacks of edits and the results that wait for the timer, and about   *)
(* the folds over finite sets and sequences that the models use.           *)
(***************************************************************************)
EXTENDS Integers, Sequences, FiniteSets, SequenceTheorems, FiniteSetTheorems,
        WellFoundedInduction, TLAPS

\* A sequence, whatever its elements.
IsSequence(s) == \E S : s \in Seq(S)

\* The empty stack.
LEMMA EmptyIsSequence == IsSequence(<<>>) /\ Len(<<>>) = 0
  BY EmptySeq DEF IsSequence

\* Append() keeps what was there and puts one element behind it.
LEMMA AppendedSequence ==
  ASSUME NEW s, IsSequence(s), NEW e
  PROVE  /\ IsSequence(Append(s, e))
         /\ Len(s) \in Nat
         /\ Len(Append(s, e)) = Len(s) + 1
         /\ \A i \in 1 .. Len(s) : Append(s, e)[i] = s[i]
         /\ Append(s, e)[Len(s) + 1] = e
         /\ Append(s, e) # <<>>
<1>1. PICK S : s \in Seq(S)
  BY DEF IsSequence
<1> DEFINE T == S \cup {e}
<1>2. s \in Seq(T) /\ e \in T
  BY <1>1, SeqMonotonic
<1>3. Append(s, e) \in Seq(T)
  BY <1>2, AppendProperties
<1> QED
  BY <1>2, <1>3, AppendProperties, LenProperties DEF IsSequence

\* Popping the last element keeps the others.
LEMMA ShortenedSequence ==
  ASSUME NEW s, IsSequence(s), s # <<>>
  PROVE  LET front == SubSeq(s, 1, Len(s) - 1)
         IN /\ IsSequence(front)
            /\ Len(s) \in Nat \ {0}
            /\ Len(front) = Len(s) - 1
            /\ \A i \in 1 .. Len(s) - 1 : front[i] = s[i]
<1>1. PICK S : s \in Seq(S)
  BY DEF IsSequence
<1>2. Len(s) \in Nat \ {0}
  BY <1>1, EmptySeq, LenProperties
<1> DEFINE n == Len(s) - 1
           front == SubSeq(s, 1, n)
<1>3. 1 \in Int /\ n \in Int /\ \A i \in 1 .. n : s[i] \in S
  BY <1>1, <1>2, ElementOfSeq
<1>4. /\ front \in Seq(S)
      /\ Len(front) = IF 1 <= n THEN n - 1 + 1 ELSE 0
      /\ \A i \in 1 .. n - 1 + 1 : front[i] = s[1 + i - 1]
  <2> HIDE DEF n
  <2> QED BY <1>3, SubSeqProperties, SMT
<1>5. Len(front) = n /\ \A i \in 1 .. n : front[i] = s[i]
  <2>1. n \in Nat /\ n - 1 + 1 = n
    BY <1>2
  <2>2. \A i \in 1 .. n : 1 + i - 1 = i
    BY <2>1
  <2> HIDE DEF n, front
  <2> QED BY <1>4, <2>1, <2>2
<1> QED
  BY <1>2, <1>4, <1>5 DEF IsSequence

\* Sequences of the same elements in the same order are the same.
LEMMA SameSequence ==
  ASSUME NEW s, NEW t, IsSequence(s), IsSequence(t), Len(s) = Len(t),
         \A i \in 1 .. Len(s) : s[i] = t[i]
  PROVE  s = t
<1>1. PICK S : s \in Seq(S)
  BY DEF IsSequence
<1>2. PICK T : t \in Seq(T)
  BY DEF IsSequence
<1>3. s \in Seq(S \cup T) /\ t \in Seq(S \cup T)
  BY <1>1, <1>2, SeqMonotonic
<1> QED BY <1>3, SeqEqual

\* Taking the first element moves the others up.
LEMMA TailOfSequence ==
  ASSUME NEW s, IsSequence(s), s # <<>>
  PROVE  /\ IsSequence(Tail(s)) /\ Len(s) \in Nat \ {0}
         /\ DOMAIN s = 1 .. Len(s) /\ DOMAIN Tail(s) = 1 .. Len(s) - 1
         /\ Head(s) = s[1]
         /\ \A i \in 1 .. Len(s) - 1 : Tail(s)[i] = s[i + 1]
<1>1. PICK S : s \in Seq(S)
  BY DEF IsSequence
<1>2. Len(s) \in Nat \ {0} /\ DOMAIN s = 1 .. Len(s)
  BY <1>1, EmptySeq, LenProperties
<1>3. /\ Tail(s) \in Seq(S) /\ Len(Tail(s)) = Len(s) - 1
      /\ \A i \in 1 .. Len(Tail(s)) : Tail(s)[i] = s[i + 1]
  BY <1>1, HeadTailProperties
<1>4. Head(s) = s[1]
  BY <1>1
<1>5. DOMAIN Tail(s) = 1 .. Len(s) - 1
  BY <1>3, LenProperties
<1> QED BY <1>2, <1>3, <1>4, <1>5 DEF IsSequence

\* A sequence is indexed from one to its length.
LEMMA DomainOfSequence ==
  ASSUME NEW s, IsSequence(s)
  PROVE  Len(s) \in Nat /\ DOMAIN s = 1 .. Len(s)
  BY LenProperties DEF IsSequence

(***************************************************************************)
(* Folds.  What a recursive function computes is proved by taking, of the   *)
(* sets or lengths for which it does not behave, a smallest one.           *)
(***************************************************************************)

\* A non-empty family of subsets of a finite set has one that contains no other.
LEMMA SmallestSet ==
  ASSUME NEW S, IsFiniteSet(S), NEW C \in SUBSET SUBSET S, C # {}
  PROVE  \E T \in C : \A U \in SUBSET T : U \in C => U = T
<1>1. IsWellFoundedOn(StrictSubsetOrdering(S), SUBSET S)
  BY FS_StrictSubsetOrderingWellFounded, FS_FiniteSubsetsOfFinite
<1>2. PICK T \in C : \A U \in C : ~ (<<U, T>> \in StrictSubsetOrdering(S))
  BY <1>1, WFMin
<1> QED BY <1>2 DEF StrictSubsetOrdering

\* Quotient and remainder.
LEMMA DivisionBy ==
  ASSUME NEW a \in Nat, NEW n \in Nat \ {0}
  PROVE  /\ a \div n \in Nat /\ a % n \in 0 .. n - 1
         /\ a = n * (a \div n) + (a % n)
  OBVIOUS

\* A non-empty set of natural numbers has a least element.
LEMMA LeastNumber ==
  ASSUME NEW C \in SUBSET Nat, C # {}
  PROVE  \E m \in C : \A n \in C : m <= n
<1>1. PICK m \in C : \A n \in C : ~ (<<n, m>> \in OpToRel(<, Nat))
  BY NatLessThanWellFounded, WFMin
<1>2. \A n \in C : <<n, m>> \in OpToRel(<, Nat) <=> n < m
  BY DEF OpToRel
<1>3. \A n \in C : m <= n
  <2> TAKE n \in C
  <2>1. n \in Nat /\ m \in Nat /\ ~ (n < m)
    BY <1>1, <1>2
  <2> QED BY <2>1
<1> QED BY <1>3

\* A function defined by recursion over the subsets of a finite set: c says which element
\* is taken off, F what is made of it and of the value for the rest.
IsFold(g, S, V, base, F, c) ==
  /\ g \in [SUBSET S -> V]
  /\ \A s \in SUBSET S : g[s] = IF s = {} THEN base ELSE F[<<c[s], g[s \ {c[s]}]>>]

\* There is one.
LEMMA FoldExists ==
  ASSUME NEW S, IsFiniteSet(S), NEW V, NEW base \in V, NEW F \in [S \X V -> V],
         NEW c, \A s \in SUBSET S : s # {} => c[s] \in s
  PROVE  \E g : IsFold(g, S, V, base, F, c)
<1> DEFINE Small(n) == {s \in SUBSET S : Cardinality(s) <= n}
           Value(g, s) == IF s = {} THEN base ELSE F[<<c[s], g[s \ {c[s]}]>>]
           Solves(g, n) == g \in [Small(n) -> V] /\ \A s \in Small(n) : g[s] = Value(g, s)
           Bad == {n \in Nat : ~ \E g : Solves(g, n)}
<1>1. ASSUME NEW s \in SUBSET S
      PROVE  /\ Cardinality(s) \in Nat /\ Cardinality(s) <= Cardinality(S)
             /\ Cardinality(s) = 0 <=> s = {}
             /\ s # {} => /\ c[s] \in S /\ s \ {c[s]} \in SUBSET S
                          /\ Cardinality(s \ {c[s]}) = Cardinality(s) - 1
  <2>1. IsFiniteSet(s) /\ Cardinality(s) <= Cardinality(S)
    BY FS_Subset
  <2>2. Cardinality(s) \in Nat /\ (Cardinality(s) = 0 <=> s = {})
    BY <2>1, FS_CardinalityType, FS_EmptySet
  <2>3. s # {} => Cardinality(s \ {c[s]}) = Cardinality(s) - 1
    BY <2>1, FS_RemoveElement
  <2> QED BY <2>1, <2>2, <2>3
<1>2. ASSUME NEW n \in Nat, NEW s \in Small(n)
      PROVE  /\ s \in SUBSET S /\ Cardinality(s) \in Nat /\ Cardinality(s) <= n
             /\ n = 0 => s = {}
             /\ s # {} => c[s] \in S /\ s \ {c[s]} \in Small(n - 1)
  <2>1. s \in SUBSET S /\ Cardinality(s) <= n
    OBVIOUS
  <2> QED BY <1>1, <2>1
<1>3. Bad = {}
  <2> SUFFICES ASSUME Bad # {} PROVE FALSE
    OBVIOUS
  <2>1. Bad \in SUBSET Nat
    OBVIOUS
  <2> HIDE DEF Bad
  <2>2. PICK m \in Bad : \A n \in Bad : m <= n
    BY <2>1, LeastNumber
  <2>3. m \in Nat /\ ~ \E g : Solves(g, m)
    BY <2>2 DEF Bad
  <2> HIDE DEF Solves, Small
  <2>4. CASE m = 0
    <3> DEFINE g == [s \in Small(0) |-> base]
    <3>1. Solves(g, 0)
      BY <1>2 DEF Solves
    <3> HIDE DEF g
    <3> QED BY <2>3, <2>4, <3>1
  <2>5. CASE m # 0
    <3>1. m - 1 \in Nat /\ m - 1 < m
      BY <2>3, <2>5
    <3>2. m - 1 \notin Bad
      BY <2>2, <2>3, <3>1
    <3>3. PICK g : Solves(g, m - 1)
      BY <3>1, <3>2 DEF Bad
    <3> DEFINE h == [s \in Small(m) |-> Value(g, s)]
    <3>4. Small(m - 1) \subseteq Small(m)
      <4> SUFFICES ASSUME NEW s \in Small(m - 1) PROVE s \in Small(m)
        OBVIOUS
      <4>1. s \in SUBSET S /\ Cardinality(s) \in Nat /\ Cardinality(s) <= m - 1
        BY <1>2, <3>1
      <4>2. Cardinality(s) <= m
        BY <2>3, <4>1
      <4> QED BY <4>1, <4>2 DEF Small
    <3>5. h \in [Small(m) -> V]
      <4> SUFFICES ASSUME NEW s \in Small(m), s # {} PROVE F[<<c[s], g[s \ {c[s]}]>>] \in V
        OBVIOUS
      <4>1. c[s] \in S /\ g[s \ {c[s]}] \in V
        BY <1>2, <2>3, <3>3 DEF Solves
      <4> QED BY <4>1
    <3>6. \A s \in Small(m - 1) : g[s] = h[s]
      BY <3>3, <3>4 DEF Solves
    <3>7. \A s \in Small(m) : h[s] = Value(h, s)
      <4> SUFFICES ASSUME NEW s \in Small(m), s # {} PROVE g[s \ {c[s]}] = h[s \ {c[s]}]
        OBVIOUS
      <4>1. s \ {c[s]} \in Small(m - 1)
        BY <1>2, <2>3
      <4> HIDE DEF h
      <4> QED BY <3>6, <4>1
    <3>8. Solves(h, m)
      <4> HIDE DEF h
      <4> QED BY <3>5, <3>7 DEF Solves
    <3> HIDE DEF h
    <3> QED BY <2>3, <3>8
  <2> QED BY <2>4, <2>5
<1>4. Cardinality(S) \in Nat /\ Small(Cardinality(S)) = SUBSET S
  BY <1>1, FS_CardinalityType
<1>5. PICK g : Solves(g, Cardinality(S))
  BY <1>3, <1>4
<1> QED BY <1>4, <1>5 DEF IsFold
=============================================================================
