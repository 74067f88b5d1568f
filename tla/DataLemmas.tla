------------------------------ MODULE DataLemmas ------------------------------
(***************************************************************************)
(* What the operators of the community modules that the models use give,   *)
(* for any sequence of sequences and any finite set.  Induction over data  *)
(* is stated with a set in place of a predicate, which the provers can     *)
(* instantiate, and rests on < being well-founded on the naturals.         *)
(***************************************************************************)
EXTENDS Integers, SequencesExt, SequenceTheorems, FiniteSetTheorems,
        WellFoundedInduction, TLAPS

\* A set of naturals that is not empty has a least element.
LEMMA LeastNatural ==
    ASSUME NEW T, T \subseteq Nat, T # {}
    PROVE  \E x \in T : \A y \in T : x <= y
<1>1. \A a, b \in Nat : a < b => <<a, b>> \in OpToRel(<, Nat)
  BY DEF OpToRel
<1> DEFINE R == OpToRel(<, Nat)
<1>2. IsWellFoundedOn(R, Nat)
  BY NatLessThanWellFounded
<1> HIDE DEF R
<1>3. PICK x \in T : \A y \in T : ~(<<y, x>> \in R)
  BY <1>2, WFMin
<1>4. \A y \in T : ~(y < x)
  BY <1>1, <1>3 DEF R
<1>5. QED
  BY <1>4

\* Induction on the naturals.
LEMMA NatSetInduction ==
    ASSUME NEW T, 0 \in T, \A n \in Nat : n \in T => n + 1 \in T
    PROVE  Nat \subseteq T
<1>1. SUFFICES ASSUME Nat \ T # {} PROVE FALSE
  OBVIOUS
<1>2. PICK x \in Nat \ T : \A y \in Nat \ T : x <= y
  BY <1>1, LeastNatural
<1>3. x # 0 /\ x - 1 \in Nat /\ ~(x <= x - 1)
  BY <1>2
<1>4. x - 1 \in T
  BY <1>2, <1>3
<1>5. (x - 1) + 1 = x
  BY <1>2
<1>6. QED
  BY <1>2, <1>3, <1>4, <1>5

\* The function FlattenSeq chooses: flatten[i] joins the first i sequences.
Flattens(flatten, seqs, n) ==
    flatten = [i \in 1..n |-> IF i = 1 THEN seqs[i] ELSE flatten[i - 1] \o seqs[i]]

LEMMA FlattenExists ==
    ASSUME NEW seqs, NEW n \in Nat
    PROVE  \E flatten : Flattens(flatten, seqs, n)
<1> DEFINE T == {k \in Nat : \E flatten : Flattens(flatten, seqs, k)}
<1>1. 0 \in T
  <2>1. Flattens([i \in 1..0 |-> 0], seqs, 0)
    BY DEF Flattens
  <2>2. QED
    BY <2>1
<1>2. ASSUME NEW k \in Nat, k \in T
      PROVE  k + 1 \in T
  <2>1. PICK f : Flattens(f, seqs, k)
    BY <1>2
  <2> DEFINE g == [i \in 1..(k + 1) |->
                      IF i <= k THEN f[i]
                      ELSE IF i = 1 THEN seqs[i] ELSE f[i - 1] \o seqs[i]]
  <2>2. ASSUME NEW i \in 1..(k + 1)
        PROVE  g[i] = IF i = 1 THEN seqs[i] ELSE g[i - 1] \o seqs[i]
    <3>1. CASE i <= k
      <4>1. i \in 1..k /\ g[i] = f[i]
        BY <3>1
      <4>2. f[i] = IF i = 1 THEN seqs[i] ELSE f[i - 1] \o seqs[i]
        BY <2>1, <4>1 DEF Flattens
      <4>3. i # 1 => i - 1 \in 1..(k + 1) /\ i - 1 <= k
        BY <3>1
      <4>4. i # 1 => g[i - 1] = f[i - 1]
        BY <4>3
      <4>5. QED
        BY <4>1, <4>2, <4>4
    <3>2. CASE ~(i <= k)
      <4>1. g[i] = IF i = 1 THEN seqs[i] ELSE f[i - 1] \o seqs[i]
        BY <3>2
      <4>2. i # 1 => i - 1 \in 1..(k + 1) /\ i - 1 <= k
        OBVIOUS
      <4>3. i # 1 => g[i - 1] = f[i - 1]
        BY <4>2
      <4>4. QED
        BY <4>1, <4>3
    <3>3. QED
      BY <3>1, <3>2
  <2>3. g = [i \in 1..(k + 1) |-> g[i]]
    OBVIOUS
  <2> HIDE DEF g
  <2>4. Flattens(g, seqs, k + 1)
    BY <2>2, <2>3 DEF Flattens
  <2>5. QED
    BY <2>4
<1> HIDE DEF T
<1>3. Nat \subseteq T
  BY <1>1, <1>2, NatSetInduction
<1>4. QED
  BY <1>3 DEF T

LEMMA FlattenSeqDef ==
    ASSUME NEW seqs, Len(seqs) \in Nat \ {0}
    PROVE  \E flatten : /\ Flattens(flatten, seqs, Len(seqs))
                        /\ FlattenSeq(seqs) = flatten[Len(seqs)]
<1> DEFINE flatten == CHOOSE f : f = [i \in 1..Len(seqs) |->
                                       IF i = 1 THEN seqs[i] ELSE f[i - 1] \o seqs[i]]
<1>1. FlattenSeq(seqs) = flatten[Len(seqs)]
  BY DEF FlattenSeq
<1>2. \E f : f = [i \in 1..Len(seqs) |-> IF i = 1 THEN seqs[i] ELSE f[i - 1] \o seqs[i]]
  BY FlattenExists DEF Flattens
<1>3. flatten = [i \in 1..Len(seqs) |-> IF i = 1 THEN seqs[i] ELSE flatten[i - 1] \o seqs[i]]
  BY <1>2
<1> HIDE DEF flatten
<1>4. Flattens(flatten, seqs, Len(seqs))
  BY <1>3 DEF Flattens
<1>5. QED
  BY <1>1, <1>4

\* Joining two sequences joins their ranges.
LEMMA ConcatRange ==
    ASSUME NEW S, NEW s \in Seq(S), NEW t \in Seq(S)
    PROVE  s \o t \in Seq(S) /\ Range(s \o t) = Range(s) \cup Range(t)
<1>1. /\ s \o t \in Seq(S)
      /\ Len(s \o t) = Len(s) + Len(t)
      /\ \A i \in 1..(Len(s) + Len(t)) :
            (s \o t)[i] = IF i <= Len(s) THEN s[i] ELSE t[i - Len(s)]
  BY ConcatProperties
<1>2. /\ Len(s) \in Nat /\ DOMAIN s = 1..Len(s)
      /\ Len(t) \in Nat /\ DOMAIN t = 1..Len(t)
      /\ DOMAIN (s \o t) = 1..(Len(s) + Len(t))
  BY <1>1, LenProperties
<1>3. ASSUME NEW x \in Range(s \o t)
      PROVE  x \in Range(s) \cup Range(t)
  <2>1. PICK i \in 1..(Len(s) + Len(t)) : x = (s \o t)[i]
    BY <1>2, <1>3 DEF Range
  <2>2. CASE i <= Len(s)
    BY <1>1, <1>2, <2>1, <2>2 DEF Range
  <2>3. CASE ~(i <= Len(s))
    <3>1. i - Len(s) \in 1..Len(t)
      BY <1>2, <2>3
    <3>2. QED
      BY <1>1, <1>2, <2>1, <2>3, <3>1 DEF Range
  <2>4. QED
    BY <2>2, <2>3
<1>4. ASSUME NEW x \in Range(s)
      PROVE  x \in Range(s \o t)
  <2>1. PICK i \in 1..Len(s) : x = s[i]
    BY <1>2, <1>4 DEF Range
  <2>2. i \in 1..(Len(s) + Len(t)) /\ x = (s \o t)[i]
    BY <1>1, <1>2, <2>1
  <2>3. QED
    BY <1>2, <2>2 DEF Range
<1>5. ASSUME NEW x \in Range(t)
      PROVE  x \in Range(s \o t)
  <2>1. PICK i \in 1..Len(t) : x = t[i]
    BY <1>2, <1>5 DEF Range
  <2>2. i + Len(s) \in 1..(Len(s) + Len(t)) /\ ~(i + Len(s) <= Len(s))
        /\ (i + Len(s)) - Len(s) = i
    BY <1>2, <2>1
  <2>3. x = (s \o t)[i + Len(s)]
    BY <1>1, <2>1, <2>2
  <2>4. QED
    BY <1>2, <2>2, <2>3 DEF Range
<1>6. QED
  BY <1>1, <1>3, <1>4, <1>5

\* FlattenSeq keeps the type of the elements, and exactly the elements.
LEMMA FlattenRange ==
    ASSUME NEW S, NEW seqs \in Seq(Seq(S))
    PROVE  /\ FlattenSeq(seqs) \in Seq(S)
           /\ Range(FlattenSeq(seqs)) = UNION {Range(seqs[i]) : i \in 1..Len(seqs)}
<1>0. Len(seqs) \in Nat /\ \A i \in 1..Len(seqs) : seqs[i] \in Seq(S)
  BY LenProperties, ElementOfSeq
<1>1. CASE Len(seqs) = 0
  <2>1. seqs = <<>>
    BY <1>0, <1>1, EmptySeq
  <2>2. FlattenSeq(seqs) = <<>>
    BY <1>1, <2>1 DEF FlattenSeq
  <2>3. <<>> \in Seq(S) /\ Range(<<>>) = {}
    BY DEF Range
  <2>4. UNION {Range(seqs[i]) : i \in 1..Len(seqs)} = {}
    BY <1>1
  <2>5. QED
    BY <2>2, <2>3, <2>4
<1>2. CASE Len(seqs) # 0
  <2>1. PICK f : Flattens(f, seqs, Len(seqs)) /\ FlattenSeq(seqs) = f[Len(seqs)]
    BY <1>0, <1>2, FlattenSeqDef
  <2>2. \A i \in 1..Len(seqs) : f[i] = IF i = 1 THEN seqs[i] ELSE f[i - 1] \o seqs[i]
    BY <2>1 DEF Flattens
  <2> DEFINE Joined(k) == UNION {Range(seqs[i]) : i \in 1..k}
             T == {k \in Nat : k \in 1..Len(seqs) =>
                                 f[k] \in Seq(S) /\ Range(f[k]) = Joined(k)}
  <2>3. 0 \in T
    OBVIOUS
  <2>4. ASSUME NEW k \in Nat, k \in T
        PROVE  k + 1 \in T
    <3>1. SUFFICES ASSUME k + 1 \in 1..Len(seqs)
                   PROVE  f[k + 1] \in Seq(S) /\ Range(f[k + 1]) = Joined(k + 1)
      OBVIOUS
    <3>2. CASE k = 0
      <4>1. f[1] = seqs[1] /\ 1 \in 1..Len(seqs)
        BY <2>2, <3>1, <3>2
      <4>2. Joined(1) = Range(seqs[1])
        OBVIOUS
      <4>3. QED
        BY <1>0, <3>2, <4>1, <4>2
    <3>3. CASE k # 0
      <4>1. k \in 1..Len(seqs) /\ k + 1 # 1 /\ (k + 1) - 1 = k
        BY <1>0, <3>1, <3>3
      <4>2. f[k] \in Seq(S) /\ Range(f[k]) = Joined(k)
        BY <2>4, <4>1
      <4>3. f[k + 1] = f[k] \o seqs[k + 1]
        BY <2>2, <3>1, <4>1
      <4>4. seqs[k + 1] \in Seq(S)
        BY <1>0, <3>1
      <4>5. Joined(k + 1) = Joined(k) \cup Range(seqs[k + 1])
        <5>1. 1..(k + 1) = (1..k) \cup {k + 1}
          BY <4>1
        <5>2. QED
          BY <5>1
      <4> HIDE DEF Joined, T
      <4>6. f[k] \o seqs[k + 1] \in Seq(S)
            /\ Range(f[k] \o seqs[k + 1]) = Range(f[k]) \cup Range(seqs[k + 1])
        BY <4>2, <4>4, ConcatRange
      <4>7. QED
        BY <4>2, <4>3, <4>5, <4>6
    <3>4. QED
      BY <3>2, <3>3
  <2> HIDE DEF T
  <2>5. Nat \subseteq T
    BY <2>3, <2>4, NatSetInduction
  <2>6. Len(seqs) \in 1..Len(seqs) /\ Len(seqs) \in T
    BY <1>0, <1>2, <2>5
  <2>7. QED
    BY <2>1, <2>6 DEF T
<1>3. QED
  BY <1>1, <1>2

\* A finite set put into a sequence: each element once.
LEMMA SetToSeqProperties ==
    ASSUME NEW S, IsFiniteSet(S)
    PROVE  SetToSeq(S) \in Seq(S) /\ Range(SetToSeq(S)) = S
<1>1. Cardinality(S) \in Nat /\ ExistsBijection(1..Cardinality(S), S)
  BY FS_CardinalityType
<1>2. \E f \in [1..Cardinality(S) -> S] : IsInjective(f)
  BY <1>1 DEF ExistsBijection, Bijection, Injection
<1>3. SetToSeq(S) \in [1..Cardinality(S) -> S] /\ IsInjective(SetToSeq(S))
  BY <1>2 DEF SetToSeq
<1>4. SetToSeq(S) \in Injection(1..Cardinality(S), S)
  BY <1>3 DEF Injection
<1>5. Cardinality(1..Cardinality(S)) = Cardinality(S)
  BY <1>1, FS_Interval
<1>6. SetToSeq(S) \in Surjection(1..Cardinality(S), S)
  BY <1>4, <1>5, FS_Injection
<1>7. SetToSeq(S) \in Seq(S)
  BY <1>1, <1>3, SeqDef
<1>8. QED
  BY <1>3, <1>6, <1>7 DEF Surjection, Range
=============================================================================
