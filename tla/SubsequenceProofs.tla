-------------------------- MODULE SubsequenceProofs --------------------------
(***************************************************************************)
(* What Pick returns, for every sequence: it is a sequence of picked       *)
(* elements, nothing is lost when everything is picked, and it can be      *)
(* taken from the sequence without its last element.                       *)
(***************************************************************************)
EXTENDS Subsequences, FiniteSetTheorems, SequenceTheorems, TLAPS

(* The first n places are n.                                               *)
LEMMA InitialInterval ==
    ASSUME NEW n \in Nat
    PROVE  IsFiniteSet(1..n) /\ Cardinality(1..n) = n
<1>1. /\ IsFiniteSet(1..n)
      /\ Cardinality(1..n) = IF 1 > n THEN 0 ELSE n - 1 + 1
    BY FS_Interval
<1>2. n = IF 1 > n THEN 0 ELSE n - 1 + 1
    OBVIOUS
<1> QED
    BY <1>1, <1>2

(* Every place has one position.                                           *)
LEMMA RankIsOneToOne ==
    ASSUME NEW n \in Nat, NEW I \in SUBSET (1..n)
    PROVE  /\ IsFiniteSet(I)
           /\ Cardinality(I) \in Nat
           /\ \A i \in I : Rank(I, i) \in 1..Cardinality(I)
           /\ \A i, j \in I : Rank(I, i) = Rank(I, j) => i = j
           /\ \A m \in 1..Cardinality(I) : \E i \in I : Rank(I, i) = m
<1> DEFINE B(i) == {j \in I : j <= i}
<1>1. IsFiniteSet(I) /\ Cardinality(I) \in Nat
    <2>1. IsFiniteSet(1..n)
        BY InitialInterval
    <2>2. IsFiniteSet(I)
        BY <2>1, FS_Subset
    <2> QED
        BY <2>2, FS_CardinalityType
<1>2. ASSUME NEW i \in I
      PROVE  /\ IsFiniteSet(B(i))
             /\ Rank(I, i) \in 1..Cardinality(I)
    <2>1. /\ IsFiniteSet(B(i))
          /\ Cardinality(B(i)) <= Cardinality(I)
          /\ Cardinality(B(i)) \in Nat
        BY <1>1, FS_Subset, FS_CardinalityType
    <2>2. i \in B(i)
        OBVIOUS
    <2>3. Cardinality(B(i)) # 0
        BY <2>1, <2>2, FS_EmptySet
    <2> QED
        BY <1>1, <2>1, <2>3 DEF Rank
<1>3. ASSUME NEW i \in I, NEW j \in I, i < j PROVE Rank(I, i) < Rank(I, j)
    <2>0. i \in Nat /\ j \in Nat /\ \A k \in I : k \in Nat
        OBVIOUS
    <2>a. ASSUME NEW k \in B(i) PROVE k \in B(j)
        <3>1. k \in I /\ k <= i
            OBVIOUS
        <3> QED
            BY <1>3, <2>0, <3>1
    <2>b. j <= j /\ ~ (j <= i)
        BY <1>3, <2>0
    <2>1. B(i) \subseteq B(j) /\ j \in B(j) /\ j \notin B(i)
        BY <2>a, <2>b
    <2>2. /\ Cardinality(B(i)) <= Cardinality(B(j))
          /\ Cardinality(B(i)) # Cardinality(B(j))
        BY <1>2, <2>1, FS_Subset
    <2> QED
        BY <1>2, <2>2 DEF Rank
<1>4. ASSUME NEW i \in I, NEW j \in I, Rank(I, i) = Rank(I, j) PROVE i = j
    <2>1. i \in Nat /\ j \in Nat
        OBVIOUS
    <2>2. Rank(I, i) \in 1..Cardinality(I) /\ Rank(I, j) \in 1..Cardinality(I)
        BY <1>2
    <2> QED
        BY <1>1, <1>3, <1>4, <2>1, <2>2
<1>5. ASSUME NEW m \in 1..Cardinality(I) PROVE \E i \in I : Rank(I, i) = m
    <2> DEFINE f == [i \in I |-> Rank(I, i)]
               C == 1..Cardinality(I)
    <2>1. f \in Injection(I, C)
        BY <1>2, <1>4 DEF Injection, IsInjective
    <2>2. IsFiniteSet(C) /\ Cardinality(C) = Cardinality(I)
        BY <1>1, InitialInterval
    <2>3. f \in Surjection(I, C)
        BY <1>1, <2>1, <2>2, FS_Injection
    <2> QED
        BY <2>3 DEF Surjection
<1> QED
    BY <1>1, <1>2, <1>4, <1>5

(* An element that is picked stands at the place of its position.          *)
LEMMA PickAt ==
    ASSUME NEW S, NEW s \in Seq(S), NEW I \in SUBSET (1..Len(s))
    PROVE  /\ Pick(s, I) \in Seq({s[i] : i \in I})
           /\ Len(Pick(s, I)) = Cardinality(I)
           /\ \A i \in I : /\ Rank(I, i) \in 1..Cardinality(I)
                           /\ Pick(s, I)[Rank(I, i)] = s[i]
<1>1. Len(s) \in Nat
    OBVIOUS
<1> DEFINE N == Cardinality(I)
           at(m) == CHOOSE i \in I : Rank(I, i) = m
<1>2. N \in Nat
    BY <1>1, RankIsOneToOne
<1>3. ASSUME NEW m \in 1..N PROVE at(m) \in I /\ Rank(I, at(m)) = m
    BY <1>1, RankIsOneToOne
<1>4. ASSUME NEW i \in I PROVE Rank(I, i) \in 1..N /\ at(Rank(I, i)) = i
    <2>1. Rank(I, i) \in 1..N
        BY <1>1, RankIsOneToOne
    <2> QED
        BY <1>1, <1>3, <2>1, RankIsOneToOne
<1>5. Pick(s, I) = [m \in 1..N |-> s[at(m)]]
    BY DEF Pick
<1> HIDE DEF at
<1>6. Pick(s, I) \in [1..N -> {s[i] : i \in I}]
    BY <1>3, <1>5
<1>7. Pick(s, I) \in Seq({s[i] : i \in I}) /\ Len(Pick(s, I)) = N
    BY <1>2, <1>6, IsASeq, LenProperties
<1> QED
    BY <1>4, <1>5, <1>7

(* A sequence of which everything is picked stays as it is.                *)
LEMMA PickAll ==
    ASSUME NEW S, NEW s \in Seq(S)
    PROVE  Pick(s, 1..Len(s)) = s
<1> DEFINE I == 1..Len(s)
<1>0. Len(s) \in Nat
    OBVIOUS
<1>1. Len(s) \in Nat /\ Cardinality(I) = Len(s)
    BY <1>0, InitialInterval
<1>2. ASSUME NEW i \in I PROVE Rank(I, i) = i
    <2>1. {j \in I : j <= i} = 1..i
        BY <1>1
    <2>2. Cardinality(1..i) = i
        BY <1>1, InitialInterval
    <2> QED
        BY <2>1, <2>2 DEF Rank
<1>3. ASSUME NEW i \in I PROVE Pick(s, I)[i] = s[i]
    <2>1. Pick(s, I)[Rank(I, i)] = s[i]
        BY PickAt
    <2> QED
        BY <1>2, <2>1
<1>4. DOMAIN Pick(s, I) = 1..Len(s)
    BY <1>1 DEF Pick
<1>5. Pick(s, I) \in Seq({s[i] : i \in I}) /\ Len(Pick(s, I)) = Len(s)
    BY <1>1, PickAt
<1> QED
    BY <1>1, <1>3, <1>5, SeqEqual

(* The last element of a sequence is the last one that is picked, or none. *)
LEMMA PickLast ==
    ASSUME NEW S, NEW s \in Seq(S), Len(s) >= 1,
           NEW I \in SUBSET (1..Len(s))
    PROVE  LET n     == Len(s)
               front == SubSeq(s, 1, n - 1)
           IN  Pick(s, I) = Pick(front, I \ {n}) \o
                            (IF n \in I THEN <<s[n]>> ELSE <<>>)
<1> DEFINE n     == Len(s)
           front == SubSeq(s, 1, n - 1)
           J     == I \ {n}
           last  == IF n \in I THEN <<s[n]>> ELSE <<>>
           whole == Pick(front, J) \o last
<1>1. n \in Nat /\ n >= 1 /\ n - 1 \in Nat
    OBVIOUS
<1>2. /\ front \in Seq(S)
      /\ Len(front) = n - 1
      /\ \A i \in 1..(n - 1) : front[i] = s[i]
    <2>1. \A i \in 1..(n - 1) : s[i] \in S
        BY <1>1, ElementOfSeq
    <2>2. 1 \in Int /\ n - 1 \in Int
        BY <1>1
    <2> HIDE DEF n
    <2>3. /\ front \in Seq(S)
          /\ Len(front) = IF 1 <= n - 1 THEN (n - 1) - 1 + 1 ELSE 0
          /\ \A i \in 1..((n - 1) - 1 + 1) : front[i] = s[1 + i - 1]
        BY <2>1, <2>2, SubSeqProperties
    <2> HIDE DEF front
    <2> QED
        BY <1>1, <2>3
<1> HIDE DEF front
<1>3. J \subseteq 1..Len(front)
    <2> SUFFICES ASSUME NEW i \in J PROVE i \in 1..(n - 1)
        BY <1>2
    <2>1. i \in 1..n /\ i # n
        OBVIOUS
    <2> HIDE DEF n
    <2> QED
        BY <1>1, <2>1
<1>4. s[n] \in S \/ n \notin I
    BY ElementOfSeq
<1>5. last \in Seq(S) /\ Len(last) = (IF n \in I THEN 1 ELSE 0)
    BY <1>4
<1> HIDE DEF last
<1>6. IsFiniteSet(I) /\ Cardinality(I) \in Nat
    BY <1>1, RankIsOneToOne
<1>7. /\ IsFiniteSet(J)
      /\ Cardinality(J) \in Nat
      /\ Cardinality(I) = Cardinality(J) + Len(last)
    <2>1. IsFiniteSet(J) /\ Cardinality(J) \in Nat
        BY <1>6, FS_Subset, FS_CardinalityType
    <2>2. CASE n \in I
        BY <1>5, <1>6, <2>1, <2>2, FS_RemoveElement
    <2>3. CASE n \notin I
        <3>1. Cardinality(J) = Cardinality(I)
            <4>1. J = I
                BY <2>3
            <4> HIDE DEF J
            <4> QED
                BY <4>1
        <3>2. Len(last) = 0
            BY <1>5, <2>3
        <3> HIDE DEF J
        <3> QED
            BY <1>6, <2>1, <3>1, <3>2
    <2> QED
        BY <2>1, <2>2, <2>3
<1>8. /\ Pick(s, I) \in Seq(S)
      /\ Len(Pick(s, I)) = Cardinality(I)
      /\ Pick(front, J) \in Seq(S)
      /\ Len(Pick(front, J)) = Cardinality(J)
    <2>1. {s[i] : i \in I} \subseteq S /\ {front[i] : i \in J} \subseteq S
        BY <1>2, <1>3, ElementOfSeq
    <2>2. /\ Pick(s, I) \in Seq({s[i] : i \in I})
          /\ Len(Pick(s, I)) = Cardinality(I)
        BY PickAt
    <2>3. /\ Pick(front, J) \in Seq({front[i] : i \in J})
          /\ Len(Pick(front, J)) = Cardinality(J)
        BY <1>2, <1>3, PickAt
    <2> QED
        BY <2>1, <2>2, <2>3, SeqMonotonic
<1>9. /\ whole \in Seq(S)
      /\ Len(whole) = Cardinality(I)
      /\ \A m \in 1..Cardinality(I) :
            whole[m] = IF m <= Cardinality(J) THEN Pick(front, J)[m]
                                              ELSE last[m - Cardinality(J)]
    <2> DEFINE p == Pick(front, J)
    <2>1. p \in Seq(S) /\ Len(p) = Cardinality(J)
        BY <1>8
    <2>2. whole = p \o last
        OBVIOUS
    <2> HIDE DEF J, p, whole
    <2>3. /\ whole \in Seq(S)
          /\ Len(whole) = Len(p) + Len(last)
          /\ \A m \in 1..(Len(p) + Len(last)) :
                whole[m] = IF m <= Len(p) THEN p[m] ELSE last[m - Len(p)]
        BY <1>5, <2>1, <2>2, ConcatProperties
    <2> QED
        BY <1>7, <2>1, <2>3 DEF p
<1>10. ASSUME NEW i \in J PROVE Rank(I, i) = Rank(J, i)
    <2>1. i \in Nat /\ i < n
        BY <1>1, <1>2, <1>3
    <2>2. {j \in I : j <= i} = {j \in J : j <= i}
        BY <1>1, <2>1
    <2> QED
        BY <2>2 DEF Rank
<1>11. n \in I => Rank(I, n) = Cardinality(I)
    <2>1. \A j \in I : j <= n
        BY <1>1
    <2>2. {j \in I : j <= n} = I
        BY <2>1
    <2> QED
        BY <2>2 DEF Rank
<1> HIDE DEF J, last, whole
<1>12. ASSUME NEW m \in 1..Cardinality(I) PROVE Pick(s, I)[m] = whole[m]
    <2>1. PICK i \in I : Rank(I, i) = m
        BY <1>1, RankIsOneToOne
    <2>2. Pick(s, I)[m] = s[i]
        BY <2>1, PickAt
    <2>3. CASE i = n
        <3>1. m = Cardinality(I) /\ n \in I
            BY <1>11, <2>1, <2>3
        <3>2. last = <<s[n]>> /\ Cardinality(I) = Cardinality(J) + 1
            BY <1>5, <1>7, <3>1 DEF last
        <3>3. whole[m] = last[1]
            BY <1>7, <1>9, <3>1, <3>2
        <3> QED
            BY <2>2, <2>3, <3>2, <3>3
    <2>4. CASE i # n
        <3>1. i \in J
            BY <2>4 DEF J
        <3>2. /\ Rank(J, i) \in 1..Cardinality(J)
              /\ Pick(front, J)[Rank(J, i)] = front[i]
            BY <1>2, <1>3, <3>1, PickAt
        <3>3. m \in 1..Cardinality(J) /\ Pick(front, J)[m] = s[i]
            BY <1>2, <1>3, <1>10, <2>1, <3>1, <3>2
        <3> QED
            BY <1>7, <1>9, <2>2, <3>3
    <2> QED
        BY <2>3, <2>4
<1>13. Pick(s, I) = whole
    BY <1>6, <1>8, <1>9, <1>12, SeqEqual
<1> QED
    BY <1>13 DEF whole, last, front, J

=============================================================================
