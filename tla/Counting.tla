------------------------------ MODULE Counting ------------------------------
(***************************************************************************)
(* Lemmas about the sets and sequences the models keep their objects in,   *)
(* for the proofs: how a step that concerns one element changes a          *)
(* cardinality, and what Append and Tail do to the elements of a queue.    *)
(***************************************************************************)
EXTENDS Integers, Sequences, FiniteSets, SequencesExt, FiniteSetTheorems,
        SequenceTheorems, TLAPS

(* Sets that differ in x at most have cardinalities that differ by x.      *)
LEMMA CardinalityStep ==
  ASSUME NEW S, NEW T, NEW x, IsFiniteSet(S), S \ {x} = T \ {x}
  PROVE  /\ IsFiniteSet(T)
         /\ Cardinality(S) \in Nat /\ Cardinality(T) \in Nat
         /\ Cardinality(T) = Cardinality(S) + (IF x \in T THEN 1 ELSE 0)
                                            - (IF x \in S THEN 1 ELSE 0)
<1>1. IsFiniteSet(S \ {x}) /\ Cardinality(S \ {x}) \in Nat
  BY FS_RemoveElement, FS_CardinalityType
<1>2. Cardinality(S) = Cardinality(S \ {x}) + (IF x \in S THEN 1 ELSE 0)
  BY <1>1, FS_RemoveElement, FS_CardinalityType
<1>3. T = IF x \in T THEN (S \ {x}) \cup {x} ELSE S \ {x}
  OBVIOUS
<1>4. IsFiniteSet(T) /\ Cardinality(T) = Cardinality(S \ {x}) + (IF x \in T THEN 1 ELSE 0)
  BY <1>1, <1>3, FS_AddElement
<1> QED
  BY <1>1, <1>2, <1>4, FS_CardinalityType

-----------------------------------------------------------------------------
(* The elements of a queue that grows at its end and shrinks at its head.  *)
LEMMA AppendElements ==
  ASSUME NEW S, NEW q \in Seq(S), NEW x \in S
  PROVE  /\ Append(q, x) \in Seq(S)
         /\ Range(Append(q, x)) = Range(q) \cup {x}
         /\ IsInjective(q) /\ x \notin Range(q) => IsInjective(Append(q, x))
<1>1. /\ Append(q, x) \in Seq(S) /\ Len(Append(q, x)) = Len(q) + 1
      /\ \A i \in 1..Len(q) : Append(q, x)[i] = q[i]
      /\ Append(q, x)[Len(q) + 1] = x
  OBVIOUS
<1>2. DOMAIN q = 1..Len(q) /\ DOMAIN Append(q, x) = 1..(Len(q) + 1) /\ Len(q) \in Nat
  BY <1>1
<1>3. Range(Append(q, x)) = Range(q) \cup {x}
  BY <1>1, <1>2 DEF Range
<1>4. IsInjective(q) /\ x \notin Range(q) => IsInjective(Append(q, x))
  BY <1>1, <1>2 DEF Range, IsInjective
<1> QED
  BY <1>1, <1>3, <1>4

LEMMA TailElements ==
  ASSUME NEW S, NEW q \in Seq(S), q # <<>>
  PROVE  /\ Head(q) \in S /\ Head(q) \in Range(q) /\ Tail(q) \in Seq(S)
         /\ Range(q) = Range(Tail(q)) \cup {Head(q)}
         /\ IsInjective(q) => /\ IsInjective(Tail(q))
                              /\ Range(Tail(q)) = Range(q) \ {Head(q)}
<1>1. /\ Tail(q) \in Seq(S) /\ Len(q) \in Nat /\ Len(q) > 0
      /\ Len(Tail(q)) = Len(q) - 1
      /\ \A i \in 1..(Len(q) - 1) : Tail(q)[i] = q[i + 1]
      /\ Head(q) = q[1] /\ q[1] \in S
  OBVIOUS
<1>2. DOMAIN q = 1..Len(q) /\ DOMAIN Tail(q) = 1..(Len(q) - 1)
  BY <1>1
<1>3. Range(q) = Range(Tail(q)) \cup {Head(q)}
  <2>1. ASSUME NEW i \in 1..Len(q), q[i] # Head(q)
        PROVE  \E j \in DOMAIN Tail(q) : q[i] = Tail(q)[j]
    <3>1. i - 1 \in DOMAIN Tail(q) /\ q[i] = Tail(q)[i - 1]
      BY <1>1, <1>2, <2>1
    <3> QED
      BY <3>1
  <2>2. \A i \in 1..(Len(q) - 1) : i + 1 \in 1..Len(q)
    BY <1>1
  <2>3. Range(q) \subseteq Range(Tail(q)) \cup {Head(q)}
    BY <1>2, <2>1, Zenon DEF Range
  <2>4. Range(Tail(q)) \cup {Head(q)} \subseteq Range(q)
    BY <1>1, <1>2, <2>2 DEF Range
  <2> QED
    BY <2>3, <2>4
<1>4. ASSUME IsInjective(q)
      PROVE  IsInjective(Tail(q)) /\ Head(q) \notin Range(Tail(q))
  BY <1>1, <1>2, <1>4 DEF Range, IsInjective
<1> QED
  BY <1>1, <1>3, <1>4

(* A sequence has none but elements of its set.                            *)
LEMMA RangeInSet ==
  ASSUME NEW S, NEW q \in Seq(S)
  PROVE  Range(q) \subseteq S
BY DEF Range

(* An element is in a sequence that holds nothing twice once or not at all. *)
LEMMA CountElement ==
  ASSUME NEW S, NEW q \in Seq(S), NEW e, IsInjective(q)
  PROVE  Cardinality({n \in 1..Len(q) : q[n] = e}) = IF e \in Range(q) THEN 1 ELSE 0
<1> DEFINE At == {n \in 1..Len(q) : q[n] = e}
<1>1. DOMAIN q = 1..Len(q)
  OBVIOUS
<1>2. CASE e \in Range(q)
  <2>1. PICK m \in 1..Len(q) : q[m] = e
    BY <1>1, <1>2 DEF Range
  <2>2. At = {m}
    BY <1>1, <2>1 DEF IsInjective
  <2> QED
    BY <1>2, <2>2, FS_Singleton
<1>3. CASE e \notin Range(q)
  <2>1. At = {}
    BY <1>1, <1>3 DEF Range
  <2> QED
    BY <1>3, <2>1, FS_EmptySet
<1> QED
  BY <1>2, <1>3

(* The sequence a pool is filled with.                                     *)
LEMMA SetToSeqElements ==
  ASSUME NEW S, IsFiniteSet(S)
  PROVE  /\ SetToSeq(S) \in Seq(S)
         /\ IsInjective(SetToSeq(S))
         /\ Range(SetToSeq(S)) = S
<1> DEFINE n == Cardinality(S)
           f == SetToSeq(S)
<1>1. n \in Nat /\ ExistsBijection(1..n, S)
  BY FS_CardinalityType
<1>2. \E g \in [1..n -> S] : IsInjective(g)
  BY <1>1 DEF ExistsBijection, Bijection, Injection
<1>3. f \in [1..n -> S] /\ IsInjective(f)
  BY <1>2 DEF SetToSeq
<1>4. f \in Injection(1..n, S)
  BY <1>3 DEF Injection
<1>5. Cardinality(1..n) = n
  BY <1>1, FS_Interval
<1>6. f \in Surjection(1..n, S)
  BY <1>4, <1>5, FS_Injection
<1>7. Range(f) = S
  BY <1>3, <1>6 DEF Surjection, Range
<1> QED
  BY <1>1, <1>3, <1>7

(* A set that is mapped one to one into another is no larger, and it       *)
(* covers the other when it is as large.                                   *)
LEMMA OneToOne ==
  ASSUME NEW S, NEW T, NEW f \in [S -> T], IsFiniteSet(T),
         \A a, b \in S : f[a] = f[b] => a = b
  PROVE  /\ IsFiniteSet(S) /\ Cardinality(S) \in Nat /\ Cardinality(T) \in Nat
         /\ Cardinality(S) <= Cardinality(T)
         /\ Cardinality(S) = Cardinality(T) => \A t \in T : \E a \in S : f[a] = t
<1>1. f \in Injection(S, T)
  BY DEF Injection, IsInjective
<1> QED
  BY <1>1, FS_Injection, FS_CardinalityType DEF Surjection

(* How often an element is in a queue, and how that changes when the queue *)
(* grows or shrinks by one.                                                *)
HowOften(q, e) == Cardinality({i \in DOMAIN q : q[i] = e})

LEMMA CountAppend ==
  ASSUME NEW S, NEW q \in Seq(S), NEW x \in S, NEW e
  PROVE  /\ HowOften(q, e) \in Nat
         /\ HowOften(Append(q, x), e) = HowOften(q, e) + (IF x = e THEN 1 ELSE 0)
<1> DEFINE a == Append(q, x)
           A == {i \in DOMAIN q : q[i] = e}
           B == {i \in DOMAIN a : a[i] = e}
           n == Len(q) + 1
<1>1. /\ Len(q) \in Nat /\ DOMAIN q = 1..Len(q) /\ DOMAIN a = 1..n
      /\ \A i \in 1..Len(q) : a[i] = q[i]
      /\ a[n] = x
  OBVIOUS
<1>2. IsFiniteSet(A)
  <2>1. IsFiniteSet(1..Len(q)) /\ A \subseteq 1..Len(q)
    BY <1>1, FS_Interval
  <2> QED
    BY <2>1, FS_Subset
<1>3. n \notin A /\ (n \in B <=> x = e) /\ A \ {n} = B \ {n}
  BY <1>1
<1> HIDE DEF A, B, n
<1>4. /\ Cardinality(A) \in Nat /\ Cardinality(B) \in Nat
      /\ Cardinality(B) = Cardinality(A) + (IF n \in B THEN 1 ELSE 0)
                                         - (IF n \in A THEN 1 ELSE 0)
  BY <1>2, <1>3, CardinalityStep
<1>5. Cardinality(A) \in Nat /\ Cardinality(B) = Cardinality(A) + (IF x = e THEN 1 ELSE 0)
  BY <1>3, <1>4
<1> QED
  BY <1>5 DEF A, B, HowOften

LEMMA CountTail ==
  ASSUME NEW S, NEW q \in Seq(S), q # <<>>, NEW e
  PROVE  /\ HowOften(q, e) \in Nat
         /\ HowOften(Tail(q), e) = HowOften(q, e) - (IF Head(q) = e THEN 1 ELSE 0)
<1> DEFINE b == Tail(q)
           A == {i \in DOMAIN q : q[i] = e}
           B == {i \in DOMAIN b : b[i] = e}
           C == A \ {1}
           up == [i \in B |-> i + 1]
           down == [i \in C |-> i - 1]
<1>1. /\ Len(q) \in Nat /\ Len(q) > 0 /\ DOMAIN q = 1..Len(q)
      /\ DOMAIN b = 1..(Len(q) - 1)
      /\ \A i \in 1..(Len(q) - 1) : b[i] = q[i + 1]
      /\ Head(q) = q[1]
  OBVIOUS
<1>2. IsFiniteSet(A)
  <2>1. IsFiniteSet(1..Len(q)) /\ A \subseteq 1..Len(q)
    BY <1>1, FS_Interval
  <2> QED
    BY <2>1, FS_Subset
<1>3. up \in [B -> C] /\ \A i, j \in B : up[i] = up[j] => i = j
  BY <1>1
<1>4. down \in [C -> B] /\ \A i, j \in C : down[i] = down[j] => i = j
  <2>1. ASSUME NEW i \in C
        PROVE  i - 1 \in B
    <3>1. i \in 1..Len(q) /\ i # 1 /\ q[i] = e
      BY <1>1
    <3>2. i - 1 \in 1..(Len(q) - 1) /\ (i - 1) + 1 = i
      BY <1>1, <3>1
    <3>3. b[i - 1] = q[i]
      BY <1>1, <3>2
    <3> QED
      BY <1>1, <3>1, <3>2, <3>3
  <2> QED
    BY <1>1, <2>1
<1>5. (1 \in A <=> Head(q) = e) /\ A \ {1} = C \ {1} /\ 1 \notin C
  BY <1>1
<1> HIDE DEF A, B, C, up, down
<1>6. /\ IsFiniteSet(C) /\ Cardinality(A) \in Nat /\ Cardinality(C) \in Nat
      /\ Cardinality(C) = Cardinality(A) + (IF 1 \in C THEN 1 ELSE 0)
                                         - (IF 1 \in A THEN 1 ELSE 0)
  BY <1>2, <1>5, CardinalityStep
<1>7. IsFiniteSet(B) /\ Cardinality(B) \in Nat /\ Cardinality(B) <= Cardinality(C)
  BY <1>3, <1>6, OneToOne
<1>8. Cardinality(C) <= Cardinality(B)
  BY <1>4, <1>7, OneToOne
<1>9. /\ Cardinality(A) \in Nat
      /\ Cardinality(B) = Cardinality(A) - (IF Head(q) = e THEN 1 ELSE 0)
  BY <1>5, <1>6, <1>7, <1>8
<1> QED
  BY <1>9 DEF A, B, HowOften

-----------------------------------------------------------------------------
(* The elements of parts of sequences, and of sequences put together.      *)
LEMMA Part ==
  ASSUME NEW S, NEW q \in Seq(S), NEW m \in Nat, NEW n \in Nat,
         1 <= m, m <= n + 1, n <= Len(q)
  PROVE  /\ SubSeq(q, m, n) \in Seq(S) /\ Len(SubSeq(q, m, n)) = n + 1 - m
         /\ \A j \in 1..(n + 1 - m) : SubSeq(q, m, n)[j] = q[m + j - 1]
<1>1. Len(q) \in Nat /\ \A j \in m..n : q[j] \in S
  OBVIOUS
<1>2. /\ SubSeq(q, m, n) \in Seq(S) /\ Len(SubSeq(q, m, n)) = IF m <= n THEN n - m + 1 ELSE 0
      /\ \A j \in 1..(n - m + 1) : SubSeq(q, m, n)[j] = q[m + j - 1]
  BY <1>1, SubSeqProperties
<1> QED
  BY <1>2

LEMMA Together ==
  ASSUME NEW S, NEW a \in Seq(S), NEW b \in Seq(S)
  PROVE  /\ a \o b \in Seq(S) /\ Len(a) \in Nat /\ Len(b) \in Nat
         /\ Len(a \o b) = Len(a) + Len(b)
         /\ \A j \in 1..Len(a) : (a \o b)[j] = a[j]
         /\ \A j \in 1..Len(b) : (a \o b)[Len(a) + j] = b[j]
<1>1. Len(a) \in Nat /\ Len(b) \in Nat
  OBVIOUS
<1>2. /\ a \o b \in Seq(S) /\ Len(a \o b) = Len(a) + Len(b)
      /\ \A i \in 1..(Len(a) + Len(b)) : (a \o b)[i] = IF i <= Len(a) THEN a[i] ELSE b[i - Len(a)]
  BY ConcatProperties
<1>3. ASSUME NEW j \in 1..Len(b)
      PROVE  (a \o b)[Len(a) + j] = b[j]
  <2>1. Len(a) + j \in 1..(Len(a) + Len(b)) /\ ~(Len(a) + j <= Len(a)) /\ (Len(a) + j) - Len(a) = j
    BY <1>1
  <2> QED
    BY <1>2, <2>1
<1>4. ASSUME NEW j \in 1..Len(a)
      PROVE  (a \o b)[j] = a[j]
  BY <1>1, <1>2
<1> QED
  BY <1>1, <1>2, <1>3, <1>4

(* A sequence with an element more, at place p, or with one less.          *)
LEMMA InsertElements ==
  ASSUME NEW S, NEW q \in Seq(S), NEW e \in S, NEW p \in 1..(Len(q) + 1)
  PROVE  /\ InsertAt(q, p, e) \in Seq(S) /\ Len(InsertAt(q, p, e)) = Len(q) + 1
         /\ \A j \in 1..(Len(q) + 1) :
              InsertAt(q, p, e)[j] = IF j < p THEN q[j] ELSE IF j = p THEN e ELSE q[j - 1]
         /\ Range(InsertAt(q, p, e)) = Range(q) \cup {e}
         /\ IsInjective(q) /\ e \notin Range(q) => IsInjective(InsertAt(q, p, e))
<1> DEFINE front == SubSeq(q, 1, p - 1)
           back == SubSeq(q, p, Len(q))
           start == front \o <<e>>
           r == InsertAt(q, p, e)
<1>1. Len(q) \in Nat /\ DOMAIN q = 1..Len(q) /\ p \in Nat /\ p >= 1 /\ p <= Len(q) + 1
  OBVIOUS
<1>2. front \in Seq(S) /\ Len(front) = p - 1 /\ \A j \in 1..(p - 1) : front[j] = q[j]
  BY <1>1, Part
<1>3. /\ back \in Seq(S) /\ Len(back) = Len(q) + 1 - p
      /\ \A j \in 1..(Len(q) + 1 - p) : back[j] = q[p + j - 1]
  BY <1>1, Part
<1>4. r = start \o back
  BY DEF InsertAt
<1>5. /\ start \in Seq(S) /\ Len(start) = p /\ start[p] = e
      /\ \A j \in 1..(p - 1) : start[j] = q[j]
  <2> HIDE DEF front
  <2> QED
    BY <1>1, <1>2
<1> HIDE DEF front, back, start, r
<1>6. /\ r \in Seq(S) /\ Len(r) = p + Len(back)
      /\ \A j \in 1..p : r[j] = start[j]
      /\ \A j \in 1..Len(back) : r[p + j] = back[j]
  <2>1. /\ start \o back \in Seq(S) /\ Len(start \o back) = Len(start) + Len(back)
        /\ \A j \in 1..Len(start) : (start \o back)[j] = start[j]
        /\ \A j \in 1..Len(back) : (start \o back)[Len(start) + j] = back[j]
    <3>1. start \in Seq(S) /\ back \in Seq(S)
      BY <1>3, <1>5
    <3> QED
      BY <3>1, Together
  <2> QED
    BY <1>4, <1>5, <2>1
<1>6a. r \in Seq(S) /\ Len(r) = Len(q) + 1
  BY <1>1, <1>3, <1>6
<1>7. ASSUME NEW j \in 1..(Len(q) + 1)
      PROVE  r[j] = IF j < p THEN q[j] ELSE IF j = p THEN e ELSE q[j - 1]
  <2>1. CASE j <= p
    BY <1>1, <1>5, <1>6, <2>1
  <2>2. CASE j > p
    <3>1. PICK i \in 1..(Len(q) + 1 - p) : j = p + i
      <4>1. j - p \in 1..(Len(q) + 1 - p) /\ j = p + (j - p)
        BY <1>1, <2>2
      <4> QED
        BY <4>1
    <3>2. r[j] = back[i] /\ back[i] = q[p + i - 1]
      BY <1>3, <1>6, <3>1
    <3> QED
      BY <1>1, <2>2, <3>1, <3>2
  <2> QED
    BY <1>1, <2>1, <2>2
<1>8. DOMAIN r = 1..(Len(q) + 1)
  BY <1>6a
<1>9. Range(r) = Range(q) \cup {e}
  <2>1. ASSUME NEW j \in 1..(Len(q) + 1)
        PROVE  r[j] \in Range(q) \cup {e}
    <3>1. CASE j = p
      BY <1>7, <3>1
    <3>2. CASE j < p
      BY <1>1, <1>7, <3>2 DEF Range
    <3>3. CASE j > p
      <4>1. j - 1 \in 1..Len(q) /\ r[j] = q[j - 1]
        BY <1>1, <1>7, <3>3
      <4> QED
        BY <1>1, <4>1 DEF Range
    <3> QED
      BY <1>1, <3>1, <3>2, <3>3
  <2>2. ASSUME NEW j \in 1..Len(q)
        PROVE  q[j] \in Range(r)
    <3>1. CASE j < p
      <4>1. j \in 1..(Len(q) + 1) /\ r[j] = q[j]
        BY <1>1, <1>7, <3>1
      <4> QED
        BY <1>8, <4>1 DEF Range
    <3>2. CASE j >= p
      <4>1. j + 1 \in 1..(Len(q) + 1) /\ r[j + 1] = q[j]
        BY <1>1, <1>7, <3>2
      <4> QED
        BY <1>8, <4>1 DEF Range
    <3> QED
      BY <1>1, <3>1, <3>2
  <2>3. e \in Range(r)
    BY <1>1, <1>7, <1>8 DEF Range
  <2>4. Range(r) \subseteq Range(q) \cup {e}
    BY <1>8, <2>1 DEF Range
  <2>5. Range(q) \subseteq Range(r)
    BY <1>1, <2>2 DEF Range
  <2> QED
    BY <2>3, <2>4, <2>5
<1>10. ASSUME IsInjective(q), e \notin Range(q)
       PROVE  IsInjective(r)
  <2>1. \A i \in 1..Len(q) : q[i] # e
    BY <1>1, <1>10 DEF Range
  <2>2. \A i, j \in 1..Len(q) : q[i] = q[j] => i = j
    BY <1>1, <1>10 DEF IsInjective
  <2>3. ASSUME NEW i \in 1..(Len(q) + 1), NEW j \in 1..(Len(q) + 1), r[i] = r[j]
        PROVE  i = j
    BY <1>1, <1>7, <2>1, <2>2, <2>3
  <2> QED
    BY <1>8, <2>3 DEF IsInjective
<1> QED
  BY <1>6a, <1>7, <1>9, <1>10 DEF r

LEMMA RemoveElements ==
  ASSUME NEW S, NEW q \in Seq(S), NEW p \in 1..Len(q)
  PROVE  /\ RemoveAt(q, p) \in Seq(S) /\ Len(RemoveAt(q, p)) = Len(q) - 1
         /\ \A j \in 1..(Len(q) - 1) : RemoveAt(q, p)[j] = IF j < p THEN q[j] ELSE q[j + 1]
         /\ IsInjective(q) => /\ IsInjective(RemoveAt(q, p))
                              /\ Range(RemoveAt(q, p)) = Range(q) \ {q[p]}
<1> DEFINE front == SubSeq(q, 1, p - 1)
           back == SubSeq(q, p + 1, Len(q))
           r == RemoveAt(q, p)
<1>1. Len(q) \in Nat /\ DOMAIN q = 1..Len(q) /\ p \in Nat /\ p >= 1 /\ p <= Len(q)
  OBVIOUS
<1>2. front \in Seq(S) /\ Len(front) = p - 1 /\ \A j \in 1..(p - 1) : front[j] = q[j]
  BY <1>1, Part
<1>3. /\ back \in Seq(S) /\ Len(back) = Len(q) - p
      /\ \A j \in 1..(Len(q) - p) : back[j] = q[p + j]
  <2>1. p + 1 \in Nat /\ 1 <= p + 1 /\ p + 1 <= Len(q) + 1
    BY <1>1
  <2>2. /\ back \in Seq(S) /\ Len(back) = Len(q) + 1 - (p + 1)
        /\ \A j \in 1..(Len(q) + 1 - (p + 1)) : back[j] = q[p + 1 + j - 1]
    BY <1>1, <2>1, Part
  <2>3. Len(q) + 1 - (p + 1) = Len(q) - p
    <3>1. \A m, n \in Nat : m + 1 - (n + 1) = m - n
      OBVIOUS
    <3> QED
      BY <1>1, <3>1
  <2>4. ASSUME NEW j \in 1..(Len(q) - p)
        PROVE  back[j] = q[p + j]
    <3>1. p + 1 + j - 1 = p + j
      BY <1>1
    <3>2. back[j] = q[p + 1 + j - 1]
      BY <2>2, <2>3
    <3> QED
      BY <3>1, <3>2
  <2> QED
    BY <2>2, <2>3, <2>4
<1>4. r = front \o back
  BY DEF RemoveAt
<1> HIDE DEF front, back, r
<1>5. /\ r \in Seq(S) /\ Len(r) = p - 1 + Len(back)
      /\ \A j \in 1..(p - 1) : r[j] = front[j]
      /\ \A j \in 1..Len(back) : r[p - 1 + j] = back[j]
  <2>1. /\ front \o back \in Seq(S) /\ Len(front \o back) = Len(front) + Len(back)
        /\ \A j \in 1..Len(front) : (front \o back)[j] = front[j]
        /\ \A j \in 1..Len(back) : (front \o back)[Len(front) + j] = back[j]
    <3>1. front \in Seq(S) /\ back \in Seq(S)
      BY <1>2, <1>3
    <3> QED
      BY <3>1, Together
  <2> QED
    BY <1>2, <1>4, <2>1
<1>5a. r \in Seq(S) /\ Len(r) = Len(q) - 1
  BY <1>1, <1>3, <1>5
<1>6. ASSUME NEW j \in 1..(Len(q) - 1)
      PROVE  r[j] = IF j < p THEN q[j] ELSE q[j + 1]
  <2>1. CASE j < p
    BY <1>1, <1>2, <1>5, <2>1
  <2>2. CASE j >= p
    <3>1. PICK i \in 1..(Len(q) - p) : j = p - 1 + i
      <4>1. j - p + 1 \in 1..(Len(q) - p) /\ j = p - 1 + (j - p + 1)
        BY <1>1, <2>2
      <4> QED
        BY <4>1
    <3>2. r[j] = back[i] /\ back[i] = q[p + i]
      BY <1>3, <1>5, <3>1
    <3> QED
      BY <1>1, <2>2, <3>1, <3>2
  <2> QED
    BY <1>1, <2>1, <2>2
<1>7. DOMAIN r = 1..(Len(q) - 1)
  BY <1>5a
<1>8. ASSUME IsInjective(q)
      PROVE  IsInjective(r) /\ Range(r) = Range(q) \ {q[p]}
  <2>1. \A i, j \in 1..Len(q) : q[i] = q[j] => i = j
    BY <1>1, <1>8 DEF IsInjective
  <2>2. ASSUME NEW i \in 1..(Len(q) - 1), NEW j \in 1..(Len(q) - 1), r[i] = r[j]
        PROVE  i = j
    BY <1>1, <1>6, <2>1, <2>2
  <2>3. ASSUME NEW j \in 1..(Len(q) - 1)
        PROVE  r[j] \in Range(q) \ {q[p]}
    <3>1. PICK i \in 1..Len(q) : i # p /\ r[j] = q[i]
      BY <1>1, <1>6
    <3> QED
      BY <1>1, <2>1, <3>1 DEF Range
  <2>4. ASSUME NEW j \in 1..Len(q), q[j] # q[p]
        PROVE  q[j] \in Range(r)
    <3>1. \E i \in 1..(Len(q) - 1) : r[i] = q[j]
      <4>1. CASE j < p
        BY <1>1, <1>6, <4>1
      <4>2. CASE j > p
        <5>1. j - 1 \in 1..(Len(q) - 1) /\ r[j - 1] = q[j]
          BY <1>1, <1>6, <4>2
        <5> QED
          BY <5>1
      <4> QED
        BY <1>1, <2>4, <4>1, <4>2
    <3> QED
      BY <1>7, <3>1 DEF Range
  <2>5. Range(r) \subseteq Range(q) \ {q[p]}
    BY <1>7, <2>3 DEF Range
  <2>6. Range(q) \ {q[p]} \subseteq Range(r)
    BY <1>1, <2>4 DEF Range
  <2> QED
    BY <1>7, <2>2, <2>5, <2>6 DEF IsInjective
<1> QED
  BY <1>5a, <1>6, <1>8 DEF r

(* A set of numbers up to n that has every smaller number too is counted   *)
(* through by its cardinality.                                             *)
LEMMA CountedThrough ==
  ASSUME NEW n \in Nat, NEW P \in SUBSET (1..n), \A i \in P : 1..i \subseteq P
  PROVE  Cardinality(P) \in 0..n /\ P = 1..Cardinality(P)
<1> DEFINE c == Cardinality(P)
<1>0. IsFiniteSet(1..n) /\ Cardinality(1..n) = n
  BY FS_Interval
<1>1. IsFiniteSet(P) /\ c \in Nat /\ c <= n
  BY <1>0, FS_Subset, FS_CardinalityType, ZenonT(30)
<1>2. ASSUME NEW i \in P
      PROVE  i <= c
  <2>1. 1..i \subseteq P /\ Cardinality(1..i) = i
    BY FS_Interval
  <2> QED
    BY <1>1, <2>1, FS_Subset
<1>3. P \subseteq 1..c
  BY <1>1, <1>2
<1>4. IsFiniteSet(1..c) /\ Cardinality(1..c) = c
  BY <1>1, FS_Interval
<1>5. P = 1..c
  BY <1>3, <1>4, FS_Subset
<1> QED
  BY <1>1, <1>5

=============================================================================
