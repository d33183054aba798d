----------------------------- MODULE SeqCounting -----------------------------
(***************************************************************************)
(* How many elements of a sequence lie in a set, and what appending and     *)
(* taking one does to that number; which of them is the newest before a     *)
(* place, and what becomes of it.  The event queues of BlePeripheral,       *)
(* BleDemo and WifiProv are reasoned about this way.                        *)
(***************************************************************************)
EXTENDS Integers, Sequences, FiniteSets, FiniteSetTheorems, SequenceTheorems, TLAPS

\* The places of q whose element lies in P, and their number.
Places(q, P) == {i \in DOMAIN q : q[i] \in P}
Count(q, P) == Cardinality(Places(q, P))
One(e, P) == IF e \in P THEN 1 ELSE 0

\* A sequence has finitely many places, so their number is a number.
LEMMA CountFinite ==
  ASSUME NEW S, NEW P, NEW q \in Seq(S)
  PROVE  IsFiniteSet(Places(q, P)) /\ Count(q, P) \in Nat
<1>1. Len(q) \in Nat /\ DOMAIN q = 1..Len(q)
  BY LenProperties
<1>2. IsFiniteSet(1..Len(q))
  BY <1>1, FS_Interval
<1>3. Places(q, P) \in SUBSET (1..Len(q))
  BY <1>1 DEF Places
<1>4. IsFiniteSet(Places(q, P))
  BY <1>2, <1>3, FS_Subset
<1> QED BY <1>4, FS_CardinalityType DEF Count

\* Appending an element adds it to the count, if it lies in the set.
LEMMA CountAppend ==
  ASSUME NEW S, NEW P, NEW q \in Seq(S), NEW e \in S
  PROVE  Count(Append(q, e), P) = Count(q, P) + One(e, P)
<1> DEFINE r == Append(q, e)
<1>1. /\ r \in Seq(S) /\ Len(r) = Len(q) + 1 /\ Len(q) \in Nat
      /\ \A i \in 1..Len(q) : r[i] = q[i]
      /\ r[Len(q) + 1] = e
  BY AppendProperties, LenProperties
<1>2. DOMAIN q = 1..Len(q) /\ DOMAIN r = 1..(Len(q) + 1)
  BY <1>1, LenProperties
<1> HIDE DEF r
<1>3. CASE e \in P
  <2>1. Places(r, P) = Places(q, P) \cup {Len(q) + 1}
    BY <1>1, <1>2, <1>3 DEF Places
  <2>2. Len(q) + 1 \notin Places(q, P)
    BY <1>1, <1>2 DEF Places
  <2>3. Cardinality(Places(q, P) \cup {Len(q) + 1}) = Cardinality(Places(q, P)) + 1
    BY <2>2, CountFinite, FS_AddElement
  <2> QED BY <1>3, <2>1, <2>3 DEF Count, One, r
<1>4. CASE e \notin P
  <2>1. Places(r, P) = Places(q, P)
    BY <1>1, <1>2, <1>4 DEF Places
  <2> QED BY <1>4, <2>1, CountFinite DEF Count, One, r
<1> QED BY <1>3, <1>4

\* Taking the first element takes it from the count, if it lies in the set.
LEMMA CountTail ==
  ASSUME NEW S, NEW P, NEW q \in Seq(S), q # <<>>
  PROVE  Count(q, P) = Count(Tail(q), P) + One(Head(q), P)
<1> DEFINE r == Tail(q)
<1>1. /\ r \in Seq(S) /\ Len(r) = Len(q) - 1 /\ Len(q) \in Nat /\ Len(r) \in Nat
      /\ \A i \in 1..Len(r) : r[i] = q[i + 1]
  BY HeadTailProperties, LenProperties
<1>2. /\ DOMAIN q = 1..Len(q) /\ DOMAIN r = 1..Len(r)
      /\ Len(q) > 0 /\ Head(q) = q[1]
  BY <1>1, LenProperties, EmptySeq
<1> HIDE DEF r
<1> DEFINE f == [i \in Places(r, P) |-> i + 1]
<1>3. ExistsBijection(Places(r, P), Places(q, P) \ {1})
  <2>1. f \in [Places(r, P) -> Places(q, P) \ {1}]
    BY <1>1, <1>2 DEF Places
  <2>2. \A i, j \in Places(r, P) : f[i] = f[j] => i = j
    BY <1>1, <1>2 DEF Places
  <2>3. \A k \in Places(q, P) \ {1} : \E i \in Places(r, P) : f[i] = k
    <3> SUFFICES ASSUME NEW k \in Places(q, P) \ {1} PROVE \E i \in Places(r, P) : f[i] = k
      OBVIOUS
    <3>1. k \in 2..Len(q) /\ q[k] \in P
      BY <1>1, <1>2 DEF Places
    <3>2. k - 1 \in 1..Len(r) /\ r[k - 1] = q[k - 1 + 1] /\ k - 1 + 1 = k
      BY <1>1, <3>1
    <3>3. k - 1 \in Places(r, P)
      BY <1>2, <3>1, <3>2 DEF Places
    <3> QED BY <3>2, <3>3
  <2>4. f \in Bijection(Places(r, P), Places(q, P) \ {1})
    BY <2>1, <2>2, <2>3
       DEF Bijection, Injection, Surjection, IsInjective
  <2> QED BY <2>4 DEF ExistsBijection
<1>4. Cardinality(Places(q, P) \ {1}) = Count(r, P)
  BY <1>1, <1>3, CountFinite, FS_Bijection DEF Count
<1>5. Cardinality(Places(q, P) \ {1}) =
        IF 1 \in Places(q, P) THEN Cardinality(Places(q, P)) - 1 ELSE Cardinality(Places(q, P))
  BY CountFinite, FS_RemoveElement
<1>6. 1 \in Places(q, P) <=> Head(q) \in P
  BY <1>1, <1>2 DEF Places
<1>7. Count(q, P) \in Nat /\ Count(r, P) \in Nat
  BY <1>1, CountFinite
<1> QED BY <1>4, <1>5, <1>6, <1>7 DEF Count, One, r

-----------------------------------------------------------------------------
\* The newest element of P before place i of q (a set of one, or none), and whether there
\* is none.
Newest(q, P, i) ==
  {q[j] : j \in {m \in 1..i - 1 : q[m] \in P /\ \A k \in m + 1..i - 1 : q[k] \notin P}}
NoneBefore(q, P, i) == \A k \in 1..i - 1 : q[k] \notin P

\* The newest element is an element of the sequence that lies in the set.
LEMMA NewestElement ==
  ASSUME NEW S, NEW P, NEW q \in Seq(S)
  PROVE  \A i \in 1..Len(q) + 1 : \A e \in Newest(q, P, i) :
           e \in P /\ e \in S /\ \E j \in 1..Len(q) : e = q[j]
<1> SUFFICES ASSUME NEW i \in 1..Len(q) + 1, NEW e \in Newest(q, P, i)
             PROVE  e \in P /\ e \in S /\ \E j \in 1..Len(q) : e = q[j]
  OBVIOUS
<1>1. Len(q) \in Nat
  BY LenProperties
<1>2. PICK j \in 1..i - 1 : e = q[j] /\ q[j] \in P
  BY DEF Newest
<1>3. j \in 1..Len(q)
  BY <1>1
<1> QED BY <1>2, <1>3, ElementOfSeq

\* Appending leaves the places before alone, and the new element is the newest at the end.
LEMMA NewestAppend ==
  ASSUME NEW S, NEW P, NEW q \in Seq(S), NEW e \in S
  PROVE  LET r == Append(q, e) IN
         /\ r \in Seq(S) /\ Len(r) = Len(q) + 1 /\ Len(q) \in Nat
         /\ \A i \in 1..Len(q) : r[i] = q[i]
         /\ r[Len(q) + 1] = e
         /\ \A i \in 1..Len(q) + 1 : /\ Newest(r, P, i) = Newest(q, P, i)
                                     /\ NoneBefore(r, P, i) <=> NoneBefore(q, P, i)
         /\ e \in P => /\ Newest(r, P, Len(r) + 1) = {e}
                       /\ ~NoneBefore(r, P, Len(r) + 1)
         /\ e \notin P => /\ Newest(r, P, Len(r) + 1) = Newest(q, P, Len(q) + 1)
                          /\ NoneBefore(r, P, Len(r) + 1) <=> NoneBefore(q, P, Len(q) + 1)
<1> DEFINE r == Append(q, e)
           n == Len(q)
<1>1. /\ r \in Seq(S) /\ Len(r) = n + 1 /\ n \in Nat
      /\ \A i \in 1..n : r[i] = q[i]
      /\ r[n + 1] = e
  BY AppendProperties, LenProperties
<1> HIDE DEF r, n
<1>2. ASSUME NEW i \in 1..n + 1
      PROVE  /\ Newest(r, P, i) = Newest(q, P, i)
             /\ NoneBefore(r, P, i) <=> NoneBefore(q, P, i)
  <2>1. \A k \in 1..i - 1 : r[k] = q[k] /\ \A m \in k + 1..i - 1 : r[m] = q[m]
    BY <1>1
  <2> QED BY <2>1 DEF Newest, NoneBefore
<1>3. ASSUME e \in P
      PROVE  Newest(r, P, Len(r) + 1) = {e} /\ ~NoneBefore(r, P, Len(r) + 1)
  <2>1. n + 1 \in 1..Len(r) + 1 - 1 /\ r[n + 1] \in P
    BY <1>1, <1>3
  <2>2. \A m \in 1..Len(r) + 1 - 1 :
          (r[m] \in P /\ \A k \in m + 1..Len(r) + 1 - 1 : r[k] \notin P) <=> m = n + 1
    <3> SUFFICES ASSUME NEW m \in 1..Len(r) + 1 - 1
                 PROVE  (r[m] \in P /\ \A k \in m + 1..Len(r) + 1 - 1 : r[k] \notin P) <=> m = n + 1
      OBVIOUS
    <3>1. m # n + 1 => n + 1 \in m + 1..Len(r) + 1 - 1
      BY <1>1
    <3>2. m = n + 1 => m + 1..Len(r) + 1 - 1 = {}
      BY <1>1
    <3> QED BY <2>1, <3>1, <3>2
  <2>3. Newest(r, P, Len(r) + 1) = {r[n + 1]}
    BY <2>1, <2>2 DEF Newest
  <2> QED BY <1>1, <2>1, <2>3 DEF NoneBefore
<1>4. ASSUME e \notin P
      PROVE  /\ Newest(r, P, Len(r) + 1) = Newest(q, P, n + 1)
             /\ NoneBefore(r, P, Len(r) + 1) <=> NoneBefore(q, P, n + 1)
  <2>1. 1..Len(r) + 1 - 1 = 1..n + 1 - 1 \cup {n + 1} /\ 1..n + 1 - 1 = 1..n
    BY <1>1
  <2>2. r[n + 1] \notin P
    BY <1>1, <1>4
  <2>3. \A m \in 1..n : m + 1..Len(r) + 1 - 1 = (m + 1..n + 1 - 1) \cup {n + 1}
    BY <1>1
  <2>4. \A m \in 1..n : \A k \in m + 1..n + 1 - 1 : r[k] = q[k] /\ r[m] = q[m]
    BY <1>1
  <2>5. \A m \in 1..n : (\A k \in m + 1..Len(r) + 1 - 1 : r[k] \notin P)
                        <=> (\A k \in m + 1..n + 1 - 1 : q[k] \notin P)
    BY <2>2, <2>3, <2>4
  <2>6. {m \in 1..Len(r) + 1 - 1 : r[m] \in P /\ \A k \in m + 1..Len(r) + 1 - 1 : r[k] \notin P}
        = {m \in 1..n + 1 - 1 : q[m] \in P /\ \A k \in m + 1..n + 1 - 1 : q[k] \notin P}
    BY <1>1, <2>1, <2>2, <2>5
  <2>7. Newest(r, P, Len(r) + 1) = Newest(q, P, n + 1)
    BY <1>1, <2>1, <2>6 DEF Newest
  <2>8. NoneBefore(r, P, Len(r) + 1) <=> NoneBefore(q, P, n + 1)
    BY <1>1, <2>1, <2>2 DEF NoneBefore
  <2> QED BY <2>7, <2>8
<1> QED BY <1>1, <1>2, <1>3, <1>4 DEF r, n

\* Taking the first element: it was the newest only where nothing newer follows.
LEMMA NewestTail ==
  ASSUME NEW S, NEW P, NEW q \in Seq(S), q # <<>>
  PROVE  LET r == Tail(q) IN
         /\ r \in Seq(S) /\ Len(q) = Len(r) + 1 /\ Len(r) \in Nat /\ Head(q) \in S /\ Head(q) = q[1]
         /\ \A i \in 1..Len(r) : r[i] = q[i + 1]
         /\ \A i \in 1..Len(r) + 1 :
              /\ Newest(r, P, i) \subseteq Newest(q, P, i + 1)
              /\ NoneBefore(r, P, i) /\ Head(q) \notin P => NoneBefore(q, P, i + 1)
              /\ NoneBefore(r, P, i) /\ Head(q) \in P => Head(q) \in Newest(q, P, i + 1)
<1> DEFINE r == Tail(q)
<1>1. /\ r \in Seq(S) /\ Len(r) = Len(q) - 1 /\ Len(q) \in Nat /\ Len(r) \in Nat
      /\ \A i \in 1..Len(r) : r[i] = q[i + 1]
      /\ Head(q) \in S
  BY HeadTailProperties, LenProperties
<1>2. Head(q) = q[1] /\ Len(q) = Len(r) + 1
  BY <1>1
<1> HIDE DEF r
<1>3. ASSUME NEW i \in 1..Len(r) + 1
      PROVE  /\ Newest(r, P, i) \subseteq Newest(q, P, i + 1)
             /\ NoneBefore(r, P, i) /\ Head(q) \notin P => NoneBefore(q, P, i + 1)
             /\ NoneBefore(r, P, i) /\ Head(q) \in P => Head(q) \in Newest(q, P, i + 1)
  <2>0. i \in Nat /\ i + 1 - 1 = i
    OBVIOUS
  <2>1. ASSUME NEW e \in Newest(r, P, i) PROVE e \in Newest(q, P, i + 1)
    <3>1. PICK m \in 1..i - 1 : e = r[m] /\ r[m] \in P /\ \A k \in m + 1..i - 1 : r[k] \notin P
      BY <2>1 DEF Newest
    <3>2. m + 1 \in 1..i + 1 - 1 /\ q[m + 1] = e /\ q[m + 1] \in P
      BY <1>1, <3>1
    <3>3. \A k \in (m + 1) + 1..i + 1 - 1 : q[k] \notin P
      <4> SUFFICES ASSUME NEW k \in (m + 1) + 1..i + 1 - 1 PROVE q[k] \notin P
        OBVIOUS
      <4>1. k - 1 \in m + 1..i - 1 /\ k - 1 \in 1..Len(r) /\ k - 1 + 1 = k
        BY <1>1
      <4> QED BY <1>1, <3>1, <4>1
    <3> QED BY <3>2, <3>3 DEF Newest
  <2>2. ASSUME NoneBefore(r, P, i) PROVE \A k \in 2..i : q[k] \notin P
    <3> SUFFICES ASSUME NEW k \in 2..i PROVE q[k] \notin P
      OBVIOUS
    <3>1. k - 1 \in 1..i - 1 /\ k - 1 \in 1..Len(r) /\ k - 1 + 1 = k
      BY <1>1
    <3> QED BY <1>1, <2>2, <3>1 DEF NoneBefore
  <2>3. ASSUME NoneBefore(r, P, i), Head(q) \notin P PROVE NoneBefore(q, P, i + 1)
    <3>1. \A k \in 1..i + 1 - 1 : k = 1 \/ k \in 2..i
      OBVIOUS
    <3> QED BY <1>2, <2>2, <2>3, <3>1 DEF NoneBefore
  <2>4. ASSUME NoneBefore(r, P, i), Head(q) \in P PROVE Head(q) \in Newest(q, P, i + 1)
    <3>1. 1 \in 1..i + 1 - 1 /\ 1 + 1..i + 1 - 1 = 2..i
      OBVIOUS
    <3>2. q[1] \in P /\ \A k \in 1 + 1..i + 1 - 1 : q[k] \notin P
      BY <1>2, <2>2, <2>4, <3>1
    <3> QED BY <1>2, <3>1, <3>2 DEF Newest
  <2> QED BY <2>1, <2>3, <2>4
<1> QED BY <1>1, <1>2, <1>3 DEF r
=============================================================================
