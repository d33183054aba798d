--------------------------- MODULE AudioTtsProofs ---------------------------
(***************************************************************************)
(* Proofs about AudioTts, for any sizes of recordings of half a buffer or   *)
(* more, any lengths of numbers, and any number of datagrams, failures and  *)
(* underruns.                                                              *)
(***************************************************************************)
EXTENDS AudioTts, SequenceTheorems, TLAPS

\* The events made so far are 1..Made; each has its own range of places.
Made == CASE pc = "before" -> 3 * requests - 3
          [] pc = "number" -> 3 * requests - 2
          [] pc \in {"digit", "after"} -> 3 * requests - 1
          [] OTHER -> 3 * requests
Places(e) == At(e, 1)..At(e, MaxLength)
Waiting == {list[i] : i \in 1..Len(list)}

\* The items of a list are in order, from place p on.
Ordered(q, p) == /\ \A i \in 1..Len(q) : p <= q[i].at
                 /\ \A i, j \in 1..Len(q) : i < j => q[i].at < q[j].at

TaskOK == /\ pc \in {"recv", "before", "number", "digit", "after", "start", "go"}
          /\ requests \in 0..MaxRequests
          /\ pc \in {"before", "number", "digit", "after"} => requests > 0
          /\ left \in 0..MaxLength /\ (pc = "digit" => left > 0)

ListOK == /\ list \in Seq(1..Made)
          /\ \A i, j \in 1..Len(list) : i < j => list[i] < list[j]
          /\ items \in [Events -> Seq(Items)]

\* The items of an event have its places, those still to be made come before them, and an
\* event that does not wait or play has none.
Lined == \A e \in Events :
           /\ items[e] \in Seq([at : Places(e), size : Sizes])
           /\ Ordered(items[e], IF pc = "digit" /\ e = Event(2) THEN At(e, left) + 1 ELSE 0)
           /\ items[e] # <<>> => e \in Waiting \cup {irqEv}

\* What plays comes before what is waiting.
Playing ==
  /\ irqEv = NULL \/ (irqEv \in 1..Made /\ \A e \in Waiting : irqEv < e)
  /\ irqItem = NULL => rSize = 0 /\ (irqEv # NULL => items[irqEv] = <<>>)
  /\ irqItem # NULL => /\ irqEv # NULL
                       /\ irqItem \in [at : Places(irqEv), size : Sizes]
                       /\ Ordered(items[irqEv], irqItem.at + 1)
                       /\ rSize \in 0..irqItem.size
                       /\ InTurn
                       /\ heard.at <= irqItem.at

\* What was given back was heard, and nothing heard is still to come.
Heard == /\ heard.at \in Nat
         /\ \A x \in ended : x \in Nat /\ x <= heard.at
         /\ \A e \in Events : Ordered(items[e], heard.at + 1)
         /\ items \in [Events -> Seq(Items)]

\* No event that waits or is to be made was heard of.
Unheard == \A e \in Events : e \in Waiting \/ e > Made => heard.at < At(e, 1)

InStep == TaskOK /\ ListOK /\ Lined /\ Playing /\ Unheard
IInv == ~cut /\ Heard /\ (clash \/ InStep)

-----------------------------------------------------------------------------
\* Some number is read with the most items.
LEMMA Longest == MaxLength \in Lengths /\ MaxLength \in Nat \ {0} /\ \A n \in Lengths : n <= MaxLength
<1>1. MaxLength \in Lengths /\ \A n \in Lengths : n <= MaxLength
  BY LengthAssumption DEF MaxLength
<1> QED BY <1>1, LengthAssumption

\* Places are numbers, in the order of the items and of the events.
LEMMA PlacesOrder ==
  ASSUME NEW e \in Nat
  PROVE  /\ \A k \in Nat : At(e, k) \in Nat
         /\ At(e, 1) > 0
         /\ \A k, l \in Nat : k <= l => At(e, k) <= At(e, l)
         /\ \A k \in Nat : k > 0 => At(e, k) = At(e, k - 1) + 1
         /\ Places(e) \subseteq Nat
         /\ \A k \in 1..MaxLength : At(e, k) \in Places(e)
         /\ \A f \in Nat : e < f => At(e, MaxLength) < At(f, 1)
<1> DEFINE m == MaxLength + 1
<1>1. MaxLength \in Nat /\ m \in Nat
  BY Longest
<1>2. e * m \in Nat
  BY <1>1
<1>3. \A k \in Nat : At(e, k) = e * m + k
  BY DEF At
<1>4. ASSUME NEW f \in Nat, e < f PROVE At(e, MaxLength) < At(f, 1)
  <2>1. PICK d \in Nat : f = e + 1 + d
    <3>1. f - e - 1 \in Nat /\ f = e + 1 + (f - e - 1)
      BY <1>4
    <3> QED BY <3>1
  <2>2. d * m \in Nat
    BY <1>1
  <2>3. (e + 1 + d) * m = e * m + m + d * m
    BY <1>1
  <2>4. At(f, 1) = e * m + m + d * m + 1 /\ At(e, MaxLength) = e * m + MaxLength
    BY <2>1, <2>3 DEF At
  <2> QED BY <1>1, <1>2, <2>2, <2>4
<1> HIDE DEF m
<1>5. At(e, 1) \in Nat /\ At(e, MaxLength) \in Nat
  BY <1>1, <1>2, <1>3
<1>6. Places(e) \subseteq Nat
  BY <1>5 DEF Places
<1> QED BY <1>1, <1>2, <1>3, <1>4, <1>6 DEF Places

\* What is behind a later place is behind an earlier one.
LEMMA OrderedLess ==
  ASSUME NEW q \in Seq(Items), NEW p \in Nat, NEW r \in Nat, r <= p, Ordered(q, p)
  PROVE  Ordered(q, r)
<1>1. \A i \in 1..Len(q) : q[i] \in Items
  BY ElementOfSeq
<1>2. \A x \in Items : x.at \in Nat
  BY DEF Items
<1> QED BY <1>1, <1>2 DEF Ordered

\* The items after the first.
LEMMA OrderedTail ==
  ASSUME NEW S \in SUBSET Items, NEW q \in Seq(S), NEW p \in Nat, q # <<>>, Ordered(q, p)
  PROVE  /\ Head(q) \in S /\ Tail(q) \in Seq(S)
         /\ p <= Head(q).at
         /\ Ordered(Tail(q), p) /\ Ordered(Tail(q), Head(q).at + 1)
<1>1. /\ Head(q) \in S /\ Tail(q) \in Seq(S) /\ Head(q) = q[1]
      /\ Len(q) \in Nat /\ Len(q) > 0 /\ Len(Tail(q)) = Len(q) - 1
      /\ \A i \in 1..Len(Tail(q)) : Tail(q)[i] = q[i + 1]
  BY HeadTailProperties, EmptySeq, LenProperties
<1>2. \A i \in 1..Len(q) : q[i] \in Items
  BY ElementOfSeq
<1>3. \A x \in Items : x.at \in Nat
  BY DEF Items
<1> QED BY <1>1, <1>2, <1>3 DEF Ordered

\* An item before the others.
LEMMA OrderedFront ==
  ASSUME NEW S \in SUBSET Items, NEW q \in Seq(S), NEW x \in S, NEW p \in Nat,
         p <= x.at, Ordered(q, x.at + 1)
  PROVE  /\ <<x>> \o q \in Seq(S)
         /\ Ordered(<<x>> \o q, p)
<1> DEFINE r == <<x>> \o q
<1>1. /\ r \in Seq(S) /\ Len(r) = Len(q) + 1 /\ Len(q) \in Nat /\ r[1] = x
      /\ \A i \in 1..Len(q) : r[i + 1] = q[i]
  OBVIOUS
<1>2. \A i \in 1..Len(r) : i = 1 \/ (i - 1 \in 1..Len(q) /\ r[i] = q[i - 1])
  <2> SUFFICES ASSUME NEW i \in 1..Len(r), i # 1 PROVE i - 1 \in 1..Len(q) /\ r[i] = q[i - 1]
    OBVIOUS
  <2>1. i - 1 \in 1..Len(q) /\ (i - 1) + 1 = i
    BY <1>1
  <2> QED BY <1>1, <2>1
<1> HIDE DEF r
<1>3. x.at \in Nat /\ \A i \in 1..Len(q) : q[i].at \in Nat /\ x.at + 1 <= q[i].at
  <2>1. \A y \in Items : y.at \in Nat
    BY DEF Items
  <2>2. \A i \in 1..Len(q) : q[i] \in Items
    BY ElementOfSeq
  <2> QED BY <2>1, <2>2 DEF Ordered
<1>4. ASSUME NEW i \in 1..Len(r) PROVE p <= r[i].at
  <2>1. CASE i = 1
    BY <1>1, <2>1
  <2>2. CASE i # 1
    <3>1. i - 1 \in 1..Len(q) /\ r[i] = q[i - 1]
      BY <1>2, <2>2
    <3>2. q[i - 1].at \in Nat /\ x.at + 1 <= q[i - 1].at
      BY <1>3, <3>1
    <3> QED BY <1>3, <3>1, <3>2
  <2> QED BY <2>1, <2>2
<1>5. ASSUME NEW i \in 1..Len(r), NEW j \in 1..Len(r), i < j PROVE r[i].at < r[j].at
  <2>1. j - 1 \in 1..Len(q) /\ r[j] = q[j - 1]
    BY <1>1, <1>2, <1>5
  <2>2. CASE i = 1
    BY <1>1, <1>3, <2>1, <2>2
  <2>3. CASE i # 1
    <3>1. i - 1 \in 1..Len(q) /\ r[i] = q[i - 1] /\ i - 1 < j - 1
      BY <1>1, <1>2, <1>5, <2>3
    <3> QED BY <2>1, <3>1 DEF Ordered
  <2> QED BY <2>2, <2>3
<1> QED BY <1>1, <1>4, <1>5 DEF Ordered, r

\* No item is in order anywhere.
LEMMA OrderedEmpty == ASSUME NEW p PROVE Ordered(<<>>, p)
BY DEF Ordered

\* One item is in order from every place up to its own.
LEMMA OrderedOne == ASSUME NEW p, NEW x, p <= x.at PROVE Ordered(<<x>>, p)
<1>1. Len(<<x>>) = 1 /\ <<x>>[1] = x
  OBVIOUS
<1>2. \A i \in 1..1 : i = 1
  OBVIOUS
<1> QED BY <1>1, <1>2 DEF Ordered

-----------------------------------------------------------------------------
\* How many events are made, by the place of the task.
LEMMA MadeValue ==
  ASSUME TaskOK
  PROVE  /\ Made \in 0..3 * MaxRequests
         /\ pc \in {"recv", "start", "go"} => Made = 3 * requests
         /\ pc = "before" => Made = 3 * requests - 3
         /\ pc = "number" => Made = 3 * requests - 2
         /\ pc \in {"digit", "after"} => Made = 3 * requests - 1
         /\ \A e \in Events : e \in Nat
BY BoundAssumption DEF TaskOK, Made, Events

\* What waits, where items are.
LEMMA Types ==
  ASSUME TaskOK, ListOK
  PROVE  /\ Waiting \subseteq 1..Made /\ 1..Made \subseteq Events
         /\ \A e \in Events : /\ e \in Nat /\ [at : Places(e), size : Sizes] \subseteq Items
                              /\ At(e, 1) \in Nat /\ At(e, MaxLength) \in Nat
<1>1. Made \in 0..3 * MaxRequests /\ \A e \in Events : e \in Nat
  BY MadeValue
<1>2. 1..Made \subseteq Events
  BY <1>1, BoundAssumption DEF Events
<1>3. Waiting \subseteq 1..Made
  BY ElementOfSeq DEF Waiting, ListOK
<1>4. \A e \in Events : At(e, 1) \in Nat /\ At(e, MaxLength) \in Nat /\ Places(e) \subseteq Nat
  BY <1>1, PlacesOrder, Longest
<1>5. \A e \in Events : [at : Places(e), size : Sizes] \subseteq Items
  BY <1>4 DEF Items
<1> QED BY <1>1, <1>2, <1>3, <1>4, <1>5

\* The items of an event come after every place of an earlier one.
LEMMA Beyond ==
  ASSUME NEW e \in Nat, NEW f \in Nat, e < f, NEW p \in Places(e),
         NEW q \in Seq([at : Places(f), size : Sizes]), NEW r, Ordered(q, r)
  PROVE  Ordered(q, p + 1)
<1>1. p \in Nat /\ p <= At(e, MaxLength) /\ At(e, MaxLength) \in Nat
  <2>1. p \in Nat
    BY PlacesOrder
  <2>2. MaxLength \in Nat /\ 1 \in Nat
    BY Longest
  <2>3. At(e, MaxLength) \in Nat /\ At(e, 1) \in Nat
    BY <2>2, PlacesOrder
  <2> QED BY <2>1, <2>3 DEF Places
<1>2. p < At(f, 1) /\ At(f, 1) \in Nat
  <2>1. At(e, MaxLength) < At(f, 1) /\ At(f, 1) \in Nat
    BY PlacesOrder
  <2> QED BY <1>1, <2>1
<1>3. \A i \in 1..Len(q) : q[i] \in [at : Places(f), size : Sizes]
  BY ElementOfSeq
<1>4. \A x \in [at : Places(f), size : Sizes] : At(f, 1) <= x.at /\ x.at \in Nat
  BY PlacesOrder DEF Places
<1>5. \A i \in 1..Len(q) : p + 1 <= q[i].at
  BY <1>1, <1>2, <1>3, <1>4
<1> QED BY <1>5 DEF Ordered

\* An event is made: it is lined up last, with one item or none, or it is left out.
LEMMA Opens ==
  ASSUME TaskOK, ListOK, Lined, Playing, Unheard, Heard, TaskOK',
         UNCHANGED <<player, history>>, Made' = Made + 1, Made + 1 \in Events, pc # "digit",
         list' \in {list, Append(list, Made + 1)},
         \/ items' = items
         \/ /\ pc' # "digit" /\ list' = Append(list, Made + 1)
            /\ \E s \in Sizes :
                 items' = [items EXCEPT ![Made + 1] = <<[at |-> At(Made + 1, 1), size |-> s]>>],
         pc' = "digit" => Event(2)' = Made + 1
  PROVE  ListOK' /\ Lined' /\ Playing' /\ Unheard' /\ Heard'
<1> DEFINE n == Made + 1
           Made1(s) == items'[n] = <<[at |-> At(n, 1), size |-> s]>> /\ n \in Waiting' /\ pc' # "digit"
           LinedAt(e) == /\ items'[e] \in Seq([at : Places(e), size : Sizes])
                         /\ Ordered(items'[e], IF pc' = "digit" /\ e = Event(2)' THEN At(e, left') + 1 ELSE 0)
                         /\ items'[e] # <<>> => e \in Waiting' \cup {irqEv'}
<1>1. /\ Made \in Nat /\ n \in Events /\ Made' = n
      /\ Waiting \subseteq 1..Made /\ \A e \in Events : e \in Nat
  BY MadeValue, Types
<1>2. /\ irqEv' = irqEv /\ irqItem' = irqItem /\ rSize' = rSize
      /\ heard' = heard /\ ended' = ended
  BY DEF player, history
<1>3. n \notin Waiting /\ irqEv # n
  BY <1>1, NullAssumption DEF Playing
<1>4. items[n] = <<>>
  BY <1>1, <1>3 DEF Lined
<1>5. list \in Seq(1..Made) /\ Len(list) \in Nat
  BY LenProperties DEF ListOK
<1>6. /\ list' \in Seq(1..n)
      /\ \A i, j \in 1..Len(list') : i < j => list'[i] < list'[j]
      /\ Waiting \subseteq Waiting' /\ Waiting' \subseteq Waiting \cup {n}
      /\ list' # list => n \in Waiting'
  <2>1. CASE list' = list
    <3>1. list \in Seq(1..n)
      BY <1>1, <1>5, SeqMonotonic
    <3> QED BY <2>1, <3>1 DEF ListOK, Waiting
  <2>2. CASE list' = Append(list, n)
    <3>1. list \in Seq(1..n)
      BY <1>1, <1>5, SeqMonotonic
    <3>2. /\ list' \in Seq(1..n) /\ Len(list') = Len(list) + 1
          /\ \A i \in 1..Len(list) : list'[i] = list[i] /\ list[i] \in 1..Made
          /\ list'[Len(list) + 1] = n
      BY <1>1, <1>5, <2>2, <3>1, ElementOfSeq
    <3>3. ASSUME NEW i \in 1..Len(list'), NEW j \in 1..Len(list'), i < j PROVE list'[i] < list'[j]
      <4>1. i \in 1..Len(list)
        BY <1>5, <3>2, <3>3
      <4>2. CASE j \in 1..Len(list)
        BY <3>2, <3>3, <4>1, <4>2 DEF ListOK
      <4>3. CASE j = Len(list) + 1
        BY <1>1, <3>2, <4>1, <4>3
      <4> QED BY <1>5, <3>2, <4>2, <4>3
    <3>4. Waiting' = Waiting \cup {n}
      <4>1. 1..Len(list') = 1..Len(list) \cup {Len(list) + 1}
        BY <1>5, <3>2
      <4> QED BY <1>5, <3>2, <4>1, SMTT(30) DEF Waiting
    <3> QED BY <3>2, <3>3, <3>4
  <2> QED BY <2>1, <2>2
<1>7. /\ items' \in [Events -> Seq(Items)]
      /\ \A e \in Events : e # n => items'[e] = items[e]
      /\ items'[n] = <<>> \/ \E s \in Sizes : Made1(s)
  <2>1. CASE items' = items
    BY <1>4, <2>1 DEF ListOK
  <2>2. ASSUME NEW s \in Sizes, pc' # "digit", list' = Append(list, n),
               items' = [items EXCEPT ![n] = <<[at |-> At(n, 1), size |-> s]>>]
        PROVE  /\ items' \in [Events -> Seq(Items)]
               /\ \A e \in Events : e # n => items'[e] = items[e]
               /\ Made1(s)
    <3>1. At(n, 1) \in Nat
      BY <1>1, PlacesOrder
    <3>2. <<[at |-> At(n, 1), size |-> s]>> \in Seq(Items)
      BY <3>1 DEF Items
    <3>3. list' # list
      BY <1>5, <2>2, AppendProperties
    <3> QED BY <1>1, <1>6, <2>2, <3>2, <3>3 DEF ListOK
  <2> QED BY <2>1, <2>2
<1>8. ListOK'
  BY <1>1, <1>6, <1>7 DEF ListOK
<1>9. Lined'
  <2> SUFFICES ASSUME NEW e \in Events PROVE LinedAt(e)
    BY DEF Lined
  <2>1. CASE e # n
    <3>1. ~(pc' = "digit" /\ e = Event(2)')
      BY <2>1
    <3>2. /\ items[e] \in Seq([at : Places(e), size : Sizes]) /\ Ordered(items[e], 0)
          /\ items[e] # <<>> => e \in Waiting \cup {irqEv}
      BY DEF Lined
    <3>3. items'[e] = items[e]
      BY <1>7, <2>1
    <3> QED BY <1>2, <1>6, <3>1, <3>2, <3>3
  <2>2. CASE e = n /\ items'[n] = <<>>
    BY <2>2, OrderedEmpty, EmptySeq
  <2>3. ASSUME NEW s \in Sizes, e = n, Made1(s) PROVE LinedAt(e)
    <3>1. At(n, 1) \in Nat /\ At(n, 1) \in Places(n)
      BY <1>1, PlacesOrder, Longest
    <3>2. [at |-> At(n, 1), size |-> s] \in [at : Places(e), size : Sizes]
      BY <2>3, <3>1
    <3>3. items'[e] \in Seq([at : Places(e), size : Sizes])
      BY <2>3, <3>2
    <3>4. Ordered(items'[e], 0)
      BY <2>3, <3>1, OrderedOne
    <3> QED BY <2>3, <3>3, <3>4
  <2> QED BY <1>7, <2>1, <2>2, <2>3
<1>10. Playing'
  <2>1. irqEv' = NULL \/ (irqEv' \in 1..Made' /\ \A e \in Waiting' : irqEv' < e)
    BY <1>1, <1>2, <1>6 DEF Playing
  <2>2. irqEv' # NULL => items'[irqEv'] = items[irqEv]
    BY <1>1, <1>2, <1>3, <1>7, Types DEF Playing
  <2> QED BY <1>2, <2>1, <2>2 DEF Playing, InTurn, Ordered, Places, At
<1>11. Unheard'
  BY <1>1, <1>2, <1>6 DEF Unheard, At
<1>12. Heard'
  <2>1. Ordered(items'[n], heard.at + 1)
    <3>1. heard.at < At(n, 1) /\ At(n, 1) \in Nat /\ heard.at \in Nat
      <4>1. n > Made /\ n \in Nat
        BY <1>1
      <4>2. heard.at \in Nat
        BY DEF Heard
      <4>3. heard.at < At(n, 1)
        BY <1>1, <4>1 DEF Unheard
      <4> QED BY <4>1, <4>2, <4>3, PlacesOrder
    <3>2. ASSUME NEW s \in Sizes, Made1(s) PROVE Ordered(items'[n], heard.at + 1)
      <4>1. heard.at + 1 <= [at |-> At(n, 1), size |-> s].at
        BY <3>1
      <4> QED BY <3>2, <4>1, OrderedOne
    <3> QED BY <1>7, <3>2, OrderedEmpty
  <2> QED BY <1>2, <1>7, <2>1 DEF Heard, Ordered
<1> QED BY <1>8, <1>9, <1>10, <1>11, <1>12

\* An event and its first item are taken, of what plays or of what waits.
LEMMA Takes ==
  ASSUME TaskOK, ListOK, Lined, Playing, TaskOK', NEW e \in Events,
         \/ e = irqEv /\ list' = list
         \/ /\ list # <<>> /\ e = Head(list) /\ list' = Tail(list)
            /\ irqEv = NULL \/ items[irqEv] = <<>>,
         irqEv' = e, items' = [items EXCEPT ![e] = IF @ = <<>> THEN @ ELSE Tail(@)],
         irqItem' = IF items[e] = <<>> THEN NULL ELSE Head(items[e]),
         Made' = Made, pc' = "digit" => pc = "digit" /\ left' = left /\ requests' = requests
  PROVE  /\ ListOK' /\ Lined' /\ Waiting' \subseteq Waiting
         /\ e \in 1..Made /\ \A f \in Waiting' : e < f
         /\ irqItem' = NULL => items'[e] = <<>>
         /\ irqItem' # NULL => /\ irqItem' \in [at : Places(e), size : Sizes]
                               /\ Ordered(items'[e], irqItem'.at + 1)
         /\ \A f \in Events : f # e => f \in Waiting' \/ items'[f] = <<>>
         /\ \A f \in Events, p \in Nat : Ordered(items[f], p) => Ordered(items'[f], p)
         /\ \A p \in Nat : Ordered(items[e], p) /\ irqItem' # NULL => p <= irqItem'.at
<1> DEFINE I(f) == [at : Places(f), size : Sizes]
<1>1. /\ Made \in Nat /\ \A f \in Events : f \in Nat /\ I(f) \subseteq Items
      /\ 1..Made \subseteq Events /\ Waiting \subseteq 1..Made
  BY MadeValue, Types
<1>2. list \in Seq(1..Made) /\ Len(list) \in Nat
  BY LenProperties DEF ListOK
<1>3. /\ e \in 1..Made /\ list' \in Seq(1..Made)
      /\ \A i, j \in 1..Len(list') : i < j => list'[i] < list'[j]
      /\ \A f \in Waiting' : f \in Waiting /\ e < f
      /\ \A f \in Waiting : f = e \/ f \in Waiting'
      /\ irqEv = e \/ irqEv = NULL \/ items[irqEv] = <<>>
  <2>1. CASE e = irqEv /\ list' = list
    <3>1. Waiting' = Waiting
      BY <2>1 DEF Waiting
    <3>2. e \in 1..Made /\ \A f \in Waiting : e < f
      BY <2>1, NullAssumption DEF Playing
    <3> QED BY <1>2, <2>1, <3>1, <3>2 DEF ListOK
  <2>2. CASE list # <<>> /\ e = Head(list) /\ list' = Tail(list)
             /\ (irqEv = NULL \/ items[irqEv] = <<>>)
    <3>1. /\ list' \in Seq(1..Made) /\ Len(list') = Len(list) - 1 /\ Len(list') \in Nat
          /\ \A i \in 1..Len(list') : list'[i] = list[i + 1]
          /\ e = list[1] /\ e \in 1..Made
      <4>1. list # <<>> /\ e = Head(list) /\ list' = Tail(list)
        BY <2>2
      <4>2. Len(list) > 0 /\ e = list[1]
        BY <1>2, <4>1, EmptySeq
      <4>3. e \in 1..Made
        <5>1. 1 \in 1..Len(list)
          BY <1>2, <4>2
        <5>2. \A i \in 1..Len(list) : list[i] \in 1..Made
          BY <1>2, ElementOfSeq
        <5> QED BY <4>2, <5>1, <5>2
      <4>4. /\ list' \in Seq(1..Made) /\ Len(list') = Len(list) - 1
            /\ \A i \in 1..Len(list') : list'[i] = list[i + 1]
        BY <1>2, <4>1, HeadTailProperties
      <4> QED BY <1>2, <4>2, <4>3, <4>4
    <3>2. \A i \in 1..Len(list') : i + 1 \in 1..Len(list) /\ 1 < i + 1 /\ 1 \in 1..Len(list)
      BY <1>2, <3>1
    <3>3. ASSUME NEW i \in 1..Len(list'), NEW j \in 1..Len(list'), i < j PROVE list'[i] < list'[j]
      <4>1. i + 1 \in 1..Len(list) /\ j + 1 \in 1..Len(list) /\ i + 1 < j + 1
        BY <3>1, <3>2, <3>3
      <4>2. list'[i] = list[i + 1] /\ list'[j] = list[j + 1]
        BY <3>1
      <4> QED BY <4>1, <4>2 DEF ListOK
    <3>4. \A f \in Waiting' : f \in Waiting /\ e < f
      <4>1. \A i \in 1..Len(list') : list'[i] = list[i + 1] /\ list[1] < list[i + 1]
        BY <3>1, <3>2 DEF ListOK
      <4> QED BY <3>1, <3>2, <4>1 DEF Waiting
    <3>5. \A f \in Waiting : f = e \/ f \in Waiting'
      <4> SUFFICES ASSUME NEW i \in 1..Len(list), i # 1 PROVE list[i] \in Waiting'
        BY <3>1 DEF Waiting
      <4>1. i - 1 \in 1..Len(list') /\ (i - 1) + 1 = i
        BY <1>2, <3>1
      <4>2. list'[i - 1] = list[i]
        BY <3>1, <4>1
      <4> QED BY <4>1, <4>2 DEF Waiting
    <3> QED BY <3>1, <3>3, <3>4, <3>5
  <2> QED BY <2>1, <2>2
<1>4. /\ items \in [Events -> Seq(Items)] /\ items' \in [Events -> Seq(Items)]
      /\ \A f \in Events : items[f] \in Seq(I(f)) /\ Ordered(items[f], 0)
      /\ \A f \in Events : f # e => items'[f] = items[f]
      /\ items'[e] = IF items[e] = <<>> THEN <<>> ELSE Tail(items[e])
  <2>1. items \in [Events -> Seq(Items)]
    BY DEF ListOK
  <2>2. \A q \in Seq(Items) : q # <<>> => Tail(q) \in Seq(Items)
    BY HeadTailProperties
  <2>3. ASSUME NEW f \in Events PROVE items[f] \in Seq(I(f)) /\ Ordered(items[f], 0)
    <3>1. PICK p \in Nat : Ordered(items[f], p)
      <4>1. At(f, left) + 1 \in Nat
        <5>1. left \in Nat /\ f \in Nat
          BY <1>1, Longest DEF TaskOK
        <5> QED BY <5>1, PlacesOrder
      <4> QED BY <4>1 DEF Lined
    <3>2. Ordered(items[f], 0)
      BY <2>1, <3>1, OrderedLess
    <3> QED BY <3>2 DEF Lined
  <2> QED BY <2>1, <2>2, <2>3
<1>5. ASSUME items[e] # <<>>, NEW p \in Nat, Ordered(items[e], p)
      PROVE  /\ irqItem' \in I(e) /\ items'[e] \in Seq(I(e)) /\ p <= irqItem'.at
             /\ Ordered(items'[e], p) /\ Ordered(items'[e], irqItem'.at + 1)
  BY <1>1, <1>4, <1>5, OrderedTail
<1>6. \A f \in Events, p \in Nat : Ordered(items[f], p) => Ordered(items'[f], p)
  BY <1>4, <1>5
<1>7. \A f \in Events : items'[f] \in Seq(I(f)) /\ (items'[f] # <<>> => f \in Waiting' \cup {e})
  <2> SUFFICES ASSUME NEW f \in Events
               PROVE  items'[f] \in Seq(I(f)) /\ (items'[f] # <<>> => f \in Waiting' \cup {e})
    OBVIOUS
  <2>1. items'[f] \in Seq(I(f))
    BY <1>4, <1>5
  <2>2. items[f] # <<>> => f \in Waiting \cup {irqEv}
    BY DEF Lined
  <2> QED BY <1>3, <1>4, <2>1, <2>2, NullAssumption
<1>8. Lined'
  <2> SUFFICES ASSUME NEW f \in Events
               PROVE  Ordered(items'[f], IF pc' = "digit" /\ f = Event(2)' THEN At(f, left') + 1 ELSE 0)
    BY <1>7 DEF Lined
  <2>1. CASE pc' = "digit" /\ f = Event(2)'
    <3>1. pc = "digit" /\ f = Event(2) /\ left' = left
      BY <2>1 DEF Event
    <3>2. At(f, left) + 1 \in Nat
      <4>1. left \in Nat /\ f \in Nat
        BY <1>1, Longest DEF TaskOK
      <4> QED BY <4>1, PlacesOrder
    <3>3. Ordered(items[f], At(f, left) + 1)
      BY <3>1 DEF Lined
    <3> QED BY <1>6, <2>1, <3>1, <3>2, <3>3
  <2>2. CASE ~(pc' = "digit" /\ f = Event(2)')
    BY <1>4, <1>6, <2>2
  <2> QED BY <2>1, <2>2
<1>9. ListOK'
  BY <1>3, <1>4 DEF ListOK
<1>10. irqItem' = NULL => items'[e] = <<>>
  <2>1. CASE items[e] # <<>>
    <3>1. irqItem' \in Items
      BY <1>1, <1>4, <1>5, <2>1
    <3> QED BY <3>1, NullAssumption
  <2> QED BY <1>4, <2>1
<1>11. irqItem' # NULL => irqItem' \in I(e) /\ Ordered(items'[e], irqItem'.at + 1)
  BY <1>4, <1>5
<1>12. \A f \in Events : f # e => f \in Waiting' \/ items'[f] = <<>>
  BY <1>7
<1> QED BY <1>3, <1>5, <1>6, <1>8, <1>9, <1>10, <1>11, <1>12

\* A place of an event is before all places of later events.
LEMMA PlaceBefore ==
  ASSUME NEW e \in Nat, NEW f \in Nat, e < f, NEW p \in Places(e)
  PROVE  p < At(f, 1)
<1>1. MaxLength \in Nat /\ 1 \in Nat
  BY Longest
<1>2. /\ At(e, MaxLength) \in Nat /\ At(f, 1) \in Nat /\ At(e, 1) \in Nat
      /\ At(e, MaxLength) < At(f, 1)
  BY <1>1, PlacesOrder
<1> QED BY <1>2 DEF Places

\* All that is lined up comes after the item that plays.
LEMMA NothingBehind ==
  ASSUME TaskOK, ListOK, Lined, Playing, irqItem # NULL
  PROVE  /\ irqEv \in Events /\ irqItem.at \in Places(irqEv) /\ irqItem.at \in Nat
         /\ \A f \in Events : Ordered(items[f], irqItem.at + 1)
<1>1. /\ irqEv \in 1..Made /\ irqItem \in [at : Places(irqEv), size : Sizes]
      /\ Ordered(items[irqEv], irqItem.at + 1) /\ \A f \in Waiting : irqEv < f
  BY DEF Playing
<1>2. irqEv \in Events /\ irqEv \in Nat /\ \A f \in Events : f \in Nat
  BY <1>1, Types
<1>3. irqItem.at \in Places(irqEv)
  BY <1>1
<1>4. irqItem.at \in Nat
  BY <1>2, <1>3, PlacesOrder
<1>5. ASSUME NEW f \in Events, f # irqEv PROVE Ordered(items[f], irqItem.at + 1)
  <2>1. CASE items[f] = <<>>
    BY <2>1, OrderedEmpty
  <2>2. CASE items[f] # <<>>
    <3>1. f \in Waiting /\ items[f] \in Seq([at : Places(f), size : Sizes])
      BY <1>5, <2>2 DEF Lined
    <3>2. irqEv < f /\ f \in Nat
      BY <1>1, <1>2, <3>1
    <3>3. \E r : Ordered(items[f], r)
      BY DEF Lined
    <3> QED BY <1>2, <1>3, <3>1, <3>2, <3>3, Beyond
  <2> QED BY <2>1, <2>2
<1> QED BY <1>1, <1>2, <1>3, <1>4, <1>5

\* Nothing moves.
LEMMA Stays ==
  ASSUME InStep, Heard, TaskOK', Made' = Made,
         pc' = "digit" => pc = "digit" /\ left' = left /\ requests' = requests,
         UNCHANGED <<list, items, irqEv, irqItem, rSize, heard, ended>>
  PROVE  InStep' /\ Heard'
<1>1. ListOK'
  BY DEF InStep, ListOK
<1>2. Waiting' = Waiting
  BY DEF Waiting
<1>3. Lined'
  <2> SUFFICES ASSUME NEW e \in Events
               PROVE  Ordered(items'[e], IF pc' = "digit" /\ e = Event(2)' THEN At(e, left') + 1 ELSE 0)
    BY <1>2 DEF InStep, Lined
  <2>1. CASE pc' = "digit" /\ e = Event(2)'
    <3>1. pc = "digit" /\ e = Event(2) /\ left' = left
      BY <2>1 DEF Event
    <3> QED BY <2>1, <3>1 DEF InStep, Lined
  <2>2. CASE ~(pc' = "digit" /\ e = Event(2)')
    <3>1. \E p \in Nat : Ordered(items[e], p)
      <4>1. left \in Nat /\ e \in Nat
        BY Longest, MadeValue DEF InStep, TaskOK
      <4>2. At(e, left) + 1 \in Nat
        <5>1. \A k \in Nat : At(e, k) \in Nat
          BY <4>1, PlacesOrder
        <5> QED BY <4>1, <5>1
      <4> QED BY <4>2 DEF InStep, Lined
    <3>2. items[e] \in Seq(Items)
      BY DEF InStep, ListOK
    <3> QED BY <2>2, <3>1, <3>2, OrderedLess
  <2> QED BY <2>1, <2>2
<1>4. Playing'
  BY <1>2 DEF InStep, Playing, InTurn
<1>5. Unheard'
  BY <1>2 DEF InStep, Unheard
<1>6. Heard'
  BY DEF Heard
<1> QED BY <1>1, <1>3, <1>4, <1>5, <1>6 DEF InStep

\* The empty player.
LEMMA InitInv == Init => IInv
<1> SUFFICES ASSUME Init PROVE IInv
  OBVIOUS
<1>1. TaskOK
  BY BoundAssumption, Longest DEF Init, TaskOK
<1>2. Made = 0 /\ \A e \in Events : e \in Nat
  BY <1>1, MadeValue DEF Init
<1>3. ListOK
  BY <1>2 DEF Init, ListOK
<1>4. Waiting = {}
  BY DEF Init, Waiting
<1>5. Lined
  BY OrderedEmpty DEF Init, Lined
<1>6. Playing
  BY <1>4 DEF Init, Playing
<1>7. Unheard
  BY <1>2, PlacesOrder DEF Init, Unheard
<1>8. Heard
  BY OrderedEmpty DEF Init, Heard
<1> QED BY <1>1, <1>3, <1>5, <1>6, <1>7, <1>8 DEF IInv, InStep, Init

\* The task goes on: its next place and the number of events that are made.
LEMMA Advances ==
  ASSUME TaskOK, Task
  PROVE  /\ TaskOK'
         /\ Recv \/ Start \/ Go \/ Digit => Made' = Made
         /\ Before \/ Number \/ After => Made' = Made + 1 /\ Made + 1 \in Events
         /\ Before => Event(1) = Made + 1
         /\ Number => Event(2) = Made + 1 /\ Event(2)' = Made + 1
         /\ After => Event(3) = Made + 1
<1>1. MaxRequests \in Nat /\ MaxLength \in Nat \ {0} /\ \A n \in Lengths : n \in 1..MaxLength
  BY BoundAssumption, Longest, LengthAssumption
<1> USE <1>1 DEF TaskOK, Made, Events, Event
<1>2. CASE Recv
  BY <1>2 DEF Recv, Before, Number, After
<1>3. CASE Before
  BY <1>3 DEF Before, Characters, Recv, Start, Go, Digit, Number, After
<1>4. CASE Number
  BY <1>4, SMTT(40) DEF Number, Recv, Start, Go, Digit, Before, After
<1>5. CASE Digit
  BY <1>5 DEF Digit, Before, Number, After
<1>6. CASE After
  BY <1>6 DEF After, Characters, Recv, Start, Go, Digit, Number, Before
<1>7. CASE Start
  BY <1>7 DEF Start, Before, Number, After
<1>8. CASE Go
  BY <1>8 DEF Go, Before, Number, After
<1> QED BY <1>2, <1>3, <1>4, <1>5, <1>6, <1>7, <1>8 DEF Task

\* The making of an event keeps the invariant.
LEMMA OpensNext ==
  ASSUME InStep, Heard, Task, Before \/ Number \/ After
  PROVE  InStep' /\ Heard'
<1>1. /\ TaskOK' /\ Made' = Made + 1 /\ Made + 1 \in Events
      /\ UNCHANGED <<player, history>> /\ pc # "digit"
  BY Advances DEF InStep, Before, Number, After, Characters
<1>2. CASE Before \/ After
  <2>1. PICK part \in {1, 3}, next \in {"number", "start"} : Characters(part, next) /\ Event(part) = Made + 1
    BY <1>2, Advances DEF Before, After, InStep
  <2> QED BY <1>1, <2>1, Opens DEF Characters, InStep
<1>3. CASE Number
  BY <1>1, <1>3, Advances, Opens DEF Number, InStep
<1> QED BY <1>2, <1>3

\* So does the addition of an item to the number.
LEMMA DigitNext ==
  ASSUME InStep, Heard, Digit, Task
  PROVE  Heard' /\ (clash' \/ InStep')
<1> DEFINE n == Event(2)
           it(s) == [at |-> At(n, left), size |-> s]
<1>1. /\ TaskOK' /\ Made' = Made /\ pc = "digit" /\ left' = left - 1 /\ requests' = requests
      /\ UNCHANGED <<list, player, history>> /\ Event(2)' = n
  BY Advances DEF InStep, Digit, Event
<1>2. irqEv' = irqEv /\ irqItem' = irqItem /\ rSize' = rSize /\ heard' = heard /\ ended' = ended
  BY <1>1 DEF player, history
<1>3. CASE clash'
  <2>1. items' = items \/ ~clash'
    BY <1>1, <1>3 DEF Digit, Task
  <2> QED BY <1>2, <1>3, <2>1 DEF Heard
<1>4. ASSUME ~clash' PROVE InStep' /\ Heard'
  <2>1. /\ n \in Waiting
        /\ \/ items' = items
           \/ \E s \in Sizes : items' = [items EXCEPT ![n] = <<it(s)>> \o @]
    <3>1. {list[i] : i \in DOMAIN list} = Waiting
      BY LenProperties DEF InStep, ListOK, Waiting
    <3>2. n \in Waiting
      BY <1>4, <3>1 DEF Digit
    <3> QED BY <3>1, <3>2 DEF Digit
  <2>2. /\ n \in Events /\ n \in Nat /\ left \in 1..MaxLength /\ \A e \in Events : e \in Nat
        /\ [at : Places(n), size : Sizes] \subseteq Items
    BY <1>1, <2>1, Types, Longest DEF InStep, TaskOK
  <2>3. /\ At(n, left) \in Nat /\ At(n, left) \in Places(n) /\ At(n, left - 1) + 1 = At(n, left)
        /\ At(n, 1) <= At(n, left) /\ At(n, 1) \in Nat
    <3>1. left \in Nat /\ left > 0 /\ left - 1 \in Nat
      BY <2>2, Longest
    <3>2. /\ \A k \in Nat : At(n, k) \in Nat
          /\ \A k \in Nat : k > 0 => At(n, k) = At(n, k - 1) + 1
          /\ \A k, l \in Nat : k <= l => At(n, k) <= At(n, l)
          /\ \A k \in 1..MaxLength : At(n, k) \in Places(n)
      BY <2>2, PlacesOrder
    <3> QED BY <2>2, <3>1, <3>2
  <2>4. Waiting' = Waiting
    BY <1>1 DEF Waiting
  <2>5. irqEv # n
    BY <2>1, <2>2, NullAssumption DEF InStep, Playing
  <2>6. heard.at \in Nat /\ heard.at + 1 <= At(n, left)
    <3>1. heard.at < At(n, 1) /\ heard.at \in Nat
      BY <2>1, <2>2 DEF InStep, Unheard, Heard
    <3> QED BY <2>3, <3>1
  <2>7. /\ items[n] \in Seq([at : Places(n), size : Sizes]) /\ Ordered(items[n], At(n, left) + 1)
        /\ items \in [Events -> Seq(Items)]
    BY <1>1, <2>2 DEF InStep, Lined, ListOK
  <2>8. /\ items' \in [Events -> Seq(Items)]
        /\ \A e \in Events : e # n => items'[e] = items[e]
        /\ items'[n] \in Seq([at : Places(n), size : Sizes])
        /\ Ordered(items'[n], At(n, left))
    <3>1. CASE items' = items
      <4>1. items[n] \in Seq(Items) /\ At(n, left) + 1 \in Nat /\ At(n, left) <= At(n, left) + 1
        BY <2>2, <2>3, <2>7
      <4>2. Ordered(items[n], At(n, left))
        BY <2>3, <2>7, <4>1, OrderedLess
      <4> QED BY <2>7, <3>1, <4>2
    <3>2. ASSUME NEW s \in Sizes, items' = [items EXCEPT ![n] = <<it(s)>> \o @]
          PROVE  /\ items' \in [Events -> Seq(Items)]
                 /\ \A e \in Events : e # n => items'[e] = items[e]
                 /\ items'[n] \in Seq([at : Places(n), size : Sizes])
                 /\ Ordered(items'[n], At(n, left))
      <4>1. it(s) \in [at : Places(n), size : Sizes] /\ it(s).at = At(n, left)
        BY <2>3
      <4> HIDE DEF it
      <4>2. /\ <<it(s)>> \o items[n] \in Seq([at : Places(n), size : Sizes])
            /\ Ordered(<<it(s)>> \o items[n], At(n, left))
        BY <2>2, <2>3, <2>7, <4>1, OrderedFront
      <4>3. <<it(s)>> \o items[n] \in Seq(Items)
        BY <2>2, <4>2, SeqMonotonic
      <4> QED BY <2>2, <2>7, <3>2, <4>2, <4>3
    <3> QED BY <2>1, <3>1, <3>2
  <2>9. ListOK'
    BY <1>1, <2>8 DEF InStep, ListOK
  <2>10. Lined'
    <3> SUFFICES ASSUME NEW e \in Events
                 PROVE  /\ items'[e] \in Seq([at : Places(e), size : Sizes])
                        /\ Ordered(items'[e], IF pc' = "digit" /\ e = Event(2)' THEN At(e, left') + 1 ELSE 0)
                        /\ items'[e] # <<>> => e \in Waiting' \cup {irqEv'}
      BY DEF Lined
    <3>1. CASE e = n
      <4>1. Ordered(items'[n], 0)
        <5>1. items'[n] \in Seq(Items) /\ 0 <= At(n, left)
          BY <2>2, <2>3, <2>8
        <5> QED BY <2>3, <2>8, <5>1, OrderedLess
      <4> QED BY <1>1, <2>1, <2>3, <2>4, <2>8, <3>1, <4>1
    <3>2. CASE e # n
      <4>1. /\ items[e] \in Seq([at : Places(e), size : Sizes]) /\ Ordered(items[e], 0)
            /\ items[e] # <<>> => e \in Waiting \cup {irqEv}
        BY <3>2 DEF InStep, Lined
      <4> QED BY <1>1, <1>2, <2>4, <2>8, <3>2, <4>1
    <3> QED BY <3>1, <3>2
  <2>11. Playing'
    <3>1. irqEv # NULL => irqEv \in Events /\ items'[irqEv] = items[irqEv]
      BY <2>5, <2>8, Types DEF InStep, Playing
    <3> QED BY <1>1, <1>2, <2>4, <3>1 DEF InStep, Playing, InTurn
  <2>12. Unheard'
    BY <1>1, <1>2, <2>4 DEF InStep, Unheard
  <2>13. Heard'
    <3>1. Ordered(items'[n], heard.at + 1)
      BY <2>2, <2>3, <2>6, <2>8, OrderedLess
    <3>2. \A e \in Events : Ordered(items'[e], heard.at + 1)
      BY <2>8, <3>1 DEF Heard
    <3> QED BY <1>2, <2>8, <3>2 DEF Heard
  <2> QED BY <1>1, <2>9, <2>10, <2>11, <2>12, <2>13 DEF InStep
<1> QED BY <1>3, <1>4

\* audio_tts_start takes what waits first.
LEMMA StartNext ==
  ASSUME InStep, Heard, Start, Task
  PROVE  Heard' /\ (clash' \/ InStep')
<1>1. TaskOK' /\ Made' = Made /\ pc' # "digit" /\ UNCHANGED <<rSize, history>>
  BY Advances DEF InStep, Start
<1>2. CASE list = <<>>
  BY <1>1, <1>2, Stays DEF Start, history
<1>3. CASE list # <<>>
  <2> DEFINE e == Head(list)
  <2>1. /\ irqEv' = e /\ list' = Tail(list) /\ clash' = (irqItem # NULL)
        /\ irqItem' = IF items[e] = <<>> THEN NULL ELSE Head(items[e])
        /\ items' = [items EXCEPT ![e] = IF @ = <<>> THEN @ ELSE Tail(@)]
    BY <1>3 DEF Start
  <2>2. e \in Waiting /\ e \in Events /\ e \in Nat
    <3>1. e \in 1..Made /\ e = list[1] /\ 1 \in 1..Len(list)
      <4>1. list \in Seq(1..Made)
        BY DEF InStep, ListOK
      <4>2. Len(list) \in Nat /\ Len(list) > 0 /\ e = list[1]
        BY <1>3, <4>1, EmptySeq
      <4>3. e \in 1..Made
        BY <1>3, <4>1, HeadTailProperties
      <4> QED BY <4>2, <4>3
    <3> QED BY <3>1, Types DEF Waiting, InStep
  <2>3. rSize' = rSize /\ heard' = heard /\ ended' = ended
    BY <1>1 DEF history
  <2>4. Heard'
    <3>1. \A f \in Events : items[f] \in Seq(Items)
      BY DEF Heard
    <3>2. items[e] # <<>> => /\ Tail(items[e]) \in Seq(Items)
                             /\ Ordered(Tail(items[e]), heard.at + 1)
      <4>1. heard.at + 1 \in Nat /\ Ordered(items[e], heard.at + 1) /\ Items \in SUBSET Items
        BY <2>2 DEF Heard
      <4> QED BY <2>2, <3>1, <4>1, OrderedTail
    <3> QED BY <2>1, <2>2, <2>3, <3>1, <3>2 DEF Heard
  <2>5. ASSUME irqItem = NULL PROVE InStep'
    <3>1. irqEv = NULL \/ items[irqEv] = <<>>
      BY <2>5 DEF InStep, Playing
    <3>2. TaskOK /\ ListOK /\ Lined /\ Playing
      BY DEF InStep
    <3> HIDE DEF e
    <3>3. /\ ListOK' /\ Lined' /\ Waiting' \subseteq Waiting
          /\ e \in 1..Made /\ \A f \in Waiting' : e < f
          /\ irqItem' = NULL => items'[e] = <<>>
          /\ irqItem' # NULL => /\ irqItem' \in [at : Places(e), size : Sizes]
                                /\ Ordered(items'[e], irqItem'.at + 1)
      BY <1>1, <1>3, <2>1, <2>2, <3>1, <3>2, Takes DEF e
    <3>4. rSize' = 0
      BY <2>3, <2>5 DEF InStep, Playing
    <3>5. irqItem' # NULL => heard.at < irqItem'.at /\ heard.at <= irqItem'.at
      <4> SUFFICES ASSUME irqItem' # NULL PROVE heard.at < irqItem'.at /\ heard.at <= irqItem'.at
        OBVIOUS
      <4>1. heard.at < At(e, 1) /\ heard.at \in Nat
        BY <2>2 DEF InStep, Unheard, Heard
      <4>2. irqItem'.at \in At(e, 1)..At(e, MaxLength)
        BY <3>3 DEF Places
      <4>3. At(e, 1) \in Nat
        BY <2>2, PlacesOrder
      <4> QED BY <4>1, <4>2, <4>3
    <3>6. irqItem' # NULL => irqItem'.size \in Nat
      BY <3>3, SizeAssumption
    <3>7. Playing'
      <4>1. InTurn' \/ irqItem' = NULL
        BY <2>3, <3>4, <3>5 DEF InTurn
      <4>2. e # NULL /\ irqEv' = e /\ e \in 1..Made'
        BY <1>1, <2>1, <2>2, <3>3, NullAssumption
      <4>3. irqItem' # NULL => rSize' \in 0..irqItem'.size /\ heard'.at <= irqItem'.at
        BY <2>3, <3>4, <3>5, <3>6
      <4> QED BY <3>3, <3>4, <4>1, <4>2, <4>3 DEF Playing
    <3>8. Unheard'
      BY <1>1, <2>3, <3>3 DEF InStep, Unheard
    <3> QED BY <1>1, <3>3, <3>7, <3>8 DEF InStep
  <2> QED BY <2>1, <2>4, <2>5
<1> QED BY <1>2, <1>3

-----------------------------------------------------------------------------
\* The callback goes on with the item that plays.
LEMMA WithinNext ==
  ASSUME InStep, Heard, TransferWithin
  PROVE  InStep' /\ Heard' /\ (~cut => ~cut')
<1>1. /\ irqItem # NULL /\ Rest >= Dual /\ rSize' = rSize + Dual
      /\ heard' = [at |-> irqItem.at, upto |-> rSize + Dual]
      /\ cut' = (cut \/ ~InTurn)
      /\ UNCHANGED <<task, list, items, irqEv, irqItem, ended>>
  BY DEF TransferWithin
<1>2. TaskOK /\ ListOK /\ Lined /\ Playing /\ Unheard
  BY DEF InStep
<1>3. /\ irqEv \in Events /\ irqItem.at \in Places(irqEv) /\ irqItem.at \in Nat
      /\ \A f \in Events : Ordered(items[f], irqItem.at + 1)
  BY <1>1, <1>2, NothingBehind
<1>4. InTurn /\ heard.at <= irqItem.at /\ rSize \in 0..irqItem.size /\ irqItem.size \in Nat
  BY <1>1, <1>2, SizeAssumption DEF Playing
<1>5. rSize' \in 0..irqItem.size /\ rSize' # 0
  BY <1>1, <1>4, SizeAssumption DEF Rest
<1>6. TaskOK' /\ Made' = Made
  BY <1>1, <1>2 DEF TaskOK, Made, task
<1>7. ListOK' /\ Lined'
  BY <1>1, <1>2, <1>6 DEF ListOK, Lined, Waiting, task, Event
<1>8. Waiting' = Waiting
  BY <1>1 DEF Waiting
<1>9. Playing'
  <2>1. InTurn'
    BY <1>1, <1>5 DEF InTurn
  <2>2. heard'.at = irqItem.at /\ heard'.at <= irqItem.at
    BY <1>1, <1>3
  <2> QED BY <1>1, <1>2, <1>5, <1>6, <1>8, <2>1, <2>2 DEF Playing
<1>10. Unheard'
  <2> SUFFICES ASSUME NEW f \in Events, f \in Waiting' \/ f > Made' PROVE heard'.at < At(f, 1)
    BY DEF Unheard
  <2>1. irqEv < f /\ irqEv \in Nat /\ f \in Nat
    BY <1>1, <1>2, <1>3, <1>6, <1>8, MadeValue DEF Playing
  <2>2. irqItem.at < At(f, 1)
    BY <1>3, <2>1, PlaceBefore
  <2> QED BY <1>1, <2>2
<1>11. Heard'
  <2>1. heard'.at = irqItem.at
    BY <1>1
  <2>2. \A x \in ended : x \in Nat /\ x <= irqItem.at
    BY <1>3, <1>4 DEF Heard
  <2> QED BY <1>1, <1>3, <2>1, <2>2 DEF Heard
<1> QED BY <1>1, <1>4, <1>6, <1>7, <1>9, <1>10, <1>11 DEF InStep

\* The callback gives the item back and takes the next.
LEMMA AcrossNext ==
  ASSUME InStep, Heard, TransferAcross, clash' \in BOOLEAN
  PROVE  Heard' /\ (~cut => ~cut') /\ (clash' \/ InStep')
<1> DEFINE more == EventOver /\ list # <<>>
           ev == IF more THEN Head(list) ELSE irqEv
           next == IF items[ev] = <<>> THEN NULL ELSE Head(items[ev])
<1>1. /\ irqItem # NULL /\ Rest < Dual
      /\ irqEv' = ev /\ list' = IF more THEN Tail(list) ELSE list
      /\ irqItem' = next
      /\ items' = [items EXCEPT ![ev] = IF @ = <<>> THEN @ ELSE Tail(@)]
      /\ rSize' = Position(next)
      /\ heard' = IF next = NULL THEN [at |-> irqItem.at, upto |-> irqItem.size]
                  ELSE [at |-> next.at, upto |-> Dual - Rest]
      /\ cut' = (cut \/ (Rest > 0 /\ ~InTurn) \/ (next # NULL /\ next.at <= irqItem.at))
      /\ ended' = ended \cup {irqItem.at} /\ UNCHANGED task
  BY DEF TransferAcross
<1>2. TaskOK /\ ListOK /\ Lined /\ Playing /\ Unheard
  BY DEF InStep
<1>3. /\ irqEv \in Events /\ irqItem.at \in Places(irqEv) /\ irqItem.at \in Nat
      /\ \A f \in Events : Ordered(items[f], irqItem.at + 1)
  BY <1>1, <1>2, NothingBehind
<1>4. /\ InTurn /\ heard.at <= irqItem.at /\ rSize \in 0..irqItem.size /\ irqItem.size \in Nat
      /\ irqEv \in 1..Made /\ \A f \in Waiting : irqEv < f
  BY <1>1, <1>2, SizeAssumption DEF Playing
<1>5. Rest \in Nat /\ Dual - Rest \in 1..Dual /\ Dual \in Nat
  BY <1>1, <1>4, SizeAssumption DEF Rest
<1>6. TaskOK' /\ Made' = Made /\ pc' = pc /\ left' = left /\ requests' = requests
  BY <1>1, <1>2 DEF TaskOK, Made, task
<1>7. ev \in Events
  <2>1. ASSUME list # <<>> PROVE Head(list) \in Events
    <3>1. Head(list) \in 1..Made
      BY <1>2, <2>1, HeadTailProperties DEF ListOK
    <3> QED BY <1>2, <3>1, Types
  <2> QED BY <1>3, <2>1
<1>8. \/ ev = irqEv /\ list' = list
      \/ /\ list # <<>> /\ ev = Head(list) /\ list' = Tail(list)
         /\ irqEv = NULL \/ items[irqEv] = <<>>
  BY <1>1 DEF EventOver
<1>9. irqItem' = IF items[ev] = <<>> THEN NULL ELSE Head(items[ev])
  BY <1>1
<1> HIDE DEF ev, next, more
<1>10. /\ ListOK' /\ Lined' /\ Waiting' \subseteq Waiting
       /\ ev \in 1..Made /\ \A f \in Waiting' : ev < f
       /\ irqItem' = NULL => items'[ev] = <<>>
       /\ irqItem' # NULL => /\ irqItem' \in [at : Places(ev), size : Sizes]
                             /\ Ordered(items'[ev], irqItem'.at + 1)
       /\ \A f \in Events : f # ev => f \in Waiting' \/ items'[f] = <<>>
       /\ \A f \in Events, p \in Nat : Ordered(items[f], p) => Ordered(items'[f], p)
       /\ \A p \in Nat : Ordered(items[ev], p) /\ irqItem' # NULL => p <= irqItem'.at
  BY <1>1, <1>2, <1>6, <1>7, <1>8, <1>9, Takes
<1>11. \A f \in Events : f \in Nat
  BY <1>2, Types
<1>12. ASSUME irqItem' # NULL
       PROVE  /\ irqItem'.at \in Places(ev) /\ irqItem'.at \in Nat /\ irqItem'.size \in Nat
              /\ irqItem'.size >= Dual /\ irqItem.at < irqItem'.at
  <2>1. irqItem'.at \in Places(ev) /\ irqItem'.size \in Sizes
    BY <1>10, <1>12
  <2>2. irqItem'.at \in Nat
    BY <1>7, <1>11, <2>1, PlacesOrder
  <2>3. irqItem.at + 1 <= irqItem'.at
    BY <1>3, <1>7, <1>10, <1>12
  <2> QED BY <1>3, <2>1, <2>2, <2>3, SizeAssumption
<1>13. heard'.at = IF irqItem' = NULL THEN irqItem.at ELSE irqItem'.at
  BY <1>1
<1>14. heard'.at \in Nat /\ irqItem.at <= heard'.at
  BY <1>3, <1>12, <1>13
<1>15. Heard'
  <2>1. \A x \in ended' : x \in Nat /\ x <= heard'.at
    BY <1>1, <1>3, <1>4, <1>14 DEF Heard
  <2>2. ASSUME NEW f \in Events PROVE Ordered(items'[f], heard'.at + 1)
    <3>1. CASE irqItem' = NULL
      BY <1>3, <1>10, <1>13, <3>1
    <3>2. CASE irqItem' # NULL /\ f = ev
      BY <1>10, <1>13, <3>2
    <3>3. CASE irqItem' # NULL /\ f # ev
      <4>1. CASE items'[f] = <<>>
        BY <4>1, OrderedEmpty
      <4>2. CASE f \in Waiting'
        <5>1. ev < f /\ ev \in Nat /\ f \in Nat
          BY <1>7, <1>10, <1>11, <4>2
        <5>2. items'[f] \in Seq([at : Places(f), size : Sizes])
          BY <1>10 DEF Lined
        <5>3. Ordered(items'[f], irqItem.at + 1)
          <6>1. irqItem.at + 1 \in Nat /\ Ordered(items[f], irqItem.at + 1)
            BY <1>3
          <6> QED BY <1>10, <6>1
        <5> QED BY <1>12, <1>13, <3>3, <5>1, <5>2, <5>3, Beyond
      <4> QED BY <1>10, <3>3, <4>1, <4>2
    <3> QED BY <3>1, <3>2, <3>3
  <2>3. items' \in [Events -> Seq(Items)]
    BY <1>10 DEF ListOK
  <2> QED BY <1>14, <2>1, <2>2, <2>3 DEF Heard
<1>16. ~cut => ~cut'
  <2>1. ~(next # NULL /\ next.at <= irqItem.at)
    BY <1>1, <1>3, <1>12
  <2> QED BY <1>1, <1>4, <2>1
<1>17. Playing'
  <2>1. ev # NULL /\ irqEv' = ev /\ ev \in 1..Made' /\ \A f \in Waiting' : irqEv' < f
    BY <1>1, <1>6, <1>7, <1>10, NullAssumption
  <2>2. irqItem' = NULL => rSize' = 0
    BY <1>1 DEF Position
  <2>3. ASSUME irqItem' # NULL
        PROVE  rSize' \in 0..irqItem'.size /\ InTurn' /\ heard'.at <= irqItem'.at
    <3>1. rSize' = Dual - Rest /\ rSize' \in 1..Dual
      BY <1>1, <1>5, <2>3 DEF Position
    <3>2. rSize' \in 0..irqItem'.size /\ rSize' # 0
      BY <1>5, <1>12, <2>3, <3>1
    <3>3. heard' = [at |-> irqItem'.at, upto |-> rSize']
      BY <1>1, <2>3, <3>1
    <3> QED BY <1>12, <2>3, <3>2, <3>3 DEF InTurn
  <2> QED BY <1>10, <2>1, <2>2, <2>3 DEF Playing
<1>18. Unheard'
  <2> SUFFICES ASSUME NEW f \in Events, f \in Waiting' \/ f > Made' PROVE heard'.at < At(f, 1)
    BY DEF Unheard
  <2>1. irqEv < f /\ ev < f /\ irqEv \in Nat /\ ev \in Nat /\ f \in Nat
    BY <1>2, <1>3, <1>4, <1>6, <1>7, <1>10, <1>11, MadeValue
  <2>2. irqItem.at < At(f, 1)
    BY <1>3, <2>1, PlaceBefore
  <2>3. irqItem' # NULL => irqItem'.at < At(f, 1)
    BY <1>12, <2>1, PlaceBefore
  <2> QED BY <1>13, <2>2, <2>3
<1> QED BY <1>6, <1>10, <1>15, <1>16, <1>17, <1>18 DEF InStep
-----------------------------------------------------------------------------
\* Every step of the task and of the callback keeps the invariant.
LEMMA NextInv == IInv /\ [Next]_vars => IInv'
<1> SUFFICES ASSUME IInv, [Next]_vars PROVE IInv'
  OBVIOUS
<1>1. CASE UNCHANGED vars
  <2>1. /\ UNCHANGED <<pc, left, requests, list, items, irqEv, irqItem, rSize>>
        /\ UNCHANGED <<heard, ended, cut, clash>>
    BY <1>1 DEF vars, task, player, history
  <2>2. InStep => TaskOK' /\ Made' = Made
    BY <2>1 DEF InStep, TaskOK, Made
  <2>3. Heard'
    BY <2>1 DEF IInv, Heard
  <2> QED BY <2>1, <2>2, <2>3, Stays DEF IInv
<1>2. ASSUME Next PROVE IInv'
  <2>1. InStep /\ Heard /\ ~cut /\ ~clash
    BY <1>2 DEF IInv, Next, Task, Transfer
  <2>2. CASE Task
    <3>1. cut' = cut
      BY <2>2 DEF Task, Recv, Before, Number, Digit, After, Start, Go, Characters, history
    <3>2. CASE Recv \/ Go
      <4>1. UNCHANGED <<list, items, irqEv, irqItem, rSize, heard, ended>> /\ pc' # "digit"
        BY <3>2 DEF Recv, Go, player, history
      <4>2. TaskOK' /\ Made' = Made
        BY <2>1, <2>2, <3>2, Advances DEF InStep
      <4> QED BY <2>1, <3>1, <4>1, <4>2, Stays DEF IInv
    <3>3. CASE Before \/ Number \/ After
      BY <2>1, <2>2, <3>1, <3>3, OpensNext DEF IInv
    <3>4. CASE Digit
      BY <2>1, <2>2, <3>1, <3>4, DigitNext DEF IInv
    <3>5. CASE Start
      BY <2>1, <2>2, <3>1, <3>5, StartNext DEF IInv
    <3> QED BY <2>2, <3>2, <3>3, <3>4, <3>5 DEF Task
  <2>3. CASE TransferWithin
    BY <2>1, <2>3, WithinNext DEF IInv
  <2>4. CASE TransferAcross
    <3>1. clash' \in BOOLEAN
      BY <2>4 DEF TransferAcross
    <3> QED BY <2>1, <2>4, <3>1, AcrossNext DEF IInv
  <2>5. CASE TransferSilence \/ Underrun
    <3>1. /\ UNCHANGED <<list, items, irqEv, irqItem, rSize, heard, ended, cut>>
          /\ UNCHANGED <<pc, left, requests>>
      BY <2>5 DEF TransferSilence, Underrun, task, history
    <3>2. TaskOK' /\ Made' = Made
      BY <2>1, <3>1 DEF InStep, TaskOK, Made
    <3> QED BY <2>1, <3>1, <3>2, Stays DEF IInv
  <2> QED BY <1>2, <2>2, <2>3, <2>4, <2>5 DEF Next, Transfer
<1> QED BY <1>1, <1>2

\* Whatever the callback does between the steps of the task, what is heard is complete and
\* in order; and r_size stays within the item that plays, unless task and callback met over
\* one event, after which the model stops.
THEOREM PlaysSeamlessly == Spec => []Seamless
<1>1. IInv => Seamless
  <2> SUFFICES ASSUME IInv PROVE Seamless
    OBVIOUS
  <2>1. irqItem # NULL /\ InStep => irqItem.size \in Nat
    BY SizeAssumption DEF InStep, Playing
  <2> QED BY <2>1 DEF IInv, InStep, Playing, Seamless
<1> QED BY <1>1, InitInv, NextInv, PTL DEF Spec

\* No item is forgotten, whenever the callback takes the last of an event, and none is
\* played that was given back.
THEOREM ForgetsNothing == Spec => []NothingForgotten
<1>1. IInv => NothingForgotten
  <2> SUFFICES ASSUME IInv, NEW e \in Events, items[e] # <<>>
               PROVE  /\ clash \/ e = irqEv \/ e \in {list[i] : i \in DOMAIN list}
                      /\ \A k \in DOMAIN items[e] : items[e][k].at \notin ended
    BY DEF NothingForgotten
  <2>1. items[e] \in Seq(Items) /\ Ordered(items[e], heard.at + 1) /\ heard.at \in Nat
    BY DEF IInv, Heard
  <2>2. DOMAIN items[e] = 1..Len(items[e])
    BY <2>1, LenProperties
  <2>3. ASSUME NEW k \in DOMAIN items[e] PROVE items[e][k].at \notin ended
    <3>1. heard.at + 1 <= items[e][k].at
      BY <2>1, <2>2 DEF Ordered
    <3>2. \A x \in ended : x \in Nat /\ x <= heard.at
      BY DEF IInv, Heard
    <3> QED BY <2>1, <3>1, <3>2
  <2>4. ASSUME InStep PROVE e = irqEv \/ e \in {list[i] : i \in DOMAIN list}
    <3>1. DOMAIN list = 1..Len(list)
      BY <2>4, LenProperties DEF InStep, ListOK
    <3>2. e \in Waiting \cup {irqEv}
      BY <2>4 DEF InStep, Lined
    <3> QED BY <3>1, <3>2 DEF Waiting
  <2> QED BY <2>3, <2>4 DEF IInv
<1> QED BY <1>1, InitInv, NextInv, PTL DEF Spec
=============================================================================
