--------------------------- MODULE WifiProvProofs ---------------------------
(***************************************************************************)
(* Proofs about WifiProv: the strings of the heap have one owner each, for  *)
(* every length of the queue, every heap and every number of requests, in   *)
(* each of the builds; a connect uses what was accepted last when it was    *)
(* requested; and the station follows the last request.                     *)
(***************************************************************************)
EXTENDS WifiProv, SeqCounting

\* The events that carry a string of the heap, and those that do not.
Wants == Pair \cup {NULL}
Carrying == {"ssid", "passwd"}
BufferEvents == [code : Carrying, val : Buffers, want : Wants]
\* The codes of events that carry no string of the heap.
OtherCodes == {"connect", "disconnect", "init_done", "mgmr_done", "lost", "ask"}
OtherEvents == [code : OtherCodes, val : Wants, want : Wants]
AllEvents == BufferEvents \cup OtherEvents
With(b) == {e \in AllEvents : e.val = b}

\* The part of the type that ownership rests on: only the events of SSID and password
\* carry a string.
Typed == /\ events \in Seq(AllEvents) /\ given \in Pair
         /\ live \subseteq Buffers
         /\ ssid \in Buffers \cup {NULL} /\ password \in Buffers \cup {NULL}

\* How many of the statics hold b.
Statics(b) == (IF ssid = b THEN 1 ELSE 0) + (IF password = b THEN 1 ELSE 0)

\* Holders counts the events and the statics.
LEMMA HoldersIs ==
  ASSUME Typed, NEW b \in Buffers
  PROVE  Holders(b) = Count(events, With(b)) + Statics(b) /\ Count(events, With(b)) \in Nat
<1>1. \A i \in DOMAIN events : events[i] \in AllEvents
  BY ElementOfSeq, LenProperties DEF Typed
<1>2. {i \in DOMAIN events : events[i].val = b} = Places(events, With(b))
  BY <1>1 DEF Places, With
<1>3. Count(events, With(b)) \in Nat
  BY CountFinite DEF Typed
<1> QED BY <1>2, <1>3 DEF Holders, Count, Statics

\* The same in the next state.
LEMMA HoldersNext ==
  ASSUME Typed', NEW b \in Buffers
  PROVE  /\ Holders(b)' = Count(events', With(b)) + Statics(b)'
         /\ Count(events', With(b)) \in Nat
<1>1. \A i \in DOMAIN events' : events'[i] \in AllEvents
  BY ElementOfSeq, LenProperties DEF Typed
<1>2. {i \in DOMAIN events' : events'[i].val = b} = Places(events', With(b))
  BY <1>1 DEF Places, With
<1>3. Count(events', With(b)) \in Nat
  BY CountFinite DEF Typed
<1> QED BY <1>2, <1>3 DEF Holders, Count, Statics

\* Posting an event without a string changes nobody's count.
LEMMA PutOther ==
  ASSUME Typed, NEW e \in OtherEvents, events' = Append(events, e)
  PROVE  /\ events' \in Seq(AllEvents)
         /\ \A b \in Buffers : Count(events', With(b)) = Count(events, With(b))
<1>1. e \in AllEvents /\ events \in Seq(AllEvents)
  BY DEF AllEvents, Typed
<1>2. \A b \in Buffers : e \notin With(b)
  BY NullAssumption, DistinctAssumption DEF With, OtherEvents, Wants
<1>3. events' \in Seq(AllEvents)
  BY <1>1, AppendProperties
<1>4. ASSUME NEW b \in Buffers
      PROVE  Count(events', With(b)) = Count(events, With(b))
  <2>1. Count(events', With(b)) = Count(events, With(b)) + One(e, With(b))
    BY <1>1, CountAppend
  <2>2. Count(events, With(b)) \in Nat
    BY <1>1, CountFinite
  <2> QED BY <1>2, <2>1, <2>2 DEF One
<1> QED BY <1>3, <1>4

\* Posting a string changes the count of that string only.
LEMMA PutBuffer ==
  ASSUME Typed, NEW e \in BufferEvents, events' = Append(events, e)
  PROVE  /\ events' \in Seq(AllEvents)
         /\ \A b \in Buffers : Count(events', With(b)) =
                Count(events, With(b)) + (IF e.val = b THEN 1 ELSE 0)
<1>1. e \in AllEvents /\ events \in Seq(AllEvents)
  BY DEF AllEvents, Typed
<1>2. events' \in Seq(AllEvents)
  BY <1>1, AppendProperties
<1>3. ASSUME NEW b \in Buffers
      PROVE  Count(events', With(b)) = Count(events, With(b)) + (IF e.val = b THEN 1 ELSE 0)
  <2>1. Count(events', With(b)) = Count(events, With(b)) + One(e, With(b))
    BY <1>1, CountAppend
  <2> QED BY <1>1, <2>1 DEF One, With
<1> QED BY <1>2, <1>3

\* Taking an event: the string it carries, if any, leaves the queue.
LEMMA TakeEvent ==
  ASSUME Typed, events # <<>>, events' = Tail(events)
  PROVE  /\ events' \in Seq(AllEvents) /\ Head(events) \in AllEvents
         /\ \A b \in Buffers :
              /\ Count(events, With(b)) =
                   Count(events', With(b)) + (IF Head(events).val = b THEN 1 ELSE 0)
              /\ Count(events', With(b)) \in Nat
<1>1. events \in Seq(AllEvents)
  BY DEF Typed
<1>2. events' \in Seq(AllEvents) /\ Head(events) \in AllEvents
  BY <1>1, HeadTailProperties
<1>3. ASSUME NEW b \in Buffers
      PROVE  Count(events, With(b)) =
               Count(events', With(b)) + (IF Head(events).val = b THEN 1 ELSE 0)
  <2>1. Count(events, With(b)) = Count(events', With(b)) + One(Head(events), With(b))
    BY <1>1, CountTail
  <2> QED BY <1>2, <2>1 DEF One, With
<1>4. \A b \in Buffers : Count(events', With(b)) \in Nat
  BY <1>2, CountFinite
<1> QED BY <1>2, <1>3, <1>4

\* An event that is neither of an SSID nor of a password takes no string with it.
LEMMA TakeOther ==
  ASSUME Typed, NEW code \in OtherCodes, Take(code)
  PROVE  /\ events' \in Seq(AllEvents)
         /\ \A b \in Buffers : Count(events', With(b)) = Count(events, With(b))
<1>1. events # <<>> /\ events' = Tail(events) /\ Head(events).code = code
  BY DEF Take
<1>2. Head(events) \in OtherEvents
  BY <1>1, TakeEvent DEF AllEvents, BufferEvents, OtherCodes, Carrying
<1>3. \A b \in Buffers : Head(events).val # b
  BY <1>2, NullAssumption, DistinctAssumption DEF OtherEvents, Wants
<1> QED BY <1>1, <1>3, TakeEvent

-----------------------------------------------------------------------------
\* OneOwner is inductive once it is known which events carry strings.
IInv == Typed /\ OneOwner

\* A step that moves no string keeps every string's owner.
LEMMA NothingMoved ==
  ASSUME IInv, Typed', UNCHANGED <<live, ssid, password>>,
         \A b \in Buffers : Count(events', With(b)) = Count(events, With(b))
  PROVE  OneOwner'
<1> SUFFICES ASSUME NEW b \in Buffers
             PROVE  Holders(b)' = IF b \in live' THEN 1 ELSE 0
  BY DEF OneOwner
<1>1. Holders(b)' = Count(events', With(b)) + Statics(b)'
  BY HoldersNext
<1>2. Holders(b) = Count(events, With(b)) + Statics(b)
  BY HoldersIs DEF IInv
<1>3. Statics(b)' = Statics(b)
  BY DEF Statics
<1> QED BY <1>1, <1>2, <1>3 DEF IInv, OneOwner

\* A request that posts an event without a string, or is refused.
LEMMA PostedOther ==
  ASSUME IInv, NEW e \in OtherEvents,
         events' = Append(events, e) \/ UNCHANGED events,
         given' \in Pair, UNCHANGED <<live, ssid, password>>
  PROVE  IInv'
<1>1. /\ events' \in Seq(AllEvents)
      /\ \A b \in Buffers : Count(events', With(b)) = Count(events, With(b))
  BY PutOther DEF IInv, Typed
<1>2. Typed'
  BY <1>1 DEF IInv, Typed
<1> QED BY <1>1, <1>2, NothingMoved DEF IInv

\* A served event that carries no string.
LEMMA ServedOther ==
  ASSUME IInv, NEW code \in OtherCodes, Take(code),
         UNCHANGED <<given, live, ssid, password>>
  PROVE  IInv'
<1>1. /\ events' \in Seq(AllEvents)
      /\ \A b \in Buffers : Count(events', With(b)) = Count(events, With(b))
  BY TakeOther DEF IInv
<1>2. Typed'
  BY <1>1 DEF IInv, Typed
<1> QED BY <1>1, <1>2, NothingMoved DEF IInv

\* The copy of an SSID or a password: a fresh block, posted or not kept.
LEMMA PostedCopy ==
  ASSUME IInv, NEW code \in Carrying, NEW s \in Strings, PostCopy(code, s),
         UNCHANGED <<ssid, password>>
  PROVE  IInv'
<1>1. CASE \E b \in Buffers \ live :
             /\ Put(code, b, NULL) /\ live' = live \cup {b}
             /\ given' = IF code = "ssid" THEN <<s, given[2]>> ELSE <<given[1], s>>
  <2>1. PICK b \in Buffers \ live :
             /\ Put(code, b, NULL) /\ live' = live \cup {b}
             /\ given' = IF code = "ssid" THEN <<s, given[2]>> ELSE <<given[1], s>>
    BY <1>1
  <2> DEFINE e == Event(code, b, NULL)
  <2>2. e \in BufferEvents /\ e.val = b
    BY DEF BufferEvents, Wants, Event
  <2>3. events' = Append(events, e)
    BY <2>1 DEF Put
  <2> HIDE DEF e
  <2>4. /\ events' \in Seq(AllEvents)
        /\ \A d \in Buffers : Count(events', With(d)) =
               Count(events, With(d)) + (IF b = d THEN 1 ELSE 0)
    BY <2>2, <2>3, PutBuffer DEF IInv
  <2>5. given' \in Pair
    BY <2>1 DEF IInv, Typed, Pair
  <2>6. Typed'
    BY <2>1, <2>4, <2>5 DEF IInv, Typed
  <2>7. ASSUME NEW d \in Buffers PROVE Holders(d)' = IF d \in live' THEN 1 ELSE 0
    <3>1. Holders(d)' = Count(events', With(d)) + Statics(d)'
      BY <2>6, HoldersNext
    <3>2. Holders(d) = Count(events, With(d)) + Statics(d) /\ Count(events, With(d)) \in Nat
      BY HoldersIs DEF IInv
    <3>3. Statics(d)' = Statics(d) /\ Statics(d) \in Nat
      BY DEF Statics
    <3>4. Holders(d) = IF d \in live THEN 1 ELSE 0
      BY DEF IInv, OneOwner
    <3> QED BY <2>1, <2>4, <3>1, <3>2, <3>3, <3>4
  <2> QED BY <2>6, <2>7 DEF IInv, OneOwner
<1>2. CASE UNCHANGED <<events, live, given>>
  <2>1. Typed'
    BY <1>2 DEF IInv, Typed
  <2>2. \A b \in Buffers : Count(events', With(b)) = Count(events, With(b))
    BY <1>2
  <2> QED BY <1>2, <2>1, <2>2, NothingMoved DEF IInv
<1> QED BY <1>1, <1>2 DEF PostCopy, heap

\* The string of an event replaces the one that a static held, which is freed.
LEMMA TookOver ==
  ASSUME IInv, NEW code \in Carrying, Take(code), UNCHANGED given,
         \/ /\ live' = live \ {ssid} /\ ssid' = Head(events).val /\ UNCHANGED password
         \/ /\ live' = live \ {password} /\ password' = Head(events).val /\ UNCHANGED ssid
  PROVE  IInv'
<1>1. events # <<>> /\ events' = Tail(events) /\ Head(events).code = code
  BY DEF Take
<1>2. Head(events) \in BufferEvents
  BY <1>1, TakeEvent DEF IInv, AllEvents, OtherEvents, OtherCodes, Carrying
<1>3. Head(events).val \in Buffers
  BY <1>2 DEF BufferEvents
<1>4. events' \in Seq(AllEvents)
  BY <1>1, TakeEvent DEF IInv
<1>5. Typed'
  BY <1>3, <1>4 DEF IInv, Typed
<1>6. ASSUME NEW b \in Buffers PROVE Holders(b)' = IF b \in live' THEN 1 ELSE 0
  <2>1. Holders(b)' = Count(events', With(b)) + Statics(b)'
    BY <1>5, HoldersNext
  <2>2. Holders(b) = Count(events, With(b)) + Statics(b)
    BY HoldersIs DEF IInv
  <2>3. /\ Count(events, With(b)) =
             Count(events', With(b)) + (IF Head(events).val = b THEN 1 ELSE 0)
        /\ Count(events', With(b)) \in Nat
    BY <1>1, TakeEvent DEF IInv
  <2>4. Holders(b) = IF b \in live THEN 1 ELSE 0
    BY DEF IInv, OneOwner
  <2>5. CASE live' = live \ {ssid} /\ ssid' = Head(events).val /\ UNCHANGED password
    BY <2>1, <2>2, <2>3, <2>4, <2>5 DEF Statics
  <2>6. CASE live' = live \ {password} /\ password' = Head(events).val /\ UNCHANGED ssid
    BY <2>1, <2>2, <2>3, <2>4, <2>6 DEF Statics
  <2> QED BY <2>5, <2>6
<1> QED BY <1>5, <1>6 DEF IInv, OneOwner

\* At the start there is no string at all.
LEMMA InitInv == Init => IInv
<1> SUFFICES ASSUME Init PROVE IInv
  OBVIOUS
<1>1. Typed
  BY EmptySeq DEF Init, Typed, Pair, NoPair
<1>2. ASSUME NEW b \in Buffers PROVE Holders(b) = 0
  <2>1. {i \in DOMAIN events : events[i].val = b} = {}
    BY DEF Init
  <2>2. ssid # b /\ password # b
    BY NullAssumption DEF Init
  <2> QED BY <2>1, <2>2, FS_EmptySet DEF Holders
<1> QED BY <1>1, <1>2 DEF IInv, OneOwner, Init

\* Every request, every event that is served, and the rest.
LEMMA NextInv == IInv /\ [Next]_vars => IInv'
<1> SUFFICES ASSUME IInv, [Next]_vars PROVE IInv'
  OBVIOUS
<1> USE DEF loop, wifi, heap, history, fixed
<1>0. given \in Pair
  BY DEF IInv, Typed
<1>1. ASSUME NEW s \in Strings, TriggerSsid(s) PROVE IInv'
  BY <1>1, PostedCopy DEF TriggerSsid, Carrying
<1>2. ASSUME NEW s \in Strings, TriggerPassword(s) PROVE IInv'
  BY <1>2, PostedCopy DEF TriggerPassword, Carrying
<1>3. CASE TriggerConnect
  <2>1. Event("connect", NULL, given) \in OtherEvents
    BY <1>0 DEF OtherEvents, Event, Wants, OtherCodes
  <2> QED BY <1>0, <1>3, <2>1, PostedOther DEF TriggerConnect, Put
<1>4. CASE TriggerDisconnect
  <2>1. Event("connect", NULL, given) \in OtherEvents
    BY <1>0 DEF OtherEvents, Event, Wants, OtherCodes
  <2> QED BY <1>0, <1>4, <2>1, PostedOther DEF TriggerDisconnect, Put
<1>5. ASSUME NEW s \in Strings, NEW p \in Strings, TriggerConnectMesh(s, p) PROVE IInv'
  <2>1. Event("connect", <<s, p>>, <<s, p>>) \in OtherEvents
    BY DEF OtherEvents, Event, Wants, OtherCodes, Pair
  <2> QED BY <1>0, <1>5, <2>1, PostedOther DEF TriggerConnectMesh, Put
<1>6. CASE TriggerDisconnectMesh
  <2>1. Event("disconnect", NULL, NULL) \in OtherEvents
    BY DEF OtherEvents, Event, Wants, OtherCodes
  <2> QED BY <1>0, <1>6, <2>1, PostedOther DEF TriggerDisconnectMesh, Put
<1>7. CASE StackWifi
  <2>1. Event("init_done", NULL, NULL) \in OtherEvents
    BY DEF OtherEvents, Event, Wants, OtherCodes
  <2> QED BY <1>0, <1>7, <2>1, PostedOther DEF StackWifi, Put
<1>8. CASE MgmrDone
  <2>1. Event("mgmr_done", NULL, NULL) \in OtherEvents
    BY DEF OtherEvents, Event, Wants, OtherCodes
  <2> QED BY <1>0, <1>8, <2>1, PostedOther DEF MgmrDone, Put, Quiet
<1>9. CASE OnInitDone
  BY <1>9, ServedOther DEF OnInitDone, Quiet, OtherCodes
<1>10. CASE OnMgmrDone
  BY <1>10, ServedOther DEF OnMgmrDone, Quiet, OtherCodes
<1>11. CASE OnSsid
  BY <1>11, TookOver DEF OnSsid, Quiet, Carrying
<1>12. CASE OnPassword
  BY <1>12, TookOver DEF OnPassword, Quiet, Carrying
<1>13. CASE OnConnect
  BY <1>13, ServedOther DEF OnConnect, Quiet, OtherCodes
<1>14. CASE OnDisconnect
  BY <1>14, ServedOther DEF OnDisconnect, Quiet, OtherCodes
<1>15. CASE TriggerAsk
  <2>1. Event("ask", NULL, NULL) \in OtherEvents
    BY DEF OtherEvents, Event, Wants, OtherCodes
  <2> QED BY <1>0, <1>15, <2>1, PostedOther DEF TriggerAsk, Put
<1>16. CASE LinkLost
  <2>1. Event("lost", NULL, NULL) \in OtherEvents
    BY DEF OtherEvents, Event, Wants, OtherCodes
  <2> QED BY <1>0, <1>16, <2>1, PostedOther DEF LinkLost, Put, Quiet
<1>17. CASE OnLost
  BY <1>17, ServedOther DEF OnLost, Quiet, OtherCodes
<1>18. CASE OnAsk
  BY <1>18, ServedOther DEF OnAsk, Quiet, OtherCodes
<1>19. CASE Disable
  <2>1. UNCHANGED <<events, given, live, ssid, password>>
    BY <1>19 DEF Disable, Quiet
  <2> QED BY <2>1, NothingMoved DEF IInv, Typed
<1>20. CASE UNCHANGED vars
  <2>1. UNCHANGED <<events, given, live, ssid, password>>
    BY <1>20 DEF vars
  <2> QED BY <2>1, NothingMoved DEF IInv, Typed
<1> QED
  BY <1>1, <1>2, <1>3, <1>4, <1>5, <1>6, <1>7, <1>8, <1>9, <1>10, <1>11, <1>12,
     <1>13, <1>14, <1>15, <1>16, <1>17, <1>18, <1>19, <1>20 DEF Next, Trigger, Loop

\* Whatever is posted, refused by a full queue or an exhausted heap, and taken over by the
\* event loop, every copied string is freed once and never referred to after that.
THEOREM OwnedOnce == Spec => []OneOwner
<1>1. IInv => OneOwner
  BY DEF IInv
<1> QED BY <1>1, InitInv, NextInv, PTL DEF Spec

-----------------------------------------------------------------------------
\* Events of some codes.
Coded(C) == {e \in AllEvents : e.code \in C}

\* What a block holds, in a given state of the heap.
Held(store, b) == IF b = NULL THEN NULL ELSE store[b]

\* The string in force before place i of the queue q is w: the newest one posted, or the
\* one the static holds if none is on its way.
InForce(q, store, static, C, i, w) ==
  /\ NoneBefore(q, Coded(C), i) => Held(store, static) = w
  /\ \A e \in Newest(q, Coded(C), i) : store[e.val] = w

\* At every connect that carries nothing itself, and at the end of the queue, the string in
\* force is the one that was accepted last when the connect was posted.
Settled(q, store, static, accepted, C, k) ==
  /\ \A i \in 1..Len(q) : q[i].code = "connect" /\ q[i].val = NULL
                          => InForce(q, store, static, C, i, q[i].want[k])
  /\ InForce(q, store, static, C, Len(q) + 1, accepted[k])

Strung == /\ Settled(events, content, ssid, given, {"ssid"}, 1)
          /\ Settled(events, content, password, given, {"passwd"}, 2)
          /\ content \in [Buffers -> Strings \cup {NULL}]

\* A connect wants a pair: the one it carries, outside the build with strings.  A
\* disconnection wants no network.
WellMeant(e, b) ==
  /\ e.code = "connect" => /\ e.want \in Pair
                           /\ e.val # NULL => e.val = e.want
                           /\ b # "strings" => e.val # NULL
  /\ e.code = "disconnect" => e.want = NULL
Meant == \A i \in 1..Len(events) : WellMeant(events[i], build)

\* A new event of another kind: what was in force stays so, in a heap that keeps the
\* strings referred to.
LEMMA SettledAppend ==
  ASSUME NEW q \in Seq(AllEvents), NEW e \in AllEvents, NEW C, NEW k,
         NEW store, NEW store2, NEW static, NEW accepted, NEW accepted2,
         Settled(q, store, static, accepted, C, k), e.code \notin C,
         accepted2[k] = accepted[k],
         e.code = "connect" /\ e.val = NULL => e.want = accepted,
         Held(store2, static) = Held(store, static),
         \A i \in 1..Len(q) : q[i].code \in C => store2[q[i].val] = store[q[i].val]
  PROVE  Settled(Append(q, e), store2, static, accepted2, C, k)
<1> DEFINE r == Append(q, e)
           P == Coded(C)
<1>1. e \notin P
  BY DEF Coded
<1>2. /\ r \in Seq(AllEvents) /\ Len(r) = Len(q) + 1 /\ Len(q) \in Nat
      /\ \A i \in 1..Len(q) : r[i] = q[i]
      /\ r[Len(q) + 1] = e
      /\ \A i \in 1..Len(q) + 1 : /\ Newest(r, P, i) = Newest(q, P, i)
                                  /\ NoneBefore(r, P, i) <=> NoneBefore(q, P, i)
      /\ Newest(r, P, Len(r) + 1) = Newest(q, P, Len(q) + 1)
      /\ NoneBefore(r, P, Len(r) + 1) <=> NoneBefore(q, P, Len(q) + 1)
  BY <1>1, NewestAppend
<1> HIDE DEF r, P
<1>3. ASSUME NEW i \in 1..Len(q) + 1, NEW d \in Newest(q, P, i) PROVE store2[d.val] = store[d.val]
  <2>0. d \in P /\ d \in AllEvents /\ \E j \in 1..Len(q) : d = q[j]
    <3>1. \A j \in 1..Len(q) + 1 : \A x \in Newest(q, P, j) :
             x \in P /\ x \in AllEvents /\ \E m \in 1..Len(q) : x = q[m]
      BY NewestElement
    <3> QED BY <1>3, <3>1
  <2>1. PICK j \in 1..Len(q) : d = q[j] /\ d \in P
    BY <2>0
  <2> QED BY <2>1 DEF P, Coded
<1>4. ASSUME NEW i \in 1..Len(q) + 1, NEW w, InForce(q, store, static, C, i, w)
      PROVE  InForce(r, store2, static, C, i, w)
  BY <1>2, <1>3, <1>4 DEF InForce, P
<1>5. ASSUME NEW i \in 1..Len(r), r[i].code = "connect", r[i].val = NULL
      PROVE  InForce(r, store2, static, C, i, r[i].want[k])
  <2>1. CASE i \in 1..Len(q)
    BY <1>2, <1>4, <1>5, <2>1 DEF Settled
  <2>2. CASE i = Len(q) + 1
    BY <1>2, <1>4, <1>5, <2>2 DEF Settled
  <2> QED BY <1>2, <2>1, <2>2
<1>6. InForce(r, store2, static, C, Len(r) + 1, accepted2[k])
  <2>1. Len(q) + 1 \in 1..Len(q) + 1
    BY <1>2
  <2>2. InForce(q, store, static, C, Len(q) + 1, accepted[k])
    BY DEF Settled
  <2>3. \A d \in Newest(q, P, Len(q) + 1) : store2[d.val] = store[d.val]
    BY <1>3, <2>1
  <2> QED BY <1>2, <2>2, <2>3 DEF InForce, P
<1> QED BY <1>5, <1>6 DEF Settled, r

\* A new event of the kind: its string is in force at the end.
LEMMA SettledOwn ==
  ASSUME NEW q \in Seq(AllEvents), NEW e \in AllEvents, NEW C, NEW k,
         NEW store, NEW store2, NEW static, NEW accepted, NEW accepted2,
         Settled(q, store, static, accepted, C, k), e.code \in C, e.code # "connect",
         store2[e.val] = accepted2[k],
         Held(store2, static) = Held(store, static),
         \A i \in 1..Len(q) : q[i].code \in C => store2[q[i].val] = store[q[i].val]
  PROVE  Settled(Append(q, e), store2, static, accepted2, C, k)
<1> DEFINE r == Append(q, e)
           P == Coded(C)
<1>1. e \in P
  BY DEF Coded
<1>2. /\ r \in Seq(AllEvents) /\ Len(r) = Len(q) + 1 /\ Len(q) \in Nat
      /\ \A i \in 1..Len(q) : r[i] = q[i]
      /\ r[Len(q) + 1] = e
      /\ \A i \in 1..Len(q) + 1 : /\ Newest(r, P, i) = Newest(q, P, i)
                                  /\ NoneBefore(r, P, i) <=> NoneBefore(q, P, i)
      /\ Newest(r, P, Len(r) + 1) = {e}
      /\ ~NoneBefore(r, P, Len(r) + 1)
  BY <1>1, NewestAppend
<1> HIDE DEF r, P
<1>3. ASSUME NEW i \in 1..Len(q) + 1, NEW d \in Newest(q, P, i) PROVE store2[d.val] = store[d.val]
  <2>0. d \in P /\ d \in AllEvents /\ \E j \in 1..Len(q) : d = q[j]
    <3>1. \A j \in 1..Len(q) + 1 : \A x \in Newest(q, P, j) :
             x \in P /\ x \in AllEvents /\ \E m \in 1..Len(q) : x = q[m]
      BY NewestElement
    <3> QED BY <1>3, <3>1
  <2>1. PICK j \in 1..Len(q) : d = q[j] /\ d \in P
    BY <2>0
  <2> QED BY <2>1 DEF P, Coded
<1>5. ASSUME NEW i \in 1..Len(r), r[i].code = "connect", r[i].val = NULL
      PROVE  InForce(r, store2, static, C, i, r[i].want[k])
  <2>1. i \in 1..Len(q) /\ r[i] = q[i] /\ i \in 1..Len(q) + 1
    BY <1>2, <1>5
  <2>2. InForce(q, store, static, C, i, q[i].want[k])
    BY <1>5, <2>1 DEF Settled
  <2> QED BY <1>2, <1>3, <2>1, <2>2 DEF InForce, P
<1>6. InForce(r, store2, static, C, Len(r) + 1, accepted2[k])
  BY <1>2 DEF InForce, P
<1> QED BY <1>5, <1>6 DEF Settled, r

\* Taking an event: if it is of the kind, its string becomes the static's.
LEMMA SettledTail ==
  ASSUME NEW q \in Seq(AllEvents), q # <<>>, NEW C, NEW k,
         NEW store, NEW static, NEW static2, NEW accepted,
         Settled(q, store, static, accepted, C, k),
         Head(q).code \notin C => static2 = static,
         Head(q).code \in C => static2 = Head(q).val /\ static2 # NULL
  PROVE  Settled(Tail(q), store, static2, accepted, C, k)
<1> DEFINE r == Tail(q)
           P == Coded(C)
<1>1. /\ r \in Seq(AllEvents) /\ Len(q) = Len(r) + 1 /\ Len(r) \in Nat /\ Head(q) \in AllEvents
      /\ \A i \in 1..Len(r) : r[i] = q[i + 1]
      /\ \A i \in 1..Len(r) + 1 :
           /\ Newest(r, P, i) \subseteq Newest(q, P, i + 1)
           /\ NoneBefore(r, P, i) /\ Head(q) \notin P => NoneBefore(q, P, i + 1)
           /\ NoneBefore(r, P, i) /\ Head(q) \in P => Head(q) \in Newest(q, P, i + 1)
  BY NewestTail
<1>2. Head(q) \in P <=> Head(q).code \in C
  BY <1>1 DEF Coded
<1> HIDE DEF r, P
<1>3. ASSUME NEW i \in 1..Len(r) + 1, NEW w, InForce(q, store, static, C, i + 1, w)
      PROVE  InForce(r, store, static2, C, i, w)
  <2>1. ASSUME NoneBefore(r, P, i) PROVE Held(store, static2) = w
    BY <1>1, <1>2, <1>3, <2>1 DEF InForce, Held, P
  <2>2. \A d \in Newest(r, P, i) : store[d.val] = w
    BY <1>1, <1>3 DEF InForce, P
  <2> QED BY <2>1, <2>2 DEF InForce, P
<1>4. ASSUME NEW i \in 1..Len(r), r[i].code = "connect", r[i].val = NULL
      PROVE  InForce(r, store, static2, C, i, r[i].want[k])
  <2>1. i + 1 \in 1..Len(q) /\ r[i] = q[i + 1] /\ i \in 1..Len(r) + 1
    BY <1>1
  <2>2. InForce(q, store, static, C, i + 1, q[i + 1].want[k])
    BY <1>4, <2>1 DEF Settled
  <2> QED BY <1>3, <2>1, <2>2
<1>5. InForce(r, store, static2, C, Len(r) + 1, accepted[k])
  <2>1. Len(r) + 1 \in 1..Len(r) + 1
    BY <1>1
  <2>2. InForce(q, store, static, C, (Len(r) + 1) + 1, accepted[k])
    BY <1>1 DEF Settled
  <2> QED BY <1>3, <2>1, <2>2
<1> QED BY <1>4, <1>5 DEF Settled, r

\* A string that an event carries, or a static holds, is in the heap.
LEMMA HeldIsLive ==
  ASSUME IInv, NEW b \in Buffers
  PROVE  /\ \A i \in 1..Len(events) : events[i].val = b => b \in live
         /\ ssid = b \/ password = b => b \in live
<1>1. Holders(b) = Count(events, With(b)) + Statics(b) /\ Count(events, With(b)) \in Nat
  BY HoldersIs DEF IInv
<1>2. Holders(b) = IF b \in live THEN 1 ELSE 0
  BY DEF IInv, OneOwner
<1>3. ASSUME NEW i \in 1..Len(events), events[i].val = b PROVE b \in live
  <2>1. events[i] \in With(b) /\ i \in DOMAIN events
    BY <1>3, ElementOfSeq, LenProperties DEF IInv, Typed, With
  <2>2. Places(events, With(b)) # {} /\ IsFiniteSet(Places(events, With(b)))
    BY <2>1, CountFinite DEF Places, IInv, Typed
  <2>3. Count(events, With(b)) # 0
    BY <2>2, FS_EmptySet DEF Count
  <2>4. Statics(b) \in Nat
    BY DEF Statics
  <2> QED BY <1>1, <1>2, <2>3, <2>4
<1>4. ASSUME ssid = b \/ password = b PROVE b \in live
  BY <1>1, <1>2, <1>4 DEF Statics
<1> QED BY <1>3, <1>4

-----------------------------------------------------------------------------
\* What a step may do to the queue, the heap and the statics.
PostsOther(e) ==
  /\ events' = Append(events, e) /\ UNCHANGED <<content, ssid, password, given>>
  /\ e.code = "connect" => \/ e.val = NULL /\ e.want = given /\ build = "strings"
                           \/ e.val = e.want /\ e.val \in Strings \X Strings
  /\ e.code = "disconnect" => e.want = NULL
PostsString(s, b) ==
  /\ content' = [content EXCEPT ![b] = s] /\ UNCHANGED <<ssid, password>>
  /\ \/ events' = Append(events, Event("ssid", b, NULL)) /\ given' = <<s, given[2]>>
     \/ events' = Append(events, Event("passwd", b, NULL)) /\ given' = <<given[1], s>>
Takes ==
  /\ events # <<>> /\ events' = Tail(events) /\ UNCHANGED <<content, given>>
  /\ \/ Head(events).code \in OtherCodes /\ UNCHANGED <<ssid, password>>
     \/ Head(events).code = "ssid" /\ ssid' = Head(events).val /\ UNCHANGED password
     \/ Head(events).code = "passwd" /\ password' = Head(events).val /\ UNCHANGED ssid
Leaves == UNCHANGED <<events, content, ssid, password, given>>

\* Every step is one of these.
LEMMA Shapes ==
  ASSUME IInv, [Next]_vars
  PROVE  /\ build' = build /\ stored' = stored
         /\ \/ \E e \in OtherEvents : PostsOther(e)
            \/ \E s \in Strings, b \in Buffers \ live : PostsString(s, b)
            \/ Takes
            \/ Leaves
<1> USE DEF loop, wifi, heap, history, fixed
<1> DEFINE Shape == /\ build' = build /\ stored' = stored
                    /\ \/ \E e \in OtherEvents : PostsOther(e)
                       \/ \E s \in Strings, b \in Buffers \ live : PostsString(s, b)
                       \/ Takes
                       \/ Leaves
<1> SUFFICES Shape
  OBVIOUS
<1>0. given \in Pair
  BY DEF IInv, Typed
<1>1. ASSUME NEW s \in Strings, TriggerSsid(s) \/ TriggerPassword(s) PROVE Shape
  BY <1>1 DEF TriggerSsid, TriggerPassword, PostCopy, PostsString, Put, Leaves
<1>2. ASSUME TriggerConnect \/ TriggerDisconnect PROVE Shape
  <2>1. Event("connect", NULL, given) \in OtherEvents
    BY <1>0 DEF OtherEvents, Event, Wants, OtherCodes
  <2>2. Put("connect", NULL, given) \/ UNCHANGED events
    BY <1>2 DEF TriggerConnect, TriggerDisconnect
  <2>3. build = "strings" /\ build' = build /\ stored' = stored /\ UNCHANGED <<content, ssid, password, given>>
    BY <1>2 DEF TriggerConnect, TriggerDisconnect
  <2>4. CASE Put("connect", NULL, given)
    <3>1. PostsOther(Event("connect", NULL, given))
      BY <2>3, <2>4 DEF PostsOther, Put, Event
    <3> QED BY <2>1, <2>3, <3>1
  <2> QED BY <2>2, <2>3, <2>4 DEF Leaves
<1>3. ASSUME NEW s \in Strings, NEW p \in Strings, TriggerConnectMesh(s, p) PROVE Shape
  <2>1. Event("connect", <<s, p>>, <<s, p>>) \in OtherEvents
    BY DEF OtherEvents, Event, Wants, OtherCodes, Pair
  <2>2. Put("connect", <<s, p>>, <<s, p>>) \/ UNCHANGED events
    BY <1>3 DEF TriggerConnectMesh
  <2>3. build' = build /\ stored' = stored /\ UNCHANGED <<content, ssid, password, given>>
    BY <1>3 DEF TriggerConnectMesh
  <2>4. CASE Put("connect", <<s, p>>, <<s, p>>)
    <3>1. PostsOther(Event("connect", <<s, p>>, <<s, p>>))
      BY <2>3, <2>4 DEF PostsOther, Put, Event
    <3> QED BY <2>1, <2>3, <3>1
  <2> QED BY <2>2, <2>3, <2>4 DEF Leaves
<1>4. ASSUME NEW code \in {"disconnect", "ask", "init_done", "mgmr_done", "lost"},
             Put(code, NULL, NULL) \/ UNCHANGED events,
             build' = build, stored' = stored, UNCHANGED <<content, ssid, password, given>>
      PROVE  Shape
  <2>1. Event(code, NULL, NULL) \in OtherEvents
    BY DEF OtherEvents, Event, Wants, OtherCodes
  <2>2. CASE Put(code, NULL, NULL)
    <3>1. PostsOther(Event(code, NULL, NULL))
      BY <1>4, <2>2 DEF PostsOther, Put, Event
    <3> QED BY <1>4, <2>1, <3>1
  <2> QED BY <1>4, <2>2 DEF Leaves
<1>5. CASE TriggerDisconnectMesh
  BY <1>4, <1>5 DEF TriggerDisconnectMesh
<1>6. CASE TriggerAsk
  BY <1>4, <1>6 DEF TriggerAsk
<1>7. CASE StackWifi
  BY <1>4, <1>7 DEF StackWifi
<1>8. CASE MgmrDone
  BY <1>4, <1>8 DEF MgmrDone, Quiet
<1>9. CASE LinkLost
  BY <1>4, <1>9 DEF LinkLost, Quiet
<1>10. ASSUME NEW code \in OtherCodes, Take(code), build' = build, stored' = stored,
              UNCHANGED <<content, ssid, password, given>>
       PROVE  Shape
  BY <1>10 DEF Take, Takes
<1>11. CASE OnInitDone \/ OnMgmrDone \/ OnConnect \/ OnDisconnect \/ OnLost \/ OnAsk
  BY <1>10, <1>11 DEF OnInitDone, OnMgmrDone, OnConnect, OnDisconnect, OnLost, OnAsk, Quiet, OtherCodes
<1>12. CASE OnSsid \/ OnPassword
  BY <1>12 DEF OnSsid, OnPassword, Quiet, Take, Takes
<1>13. CASE Disable \/ UNCHANGED vars
  BY <1>13 DEF Disable, Quiet, vars, Leaves
<1> QED
  BY <1>1, <1>2, <1>3, <1>5, <1>6, <1>7, <1>8, <1>9, <1>11, <1>12, <1>13 DEF Next, Trigger, Loop

-----------------------------------------------------------------------------
\* Nothing was requested yet.
LEMMA MeantInit == Init => Meant /\ Strung
<1> SUFFICES ASSUME Init PROVE Meant /\ Strung
  OBVIOUS
<1>1. Meant
  BY DEF Init, Meant
<1>2. \A C, i : Newest(<<>>, Coded(C), 1) = {} /\ Len(<<>>) + 1 = 1
  BY DEF Newest
<1>3. Settled(events, content, ssid, given, {"ssid"}, 1) /\ Settled(events, content, password, given, {"passwd"}, 2)
  BY <1>2 DEF Init, Settled, InForce, Held, NoPair
<1>4. content \in [Buffers -> Strings \cup {NULL}]
  BY DEF Init
<1> QED BY <1>1, <1>3, <1>4 DEF Strung

\* Every connect in the queue keeps its meaning.
LEMMA MeantNext ==
  ASSUME IInv, Meant, [Next]_vars PROVE Meant'
<1>0. given \in Pair /\ events \in Seq(AllEvents) /\ build' = build
  BY Shapes DEF IInv, Typed
<1>1. ASSUME NEW e \in AllEvents, WellMeant(e, build), events' = Append(events, e) PROVE Meant'
  <2>1. /\ Len(events') = Len(events) + 1 /\ Len(events) \in Nat
        /\ \A i \in 1..Len(events) : events'[i] = events[i]
        /\ events'[Len(events) + 1] = e
    BY <1>0, <1>1, AppendProperties, LenProperties
  <2>2. ASSUME NEW i \in 1..Len(events') PROVE WellMeant(events'[i], build')
    <3>1. i \in 1..Len(events) \/ i = Len(events) + 1
      BY <2>1
    <3>2. i \in 1..Len(events) => WellMeant(events[i], build)
      BY DEF Meant
    <3> QED BY <1>0, <1>1, <2>1, <3>1, <3>2
  <2> QED BY <2>2 DEF Meant
<1>2. ASSUME NEW e \in OtherEvents, PostsOther(e) PROVE Meant'
  <2>1. e \in AllEvents
    BY DEF AllEvents
  <2>2. WellMeant(e, build)
    BY <1>0, <1>2, NullAssumption DEF PostsOther, WellMeant, Pair
  <2> QED BY <1>1, <1>2, <2>1, <2>2 DEF PostsOther
<1>3. ASSUME NEW s \in Strings, NEW b \in Buffers \ live, PostsString(s, b) PROVE Meant'
  <2>1. ASSUME NEW code \in Carrying
        PROVE  Event(code, b, NULL) \in AllEvents /\ WellMeant(Event(code, b, NULL), build)
    BY DEF AllEvents, BufferEvents, Wants, Event, WellMeant, Carrying
  <2> QED BY <1>1, <1>3, <2>1 DEF PostsString, Carrying
<1>4. CASE Takes
  <2>1. /\ Len(events) = Len(events') + 1 /\ Len(events') \in Nat
        /\ \A i \in 1..Len(events') : events'[i] = events[i + 1]
    BY <1>0, <1>4, HeadTailProperties, LenProperties DEF Takes
  <2>2. \A i \in 1..Len(events') : i + 1 \in 1..Len(events)
    BY <2>1
  <2> QED BY <1>0, <2>1, <2>2 DEF Meant
<1>5. CASE Leaves
  BY <1>0, <1>5 DEF Leaves, Meant
<1> QED BY <1>2, <1>3, <1>4, <1>5, Shapes

\* Every step keeps the strings in force.
LEMMA StrungNext ==
  ASSUME IInv, Strung, [Next]_vars PROVE Strung'
<1>0. /\ given \in Pair /\ events \in Seq(AllEvents) /\ content \in [Buffers -> Strings \cup {NULL}]
      /\ ssid \in Buffers \cup {NULL} /\ password \in Buffers \cup {NULL}
      /\ Settled(events, content, ssid, given, {"ssid"}, 1)
      /\ Settled(events, content, password, given, {"passwd"}, 2)
  BY DEF IInv, Typed, Strung
<1>1. ASSUME NEW e \in OtherEvents, PostsOther(e) PROVE Strung'
  <2>1. e \in AllEvents /\ e.code \notin {"ssid"} /\ e.code \notin {"passwd"}
    BY DEF AllEvents, OtherEvents, OtherCodes
  <2>2. e.code = "connect" /\ e.val = NULL => e.want = given
    BY <1>1, NullAssumption DEF PostsOther
  <2>3. Settled(Append(events, e), content, ssid, given, {"ssid"}, 1)
    BY <1>0, <2>1, <2>2, SettledAppend
  <2>4. Settled(Append(events, e), content, password, given, {"passwd"}, 2)
    BY <1>0, <2>1, <2>2, SettledAppend
  <2> QED BY <1>0, <1>1, <2>3, <2>4 DEF PostsOther, Strung
<1>2. ASSUME NEW s \in Strings, NEW b \in Buffers \ live, PostsString(s, b) PROVE Strung'
  <2>1. content' \in [Buffers -> Strings \cup {NULL}] /\ content'[b] = s
        /\ \A d \in Buffers : d # b => content'[d] = content[d]
    BY <1>0, <1>2 DEF PostsString
  <2>2. Held(content', ssid) = Held(content, ssid) /\ Held(content', password) = Held(content, password)
    BY <1>0, <2>1, HeldIsLive DEF Held
  <2>3. ASSUME NEW i \in 1..Len(events), events[i].code \in Carrying
        PROVE  content'[events[i].val] = content[events[i].val]
    <3>1. events[i] \in AllEvents
      BY <1>0, ElementOfSeq
    <3>2. events[i].val \in Buffers
      BY <2>3, <3>1 DEF AllEvents, BufferEvents, OtherEvents, OtherCodes, Carrying
    <3>3. events[i].val \in live
      BY <3>2, HeldIsLive
    <3> QED BY <2>1, <3>2, <3>3
  <2>4. UNCHANGED <<ssid, password>>
    BY <1>2 DEF PostsString
  <2>5. CASE events' = Append(events, Event("ssid", b, NULL)) /\ given' = <<s, given[2]>>
    <3> DEFINE e == Event("ssid", b, NULL)
    <3>1. e \in AllEvents /\ e.code = "ssid" /\ e.val = b
      BY DEF AllEvents, BufferEvents, Wants, Event, Carrying
    <3> HIDE DEF e
    <3>2. given'[1] = s /\ given'[2] = given[2]
      BY <2>5
    <3>3. \A i \in 1..Len(events) : events[i].code \in {"ssid"} => content'[events[i].val] = content[events[i].val]
      BY <2>3 DEF Carrying
    <3>4. \A i \in 1..Len(events) : events[i].code \in {"passwd"} => content'[events[i].val] = content[events[i].val]
      BY <2>3 DEF Carrying
    <3>5. Settled(Append(events, e), content', ssid, given', {"ssid"}, 1)
      BY <1>0, <2>1, <2>2, <3>1, <3>2, <3>3, SettledOwn
    <3>6. Settled(Append(events, e), content', password, given', {"passwd"}, 2)
      BY <1>0, <2>2, <3>1, <3>2, <3>4, SettledAppend
    <3> QED BY <2>1, <2>4, <2>5, <3>5, <3>6 DEF Strung, e
  <2>6. CASE events' = Append(events, Event("passwd", b, NULL)) /\ given' = <<given[1], s>>
    <3> DEFINE e == Event("passwd", b, NULL)
    <3>1. e \in AllEvents /\ e.code = "passwd" /\ e.val = b
      BY DEF AllEvents, BufferEvents, Wants, Event, Carrying
    <3> HIDE DEF e
    <3>2. given'[2] = s /\ given'[1] = given[1]
      BY <2>6
    <3>3. \A i \in 1..Len(events) : events[i].code \in {"ssid"} => content'[events[i].val] = content[events[i].val]
      BY <2>3 DEF Carrying
    <3>4. \A i \in 1..Len(events) : events[i].code \in {"passwd"} => content'[events[i].val] = content[events[i].val]
      BY <2>3 DEF Carrying
    <3>5. Settled(Append(events, e), content', password, given', {"passwd"}, 2)
      BY <1>0, <2>1, <2>2, <3>1, <3>2, <3>4, SettledOwn
    <3>6. Settled(Append(events, e), content', ssid, given', {"ssid"}, 1)
      BY <1>0, <2>2, <3>1, <3>2, <3>3, SettledAppend
    <3> QED BY <2>1, <2>4, <2>6, <3>5, <3>6 DEF Strung, e
  <2> QED BY <1>2, <2>5, <2>6 DEF PostsString
<1>3. CASE Takes
  <2>1. events # <<>> /\ events' = Tail(events) /\ UNCHANGED <<content, given>>
    BY <1>3 DEF Takes
  <2>2. Head(events) \in AllEvents
    BY <1>0, <2>1, HeadTailProperties
  <2>3. Head(events).code \in Carrying => Head(events).val \in Buffers
    BY <2>2 DEF AllEvents, BufferEvents, OtherEvents, OtherCodes, Carrying
  <2>4. /\ Head(events).code \notin {"ssid"} => ssid' = ssid
        /\ Head(events).code \in {"ssid"} => ssid' = Head(events).val /\ ssid' # NULL
    BY <1>3, <2>3, NullAssumption DEF Takes, OtherCodes, Carrying
  <2>5. /\ Head(events).code \notin {"passwd"} => password' = password
        /\ Head(events).code \in {"passwd"} => password' = Head(events).val /\ password' # NULL
    BY <1>3, <2>3, NullAssumption DEF Takes, OtherCodes, Carrying
  <2>6. Settled(Tail(events), content, ssid', given, {"ssid"}, 1)
    BY <1>0, <2>1, <2>4, SettledTail
  <2>7. Settled(Tail(events), content, password', given, {"passwd"}, 2)
    BY <1>0, <2>1, <2>5, SettledTail
  <2> QED BY <1>0, <2>1, <2>6, <2>7 DEF Strung
<1>4. CASE Leaves
  BY <1>0, <1>4 DEF Leaves, Strung
<1> QED BY <1>1, <1>2, <1>3, <1>4, Shapes

\* A connect uses the SSID and the password accepted last before it was requested: what
\* is posted between the request and its turn overtakes nothing, and no string is freed
\* or replaced in between.
THEOREM ConnectsAsPosted == Spec => ConnectAsPosted
<1>1. ASSUME IInv, Meant, Strung, OnConnect PROVE target' = Head(events).want
  <2>1. /\ events # <<>> /\ Head(events).code = "connect"
        /\ target' = IF Head(events).val # NULL THEN Head(events).val
                     ELSE <<Text(ssid), Text(password)>>
    BY <1>1 DEF OnConnect, Take, Connect, Tell
  <2>2. events \in Seq(AllEvents) /\ Len(events) \in Nat /\ Len(events) > 0 /\ Head(events) = events[1]
        /\ 1 \in 1..Len(events)
    BY <1>1, <2>1, EmptySeq, LenProperties, HeadTailProperties DEF IInv, Typed
  <2>3. WellMeant(Head(events), build)
    BY <1>1, <2>2 DEF Meant
  <2>4. CASE Head(events).val # NULL
    BY <2>1, <2>3, <2>4 DEF WellMeant
  <2>5. CASE Head(events).val = NULL
    <3>1. /\ InForce(events, content, ssid, {"ssid"}, 1, Head(events).want[1])
          /\ InForce(events, content, password, {"passwd"}, 1, Head(events).want[2])
      BY <1>1, <2>1, <2>2, <2>5 DEF Strung, Settled
    <3>2. \A P : NoneBefore(events, P, 1)
      BY DEF NoneBefore
    <3>3. Text(ssid) = Head(events).want[1] /\ Text(password) = Head(events).want[2]
      BY <3>1, <3>2 DEF InForce, Held, Text
    <3>4. Head(events).want \in Pair
      BY <2>1, <2>3 DEF WellMeant
    <3> QED BY <2>1, <2>5, <3>3, <3>4 DEF Pair
  <2> QED BY <2>4, <2>5
<1>2. IInv /\ Meant /\ Strung /\ [Next]_vars => (Meant /\ Strung)'
  BY MeantNext, StrungNext
<1>3. IInv /\ Meant /\ Strung => [OnConnect => target' = Head(events).want]_vars
  BY <1>1
<1> QED BY <1>2, <1>3, InitInv, NextInv, MeantInit, PTL DEF Spec, ConnectAsPosted

-----------------------------------------------------------------------------
Requests == {"connect", "disconnect"}

\* The newest request in the queue wants what was requested last; if there is none, that
\* is what was heard.
Following(q, told, lastly) ==
  /\ NoneBefore(q, Coded(Requests), Len(q) + 1) => told = lastly
  /\ \A e \in Newest(q, Coded(Requests), Len(q) + 1) : e.want = lastly

\* Only a lost link keeps a station that has a network disabled.
LosingOnly ==
  /\ \A i \in 1..Len(events) : events[i].code = "lost" => losing /\ build = "phone"
  /\ target # NULL /\ (waiting \/ ~enabled) => losing /\ build = "phone"

\* What the station heard of the requests: its target, unless the start of the Wi-Fi
\* manager gave it another one after them.
Heard == IF teller = "start" THEN last ELSE target

Obeyed == /\ build # "strings" => Following(events, Heard, last)
          /\ teller = "start" => target = stored

\* A posted event: a request is the last one, another changes nothing.
LEMMA FollowAppend ==
  ASSUME NEW q \in Seq(AllEvents), NEW e \in AllEvents, NEW told, NEW told2,
         NEW lastly, NEW lastly2, Following(q, told, lastly),
         e.code \in Requests => e.want = lastly2,
         e.code \notin Requests => lastly2 = lastly /\ told2 = told
  PROVE  Following(Append(q, e), told2, lastly2)
<1> DEFINE r == Append(q, e)
           P == Coded(Requests)
<1>1. e \in P <=> e.code \in Requests
  BY DEF Coded
<1>2. /\ e \in P => /\ Newest(r, P, Len(r) + 1) = {e}
                    /\ ~NoneBefore(r, P, Len(r) + 1)
      /\ e \notin P => /\ Newest(r, P, Len(r) + 1) = Newest(q, P, Len(q) + 1)
                       /\ NoneBefore(r, P, Len(r) + 1) <=> NoneBefore(q, P, Len(q) + 1)
  BY NewestAppend
<1> HIDE DEF r, P
<1> QED BY <1>1, <1>2 DEF Following, r, P

\* A served event: a request is heard, another changes nothing, or the start of the Wi-Fi
\* manager comes after all that was heard.
LEMMA FollowTail ==
  ASSUME NEW q \in Seq(AllEvents), q # <<>>, NEW told, NEW told2, NEW lastly,
         Following(q, told, lastly),
         Head(q).code \in Requests => told2 = Head(q).want,
         Head(q).code \notin Requests => told2 = told \/ told2 = lastly
  PROVE  Following(Tail(q), told2, lastly)
<1> DEFINE r == Tail(q)
           P == Coded(Requests)
           n == Len(r) + 1
<1>1. /\ Len(q) = Len(r) + 1 /\ Head(q) \in AllEvents /\ Len(r) \in Nat
      /\ \A i \in 1..Len(r) + 1 :
           /\ Newest(r, P, i) \subseteq Newest(q, P, i + 1)
           /\ NoneBefore(r, P, i) /\ Head(q) \notin P => NoneBefore(q, P, i + 1)
           /\ NoneBefore(r, P, i) /\ Head(q) \in P => Head(q) \in Newest(q, P, i + 1)
  BY NewestTail
<1>2. n \in 1..Len(r) + 1 /\ n + 1 = Len(q) + 1
  BY <1>1
<1>3. Head(q) \in P <=> Head(q).code \in Requests
  BY <1>1 DEF Coded
<1>4. /\ Newest(r, P, n) \subseteq Newest(q, P, Len(q) + 1)
      /\ NoneBefore(r, P, n) /\ Head(q) \notin P => NoneBefore(q, P, Len(q) + 1)
      /\ NoneBefore(r, P, n) /\ Head(q) \in P => Head(q) \in Newest(q, P, Len(q) + 1)
  BY <1>1, <1>2
<1> HIDE DEF r, P
<1> QED BY <1>3, <1>4 DEF Following, r, P

\* A report of a lost link apart, posting and taking events does not make the link lost.
LEMMA LosingKept ==
  ASSUME Typed, LosingOnly, build' = build,
         losing => losing',
         target' # NULL /\ (waiting' \/ ~enabled') => losing' /\ build = "phone",
         \/ \E e \in AllEvents : /\ events' = Append(events, e)
                                 /\ e.code = "lost" => losing' /\ build = "phone"
         \/ events # <<>> /\ events' = Tail(events)
         \/ UNCHANGED events
  PROVE  LosingOnly'
<1>0. events \in Seq(AllEvents) /\ Len(events) \in Nat
  BY LenProperties DEF Typed
<1>1. ASSUME NEW e \in AllEvents, events' = Append(events, e),
             e.code = "lost" => losing' /\ build = "phone"
      PROVE  \A i \in 1..Len(events') : events'[i].code = "lost" => losing' /\ build = "phone"
  <2>1. /\ Len(events') = Len(events) + 1
        /\ \A i \in 1..Len(events) : events'[i] = events[i]
        /\ events'[Len(events) + 1] = e
    BY <1>0, <1>1, AppendProperties
  <2>2. \A i \in 1..Len(events') : i \in 1..Len(events) \/ i = Len(events) + 1
    BY <1>0, <2>1
  <2> QED BY <1>1, <2>1, <2>2 DEF LosingOnly
<1>2. ASSUME events # <<>>, events' = Tail(events)
      PROVE  \A i \in 1..Len(events') : events'[i].code = "lost" => losing' /\ build = "phone"
  <2>1. /\ Len(events') = Len(events) - 1
        /\ \A i \in 1..Len(events') : events'[i] = events[i + 1]
    BY <1>0, <1>2, HeadTailProperties
  <2>2. \A i \in 1..Len(events') : i + 1 \in 1..Len(events)
    BY <1>0, <2>1
  <2> QED BY <2>1, <2>2 DEF LosingOnly
<1>3. ASSUME UNCHANGED events
      PROVE  \A i \in 1..Len(events') : events'[i].code = "lost" => losing' /\ build = "phone"
  BY <1>3 DEF LosingOnly
<1> QED BY <1>1, <1>2, <1>3 DEF LosingOnly

-----------------------------------------------------------------------------
\* Nothing was requested, and no link was made.
LEMMA FollowInit == Init => Obeyed /\ LosingOnly
<1> SUFFICES ASSUME Init PROVE Obeyed /\ LosingOnly
  OBVIOUS
<1>1. Newest(<<>>, Coded(Requests), Len(<<>>) + 1) = {}
  BY DEF Newest
<1>2. Obeyed
  BY <1>1 DEF Init, Obeyed, Following, Heard
<1>3. LosingOnly
  BY DEF Init, LosingOnly
<1> QED BY <1>2, <1>3

\* Whatever is posted or served, the station follows what was requested last.
LEMMA ObeyedNext ==
  ASSUME IInv, Meant, Obeyed, [Next]_vars PROVE Obeyed'
<1> USE DEF loop, wifi, heap, history, fixed
<1> DEFINE Stays == teller' = teller /\ target' = target
<1>0. events \in Seq(AllEvents) /\ build' = build /\ stored' = stored
  BY Shapes DEF IInv, Typed
<1>1. build # "strings" => Following(events, Heard, last)
  BY DEF Obeyed
<1>2. ASSUME UNCHANGED <<events, last>>, Stays PROVE Obeyed'
  BY <1>0, <1>1, <1>2 DEF Obeyed, Heard
<1>3. ASSUME NEW e \in AllEvents, events' = Append(events, e), Stays,
             e.code \in Requests => e.want = last', e.code \notin Requests => last' = last
      PROVE  Obeyed'
  <2>1. e.code \notin Requests => Heard' = Heard
    BY <1>3 DEF Heard
  <2>2. ASSUME build # "strings" PROVE Following(events', Heard', last')
    BY <1>0, <1>1, <1>3, <2>1, <2>2, FollowAppend
  <2> QED BY <1>0, <1>3, <2>2 DEF Obeyed
<1>4. ASSUME NEW code \in {"ask", "init_done", "mgmr_done", "lost"},
             Put(code, NULL, NULL) \/ UNCHANGED events, last' = last, Stays
      PROVE  Obeyed'
  <2>1. Event(code, NULL, NULL) \in AllEvents /\ Event(code, NULL, NULL).code \notin Requests
    BY DEF AllEvents, OtherEvents, Event, Wants, OtherCodes, Requests
  <2> QED BY <1>2, <1>3, <1>4, <2>1 DEF Put
<1>5. ASSUME NEW s \in Strings, NEW p \in Strings, TriggerConnectMesh(s, p)
      PROVE  Obeyed'
  <2>1. /\ Event("connect", <<s, p>>, <<s, p>>) \in AllEvents
        /\ Event("connect", <<s, p>>, <<s, p>>).want = <<s, p>>
        /\ Event("connect", <<s, p>>, <<s, p>>).code \in Requests
    BY DEF AllEvents, OtherEvents, Event, Wants, OtherCodes, Pair, Requests
  <2>2. Stays
    BY <1>5 DEF TriggerConnectMesh
  <2>3. \/ events' = Append(events, Event("connect", <<s, p>>, <<s, p>>)) /\ last' = <<s, p>>
        \/ UNCHANGED <<events, last>>
    BY <1>5 DEF TriggerConnectMesh, Put
  <2> HIDE DEF Event
  <2> QED BY <1>2, <1>3, <2>1, <2>2, <2>3
<1>6. ASSUME TriggerDisconnectMesh PROVE Obeyed'
  <2>1. /\ Event("disconnect", NULL, NULL) \in AllEvents
        /\ Event("disconnect", NULL, NULL).want = NULL
        /\ Event("disconnect", NULL, NULL).code \in Requests
    BY DEF AllEvents, OtherEvents, Event, Wants, OtherCodes, Pair, Requests
  <2>2. Stays
    BY <1>6 DEF TriggerDisconnectMesh
  <2>3. \/ events' = Append(events, Event("disconnect", NULL, NULL)) /\ last' = NULL
        \/ UNCHANGED <<events, last>>
    BY <1>6 DEF TriggerDisconnectMesh, Put
  <2> QED BY <1>2, <1>3, <2>1, <2>2, <2>3
<1>7. CASE TriggerAsk
  BY <1>4, <1>7 DEF TriggerAsk
<1>8. CASE StackWifi
  BY <1>4, <1>8 DEF StackWifi
<1>9. CASE MgmrDone
  BY <1>4, <1>9 DEF MgmrDone, Quiet
<1>10. CASE LinkLost
  BY <1>4, <1>10 DEF LinkLost, Quiet
<1>11. ASSUME events # <<>>, events' = Tail(events), last' = last,
              Head(events).code \in Requests => Heard' = Head(events).want,
              Head(events).code \notin Requests => Heard' = Heard \/ Heard' = last,
              teller' = "start" => target' = stored
       PROVE  Obeyed'
  <2>1. ASSUME build # "strings" PROVE Following(events', Heard', last')
    BY <1>0, <1>1, <1>11, <2>1, FollowTail
  <2> QED BY <1>0, <1>11, <2>1 DEF Obeyed
<1>12. CASE OnInitDone \/ OnMgmrDone \/ OnSsid \/ OnPassword \/ OnLost \/ OnAsk
  <2>1. events # <<>> /\ events' = Tail(events) /\ last' = last
    BY <1>12 DEF OnInitDone, OnMgmrDone, OnSsid, OnPassword, OnLost, OnAsk, Take, Quiet
  <2>2. Head(events).code \notin Requests
    BY <1>12 DEF OnInitDone, OnMgmrDone, OnSsid, OnPassword, OnLost, OnAsk, Take, Requests
  <2>3. Stays \/ (teller' = "start" /\ target' = stored)
    BY <1>12 DEF OnInitDone, OnMgmrDone, OnSsid, OnPassword, OnLost, OnAsk, ConnectStored, Tell
  <2>4. (Heard' = Heard \/ Heard' = last) /\ (teller' = "start" => target' = stored)
    BY <2>1, <2>3 DEF Heard, Obeyed
  <2> QED BY <1>11, <2>1, <2>2, <2>4
<1>13. events # <<>> => WellMeant(Head(events), build)
  <2>1. events # <<>> => 1 \in 1..Len(events) /\ Head(events) = events[1]
    BY <1>0, EmptySeq, LenProperties, HeadTailProperties
  <2> QED BY <2>1 DEF Meant
<1>14. CASE OnConnect
  <2>1. events # <<>> /\ events' = Tail(events) /\ last' = last /\ Head(events).code = "connect"
    BY <1>14 DEF OnConnect, Take, Quiet
  <2>2. target' = IF Head(events).val # NULL THEN Head(events).val
                  ELSE <<Text(ssid), Text(password)>>
    BY <1>14 DEF OnConnect, Connect, Tell
  <2>3. target' = Head(events).want \/ build = "strings"
    BY <1>13, <2>1, <2>2 DEF WellMeant
  <2>4. teller' = "request"
    BY <1>14 DEF OnConnect, Connect
  <2> QED BY <1>0, <1>11, <2>1, <2>3, <2>4 DEF Requests, Heard, Obeyed
<1>15. CASE OnDisconnect
  <2>1. events # <<>> /\ events' = Tail(events) /\ last' = last /\ Head(events).code = "disconnect"
    BY <1>15 DEF OnDisconnect, Take, Quiet
  <2>2. target' = Head(events).want
    BY <1>13, <1>15, <2>1 DEF WellMeant, OnDisconnect
  <2>3. teller' = "request"
    BY <1>15 DEF OnDisconnect
  <2> QED BY <1>11, <2>1, <2>2, <2>3 DEF Requests, Heard
<1>16. CASE Disable \/ UNCHANGED vars
  BY <1>2, <1>16 DEF Disable, Quiet, vars
<1>17. ASSUME NEW s \in Strings, TriggerSsid(s) \/ TriggerPassword(s) \/ TriggerConnect \/ TriggerDisconnect
       PROVE  Obeyed'
  <2>1. build = "strings" /\ Stays
    BY <1>17 DEF TriggerSsid, TriggerPassword, TriggerConnect, TriggerDisconnect
  <2> QED BY <1>0, <2>1 DEF Obeyed
<1>18. CASE TriggerConnect \/ TriggerDisconnect
  <2>1. build = "strings" /\ Stays
    BY <1>18 DEF TriggerConnect, TriggerDisconnect
  <2> QED BY <1>0, <2>1 DEF Obeyed
<1> QED
  BY <1>5, <1>6, <1>7, <1>8, <1>9, <1>10, <1>12, <1>14, <1>15, <1>16, <1>17, <1>18
  DEF Next, Trigger, Loop

\* Only a report of a lost link disables a station that has a network.
LEMMA LosingNext ==
  ASSUME IInv, LosingOnly, [Next]_vars PROVE LosingOnly'
<1> USE DEF loop, wifi, heap, history, fixed
<1>0. Typed /\ events \in Seq(AllEvents) /\ build' = build
  BY Shapes DEF IInv, Typed
<1>1. ASSUME UNCHANGED <<target, waiting, enabled, losing>>,
             \/ \E e \in AllEvents : events' = Append(events, e) /\ e.code # "lost"
             \/ UNCHANGED events
      PROVE  LosingOnly'
  BY <1>0, <1>1, LosingKept DEF LosingOnly
<1>2. ASSUME NEW s \in Strings, TriggerSsid(s) \/ TriggerPassword(s) PROVE LosingOnly'
  <2>1. PICK code \in {"ssid", "passwd"} : PostCopy(code, s)
    BY <1>2 DEF TriggerSsid, TriggerPassword
  <2>2. UNCHANGED <<target, waiting, enabled, losing>>
    BY <1>2 DEF TriggerSsid, TriggerPassword
  <2>3. \A b \in Buffers : Event(code, b, NULL) \in AllEvents /\ Event(code, b, NULL).code # "lost"
    BY DEF AllEvents, BufferEvents, Wants, Event, Carrying
  <2> QED BY <1>1, <2>1, <2>2, <2>3 DEF PostCopy, Put
<1>3. CASE TriggerConnect \/ TriggerDisconnect
  <2>1. Event("connect", NULL, given) \in AllEvents /\ Event("connect", NULL, given).code # "lost"
    BY DEF IInv, Typed, AllEvents, OtherEvents, Event, Wants, OtherCodes
  <2>2. UNCHANGED <<target, waiting, enabled, losing>> /\ (Put("connect", NULL, given) \/ UNCHANGED events)
    BY <1>3 DEF TriggerConnect, TriggerDisconnect
  <2> QED BY <1>1, <2>1, <2>2 DEF Put
<1>4. ASSUME NEW s \in Strings, NEW p \in Strings, TriggerConnectMesh(s, p) PROVE LosingOnly'
  <2>1. /\ Event("connect", <<s, p>>, <<s, p>>) \in AllEvents
        /\ Event("connect", <<s, p>>, <<s, p>>).code # "lost"
    BY DEF AllEvents, OtherEvents, Event, Wants, OtherCodes, Pair
  <2>2. /\ UNCHANGED <<target, waiting, enabled, losing>>
        /\ Put("connect", <<s, p>>, <<s, p>>) \/ UNCHANGED events
    BY <1>4 DEF TriggerConnectMesh
  <2> QED BY <1>1, <2>1, <2>2 DEF Put
<1>5. ASSUME NEW code \in {"disconnect", "ask", "init_done", "mgmr_done"},
             Put(code, NULL, NULL) \/ UNCHANGED events,
             UNCHANGED <<target, waiting, enabled, losing>>
      PROVE  LosingOnly'
  <2>1. Event(code, NULL, NULL) \in AllEvents /\ Event(code, NULL, NULL).code # "lost"
    BY DEF AllEvents, OtherEvents, Event, Wants, OtherCodes
  <2> QED BY <1>1, <1>5, <2>1 DEF Put
<1>6. CASE TriggerDisconnectMesh \/ TriggerAsk \/ StackWifi \/ MgmrDone
  BY <1>5, <1>6 DEF TriggerDisconnectMesh, TriggerAsk, StackWifi, MgmrDone, Quiet
<1>7. CASE LinkLost
  <2>1. Event("lost", NULL, NULL) \in AllEvents
    BY DEF AllEvents, OtherEvents, Event, Wants, OtherCodes
  <2>2. /\ events' = Append(events, Event("lost", NULL, NULL)) /\ losing' = TRUE /\ build = "phone"
        /\ UNCHANGED <<target, waiting, enabled>>
    BY <1>7 DEF LinkLost, Put, Quiet
  <2> QED BY <1>0, <2>1, <2>2, LosingKept
<1>8. ASSUME events # <<>>, events' = Tail(events), losing' = losing,
             target' # NULL /\ (waiting' \/ ~enabled') => losing /\ build = "phone"
      PROVE  LosingOnly'
  BY <1>0, <1>8, LosingKept
<1>9. CASE OnInitDone \/ OnSsid \/ OnPassword \/ OnAsk
  BY <1>8, <1>9 DEF OnInitDone, OnSsid, OnPassword, OnAsk, Take, LosingOnly
<1>10. ASSUME events # <<>>, events' = Tail(events), ~waiting, waiting' = waiting, NEW c, Tell(c)
       PROVE  LosingOnly'
  <2>1. enabled' = TRUE /\ losing' = (losing /\ \E i \in DOMAIN events' : events'[i].code = "lost")
    BY <1>10 DEF Tell
  <2>2. /\ Len(events) \in Nat /\ Len(events') = Len(events) - 1 /\ DOMAIN events' = 1..Len(events')
        /\ \A i \in 1..Len(events') : events'[i] = events[i + 1]
    BY <1>0, <1>10, HeadTailProperties, LenProperties
  <2>3. ASSUME NEW i \in 1..Len(events'), events'[i].code = "lost" PROVE losing' /\ build = "phone"
    <3>1. i + 1 \in 1..Len(events) /\ events[i + 1].code = "lost"
      BY <2>2, <2>3
    <3> QED BY <2>1, <2>2, <2>3, <3>1 DEF LosingOnly
  <2> QED BY <1>0, <1>10, <2>1, <2>3 DEF LosingOnly
<1>11. CASE OnDisconnect
  BY <1>8, <1>11 DEF OnDisconnect, Take
<1>12. CASE OnLost
  <2>1. events # <<>> => 1 \in 1..Len(events) /\ Head(events) = events[1]
    BY <1>0, EmptySeq, LenProperties, HeadTailProperties
  <2>2. losing /\ build = "phone"
    BY <1>12, <2>1 DEF OnLost, Take, LosingOnly
  <2> QED BY <1>8, <1>12, <2>2 DEF OnLost, Take
<1>13. CASE OnConnect
  BY <1>10, <1>13 DEF OnConnect, Connect, Take
<1>14. CASE Disable
  BY <1>0, <1>14, LosingKept DEF Disable, LosingOnly
<1>15. CASE UNCHANGED vars
  BY <1>1, <1>15 DEF vars
<1>16. CASE OnMgmrDone
  <2>1. events # <<>> /\ events' = Tail(events) /\ ~waiting /\ waiting' = waiting
    BY <1>16 DEF OnMgmrDone, Take
  <2>2. Tell(stored) \/ (enabled' = TRUE /\ losing' = losing)
    BY <1>16 DEF OnMgmrDone, ConnectStored
  <2> QED BY <1>8, <1>10, <2>1, <2>2
<1> QED
  BY <1>2, <1>3, <1>4, <1>6, <1>7, <1>9, <1>11, <1>16, <1>12, <1>13, <1>14, <1>15
  DEF Next, Trigger, Loop

\* When the loop has caught up, the station does what was requested last, or, if the Wi-Fi
\* manager's start was served after that, connects to the network in the flash; and one that
\* has a network is enabled unless a lost link was reported.
THEOREM RequestsFollowed == Spec => []FollowsLastRequest
<1>1. Obeyed /\ LosingOnly => FollowsLastRequest
  <2> SUFFICES ASSUME Obeyed, LosingOnly, build # "strings", events = <<>>, ~waiting
               PROVE  /\ target = IF teller = "start" THEN stored ELSE last
                      /\ target # NULL => enabled \/ (build = "phone" /\ losing)
    BY DEF FollowsLastRequest
  <2>1. NoneBefore(events, Coded(Requests), Len(events) + 1)
    BY DEF NoneBefore
  <2>2. target = IF teller = "start" THEN stored ELSE last
    BY <2>1 DEF Obeyed, Following, Heard
  <2> QED BY <2>2 DEF LosingOnly
<1>2. IInv /\ Meant /\ Obeyed /\ LosingOnly /\ [Next]_vars => (Meant /\ Obeyed /\ LosingOnly)'
  BY MeantNext, ObeyedNext, LosingNext
<1> QED BY <1>1, <1>2, InitInv, NextInv, MeantInit, FollowInit, PTL DEF Spec
=============================================================================
