------------------------- MODULE BlePeripheralProofs -------------------------
(***************************************************************************)
(* Proofs about BlePeripheral, for every length of the queue, every set of  *)
(* connection objects and every number of pairings and failures.            *)
(***************************************************************************)
EXTENDS BlePeripheral, SeqCounting

\* TypeOK in two halves: the flags, and the rest.
FlagsOK == BleInited \in BOOLEAN /\ advertising \in BOOLEAN /\ lost \in BOOLEAN
RestOK ==
  /\ queue \in Seq(Codes) /\ Len(queue) <= QueueLen
  /\ cur \in Codes \cup {"none"}
  /\ BleConn \in Conns \cup {NULL} /\ live \subseteq Conns
  /\ pairings \in 0..MaxPairings /\ fails \in 0..MaxFail
  /\ secured \subseteq Conns

\* The two halves make up the type invariant.
LEMMA Halves == TypeOK <=> FlagsOK /\ RestOK
BY DEF TypeOK, FlagsOK, RestOK

\* They do so in the next state too.
LEMMA HalvesNext == TypeOK' <=> FlagsOK' /\ RestOK'
BY DEF TypeOK, FlagsOK, RestOK

\* Posting an event keeps the queue well formed, whether there is room or not, and
\* adds at most that event to the count.
LEMMA SendEvent ==
  ASSUME RestOK, NEW code \in Codes, Send(code)
  PROVE  /\ queue' \in Seq(Codes) /\ Len(queue') <= QueueLen
         /\ Count(queue', Leading) \in Nat /\ Count(queue, Leading) \in Nat
         /\ Count(queue', Leading) <= Count(queue, Leading) + One(code, Leading)
<1>1. CASE Len(queue) < QueueLen
  <2>1. queue' = Append(queue, code)
    BY <1>1 DEF Send
  <2>2. queue' \in Seq(Codes) /\ Len(queue') = Len(queue) + 1 /\ Len(queue) \in Nat
    BY <2>1, AppendProperties, LenProperties DEF RestOK
  <2>3. Count(queue', Leading) = Count(queue, Leading) + One(code, Leading)
    BY <2>1, CountAppend DEF RestOK
  <2>4. Count(queue', Leading) \in Nat /\ Count(queue, Leading) \in Nat
    BY <2>2, CountFinite DEF RestOK
  <2> QED BY <1>1, <2>2, <2>3, <2>4, BoundAssumption
<1>2. CASE ~(Len(queue) < QueueLen)
  <2>1. queue' = queue
    BY <1>2 DEF Send
  <2>2. Count(queue, Leading) \in Nat
    BY CountFinite DEF RestOK
  <2> QED BY <2>1, <2>2 DEF RestOK, One
<1> QED BY <1>1, <1>2
\* The sum that OneRole bounds.
Airs == IF advertising THEN 1 ELSE 0

\* The sum of OneRole, by its parts.
LEMMA TokensIs == Tokens = Count(queue, Leading) + One(cur, Leading) + Airs + Cardinality(live)
BY DEF Tokens, Count, Places, One, Airs

\* The number of connections, from what BleConn says.
LEMMA LiveCount ==
  ASSUME ConnKnown, RestOK
  PROVE  /\ IsFiniteSet(live)
         /\ Cardinality(live) = IF BleConn = NULL THEN 0 ELSE 1
BY FS_EmptySet, FS_Singleton DEF ConnKnown

\* The same in the next state.
LEMMA LiveCountNext ==
  ASSUME ConnKnown'
  PROVE  Cardinality(live') = IF BleConn' = NULL THEN 0 ELSE 1
BY FS_EmptySet, FS_Singleton DEF ConnKnown

\* The device is not told to advertise while it advertises or has a connection.
LEMMA AdvertisesOnce ==
  ASSUME RestOK, ConnKnown, OneRole, cur = "START_ADV_IND"
  PROVE  ~advertising /\ live = {}
<1>1. Count(queue, Leading) \in Nat
  BY CountFinite DEF RestOK
<1>2. One(cur, Leading) = 1
  BY DEF One, Leading
<1>3. Airs \in {0, 1} /\ (Airs = 0 => ~advertising)
  BY DEF Airs
<1>4. Cardinality(live) \in {0, 1} /\ (Cardinality(live) = 0 => live = {})
  BY LiveCount, FS_EmptySet
<1>5. Airs = 0 /\ Cardinality(live) = 0
  BY <1>1, <1>2, <1>3, <1>4, TokensIs DEF OneRole
<1> QED BY <1>3, <1>4, <1>5

\* The state after BleStart is well formed.
LEMMA InitType == Init => TypeOK
<1>1. Init => FlagsOK
  BY DEF Init, FlagsOK
<1>2. <<"INIT_IND">> \in Seq(Codes) /\ Len(<<"INIT_IND">>) = 1
  BY DEF Codes
<1>3. Init => RestOK
  BY <1>2, BoundAssumption DEF Init, RestOK
<1> QED BY <1>1, <1>3, Halves

\* No step gives a flag another value than TRUE or FALSE.
LEMMA NextFlags == FlagsOK /\ [Next]_vars => FlagsOK'
<1> SUFFICES ASSUME FlagsOK, [Next]_vars PROVE FlagsOK'
  OBVIOUS
<1> USE DEF FlagsOK, app, radio, history
<1>1. CASE Take
  BY <1>1 DEF Take
<1>2. CASE OnInit
  BY <1>2 DEF OnInit, Handling, Send
<1>3. CASE OnStartAdv
  BY <1>3 DEF OnStartAdv, Handling
<1>4. CASE OnConnected
  BY <1>4 DEF OnConnected, Handling, Send
<1>5. CASE OnStartSecurity
  BY <1>5 DEF OnStartSecurity, Handling
<1>6. CASE OnPairing
  BY <1>6 DEF OnPairing, Handling
<1>7. CASE OnDisconnected
  BY <1>7 DEF OnDisconnected, Handling, Send
<1>8. ASSUME NEW c \in Conns, BleConnectedCb(c) PROVE FlagsOK'
  BY <1>8 DEF BleConnectedCb, Send
<1>9. ASSUME NEW c \in Conns, BleDisconnectedCb(c) PROVE FlagsOK'
  BY <1>9 DEF BleDisconnectedCb, Send
<1>10. CASE BlePairingCb
  BY <1>10 DEF BlePairingCb, Send
<1>11. CASE UNCHANGED vars
  BY <1>11 DEF vars
<1> QED
  BY <1>1, <1>2, <1>3, <1>4, <1>5, <1>6, <1>7, <1>8, <1>9, <1>10, <1>11
     DEF Next, AppHandler, Callback

\* No step takes the queue, the handled event, the connections or the counters out of their
\* ranges; that a failed start stays within its bound is due to OneRole.
LEMMA NextRest == RestOK /\ ConnKnown /\ OneRole /\ [Next]_vars => RestOK'
<1> SUFFICES ASSUME RestOK, ConnKnown, OneRole, [Next]_vars PROVE RestOK'
  OBVIOUS
<1> USE DEF app, radio, history
<1>1. CASE Take
  <2>1. Head(queue) \in Codes /\ Tail(queue) \in Seq(Codes) /\ Len(Tail(queue)) = Len(queue) - 1
    BY <1>1, HeadTailProperties DEF Take, RestOK
  <2>2. Len(queue) \in Nat /\ QueueLen \in Nat
    BY LenProperties, BoundAssumption DEF RestOK
  <2> QED BY <1>1, <2>1, <2>2 DEF Take, RestOK
<1>2. CASE OnInit
  <2>1. CASE BleInited
    BY <1>2, <2>1 DEF OnInit, Handling, RestOK
  <2>2. CASE ~BleInited
    <3>1. Send("START_ADV_IND") /\ "START_ADV_IND" \in Codes
      BY <1>2, <2>2 DEF OnInit, Codes
    <3> QED BY <1>2, <3>1, SendEvent DEF OnInit, Handling, RestOK
  <2> QED BY <2>1, <2>2
<1>3. CASE OnStartAdv
  <2>1. ~advertising
    BY <1>3, AdvertisesOnce DEF OnStartAdv, Handling
  <2>2. fails' = fails \/ (fails < MaxFail /\ fails' = fails + 1)
    BY <1>3, <2>1 DEF OnStartAdv
  <2>3. UNCHANGED <<queue, BleConn, live, pairings, secured>> /\ cur' = "none"
    BY <1>3 DEF OnStartAdv, Handling
  <2> QED BY <2>2, <2>3, BoundAssumption DEF RestOK
<1>4. CASE OnConnected
  <2>1. Send("START_SECURITY_IND") /\ "START_SECURITY_IND" \in Codes
    BY <1>4 DEF OnConnected, Codes
  <2> QED BY <1>4, <2>1, SendEvent DEF OnConnected, Handling, RestOK
<1>5. CASE OnStartSecurity
  BY <1>5 DEF OnStartSecurity, Handling, RestOK
<1>6. CASE OnPairing
  BY <1>6 DEF OnPairing, Handling, RestOK
<1>7. CASE OnDisconnected
  <2>1. Send("START_ADV_IND") /\ "START_ADV_IND" \in Codes
    BY <1>7 DEF OnDisconnected, Codes
  <2> QED BY <1>7, <2>1, SendEvent DEF OnDisconnected, Handling, RestOK
<1>8. ASSUME NEW c \in Conns, BleConnectedCb(c) PROVE RestOK'
  <2>1. Send("CONNECTED_CFM") /\ "CONNECTED_CFM" \in Codes
    BY <1>8 DEF BleConnectedCb, Codes
  <2> QED BY <1>8, <2>1, SendEvent, BoundAssumption DEF BleConnectedCb, RestOK
<1>9. ASSUME NEW c \in Conns, BleDisconnectedCb(c) PROVE RestOK'
  <2>1. Send("DISCONNECT_CFM") /\ "DISCONNECT_CFM" \in Codes
    BY <1>9 DEF BleDisconnectedCb, Codes
  <2> QED BY <1>9, <2>1, SendEvent DEF BleDisconnectedCb, RestOK
<1>10. CASE BlePairingCb
  <2>1. PICK code \in Codes : Send(code)
    BY <1>10 DEF BlePairingCb, Codes
  <2> QED BY <1>10, <2>1, SendEvent, BoundAssumption DEF BlePairingCb, RestOK
<1>11. CASE UNCHANGED vars
  BY <1>11 DEF vars, RestOK
<1> QED
  BY <1>1, <1>2, <1>3, <1>4, <1>5, <1>6, <1>7, <1>8, <1>9, <1>10, <1>11
     DEF Next, AppHandler, Callback

-----------------------------------------------------------------------------
\* The roles that are not connections: events that lead to advertising, waiting or being
\* handled, and the advertising itself.
Roles == Count(queue, Leading) + One(cur, Leading) + Airs

\* The parts of the sum are numbers.
LEMMA RolesNat ==
  ASSUME RestOK
  PROVE  /\ Count(queue, Leading) \in Nat /\ One(cur, Leading) \in {0, 1} /\ Airs \in {0, 1}
         /\ Roles \in Nat
<1>1. Count(queue, Leading) \in Nat
  BY CountFinite DEF RestOK
<1> QED BY <1>1 DEF Roles, One, Airs

\* The parts of the sum are numbers in the next state too.
LEMMA RolesNatNext ==
  ASSUME RestOK'
  PROVE  /\ Count(queue', Leading) \in Nat /\ One(cur', Leading) \in {0, 1} /\ Airs' \in {0, 1}
         /\ Roles' = Count(queue', Leading) + One(cur', Leading) + Airs' /\ Roles' \in Nat
<1>1. Count(queue', Leading) \in Nat
  BY CountFinite DEF RestOK
<1> QED BY <1>1 DEF Roles, One, Airs

\* The event loop never adds a role: what it posts or starts stands for what it took.
LEMMA HandlerRoles ==
  ASSUME RestOK, ConnKnown, OneRole, AppHandler
  PROVE  /\ Count(queue', Leading) + One(cur', Leading) + Airs' <= Roles
         /\ UNCHANGED <<live, BleConn>>
<1> USE RolesNat DEF app, radio, history
<1>1. CASE Take
  <2>1. /\ cur = "none" /\ queue # <<>> /\ cur' = Head(queue) /\ queue' = Tail(queue)
        /\ UNCHANGED <<live, BleConn, advertising>>
    BY <1>1 DEF Take
  <2>2. Count(queue, Leading) = Count(queue', Leading) + One(cur', Leading)
    BY <2>1, CountTail DEF RestOK
  <2>3. One(cur, Leading) = 0 /\ Airs' = Airs
    BY <2>1 DEF One, Leading, Airs
  <2>4. Count(queue', Leading) \in Nat /\ One(cur', Leading) \in {0, 1}
    BY <2>1, HeadTailProperties, CountFinite DEF RestOK, One
  <2> QED BY <2>1, <2>2, <2>3, <2>4 DEF Roles
<1>2. CASE OnInit
  <2>1. /\ cur = "INIT_IND" /\ cur' = "none"
        /\ UNCHANGED <<live, BleConn, advertising>>
    BY <1>2 DEF OnInit, Handling
  <2>2. queue' = queue \/ Send("START_ADV_IND")
    BY <1>2 DEF OnInit
  <2>3. Count(queue', Leading) <= Count(queue, Leading) + 1 /\ Count(queue', Leading) \in Nat
    BY <2>2, SendEvent DEF One, Leading, Codes
  <2>4. One(cur, Leading) = 1 /\ One(cur', Leading) = 0 /\ Airs' = Airs
    BY <2>1 DEF One, Leading, Airs
  <2> QED BY <2>1, <2>3, <2>4 DEF Roles
<1>3. CASE OnStartAdv
  <2>1. /\ cur = "START_ADV_IND" /\ cur' = "none"
        /\ UNCHANGED <<live, BleConn, queue>>
    BY <1>3 DEF OnStartAdv, Handling
  <2>2. Airs = 0 /\ Airs' \in {0, 1}
    BY <2>1, AdvertisesOnce DEF Airs
  <2>3. One(cur, Leading) = 1 /\ One(cur', Leading) = 0
    BY <2>1 DEF One, Leading
  <2> QED BY <2>1, <2>2, <2>3 DEF Roles
<1>4. CASE OnConnected
  <2>1. /\ cur' = "none" /\ Send("START_SECURITY_IND")
        /\ UNCHANGED <<live, BleConn, advertising>>
    BY <1>4 DEF OnConnected, Handling
  <2>2. Count(queue', Leading) <= Count(queue, Leading) /\ Count(queue', Leading) \in Nat
    BY <2>1, SendEvent DEF One, Leading, Codes
  <2>3. One(cur', Leading) = 0 /\ Airs' = Airs
    BY <2>1 DEF One, Leading, Airs
  <2> QED BY <2>1, <2>2, <2>3 DEF Roles
<1>5. CASE OnStartSecurity
  <2>1. cur' = "none" /\ UNCHANGED <<live, BleConn, advertising, queue>>
    BY <1>5 DEF OnStartSecurity, Handling
  <2>2. One(cur', Leading) = 0 /\ Airs' = Airs
    BY <2>1 DEF One, Leading, Airs
  <2> QED BY <2>1, <2>2 DEF Roles
<1>6. CASE OnPairing
  <2>1. cur' = "none" /\ UNCHANGED <<live, BleConn, advertising, queue>>
    BY <1>6 DEF OnPairing, Handling
  <2>2. One(cur', Leading) = 0 /\ Airs' = Airs
    BY <2>1 DEF One, Leading, Airs
  <2> QED BY <2>1, <2>2 DEF Roles
<1>7. CASE OnDisconnected
  <2>1. /\ cur = "DISCONNECT_CFM" /\ cur' = "none" /\ Send("START_ADV_IND")
        /\ UNCHANGED <<live, BleConn, advertising>>
    BY <1>7 DEF OnDisconnected, Handling
  <2>2. Count(queue', Leading) <= Count(queue, Leading) + 1 /\ Count(queue', Leading) \in Nat
    BY <2>1, SendEvent DEF One, Leading, Codes
  <2>3. One(cur, Leading) = 1 /\ One(cur', Leading) = 0 /\ Airs' = Airs
    BY <2>1 DEF One, Leading, Airs
  <2> QED BY <2>1, <2>2, <2>3 DEF Roles
<1> QED BY <1>1, <1>2, <1>3, <1>4, <1>5, <1>6, <1>7 DEF AppHandler

-----------------------------------------------------------------------------
\* The type, the one role and the connection pointer hold each other up: a start that
\* would exceed the bound of failures needs two roles, a second connection too, and the
\* pointer is set from the first connection only.
IInv == TypeOK /\ OneRole /\ ConnKnown

\* After BleStart the one role is the initialisation under way.
LEMMA InitInv == Init => IInv
<1> SUFFICES ASSUME Init PROVE IInv
  OBVIOUS
<1>1. TypeOK
  BY InitType
<1>2. ConnKnown
  BY DEF Init, ConnKnown
<1>3. Count(queue, Leading) = 1
  <2>1. Places(queue, Leading) = {1}
    BY DEF Init, Places, Leading
  <2> QED BY <2>1, FS_Singleton DEF Count
<1>4. One(cur, Leading) = 0 /\ Airs = 0
  BY DEF Init, One, Leading, Airs
<1>5. Cardinality(live) = 0
  BY FS_EmptySet DEF Init
<1>6. OneRole
  BY <1>3, <1>4, <1>5, TokensIs DEF OneRole
<1> QED BY <1>1, <1>2, <1>6 DEF IInv

\* While the controller advertises there is no connection.
LEMMA AdvertisesAlone ==
  ASSUME RestOK, ConnKnown, OneRole, advertising
  PROVE  live = {} /\ BleConn = NULL
<1>1. Count(queue, Leading) \in Nat /\ One(cur, Leading) \in {0, 1}
  BY RolesNat
<1>2. Airs = 1
  BY DEF Airs
<1>3. Cardinality(live) \in {0, 1} /\ (Cardinality(live) = 0 => live = {})
  BY LiveCount, FS_EmptySet
<1>4. live = {}
  BY <1>1, <1>2, <1>3, TokensIs DEF OneRole
<1> QED BY <1>4 DEF ConnKnown

\* No step of either task makes two roles or loses track of the connection.
LEMMA NextRoles ==
  ASSUME IInv, [Next]_vars, RestOK'
  PROVE  OneRole' /\ ConnKnown'
<1>0. RestOK /\ OneRole /\ ConnKnown
  BY Halves DEF IInv
<1>1. Tokens' = Count(queue', Leading) + One(cur', Leading) + Airs' + Cardinality(live')
  BY DEF Tokens, Count, Places, One, Airs
<1>2. Tokens = Roles + Cardinality(live) /\ Tokens <= 1
  BY <1>0, TokensIs DEF Roles, OneRole
<1>3. /\ Count(queue', Leading) \in Nat /\ One(cur', Leading) \in {0, 1} /\ Airs' \in {0, 1}
      /\ Count(queue, Leading) \in Nat /\ One(cur, Leading) \in {0, 1} /\ Airs \in {0, 1} /\ Roles \in Nat
  BY <1>0, RolesNat, RolesNatNext
<1>4. Cardinality(live) \in {0, 1} /\ Cardinality(live) = IF BleConn = NULL THEN 0 ELSE 1
  BY <1>0, LiveCount
<1>5. CASE AppHandler
  <2>1. /\ Count(queue', Leading) + One(cur', Leading) + Airs' <= Roles
        /\ live' = live /\ BleConn' = BleConn
    BY <1>0, <1>5, HandlerRoles
  <2>2. ConnKnown'
    BY <1>0, <2>1 DEF ConnKnown
  <2>3. Tokens' <= 1
    BY <1>1, <1>2, <1>3, <1>4, <2>1
  <2> QED BY <2>2, <2>3 DEF OneRole
<1>6. ASSUME NEW c \in Conns, BleConnectedCb(c) PROVE OneRole' /\ ConnKnown'
  <2>1. /\ advertising /\ advertising' = FALSE /\ live' = live \cup {c}
        /\ BleConn' = (IF BleConn = NULL THEN c ELSE BleConn)
        /\ Send("CONNECTED_CFM") /\ cur' = cur
    BY <1>6 DEF BleConnectedCb
  <2>2. live = {} /\ BleConn = NULL
    BY <1>0, <2>1, AdvertisesAlone
  <2>3. live' = {c} /\ BleConn' = c /\ c # NULL
    BY <2>1, <2>2, NullAssumption
  <2>4. ConnKnown' /\ Cardinality(live') = 1
    BY <2>3, FS_Singleton DEF ConnKnown
  <2>5. Count(queue', Leading) <= Count(queue, Leading)
    BY <1>0, <1>3, <2>1, SendEvent DEF One, Leading, Codes
  <2>6. One(cur', Leading) = One(cur, Leading) /\ Airs = 1 /\ Airs' = 0
    BY <2>1 DEF One, Airs
  <2>7. Tokens' <= 1
    BY <1>1, <1>2, <1>3, <1>4, <2>4, <2>5, <2>6 DEF Roles
  <2> QED BY <2>4, <2>7 DEF OneRole
<1>7. ASSUME NEW c \in Conns, BleDisconnectedCb(c) PROVE OneRole' /\ ConnKnown'
  <2>1. /\ c \in live /\ live' = live \ {c}
        /\ BleConn' = (IF BleConn = c THEN NULL ELSE BleConn)
        /\ Send("DISCONNECT_CFM") /\ cur' = cur /\ advertising' = advertising
    BY <1>7 DEF BleDisconnectedCb
  <2>2. BleConn = c /\ live = {c} /\ c # NULL
    BY <1>0, <2>1, NullAssumption DEF ConnKnown
  <2>3. live' = {} /\ BleConn' = NULL
    BY <2>1, <2>2
  <2>4. ConnKnown' /\ Cardinality(live') = 0 /\ Cardinality(live) = 1
    BY <1>4, <2>2, <2>3, FS_EmptySet DEF ConnKnown
  <2>5. Count(queue', Leading) <= Count(queue, Leading) + 1
    BY <1>0, <1>3, <2>1, SendEvent DEF One, Leading, Codes
  <2>6. One(cur', Leading) = One(cur, Leading) /\ Airs' = Airs
    BY <2>1 DEF One, Airs
  <2>7. Tokens' <= 1
    BY <1>1, <1>2, <1>3, <2>4, <2>5, <2>6 DEF Roles
  <2> QED BY <2>4, <2>7 DEF OneRole
<1>8. CASE BlePairingCb
  <2>1. /\ UNCHANGED <<cur, BleConn, advertising, live>>
        /\ \E code \in {"PAIRING_FAILED_CFM", "PAIRING_SUCCEED_CFM"} : Send(code)
    BY <1>8 DEF BlePairingCb, app
  <2>2. Count(queue', Leading) <= Count(queue, Leading)
    BY <1>0, <1>3, <2>1, SendEvent DEF One, Leading, Codes
  <2>3. One(cur', Leading) = One(cur, Leading) /\ Airs' = Airs
    BY <2>1 DEF One, Airs
  <2>4. ConnKnown'
    BY <1>0, <2>1 DEF ConnKnown
  <2>5. Tokens' <= 1
    BY <1>1, <1>2, <1>3, <1>4, <2>1, <2>2, <2>3 DEF Roles
  <2> QED BY <2>4, <2>5 DEF OneRole
<1>9. CASE UNCHANGED vars
  <2>1. UNCHANGED <<queue, cur, BleConn, advertising, live>>
    BY <1>9 DEF vars, app, radio
  <2>2. Tokens' = Tokens /\ ConnKnown'
    BY <1>0, <2>1 DEF Tokens, ConnKnown
  <2> QED BY <1>0, <2>2 DEF OneRole
<1> QED BY <1>5, <1>6, <1>7, <1>8, <1>9 DEF Next, Callback

\* Every step preserves the invariant.
LEMMA NextInv == IInv /\ [Next]_vars => IInv'
<1> SUFFICES ASSUME IInv, [Next]_vars PROVE IInv'
  OBVIOUS
<1>1. FlagsOK /\ RestOK /\ OneRole /\ ConnKnown
  BY Halves DEF IInv
<1>2. RestOK'
  BY <1>1, NextRest
<1>3. FlagsOK'
  BY <1>1, NextFlags
<1>4. OneRole' /\ ConnKnown'
  BY <1>2, NextRoles
<1> QED BY <1>2, <1>3, <1>4, HalvesNext DEF IInv

\* Every variable keeps its type; in particular AppHandler only ever finds events that
\* BleHandler has an entry for.
THEOREM TypeCorrect == Spec => []TypeOK
<1>1. IInv => TypeOK
  BY DEF IInv
<1> QED BY <1>1, InitInv, NextInv, PTL DEF Spec

\* However the callbacks of the Bluetooth task fall between the events of AppHandler, and
\* whichever events a full queue drops, the device is told to advertise at most once at a
\* time, and never while it has a connection.
THEOREM KeepsOneRole == Spec => []OneRole
<1>1. IInv => OneRole
  BY DEF IInv
<1> QED BY <1>1, InitInv, NextInv, PTL DEF Spec

\* BleConn is the one connection there is, or NULL.
THEOREM KnowsConnection == Spec => []ConnKnown
<1>1. IInv => ConnKnown
  BY DEF IInv
<1> QED BY <1>1, InitInv, NextInv, PTL DEF Spec
=============================================================================
