--------------------------- MODULE BlePeripheral ---------------------------
(***************************************************************************)
(* The BLE peripheral of bl702_demo_event (CFG_BLE_PERIPHERAL_AUTORUN).     *)
(* Callbacks in the Bluetooth task post events of type BLE_EVT; AppHandler, *)
(* in the AOS event loop, handles them and posts the next: advertise, start *)
(* security after a connection, advertise again after a disconnection.  An  *)
(* event that finds the queue full is dropped without notice.               *)
(***************************************************************************)
EXTENDS Integers, Sequences, FiniteSets

CONSTANTS
  Conns,       \* struct bt_conn objects
  NULL,
  QueueLen,    \* events the queue takes
  MaxPairings, \* bound: pairing procedures of a connection
  MaxFail      \* bound: failures of bt_le_adv_start

ASSUME NullAssumption == NULL \notin Conns
ASSUME BoundAssumption == QueueLen \in Nat \ {0} /\ MaxPairings \in Nat /\ MaxFail \in Nat

VARIABLES
  queue,       \* events to AppHandler
  cur,         \* the event it is handling, or "none"
  BleConn, BleInited,
  advertising, \* the controller advertises, connectable, one time
  live,        \* connections
  pairings,    \* pairing procedures so far, of the present connection
  fails,       \* counter for the bound
  secured,     \* history: connections for which security was requested
  lost         \* history: an event was dropped

app == <<BleConn, BleInited>>
radio == <<advertising, live, pairings, fails>>
history == <<secured, lost>>
vars == <<queue, cur, app, radio, history>>

Codes == {"INIT_IND", "START_ADV_IND", "CONNECTED_CFM", "DISCONNECT_CFM",
          "START_SECURITY_IND", "PAIRING_FAILED_CFM", "PAIRING_SUCCEED_CFM"}

\* BleStart was called: the handler is registered and the first event posted.
Init == /\ queue = <<"INIT_IND">> /\ cur = "none"
        /\ BleConn = NULL /\ BleInited = FALSE
        /\ advertising = FALSE /\ live = {} /\ pairings = 0 /\ fails = 0
        /\ secured = {} /\ lost = FALSE

\* SEND_EVENT_NOW; its result is not looked at.
Send(code) == IF Len(queue) < QueueLen
              THEN queue' = Append(queue, code) /\ UNCHANGED lost
              ELSE lost' = TRUE /\ UNCHANGED queue

(***************************************************************************)
(* The event loop.                                                         *)
(***************************************************************************)

Take == /\ cur = "none" /\ queue # <<>>
        /\ cur' = Head(queue) /\ queue' = Tail(queue)
        /\ UNCHANGED <<app, radio, history>>

Handling(code) == cur = code /\ cur' = "none"

\* Mutant: initialisation is not remembered, and advertising starts at once.
OnInitTwice ==
  /\ Handling("INIT_IND")
  /\ queue' = queue \o <<"START_ADV_IND", "START_ADV_IND">>
  /\ BleInited' = TRUE
  /\ UNCHANGED <<BleConn, radio, secured, lost>>

OnInit ==
  /\ Handling("INIT_IND")
  /\ IF BleInited THEN UNCHANGED <<queue, lost>> ELSE Send("START_ADV_IND")
  /\ BleInited' = TRUE
  /\ UNCHANGED <<BleConn, radio, secured>>

\* bt_le_adv_start: it refuses to advertise twice and may fail; nobody tries again.
OnStartAdv ==
  /\ Handling("START_ADV_IND")
  /\ \/ ~advertising /\ advertising' = TRUE /\ UNCHANGED fails
     \/ (advertising \/ fails < MaxFail) /\ fails' = fails + 1 /\ UNCHANGED advertising
  /\ UNCHANGED <<queue, app, live, pairings, history>>

\* Mutant: the request for security is forgotten.
OnConnectedSilent ==
  Handling("CONNECTED_CFM") /\ UNCHANGED <<queue, app, radio, history>>

OnConnected ==
  /\ Handling("CONNECTED_CFM") /\ Send("START_SECURITY_IND")
  /\ UNCHANGED <<app, radio, secured>>

\* bt_conn_set_security, if there still is a connection
OnStartSecurity ==
  /\ Handling("START_SECURITY_IND")
  /\ secured' = IF BleConn = NULL THEN secured ELSE secured \cup {BleConn}
  /\ UNCHANGED <<queue, app, radio, lost>>

OnPairing ==
  /\ Handling("PAIRING_FAILED_CFM") \/ Handling("PAIRING_SUCCEED_CFM")
  /\ UNCHANGED <<queue, app, radio, history>>

\* Mutant: it does not advertise again.
OnDisconnectedSilent ==
  Handling("DISCONNECT_CFM") /\ UNCHANGED <<queue, app, radio, history>>

\* Mutant: the event posted is not one of the table.
OnDisconnectedOther ==
  /\ Handling("DISCONNECT_CFM") /\ Send("DISCONNECT_IND")
  /\ UNCHANGED <<app, radio, secured>>

OnDisconnected ==
  /\ Handling("DISCONNECT_CFM") /\ Send("START_ADV_IND")
  /\ UNCHANGED <<app, radio, secured>>

(***************************************************************************)
(* Callbacks of the Bluetooth task, which may come while an event is        *)
(* handled.                                                                *)
(***************************************************************************)

\* Mutant: advertising goes on by itself after the connection ends.
ConnectedCbAgain(c) ==
  /\ advertising /\ c \notin live
  /\ live' = live \cup {c}
  /\ BleConn' = IF BleConn = NULL THEN c ELSE BleConn
  /\ pairings' = 0 /\ secured' = secured \ {c}
  /\ Send("CONNECTED_CFM")
  /\ UNCHANGED <<cur, BleInited, advertising, fails>>

\* A central connects, which ends the advertising (BT_LE_ADV_OPT_ONE_TIME).
BleConnectedCb(c) ==
  /\ advertising /\ c \notin live
  /\ advertising' = FALSE /\ live' = live \cup {c}
  /\ BleConn' = IF BleConn = NULL THEN c ELSE BleConn
  /\ pairings' = 0 /\ secured' = secured \ {c}
  /\ Send("CONNECTED_CFM")
  /\ UNCHANGED <<cur, BleInited, fails>>

\* Mutant: the pointer is kept.
BleDisconnectedCbKept(c) ==
  /\ c \in live /\ live' = live \ {c}
  /\ secured' = secured \ {c}
  /\ Send("DISCONNECT_CFM")
  /\ UNCHANGED <<cur, app, advertising, pairings, fails>>

BleDisconnectedCb(c) ==
  /\ c \in live /\ live' = live \ {c}
  /\ BleConn' = IF BleConn = c THEN NULL ELSE BleConn
  /\ secured' = secured \ {c}
  /\ Send("DISCONNECT_CFM")
  /\ UNCHANGED <<cur, BleInited, advertising, pairings, fails>>

\* A pairing procedure ends; the peer may start another.
BlePairingCb ==
  /\ live # {} /\ pairings < MaxPairings /\ pairings' = pairings + 1
  /\ Send("PAIRING_FAILED_CFM") \/ Send("PAIRING_SUCCEED_CFM")
  /\ UNCHANGED <<cur, app, advertising, live, fails, secured>>

AppHandler == \/ Take \/ OnInit \/ OnStartAdv \/ OnConnected \/ OnStartSecurity
              \/ OnPairing \/ OnDisconnected
Callback == \/ \E c \in Conns : BleConnectedCb(c) \/ BleDisconnectedCb(c)
            \/ BlePairingCb
Next == AppHandler \/ Callback

Spec == Init /\ [][Next]_vars
FairSpec == Spec /\ WF_vars(AppHandler)

(***************************************************************************)
(* Properties.                                                             *)
(***************************************************************************)

\* Every event in the queue has an entry in BleHandler: for another one AppHandler
\* would search beyond the end of the table (its bound counts bytes).
TypeOK ==
  /\ queue \in Seq(Codes) /\ Len(queue) <= QueueLen
  /\ cur \in Codes \cup {"none"}
  /\ BleConn \in Conns \cup {NULL} /\ BleInited \in BOOLEAN
  /\ advertising \in BOOLEAN /\ live \subseteq Conns
  /\ pairings \in 0..MaxPairings /\ fails \in 0..MaxFail
  /\ secured \subseteq Conns /\ lost \in BOOLEAN

\* The events that lead to advertising.
Leading == {"INIT_IND", "START_ADV_IND", "DISCONNECT_CFM"}
Tokens == Cardinality({i \in DOMAIN queue : queue[i] \in Leading})
          + (IF cur \in Leading THEN 1 ELSE 0)
          + (IF advertising THEN 1 ELSE 0) + Cardinality(live)

\* The device is on its way to advertise, advertising or connected, and never two of
\* these at once: it advertises only while there is no connection, and is never told
\* to advertise twice.
OneRole == Tokens <= 1

\* BleConn is the connection, if there is one, and NULL otherwise.
ConnKnown == live = IF BleConn = NULL THEN {} ELSE {BleConn}

\* Without a lost event or a failed start, the device is always found again.
BackOnAir == <>(lost \/ fails > 0) \/ []<>(advertising \/ live # {})

\* Security is requested for every connection that lasts.
SecurityRequested ==
  <>lost \/ \A c \in Conns : (c \in live) ~> (c \in secured \/ c \notin live)
=============================================================================
