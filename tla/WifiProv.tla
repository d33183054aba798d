------------------------------ MODULE WifiProv ------------------------------
(***************************************************************************)
(* Wi-Fi provisioning of bl602_demo_event and ble_sync: any task hands SSID,*)
(* password and requests to wifi_prov_api_event_trigger_*, which copies     *)
(* strings to the heap and posts an event; the AOS event loop runs          *)
(* event_cb_wifi_event on one event after the other, takes over the strings *)
(* and drives the Wi-Fi manager.  In ble_sync, and with CONFIG_BT_MESH_SYNC *)
(* in bl602_demo_event, one event carries the credentials along.            *)
(***************************************************************************)
EXTENDS Integers, Sequences, FiniteSets

CONSTANTS
  Strings,     \* SSIDs and passwords
  Buffers,     \* blocks of the heap
  NULL,
  Stored,      \* networks that may be in the flash of ble_sync
  QueueLen,    \* events the queue of aos_post_event takes
  MaxPosts     \* bound: requests

ASSUME NullAssumption == NULL \notin Buffers \cup Strings \cup (Strings \X Strings)
ASSUME StoredAssumption == Stored \subseteq Strings \X Strings
ASSUME QueueAssumption == QueueLen \in Nat /\ MaxPosts \in Nat

VARIABLES
  build,           \* "strings", "mesh" (CONFIG_BT_MESH_SYNC, and the mesh is what
                   \* posts) or "phone" (ble_sync)
  stored,          \* the network in the flash (ble_sync), or NULL
  events,          \* the queue: [code, val, want], want being history: what the
                   \* connect should use
  live,            \* heap blocks in use
  content,         \* what they hold
  ssid, password,  \* statics of event_cb_wifi_event
  waiting,         \* the loop is in the vTaskDelay of a disconnection
  stack_wifi_init, \* static of cmd_stack_wifi
  background,      \* the Wi-Fi manager: "off", "started", "up"
  target,          \* what the station was last told to connect to, or NULL
  enabled,         \* wifi_mgmr_sta_enable and _disable
  posts,           \* counter for the bound
  given,           \* history: the SSID and password accepted last
  last,            \* history: the network last requested, NULL after a disconnect
  requested,       \* history: accepted connect requests
  connects,        \* history: connects the station was told to make
  teller,          \* history: who told the station last what to do: "nobody", a
                   \* "request", or the "start" of the Wi-Fi manager
  losing           \* history: a lost link was reported after the last connect, or
                   \* before it and the loop had not come to it

loop == <<ssid, password, waiting>>
wifi == <<background, target, enabled, connects, teller, losing>>
fixed == <<build, stored>>
heap == <<live, content>>
history == <<given, last, requested>>
vars == <<fixed, events, heap, loop, wifi, stack_wifi_init, posts, history>>

Pair == (Strings \cup {NULL}) \X (Strings \cup {NULL})
NoPair == <<NULL, NULL>>

\* An event that carries a pair carries no string of the heap.
ASSUME DistinctAssumption == Buffers \cap Pair = {}

Init == /\ build \in {"strings", "mesh", "phone"}
        /\ stored \in {NULL} \cup (IF build = "phone" THEN Stored ELSE {})
        /\ events = <<>> /\ live = {} /\ content = [b \in Buffers |-> NULL]
        /\ ssid = NULL /\ password = NULL /\ waiting = FALSE
        /\ stack_wifi_init = FALSE /\ background = "off"
        /\ target = NULL /\ enabled = FALSE /\ posts = 0
        /\ given = NoPair /\ last = NULL /\ requested = 0 /\ connects = 0
        /\ teller = "nobody" /\ losing = FALSE

(***************************************************************************)
(* aos_post_event                                                          *)
(***************************************************************************)

Room == Len(events) < QueueLen
Event(code, val, want) == [code |-> code, val |-> val, want |-> want]
Put(code, val, want) == events' = Append(events, Event(code, val, want))

\* One more request by some task, taken or not.
Request == posts < MaxPosts /\ posts' = posts + 1

(***************************************************************************)
(* wifi_prov_api_event_trigger_*, in the task that calls it.               *)
(***************************************************************************)

\* Mutant: the copy is not freed when the queue is full.
PostCopyLeak(code, s) ==
  \E b \in Buffers \ live :
    /\ IF Room THEN Put(code, b, NULL) ELSE UNCHANGED events
    /\ live' = live \cup {b} /\ content' = [content EXCEPT ![b] = s]
    /\ given' = IF ~Room THEN given
                ELSE IF code = "ssid" THEN <<s, given[2]>> ELSE <<given[1], s>>

\* A copy of the string is posted; if the queue is full it is freed again, and the
\* caller is told 0 all the same.
PostCopy(code, s) ==
  \/ \E b \in Buffers \ live :
       /\ Room /\ Put(code, b, NULL)
       /\ live' = live \cup {b} /\ content' = [content EXCEPT ![b] = s]
       /\ given' = IF code = "ssid" THEN <<s, given[2]>> ELSE <<given[1], s>>
  \/ (~Room \/ live = Buffers) /\ UNCHANGED <<events, heap, given>>

TriggerSsid(s) ==
  /\ build = "strings" /\ Request /\ PostCopy("ssid", s)
  /\ UNCHANGED <<fixed, loop, wifi, stack_wifi_init, last, requested>>

TriggerPassword(s) ==
  /\ build = "strings" /\ Request /\ PostCopy("passwd", s)
  /\ UNCHANGED <<fixed, loop, wifi, stack_wifi_init, last, requested>>

TriggerConnect ==
  /\ build = "strings" /\ Request
  /\ \/ /\ Room /\ Put("connect", NULL, given)
        /\ last' = given /\ requested' = requested + 1
     \/ ~Room /\ UNCHANGED <<events, last, requested>>
  /\ UNCHANGED <<fixed, heap, loop, wifi, stack_wifi_init, given>>

\* It posts CODE_WIFI_ON_PROV_CONNECT.
TriggerDisconnect ==
  /\ build = "strings" /\ Request
  /\ \/ Room /\ Put("connect", NULL, given) /\ last' = NULL
     \/ ~Room /\ UNCHANGED <<events, last>>
  /\ UNCHANGED <<fixed, heap, loop, wifi, stack_wifi_init, given, requested>>

\* Of the mesh, or of ble_sync.
TriggerConnectMesh(s, p) ==
  /\ build # "strings" /\ Request
  /\ \/ /\ Room /\ Put("connect", <<s, p>>, <<s, p>>)
        /\ last' = <<s, p>> /\ requested' = requested + 1
     \/ ~Room /\ UNCHANGED <<events, last, requested>>
  /\ UNCHANGED <<fixed, heap, loop, wifi, stack_wifi_init, given>>

TriggerDisconnectMesh ==
  /\ build # "strings" /\ Request
  /\ \/ Room /\ Put("disconnect", NULL, NULL) /\ last' = NULL
     \/ ~Room /\ UNCHANGED <<events, last>>
  /\ UNCHANGED <<fixed, heap, loop, wifi, stack_wifi_init, given, requested>>

\* A scan or a report of the state.
TriggerAsk ==
  /\ build # "strings" /\ Request
  /\ \/ Room /\ Put("ask", NULL, NULL)
     \/ ~Room /\ UNCHANGED events
  /\ UNCHANGED <<fixed, heap, loop, wifi, stack_wifi_init, history>>

\* cmd_stack_wifi, on the command line; later calls return at once.
StackWifi ==
  /\ ~stack_wifi_init /\ stack_wifi_init' = TRUE
  /\ \/ Room /\ Put("init_done", NULL, NULL)
     \/ ~Room /\ UNCHANGED events
  /\ UNCHANGED <<fixed, heap, loop, wifi, posts, history>>

(***************************************************************************)
(* event_cb_wifi_event, in the event loop.                                 *)
(***************************************************************************)

Take(code) == /\ ~waiting /\ events # <<>> /\ Head(events).code = code
              /\ events' = Tail(events)
Quiet == UNCHANGED <<stack_wifi_init, posts, history>>

\* The Wi-Fi manager starts and reports back.
OnInitDone ==
  /\ Take("init_done")
  /\ background' = "started"
  /\ UNCHANGED <<fixed, heap, loop, target, enabled, connects, teller, losing>> /\ Quiet

MgmrDone ==
  /\ background = "started" /\ background' = "up"
  /\ \/ Room /\ Put("mgmr_done", NULL, NULL)
     \/ ~Room /\ UNCHANGED events
  /\ UNCHANGED <<fixed, heap, loop, target, enabled, connects, teller, losing>> /\ Quiet

\* The station is enabled and told to connect; a lost link reported before may still be
\* in the queue.
Tell(c) == /\ enabled' = TRUE /\ target' = c
           /\ losing' = (losing /\ \E i \in DOMAIN events' : events'[i].code = "lost")
           /\ UNCHANGED background

\* _connect_wifi of ble_sync, with a network in the flash.
ConnectStored == Tell(stored) /\ teller' = "start" /\ UNCHANGED connects

\* _connect_wifi: bl602_demo_event reads nothing from the flash, and so never connects.
OnMgmrDone ==
  /\ Take("mgmr_done")
  /\ \/ stored # NULL /\ ConnectStored
     \/ /\ stored = NULL /\ enabled' = TRUE
        /\ UNCHANGED <<background, target, connects, teller, losing>>
  /\ UNCHANGED <<fixed, heap, loop>> /\ Quiet

\* Mutant: the first SSID is kept for good, and a later one is freed.
OnSsidKept ==
  /\ Take("ssid")
  /\ live' = IF ssid = NULL THEN live ELSE live \ {Head(events).val}
  /\ ssid' = IF ssid = NULL THEN Head(events).val ELSE ssid
  /\ UNCHANGED <<fixed, content, password, waiting, wifi>> /\ Quiet

\* The string of the event replaces the one kept so far, which is freed.
OnSsid ==
  /\ Take("ssid")
  /\ live' = live \ {ssid} /\ ssid' = Head(events).val
  /\ UNCHANGED <<fixed, content, password, waiting, wifi>> /\ Quiet

OnPassword ==
  /\ Take("passwd")
  /\ live' = live \ {password} /\ password' = Head(events).val
  /\ UNCHANGED <<fixed, content, ssid, waiting, wifi>> /\ Quiet

\* wifi_sta_connect
Connect(c) == Tell(c) /\ teller' = "request" /\ connects' = connects + 1

Text(b) == IF b = NULL THEN NULL ELSE content[b]

OnConnect ==
  /\ Take("connect")
  /\ Connect(IF Head(events).val # NULL THEN Head(events).val
             ELSE <<Text(ssid), Text(password)>>)
  /\ UNCHANGED <<fixed, heap, loop>> /\ Quiet

\* Mutant: the event is served without an effect, as without the mesh.
OnDisconnectPlain ==
  /\ Take("disconnect")
  /\ UNCHANGED <<fixed, heap, loop, wifi>> /\ Quiet

\* The station is disconnected, and disabled after a second.
OnDisconnect ==
  /\ Take("disconnect")
  /\ target' = NULL /\ waiting' = TRUE /\ teller' = "request"
  /\ UNCHANGED <<fixed, heap, ssid, password, background, enabled, connects, losing>> /\ Quiet

\* The Wi-Fi manager reports that a link was lost or not made.
LinkLost ==
  /\ build = "phone" /\ teller # "nobody" /\ Room
  /\ \A i \in DOMAIN events : events[i].code # "lost"
  /\ Put("lost", NULL, NULL) /\ losing' = TRUE
  /\ UNCHANGED <<fixed, heap, loop, background, target, enabled, connects, teller>> /\ Quiet

\* ble_sync disables the station after a second; bl602_demo_event only prints.
OnLost ==
  /\ Take("lost") /\ waiting' = TRUE
  /\ UNCHANGED <<fixed, heap, ssid, password, wifi>> /\ Quiet

\* The answer goes to the callback that came with the event.
OnAsk == Take("ask") /\ UNCHANGED <<fixed, heap, loop, wifi>> /\ Quiet

\* Mutant: it waits for the queue that only it could empty.
DisableIdle ==
  /\ waiting /\ events = <<>> /\ waiting' = FALSE /\ enabled' = FALSE
  /\ UNCHANGED <<fixed, events, heap, ssid, password, background, target, connects, teller,
                 losing>>
  /\ Quiet

Disable ==
  /\ waiting /\ waiting' = FALSE /\ enabled' = FALSE
  /\ UNCHANGED <<fixed, events, heap, ssid, password, background, target, connects, teller,
                 losing>>
  /\ Quiet

Trigger == \/ \E s \in Strings : TriggerSsid(s) \/ TriggerPassword(s)
           \/ TriggerConnect \/ TriggerDisconnect
           \/ \E s, p \in Strings : TriggerConnectMesh(s, p)
           \/ TriggerDisconnectMesh \/ TriggerAsk
Loop == \/ OnInitDone \/ OnMgmrDone \/ OnSsid \/ OnPassword
        \/ OnConnect \/ OnDisconnect \/ OnLost \/ OnAsk \/ Disable
Next == Trigger \/ StackWifi \/ MgmrDone \/ LinkLost \/ Loop

Spec == Init /\ [][Next]_vars
FairSpec == Spec /\ WF_vars(Loop)     \* the event loop is a task of its own

(***************************************************************************)
(* Properties.                                                             *)
(***************************************************************************)

\* How many places hold a buffer.
Holders(b) == Cardinality({i \in DOMAIN events : events[i].val = b})
              + (IF ssid = b THEN 1 ELSE 0) + (IF password = b THEN 1 ELSE 0)

\* Every string in the heap has exactly one owner, an event or a static, and nothing
\* else is referred to: no leak, no use after free, no double free.
OneOwner == \A b \in Buffers : Holders(b) = IF b \in live THEN 1 ELSE 0

\* A connect uses the SSID and the password accepted last before it was requested,
\* whatever was posted between the request and its turn.
ConnectAsPosted == [][OnConnect => target' = Head(events).want]_vars

\* When the loop has caught up, the station does what the mesh or the phone asked for
\* last, unless the Wi-Fi manager's report of its own start was served after that request:
\* then, in ble_sync, it connects to the network in the flash, whatever was asked for.  A
\* station with a network to connect to is enabled; in ble_sync unless a lost link was
\* reported since it was told to connect, or the report of an earlier link came to the
\* loop after that.
FollowsLastRequest ==
  (build # "strings" /\ events = <<>> /\ ~waiting) =>
    /\ target = IF teller = "start" THEN stored ELSE last
    /\ target # NULL => enabled \/ (build = "phone" /\ losing)

\* The station is told to connect as often as a connect was triggered: the message
\* "trigger DISCONNECT event OK" of the API never stands for a connect.
ConnectsRequested == connects <= requested

\* Every connect that was taken is made in the end.
Served == \A n \in 1..MaxPosts : (requested >= n) ~> (connects >= n)
=============================================================================
