------------------------------ MODULE BleDemo ------------------------------
(***************************************************************************)
(* Two boards that run enjoy/bledemo: P, where the button was pressed short *)
(* (peripheral, ble_apps.c), and C, where it was pressed long (central,     *)
(* ble_appc.c).  On each board one event loop handles the button and the    *)
(* events of the Bluetooth callbacks, and sits in a delay of five seconds   *)
(* after a disconnection; the callbacks come from the Bluetooth task.       *)
(***************************************************************************)
EXTENDS Integers, Sequences

CONSTANTS
  Rssi,      \* signal strengths at which C hears P
  MaxFail,   \* bound: Bluetooth calls that fail, on C
  MaxDrop,   \* bound: connections that end
  MaxPress   \* bound: very long presses, on each board

VARIABLES
  queue, waiting, led,      \* per board: its events, its loop is in the delay, its LED
  pressed,                  \* per board: very long presses
  enabled,                  \* per board: "no", "asked" (bt_enable), "yes"
  adv, ble_bl_conn, notify_flag,                  \* P
  scanning, default_conn, stage, handle,          \* C: and how far it has discovered
  link,                     \* "none", "pending" (bt_conn_create_le), "up", "ended" (C yet to be told)
  fails, drops

boards == <<queue, waiting, led, pressed, enabled>>
peripheral == <<adv, ble_bl_conn, notify_flag>>
central == <<scanning, default_conn, stage, handle>>
radio == <<link, fails, drops>>
vars == <<boards, peripheral, central, radio>>

Boards == {"P", "C"}
Both(x) == [b \in Boards |-> x]
WRITE == 7     \* the handle that may be written

Init == /\ queue = [P |-> <<"KEY_1">>, C |-> <<"KEY_2">>]
        /\ waiting = Both(FALSE) /\ led = Both("off") /\ pressed = Both(0)
        /\ enabled = Both("no")
        /\ adv = FALSE /\ ble_bl_conn = FALSE /\ notify_flag = FALSE
        /\ scanning = FALSE /\ default_conn = FALSE /\ stage = "none" /\ handle = 0
        /\ link = "none" /\ fails = 0 /\ drops = 0

Post(b, e) == queue' = [queue EXCEPT ![b] = Append(@, e)]

Fail == fails < MaxFail /\ fails' = fails + 1

(***************************************************************************)
(* Event loops.                                                            *)
(***************************************************************************)

Is(b, codes) == ~waiting[b] /\ queue[b] # <<>> /\ Head(queue[b]) \in codes
Done(b) == queue' = [queue EXCEPT ![b] = Tail(@)]

\* A very long press, seen by the button driver.
Press(b) == /\ pressed[b] < MaxPress /\ pressed' = [pressed EXCEPT ![b] = @ + 1]
            /\ Post(b, "KEY_3")
            /\ UNCHANGED <<waiting, led, enabled, peripheral, central, radio>>

\* KEY_1 on P, KEY_2 on C: the stack is started.
Begin(b) == /\ Is(b, {"KEY_1", "KEY_2"}) /\ Done(b)
            /\ enabled' = [enabled EXCEPT ![b] = "asked"]
            /\ UNCHANGED <<waiting, led, pressed, peripheral, central, radio>>

\* ble_bl_notify_task: the notification is of no consequence to the state.
Notify == /\ Is("P", {"KEY_3"}) /\ Done("P")
          /\ UNCHANGED <<waiting, led, pressed, enabled, peripheral, central, radio>>

\* bl_gatt_write_without_rsp
Write == /\ Is("C", {"KEY_3"}) /\ Done("C")
         /\ UNCHANGED <<waiting, led, pressed, enabled, peripheral, central, radio>>

Colour(e) == CASE e \in {"BLE_ADV_START", "BLE_SCAN_START"} -> "blue"
               [] e = "BLE_DEV_CONN" -> "green"
               [] e = "BLE_DEV_DISCONN" -> "red"

Show(b) == /\ Is(b, {"BLE_ADV_START", "BLE_SCAN_START", "BLE_DEV_CONN"}) /\ Done(b)
           /\ led' = [led EXCEPT ![b] = Colour(Head(queue[b]))]
           /\ UNCHANGED <<waiting, pressed, enabled, peripheral, central, radio>>

\* Disconnected: the loop waits,
Rest(b) == /\ Is(b, {"BLE_DEV_DISCONN"}) /\ Done(b)
           /\ led' = [led EXCEPT ![b] = Colour("BLE_DEV_DISCONN")]
           /\ waiting' = [waiting EXCEPT ![b] = TRUE]
           /\ UNCHANGED <<pressed, enabled, peripheral, central, radio>>

\* bleapps_adv_starting: an error if the stack advertises already
AdvStart == IF adv THEN UNCHANGED <<queue, adv>> ELSE adv' = TRUE /\ Post("P", "BLE_ADV_START")

\* start_scan
ScanStart == \/ ~scanning /\ scanning' = TRUE /\ Post("C", "BLE_SCAN_START") /\ UNCHANGED fails
             \/ Fail /\ UNCHANGED <<scanning, queue>>

\* Mutant: the central does nothing after the delay.
AgainNot(b) ==
  /\ waiting[b] /\ waiting' = [waiting EXCEPT ![b] = FALSE]
  /\ \/ b = "P" /\ AdvStart
     \/ b = "C" /\ UNCHANGED <<queue, adv>>
  /\ UNCHANGED <<led, pressed, enabled, ble_bl_conn, notify_flag, scanning, default_conn, stage, handle,
                 link, fails, drops>>

\* and then advertises, or scans, again.
Again(b) ==
  /\ waiting[b] /\ waiting' = [waiting EXCEPT ![b] = FALSE]
  /\ \/ b = "P" /\ AdvStart /\ UNCHANGED <<scanning, fails>>
     \/ b = "C" /\ ScanStart /\ UNCHANGED adv
  /\ UNCHANGED <<led, pressed, enabled, ble_bl_conn, notify_flag, default_conn, stage, handle,
                 link, drops>>

(***************************************************************************)
(* Bluetooth tasks.                                                        *)
(***************************************************************************)

\* ble_app_init, when the stack is up
ReadyP == /\ enabled["P"] = "asked" /\ enabled' = [enabled EXCEPT !["P"] = "yes"]
          /\ AdvStart
          /\ UNCHANGED <<waiting, led, pressed, ble_bl_conn, notify_flag, central, radio>>
ReadyC == /\ enabled["C"] = "asked" /\ enabled' = [enabled EXCEPT !["C"] = "yes"]
          /\ ScanStart
          /\ UNCHANGED <<waiting, led, pressed, peripheral, default_conn, stage, handle,
                         link, drops>>

\* device_found: near enough, the scan is stopped and the connection asked for.
Found(r) ==
  /\ scanning /\ adv /\ ~(r < -20)
  /\ scanning' = FALSE
  /\ \/ link = "none" /\ link' = "pending" /\ default_conn' = TRUE /\ UNCHANGED fails
     \/ Fail /\ default_conn' = FALSE /\ UNCHANGED link
  /\ UNCHANGED <<boards, peripheral, stage, handle, drops>>

\* connected on C and bl_connected on P: C starts to discover the service.
Connected ==
  /\ link = "pending" /\ adv
  /\ link' = "up" /\ adv' = FALSE /\ ble_bl_conn' = TRUE
  /\ queue' = [b \in Boards |-> Append(queue[b], "BLE_DEV_CONN")]
  /\ stage' = "service"
  /\ UNCHANGED <<waiting, led, pressed, enabled, notify_flag, scanning, default_conn, handle,
                 fails, drops>>

\* connected, with an error: nobody scans again.
ConnectError ==
  /\ link = "pending" /\ Fail
  /\ link' = "none" /\ default_conn' = FALSE
  /\ UNCHANGED <<boards, peripheral, scanning, stage, handle, drops>>

\* discover_func: the service, the characteristic, and its descriptor, to which C
\* subscribes; a failure ends the discovery.
Next3 == [service |-> "rx", rx |-> "ccc", ccc |-> "done"]
Discover ==
  /\ link = "up" /\ stage \in DOMAIN Next3
  /\ \/ /\ stage' = Next3[stage]
        /\ IF stage = "ccc" THEN handle' = WRITE /\ notify_flag' = TRUE
           ELSE UNCHANGED <<handle, notify_flag>>
        /\ UNCHANGED fails
     \/ /\ Fail /\ stage' = "none" /\ UNCHANGED <<handle, notify_flag>>
  /\ UNCHANGED <<boards, adv, ble_bl_conn, scanning, default_conn, link, drops>>

\* bl_disconnected on P.  The stack may advertise again by itself, and may withdraw
\* the subscription.
DisconnectedP ==
  /\ link = "up" /\ drops < MaxDrop /\ drops' = drops + 1 /\ link' = "ended"
  /\ Post("P", "BLE_DEV_DISCONN")
  /\ adv' \in BOOLEAN /\ notify_flag' \in {FALSE, notify_flag}
  /\ UNCHANGED <<waiting, led, pressed, enabled, ble_bl_conn, central, fails>>

\* Mutant: the loop is not told.
DisconnectedCSilent ==
  /\ link = "ended" /\ link' = "none"
  /\ default_conn' = FALSE /\ stage' = "none"
  /\ UNCHANGED <<boards, peripheral, scanning, handle, fails, drops>>

\* Mutant: the pointer is kept.
DisconnectedCKept ==
  /\ link = "ended" /\ link' = "none" /\ Post("C", "BLE_DEV_DISCONN")
  /\ stage' = "none"
  /\ UNCHANGED <<waiting, led, pressed, enabled, peripheral, scanning, default_conn, handle,
                 fails, drops>>

\* disconnected on C
DisconnectedC ==
  /\ link = "ended" /\ link' = "none" /\ Post("C", "BLE_DEV_DISCONN")
  /\ default_conn' = FALSE /\ stage' = "none"
  /\ UNCHANGED <<waiting, led, pressed, enabled, peripheral, scanning, handle,
                 fails, drops>>

Loop(b) == Begin(b) \/ Show(b) \/ Rest(b) \/ Again(b)
           \/ (b = "P" /\ Notify) \/ (b = "C" /\ Write)
Stack == ReadyP \/ ReadyC \/ (\E r \in Rssi : Found(r)) \/ Connected \/ Discover \/ DisconnectedC
Next == \/ \E b \in Boards : Loop(b) \/ Press(b)
        \/ Stack \/ ConnectError \/ DisconnectedP

\* The loops and the Bluetooth tasks run, and the radio finds and connects in the end.
Fairness == /\ WF_vars(Loop("P")) /\ WF_vars(Loop("C"))
            /\ WF_vars(ReadyP) /\ WF_vars(ReadyC) /\ SF_vars(\E r \in Rssi : Found(r))
            /\ SF_vars(Connected) /\ WF_vars(Discover) /\ WF_vars(DisconnectedC)

(***************************************************************************)
(* Properties.                                                             *)
(***************************************************************************)

\* C follows one connection at a time: it scans only while it has none, and its
\* pointer is set exactly from asking for one until that ended.
OneConnection == (default_conn <=> link # "none") /\ ~(scanning /\ default_conn)

\* When the loop of C has caught up, its LED is green if it is connected and only then.
Idle(b) == queue[b] = <<>> /\ ~waiting[b]
LedOfCentral == Idle("C") => (led["C"] = "green" <=> link \in {"up", "ended"})

\* While no Bluetooth call fails and the boards are near, C connects again and again.
Reconnects == <>(fails > 0) \/ []<>(link = "up")
=============================================================================
