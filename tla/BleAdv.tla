------------------------------- MODULE BleAdv -------------------------------
(***************************************************************************)
(* The advertising of bl702_demo_event that starts by itself and shares the *)
(* antenna with Zigbee (CFG_BLE_AUTO_TRIG_ADV, CFG_NO_BLE_IF_ZIGBEE_IN_NWK): *)
(* a one-shot timer of the FreeRTOS timer task ends every short advertising  *)
(* period and begins the next after a pause, until the Zigbee device is in a *)
(* network.  Nothing restarts the cycle once it was given up.                *)
(***************************************************************************)
EXTENDS Integers

CONSTANTS
  Short,       \* 3 * interval_max * 0.625 ms
  Long,        \* BL_ADV_START_TIMEOUT_MS
  MaxFail,     \* bound: calls that fail
  MaxZigbee    \* bound: changes of the Zigbee device

VARIABLES
  pc,             \* what runs: "idle", or the next call of the handler
  firstAdv, bl_adv_started,
  hdl,            \* bl_adv_timer_hdl is not NULL
  armed, period,  \* the timer
  advertising,    \* the controller
  connected,      \* to a central
  inNwk, auth,    \* zb_isDevActiveInNwk, zb_isAuthenticated
  fails, lost, joined,   \* history: failed calls; the timer was lost while
                  \* advertising or in a pause; Zigbee was ready
  changes         \* counter for the bound

flags == <<firstAdv, bl_adv_started>>
timer == <<hdl, armed, period>>
ble == <<advertising, connected>>
zigbee == <<inNwk, auth, joined, changes>>
errors == <<fails, lost>>
vars == <<pc, flags, timer, ble, zigbee, errors>>

\* bt_enable_cb has just called bl_ble_start_adv.
Init == /\ pc = "check" /\ firstAdv = TRUE /\ bl_adv_started = FALSE
        /\ hdl = FALSE /\ armed = FALSE /\ period = Long
        /\ advertising = FALSE /\ connected = FALSE
        /\ inNwk = FALSE /\ auth = FALSE
        /\ fails = 0 /\ lost = FALSE /\ joined = FALSE /\ changes = 0

Ready == inNwk /\ auth
Fail(n) == fails + n <= MaxFail /\ fails' = fails + n

(***************************************************************************)
(* The timer.                                                              *)
(***************************************************************************)

\* Mutant: a timer that exists is started with the period it has.
ArmOld(p) ==
  /\ hdl' = TRUE /\ armed' = TRUE
  /\ period' = IF hdl THEN period ELSE p
  /\ UNCHANGED <<fails, lost>>

\* bl_start_adv_Timer: creating the timer, changing its period (which starts it too)
\* and starting it may each fail; only a failed change is even printed.
Arm(p) ==
  \/ hdl' = TRUE /\ armed' = TRUE /\ period' = p /\ UNCHANGED errors
  \/ hdl /\ Fail(1) /\ armed' = TRUE /\ UNCHANGED <<hdl, period, lost>> \* not changed
  \/ /\ lost' = TRUE
     /\ \/ ~hdl /\ Fail(1) /\ UNCHANGED timer                          \* not created
        \/ ~hdl /\ Fail(1) /\ hdl' = TRUE /\ period' = p /\ UNCHANGED armed
        \/ hdl /\ Fail(2) /\ UNCHANGED timer                           \* not started

\* xTimerDelete and bl_adv_timer_hdl = NULL
Delete == hdl' = FALSE /\ armed' = FALSE /\ UNCHANGED period

\* bl_adv_timer_handler is called.
Fire ==
  /\ pc = "idle" /\ armed
  /\ armed' = FALSE
  /\ pc' = IF bl_adv_started THEN "stop" ELSE "check"
  /\ UNCHANGED <<flags, hdl, period, ble, zigbee, errors>>

\* Mutant: Zigbee is asked before the advertising is stopped.
StopReadyFirst ==
  /\ pc = "stop"
  /\ IF Ready THEN pc' = "idle" /\ Delete /\ UNCHANGED <<advertising, bl_adv_started>>
     ELSE pc' = "rearm" /\ advertising' = FALSE /\ bl_adv_started' = FALSE
          /\ UNCHANGED timer
  /\ UNCHANGED <<firstAdv, connected, zigbee, errors>>

Stop ==
  /\ pc = "stop" /\ pc' = "rearm"
  /\ advertising' = FALSE /\ bl_adv_started' = FALSE
  /\ UNCHANGED <<firstAdv, timer, connected, zigbee, errors>>

\* bt_le_adv_stop fails: the timer is given up, the flag stays.
StopFail ==
  /\ pc = "stop" /\ pc' = "idle"
  /\ Fail(1) /\ lost' = TRUE
  /\ Delete
  /\ UNCHANGED <<flags, ble, zigbee>>

\* Mutant: the condition is the other way round.
RearmInverted ==
  /\ pc = "rearm" /\ pc' = "idle"
  /\ IF ~Ready THEN Delete /\ UNCHANGED errors ELSE Arm(Long)
  /\ UNCHANGED <<flags, ble, zigbee>>

Rearm ==
  /\ pc = "rearm" /\ pc' = "idle"
  /\ IF Ready THEN Delete /\ UNCHANGED errors ELSE Arm(Long)
  /\ UNCHANGED <<flags, ble, zigbee>>

\* bl_ble_start_adv asks Zigbee first; it may join before the advertising starts.
Check ==
  /\ pc = "check"
  /\ IF Ready THEN pc' = "idle" /\ Delete ELSE pc' = "start" /\ UNCHANGED timer
  /\ UNCHANGED <<flags, ble, zigbee, errors>>

\* bt_le_adv_start the first time, set_adv_enable later.
Start ==
  /\ pc = "start" /\ pc' = "idle"
  /\ advertising' = TRUE /\ firstAdv' = FALSE /\ bl_adv_started' = TRUE
  /\ Arm(Short)
  /\ UNCHANGED <<connected, zigbee>>

\* The start fails, for instance because there is a connection: no timer is armed.
StartFail ==
  /\ pc = "start" /\ pc' = "idle"
  /\ Fail(1)
  /\ UNCHANGED <<flags, timer, ble, zigbee, lost>>

(***************************************************************************)
(* Outside.                                                                *)
(***************************************************************************)

\* A central connects: the controller stops advertising by itself.
Connect ==
  /\ advertising /\ ~connected
  /\ connected' = TRUE /\ advertising' = FALSE
  /\ UNCHANGED <<pc, flags, timer, zigbee, errors>>

Disconnect ==
  /\ connected /\ connected' = FALSE
  /\ UNCHANGED <<pc, flags, timer, advertising, zigbee, errors>>

Zigbee ==
  /\ changes < MaxZigbee /\ changes' = changes + 1
  /\ \/ inNwk' = ~inNwk /\ auth' = FALSE
     \/ inNwk /\ auth' = ~auth /\ UNCHANGED inNwk
  /\ joined' = (joined \/ Ready')
  /\ UNCHANGED <<pc, flags, timer, ble, errors>>

Handler == Fire \/ Stop \/ StopFail \/ Rearm \/ Check \/ Start \/ StartFail
Next == Handler \/ Connect \/ Disconnect \/ Zigbee

\* The timer task runs.
Fairness == WF_vars(Handler)

(***************************************************************************)
(* Properties.                                                             *)
(***************************************************************************)

TypeOK ==
  /\ pc \in {"idle", "stop", "rearm", "check", "start"}
  /\ firstAdv \in BOOLEAN /\ bl_adv_started \in BOOLEAN
  /\ hdl \in BOOLEAN /\ armed \in BOOLEAN /\ period \in {Short, Long}
  /\ (armed => hdl) /\ (pc # "idle" => ~armed)
  /\ advertising \in BOOLEAN /\ connected \in BOOLEAN
  /\ inNwk \in BOOLEAN /\ auth \in BOOLEAN
  /\ fails \in 0..MaxFail /\ lost \in BOOLEAN /\ joined \in BOOLEAN
  /\ changes \in 0..MaxZigbee

\* As long as no call failed, an advertisement on air has an armed timer that ends it
\* after the short period, and a pause one that ends it after the long one.
CycleTimed ==
  fails = 0 => /\ advertising => bl_adv_started
               /\ bl_adv_started => armed \/ pc = "stop"
               /\ armed => period = IF bl_adv_started THEN Short ELSE Long

\* The device advertises again and again, unless a call failed once or Zigbee was in
\* a network once: then nothing starts it again.
AdvertisesAgain == <>(fails > 0 \/ joined) \/ []<>bl_adv_started

\* Once Zigbee stays in a network, Bluetooth falls silent, unless stopping failed or
\* the timer that should have stopped it was lost.
SilentInNetwork == <>[]Ready => <>[]~advertising \/ <>lost
=============================================================================
