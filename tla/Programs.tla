------------------------------- MODULE Programs -------------------------------
(***************************************************************************)
(* Programs of the repository that have nothing in common, each a           *)
(* specification of its own: app says which of them is on the board (on the *)
(* two boards of bledemo), and the others never run.                        *)
(***************************************************************************)
EXTENDS Integers, Sequences

CONSTANTS
  Apps,                                                \* the programs looked at
  Numbers, Decimals,                                   \* NumberReading
  TEST_STEP_RETRY_COUNT,                               \* DeviceAdvisor
  Tasks, MaxAcks,                                      \* AwsClient
  Word, Rate, Second, Enough, Margin, MaxIdle, MaxBle, \* Tickless
  Sockets,                                             \* HttpClient
  Blocks,                                              \* Session
  Ssids, Passwords,                                    \* StoredWifi
  Short, Long, MaxZigbee,                              \* BleAdv
  Rssi, MaxDrop, MaxPress,                             \* BleDemo
  MaxFail,                                             \* BleAdv and BleDemo
  NULL

ASSUME AppsAssumption ==
  Apps \subseteq {"audio_udp", "device_advisor", "aws_iot", "idle_task", "demo_tickless",
                  "http_client", "blsync", "wifi", "bl702_demo_event", "bledemo"}

\* What the programs' constants are; NULL stands for an absent block or string.  A number
\* is below 10^12 (the code says that it supports no greater one), as digits without
\* leading zeros; decimals are a byte.
ASSUME NumbersAssumption ==
  /\ \A ds \in Numbers : /\ ds \in Seq(0..9) /\ Len(ds) <= 12
                         /\ ds # <<>> => ds[Len(ds)] # 0
  /\ Decimals \subseteq 0..255
ASSUME AdvisorAssumption == TEST_STEP_RETRY_COUNT \in Nat \ {0}
ASSUME AwsAssumption == MaxAcks \in Nat \ {0}
ASSUME ClockAssumption ==
  /\ Word \in Nat \ {0} /\ Rate \in Nat \ {0} /\ Second \in Nat \ {0}
  /\ Enough \in Nat /\ Margin \in Nat /\ Margin < Enough
  /\ MaxIdle \in Nat /\ MaxBle \in Nat
ASSUME SocketsAssumption == Sockets \in Nat
ASSUME PeriodAssumption == Short \in Nat /\ Long \in Nat /\ Short # Long
ASSUME RssiAssumption == Rssi \subseteq Int
ASSUME BoundAssumption == {MaxZigbee, MaxFail, MaxDrop, MaxPress} \subseteq Nat
ASSUME NullAssumption == NULL \notin Blocks \cup Ssids \cup Passwords

VARIABLES
  app,       \* the program on the board; the other variables are the programs' own
  num, dec, words,
  teststep, mqttstep, count, open,
  pc, away, pending, shadowUpdateInProgress, lost,
  expected, bleSleep, slept,
  pin, mode,
  shell, inUse, buffer, abandoned, req, transfer, asked,
  variant, gp_index, live, running, stack_started, enabling, doing, completed, clash, misused,
  misled,
  board, env, station, used, careless,
  advPc, firstAdv, bl_adv_started, hdl, armed, period, advertising, connected, inNwk, auth,
  advFails, advLost, joined, changes,
  queue, waiting, led, pressed, enabled, adv, ble_bl_conn, notify_flag,
  scanning, default_conn, stage, handle, link, demoFails, drops

Reading == INSTANCE NumberReading
Advisor == INSTANCE DeviceAdvisor
Aws == INSTANCE AwsClient
Idle == INSTANCE Tickless
Power == INSTANCE PowerDown
Http == INSTANCE HttpClient
Sync == INSTANCE Session
Wifi == INSTANCE StoredWifi
Cycle == INSTANCE BleAdv WITH pc <- advPc, fails <- advFails, lost <- advLost
Demo == INSTANCE BleDemo WITH fails <- demoFails

reading == <<num, dec, words>>
advisor == <<teststep, mqttstep, count, open>>
aws == <<pc, away, pending, shadowUpdateInProgress, lost>>
idle == <<expected, bleSleep, slept>>
power == <<pin, mode>>
http == <<shell, inUse, buffer, abandoned, req, transfer, asked>>
sync == <<variant, gp_index, live, running, stack_started, enabling, doing, completed, clash,
          misused, misled>>
wifi == <<board, env, station, used, careless>>
cycle == <<advPc, firstAdv, bl_adv_started, hdl, armed, period, advertising, connected,
           inNwk, auth, advFails, advLost, joined, changes>>
demo == <<queue, waiting, led, pressed, enabled, adv, ble_bl_conn, notify_flag,
          scanning, default_conn, stage, handle, link, demoFails, drops>>
vars == <<app, reading, advisor, aws, idle, power, http, sync, wifi, cycle, demo>>

\* A program that does not run is in one of its initial states.
Init == /\ app \in Apps
        /\ Reading!Init /\ Advisor!Init /\ Aws!Init /\ Idle!Init /\ Power!Init
        /\ Http!Init /\ Sync!Init /\ Wifi!Init /\ Cycle!Init /\ Demo!Init
        /\ app # "device_advisor" => teststep = "ABORTED"
        /\ app # "demo_tickless" => pin
        /\ app # "blsync" => variant = Sync!Mesh
        /\ app # "wifi" => board = Wifi!mdns

RunReading == app = "audio_udp" /\ Reading!Next
              /\ UNCHANGED <<app, advisor, aws, idle, power, http, sync, wifi, cycle, demo>>
RunAdvisor == app = "device_advisor" /\ Advisor!Next
              /\ UNCHANGED <<app, reading, aws, idle, power, http, sync, wifi, cycle, demo>>
RunAws == app = "aws_iot" /\ Aws!Next
          /\ UNCHANGED <<app, reading, advisor, idle, power, http, sync, wifi, cycle, demo>>
RunIdle == app = "idle_task" /\ Idle!Next
           /\ UNCHANGED <<app, reading, advisor, aws, power, http, sync, wifi, cycle, demo>>
RunPower == app = "demo_tickless" /\ Power!Next
            /\ UNCHANGED <<app, reading, advisor, aws, idle, http, sync, wifi, cycle, demo>>
RunHttp == app = "http_client" /\ Http!Next
           /\ UNCHANGED <<app, reading, advisor, aws, idle, power, sync, wifi, cycle, demo>>
RunSync == app = "blsync" /\ Sync!Next
           /\ UNCHANGED <<app, reading, advisor, aws, idle, power, http, wifi, cycle, demo>>
RunWifi == app = "wifi" /\ Wifi!Next
           /\ UNCHANGED <<app, reading, advisor, aws, idle, power, http, sync, cycle, demo>>
RunCycle == app = "bl702_demo_event" /\ Cycle!Next
            /\ UNCHANGED <<app, reading, advisor, aws, idle, power, http, sync, wifi, demo>>
RunDemo == app = "bledemo" /\ Demo!Next
           /\ UNCHANGED <<app, reading, advisor, aws, idle, power, http, sync, wifi, cycle>>

Next == RunReading \/ RunAdvisor \/ RunAws \/ RunIdle \/ RunPower \/ RunHttp \/ RunSync
        \/ RunWifi \/ RunCycle \/ RunDemo
Spec == Init /\ [][Next]_vars
FairSpec == Spec /\ (app = "device_advisor" => Advisor!Fairness)
                 /\ (app = "aws_iot" => Aws!Fairness)
                 /\ (app = "demo_tickless" => Power!Fairness)
\* When Apps is one of the Bluetooth programs alone.
CycleSpec == Spec /\ Cycle!Fairness
DemoSpec == Spec /\ Demo!Fairness

(***************************************************************************)
(* The properties of the programs, each explained in its module.           *)
(***************************************************************************)

\* The spoken number is the number sent, with a zero where a place is skipped within a
\* section and before a last section below 1000, and with no other (audio_tts_num_play).
Understood == Reading!Understood /\ Reading!ZerosSpoken

\* The two machines of aws_device_advisor_entry stay in step.
InStep == Advisor!InStep

\* The tests of the device advisor come to an end.
TestsEnd == app = "device_advisor" => Advisor!TestsEnd

\* aws_main_entry goes on reporting.
Reports == app = "aws_iot" => Aws!Reports

\* vApplicationSleep never sleeps past a deadline.
WakesInTime == Idle!WakesInTime

\* The pin decides between power-down and the program (pds_level.c).
FollowsPin == app = "demo_tickless" => Power!FollowsPin

\* The downloads give back what they take.
NothingLeft == Http!NothingLeft

\* The session of blsync_ble_app.c has one owner.
OneSession == Sync!OneSession

\* The key handed to the Wi-Fi manager belongs to the network handed to it
\* (_connect_wifi).
PmkFits == Wifi!PmkFits

\* The advertising of bl702_demo_event is ended in time, goes on, and ends in a network
\* (ble_app.c).
CycleTimed == Cycle!CycleTimed
AdvertisesAgain == Cycle!AdvertisesAgain
SilentInNetwork == Cycle!SilentInNetwork

\* The central of bledemo has one connection at a time, shows it, and finds the peripheral
\* again (ble_appc.c, main.c).
OneConnection == Demo!OneConnection
LedOfCentral == Demo!LedOfCentral
Reconnects == Demo!Reconnects
=============================================================================
