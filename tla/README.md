# Verification of the Bouffalo SDK demonstration programs

The repository holds the application side of an SDK for the BL602 and BL702
wireless microcontrollers: several dozen small programs, most of them an
`aos_loop_init` / task set-up around a few hundred lines of its own. Drivers,
lwIP, the Bluetooth and IEEE 802.15.4 stacks, FreeRTOS, the settings store
(EasyFlash) and the Wi-Fi manager are in other repositories. What this directory
verifies is the logic the programs add to them: update, retry, provisioning,
reconnection, event handling and playback, which run in several tasks and
interrupts without locks and are tested, where they are tested at all, by
scripts that start a board and look for a line of output.

All modules are TLA+ checked with TLC; eight of them hold theorems checked by
the TLA+ proof system. `PROJECT.json` lists the runs, the source lines that each
definition models (`map`), one mutation per property that makes the property
fail, the hazards of the code with the properties that cover them, the findings
and the theorems.

## 1. Inventory

What each component keeps, what it does, and what makes it correct. Paths are
below `src/`. "Runs in" names the threads of control that meet in its state.

### Modelled

| Component | State and where it lives | Operations | Runs in | What is hard |
|---|---|---|---|---|
| **HTTP OTA update** `system/ota/demo_ota/demo_ota/bl_http_ota.c` | two firmware slots and the partition table (flash); `otaHandle`, `otaBuffer`, `otaSema`, the receive statics (RAM) | `ota_http_cmd`; `cb_httpc_headers_done_fn`, `cb_altcp_recv_fn`, `cb_httpc_result` | CLI task, TCP/IP thread | statics that survive a failed download, pointers kept after a free, a release of the command before the transfer ends, loss of power, unchecked flash errors |
| **802.15.4 range test** `bl702_demo_lmac154/.../lmac154_example.c` (case 2) | `SEQ_NUM`, counters, `ack_ok`, a semaphore; on the other board the last sequence number and RSSI statistics | sending task; `lmac154_ackEvent`, `lmac154_txDoneEvent`, `lmac154_rxDoneEvent` | task and interrupt of the sender, interrupt of the receiver | lost frames and acknowledgements, repetition on two levels, duplicates |
| **Border router Wi-Fi backbone** `bl702_demo_otbr/.../wifi_lwip.c`, `main.c` | `wifi_info` (RAM), settings 0xff01/0xff02 (flash), the event mask of the OpenThread task | `wifi_connect`, `wifi_disconnect`, `wifi_config`; `virt_net_spi_event_cb`; `otrAppProcess` | CLI task, virtual network callback, OpenThread task | three tasks share `wifi_info`, SSID and password are two writes, power cycles, reconnection |
| **Wi-Fi provisioning events** `bl602_demo_event/.../wifi_prov_api.c`, `main.c`; `enjoy/ble_sync/...` (the API file is also in four other demos) | the event queue; heap copies of strings; statics `ssid`, `password`, `stack_wifi_init` | `wifi_prov_api_event_trigger_*`; `event_cb_wifi_event`; `cmd_stack_wifi` | any task (Bluetooth, CLI), the AOS event loop | ownership of strings, a full queue, exhausted heap, the loop asleep in a handler, reports of links that are long gone |
| **BLE advertising beside Zigbee** `bl702_demo_event/.../ble_app.c` | `bl_adv_timer_hdl`, `firstAdv`, `bl_adv_started` | `bl_ble_start_adv`, `bl_start_adv_Timer`, `bl_adv_timer_handler` | timer task, Bluetooth task, the Zigbee stack | a one-shot timer that must be armed again on every path, a network joined in between |
| **BLE peripheral** `bl702_demo_event/.../ble_peripheral.c` | `BleConn`, `BleInited`, the event queue | `AppHandler` and its table; the connection and pairing callbacks | event loop, Bluetooth task | advertising resumes through two queued events, which may be dropped |
| **Reading a number aloud** `enjoy/audio_udp/.../audio_tts.c` | none | `audio_tts_num_play`, `__add_num_*` | – | zeros in Chinese numbers |
| **Audio player** `enjoy/audio_udp/.../audio_tts.c`, `main.c` | `dma_list_head`, `dma_irq_ev`, `dma_irq_item`, `r_size`, `end_flag` | `audio_tts_characters_play`, `audio_tts_num_play`, `audio_tts_start`; `__transfer_complete` | UDP task, transfer interrupt | a list filled while the interrupt empties it, buffers that span items, underruns, allocation failures |
| **Bluetooth demo** `enjoy/bledemo/...` | `default_conn`, `ble_bl_conn`, subscription, LED | scan, connect, discover, advertise, notify; the key and BLE events | an event loop and a Bluetooth task on each of two boards | five seconds of delay inside the loop, events that arrive meanwhile, failures that nobody follows up |
| **Bluetooth provisioning session** `blsync_ble_app.c` of five demos | `gp_index`, a block of the heap, a static | `blsync_ble_start`, `blsync_ble_stop`; `blsync_init`, `blesync_complete_cb` | CLI, Bluetooth task | four variants that check different things; completion and stop both free the block |
| **AWS device advisor** `cloud/aws_iot_core/.../demo_device_advisor.c` | two machines, a retry counter | the loop of one task | one task, the network | the machines must agree, and a counter is shared by all tests |
| **AWS client** `aws_main_entry` in four demos | `shadowUpdateInProgress` (static), a client per task | the reporting loop, the answer to an update | one or more tasks | a flag of all tasks, updates that are never answered |
| **Tickless sleep** `vApplicationSleep`; **power-down** `system/os/demo_tickless` | the deadlines; a pin | the sleep of the idle task; `pds_mode_entry`, `pds_check_process` | idle task, timer, reboots | 32-bit conversion of ticks; a pin that changes at any time |
| **HTTP client demos** `network/http_client_socket`, `http_client_tcp` | a socket and a buffer; the static `req` | `client_demo`; `cmd_httpc_test`, `cb_httpc_result` | CLI, TCP/IP thread | early returns; a callback before the call that began it returns |
| **Stored Wi-Fi configuration** `_connect_wifi` of thirteen demos | SSID, password and key in the settings | `cmd_stack_wifi`, the event of the Wi-Fi manager, `psm_set`, `psm_unset`, restarts | event loop | a stored key that may belong to another network |

How they interact. A demo is assembled from these parts by calls and events: the
Bluetooth provisioning session (`blsync_ble_app.c`) calls
`wifi_prov_api_event_trigger_*`, whose events the event loop serves; the same
event loop runs `AppHandler`, and in the BL702 demos the automatic advertising
shares the antenna with Zigbee through two status functions. The OTA command and
the border router are programs of their own, and so are the parts that `Programs`
puts side by side, ten in all. Within a component the parts
interact through the shared variables in the table, through FreeRTOS semaphores
and notifications, and through queues of bounded length.

### Not modelled

| Component | Reason |
|---|---|
| Hibernation of the throughput slave (`sdk_app_throughput/bl602_slave`) | one word that survives hibernation; the rest is the sequence of register writes of the power-down |
| 802.15.4 throughput test (case 1 of `lmac154_example.c`), identification | the counterpart of the test is the MAC library: the file only starts and counts |
| Zigbee coordinator replacement (`zc_replacement.c`) | commands that read keys and counters from the Zigbee stack and write them to another coordinator, with one call each; the stack is in another repository |
| AWS: publish, subscribe and shadow demos, stored configuration | calls of the AWS library, in a fixed order |
| HTTP server, mDNS, Thread, throughput master | set-up of services that are in other repositories |
| Nano demo | a smaller copy of bl602_demo_event; its `_connect_wifi` is in `StoredWifi` |
| Jobs, timers, heap, settings, codec, archive and file demos | short sequences of library calls whose result is printed |
| Cryptography benchmarks | test vectors against a library; straight-line data transformation |
| Peripheral demos (`peripheral/*`) | register set-up; more than half of the lines of the repository are two tables of sound samples in `peripheral/demo_dac` |
| Command-line tests (`cmd_pka`, `cmd_dma`, ...) | exercise hardware and print |

What is left is therefore set-up, tables and calls of libraries, and a model of it
would say nothing that the code does not say at a glance.

Every one is listed in `PROJECT.json` with its sources.

## 2. Modules

Every component is one module with its state as `VARIABLES`, one action per
handler, command, interrupt or step of a task, and its properties at the end.
A module `MC...` EXTENDS it where TLC needs definitions for the constants; a
module `...Proofs` EXTENDS it for the theorems. Definitions keep the names of the
source where they can. The definitions commented "Mutant:" are the mutations of
`PROJECT.json`; nothing else uses them.

| Module | Role |
|---|---|
| `FirmwareSlots` | abstract: what an update promises to the boot loader |
| `HttpOta`, `MCHttpOta`, `HttpOtaProofs` | the update; implements `FirmwareSlots` |
| `RangeTest`, `MCRangeTest`, `RangeTestProofs` | both boards of the range test and the medium |
| `OtbrWifi`, `MCOtbrWifi`, `OtbrWifiProofs` | credentials and reconnection of the border router |
| `WifiProv`, `MCWifiProv`, `WifiProvProofs` | provisioning events |
| `BleAdv` | advertising beside Zigbee |
| `BlePeripheral`, `MCBlePeripheral`, `BlePeripheralProofs` | peripheral |
| `NumberReading` | a pure algorithm against the grammar of the numbers it makes |
| `AudioTts`, `AudioTtsProofs` | the player |
| `BleDemo` | two boards of the Bluetooth demo, composed |
| `DeviceAdvisor`, `AwsClient`, `Tickless`, `PowerDown`, `HttpClient`, `Session`, `StoredWifi` | the small programs |
| `Programs`, `MCPrograms`, `ProgramsProofs` | the eight small programs, `BleAdv` and `BleDemo`, one at a time, in one specification |
| `SeqCounting` | lemmas on queues, used by three proof modules |

### HttpOta and FirmwareSlots

A file is a sequence of units, the first `HeaderLen` of them the OTA header; the
offsets and lengths of the code are counts of units. A digest is the sequence that
was hashed (SHA-256 without collisions), and `Claim[u]` the digest that a header
beginning with `u` holds. The actions are the command (`OtaCmd`, `CmdTake`,
`CmdDelete`: create the semaphore and start the client, take, delete) and the three
callbacks (`HeadersDone`, `Recv`, `Result`), one step each since they all run in the
TCP/IP thread. The callback that takes the last unit of an image is three steps,
between which the command line runs and power may be lost: the data write
(`RecvBody`), `hal_boot2_update_ptable` (`UpdateTable`) and the reboot (`Reset`);
`recvAt` is the next of them. `PowerLoss` falls between any two steps, and inside an
erasure (`CutErase`) or a data write (`CutWrite`), of which the first units then
happened. Flash writes and erasures may fail without the code noticing (`degraded`),
and so may the write of the table, whose result the code ignores: the old table stays
and the board reboots into the old firmware. The opening of the partition, the
allocation of the buffer and the start of the client may fail too. Use of freed memory, of a closed handle or
a deleted semaphore, an overflow and a write outside the partition set `fault`,
after which nothing is said of the system, except that the watchdog or the user
may restart it.

`FirmwareSlots` has the slots and the table only: an update stages bytes in the
slot that does not boot, and activates it only with an authentic image. The
refinement `ImplementsSlots` maps the slots, `active`, the length and `degraded`
onto themselves; every callback is a `Stage` or a stutter, the write of the table is
the `Activate`, and a cut write or erasure is a `Stage`. What the boot loader does for
the table itself is external (`hal_boot2` is in another repository): a table write that
is cut leaves the old entry or the new one.

* `BufferSafe`: the buffer takes a whole chunk on top of what was left, with no
  bound test; that is enough in every order of commands.
* `FaultNeedsRetry`: memory is misused only on a second command of a boot or after
  a download was let go as too large (the code keeps pointers it freed).
* `NoInstallOnRetry`: the receive statics are not reset, so a second download of
  a boot installs nothing, also when it would be a good one.
* `NoMissedInstall`: the first one is, from its last unit on, on its way to the table
  and the reboot.
* `CommandReturns`: a command whose connection exists comes back. Without one it does
  not: the result of `httpc_get_file_dns` is ignored (line 260), and a client that
  fails at once leaves the command waiting for ever. The property leaves that out.

A body that is longer than its Content-Length is not modelled: lwIP's client hands the
length of the header to the callback and the body as it comes, and the files of the
model end where they say.

### RangeTest

The task (`Send`, `Take`, `Delay`), the MAC and the medium (`Transmit`, `TxFail`;
external), the acknowledgement interrupt and the receive interrupt of the other
board. Each transmission may lose the frame, deliver it and lose the
acknowledgement, or deliver it with a wrong CRC, which the interrupt does not look
at; the receiver can hold one frame. `CountedOnce` and `Consistent` relate the
counters of both boards and the history of packets; they speak of behaviours in
which no CRC was wrong (`crc`), since a frame with a garbled sequence number is
counted. `NotSkipped` says that the task leaves a packet only when the other side
has it or after the permitted number of attempts; `RssiOrdered` that the printed
statistics are ordered, with C's truncating division; `Finishes` that the test
ends unless a frame could not be sent at all.

### OtbrWifi

Three tasks meet in `wifi_info`, which no lock protects: the command line, the virtual
network callback and the OpenThread task. One C call is one step (a `memset`, a
`strcpy` or `memcpy` of one string, the read or the write of one setting,
`virt_net_connect_ap`), `pc[t]` is the call that task `t` makes next, and between any
two steps another task may run or power may be cut. `CmdConnect`, `CmdConfigSet` and
the others are the `memset` with which a command begins; `ConnectAsk`, `CopySsid` and
`CopyPwd` are the rest of `cmd_connect`, `OverSsid` and `OverPwd` the two `memcpy` of
`cmd_wifi_config`, which copy no end of string (a shorter string over a longer one may
leave a `Garbled` one). `LoadSsid`, `LoadPwd`, `StoreSsid` and `StorePwd` are the reads and
writes of the settings, by whichever task; `Reconnect`, `Check`, `Mark`, `ReconnectAsk` and
`Clear` the rest of `wifi_lwip_connect_saved_ssid`. Only the start is one step,
since `wifi_lwip_init` runs before the tasks. `Ask` is `virt_net_connect_ap`. `Pairs`
is what a user may type together, any set of pairs in the theorems.

`env` is chosen once: in a "careful" environment the user lets the router settle
before the next well-formed command, association takes longer than the rest of
`cmd_connect`, the radio reports no loss of an access point it left for another, and
power is cut neither in the callback nor in a command; otherwise everything is possible.

* `PairsKept` (any environment): the stored SSID and password belong together, or were
  cleared together, except between the two writes of a save (`MidSave`) or after a power
  cut between them (`torn`), and as long as no task touched the credentials between
  the halves of another's copy, read or save (`raced`).
* `Reconnects`: a lost link is tried again, unless another task touches the
  credentials between the read and the attempt (`disturbed`).
* `AutoConnectUsable` (careful): the access point last used is the one after a
  power cycle, for passwords of 8 to 32 characters.
* `AutoConnect` (careful): the same for every password; **violated**, see Findings.

The two exclusions are what the missing lock costs; TLC gives a trace for each when it
is dropped:

* `raced`: `cmd_connect` has copied the new SSID (line 221) and not yet the password;
  an address arrives, and the callback stores the new SSID with the empty password
  that the `memset` left.
* `disturbed`: the link is lost while `cmd_connect` is between its two copies; the
  OpenThread task clears `wifi_info` and reads a stored password of 8 characters into
  it, the second copy puts one of 40 there before the check of line 279, which
  refuses it: the attempt is dropped and nothing asks for another.

### WifiProv

`Trigger...` are the posting functions, in any task; `PostCopy` is the copy to the
heap with its failure paths. `On...` are the cases of `event_cb_wifi_event`, and
`Disable` the end of the disconnection after its delay of one second, during which
the queue fills. `build` is the program: strings, or with the option
CONFIG_BT_MESH_SYNC the mesh, of bl602_demo_event, or the phone of ble_sync. In ble_sync
the start of the Wi-Fi manager connects to the network in the flash (`stored`), if there is
one (`ConnectStored`, the `_connect_wifi` of its `main.c`), and `OnLost` disables the
station after a lost link, as a disconnection does. `teller` is the history of who told
the station last what to do, a request or that start. Events carry `want`, a history of what a connect should use; `losing` is the history of a
report of a lost link that is newer than the last connect, or was not yet taken.

* `OneOwner`: every string in the heap is held by exactly one event or static, and
  nothing refers to a freed one.
* `ConnectAsPosted`: a connect uses what was accepted before it, whatever other
  tasks posted between.
* `FollowsLastRequest`: with the mesh or the phone, when the queue is empty the
  station does what was asked last, and is enabled if that is a network. Two cases of
  ble_sync differ, and the property names both and denies every other: the Wi-Fi
  manager starts after a request, and the station is told the stored network
  (`teller`); and a report of a lost link that the loop takes after a newer connect
  disables that connection (`losing`).
* `Served`: every connect that was accepted is made.
* `ConnectsRequested`: **violated**, see Findings.

### BleAdv

`pc` is the next call of `bl_adv_timer_handler`, since Zigbee may change between any
two of them; each library call may fail. `CycleTimed` relates the advertising, the
flag, the timer and its period; `AdvertisesAgain` and `SilentInNetwork` are the two
things the cycle is for.

### BlePeripheral

The queue, the event that is being handled (`cur`) and the callbacks, which may come
while one is handled. `OneRole` counts what leads to advertising (events queued or
being handled), the advertising and the connections: never more than one in all,
although each step reads only its own part. `ConnKnown`, `BackOnAir` and
`SecurityRequested` are about the connection pointer, the return to the air and
security for every connection that lasts.

### NumberReading, AudioTts

`NumberReading` takes numbers as digits, so that the 64-bit range of the code needs
no arithmetic; the loop of `__add_num_thousand` is a recursive function of its rounds.
Its properties do not follow the algorithm but read the result:
`Understood` evaluates the words by the grammar of Chinese numbers and compares
with the digits. `ZerosSpoken` says where zeros are read: one where a place is skipped
within a section of four digits, one at the head of the last section if that is below
1000, and none at the head of the section of the ten thousands, whose zero is commented
out in the code (`audio_tts.c:232`). 100030000 is read without a zero, which says the
number all the same.

`AudioTts` is the task and the interrupt. A recording is a number of units, `Dual`
of which are half a device buffer. `TransferWithin`, `TransferAcross` and
`TransferSilence` are the branches of `__transfer_complete`. When the interrupt
takes the event of the number while the task still adds to it, or a start replaces
an item that is playing, the lists are no longer what the code takes them for:
`clash` is set and the model stops there, so its properties are about the
behaviours up to that point.
`Seamless` (with the position inside the item that is playing), `NothingForgotten`
and `Spoken` say that what is heard is complete, in
order and without gaps, that no item is lost or played twice, and that all is
spoken and the device rests.

### BleDemo

One board after a short press (P) and one after a long press (C), with their
queues, loops and callbacks, and the link between them. `OneConnection` relates the
pointer, the scan and the link; `LedOfCentral` says what the LED shows when the
loop has caught up with events that came during its delay; `Reconnects` that the
boards find each other again. The guide gives `Rssi < -20` as the condition for
connecting (`enjoy/bledemo/README.md:5`); the code connects otherwise
(`ble_appc.c:198`), and the model follows the code.

### The small programs

Each is a specification of its own, and `Programs` puts them side by side, together
with `BleAdv` and `BleDemo`: `app`, one of the constant `Apps`, says which is on the
board, and the others stay in an initial state. `FairSpec` assumes the fairness of
each of the eight small programs where it runs; `CycleSpec` and `DemoSpec` are for the
runs in which `Apps` is one of the Bluetooth programs alone.

* `DeviceAdvisor`: the loop of `aws_device_advisor_entry`, one action per case and
  outcome. `InStep` relates `teststep`, `mqttstep`, the counter and the connection;
  `TestsEnd` says that the tests end unless a server with a bad certificate is
  accepted for ever, which the code repeats without a bound.
* `AwsClient`: tasks that share `shadowUpdateInProgress`. `Reports`: temperature is
  reported again and again, unless the network stays away, no task is left, or an
  update was lost; then the flag stays set, since the code sets it also when the
  update was not sent.
* `Tickless`: one choice of a sleep, with the branch on `eSleepStatus`. FreeRTOS is taken
  at its word that `eNoTasksWaitingTimeout` comes with no expected tick (`Asks`,
  external): with a finite one the code would sleep the controller's time past it
  (`main.c:193`). `WakesInTime` holds although the product wraps
  for idle times beyond 36 hours, because the remainder is never larger.
* `PowerDown`: reboots as actions. `FollowsPin`: a pin that is left alone decides.
* `HttpClient`: `NothingLeft` relates sockets, buffer and the static `req` to where
  the command is. A connect that fails leaves its socket, which the model counts.
* `Session`: the four variants of `blsync_ble_app.c` as records of what they check.
  `doing` is what the main loop (where the commands run) and the Bluetooth task (which
  calls back) are in the middle of: each check of `gp_index`, allocation, call of the
  library, `vPortFree` and assignment is a step of its own, since nothing locks
  `gp_index`. `OneSession`: between the operations the session that runs is the block in
  use and that of `gp_index`, and in the copies that check their stop no operation uses a
  session that is not there. It holds until a stop meets an operation of the other task
  or two starts meet (`clash`). After that nothing holds, of the mesh either: its
  completion may pass the check of line 103, the command free the block, and
  the completion then stop NULL or free again; two starts that both pass the check of
  line 58 of ble_sync make two blocks. The copies that leave `gp_index` set after a
  completion are held to what their checks still give, and `StartedMeansRunning` is
  **violated** by them, see Findings.
* `StoredWifi`: `PmkFits`, the key belongs to the network, if it is unset after each
  change, as the message of the program asks.

### Known defects that properties leave out

A liveness property of a program that gives up on some failure can only say that
nothing else stops it. These exempt the very case of a hazard, where the code does go
wrong, and no comment, document or test of the repository says otherwise; the notes of
the hazards in `PROJECT.json` say the same.

| Property | Exempts |
|---|---|
| `CommandReturns` | a client that fails at once (`bl_http_ota.c:260`) |
| `Finishes` | a transmission that fails (`lmac154_example.c:173`) |
| `PairsKept`, `Reconnects` (border router) | the overlaps above |
| `FollowsLastRequest` | a start after a request, and a late report of a lost link |
| `AdvertisesAgain`, `CycleTimed` | a failed start, timer or change of period (`ble_app.c:388`, 441) |
| `BackOnAir` | a failed start, and an event dropped by the full queue (`ble_peripheral.c:111`) |
| `Seamless`, `NothingForgotten` | what follows a half-made event or a replaced item (`audio_tts.c:262`, 336) |
| `Reconnects` (`BleDemo`) | a connection attempt that fails (`ble_appc.c:249`) |
| `Reports` | an update that is lost, or a flag left by a task that ended (`aws_iot_main.c:411`) |
| `NothingLeft` | the sockets of failed connects; nor does it say that httpc ever accepts again (`http_client_tcp/demo.c:46`) |
| `OneSession` | what follows a stop or a second start that meets the other task |

## 3. Runs

| Run | Bounds | What it shows |
|---|---|---|
| `http_ota` | header 2, chunk 1..2, buffer 3 (the least the assumption allows), partition 5, window 2; four files: good (4 units), corrupted (3), tiny (3), too large (5); two commands in the first boot, one in the second | safety and refinement with retries, overlap of a released download with the next, failing writes of data and table, and power loss between any two steps and inside a write or an erasure; the command returns |
| `range_test` | 3 packets, sequence numbers modulo 4, two transmissions per attempt, two attempts | counting, statistics, termination |
| `otbr_wifi` | 2 SSIDs, passwords of 8 and 40 characters, 3 commands, 2 events under way, one power cycle, one torn save | pairs and reconnection under every interleaving of the three tasks, automatic connection |
| `otbr_long_password` | the same, 2 commands, 3 events, two power cycles, no torn save | finding |
| `wifi_prov` | 2 strings, 3 heap blocks, queue of 3, 4 requests, three builds, one network in the flash of the phone's or none, any number of lost links | ownership, order, service |
| `wifi_prov_disconnect` | the same | finding |
| `ble_adv` | 2 failing calls, 4 changes of Zigbee | timing of the cycle, liveness |
| `ble_peripheral` | 2 connection objects, queue of 3, 2 pairings per connection, 1 failing start | roles, pointer, liveness |
| `programs` | numbers: all below 10000, all of 5 to 12 digits made of 0 and 3, 5 decimal parts; 2 tries per test; 2 AWS tasks, 2 updates each; word 1024, rate 32, second 10, up to 70 ticks and 40 cycles; 3 sockets; 3 blocks; 2 SSIDs, 2 passwords | the small programs |
| `session_restart` | 2 blocks | finding |
| `audio_tts` | 2 datagrams, recordings of 2 and 3 units with `Dual` 2, numbers of 1 or 2 items, one failed allocation, one underrun | playback |
| `ble_demo` | RSSI on both sides of -20, 1 failing call, 2 disconnections, 1 very long press per board | connection, LED, reconnection |

Why the bounds are enough. The update has no state that distinguishes a third
command of a boot from a second: the statics are never reset, and two commands are
what it takes to meet a stale one. Files differ in what the code compares: length
against the partition, digest, and the size of the body against a chunk. The window
holds a whole chunk, as a TCP window holds a segment, so that a callback brings one
unit or two, and a header may end inside a chunk or between two. Three
packets are the fewest with a packet that has both a predecessor and a successor.
Two access points and two lengths of password are what `wifi_info` can mix; three
commands are a network that is stored, one that replaces it and one that interrupts
either, and with one power cycle a command may follow it. The long password needs no
more than a connection and a power cycle. Four
requests fill the queue of three while the loop is asleep and go on after it; three
blocks are the two statics and one string under way, so that the heap runs out.
Two connections of the peripheral, one after the other, are what the pointer could
confuse. In a number, the words depend on whether a digit is zero and on its
place, not on which other digit it is, which the exhaustive part confirms. The
clock of the sleep is scaled down because TLC's integers have 32 bits: with 32
cycles in 10 ticks and a word of 1024, a sleep of 34 ticks wraps, and the theorem
covers the real figures. Three blocks are two sessions under way and one more. Two AWS tasks are what it takes for one to find the flag
that another left. Two
datagrams make the second start meet the end of the first.

`CHECK_DEADLOCK FALSE` is given where the program comes to an end (the range test,
the device advisor) or where the bounds on commands, failures or events end it.

### Fairness

Fairness is weak and on what the platform schedules: a task that is ready runs, an
interrupt that is pending is served, the event loop takes its events, and lwIP's
HTTP client ends every connection, since its poll timer closes one that does not
move. The device advisor is a loop of one task, and the pin is looked at by a loop
and a timer. Users, radios, failures and power are never fair. Two exceptions need
strong fairness. The AWS library answers an update, or gives it up, within four
seconds, in one of the yields of the loop (`AwsClient`). And the reconnection of
`BleDemo` needs the radio: a scanning
central that is in range of an advertising peripheral again and again finds it in
the end, and a pending connection to a peripheral that advertises again and again
is made in the end.

## 4. Proofs

Each theorem holds for every value of the constants under the assumptions that its
modules name, which TLC evaluates in every run. The table gives the assumptions that
matter, beyond the types of the constants.

| Theorem | Assumptions that matter | Argument |
|---|---|---|
| `HttpOtaProofs!TypeCorrect` | – | inductive as it stands; lemmas on writes, deliveries and the reboot |
| `HttpOtaProofs!BufferIsSafe` | `BufAssumption`: the rest of a header plus a chunk fits, and two chunks less one byte; a chunk is at most one TCP segment | `BufferSafe` with the type: whatever a failed attempt leaves is less than a header while the header is awaited, and less than a chunk afterwards |
| `HttpOtaProofs!FaultsNeedRetry`, `MissesNoInstall` | the same | `SoleInv`: of a command that is the only one of its boot, where its semaphore, handle and buffer are at each stage, and that every unit received is hashed and written, or in the buffer |
| `HttpOtaProofs!UpdatesSlots`, `UpdatesAreBootable` | `Orderly` (below), a hypothesis on behaviours | `Flow`: one transfer is open, a live buffer belongs to it, and what was hashed is what lies in the slot, or a later file is hashed from its header on |
| `HttpOtaProofs!RunningFirmwareUntouched` | – | a step writes the slot that does not run |
| `HttpOtaProofs!RetriesInstallNothing` | `Marked` (below), a hypothesis on the files | `RetryInv`: while all downloads fit, a later one comes behind what an earlier one left |
| `RangeTestProofs!TypeCorrect`, `CountsOnce` | `SeqAssumption`: fewer packets than sequence numbers | `IInv`: the handshake between task, radio and semaphore bounds the packet in the air, so that the last number counted is never ahead of it; a frame with the number counted last is that packet again |
| `RangeTestProofs!ConsistentReports`, `SkipsNothing` | the same | `Reports` on top of it: what was acknowledged was received, one acknowledgement per packet, and the sum of the signal strengths lies between count times least and count times greatest |
| `OtbrWifiProofs!KeepsPairs` | `PairsAssumption`, `StringAssumption` | the invariant says for each task what RAM and flash hold while it is between two of its calls, in any interleaving, as long as no other task touched the credentials there |
| `OtbrWifiProofs!ConnectsAgain` | `SizeAssumption`: the shortest password accepted is not empty | `Calm`: in a careful environment every report in the queue is about the access point asked for last, one of a lost link is the last in the queue, and what the next address would store belongs to that access point |
| `WifiProvProofs!OwnedOnce` | `DistinctAssumption`: a pair of strings is not a heap block; `NullAssumption` | `IInv`: only the events of SSID and password carry strings; then the number of holders changes with what is posted, taken over and freed |
| `WifiProvProofs!ConnectsAsPosted` | the same | `Strung`: at every connect in the queue, the newest string before it, or the static if there is none, is the one accepted last when it was posted |
| `WifiProvProofs!RequestsFollowed` | the same | `Obeyed`: the newest request in the queue is the last one made, or the station was told it; or the start of the Wi-Fi manager came after it; `LosingOnly`: only a reported loss leaves a station with a network disabled |
| `BlePeripheralProofs!TypeCorrect`, `KeepsOneRole`, `KnowsConnection` | – | one invariant of all three: the type needs `OneRole` (no start while on air), `OneRole` needs `ConnKnown` (one connection at most), and `ConnKnown` needs `OneRole` (no second connection) |
| `AudioTtsProofs!PlaysSeamlessly`, `ForgetsNothing` | `SizeAssumption`: no recording is shorter than half a buffer; `LengthAssumption` | `IInv` (below) |
| `ProgramsProofs!CycleTypeCorrect`, `TimedCycle` | – | `FlagDown`: the flag is down in the part of the handler that arms the timer |
| `ProgramsProofs!FollowsOneConnection`, `LedTells` | – | `DemoInv`: the central does one thing at a time, events that lead to a scan included; its pointer is the link; the newest event that colours the LED tells of the link |
| `ProgramsProofs!NumbersUnderstood` | `NumbersAssumption`: a number has at most 12 digits and no leading zeros, the decimals are a byte | `ReadingInv` (below): what is played is the reading of the number |
| `ProgramsProofs!SleepsInTime` | `ClockAssumption`: the margin is less than the shortest sleep; `Asks`, on FreeRTOS, is part of the model | the remainder of a product is at most the product, and a quotient times its divisor at most the dividend |
| `ProgramsProofs!AdvisorStaysInStep` | `AdvisorAssumption` | inductive with the types of `teststep` and `count` |
| `ProgramsProofs!LeavesNothing` | – | `HttpInv`: what is held at each place of the command |
| `ProgramsProofs!SessionHasOneOwner` | `NullAssumption` | `Phases`: until a clash one task works on the session at a time, and `Phase` says what `gp_index`, the heap and the library hold before each of its steps; a start cannot meet a completion, since a session that runs is that of `gp_index`, which the start checks |
| `ProgramsProofs!KeyFits` | – | `WifiInv`: the stored key was computed from what is stored, unless the user was careless |

In `ProgramsProofs` a step of `Programs` is first shown to be a step of one program
or to leave its variables alone (`Apart`), so that each program has an invariant of
its own.

**Queues.** Three of the components hang on what is still in a queue of events.
`SeqCounting` has the lemmas for it: how the number of elements in a set changes when
one is appended or taken (roles of the peripheral, owners of strings, things the central
is busy with), and which element of a set is the newest before a place, and what
becomes of that when the queue moves (the string in force at a connect, the request to
be followed, the colour of the LED). "When the loop has caught up" is then the case
of an empty queue.

**The refinement.** `UpdatesSlots` proves that every step of `HttpOta` is a step of
`FirmwareSlots` or a stutter, in behaviours that are always `Orderly`: a boot has a second command
only if no download was let go as too large, and no beginning of a served file is
itself the image of a release (`Headed`; images are served behind their header).
Neither half can be left out. A download that was let go goes on beside the next
one, through the same statics, and with enough overlapping commands one file
completes what another began. And since the receive statics are not reset, a second
download of a boot is hashed with its header, against the digest of the first one: a
file that began with a bare image would pass, and the slot would hold it at the
offset where the first download had ended. The run has two commands in a boot, too
few for such an overlap, and headed files, and there TLC checks the refinement without
the hypothesis. Nothing else is assumed of
files or digests: SHA-256 enters as the digest being the sequence hashed. `UpdatesAreBootable` draws the consequence
from the abstract specification alone: unless a flash operation was silently lost,
the slot named by the table holds a whole released image, also after a power cut inside
a write, between the last data and the table, or between the table and the reboot, and
after a table write that failed.

**The retry.** `NoInstallOnRetry` says that a second download of a boot installs
nothing, since the receive statics are not reset. `RetriesInstallNothing` proves it
for every way in which the first download can end, by what the second one finds: a
header that had begun, which the second file's bytes then complete, or the rest of a
chunk, behind which the second file is hashed from its first byte. So what is hashed
is the rest of a file from within its header on, or a few bytes followed by the
beginning of a file (`Trailing`), and neither is an image unless some image contains
a header: that is `Marked`, which the files of the run satisfy. It cannot be left
out: given a file whose image contains a header, TLC finds the second download
installed.

**The number.** Both the loop that makes the words and the sums that value them are
recursive functions, and the library's induction theorems take an operator, which
the provers cannot instantiate. `SetInduction` states induction of a set instead,
from the well-foundedness of the numbers; with it the sums (`TotalStep`) and the
rounds (`RoundsExist`) are unrolled. The invariant of a round is `After`: the words
put in front so far have the value of the digits said so far, one zero stands
between two digits exactly where places are skipped (`Gaps`), and whether the words
begin with a zero is what the flag of the loop says (`State`); `NextRound` has one
case per kind of digit. `ReadingSounds` composes three such sections through the
functions for 10^4 and 10^8, and `Apart3` shows that a listener who cuts at their
words and at the point gets these sections and the fraction back.

**The player.** The invariant of `AudioTts` gives every event a range of places in
all that is to be heard. The items of an event lie in its range, in order, and behind
those that the task has yet to add in front of them; the events wait in order, behind
the one that plays; what was heard last is the item that plays, up to `r_size`, or
comes before all that waits. An event that neither waits nor plays is empty, which is
what `EventOver` in `__next_transfer` and the empty test in `audio_tts_start` achieve
together. The order of what is heard (`~cut`, `Heard`) is kept also by the step in
which task and interrupt meet (`clash`), although the rest is not.
`LengthAssumption` says that there is a longest number, as the code does, and
`NullAssumption` that a null pointer points to nothing.

**Only model-checked.** The liveness properties, since the proof system has no rules
for ENABLED, and fairness needs them: `AdvertisesAgain`, `BackOnAir`,
`CommandReturns`, `Finishes`, `FollowsPin`, `Reconnects` (of the border router and of
`BleDemo`), `Reports`, `SecurityRequested`, `Served`, `SilentInNetwork`, `Spoken` and
`TestsEnd`. Every safety property of a passing run is a theorem. The runs that find a
violation state what is false.

## 5. Findings

* `otbr_long_password`: `wifi_lwip_connect_saved_ssid` compares the length of the
  stored password with the size of the SSID buffer (`wifi_lwip.c:279`). A password
  of 33 to 64 characters is accepted, connects and is saved, and the router never
  connects with it again; the readme says that it will.
* `wifi_prov_disconnect`: `wifi_prov_api_event_trigger_disconnect` posts the event
  that connects (`wifi_prov_api.c:59`), and prints that it triggered a disconnect.
* `session_restart`: `blesync_complete_cb` of `enjoy/ble_sync` frees the session and
  leaves `gp_index` set (`blsync_ble_app.c:43`), so that every later start of the
  boot says "blsync already started" and starts nothing. The copy of the mesh
  completes through its stop, which clears it.

## 6. What could follow

1. **Proofs**: a weaker condition than `Orderly` for the refinement, in
   which the first download may have been let go.
2. **Composition** of `Session` with `WifiProv`, as the task that posts. They share
   no variable: what a session posts when it is stopped is decided by the Bluetooth
   library, which is not in the repository.
3. The word that survives **hibernation** and the **boot counter** of the settings.

## 7. Not covered within the modelled components

* The text of commands, datagrams and headers; a number or a pair is the input.
* Data races inside one C statement: an interrupt is atomic for the task, and the
  task's steps are cut at the calls and assignments that matter to the interrupt.
* The crash between the two writes of a save in the border router is modelled, but
  nothing in the code guards against it, and `PairsKept` excludes it; the same
  holds of the connection pointer read twice by the peripheral's handler.
* Numbers from 10^12 on, which the code prints it does not support.
* Known hazards that no property covers: the peripheral's handler tests `BleConn` and
  uses it four lines later; the mesh's connect event carries a pointer to a structure
  of the Bluetooth library; the receive buffer of `audio_udp` keeps the end of a longer
  datagram (`main.c:497`); a very long press in `bledemo` before the discovery, or
  after the connection has ended, uses an old handle or connection (`ble_appc.c:84`,
  `ble_apps.c:226`), and a second short press starts the stack once more
  (`main.c:89`). The effect of each is inside a library of another repository.
