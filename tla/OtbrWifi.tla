------------------------------ MODULE OtbrWifi ------------------------------
(***************************************************************************)
(* The Wi-Fi backbone of the Thread border router bl702_demo_otbr: the BL702 *)
(* keeps the credentials of its access point in wifi_info (RAM) and in the   *)
(* settings store (flash), and drives a BL602 radio over SPI.  Three tasks   *)
(* meet in wifi_info, which no lock protects: "cli", the command line        *)
(* (wifi_connect, wifi_config); "net", the virtual network callback that     *)
(* saves what worked; and "ot", the OpenThread task that reconnects after    *)
(* the link was lost.  Between any two of the calls they make (memset,       *)
(* strcpy, memcpy, a read or a write of one setting, virt_net_connect_ap)    *)
(* another task may run, and power may be cut.                               *)
(***************************************************************************)
EXTENDS Integers, Sequences

CONSTANTS
  Ssids, Pwds,     \* the names and passwords of networks
  Pairs,           \* what a user may type together
  Key,             \* the password of each access point
  Length,          \* strlen of each password
  SsidSize,        \* sizeof(wifi_info.wifi_ssid), 33
  MinPwd,          \* 8
  MaxCommands,     \* bound: commands
  MaxEvents,       \* bound: events on their way from the radio
  MaxBoots,        \* bound: power cycles
  MaxTorn          \* bound: power cuts between the two writes of a save

Nothing == <<"", "">>       \* cleared by memset
Absent == "absent"          \* a setting that was never stored
Garbled == "garbled"        \* a string copied over the beginning of a longer one

ASSUME PairsAssumption == Pairs \subseteq Ssids \X Pwds
ASSUME KeyAssumption == Key \in [Ssids -> Pwds] /\ Length \in [Pwds \cup {Garbled} -> Nat]
ASSUME StringAssumption == {"", Absent, Garbled} \cap (Ssids \cup Pwds) = {}
ASSUME SizeAssumption == SsidSize \in Nat /\ MinPwd \in Nat \ {0}
ASSUME BoundAssumption == MaxCommands \in Nat /\ MaxEvents \in Nat /\ MaxBoots \in Nat /\ MaxTorn \in Nat

VARIABLES
  info,        \* wifi_info.wifi_ssid and wifi_pwd
  saved,       \* wifi_info.is_wifi_info_saved
  flash,       \* the settings 0xff01 and 0xff02
  pc,          \* the call each task makes next, "idle" when it waits
  arg,         \* the arguments of the command under way, else Nothing
  reconnect,   \* OT_SYSTEM_EVENT_APP_MASK is set
  link,        \* the radio: "off", "connecting" or "up"
  asked,       \* what virt_net_connect_ap was last given
  events,      \* from the radio to virt_net_spi_event_cb
  env,         \* what surrounds the router, chosen once: see Env
  commands, boots, torn, \* counters for the bounds
  lastGood,    \* history, in a careful environment: the credentials that last got an address
  raced,       \* history: a task touched the credentials between the halves of another's
  disturbed    \* history: ... touched them since the reconnection under way began

ram == <<info, saved>>
task == <<pc, arg>>
radio == <<link, asked, events>>
bounds == <<env, commands, boots, torn>>
races == <<raced, disturbed>>
vars == <<ram, flash, task, reconnect, radio, bounds, lastGood, races>>

Tasks == {"cli", "ot", "net"}

\* "any", or "careful": the user lets the router settle before a well-formed command,
\* associating takes longer than the end of cmd_connect, the radio does not report an
\* old link lost that it left for a new one, and power is cut neither in the callback
\* nor in a command.
Env == {"any", "careful"}
Careful == env = "careful"

\* Strlen of a password that may be empty.
Strlen(p) == IF p = "" THEN 0 ELSE Length[p]

\* Mutant: the lower limit is off by one.
UsableLonger(c) == c[1] # "" /\ Strlen(c[2]) > MinPwd /\ Strlen(c[2]) < SsidSize

\* The condition of wifi_lwip_connect_saved_ssid, which compares the length of the
\* password with the size of the SSID.
Usable(c) == c[1] # "" /\ Strlen(c[2]) >= MinPwd /\ Strlen(c[2]) < SsidSize

\* otPlatSettingsGet leaves the buffer alone when the setting is missing.
Load(i) == IF flash[i] = Absent THEN info[i] ELSE flash[i]

\* What a start, or any task that has wifi_info for itself, reads into it.
Half(i) == IF flash[i] = Absent THEN "" ELSE flash[i]
Stored == <<Half(1), Half(2)>>

\* Task t goes on with the call l.
Goes(t, l) == pc' = [pc EXCEPT ![t] = l]
At(t, l) == pc[t] = l

\* Task u has handled one half of the credentials and not yet the other, or relies on
\* having cleared them.
Between(u) == pc[u] \in {"pwd", "load2", "store2", "over1", "over2"}

\* Task t touches the credentials in RAM or in flash, or does not.
Touches(t) ==
  /\ raced' = (raced \/ \E u \in Tasks \ {t} : Between(u))
  /\ disturbed' = (pc'["ot"] # "idle" /\ (disturbed \/ t # "ot"))
TouchesNot ==
  /\ raced' = raced
  /\ disturbed' = (pc'["ot"] # "idle" /\ disturbed)

\* virt_net_connect_ap: the radio leaves its access point for the new one.
Ask(c) ==
  /\ link' = "connecting" /\ asked' = c
  /\ \/ UNCHANGED events
     \/ /\ link = "up" /\ ~Careful /\ Len(events) < MaxEvents
        /\ events' = Append(events, "disconnect")

Init == /\ info = Nothing /\ saved = FALSE /\ flash = <<Absent, Absent>>
        /\ pc = [t \in Tasks |-> "idle"] /\ arg = Nothing /\ reconnect = FALSE
        /\ link = "off" /\ asked = Nothing /\ events = <<>>
        /\ env \in Env /\ commands = 0 /\ boots = 0 /\ torn = 0
        /\ lastGood = Nothing
        /\ raced = FALSE /\ disturbed = FALSE

(***************************************************************************)
(* The command line: each command starts with a memset of wifi_info.       *)
(***************************************************************************)

\* A careful user waits for what is under way, the address of a new link included.
Quiet == /\ link # "connecting" /\ events = <<>> /\ ~reconnect
         /\ At("ot", "idle") /\ At("net", "idle")
         /\ link = "up" => lastGood = asked

\* The user types the next command.
Types == /\ At("cli", "idle") /\ (Careful => Quiet)
         /\ commands < MaxCommands /\ commands' = commands + 1
         /\ UNCHANGED <<env, boots, torn>>

\* The memset of a command that goes on with the call l.
Clears(l) ==
  /\ Types
  /\ info' = Nothing /\ saved' = FALSE
  /\ Goes("cli", l) /\ Touches("cli")
  /\ UNCHANGED <<flash, reconnect, radio>>

CmdConnect(c) ==
  /\ Clears("ask") /\ arg' = c /\ UNCHANGED lastGood

\* wifi_config without arguments shows what is stored, which it loads into wifi_info.
CmdConfigShow ==
  /\ Clears("load1") /\ UNCHANGED <<arg, lastGood>>

\* wifi_config <ssid> <password> stores them without connecting.
CmdConfigSet(c) ==
  /\ Careful => link = "off"
  /\ Clears("over1") /\ arg' = c /\ lastGood' = Nothing

\* An argument that does not fit clears wifi_info all the same, and so does
\* wifi_config with a number of arguments it does not expect.
CmdRefused ==
  /\ ~Careful
  /\ Clears("idle") /\ UNCHANGED <<arg, lastGood>>

CmdDisconnect ==
  /\ Types
  /\ link # "off" /\ Len(events) < MaxEvents
  /\ link' = "off" /\ events' = Append(events, "disconnect")
  /\ UNCHANGED <<ram, flash, task, reconnect, asked, lastGood, races>>

\* cmd_connect hands its arguments to the radio, and copies them afterwards.
ConnectAsk ==
  /\ At("cli", "ask") /\ Goes("cli", "ssid")
  /\ Ask(arg) /\ TouchesNot
  /\ UNCHANGED <<ram, flash, arg, reconnect, bounds, lastGood>>

CopySsid ==
  /\ At("cli", "ssid") /\ Goes("cli", "pwd")
  /\ info' = <<arg[1], info[2]>> /\ Touches("cli")
  /\ UNCHANGED <<saved, flash, arg, reconnect, radio, bounds, lastGood>>

CopyPwd ==
  /\ At("cli", "pwd") /\ Goes("cli", "idle") /\ arg' = Nothing
  /\ info' = <<info[1], arg[2]>> /\ Touches("cli")
  /\ UNCHANGED <<saved, flash, reconnect, radio, bounds, lastGood>>

\* memcpy of a string without its end: what another task left there in the meantime
\* may be longer.
Over(old, new) == IF old \in {"", new} THEN {new} ELSE {new, Garbled}

OverSsid ==
  /\ At("cli", "over1") /\ Goes("cli", "over2")
  /\ \E s \in Over(info[1], arg[1]) : info' = <<s, info[2]>>
  /\ Touches("cli")
  /\ UNCHANGED <<saved, flash, arg, reconnect, radio, bounds, lastGood>>

OverPwd ==
  /\ At("cli", "over2") /\ Goes("cli", "store1")
  /\ \E p \in Over(info[2], arg[2]) : info' = <<info[1], p>>
  /\ Touches("cli")
  /\ UNCHANGED <<saved, flash, arg, reconnect, radio, bounds, lastGood>>

(***************************************************************************)
(* The two reads and the two writes of the settings, by whichever task.    *)
(***************************************************************************)

LoadSsid(t) ==
  /\ At(t, "load1") /\ Goes(t, "load2")
  /\ info' = <<Load(1), info[2]>> /\ Touches(t)
  /\ UNCHANGED <<saved, flash, arg, reconnect, radio, bounds, lastGood>>

LoadPwd(t) ==
  /\ At(t, "load2") /\ Goes(t, IF t = "ot" THEN "check" ELSE "idle")
  /\ info' = <<info[1], Load(2)>> /\ Touches(t)
  /\ UNCHANGED <<saved, flash, arg, reconnect, radio, bounds, lastGood>>

\* Mutant: the password is not stored.
StoreSsidOnly(t) ==
  /\ At(t, "store1") /\ Goes(t, IF t = "net" THEN "mark" ELSE "idle")
  /\ flash' = <<info[1], flash[2]>> /\ Touches(t)
  /\ arg' = (IF t = "cli" THEN Nothing ELSE arg)
  /\ UNCHANGED <<ram, reconnect, radio, bounds, lastGood>>

StoreSsid(t) ==
  /\ At(t, "store1") /\ Goes(t, "store2")
  /\ flash' = <<info[1], flash[2]>> /\ Touches(t)
  /\ UNCHANGED <<ram, arg, reconnect, radio, bounds, lastGood>>

StorePwd(t) ==
  /\ At(t, "store2") /\ Goes(t, IF t = "net" THEN "mark" ELSE "idle")
  /\ flash' = <<flash[1], info[2]>> /\ Touches(t)
  /\ arg' = (IF t = "cli" THEN Nothing ELSE arg)
  /\ UNCHANGED <<ram, reconnect, radio, bounds, lastGood>>

\* is_wifi_info_saved, after a save or before a reconnection.
Mark(t) ==
  /\ At(t, "mark") /\ Goes(t, IF t = "ot" THEN "ask" ELSE "idle")
  /\ saved' = TRUE /\ TouchesNot
  /\ UNCHANGED <<info, flash, arg, reconnect, radio, bounds, lastGood>>

(***************************************************************************)
(* The radio.                                                              *)
(***************************************************************************)

Unhurried == Careful => At("cli", "idle")

Associate ==
  /\ link = "connecting" /\ Unhurried /\ Len(events) < MaxEvents
  /\ IF asked[1] \in Ssids /\ asked[2] = Key[asked[1]]
     THEN link' = "up" /\ events' = Append(events, "connected")
     ELSE link' = "off" /\ events' = Append(events, "disconnect")
  /\ UNCHANGED <<ram, flash, task, reconnect, asked, bounds, lastGood, races>>

\* An address was obtained, or the status of the interface changed again.
Address ==
  /\ link = "up" /\ Unhurried /\ Len(events) < MaxEvents
  /\ events' = Append(events, "gotip")
  /\ UNCHANGED <<ram, flash, task, reconnect, link, asked, bounds, lastGood, races>>

Lose ==
  /\ link = "up" /\ Unhurried /\ Len(events) < MaxEvents
  /\ link' = "off" /\ events' = Append(events, "disconnect")
  /\ UNCHANGED <<ram, flash, task, reconnect, asked, bounds, lastGood, races>>

(***************************************************************************)
(* virt_net_spi_event_cb, which handles one event after the other.         *)
(***************************************************************************)

Takes(kind) ==
  /\ At("net", "idle") /\ events # <<>> /\ Head(events) = kind
  /\ events' = Tail(events)

OnConnected ==
  /\ Takes("connected")
  /\ UNCHANGED <<ram, flash, task, reconnect, link, asked, bounds, lastGood, races>>

\* Mutant: the OpenThread task is not told.
OnDisconnectQuiet ==
  /\ Takes("disconnect")
  /\ UNCHANGED <<ram, flash, task, reconnect, link, asked, bounds, lastGood, races>>

OnDisconnect ==
  /\ Takes("disconnect") /\ reconnect' = TRUE
  /\ UNCHANGED <<ram, flash, task, link, asked, bounds, lastGood, races>>

\* Up to the test of is_wifi_info_saved.
OnGotIp ==
  /\ Takes("gotip")
  /\ Goes("net", IF saved THEN "idle" ELSE "store1") /\ TouchesNot
  /\ lastGood' = (IF Careful THEN asked ELSE Nothing)
  /\ UNCHANGED <<ram, flash, arg, reconnect, link, asked, bounds>>

(***************************************************************************)
(* The OpenThread task: wifi_lwip_connect_saved_ssid.                      *)
(***************************************************************************)

\* otrAppProcess, and the memset.
Reconnect ==
  /\ reconnect /\ reconnect' = FALSE
  /\ At("ot", "idle") /\ Goes("ot", "load1")
  /\ info' = Nothing /\ saved' = FALSE /\ Touches("ot")
  /\ UNCHANGED <<flash, arg, radio, bounds, lastGood>>

Check ==
  /\ At("ot", "check") /\ Goes("ot", IF Usable(info) THEN "mark" ELSE "clear")
  /\ TouchesNot
  /\ UNCHANGED <<ram, flash, arg, reconnect, radio, bounds, lastGood>>

\* It asks for what wifi_info holds now.
ReconnectAsk ==
  /\ At("ot", "ask") /\ Goes("ot", "idle")
  /\ Ask(info) /\ TouchesNot
  /\ UNCHANGED <<ram, flash, arg, reconnect, bounds, lastGood>>

Clear ==
  /\ At("ot", "clear") /\ Goes("ot", "idle")
  /\ info' = Nothing /\ saved' = FALSE /\ Touches("ot")
  /\ UNCHANGED <<flash, arg, reconnect, radio, bounds, lastGood>>

(***************************************************************************)
(* Power.                                                                  *)
(***************************************************************************)

\* Hardware reset of the radio, and wifi_lwip_init, before any task runs.
PowerOn ==
  /\ pc' = [t \in Tasks |-> "idle"] /\ arg' = Nothing
  /\ reconnect' = FALSE /\ events' = <<>> /\ disturbed' = FALSE
  /\ IF Usable(Stored)
     THEN info' = Stored /\ saved' = TRUE /\ link' = "connecting" /\ asked' = Stored
     ELSE info' = Nothing /\ saved' = FALSE /\ link' = "off" /\ asked' = Nothing

\* The SSID has been stored and the password has not.
MidSave == \E t \in Tasks : At(t, "store2")

PowerCycle ==
  /\ Careful => At("cli", "idle") /\ At("net", "idle")
  /\ boots < MaxBoots /\ boots' = boots + 1
  /\ IF MidSave THEN torn < MaxTorn /\ torn' = torn + 1 ELSE torn' = torn
  /\ PowerOn
  /\ UNCHANGED <<flash, env, commands, lastGood, raced>>

User == \/ \E c \in Pairs : CmdConnect(c) \/ CmdConfigSet(c)
        \/ CmdRefused \/ CmdConfigShow \/ CmdDisconnect
Command == ConnectAsk \/ CopySsid \/ CopyPwd \/ OverSsid \/ OverPwd
Settings(t) == LoadSsid(t) \/ LoadPwd(t) \/ StoreSsid(t) \/ StorePwd(t) \/ Mark(t)
Callback == OnConnected \/ OnDisconnect \/ OnGotIp
OpenThread == Reconnect \/ Check \/ ReconnectAsk \/ Clear
Next == \/ User \/ Command \/ Callback \/ OpenThread
        \/ \E t \in Tasks : Settings(t)
        \/ Associate \/ Address \/ Lose
        \/ PowerCycle

Spec == Init /\ [][Next]_vars

\* The callback and the OpenThread task run when they have something to do.
FairSpec == /\ Spec
            /\ WF_vars(Callback \/ Settings("net"))
            /\ WF_vars(OpenThread \/ Settings("ot"))

(***************************************************************************)
(* Properties.                                                             *)
(***************************************************************************)

\* What is stored belongs together, or was cleared together, except while a task is
\* between its two writes.  No event, in whatever order, mixes two networks as long as no
\* task touches the credentials between the two halves of another's copy, read or save,
\* and no power cut falls between the two writes.
PairsKept == torn = 0 /\ ~raced /\ ~MidSave => Stored \in Pairs \cup {Nothing}

\* After the link was lost the router tries the stored access point again, unless that is
\* unusable, was replaced in the meantime, or another task touches the credentials while
\* the OpenThread task reads them and asks.
Reconnects ==
  (link = "off" /\ Usable(Stored) /\ (reconnect \/ events # <<>>))
     ~> (link # "off" \/ ~Usable(Stored) \/ disturbed)

\* In a careful environment an access point with which the router connected is the one
\* it connects to after a power cycle, if its password has 8 to 32 characters.
AutoConnectUsable ==
  [][boots' > boots /\ Careful /\ Strlen(lastGood[2]) \in MinPwd..SsidSize - 1
     => link' = "connecting" /\ asked' = lastGood]_vars

\* What readme.md says: there, that is so for every access point.
AutoConnect ==
  [][boots' > boots /\ Careful
     => \/ lastGood = Nothing
        \/ link' = "connecting" /\ asked' = lastGood]_vars
=============================================================================
