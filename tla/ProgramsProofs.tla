---------------------------- MODULE ProgramsProofs ----------------------------
(***************************************************************************)
(* What holds of the small programs whatever their constants are.  A step   *)
(* of Programs is a step of one program or leaves the program's variables   *)
(* alone, so that each program has an invariant of its own.                 *)
(***************************************************************************)
EXTENDS Programs, SeqCounting, WellFoundedInduction

\* A step is one of a program, or none of its variables changes.
LEMMA Apart ==
  ASSUME [Next]_vars
  PROVE  /\ RunReading \/ UNCHANGED reading
         /\ RunAdvisor \/ UNCHANGED advisor
         /\ RunIdle \/ UNCHANGED idle
         /\ RunHttp \/ UNCHANGED http
         /\ RunSync \/ UNCHANGED sync
         /\ RunWifi \/ UNCHANGED wifi
         /\ RunCycle \/ UNCHANGED cycle
         /\ RunDemo \/ UNCHANGED demo
BY DEF Next, vars, RunReading, RunAdvisor, RunAws, RunIdle, RunPower, RunHttp, RunSync, RunWifi,
       RunCycle, RunDemo

(***************************************************************************)
(* The sleep of the idle task.                                             *)
(***************************************************************************)

\* A product grows with its factor.
LEMMA Grows == ASSUME NEW a \in Nat, NEW b \in Nat, NEW k \in Nat, a <= b
               PROVE  k * a <= k * b
<1>1. PICK d \in Nat : b = a + d
  <2>1. b - a \in Nat /\ b = a + (b - a)
    OBVIOUS
  <2> QED BY <2>1
<1>2. k * b = k * a + k * d /\ k * d \in Nat /\ k * a \in Nat
  BY <1>1
<1> QED BY <1>2

\* The cycles computed never exceed the time that is left, even if the product wrapped.
LEMMA CyclesBound ==
  ASSUME NEW ms \in Nat, ms >= 1
  PROVE  Idle!Cycles(ms) \in Nat /\ Second * Idle!Cycles(ms) <= Rate * (ms - 1)
<1> DEFINE product == Rate * (ms - 1)
           word == product % Word
<1>1. product \in Nat
  BY ClockAssumption
<1>2. word \in Nat /\ word <= product
  <2> HIDE DEF product
  <2> QED BY <1>1, ClockAssumption
<1>3. word \div Second \in Nat /\ Second * (word \div Second) <= word
  <2> HIDE DEF word
  <2> QED BY <1>2, ClockAssumption
<1>4. Idle!Cycles(ms) = word \div Second
  BY DEF Idle!Cycles
<1>5. Second * (word \div Second) \in Nat
  <2> HIDE DEF word
  <2> QED BY <1>3, ClockAssumption
<1> HIDE DEF product, word
<1> QED BY <1>1, <1>2, <1>3, <1>4, <1>5 DEF product

\* A sleep that is entered ends in time, whatever was asked for.
LEMMA SleepInTime ==
  ASSUME NEW ms \in 0..MaxIdle, NEW ble \in 0..MaxBle, NEW status \in Idle!Statuses,
         Idle!Asks(ms, status), Idle!Sleep(ms, ble, status)
  PROVE  WakesInTime'
<1>1. ms \in Nat /\ ble \in Nat /\ (ms # 0 => ms >= 1) /\ expected' = ms /\ bleSleep' = ble
  BY ClockAssumption DEF Idle!Sleep
<1>2. SUFFICES ASSUME slept' # 0
               PROVE  /\ slept' > 0 /\ slept' + Margin <= ble
                      /\ ms # 0 => Second * (slept' + Margin) <= Rate * (ms - 1)
  BY <1>1 DEF WakesInTime, Idle!WakesInTime
<1> DEFINE cycles == Idle!Cycles(ms)
<1>3. /\ ms = 0 \/ cycles >= Enough
      /\ ble >= Enough
      /\ slept' = (IF ms # 0 /\ cycles < ble THEN cycles ELSE ble) - Margin
  BY <1>2 DEF Idle!Sleep, Idle!Asks, Idle!Statuses
<1>4. CASE ms = 0
  BY <1>1, <1>3, <1>4, ClockAssumption
<1>5. CASE ms # 0
  <2>1. cycles \in Nat /\ Second * cycles <= Rate * (ms - 1)
    BY <1>1, <1>5, CyclesBound
  <2> HIDE DEF cycles
  <2>2. slept' \in Nat /\ slept' > 0 /\ slept' + Margin <= ble /\ slept' + Margin <= cycles
        /\ slept' + Margin \in Nat
    BY <1>1, <1>3, <1>5, <2>1, ClockAssumption
  <2>3. Second * (slept' + Margin) <= Second * cycles
    BY <2>1, <2>2, Grows, ClockAssumption
  <2>4. Second * (slept' + Margin) \in Int /\ Second * cycles \in Int /\ Rate * (ms - 1) \in Int
    BY <1>1, <2>1, <2>2, ClockAssumption
  <2> QED BY <2>1, <2>2, <2>3, <2>4
<1> QED BY <1>4, <1>5

\* vApplicationSleep sleeps past no deadline, for every clock, word and margin: the
\* product may wrap, which only makes a sleep shorter.
THEOREM SleepsInTime == Spec => []WakesInTime
<1>1. Init => WakesInTime
  BY DEF Init, Idle!Init, WakesInTime, Idle!WakesInTime
<1>2. WakesInTime /\ [Next]_vars => WakesInTime'
  <2> SUFFICES ASSUME WakesInTime, [Next]_vars PROVE WakesInTime'
    OBVIOUS
  <2>1. CASE RunIdle
    BY <2>1, SleepInTime DEF RunIdle, Idle!Next
  <2>2. CASE UNCHANGED idle
    BY <2>2 DEF idle, WakesInTime, Idle!WakesInTime
  <2> QED BY <2>1, <2>2, Apart
<1> QED BY <1>1, <1>2, PTL DEF Spec

(***************************************************************************)
(* The tests of the device advisor.                                        *)
(***************************************************************************)

AdvisorSteps == Advisor!MqttTests \cup Advisor!TlsTests \cup Advisor!Sends
                \cup {"WAIT_MQTT_DISCONNECT", "IDLE", "ABORTED"}
AdvisorInv == InStep /\ teststep \in AdvisorSteps /\ count \in Nat

\* Giving up leaves the machines in step, and so does trying again.
LEMMA FailedInStep ==
  ASSUME AdvisorInv, NEW stop, NEW mqttStop, Advisor!Failed(stop, mqttStop)
  PROVE  \/ /\ count' \in Nat /\ count' < TEST_STEP_RETRY_COUNT
            /\ teststep' = teststep /\ mqttstep' = mqttstep
         \/ /\ count' = 0 /\ 0 < TEST_STEP_RETRY_COUNT
            /\ teststep' = stop /\ mqttstep' = mqttStop
BY AdvisorAssumption DEF AdvisorInv, Advisor!Failed

\* teststep and mqttstep of aws_device_advisor_entry stay in step, and no test starts over
\* the connection of another, however often a step is tried.
THEOREM AdvisorStaysInStep == Spec => []InStep
<1> USE DEF AdvisorInv, AdvisorSteps, InStep, Advisor!InStep, Advisor!MqttTests,
            Advisor!TlsTests, Advisor!Sends
<1>1. Init => AdvisorInv
  BY AdvisorAssumption DEF Init, Advisor!Init
<1>2. AdvisorInv /\ [Next]_vars => AdvisorInv'
  <2> SUFFICES ASSUME AdvisorInv, [Next]_vars PROVE AdvisorInv'
    OBVIOUS
  <2>1. CASE Advisor!MqttConnectFails
    BY <2>1, FailedInStep DEF Advisor!MqttConnectFails
  <2>2. CASE Advisor!TlsRefused
    BY <2>2 DEF Advisor!TlsRefused
  <2>3. CASE Advisor!MqttConnected
    BY <2>3, AdvisorAssumption DEF Advisor!MqttConnected
  <2>4. CASE Advisor!TlsAccepted
    BY <2>4, AdvisorAssumption DEF Advisor!TlsAccepted
  <2>5. CASE Advisor!Sent
    BY <2>5 DEF Advisor!Sent
  <2>6. CASE Advisor!SendFails
    BY <2>6, FailedInStep DEF Advisor!SendFails
  <2>7. CASE Advisor!WaitDisconnect
    BY <2>7 DEF Advisor!WaitDisconnect
  <2>8. CASE Advisor!LoseConnection
    BY <2>8 DEF Advisor!LoseConnection
  <2>9. CASE UNCHANGED advisor
    BY <2>9 DEF advisor
  <2> QED
    BY <2>1, <2>2, <2>3, <2>4, <2>5, <2>6, <2>7, <2>8, <2>9, Apart
    DEF RunAdvisor, Advisor!Next, Advisor!Round
<1>3. AdvisorInv => InStep
  OBVIOUS
<1> HIDE DEF AdvisorInv, InStep
<1> QED BY <1>1, <1>2, <1>3, PTL DEF Spec

(***************************************************************************)
(* The HTTP downloads.                                                     *)
(***************************************************************************)

\* What the command line holds depends on where it is.
HttpInv ==
  /\ shell \in {"idle", "connect", "read", "close", "asked"}
  /\ abandoned \in Nat
  /\ inUse = abandoned + (IF shell \in {"connect", "read", "close"} THEN 1 ELSE 0)
  /\ buffer <=> shell = "read"
  /\ asked <=> shell = "asked"
  /\ transfer => req \/ asked

\* client_demo leaves nothing behind but the sockets it abandons when a connect fails, and
\* cmd_httpc_test never has two transfers, whenever the first ends.
THEOREM LeavesNothing == Spec => []NothingLeft
<1> USE DEF HttpInv
<1>1. Init => HttpInv
  BY DEF Init, Http!Init
<1>2. HttpInv /\ [Next]_vars => HttpInv'
  <2> SUFFICES ASSUME HttpInv, [Next]_vars PROVE HttpInv'
    OBVIOUS
  <2> USE DEF Http!raw
  <2>1. CASE Http!Http
    BY <2>1 DEF Http!Http
  <2>2. CASE Http!Connect
    BY <2>2 DEF Http!Connect
  <2>3. CASE Http!Read
    BY <2>3 DEF Http!Read
  <2>4. CASE Http!Close
    BY <2>4 DEF Http!Close
  <2>5. CASE Http!Httpc
    BY <2>5 DEF Http!Httpc
  <2>6. CASE Http!Asked
    BY <2>6 DEF Http!Asked
  <2>7. CASE Http!Result
    BY <2>7 DEF Http!Result
  <2>8. CASE UNCHANGED http
    BY <2>8 DEF http
  <2> QED
    BY <2>1, <2>2, <2>3, <2>4, <2>5, <2>6, <2>7, <2>8, Apart DEF RunHttp, Http!Next
<1>3. HttpInv => NothingLeft
  BY DEF NothingLeft, Http!NothingLeft
<1> HIDE DEF HttpInv
<1> QED BY <1>1, <1>2, <1>3, PTL DEF Spec

(***************************************************************************)
(* The provisioning session.                                               *)
(***************************************************************************)

\* What a task can be in the middle of.
Making == [op : {"make"}, step : {"malloc", "enable", "run"}, p : {NULL}]
Ending == [op : {"stop", "complete"}, step : {"check", "halt", "free", "clear"}, p : {NULL}]
Completing == [op : {"complete"}, step : {"halt", "free"}, p : Blocks]
Both == {"loop", "bt"}

SyncType ==
  /\ variant \in Sync!Variants /\ gp_index \in Blocks \cup {NULL}
  /\ live \subseteq Blocks /\ running \subseteq Blocks
  /\ doing \in [Both -> {Sync!Nothing} \cup Making \cup Ending \cup Completing]
  /\ \A t \in Both : /\ doing[t].op = "complete" =>
                          t = "bt" /\ completed /\ (doing[t].p = NULL => variant.clears)
                     /\ doing[t].step = "check" => variant.clears
                     /\ doing[t].p # NULL => ~variant.clears

\* The session between the operations.
Kept == /\ running = live /\ live \subseteq {gp_index}
        /\ variant.clears \/ ~completed => live = {gp_index} \ {NULL}

\* The session in the middle of w, of a copy that checks its start and of the border
\* router's.
Phase(w) ==
  IF variant.checksStart
  THEN /\ w.step # "enable"
       /\ w.step = "none" => Kept
       /\ w.step = "malloc" => gp_index = NULL /\ live = {} /\ running = {}
       /\ w.step = "run" => gp_index # NULL /\ live = {gp_index} /\ running = {}
       /\ w.step \in {"check", "halt"} =>
            Kept /\ (w.p # NULL => w.p \in running) /\ (variant.checksStop => gp_index # NULL)
       /\ w.step = "free" =>
            running = {} /\ gp_index # NULL /\ live = {gp_index} /\ (w.p # NULL => w.p = gp_index)
       /\ w.step = "clear" => live = {} /\ running = {} /\ gp_index # NULL
  ELSE /\ w.step = "none" => gp_index \in live \cup {NULL}
       /\ w.step \in {"enable", "run", "halt", "free"} => gp_index \in live

\* As long as nothing broke the session, one task works on it at a time.
Trusted == ~clash /\ ~misused /\ (variant.checksStart \/ ~completed)
Phases == Trusted => \E t \in Both : Sync!Free(Sync!Other(t)) /\ Phase(doing[t])
Unharmed == ~clash /\ variant.checksStop /\ (variant.clears \/ ~completed) => ~misused

SyncInv == SyncType /\ Phases /\ Unharmed

\* Of the copies: the one that clears gp_index checks both commands, and one that does not
\* check its start checks its stop.
LEMMA CopyFacts ==
  ASSUME variant \in Sync!Variants
  PROVE  /\ variant.clears => variant.checksStart /\ variant.checksStop
         /\ variant.checksStart \in BOOLEAN /\ variant.checksStop \in BOOLEAN
         /\ variant.clears \in BOOLEAN
         /\ ~variant.checksStart => variant.checksStop
<1> USE DEF Sync!Copy
<1>1. CASE variant = Sync!BleSync
  BY <1>1 DEF Sync!BleSync
<1>2. CASE variant = Sync!Mesh
  BY <1>2 DEF Sync!Mesh
<1>3. CASE variant = Sync!Zigbee
  BY <1>3 DEF Sync!Zigbee
<1>4. CASE variant = Sync!BorderRouter
  BY <1>4 DEF Sync!BorderRouter
<1> QED BY <1>1, <1>2, <1>3, <1>4 DEF Sync!Variants

\* A task in the middle of something is free of nothing else.
LEMMA AtWork ==
  ASSUME SyncType, NEW t \in Both
  PROVE  /\ Sync!Free(t) <=> doing[t].step = "none"
         /\ Sync!Free(t) <=> doing[t].op = "none"
         /\ doing[t].p \in Blocks \cup {NULL}
         /\ Sync!Other(t) \in Both /\ Sync!Other(t) # t /\ Sync!Other(Sync!Other(t)) = t
BY DEF SyncType, Both, Sync!Free, Sync!Nothing, Sync!Other, Making, Ending, Completing

\* While a session is sound, the other task waits for the one that works on it.
LEMMA Turn ==
  ASSUME SyncInv, Trusted, NEW t \in Both, ~Sync!Free(t)
  PROVE  Sync!Free(Sync!Other(t)) /\ Phase(doing[t])
<1>1. PICK s \in Both : Sync!Free(Sync!Other(s)) /\ Phase(doing[s])
  BY DEF SyncInv, Phases
<1>2. s = t
  BY <1>1 DEF Both, Sync!Other
<1> QED BY <1>1, <1>2

Works == {Sync!Nothing} \cup Making \cup Ending \cup Completing

\* Task t is now in the middle of w.
LEMMA Turned ==
  ASSUME SyncType, NEW t \in Both, NEW w \in Works, doing' = [doing EXCEPT ![t] = w],
         variant' = variant, gp_index' \in Blocks \cup {NULL},
         live' \subseteq Blocks, running' \subseteq Blocks, completed => completed',
         w.op = "complete" => t = "bt" /\ completed' /\ (w.p = NULL => variant.clears),
         w.step = "check" => variant.clears, w.p # NULL => ~variant.clears
  PROVE  SyncType' /\ doing'[t] = w /\ doing'[Sync!Other(t)] = doing[Sync!Other(t)]
<1>1. doing'[t] = w /\ \A s \in Both : s # t => doing'[s] = doing[s]
  BY DEF SyncType
<1>2. doing' \in [Both -> Works]
  BY DEF SyncType, Works
<1>3. \A s \in Both : /\ doing'[s].op = "complete" =>
                           s = "bt" /\ completed' /\ (doing'[s].p = NULL => variant'.clears)
                      /\ doing'[s].step = "check" => variant'.clears
                      /\ doing'[s].p # NULL => ~variant'.clears
  <2> SUFFICES ASSUME NEW s \in Both
               PROVE  /\ doing'[s].op = "complete" =>
                          s = "bt" /\ completed' /\ (doing'[s].p = NULL => variant'.clears)
                      /\ doing'[s].step = "check" => variant'.clears
                      /\ doing'[s].p # NULL => ~variant'.clears
    OBVIOUS
  <2>1. CASE s = t
    BY <1>1, <2>1
  <2>2. CASE s # t
    BY <1>1, <2>2 DEF SyncType
  <2> QED BY <2>1, <2>2
<1>4. Sync!Other(t) \in Both /\ Sync!Other(t) # t
  BY AtWork
<1> QED BY <1>1, <1>2, <1>3, <1>4 DEF SyncType, Works

\* Its invariant, once the session is as w says.
LEMMA Handed ==
  ASSUME SyncInv, SyncType', NEW t \in Both, NEW w, doing'[t] = w,
         doing'[Sync!Other(t)] = doing[Sync!Other(t)],
         Trusted' => Sync!Free(Sync!Other(t)) /\ Phase(w)', Unharmed'
  PROVE  SyncInv'
<1>1. Trusted' => doing'[Sync!Other(t)] = Sync!Nothing /\ Phase(doing[t])'
  BY DEF Sync!Free, Phase
<1>2. Phases'
  BY <1>1 DEF Phases, Sync!Free
<1> QED BY <1>2 DEF SyncInv

\* Where a task goes next.
LEMMA Moved ==
  ASSUME SyncType, NEW t \in Both, NEW s, Sync!Goto(t, s)
  PROVE  doing' = [doing EXCEPT ![t] = [op |-> doing[t].op, step |-> s, p |-> doing[t].p]]
<1>1. doing[t] \in Works /\ doing \in [Both -> Works]
  BY DEF SyncType, Works
<1>2. [doing[t] EXCEPT !.step = s] = [op |-> doing[t].op, step |-> s, p |-> doing[t].p]
  BY <1>1 DEF Works, Making, Ending, Completing, Sync!Nothing
<1>3. doing' = [doing EXCEPT ![t] = [doing[t] EXCEPT !.step = s]]
  BY <1>1 DEF Sync!Goto
<1> QED BY <1>2, <1>3

\* The kinds of work.
LEMMA WorkOf ==
  ASSUME SyncType, NEW t \in Both
  PROVE  /\ doing[t].step \in {"malloc", "enable", "run"} => doing[t] \in Making
         /\ doing[t].step = "check" => doing[t] \in Ending
         /\ doing[t].step = "clear" => doing[t] \in Ending
         /\ doing[t].step \in {"halt", "free"} => doing[t] \in Ending \cup Completing
         /\ doing[t].p # NULL => doing[t] \in Completing
<1>1. doing[t] \in Works
  BY DEF SyncType, Works
<1> QED BY <1>1, NullAssumption DEF Works, Making, Ending, Completing, Sync!Nothing

-----------------------------------------------------------------------------
\* Memory, or none, for a session.
LEMMA MallocKeeps ==
  ASSUME SyncInv, ~misused, NEW t \in Both, Sync!Malloc(t) PROVE SyncInv'
<1>0. SyncType /\ doing[t].step = "malloc" /\ doing[t] \in Making /\ ~Sync!Free(t)
  BY WorkOf, AtWork DEF SyncInv, Sync!Malloc, Sync!At
<1>1. UNCHANGED <<variant, running, completed, misused, clash>>
  BY DEF Sync!Malloc, Sync!Goto, Sync!Return
<1>2. Unharmed'
  BY <1>1 DEF SyncInv, Unharmed
<1>3. Trusted' => Trusted /\ Sync!Free(Sync!Other(t)) /\ Phase(doing[t])
  BY <1>0, <1>1, Turn DEF Trusted
<1>4. ASSUME NEW b \in Blocks \ live, gp_index' = b, live' = live \cup {b},
             Sync!Goto(t, IF variant.checksStart THEN "run" ELSE "enable")
      PROVE  SyncInv'
  <2>1. PICK w : w = [op |-> "make", step |-> IF variant.checksStart THEN "run" ELSE "enable", p |-> NULL]
    OBVIOUS
  <2>2. w \in Making /\ w.op = "make" /\ w.p = NULL
        /\ w.step = (IF variant.checksStart THEN "run" ELSE "enable")
    BY <2>1 DEF Making
  <2>3. doing' = [doing EXCEPT ![t] = w]
    <3>1. doing[t].op = "make" /\ doing[t].p = NULL
      BY <1>0 DEF Making
    <3> QED BY <1>0, <1>4, <2>1, <3>1, Moved
  <2>4. w \in Works /\ gp_index' \in Blocks \cup {NULL} /\ live' \subseteq Blocks
        /\ running' \subseteq Blocks
    BY <1>1, <1>4, <2>2 DEF Works, SyncInv, SyncType
  <2>5. SyncType' /\ doing'[t] = w /\ doing'[Sync!Other(t)] = doing[Sync!Other(t)]
    BY <1>0, <1>1, <2>2, <2>3, <2>4, Turned
  <2>6. Trusted' => Phase(w)'
    <3> SUFFICES ASSUME Trusted' PROVE Phase(w)'
      OBVIOUS
    <3>1. CASE variant.checksStart
      <4>1. live = {} /\ running = {}
        BY <1>0, <1>3, <3>1 DEF Phase
      <4> QED BY <1>1, <1>4, <2>2, <3>1, <4>1, NullAssumption DEF Phase
    <3>2. CASE ~variant.checksStart
      BY <1>1, <1>4, <2>2, <3>2 DEF Phase
    <3> QED BY <3>1, <3>2
  <2> QED BY <1>2, <1>3, <2>5, <2>6, Handed
<1>5. ASSUME gp_index' = NULL, live' = live, Sync!Return(t) PROVE SyncInv'
  <2>1. PICK w : w = Sync!Nothing
    OBVIOUS
  <2>2. w \in Works /\ w.step = "none" /\ w.op = "none" /\ w.p = NULL
    BY <2>1 DEF Works, Sync!Nothing
  <2>3. gp_index' \in Blocks \cup {NULL} /\ live' \subseteq Blocks /\ running' \subseteq Blocks
    BY <1>1, <1>5 DEF SyncInv, SyncType
  <2>4. SyncType' /\ doing'[t] = w /\ doing'[Sync!Other(t)] = doing[Sync!Other(t)]
    <3>1. doing' = [doing EXCEPT ![t] = w]
      BY <1>5, <2>1 DEF Sync!Return
    <3> QED BY <1>0, <1>1, <2>2, <2>3, <3>1, Turned
  <2>5. Trusted' => Phase(w)'
    BY <1>0, <1>1, <1>3, <1>5, <2>2 DEF Phase, Kept
  <2> QED BY <1>2, <1>3, <2>4, <2>5, Handed
<1> QED BY <1>4, <1>5 DEF Sync!Malloc

\* The library is handed a session.
LEMMA RunKeeps ==
  ASSUME SyncInv, ~misused, NEW t \in Both, Sync!Run(t) \/ Sync!Enable(t) PROVE SyncInv'
<1>0. SyncType /\ doing[t].step \in {"run", "enable"} /\ doing[t] \in Making /\ ~Sync!Free(t)
  BY WorkOf, AtWork DEF SyncInv, Sync!Run, Sync!Enable, Sync!At
<1>1. UNCHANGED <<variant, gp_index, live, completed, clash>> /\ Sync!Return(t)
  BY DEF Sync!Run, Sync!Enable, Sync!Return, Sync!session
<1>2. /\ doing[t].step = "run" => /\ running' = running \cup ({gp_index} \ {NULL})
                                 /\ misused' = (misused \/ gp_index \notin live)
      /\ doing[t].step = "enable" => running' = running /\ misused' = misused
  BY DEF Sync!Run, Sync!Enable, Sync!At, Sync!session
<1>3. misused' => doing[t].step = "run" /\ gp_index \notin live
  BY <1>0, <1>2
<1>4. Trusted => Sync!Free(Sync!Other(t)) /\ Phase(doing[t])
  BY <1>0, Turn
<1>5. Trusted => ~misused'
  BY <1>0, <1>3, <1>4 DEF Phase
<1>6. Unharmed'
  <2>1. ~clash /\ (variant.clears \/ ~completed) => Trusted
    BY <1>0, CopyFacts DEF Trusted, SyncType
  <2> QED BY <1>1, <1>5, <2>1 DEF Unharmed
<1>7. PICK w : w = Sync!Nothing
  OBVIOUS
<1>8. w \in Works /\ w.step = "none" /\ w.op = "none" /\ w.p = NULL
  BY <1>7 DEF Works, Sync!Nothing
<1>9. SyncType' /\ doing'[t] = w /\ doing'[Sync!Other(t)] = doing[Sync!Other(t)]
  <2>1. gp_index' \in Blocks \cup {NULL} /\ live' \subseteq Blocks /\ running' \subseteq Blocks
    BY <1>0, <1>1, <1>2 DEF SyncType
  <2>2. doing' = [doing EXCEPT ![t] = w]
    BY <1>1, <1>7 DEF Sync!Return
  <2> QED BY <1>0, <1>1, <1>8, <2>1, <2>2, Turned
<1>10. Trusted' => Trusted
  BY <1>1, <1>2 DEF Trusted
<1>11. Trusted' => Phase(w)'
  <2> SUFFICES ASSUME Trusted' PROVE Phase(w)'
    OBVIOUS
  <2>0. Phase(doing[t])
    BY <1>4, <1>10
  <2>1. CASE variant.checksStart
    <3>1. doing[t].step = "run" /\ gp_index # NULL /\ live = {gp_index} /\ running = {}
      BY <1>0, <2>0, <2>1 DEF Phase
    <3>2. running' = {gp_index}
      BY <1>2, <3>1
    <3> QED BY <1>1, <1>8, <2>1, <3>1, <3>2 DEF Phase, Kept
  <2>2. CASE ~variant.checksStart
    BY <1>0, <1>1, <1>8, <2>0, <2>2 DEF Phase
  <2> QED BY <2>1, <2>2
<1> QED BY <1>4, <1>6, <1>9, <1>10, <1>11, Handed

\* Between the operations.
LEMMA Between ==
  ASSUME SyncInv, Trusted, NEW t \in Both, Sync!Free(t), Sync!Free(Sync!Other(t))
  PROVE  /\ variant.checksStart => Kept
         /\ ~variant.checksStart => gp_index \in live \cup {NULL}
<1>1. PICK s \in Both : Phase(doing[s])
  BY DEF SyncInv, Phases
<1>2. doing[s].step = "none"
  BY DEF Both, Sync!Free, Sync!Other, Sync!Nothing
<1> QED BY <1>1, <1>2 DEF Phase

\* Nothing that matters changes.
LEMMA Same ==
  ASSUME SyncInv, UNCHANGED <<variant, gp_index, live, running, doing, clash, completed, misused>>
  PROVE  SyncInv'
<1>1. SyncType' /\ Unharmed' /\ (Trusted' => Trusted)
  BY DEF SyncInv, SyncType, Unharmed, Trusted
<1>2. ASSUME NEW s \in Both, Sync!Free(Sync!Other(s)), Phase(doing[s])
      PROVE  Sync!Free(Sync!Other(s))' /\ Phase(doing[s])'
  <2>1. PICK w : w = doing[s]
    OBVIOUS
  <2>2. Phase(w)'
    BY <1>2, <2>1 DEF Phase, Kept
  <2>3. Phase(doing[s])'
    BY <2>1, <2>2
  <2> QED BY <1>2, <2>3 DEF Sync!Free
<1>3. Phases'
  BY <1>1, <1>2 DEF SyncInv, Phases
<1> QED BY <1>1, <1>3 DEF SyncInv

\* A task begins w; it may meet an operation of the other task only if a start meets a
\* completion, and that breaks nothing that was sound.
LEMMA Begun ==
  ASSUME SyncInv, NEW t \in Both, Sync!Free(t), NEW w \in Works,
         Sync!Begin(t, w.op, w.step, w.p),
         w = [op |-> w.op, step |-> w.step, p |-> w.p],
         UNCHANGED <<variant, gp_index, live, running, misused>>, completed => completed',
         w.op = "complete" => t = "bt" /\ completed' /\ (w.p = NULL => variant.clears),
         w.step = "check" => variant.clears, w.p # NULL => ~variant.clears,
         Trusted' /\ (variant.checksStart => Kept)
                  /\ (~variant.checksStart => gp_index \in live \cup {NULL}) => Phase(w)',
         Trusted' /\ Phase(doing[Sync!Other(t)]) => {w.op, doing[Sync!Other(t)].op} # {"make", "complete"}
  PROVE  SyncInv'
<1>1. SyncType /\ Sync!Other(t) \in Both
  BY AtWork DEF SyncInv
<1>2. doing' = [doing EXCEPT ![t] = w]
      /\ clash' = (clash \/ (~Sync!Free(Sync!Other(t)) /\
                             {w.op, doing[Sync!Other(t)].op} # {"make", "complete"}))
  BY DEF Sync!Begin
<1>3. SyncType' /\ doing'[t] = w /\ doing'[Sync!Other(t)] = doing[Sync!Other(t)]
  <2>1. gp_index' \in Blocks \cup {NULL} /\ live' \subseteq Blocks /\ running' \subseteq Blocks
    BY <1>1 DEF SyncType
  <2> QED BY <1>1, <1>2, <2>1, Turned
<1>4. Unharmed'
  BY <1>2 DEF SyncInv, Unharmed
<1>5. Trusted' => Trusted
  BY <1>2 DEF Trusted
<1>6. Trusted' => Sync!Free(Sync!Other(t))
  <2> SUFFICES ASSUME Trusted', ~Sync!Free(Sync!Other(t)) PROVE FALSE
    OBVIOUS
  <2>1. Phase(doing[Sync!Other(t)])
    BY <1>1, <1>5, Turn
  <2>2. {w.op, doing[Sync!Other(t)].op} = {"make", "complete"}
    BY <1>2 DEF Trusted
  <2> QED BY <2>1, <2>2
<1>7. Trusted' => Phase(w)'
  BY <1>5, <1>6, Between
<1> QED BY <1>3, <1>4, <1>6, <1>7, Handed

\* The check of the completion callback.
LEMMA CheckKeeps ==
  ASSUME SyncInv, ~misused, NEW t \in Both, Sync!Check(t) PROVE SyncInv'
<1>0. SyncType /\ doing[t].step = "check" /\ doing[t] \in Ending /\ ~Sync!Free(t) /\ variant.clears
      /\ doing[t].p = NULL
  BY WorkOf, AtWork DEF SyncInv, SyncType, Sync!Check, Sync!At, Ending
<1>1. UNCHANGED <<variant, gp_index, live, running, completed, misused, clash>>
  BY DEF Sync!Check, Sync!Goto, Sync!Return, Sync!session
<1>2. Unharmed' /\ (Trusted' => Trusted)
  BY <1>1 DEF SyncInv, Unharmed, Trusted
<1>3. Trusted' => /\ Sync!Free(Sync!Other(t)) /\ Phase(doing[t])
                  /\ variant.checksStart /\ Kept /\ gp_index # NULL
  <2>1. variant.checksStart /\ variant.checksStop
    BY <1>0, CopyFacts DEF SyncType
  <2> QED BY <1>0, <1>2, <2>1, Turn DEF Phase
<1>4. PICK w : w = IF gp_index = NULL THEN Sync!Nothing
                   ELSE [op |-> doing[t].op, step |-> "halt", p |-> doing[t].p]
  OBVIOUS
<1>5. w \in Works /\ w.p = NULL /\ w.step \in {"none", "halt"} /\ w.op \in {"none", doing[t].op}
      /\ (gp_index # NULL => w.step = "halt")
  BY <1>0, <1>4 DEF Works, Ending, Sync!Nothing
<1>6. doing' = [doing EXCEPT ![t] = w]
  <2>1. CASE gp_index = NULL
    BY <1>4, <2>1 DEF Sync!Check, Sync!Return
  <2>2. CASE gp_index # NULL
    BY <1>0, <1>4, <2>2, Moved DEF Sync!Check
  <2> QED BY <2>1, <2>2
<1>7. SyncType' /\ doing'[t] = w /\ doing'[Sync!Other(t)] = doing[Sync!Other(t)]
  <2>1. gp_index' \in Blocks \cup {NULL} /\ live' \subseteq Blocks /\ running' \subseteq Blocks
    BY <1>0, <1>1 DEF SyncType
  <2>2. w.op = "complete" => t = "bt" /\ completed'
    BY <1>0, <1>1, <1>5 DEF SyncType
  <2> QED BY <1>0, <1>1, <1>5, <1>6, <2>1, <2>2, Turned
<1>8. Trusted' => Phase(w)'
  BY <1>1, <1>3, <1>5 DEF Phase, Kept
<1> QED BY <1>2, <1>3, <1>7, <1>8, Handed

\* The library lets a session go.
LEMMA HaltKeeps ==
  ASSUME SyncInv, ~misused, NEW t \in Both, Sync!Halt(t) PROVE SyncInv'
<1>0. SyncType /\ doing[t].step = "halt" /\ doing[t] \in Ending \cup Completing /\ ~Sync!Free(t)
  BY WorkOf, AtWork DEF SyncInv, Sync!Halt, Sync!At
<1>1. PICK b : b = Sync!Block(t)
  OBVIOUS
<1>2. UNCHANGED <<variant, gp_index, live, completed, clash>>
      /\ Sync!Goto(t, "free") /\ running' = running \ {b} /\ misused' = (misused \/ b \notin live)
  BY <1>1 DEF Sync!Halt, Sync!Goto
<1>3. b = IF doing[t].p = NULL THEN gp_index ELSE doing[t].p
  BY <1>1 DEF Sync!Block
<1>4. doing[t].p # NULL => ~variant.clears /\ completed
  <2>1. doing[t].p # NULL => doing[t].op = "complete"
    BY <1>0, WorkOf DEF Completing
  <2> QED BY <1>0, <2>1 DEF SyncType
<1>5. Trusted => Sync!Free(Sync!Other(t)) /\ Phase(doing[t])
  BY <1>0, Turn
<1>6. Trusted' => Trusted /\ b \in live
  BY <1>2 DEF Trusted
<1>7. Unharmed'
  <2> SUFFICES ASSUME ~clash, variant.checksStop, variant.clears \/ ~completed PROVE b \in live
    BY <1>2 DEF Unharmed
  <2>1. Trusted /\ doing[t].p = NULL /\ b = gp_index
    BY <1>0, <1>3, <1>4, CopyFacts DEF Trusted, SyncType
  <2> QED BY <1>0, <1>5, <2>1 DEF Phase, Kept
<1>8. PICK w : w = [op |-> doing[t].op, step |-> "free", p |-> doing[t].p]
  OBVIOUS
<1>9. w \in Works /\ w.op = doing[t].op /\ w.step = "free" /\ w.p = doing[t].p
  BY <1>0, <1>8 DEF Works, Ending, Completing
<1>10. doing' = [doing EXCEPT ![t] = w]
  BY <1>0, <1>2, <1>8, Moved
<1>11. SyncType' /\ doing'[t] = w /\ doing'[Sync!Other(t)] = doing[Sync!Other(t)]
  <2>1. gp_index' \in Blocks \cup {NULL} /\ live' \subseteq Blocks /\ running' \subseteq Blocks
    BY <1>0, <1>2 DEF SyncType
  <2>2. /\ w.op = "complete" => t = "bt" /\ completed' /\ (w.p = NULL => variant.clears)
        /\ w.step = "check" => variant.clears
        /\ w.p # NULL => ~variant.clears
    BY <1>0, <1>2, <1>4, <1>9 DEF SyncType
  <2> QED BY <1>0, <1>2, <1>9, <1>10, <2>1, <2>2, Turned
<1>12. Trusted' => Phase(w)'
  <2> SUFFICES ASSUME Trusted' PROVE Phase(w)'
    OBVIOUS
  <2>0. Phase(doing[t]) /\ b \in live
    BY <1>5, <1>6
  <2>1. CASE variant.checksStart
    <3>1. running = live /\ live \subseteq {gp_index}
      BY <1>0, <2>0, <2>1 DEF Phase, Kept
    <3>2. b = gp_index /\ live = {gp_index} /\ running' = {} /\ gp_index # NULL
      BY <1>0, <1>2, <2>0, <3>1, NullAssumption DEF SyncType
    <3> QED BY <1>2, <1>3, <1>9, <2>1, <3>2 DEF Phase
  <2>2. CASE ~variant.checksStart
    BY <1>0, <1>2, <1>9, <2>0, <2>2 DEF Phase
  <2> QED BY <2>1, <2>2
<1> QED BY <1>5, <1>6, <1>7, <1>11, <1>12, Handed

\* Its block goes back to the heap.
LEMMA ReleaseKeeps ==
  ASSUME SyncInv, ~misused, NEW t \in Both, Sync!Release(t) PROVE SyncInv'
<1>0. SyncType /\ doing[t].step = "free" /\ doing[t] \in Ending \cup Completing /\ ~Sync!Free(t)
  BY WorkOf, AtWork DEF SyncInv, Sync!Release, Sync!At
<1>1. PICK b : b = Sync!Block(t)
  OBVIOUS
<1>2. UNCHANGED <<variant, gp_index, running, completed, clash>>
      /\ live' = live \ {b} /\ misused' = (misused \/ b \notin live \cup {NULL})
  BY <1>1 DEF Sync!Release, Sync!Goto, Sync!Return
<1>3. b = IF doing[t].p = NULL THEN gp_index ELSE doing[t].p
  BY <1>1 DEF Sync!Block
<1>4. doing[t].p # NULL => ~variant.clears /\ completed
  <2>1. doing[t].p # NULL => doing[t].op = "complete"
    BY <1>0, WorkOf DEF Completing
  <2> QED BY <1>0, <2>1 DEF SyncType
<1>5. Trusted => Sync!Free(Sync!Other(t)) /\ Phase(doing[t])
  BY <1>0, Turn
<1>6. Trusted' => Trusted
  BY <1>2 DEF Trusted
<1>7. Unharmed'
  <2> SUFFICES ASSUME ~clash, variant.checksStop, variant.clears \/ ~completed PROVE b \in live
    BY <1>2 DEF Unharmed
  <2>1. Trusted /\ doing[t].p = NULL /\ b = gp_index
    BY <1>0, <1>3, <1>4, CopyFacts DEF Trusted, SyncType
  <2> QED BY <1>0, <1>5, <2>1 DEF Phase
<1>8. PICK w : w = IF doing[t].p # NULL THEN Sync!Nothing
                   ELSE [op |-> doing[t].op, step |-> "clear", p |-> doing[t].p]
  OBVIOUS
<1>9. /\ w \in Works /\ w.p = NULL
      /\ doing[t].p # NULL => w.op = "none" /\ w.step = "none"
      /\ doing[t].p = NULL => w.op = doing[t].op /\ w.step = "clear"
  <2>1. CASE doing[t].p # NULL
    BY <1>8, <2>1 DEF Works, Sync!Nothing
  <2>2. CASE doing[t].p = NULL
    <3>1. doing[t].op \in {"stop", "complete"}
      BY <1>0 DEF Ending, Completing
    <3>2. w \in Ending /\ w.p = NULL /\ w.op = doing[t].op /\ w.step = "clear"
      BY <1>8, <2>2, <3>1 DEF Ending
    <3> QED BY <2>2, <3>2 DEF Works
  <2> QED BY <2>1, <2>2
<1>10. doing' = [doing EXCEPT ![t] = w]
  <2>1. CASE doing[t].p # NULL
    BY <1>8, <2>1 DEF Sync!Release, Sync!Return
  <2>2. CASE doing[t].p = NULL
    BY <1>0, <1>8, <2>2, Moved DEF Sync!Release
  <2> QED BY <2>1, <2>2
<1>11. SyncType' /\ doing'[t] = w /\ doing'[Sync!Other(t)] = doing[Sync!Other(t)]
  <2>1. gp_index' \in Blocks \cup {NULL} /\ live' \subseteq Blocks /\ running' \subseteq Blocks
    BY <1>0, <1>2 DEF SyncType
  <2>2. w.op = "complete" => t = "bt" /\ completed' /\ (w.p = NULL => variant.clears)
    BY <1>0, <1>2, <1>9 DEF SyncType
  <2> QED BY <1>0, <1>2, <1>9, <1>10, <2>1, <2>2, Turned
<1>12. Trusted' => Phase(w)'
  <2> SUFFICES ASSUME Trusted' PROVE Phase(w)'
    OBVIOUS
  <2>1. CASE variant.checksStart
    <3>1. running = {} /\ gp_index # NULL /\ live = {gp_index} /\ b = gp_index
      BY <1>0, <1>3, <1>5, <1>6, <2>1 DEF Phase
    <3>2. running' = {} /\ live' = {} /\ gp_index' # NULL
      BY <1>2, <3>1
    <3> QED BY <1>2, <1>4, <1>9, <2>1, <3>2 DEF Phase, Kept
  <2>2. CASE ~variant.checksStart
    <3>1. ~completed
      BY <1>6, <2>2 DEF Trusted
    <3> QED BY <1>2, <1>4, <1>9, <2>2, <3>1 DEF Phase
  <2> QED BY <2>1, <2>2
<1> QED BY <1>5, <1>6, <1>7, <1>11, <1>12, Handed

\* gp_index lets go of it.
LEMMA ClearKeeps ==
  ASSUME SyncInv, ~misused, NEW t \in Both, Sync!Clear(t) PROVE SyncInv'
<1>0. SyncType /\ doing[t].step = "clear" /\ ~Sync!Free(t)
  BY AtWork DEF SyncInv, Sync!Clear, Sync!At
<1>1. UNCHANGED <<variant, live, running, completed, misused, clash>> /\ gp_index' = NULL
      /\ Sync!Return(t)
  BY DEF Sync!Clear, Sync!Return
<1>2. Unharmed' /\ (Trusted' => Trusted)
  BY <1>1 DEF SyncInv, Unharmed, Trusted
<1>3. PICK w : w = Sync!Nothing
  OBVIOUS
<1>4. w \in Works /\ w.step = "none" /\ w.op = "none" /\ w.p = NULL
  BY <1>3 DEF Works, Sync!Nothing
<1>5. SyncType' /\ doing'[t] = w /\ doing'[Sync!Other(t)] = doing[Sync!Other(t)]
  <2>1. gp_index' \in Blocks \cup {NULL} /\ live' \subseteq Blocks /\ running' \subseteq Blocks
    BY <1>0, <1>1 DEF SyncType
  <2>2. doing' = [doing EXCEPT ![t] = w]
    BY <1>1, <1>3 DEF Sync!Return
  <2> QED BY <1>0, <1>1, <1>4, <2>1, <2>2, Turned
<1>6. Trusted' => Sync!Free(Sync!Other(t)) /\ Phase(doing[t])
  BY <1>0, <1>2, Turn
<1>7. Trusted' => Phase(w)'
  BY <1>0, <1>1, <1>4, <1>6 DEF Phase, Kept
<1> QED BY <1>2, <1>5, <1>6, <1>7, Handed

\* A start, from its check on, of the task that makes the session.
LEMMA MakeKeeps ==
  ASSUME SyncInv, NEW t \in Both, Sync!Free(t), NEW step \in {"malloc", "run"},
         Sync!Begin(t, "make", step, NULL),
         UNCHANGED <<variant, gp_index, live, running, completed, misused>>,
         variant.checksStart => step = "malloc" /\ gp_index = NULL,
         step = "run" => gp_index # NULL
  PROVE  SyncInv'
<1>1. PICK w : w = [op |-> "make", step |-> step, p |-> NULL]
  OBVIOUS
<1>2. w \in Works /\ w.op = "make" /\ w.step = step /\ w.p = NULL
  BY <1>1 DEF Works, Making
<1>3. SyncType /\ Sync!Other(t) \in Both
  BY AtWork DEF SyncInv
<1>4. ASSUME Trusted', variant.checksStart => Kept,
             ~variant.checksStart => gp_index \in live \cup {NULL}
      PROVE  Phase(w)'
  <2>1. CASE variant.checksStart
    <3>1. live = {} /\ running = {}
      BY <1>3, <1>4, <2>1, NullAssumption DEF Kept, SyncType
    <3> QED BY <1>2, <2>1, <3>1 DEF Phase
  <2>2. CASE ~variant.checksStart
    BY <1>2, <1>4, <2>2 DEF Phase
  <2> QED BY <2>1, <2>2
<1>5. ASSUME Trusted', Phase(doing[Sync!Other(t)])
      PROVE  {w.op, doing[Sync!Other(t)].op} # {"make", "complete"}
  <2> SUFFICES ASSUME doing[Sync!Other(t)].op = "complete" PROVE FALSE
    BY <1>2
  <2>1. completed /\ (doing[Sync!Other(t)].p = NULL => variant.clears)
    BY <1>3 DEF SyncType
  <2>2. variant.checksStart /\ gp_index = NULL
    BY <1>5, <2>1 DEF Trusted
  <2>3. doing[Sync!Other(t)] \in Ending \cup Completing
    BY <1>3 DEF SyncType, Making, Sync!Nothing
  <2>4. doing[Sync!Other(t)].step \in {"check", "halt"}
    BY <1>5, <2>2, <2>3 DEF Phase, Ending, Completing
  <2>5. doing[Sync!Other(t)].p # NULL
    BY <1>3, <1>5, <2>1, <2>2, <2>4, CopyFacts DEF Phase, SyncType
  <2>6. doing[Sync!Other(t)].p \in {NULL}
    BY <1>5, <2>2, <2>4, <2>5 DEF Phase, Kept
  <2> QED BY <2>5, <2>6
<1> QED BY <1>1, <1>2, <1>4, <1>5, Begun

\* The start command.
LEMMA StartKeeps == ASSUME SyncInv, Sync!Start PROVE SyncInv'
<1>1. "loop" \in Both /\ Sync!Free("loop")
      /\ UNCHANGED <<variant, gp_index, live, running, completed, misused>>
  BY DEF Both, Sync!Start, Sync!session
<1>2. CASE UNCHANGED <<doing, clash>>
  BY <1>1, <1>2, Same
<1>3. CASE variant.checksStart /\ gp_index = NULL /\ Sync!Begin("loop", "make", "malloc", NULL)
  BY <1>1, <1>3, MakeKeeps
<1>4. CASE ~variant.checksStart /\ Sync!Begin("loop", "make", "malloc", NULL)
  BY <1>1, <1>4, MakeKeeps
<1> QED BY <1>2, <1>3, <1>4 DEF Sync!Start, Sync!Make, Sync!tasks

\* The stack is up.
LEMMA EnabledKeeps == ASSUME SyncInv, Sync!Enabled PROVE SyncInv'
<1>1. "bt" \in Both /\ Sync!Free("bt")
      /\ UNCHANGED <<variant, gp_index, live, running, completed, misused>>
  BY DEF Both, Sync!Enabled, Sync!session
<1>2. CASE UNCHANGED <<doing, clash>>
  BY <1>1, <1>2, Same
<1>3. CASE variant.checksStart /\ gp_index = NULL /\ Sync!Begin("bt", "make", "malloc", NULL)
  BY <1>1, <1>3, MakeKeeps
<1>4. CASE ~variant.checksStart /\ gp_index # NULL /\ Sync!Begin("bt", "make", "run", NULL)
  BY <1>1, <1>4, MakeKeeps
<1> QED BY <1>2, <1>3, <1>4 DEF Sync!Enabled, Sync!Make, Sync!tasks

\* The stop command.
LEMMA StopKeeps == ASSUME SyncInv, Sync!Stop PROVE SyncInv'
<1>1. "loop" \in Both /\ Sync!Free("loop") /\ SyncType
      /\ UNCHANGED <<variant, gp_index, live, running, completed, misused>>
  BY DEF Both, Sync!Stop, Sync!session, SyncInv
<1>2. CASE UNCHANGED <<doing, clash>>
  BY <1>1, <1>2, Same
<1>3. CASE /\ gp_index # NULL \/ ~variant.checksStop
           /\ Sync!Begin("loop", "stop", "halt", NULL)
  <2>1. PICK w : w = [op |-> "stop", step |-> "halt", p |-> NULL]
    OBVIOUS
  <2>2. w \in Works /\ w.op = "stop" /\ w.step = "halt" /\ w.p = NULL
    BY <2>1 DEF Works, Ending
  <2>3. ASSUME Trusted', variant.checksStart => Kept,
               ~variant.checksStart => gp_index \in live \cup {NULL}
        PROVE  Phase(w)'
    <3>1. CASE variant.checksStart
      BY <1>1, <1>3, <2>2, <2>3, <3>1 DEF Phase, Kept
    <3>2. CASE ~variant.checksStart
      <4>1. gp_index \in live
        BY <1>1, <1>3, <2>3, <3>2, CopyFacts DEF SyncType
      <4> QED BY <1>1, <2>2, <3>2, <4>1 DEF Phase
    <3> QED BY <3>1, <3>2
  <2>4. {w.op, doing[Sync!Other("loop")].op} # {"make", "complete"}
    BY <2>2
  <2> QED BY <1>1, <1>3, <2>1, <2>2, <2>3, <2>4, Begun
<1> QED BY <1>2, <1>3 DEF Sync!Stop, Sync!tasks

\* A session that runs is complete.
LEMMA CompleteKeeps == ASSUME SyncInv, NEW b \in Blocks, Sync!Complete(b) PROVE SyncInv'
<1>1. /\ "bt" \in Both /\ Sync!Free("bt") /\ b \in running /\ completed' = TRUE
      /\ UNCHANGED <<variant, gp_index, live, running, misused>>
      /\ SyncType /\ Sync!Other("bt") = "loop"
  BY DEF Both, Sync!Complete, Sync!session, SyncInv, Sync!Other
<1>2. ASSUME Trusted', Phase(doing[Sync!Other("bt")])
      PROVE  doing[Sync!Other("bt")].op # "make"
  <2>1. variant.checksStart /\ running # {}
    BY <1>1, <1>2 DEF Trusted
  <2>2. ~(doing[Sync!Other("bt")].step \in {"malloc", "enable", "run"})
    BY <1>2, <2>1 DEF Phase
  <2>3. doing[Sync!Other("bt")] \in Works /\ "loop" \in Both
    BY <1>1 DEF SyncType, Works, Both
  <2> QED BY <2>2, <2>3 DEF Works, Making, Ending, Completing, Sync!Nothing
<1>3. CASE variant.clears /\ b # gp_index /\ UNCHANGED <<doing, clash>>
  <2>1. SyncType'
    BY <1>1, <1>3 DEF SyncType
  <2>2. Unharmed' /\ (Trusted' => Trusted)
    BY <1>1, <1>3 DEF SyncInv, Unharmed, Trusted
  <2>3. ASSUME NEW s \in Both, Sync!Free(Sync!Other(s)), Phase(doing[s])
        PROVE  Sync!Free(Sync!Other(s))' /\ Phase(doing[s])'
    <3>1. PICK w : w = doing[s]
      OBVIOUS
    <3>2. Phase(w)'
      BY <1>1, <1>3, <2>3, <3>1 DEF Phase, Kept
    <3>3. Phase(doing[s])'
      BY <1>3, <3>1, <3>2
    <3> QED BY <1>3, <2>3, <3>3 DEF Sync!Free
  <2>4. Phases'
    BY <2>2, <2>3 DEF SyncInv, Phases
  <2> QED BY <2>1, <2>2, <2>4 DEF SyncInv
<1>4. CASE variant.clears /\ b = gp_index /\ Sync!Begin("bt", "complete", "check", NULL)
  <2>1. PICK w : w = [op |-> "complete", step |-> "check", p |-> NULL]
    OBVIOUS
  <2>2. w \in Works /\ w.op = "complete" /\ w.step = "check" /\ w.p = NULL
    BY <2>1 DEF Works, Ending
  <2>3. ASSUME Trusted', variant.checksStart => Kept PROVE Phase(w)'
    <3>1. variant.checksStart /\ gp_index # NULL
      BY <1>1, <1>4, NullAssumption, CopyFacts DEF SyncType
    <3> QED BY <1>1, <1>4, <2>2, <2>3, <3>1 DEF Phase, Kept
  <2>4. Trusted' /\ Phase(doing[Sync!Other("bt")]) =>
          {w.op, doing[Sync!Other("bt")].op} # {"make", "complete"}
    BY <1>2, <2>2
  <2> QED BY <1>1, <1>4, <2>1, <2>2, <2>3, <2>4, Begun
<1>5. CASE ~variant.clears /\ Sync!Begin("bt", "complete", "halt", b)
  <2>1. PICK w : w = [op |-> "complete", step |-> "halt", p |-> b]
    OBVIOUS
  <2>2. w \in Works /\ w.op = "complete" /\ w.step = "halt" /\ w.p = b /\ b # NULL
    BY <2>1, NullAssumption DEF Works, Completing
  <2>3. ASSUME Trusted', variant.checksStart => Kept PROVE Phase(w)'
    <3>1. variant.checksStart
      BY <1>1, <2>3 DEF Trusted
    <3>2. running = live /\ live \subseteq {gp_index}
      BY <2>3, <3>1 DEF Kept
    <3>3. gp_index = b
      BY <1>1, <3>2
    <3> QED BY <1>1, <1>5, <2>2, <3>1, <3>2, <3>3 DEF Phase, Kept
  <2>4. Trusted' /\ Phase(doing[Sync!Other("bt")]) =>
          {w.op, doing[Sync!Other("bt")].op} # {"make", "complete"}
    BY <1>2, <2>2
  <2> QED BY <1>1, <1>5, <2>1, <2>2, <2>3, <2>4, Begun
<1> QED BY <1>3, <1>4, <1>5 DEF Sync!Complete, Sync!tasks

\* Every step keeps the invariant.
LEMMA SyncStep == SyncInv /\ [Next]_vars => SyncInv'
<1> SUFFICES ASSUME SyncInv, [Next]_vars PROVE SyncInv'
  OBVIOUS
<1>1. CASE UNCHANGED sync
  BY <1>1, Same DEF sync
<1>2. CASE RunSync
  <2>1. ~misused /\ (\/ Sync!Start \/ Sync!Enabled \/ (\E b \in Blocks : Sync!Complete(b))
                     \/ Sync!Stop \/ \E t \in Both : Sync!Step(t))
    BY <1>2 DEF RunSync, Sync!Next, Both
  <2>2. ASSUME NEW t \in Both, Sync!Step(t) PROVE SyncInv'
    BY <2>1, <2>2, MallocKeeps, RunKeeps, CheckKeeps, HaltKeeps, ReleaseKeeps, ClearKeeps
    DEF Sync!Step
  <2> QED BY <2>1, <2>2, StartKeeps, EnabledKeeps, CompleteKeeps, StopKeeps
<1> QED BY <1>1, <1>2, Apart

\* Of the main loop and the Bluetooth task, which start, stop and complete the session of
\* blsync_ble_app.c without a lock: as long as no stop meets an operation of the other
\* task and no two starts meet, the session that runs is the block in use and that of
\* gp_index, and none is used that is not there (each as far as the copy's checks go).
THEOREM SessionHasOneOwner == Spec => []OneSession
<1>1. Init => SyncInv
  <2> SUFFICES ASSUME Init PROVE SyncInv
    OBVIOUS
  <2>1. /\ variant \in Sync!Variants /\ gp_index = NULL /\ live = {} /\ running = {}
        /\ doing = [t \in Both |-> Sync!Nothing] /\ ~completed /\ ~clash /\ ~misused
    BY DEF Init, Sync!Init, Both
  <2>2. \A t \in Both : /\ doing[t].op = "none" /\ doing[t].step = "none" /\ doing[t].p = NULL
                        /\ Sync!Free(t) /\ Sync!Other(t) \in Both
    BY <2>1 DEF Sync!Nothing, Sync!Free, Both, Sync!Other
  <2>3. SyncType
    BY <2>1, <2>2 DEF SyncType
  <2>4. "bt" \in Both /\ Phase(doing["bt"])
    <3>1. "bt" \in Both /\ Kept
      BY <2>1 DEF Both, Kept
    <3> QED BY <2>1, <2>2, <3>1 DEF Phase
  <2>5. Phases /\ Unharmed
    BY <2>1, <2>2, <2>4 DEF Phases, Unharmed
  <2> QED BY <2>3, <2>5 DEF SyncInv
<1>2. SyncInv => OneSession
  <2> SUFFICES ASSUME SyncInv, ~clash PROVE OneSession
    BY DEF OneSession, Sync!OneSession
  <2>1. ASSUME variant.checksStart, ~misused, Sync!Free("loop"), Sync!Free("bt") PROVE Kept
    <3>1. Trusted /\ "loop" \in Both /\ Sync!Other("loop") = "bt"
      BY <2>1 DEF Trusted, Both, Sync!Other
    <3> QED BY <2>1, <3>1, Between
  <2> QED BY <2>1 DEF SyncInv, Unharmed, Kept, OneSession, Sync!OneSession
<1> QED BY <1>1, <1>2, SyncStep, PTL DEF Spec

(***************************************************************************)
(* The stored Wi-Fi settings.                                              *)
(***************************************************************************)

Settings == [ssid : Ssids \cup {NULL}, password : Passwords \cup {NULL},
             pmk : {NULL} \cup ((Ssids \cup {NULL}) \X (Passwords \cup {NULL}))]

\* The stored key was computed from what is stored, unless the user was careless.
WifiInv ==
  /\ env \in Settings
  /\ careless \/ env.pmk = NULL \/ env.pmk = Wifi!Psk(env.ssid, env.password)

\* A step keeps that, and connects with a key that belongs to its network.
LEMMA WifiStep ==
  ASSUME WifiInv, [Next]_vars
  PROVE  /\ WifiInv'
         /\ used' # used /\ used' # NULL /\ ~careless =>
              used'.pmk \in {NULL, Wifi!Psk(used'.ssid, used'.password)}
<1> USE DEF WifiInv, Settings, Wifi!Psk
<1>1. CASE Wifi!StackWifi
  BY <1>1 DEF Wifi!StackWifi
<1>2. CASE Wifi!ConnectWifi
  <2>1. CASE env' = [env EXCEPT !.pmk = Wifi!Key] /\ used' = env'
    BY <1>2, <2>1 DEF Wifi!ConnectWifi, Wifi!Key
  <2>2. CASE used' \in {NULL, Wifi!Tree} /\ UNCHANGED env
    BY <1>2, <2>2 DEF Wifi!ConnectWifi, Wifi!Tree
  <2> QED BY <1>2, <2>1, <2>2 DEF Wifi!ConnectWifi
<1>3. CASE Wifi!PsmSet
  BY <1>3 DEF Wifi!PsmSet
<1>4. CASE Wifi!PsmUnset
  BY <1>4 DEF Wifi!PsmUnset
<1>5. CASE Wifi!Restart
  BY <1>5 DEF Wifi!Restart
<1>6. CASE UNCHANGED wifi
  BY <1>6 DEF wifi
<1> QED BY <1>1, <1>2, <1>3, <1>4, <1>5, <1>6, Apart DEF RunWifi, Wifi!Next

\* The Wi-Fi manager is never handed a key of another network, whatever is typed and
\* wherever the board restarts, if the key is unset after a change.
THEOREM KeyFits == Spec => PmkFits
<1>1. Init => WifiInv
  BY DEF Init, Wifi!Init, WifiInv, Settings
<1>2. WifiInv /\ [Next]_vars => WifiInv'
  BY WifiStep
<1>3. WifiInv /\ [Next]_vars =>
        [used' # used /\ used' # NULL /\ ~careless =>
           used'.pmk \in {NULL, Wifi!Psk(used'.ssid, used'.password)}]_(Wifi!vars)
  BY WifiStep
<1> QED BY <1>1, <1>2, <1>3, PTL DEF Spec, PmkFits, Wifi!PmkFits

(***************************************************************************)
(* BleAdv: the advertising of bl702_demo_event.                            *)
(***************************************************************************)

\* What a step of Programs is to BleAdv.
LEMMA CycleStep == [Next]_vars => [Cycle!Next]_(Cycle!vars)
BY Apart DEF RunCycle, cycle, Cycle!vars, Cycle!flags, Cycle!timer, Cycle!ble, Cycle!zigbee,
             Cycle!errors

\* TypeOK of BleAdv in two halves: the flags, and the rest.
CycleFlags ==
  /\ firstAdv \in BOOLEAN /\ bl_adv_started \in BOOLEAN
  /\ hdl \in BOOLEAN /\ armed \in BOOLEAN
  /\ advertising \in BOOLEAN /\ connected \in BOOLEAN
  /\ inNwk \in BOOLEAN /\ auth \in BOOLEAN
  /\ advLost \in BOOLEAN /\ joined \in BOOLEAN
CycleRest ==
  /\ advPc \in {"idle", "stop", "rearm", "check", "start"}
  /\ period \in {Short, Long}
  /\ (armed => hdl) /\ (advPc # "idle" => ~armed)
  /\ advFails \in 0..MaxFail /\ changes \in 0..MaxZigbee

\* The two halves make up the type invariant.
LEMMA CycleHalves == Cycle!TypeOK <=> CycleFlags /\ CycleRest
BY DEF Cycle!TypeOK, CycleFlags, CycleRest

\* The state in which bt_enable_cb leaves the cycle is well formed.
LEMMA CycleInitType == Cycle!Init => Cycle!TypeOK
<1>1. Cycle!Init => CycleFlags
  BY DEF Cycle!Init, CycleFlags
<1>2. Cycle!Init => CycleRest
  BY PeriodAssumption, BoundAssumption DEF Cycle!Init, CycleRest
<1> QED BY <1>1, <1>2, CycleHalves

\* No step gives a flag another value than TRUE or FALSE.
LEMMA CycleNextFlags == CycleFlags /\ [Cycle!Next]_(Cycle!vars) => CycleFlags'
<1> SUFFICES ASSUME CycleFlags, [Cycle!Next]_(Cycle!vars) PROVE CycleFlags'
  OBVIOUS
<1> USE DEF CycleFlags, Cycle!flags, Cycle!timer, Cycle!ble, Cycle!zigbee, Cycle!errors
<1>1. CASE Cycle!Fire
  BY <1>1 DEF Cycle!Fire
<1>2. CASE Cycle!Stop
  BY <1>2 DEF Cycle!Stop
<1>3. CASE Cycle!StopFail
  BY <1>3 DEF Cycle!StopFail, Cycle!Fail, Cycle!Delete
<1>4. CASE Cycle!Rearm
  BY <1>4 DEF Cycle!Rearm, Cycle!Delete, Cycle!Arm, Cycle!Fail
<1>5. CASE Cycle!Check
  BY <1>5 DEF Cycle!Check, Cycle!Delete
<1>6. CASE Cycle!Start
  BY <1>6 DEF Cycle!Start, Cycle!Arm, Cycle!Fail
<1>7. CASE Cycle!StartFail
  BY <1>7 DEF Cycle!StartFail, Cycle!Fail
<1>8. CASE Cycle!Connect
  BY <1>8 DEF Cycle!Connect
<1>9. CASE Cycle!Disconnect
  BY <1>9 DEF Cycle!Disconnect
<1>10. CASE Cycle!Zigbee
  BY <1>10 DEF Cycle!Zigbee, Cycle!Ready
<1>11. CASE UNCHANGED Cycle!vars
  BY <1>11 DEF Cycle!vars
<1> QED
  BY <1>1, <1>2, <1>3, <1>4, <1>5, <1>6, <1>7, <1>8, <1>9, <1>10, <1>11
     DEF Cycle!Next, Cycle!Handler

\* No step takes the timer, the handler or the counters out of their ranges.
LEMMA CycleNextRest == CycleRest /\ [Cycle!Next]_(Cycle!vars) => CycleRest'
<1> SUFFICES ASSUME CycleRest, [Cycle!Next]_(Cycle!vars) PROVE CycleRest'
  OBVIOUS
<1>0. MaxFail \in Nat /\ MaxZigbee \in Nat /\ Short \in Nat /\ Long \in Nat
  BY PeriodAssumption, BoundAssumption
<1> USE <1>0 DEF CycleRest, Cycle!flags, Cycle!timer, Cycle!ble, Cycle!zigbee, Cycle!errors
<1>1. CASE Cycle!Fire
  BY <1>1 DEF Cycle!Fire
<1>2. CASE Cycle!Stop
  BY <1>2 DEF Cycle!Stop
<1>3. CASE Cycle!StopFail
  BY <1>3 DEF Cycle!StopFail, Cycle!Fail, Cycle!Delete
<1>4. CASE Cycle!Rearm
  BY <1>4 DEF Cycle!Rearm, Cycle!Delete, Cycle!Arm, Cycle!Fail
<1>5. CASE Cycle!Check
  BY <1>5 DEF Cycle!Check, Cycle!Delete
<1>6. CASE Cycle!Start
  BY <1>6 DEF Cycle!Start, Cycle!Arm, Cycle!Fail
<1>7. CASE Cycle!StartFail
  BY <1>7 DEF Cycle!StartFail, Cycle!Fail
<1>8. CASE Cycle!Connect
  BY <1>8 DEF Cycle!Connect
<1>9. CASE Cycle!Disconnect
  BY <1>9 DEF Cycle!Disconnect
<1>10. CASE Cycle!Zigbee
  BY <1>10 DEF Cycle!Zigbee, Cycle!Ready
<1>11. CASE UNCHANGED Cycle!vars
  BY <1>11 DEF Cycle!vars
<1> QED
  BY <1>1, <1>2, <1>3, <1>4, <1>5, <1>6, <1>7, <1>8, <1>9, <1>10, <1>11
     DEF Cycle!Next, Cycle!Handler

\* Every variable keeps its type; in particular a handler that runs has no armed timer.
THEOREM CycleTypeCorrect == Spec => []Cycle!TypeOK
<1>1. Init => Cycle!TypeOK
  BY CycleInitType DEF Init
<1>2. Cycle!TypeOK /\ [Next]_vars => Cycle!TypeOK'
  <2>1. CycleFlags' /\ CycleRest' => Cycle!TypeOK'
    BY DEF Cycle!TypeOK, CycleFlags, CycleRest
  <2> QED BY <2>1, CycleHalves, CycleNextFlags, CycleNextRest, CycleStep
<1> QED BY <1>1, <1>2, PTL DEF Spec

\* Between the calls that begin an advertisement, and while a pause is being timed, the
\* flag is down: CycleTimed does not say so, and is not inductive without it.
FlagDown == advPc \in {"rearm", "check", "start"} => ~bl_adv_started

\* bl_start_adv_Timer with period p, every call of which succeeds, leaves the timer
\* armed with that period.
LEMMA ArmSucceeds ==
  ASSUME Cycle!TypeOK, NEW p, Cycle!Arm(p), advFails' = 0
  PROVE  armed' = TRUE /\ period' = p
BY DEF Cycle!Arm, Cycle!Fail, Cycle!TypeOK, Cycle!timer, Cycle!errors

\* Unless a call failed, every advertisement on air is ended by an armed timer after the
\* short period, and every pause after the long one, whatever the Zigbee device, the
\* centrals and the two branches of bl_adv_timer_handler do.
THEOREM TimedCycle == Spec => []CycleTimed
<1>1. Init => CycleTimed /\ FlagDown
  BY DEF Init, Cycle!Init, CycleTimed, Cycle!CycleTimed, FlagDown
<1>2. Cycle!TypeOK /\ CycleTimed /\ FlagDown /\ [Next]_vars => CycleTimed' /\ FlagDown'
  <2> SUFFICES ASSUME Cycle!TypeOK, CycleTimed, FlagDown, [Cycle!Next]_(Cycle!vars)
               PROVE  CycleTimed' /\ FlagDown'
    BY CycleStep
  <2> USE DEF CycleTimed, Cycle!CycleTimed, FlagDown,
              Cycle!flags, Cycle!timer, Cycle!ble, Cycle!zigbee, Cycle!errors
  <2>1. CASE Cycle!Fire
    BY <2>1 DEF Cycle!Fire, Cycle!TypeOK
  <2>2. CASE Cycle!Stop
    BY <2>2 DEF Cycle!Stop, Cycle!TypeOK
  <2>3. CASE Cycle!StopFail
    BY <2>3 DEF Cycle!StopFail, Cycle!Fail, Cycle!Delete, Cycle!TypeOK
  <2>4. CASE Cycle!Rearm
    <3>1. CASE Cycle!Ready
      BY <2>4, <3>1 DEF Cycle!Rearm, Cycle!Delete, Cycle!TypeOK
    <3>2. CASE ~Cycle!Ready
      <4>1. Cycle!Arm(Long) /\ advPc' = "idle" /\ UNCHANGED <<Cycle!flags, Cycle!ble>>
            /\ ~bl_adv_started
        BY <2>4, <3>2 DEF Cycle!Rearm
      <4>2. advFails' = 0 => advFails = 0
        BY <4>1 DEF Cycle!Arm, Cycle!Fail, Cycle!TypeOK
      <4>3. advFails' = 0 => armed' = TRUE /\ period' = Long
        BY <4>1, ArmSucceeds
      <4> QED BY <4>1, <4>2, <4>3
    <3> QED BY <3>1, <3>2
  <2>5. CASE Cycle!Check
    BY <2>5 DEF Cycle!Check, Cycle!Delete, Cycle!TypeOK
  <2>6. CASE Cycle!Start
    <3>1. Cycle!Arm(Short) /\ advPc' = "idle" /\ bl_adv_started' = TRUE
      BY <2>6 DEF Cycle!Start
    <3>2. advFails' = 0 => armed' = TRUE /\ period' = Short
      BY <3>1, ArmSucceeds
    <3> QED BY <3>1, <3>2
  <2>7. CASE Cycle!StartFail
    BY <2>7 DEF Cycle!StartFail, Cycle!Fail, Cycle!TypeOK
  <2>8. CASE Cycle!Connect
    BY <2>8 DEF Cycle!Connect
  <2>9. CASE Cycle!Disconnect
    BY <2>9 DEF Cycle!Disconnect
  <2>10. CASE Cycle!Zigbee
    BY <2>10 DEF Cycle!Zigbee
  <2>11. CASE UNCHANGED Cycle!vars
    BY <2>11 DEF Cycle!vars
  <2> QED
    BY <2>1, <2>2, <2>3, <2>4, <2>5, <2>6, <2>7, <2>8, <2>9, <2>10, <2>11
       DEF Cycle!Next, Cycle!Handler
<1> QED BY <1>1, <1>2, CycleTypeCorrect, PTL DEF Spec

(***************************************************************************)
(* BleDemo: the central of bledemo.                                        *)
(***************************************************************************)

\* The events of the central, those that lead to a scan, and those that colour its LED.
CQueue == queue["C"]
Colours == {"BLE_SCAN_START", "BLE_DEV_CONN", "BLE_DEV_DISCONN"}
Keys == {"KEY_2", "KEY_3"}
CEvents == Colours \cup Keys
ToScan == {"KEY_2", "BLE_DEV_DISCONN"}
Linked == link \in {"up", "ended"}

\* Every variable of the boards has both of them.
OnBoth == /\ DOMAIN queue = Demo!Boards /\ DOMAIN led = Demo!Boards
          /\ DOMAIN waiting = Demo!Boards /\ DOMAIN enabled = Demo!Boards

\* What the central is busy with, its queue aside.
Unit(x) == IF x THEN 1 ELSE 0
Busy == Unit(waiting["C"]) + Unit(enabled["C"] = "asked") + Unit(scanning) + Unit(link # "none")

\* Event e tells whether there is a link.
Tells(e) == e = "BLE_DEV_CONN" <=> Linked

\* The central does one thing at a time; its pointer is the link; and the newest event
\* that colours the LED, or the LED if there is none, tells of the link.
OneThing == CQueue \in Seq(CEvents) /\ Count(CQueue, ToScan) + Busy <= 1
Pointer == default_conn <=> link # "none"
Shown == /\ NoneBefore(CQueue, Colours, Len(CQueue) + 1) => (led["C"] = "green" <=> Linked)
         /\ \A e \in Newest(CQueue, Colours, Len(CQueue) + 1) : Tells(e)
DemoInv == OnBoth /\ OneThing /\ Pointer /\ Shown

\* The number of things is one.
LEMMA BusyNat == Busy \in Nat /\ Busy' \in Nat
BY DEF Busy, Unit

\* The queue of the central unchanged.
LEMMA AfterNone ==
  ASSUME DemoInv, OnBoth', Pointer', CQueue' = CQueue, Busy' <= Busy,
         led'["C"] = led["C"], Linked' <=> Linked
  PROVE  DemoInv'
<1>1. Count(CQueue, ToScan) \in Nat
  BY CountFinite DEF DemoInv, OneThing
<1>2. OneThing'
  BY <1>1, BusyNat DEF DemoInv, OneThing
<1>3. Shown'
  BY DEF DemoInv, Shown, Tells
<1> QED BY <1>2, <1>3 DEF DemoInv

\* An event posted to the central.
LEMMA AfterPost ==
  ASSUME DemoInv, OnBoth', Pointer', NEW e \in CEvents, CQueue' = Append(CQueue, e),
         Busy' + One(e, ToScan) <= Busy, led'["C"] = led["C"],
         IF e \in Colours THEN Tells(e)' ELSE Linked' <=> Linked
  PROVE  DemoInv'
<1>0. CQueue \in Seq(CEvents) /\ e \in CEvents /\ CQueue' = Append(CQueue, e)
  BY DEF DemoInv, OneThing
<1>1. /\ CQueue' \in Seq(CEvents)
      /\ Count(CQueue, ToScan) \in Nat /\ One(e, ToScan) \in Nat
      /\ Count(CQueue', ToScan) = Count(CQueue, ToScan) + One(e, ToScan)
  <2>1. CQueue' \in Seq(CEvents)
    BY <1>0, AppendProperties
  <2>2. Count(CQueue, ToScan) \in Nat
    BY <1>0, CountFinite
  <2>3. Count(Append(CQueue, e), ToScan) = Count(CQueue, ToScan) + One(e, ToScan)
    BY <1>0, CountAppend
  <2> QED BY <1>0, <2>1, <2>2, <2>3 DEF One
<1>2. OneThing'
  BY <1>1, BusyNat DEF DemoInv, OneThing
<1>3. /\ e \in Colours => /\ Newest(CQueue', Colours, Len(CQueue') + 1) = {e}
                          /\ ~NoneBefore(CQueue', Colours, Len(CQueue') + 1)
      /\ e \notin Colours =>
           /\ Newest(CQueue', Colours, Len(CQueue') + 1) = Newest(CQueue, Colours, Len(CQueue) + 1)
           /\ NoneBefore(CQueue', Colours, Len(CQueue') + 1)
              <=> NoneBefore(CQueue, Colours, Len(CQueue) + 1)
  <2>1. /\ e \in Colours => /\ Newest(Append(CQueue, e), Colours, Len(Append(CQueue, e)) + 1) = {e}
                            /\ ~NoneBefore(Append(CQueue, e), Colours, Len(Append(CQueue, e)) + 1)
        /\ e \notin Colours =>
             /\ Newest(Append(CQueue, e), Colours, Len(Append(CQueue, e)) + 1)
                = Newest(CQueue, Colours, Len(CQueue) + 1)
             /\ NoneBefore(Append(CQueue, e), Colours, Len(Append(CQueue, e)) + 1)
                <=> NoneBefore(CQueue, Colours, Len(CQueue) + 1)
    BY <1>0, NewestAppend
  <2> QED BY <1>0, <2>1
<1>4. Shown'
  BY <1>3 DEF DemoInv, Shown, Tells
<1> QED BY <1>2, <1>4 DEF DemoInv

\* An event taken by the central's loop.
LEMMA AfterTake ==
  ASSUME DemoInv, OnBoth', Pointer', CQueue # <<>>, CQueue' = Tail(CQueue),
         Busy' <= Busy + One(Head(CQueue), ToScan), Linked' <=> Linked,
         IF Head(CQueue) \in Colours THEN led'["C"] = "green" <=> Head(CQueue) = "BLE_DEV_CONN"
         ELSE led'["C"] = led["C"]
  PROVE  DemoInv'
<1> DEFINE n == Len(CQueue') + 1
<1>1. /\ CQueue \in Seq(CEvents) /\ CQueue' \in Seq(CEvents)
      /\ Count(CQueue', ToScan) \in Nat /\ One(Head(CQueue), ToScan) \in Nat
      /\ Count(CQueue, ToScan) = Count(CQueue', ToScan) + One(Head(CQueue), ToScan)
  BY HeadTailProperties, CountFinite, CountTail DEF DemoInv, OneThing, One
<1>2. OneThing'
  BY <1>1, BusyNat DEF DemoInv, OneThing
<1>3. /\ n \in 1..Len(CQueue') + 1 /\ n + 1 = Len(CQueue) + 1
      /\ \A i \in 1..Len(CQueue') + 1 :
           /\ Newest(CQueue', Colours, i) \subseteq Newest(CQueue, Colours, i + 1)
           /\ NoneBefore(CQueue', Colours, i) /\ Head(CQueue) \notin Colours
              => NoneBefore(CQueue, Colours, i + 1)
           /\ NoneBefore(CQueue', Colours, i) /\ Head(CQueue) \in Colours
              => Head(CQueue) \in Newest(CQueue, Colours, i + 1)
  BY <1>1, NewestTail
<1>4. /\ Newest(CQueue', Colours, n) \subseteq Newest(CQueue, Colours, Len(CQueue) + 1)
      /\ NoneBefore(CQueue', Colours, n) /\ Head(CQueue) \notin Colours
         => NoneBefore(CQueue, Colours, Len(CQueue) + 1)
      /\ NoneBefore(CQueue', Colours, n) /\ Head(CQueue) \in Colours
         => Head(CQueue) \in Newest(CQueue, Colours, Len(CQueue) + 1)
  BY <1>3
<1>5. Shown'
  BY <1>4 DEF DemoInv, Shown, Tells
<1> QED BY <1>2, <1>5 DEF DemoInv

\* On a board where the long press is all that happened, nothing is connected.
LEMMA DemoInit == Demo!Init => DemoInv
<1> SUFFICES ASSUME Demo!Init PROVE DemoInv
  OBVIOUS
<1>1. OnBoth /\ Pointer
  BY DEF Demo!Init, Demo!Both, Demo!Boards, OnBoth, Pointer
<1>2. CQueue = <<"KEY_2">> /\ Busy = 0 /\ ~Linked /\ led["C"] = "off"
  BY DEF Demo!Init, Demo!Both, Demo!Boards, CQueue, Busy, Unit, Linked
<1>3. CQueue = Append(<<>>, "KEY_2") /\ <<>> \in Seq(CEvents) /\ "KEY_2" \in CEvents
  BY <1>2 DEF CEvents, Keys
<1>4. CQueue \in Seq(CEvents) /\ Count(CQueue, ToScan) <= 1
  <2>1. Count(<<>>, ToScan) = 0
    BY FS_EmptySet DEF Count, Places
  <2>2. Count(CQueue, ToScan) = Count(<<>>, ToScan) + One("KEY_2", ToScan)
    BY <1>3, CountAppend
  <2> QED BY <1>3, <2>1, <2>2, AppendProperties DEF One
<1>5. OneThing
  <2>1. Count(CQueue, ToScan) \in Nat
    BY <1>4, CountFinite
  <2> QED BY <1>2, <1>4, <2>1 DEF OneThing
<1>6. Shown
  <2>1. \A k \in 1..Len(CQueue) : CQueue[k] \notin Colours
    BY <1>2 DEF Colours
  <2>2. Newest(CQueue, Colours, Len(CQueue) + 1) = {}
    BY <1>4, <2>1, LenProperties DEF Newest
  <2> QED BY <1>2, <2>2 DEF Shown
<1> QED BY <1>1, <1>5, <1>6 DEF DemoInv

\* What board b's action on its own queue does to that of the central.
LEMMA OtherBoard ==
  ASSUME OnBoth, NEW x
  PROVE  /\ [queue EXCEPT !["P"] = x]["C"] = CQueue
         /\ [queue EXCEPT !["C"] = x]["C"] = x
         /\ \A b \in Demo!Boards : DOMAIN [queue EXCEPT ![b] = x] = Demo!Boards
BY DEF OnBoth, CQueue, Demo!Boards

\* While the central is busy with something else, there is no link, and it does not scan.
LEMMA OnlyOne ==
  ASSUME DemoInv
  PROVE  /\ Busy <= 1
         /\ CQueue # <<>> /\ Head(CQueue) \in ToScan => Busy = 0
<1>1. CQueue \in Seq(CEvents) /\ Count(CQueue, ToScan) \in Nat /\ Count(CQueue, ToScan) + Busy <= 1
  BY CountFinite DEF DemoInv, OneThing
<1>2. ASSUME CQueue # <<>>, Head(CQueue) \in ToScan PROVE Count(CQueue, ToScan) >= 1
  <2>1. Count(CQueue, ToScan) = Count(Tail(CQueue), ToScan) + One(Head(CQueue), ToScan)
    BY <1>1, <1>2, CountTail
  <2>2. Tail(CQueue) \in Seq(CEvents)
    BY <1>1, <1>2, HeadTailProperties
  <2>3. Count(Tail(CQueue), ToScan) \in Nat
    BY <2>2, CountFinite
  <2> QED BY <1>2, <2>1, <2>3 DEF One
<1> QED BY <1>1, <1>2, BusyNat

\* Both boards, and the link between them, keep the invariant.
LEMMA DemoNext == DemoInv /\ [Demo!Next]_(Demo!vars) => DemoInv'
<1> SUFFICES ASSUME DemoInv, [Demo!Next]_(Demo!vars) PROVE DemoInv'
  OBVIOUS
<1> USE DEF Demo!boards, Demo!peripheral, Demo!central, Demo!radio, Demo!Boards
<1>0. OnBoth /\ Pointer /\ CQueue \in Seq(CEvents)
  BY DEF DemoInv, OneThing
<1>1. ASSUME OnBoth', UNCHANGED <<waiting, enabled, led, scanning, default_conn>>,
             link' = link \/ (link = "up" /\ link' = "ended"), CQueue' = CQueue
      PROVE  DemoInv'
  <2>1. (link' = "none" <=> link = "none") /\ (Linked' <=> Linked)
    BY <1>1 DEF Linked
  <2>2. Pointer'
    BY <1>0, <1>1, <2>1 DEF Pointer
  <2>3. Busy' = Busy
    BY <1>1, <2>1 DEF Busy, Unit
  <2> QED BY <1>1, <2>1, <2>2, <2>3, BusyNat, AfterNone
<1>2. ASSUME NEW b \in Demo!Boards, Demo!Press(b) PROVE DemoInv'
  <2>1. OnBoth' /\ queue' = [queue EXCEPT ![b] = Append(@, "KEY_3")]
        /\ UNCHANGED <<waiting, enabled, led, scanning, default_conn, link>>
    BY <1>0, <1>2, OtherBoard DEF Demo!Press, Demo!Post, OnBoth
  <2>2. CASE b = "P"
    BY <1>0, <1>1, <2>1, <2>2, OtherBoard DEF CQueue
  <2>3. CASE b = "C"
    <3>1. CQueue' = Append(CQueue, "KEY_3")
      BY <1>0, <2>1, <2>3 DEF CQueue, OnBoth
    <3>2. "KEY_3" \in CEvents /\ "KEY_3" \notin Colours /\ One("KEY_3", ToScan) = 0
      BY DEF CEvents, Keys, Colours, ToScan, One
    <3>3. Busy' + One("KEY_3", ToScan) <= Busy /\ Pointer' /\ (Linked' <=> Linked)
      BY <1>0, <2>1, <3>2, BusyNat DEF Busy, Linked, Pointer
    <3> QED BY <2>1, <3>1, <3>2, <3>3, AfterPost
  <2> QED BY <2>2, <2>3
\* The loops.
<1>3. ASSUME NEW b \in Demo!Boards, Demo!Begin(b) PROVE DemoInv'
  <2>1. OnBoth' /\ queue' = [queue EXCEPT ![b] = Tail(@)]
        /\ enabled' = [enabled EXCEPT ![b] = "asked"]
        /\ UNCHANGED <<waiting, led, scanning, default_conn, link>>
    BY <1>0, <1>3 DEF Demo!Begin, Demo!Done, OnBoth
  <2>2. CASE b = "P"
    <3>1. CQueue' = CQueue /\ enabled'["C"] = enabled["C"]
      BY <1>0, <2>1, <2>2 DEF OnBoth, CQueue
    <3>2. Busy' = Busy /\ (Linked' <=> Linked) /\ Pointer'
      BY <1>0, <2>1, <3>1 DEF Busy, Linked, Pointer
    <3> QED BY <2>1, <3>1, <3>2, AfterNone, BusyNat
  <2>3. CASE b = "C"
    <3>1. CQueue # <<>> /\ CQueue' = Tail(CQueue) /\ Head(CQueue) \in {"KEY_1", "KEY_2"}
      BY <1>0, <1>3, <2>1, <2>3 DEF Demo!Begin, Demo!Is, OnBoth, CQueue
    <3>2. Head(CQueue) = "KEY_2" /\ Head(CQueue) \notin Colours /\ One(Head(CQueue), ToScan) = 1
      <4>1. Head(CQueue) \in CEvents
        BY <1>0, <3>1, HeadTailProperties
      <4> QED BY <3>1, <4>1 DEF CEvents, Colours, Keys, ToScan, One
    <3>3. Busy' <= Busy + 1
      BY <1>0, <2>1, <2>3 DEF Busy, Unit
    <3> QED BY <1>0, <2>1, <3>1, <3>2, <3>3, AfterTake DEF Linked, Pointer
  <2> QED BY <2>2, <2>3
<1>4. ASSUME NEW b \in Demo!Boards, Demo!Done(b), CQueue # <<>> \/ b = "P",
             b = "C" => Head(CQueue) \notin Colours,
             UNCHANGED <<waiting, led, enabled, scanning, default_conn, link>>
      PROVE  DemoInv'
  <2>1. OnBoth'
    BY <1>0, <1>4 DEF Demo!Done, OnBoth
  <2>2. CASE b = "P"
    <3>1. CQueue' = CQueue
      BY <1>0, <1>4, <2>2 DEF Demo!Done, OnBoth, CQueue
    <3> QED BY <1>1, <1>4, <2>1, <3>1
  <2>3. CASE b = "C"
    <3>1. CQueue # <<>> /\ CQueue' = Tail(CQueue)
      BY <1>0, <1>4, <2>3 DEF Demo!Done, OnBoth, CQueue
    <3>2. Busy' = Busy /\ (Linked' <=> Linked) /\ Pointer' /\ led'["C"] = led["C"]
      BY <1>0, <1>4 DEF Busy, Linked, Pointer
    <3>3. Busy' <= Busy + One(Head(CQueue), ToScan)
      BY <3>2, BusyNat DEF One
    <3> QED BY <1>4, <2>1, <2>3, <3>1, <3>2, <3>3, AfterTake
  <2> QED BY <2>2, <2>3
<1>5. CASE Demo!Notify
  BY <1>4, <1>5 DEF Demo!Notify
<1>6. CASE Demo!Write
  BY <1>0, <1>4, <1>6 DEF Demo!Write, Demo!Is, CQueue, Colours
<1>7. ASSUME NEW b \in Demo!Boards, Demo!Show(b) PROVE DemoInv'
  <2>1. OnBoth' /\ queue' = [queue EXCEPT ![b] = Tail(@)]
        /\ led' = [led EXCEPT ![b] = Demo!Colour(Head(queue[b]))]
        /\ UNCHANGED <<waiting, enabled, scanning, default_conn, link>>
    BY <1>0, <1>7 DEF Demo!Show, Demo!Done, OnBoth
  <2>2. CASE b = "P"
    <3>1. CQueue' = CQueue /\ led'["C"] = led["C"]
      BY <1>0, <2>1, <2>2 DEF OnBoth, CQueue
    <3>2. Busy' = Busy /\ (Linked' <=> Linked) /\ Pointer'
      BY <1>0, <2>1, <3>1 DEF Busy, Linked, Pointer
    <3> QED BY <2>1, <3>1, <3>2, AfterNone, BusyNat
  <2>3. CASE b = "C"
    <3>1. /\ CQueue # <<>> /\ CQueue' = Tail(CQueue)
          /\ Head(CQueue) \in {"BLE_ADV_START", "BLE_SCAN_START", "BLE_DEV_CONN"}
          /\ led'["C"] = Demo!Colour(Head(CQueue))
      BY <1>0, <1>7, <2>1, <2>3 DEF Demo!Show, Demo!Is, OnBoth, CQueue
    <3>2. Head(CQueue) \in Colours
      <4>1. Head(CQueue) \in CEvents
        BY <1>0, <3>1, HeadTailProperties
      <4> QED BY <3>1, <4>1 DEF CEvents, Colours, Keys
    <3>3. led'["C"] = "green" <=> Head(CQueue) = "BLE_DEV_CONN"
      BY <3>1 DEF Demo!Colour
    <3>4. Busy' = Busy /\ (Linked' <=> Linked) /\ Pointer'
      BY <1>0, <2>1 DEF Busy, Linked, Pointer
    <3>5. Busy' <= Busy + One(Head(CQueue), ToScan)
      BY <3>4, BusyNat DEF One
    <3> QED BY <2>1, <3>1, <3>2, <3>3, <3>4, <3>5, AfterTake
  <2> QED BY <2>2, <2>3
<1>8. ASSUME NEW b \in Demo!Boards, Demo!Rest(b) PROVE DemoInv'
  <2>1. OnBoth' /\ queue' = [queue EXCEPT ![b] = Tail(@)]
        /\ led' = [led EXCEPT ![b] = Demo!Colour("BLE_DEV_DISCONN")]
        /\ waiting' = [waiting EXCEPT ![b] = TRUE]
        /\ UNCHANGED <<enabled, scanning, default_conn, link>>
    BY <1>0, <1>8 DEF Demo!Rest, Demo!Done, OnBoth
  <2>2. CASE b = "P"
    <3>1. CQueue' = CQueue /\ led'["C"] = led["C"] /\ waiting'["C"] = waiting["C"]
      BY <1>0, <2>1, <2>2 DEF OnBoth, CQueue
    <3>2. Busy' = Busy /\ (Linked' <=> Linked) /\ Pointer'
      BY <1>0, <2>1, <3>1 DEF Busy, Linked, Pointer
    <3> QED BY <2>1, <3>1, <3>2, AfterNone, BusyNat
  <2>3. CASE b = "C"
    <3>1. /\ CQueue # <<>> /\ CQueue' = Tail(CQueue) /\ Head(CQueue) = "BLE_DEV_DISCONN"
          /\ led'["C"] = Demo!Colour("BLE_DEV_DISCONN")
      BY <1>0, <1>8, <2>1, <2>3 DEF Demo!Rest, Demo!Is, OnBoth, CQueue
    <3>2. Head(CQueue) \in Colours /\ One(Head(CQueue), ToScan) = 1
      BY <3>1 DEF Colours, ToScan, One
    <3>3. led'["C"] # "green"
      BY <3>1 DEF Demo!Colour
    <3>4. Busy' <= Busy + 1 /\ (Linked' <=> Linked) /\ Pointer'
      BY <1>0, <2>1, <2>3 DEF Busy, Unit, Linked, Pointer
    <3> QED BY <2>1, <3>1, <3>2, <3>3, <3>4, AfterTake
  <2> QED BY <2>2, <2>3
\* Advertising again concerns the peripheral alone; scanning is posted to the central.
<1>9. ASSUME Demo!AdvStart PROVE DOMAIN queue' = Demo!Boards /\ CQueue' = CQueue
  BY <1>0, <1>9 DEF Demo!AdvStart, Demo!Post, OnBoth, CQueue
<1>10. ASSUME Demo!ScanStart, OnBoth', Pointer', led' = led, link' = link,
              Unit(waiting'["C"]) + Unit(enabled'["C"] = "asked") + 1
              <= Unit(waiting["C"]) + Unit(enabled["C"] = "asked"),
              Unit(waiting["C"]) + Unit(enabled["C"] = "asked") >= 1
       PROVE  DemoInv'
  <2>1. link = "none" /\ ~scanning
    BY <1>10, OnlyOne DEF Busy, Unit
  <2>2. CASE scanning' = TRUE /\ Demo!Post("C", "BLE_SCAN_START")
    <3>1. CQueue' = Append(CQueue, "BLE_SCAN_START")
      BY <1>0, <2>2 DEF Demo!Post, OnBoth, CQueue
    <3>2. /\ "BLE_SCAN_START" \in CEvents /\ "BLE_SCAN_START" \in Colours
         /\ One("BLE_SCAN_START", ToScan) = 0
      BY DEF CEvents, Colours, ToScan, One
    <3>3. Tells("BLE_SCAN_START")'
      BY <1>10, <2>1 DEF Tells, Linked
    <3>4. Busy' <= Busy
      <4>1. Unit(scanning') = 1 /\ Unit(scanning) = 0
        BY <2>1, <2>2 DEF Unit
      <4>2. Unit(link' # "none") = Unit(link # "none") /\ Unit(link # "none") \in Nat
        BY <1>10 DEF Unit
      <4>3. /\ Unit(waiting["C"]) \in Nat /\ Unit(enabled["C"] = "asked") \in Nat
            /\ Unit(waiting'["C"]) \in Nat /\ Unit(enabled'["C"] = "asked") \in Nat
        BY DEF Unit
      <4> QED BY <1>10, <4>1, <4>2, <4>3 DEF Busy
    <3> QED BY <1>10, <3>1, <3>2, <3>3, <3>4, BusyNat, AfterPost
  <2>3. CASE UNCHANGED <<scanning, queue>>
    <3>1. Busy' <= Busy /\ CQueue' = CQueue /\ (Linked' <=> Linked)
      BY <1>10, <2>1, <2>3 DEF Busy, Unit, CQueue, Linked
    <3> QED BY <1>10, <3>1, AfterNone
  <2> QED BY <1>10, <2>2, <2>3 DEF Demo!ScanStart
<1>11. ASSUME NEW b \in Demo!Boards, Demo!Again(b) PROVE DemoInv'
  <2>1. /\ waiting[b] /\ waiting' = [waiting EXCEPT ![b] = FALSE]
        /\ UNCHANGED <<led, enabled, default_conn, link>>
        /\ \/ b = "P" /\ Demo!AdvStart /\ UNCHANGED scanning
           \/ b = "C" /\ Demo!ScanStart
    BY <1>11 DEF Demo!Again
  <2>2. CASE b = "P"
    <3>1. CQueue' = CQueue /\ OnBoth' /\ waiting'["C"] = waiting["C"]
      BY <1>0, <1>9, <2>1, <2>2 DEF OnBoth
    <3> QED BY <1>0, <2>1, <2>2, <3>1, AfterNone, BusyNat DEF Busy, Linked, Pointer
  <2>3. CASE b = "C"
    <3>1. OnBoth' /\ Pointer' /\ ~waiting'["C"] /\ waiting["C"]
      BY <1>0, <2>1, <2>3 DEF OnBoth, Pointer, Demo!ScanStart, Demo!Post
    <3> QED BY <1>10, <2>1, <2>3, <3>1 DEF Unit
  <2> QED BY <2>2, <2>3
\* The Bluetooth tasks.
<1>12. CASE Demo!ReadyP
  <2>1. /\ Demo!AdvStart /\ enabled' = [enabled EXCEPT !["P"] = "yes"]
        /\ UNCHANGED <<waiting, led, scanning, default_conn, link>>
    BY <1>12 DEF Demo!ReadyP
  <2>2. CQueue' = CQueue /\ OnBoth' /\ enabled'["C"] = enabled["C"]
    BY <1>0, <1>9, <2>1 DEF OnBoth
  <2> QED BY <1>0, <2>1, <2>2, AfterNone, BusyNat DEF Busy, Linked, Pointer
<1>13. CASE Demo!ReadyC
  <2>1. /\ Demo!ScanStart /\ enabled["C"] = "asked" /\ enabled' = [enabled EXCEPT !["C"] = "yes"]
        /\ UNCHANGED <<waiting, led, default_conn, link>>
    BY <1>13 DEF Demo!ReadyC
  <2>2. OnBoth' /\ Pointer' /\ enabled'["C"] = "yes"
    BY <1>0, <2>1 DEF OnBoth, Pointer, Demo!ScanStart, Demo!Post
  <2> QED BY <1>10, <2>1, <2>2 DEF Unit
<1>14. ASSUME NEW r \in Rssi, Demo!Found(r) PROVE DemoInv'
  <2>1. /\ scanning /\ ~scanning' /\ UNCHANGED <<queue, waiting, led, enabled>>
        /\ \/ link' = "pending" /\ default_conn'
           \/ ~default_conn' /\ UNCHANGED link
    BY <1>14 DEF Demo!Found
  <2>2. link = "none"
    BY <2>1, OnlyOne DEF Busy, Unit
  <2>3. OnBoth' /\ Pointer' /\ CQueue' = CQueue /\ led'["C"] = led["C"] /\ (Linked' <=> Linked)
    BY <1>0, <2>1, <2>2 DEF OnBoth, Pointer, CQueue, Linked
  <2>4. Busy' <= Busy
    BY <2>1, <2>2 DEF Busy, Unit
  <2> QED BY <2>3, <2>4, AfterNone
<1>15. CASE Demo!Connected
  <2>1. /\ link = "pending" /\ link' = "up"
        /\ queue' = [b \in Demo!Boards |-> Append(queue[b], "BLE_DEV_CONN")]
        /\ UNCHANGED <<waiting, led, enabled, scanning, default_conn>>
    BY <1>15 DEF Demo!Connected
  <2>2. CQueue' = Append(CQueue, "BLE_DEV_CONN") /\ OnBoth' /\ Pointer'
    BY <1>0, <2>1 DEF CQueue, OnBoth, Pointer
  <2>3. "BLE_DEV_CONN" \in CEvents /\ "BLE_DEV_CONN" \in Colours /\ One("BLE_DEV_CONN", ToScan) = 0
    BY DEF CEvents, Colours, ToScan, One
  <2>4. Tells("BLE_DEV_CONN")' /\ Busy' = Busy
    BY <2>1 DEF Tells, Linked, Busy, Unit
  <2> QED BY <2>1, <2>2, <2>3, <2>4, BusyNat, AfterPost
<1>16. CASE Demo!ConnectError
  <2>1. /\ link = "pending" /\ link' = "none" /\ ~default_conn'
        /\ UNCHANGED <<queue, waiting, led, enabled, scanning>>
    BY <1>16 DEF Demo!ConnectError
  <2>2. OnBoth' /\ Pointer' /\ CQueue' = CQueue /\ led'["C"] = led["C"] /\ (Linked' <=> Linked)
    BY <1>0, <2>1 DEF OnBoth, Pointer, CQueue, Linked
  <2>3. Busy' <= Busy
    BY <2>1 DEF Busy, Unit
  <2> QED BY <2>2, <2>3, AfterNone
<1>17. CASE Demo!Discover
  BY <1>0, <1>1, <1>17 DEF Demo!Discover, OnBoth, CQueue
<1>18. CASE Demo!DisconnectedP
  BY <1>0, <1>1, <1>18 DEF Demo!DisconnectedP, Demo!Post, OnBoth, CQueue
<1>19. CASE Demo!DisconnectedC
  <2>1. /\ link = "ended" /\ link' = "none" /\ ~default_conn'
        /\ queue' = [queue EXCEPT !["C"] = Append(@, "BLE_DEV_DISCONN")]
        /\ UNCHANGED <<waiting, led, enabled, scanning>>
    BY <1>19 DEF Demo!DisconnectedC, Demo!Post
  <2>2. CQueue' = Append(CQueue, "BLE_DEV_DISCONN") /\ OnBoth' /\ Pointer'
    BY <1>0, <2>1 DEF CQueue, OnBoth, Pointer
  <2>3. /\ "BLE_DEV_DISCONN" \in CEvents /\ "BLE_DEV_DISCONN" \in Colours
       /\ One("BLE_DEV_DISCONN", ToScan) = 1
    BY DEF CEvents, Colours, ToScan, One
  <2>4. Tells("BLE_DEV_DISCONN")' /\ Busy' + 1 <= Busy
    BY <2>1 DEF Tells, Linked, Busy, Unit
  <2> QED BY <2>1, <2>2, <2>3, <2>4, AfterPost
<1>20. CASE UNCHANGED Demo!vars
  BY <1>0, <1>1, <1>20 DEF Demo!vars, OnBoth, CQueue
<1> QED
  BY <1>2, <1>3, <1>5, <1>6, <1>7, <1>8, <1>11, <1>12, <1>13, <1>14, <1>15, <1>16, <1>17, <1>18,
     <1>19, <1>20 DEF Demo!Next, Demo!Loop, Demo!Stack

\* The same of a step of Programs.
LEMMA DemoStep == DemoInv /\ [Next]_vars => DemoInv'
<1>1. [Next]_vars => [Demo!Next]_(Demo!vars)
  BY Apart DEF RunDemo, demo, Demo!vars, Demo!boards, Demo!peripheral, Demo!central, Demo!radio
<1> QED BY <1>1, DemoNext

\* The central of bledemo follows one connection at a time: it scans only while it has none,
\* and its pointer is set exactly from asking for one until that ended.
THEOREM FollowsOneConnection == Spec => []OneConnection
<1>1. Init => DemoInv
  BY DemoInit DEF Init
<1>2. DemoInv => OneConnection
  BY OnlyOne DEF DemoInv, Pointer, OneConnection, Demo!OneConnection, Busy, Unit
<1> QED BY <1>1, <1>2, DemoStep, PTL DEF Spec

\* When the loop of the central has caught up, its LED is green exactly while it has a link.
THEOREM LedTells == Spec => []LedOfCentral
<1>1. Init => DemoInv
  BY DemoInit DEF Init
<1>2. DemoInv => LedOfCentral
  <2> SUFFICES ASSUME DemoInv, queue["C"] = <<>>
               PROVE  led["C"] = "green" <=> link \in {"up", "ended"}
    BY DEF LedOfCentral, Demo!LedOfCentral, Demo!Idle
  <2>1. NoneBefore(CQueue, Colours, Len(CQueue) + 1)
    BY DEF NoneBefore, CQueue
  <2> QED BY <2>1 DEF DemoInv, Shown, Linked
<1> QED BY <1>1, <1>2, DemoStep, PTL DEF Spec

(***************************************************************************)
(* The reading of numbers.  The loop of __add_num_thousand is a function of *)
(* the rounds, and the values are sums, so that both are followed by        *)
(* induction over the rounds, or the places, done; the three sections and   *)
(* the fraction are then cut apart again where a listener hears their words.*)
(***************************************************************************)

\* Induction over the numbers, as a fact about sets: the least number outside S has a
\* predecessor in S.
LEMMA SetInduction ==
  ASSUME NEW S, 0 \in S, \A n \in Nat : n \in S => n + 1 \in S
  PROVE  Nat \subseteq S
<1> DEFINE T == {n \in Nat : n \notin S}
           R == OpToRel(<, Nat)
<1> SUFFICES ASSUME T # {} PROVE FALSE
  OBVIOUS
<1>1. IsWellFoundedOn(R, Nat)
  BY NatLessThanWellFounded
<1>2. T \subseteq Nat
  OBVIOUS
<1>3. R = {ss \in Nat \X Nat : ss[1] < ss[2]}
  BY DEF OpToRel
<1> HIDE DEF R
<1>4. PICK x \in T : \A y \in T : ~(<<y, x>> \in R)
  BY <1>1, <1>2, WFMin
<1>5. x \in Nat \ {0}
  OBVIOUS
<1>6. x - 1 \in T /\ <<x - 1, x>> \in R
  BY <1>3, <1>5
<1> QED BY <1>4, <1>6

\* h holds the first n sums of f.
Sums(h, f, n) == h = [k \in 0..n |-> IF k = 0 THEN 0 ELSE h[k - 1] + f[k]]

\* There are such sums.
LEMMA SumsExist == ASSUME NEW f PROVE \A n \in Nat : \E h : Sums(h, f, n)
<1> DEFINE S == {n \in Nat : \E h : Sums(h, f, n)}
<1>1. 0 \in S
  <2> DEFINE h == [k \in 0..0 |-> 0]
  <2>1. h = [k \in 0..0 |-> IF k = 0 THEN 0 ELSE h[k - 1] + f[k]]
    OBVIOUS
  <2> QED BY <2>1 DEF Sums
<1>2. ASSUME NEW n \in Nat, n \in S PROVE n + 1 \in S
  <2>1. PICK h : Sums(h, f, n)
    BY <1>2
  <2> DEFINE g == [k \in 0..n + 1 |-> IF k = n + 1 THEN h[n] + f[n + 1] ELSE h[k]]
  <2>2. \A k \in 0..n : h[k] = IF k = 0 THEN 0 ELSE h[k - 1] + f[k]
    BY <2>1 DEF Sums
  <2>3. \A k \in 0..n : g[k] = h[k]
    OBVIOUS
  <2>4. g[n + 1] = h[n] + f[n + 1]
    OBVIOUS
  <2>5. DOMAIN g = 0..n + 1 /\ g = [k \in 0..n + 1 |-> g[k]]
    OBVIOUS
  <2> HIDE DEF g
  <2>6. \A k \in 0..n + 1 : g[k] = IF k = 0 THEN 0 ELSE g[k - 1] + f[k]
    <3> SUFFICES ASSUME NEW k \in 0..n + 1 PROVE g[k] = IF k = 0 THEN 0 ELSE g[k - 1] + f[k]
      OBVIOUS
    <3>1. CASE k = n + 1
      BY <2>3, <2>4, <3>1
    <3>2. CASE k \in 0..n
      BY <2>2, <2>3, <3>2
    <3> QED BY <3>1, <3>2
  <2>7. g = [k \in 0..n + 1 |-> IF k = 0 THEN 0 ELSE g[k - 1] + f[k]]
    BY <2>5, <2>6
  <2> QED BY <2>7 DEF Sums
<1> HIDE DEF S
<1>3. Nat \subseteq S
  BY <1>1, <1>2, SetInduction
<1> QED BY <1>3 DEF S

\* There is one sequence of them: a longer one agrees with a shorter one.
LEMMA SumsAgree ==
  ASSUME NEW f, NEW g, NEW h, NEW n \in Nat, NEW m \in Nat, n <= m, Sums(g, f, n), Sums(h, f, m)
  PROVE  \A k \in 0..n : g[k] = h[k]
<1> DEFINE S == {k \in Nat : k <= n => g[k] = h[k]}
<1>1. /\ \A k \in 0..n : g[k] = IF k = 0 THEN 0 ELSE g[k - 1] + f[k]
      /\ \A k \in 0..n : h[k] = IF k = 0 THEN 0 ELSE h[k - 1] + f[k]
  <2>1. \A k \in 0..n : k \in 0..m
    OBVIOUS
  <2> QED BY <2>1 DEF Sums
<1>2. 0 \in S
  BY <1>1
<1>3. ASSUME NEW k \in Nat, k \in S PROVE k + 1 \in S
  BY <1>1, <1>3
<1> HIDE DEF S
<1>4. Nat \subseteq S
  BY <1>2, <1>3, SetInduction
<1> QED BY <1>4 DEF S

\* Total is the last of the sums.
LEMMA TotalSums ==
  ASSUME NEW f, NEW n \in Nat
  PROVE  \E h : Sums(h, f, n) /\ Reading!Total(f, n) = h[n]
<1> DEFINE h == CHOOSE h : Sums(h, f, n)
<1>1. Sums(h, f, n)
  BY SumsExist
<1>2. Reading!Total(f, n) = h[n]
  BY DEF Reading!Total, Sums
<1> QED BY <1>1, <1>2

\* Total sums up: of no element it is 0, and each element adds itself.
LEMMA TotalStep ==
  ASSUME NEW f
  PROVE  /\ Reading!Total(f, 0) = 0
         /\ \A n \in Nat : Reading!Total(f, n + 1) = Reading!Total(f, n) + f[n + 1]
<1>1. Reading!Total(f, 0) = 0
  BY TotalSums DEF Sums
<1>2. ASSUME NEW n \in Nat PROVE Reading!Total(f, n + 1) = Reading!Total(f, n) + f[n + 1]
  <2>1. PICK g : Sums(g, f, n) /\ Reading!Total(f, n) = g[n]
    BY TotalSums
  <2>2. PICK h : Sums(h, f, n + 1) /\ Reading!Total(f, n + 1) = h[n + 1]
    BY TotalSums
  <2>3. h[n + 1] = h[n] + f[n + 1]
    BY <2>2 DEF Sums
  <2>4. g[n] = h[n]
    BY <2>1, <2>2, SumsAgree
  <2> QED BY <2>1, <2>2, <2>3, <2>4
<1> QED BY <1>1, <1>2

\* A total of natural numbers is one.
LEMMA TotalNat ==
  ASSUME NEW f, NEW n \in Nat, \A i \in 1..n : f[i] \in Nat
  PROVE  Reading!Total(f, n) \in Nat
<1> DEFINE S == {k \in Nat : k <= n => Reading!Total(f, k) \in Nat}
<1>1. 0 \in S
  BY TotalStep
<1>2. ASSUME NEW k \in Nat, k \in S PROVE k + 1 \in S
  BY <1>2, TotalStep
<1> HIDE DEF S
<1>3. Nat \subseteq S
  BY <1>1, <1>2, SetInduction
<1> QED BY <1>3 DEF S

\* A total is that of the first p elements and that of the others.
LEMMA TotalSplit ==
  ASSUME NEW f, NEW g, NEW p \in Nat, NEW n \in Nat,
         \A i \in 1..p + n : f[i] \in Nat, \A i \in 1..n : g[i] = f[p + i]
  PROVE  Reading!Total(f, p + n) = Reading!Total(f, p) + Reading!Total(g, n)
<1> DEFINE S == {k \in Nat : k <= n =>
                   Reading!Total(f, p + k) = Reading!Total(f, p) + Reading!Total(g, k)}
<1>0. Reading!Total(f, p) \in Nat
  BY TotalNat
<1>1. 0 \in S
  BY <1>0, TotalStep
<1>2. ASSUME NEW k \in Nat, k \in S PROVE k + 1 \in S
  <2> SUFFICES ASSUME k + 1 <= n
               PROVE  Reading!Total(f, p + (k + 1)) = Reading!Total(f, p) + Reading!Total(g, k + 1)
    OBVIOUS
  <2>1. /\ Reading!Total(f, (p + k) + 1) = Reading!Total(f, p + k) + f[(p + k) + 1]
        /\ Reading!Total(g, k + 1) = Reading!Total(g, k) + g[k + 1]
    BY TotalStep
  <2>2. g[k + 1] = f[p + (k + 1)] /\ (p + k) + 1 = p + (k + 1)
    OBVIOUS
  <2>3. f[p + (k + 1)] \in Nat /\ \A i \in 1..k : g[i] \in Nat
    OBVIOUS
  <2>4. Reading!Total(g, k) \in Nat
    BY <2>3, TotalNat
  <2> QED BY <1>0, <1>2, <2>1, <2>2, <2>3, <2>4
<1> HIDE DEF S
<1>3. Nat \subseteq S
  BY <1>1, <1>2, SetInduction
<1> QED BY <1>3 DEF S

\* Equal elements have equal totals.
LEMMA TotalAgree ==
  ASSUME NEW f, NEW g, NEW n \in Nat, \A i \in 1..n : f[i] = g[i]
  PROVE  Reading!Total(f, n) = Reading!Total(g, n)
<1> DEFINE S == {k \in Nat : k <= n => Reading!Total(f, k) = Reading!Total(g, k)}
<1>1. 0 \in S
  BY TotalStep
<1>2. ASSUME NEW k \in Nat, k \in S PROVE k + 1 \in S
  <2>1. /\ Reading!Total(f, k + 1) = Reading!Total(f, k) + f[k + 1]
        /\ Reading!Total(g, k + 1) = Reading!Total(g, k) + g[k + 1]
    BY TotalStep
  <2>2. k + 1 <= n => k <= n /\ f[k + 1] = g[k + 1]
    OBVIOUS
  <2> QED BY <1>2, <2>1, <2>2
<1> HIDE DEF S
<1>3. Nat \subseteq S
  BY <1>1, <1>2, SetInduction
<1> QED BY <1>3 DEF S

\* The words of a section: the digits, and the words for their places.
Marks == 0..12
\* What the word at i adds to the value of its section.
Weight(w) == [i \in 1..Len(w) |->
                IF w[i] < Reading!TEN THEN w[i] * Reading!Power[Reading!Place(w, i) + 1] ELSE 0]

\* A word of a section stands for a power that there is, and adds a natural number.
LEMMA WeightNat ==
  ASSUME NEW w \in Seq(Marks), NEW i \in 1..Len(w)
  PROVE  /\ Reading!Place(w, i) \in 0..3
         /\ Weight(w)[i] \in Nat
         /\ w[i] \in Marks
<1>1. Len(w) \in Nat /\ \A j \in 1..Len(w) : w[j] \in 0..12
  BY LenProperties, ElementOfSeq DEF Marks
<1>2. Reading!Place(w, i) \in 0..3
  BY <1>1 DEF Reading!Place, Reading!TEN
<1>3. Reading!Power[Reading!Place(w, i) + 1] \in Nat
  <2>1. ASSUME NEW x \in 0..3 PROVE Reading!Power[x + 1] \in Nat
    BY DEF Reading!Power
  <2> QED BY <1>2, <2>1
<1> HIDE DEF Reading!Place
<1>4. Weight(w)[i] = IF w[i] < Reading!TEN THEN w[i] * Reading!Power[Reading!Place(w, i) + 1] ELSE 0
  BY DEF Weight
<1>5. ASSUME NEW a \in Nat, NEW b \in Nat PROVE a * b \in Nat
  OBVIOUS
<1>6. w[i] * Reading!Power[Reading!Place(w, i) + 1] \in Nat
  BY <1>1, <1>3, <1>5, SMTT(30)
<1> QED BY <1>1, <1>2, <1>4, <1>6 DEF Marks

\* Putting words in front of a section that begins with a digit shifts what stands in it
\* and adds the values.
LEMMA InFront ==
  ASSUME NEW pre \in Seq(Marks), NEW w \in Seq(Marks), w # <<>> => w[1] < Reading!TEN
  PROVE  LET v == pre \o w
             p == Len(pre)
         IN  /\ v \in Seq(Marks) /\ p \in Nat /\ Len(w) \in Nat /\ Len(v) = p + Len(w)
             /\ \A i \in 1..Len(w) : v[p + i] = w[i] /\ Reading!Place(v, p + i) = Reading!Place(w, i)
             /\ \A i \in 1..p : v[i] = pre[i] /\ Reading!Place(v, i) = Reading!Place(pre, i)
             /\ Reading!SectionValue(v) = Reading!SectionValue(pre) + Reading!SectionValue(w)
<1> DEFINE v == pre \o w
           p == Len(pre)
           n == Len(w)
<1>1. v \in Seq(Marks) /\ p \in Nat /\ n \in Nat /\ Len(v) = p + n
  BY ConcatProperties, LenProperties
<1>2. /\ \A i \in 1..p : v[i] = pre[i]
      /\ \A i \in 1..n : v[p + i] = w[i]
  <2>1. \A i \in 1..p + n : v[i] = IF i <= p THEN pre[i] ELSE w[i - p]
    BY ConcatProperties
  <2>2. \A i \in 1..n : p + i \in 1..p + n /\ ~(p + i <= p) /\ (p + i) - p = i
    BY <1>1
  <2>3. \A i \in 1..p : i \in 1..p + n /\ i <= p
    BY <1>1
  <2> HIDE DEF v, p, n
  <2> QED BY <2>1, <2>2, <2>3
<1>3. n > 0 => w[1] < Reading!TEN
  BY EmptySeq
<1> HIDE DEF v, p, n
<1>4. \A i \in 1..n : Reading!Place(v, p + i) = Reading!Place(w, i)
  <2> SUFFICES ASSUME NEW i \in 1..n PROVE Reading!Place(v, p + i) = Reading!Place(w, i)
    OBVIOUS
  <2>1. i < n => v[p + i + 1] = w[i + 1]
    <3>1. i < n => i + 1 \in 1..n /\ p + (i + 1) = p + i + 1
      BY <1>1
    <3> QED BY <1>2, <3>1
  <2>2. p + i < p + n <=> i < n
    BY <1>1
  <2> QED BY <1>1, <2>1, <2>2 DEF Reading!Place, n
<1>5. \A i \in 1..p : Reading!Place(v, i) = Reading!Place(pre, i)
  <2> SUFFICES ASSUME NEW i \in 1..p PROVE Reading!Place(v, i) = Reading!Place(pre, i)
    OBVIOUS
  <2>1. CASE i < p
    <3>1. v[i + 1] = pre[i + 1] /\ i < p + n
      BY <1>1, <1>2, <2>1
    <3> QED BY <1>1, <2>1, <3>1 DEF Reading!Place, p
  <2>2. CASE i = p
    <3>1. i < p + n => 1 \in 1..n /\ v[i + 1] = w[1] /\ n > 0
      BY <1>1, <1>2, <2>2
    <3>2. n > 0 => w[1] \in Int
      <4>1. n > 0 => 1 \in 1..n
        BY <1>1
      <4> QED BY <4>1, WeightNat DEF n, Marks
    <3>3. i < p + n => ~(v[i + 1] >= Reading!TEN)
      BY <1>3, <3>1, <3>2 DEF Reading!TEN
    <3> QED BY <1>1, <2>2, <3>3 DEF Reading!Place, p
  <2> QED BY <1>1, <2>1, <2>2
<1>6. Reading!Total(Weight(v), p + n) = Reading!Total(Weight(v), p) + Reading!Total(Weight(w), n)
  <2>1. \A i \in 1..p + n : Weight(v)[i] \in Nat
    BY <1>1, WeightNat
  <2>2. \A i \in 1..n : Weight(w)[i] = Weight(v)[p + i]
    <3> SUFFICES ASSUME NEW i \in 1..n PROVE Weight(w)[i] = Weight(v)[p + i]
      OBVIOUS
    <3>1. p + i \in 1..Len(v)
      BY <1>1
    <3> HIDE DEF Reading!Place
    <3> QED BY <1>1, <1>2, <1>4, <3>1 DEF Weight, n
  <2> DEFINE f == Weight(v)
             g == Weight(w)
  <2>3. (\A i \in 1..p + n : f[i] \in Nat) /\ (\A i \in 1..n : g[i] = f[p + i])
    BY <2>1, <2>2
  <2>4. p \in Nat /\ n \in Nat
    BY <1>1
  <2> HIDE DEF f, g
  <2>5. Reading!Total(f, p + n) = Reading!Total(f, p) + Reading!Total(g, n)
    BY <2>3, <2>4, TotalSplit
  <2> QED BY <2>5 DEF f, g
<1>7. Reading!Total(Weight(v), p) = Reading!Total(Weight(pre), p)
  <2>1. \A i \in 1..p : Weight(v)[i] = Weight(pre)[i]
    <3> SUFFICES ASSUME NEW i \in 1..p PROVE Weight(pre)[i] = Weight(v)[i]
      OBVIOUS
    <3>1. i \in 1..Len(v)
      BY <1>1
    <3> HIDE DEF Reading!Place
    <3> QED BY <1>1, <1>2, <1>5, <3>1 DEF Weight, p
  <2> QED BY <1>1, <2>1, TotalAgree
<1>8. Reading!SectionValue(v) = Reading!SectionValue(pre) + Reading!SectionValue(w)
  <2>1. \A u : Reading!SectionValue(u) = Reading!Total(Weight(u), Len(u))
    BY DEF Reading!SectionValue, Weight
  <2> QED BY <1>1, <1>6, <1>7, <2>1 DEF p, n
<1> QED BY <1>1, <1>2, <1>4, <1>5, <1>8 DEF v, p, n

\* Between a digit and the one that follows it stands one zero where a place is skipped,
\* and none where none is.
Gap(w, i, j) ==
  /\ Reading!Place(w, j) < Reading!Place(w, i)
  /\ \A k \in i..j : w[k] = 0 <=> k = j - 1 /\ Reading!Place(w, j) + 1 # Reading!Place(w, i)
Gaps(w) == \A i, j \in 1..Len(w) : Reading!Follows(w, i, j) => Gap(w, i, j)

\* Words put in front of a section leave the gaps within it as they are.
LEMMA GapsInFront ==
  ASSUME NEW pre \in Seq(Marks), NEW w \in Seq(Marks), w # <<>> => w[1] < Reading!TEN, Gaps(w),
         NEW i \in 1..Len(pre \o w), NEW j \in 1..Len(pre \o w),
         i > Len(pre), Reading!Follows(pre \o w, i, j)
  PROVE  Gap(pre \o w, i, j)
<1> DEFINE v == pre \o w
           p == Len(pre)
           n == Len(w)
<1>1. /\ v \in Seq(Marks) /\ p \in Nat /\ n \in Nat /\ Len(v) = p + n
      /\ \A k \in 1..n : v[p + k] = w[k] /\ Reading!Place(v, p + k) = Reading!Place(w, k)
  BY InFront
<1>2. i \in 1..Len(v) /\ j \in 1..Len(v) /\ i > p /\ Reading!Follows(v, i, j)
  OBVIOUS
<1> SUFFICES Gap(v, i, j)
  OBVIOUS
<1>3. DOMAIN v = 1..Len(v) /\ DOMAIN w = 1..n
  BY <1>1, LenProperties
<1> HIDE DEF v, p, n
<1> DEFINE a == i - p
           b == j - p
<1>4. i < j /\ j > p /\ v[i] \in 1..9 /\ v[j] \in 1..9
      /\ \A k \in 1..Len(v) : v[k] \in 1..9 => k <= i \/ k >= j
  <2>1. Reading!Spoken(v) = {k \in 1..Len(v) : v[k] \in 1..9}
    BY <1>3 DEF Reading!Spoken
  <2>2. i < j /\ i \in Reading!Spoken(v) /\ j \in Reading!Spoken(v)
        /\ \A k \in Reading!Spoken(v) : k <= i \/ k >= j
    BY <1>2 DEF Reading!Follows
  <2> QED BY <1>1, <1>2, <2>1, <2>2
<1>5. a \in 1..n /\ b \in 1..n /\ p + a = i /\ p + b = j /\ a < b
  BY <1>1, <1>2, <1>4
<1> HIDE DEF a, b
<1>6. v[i] = w[a] /\ v[j] = w[b] /\ Reading!Place(v, i) = Reading!Place(w, a)
      /\ Reading!Place(v, j) = Reading!Place(w, b)
  BY <1>1, <1>5
<1>7. Reading!Follows(w, a, b)
  <2>1. ASSUME NEW k \in 1..n, w[k] \in 1..9 PROVE k <= a \/ k >= b
    <3>1. p + k \in 1..Len(v) /\ v[p + k] \in 1..9
      BY <1>1, <2>1, SMTT(30)
    <3>2. p + k <= i \/ p + k >= j
      BY <1>4, <3>1
    <3> QED BY <1>1, <1>5, <3>2
  <2> QED BY <1>3, <1>4, <1>5, <1>6, <2>1 DEF Reading!Follows, Reading!Spoken
<1>8. Gap(w, a, b)
  BY <1>5, <1>7 DEF Gaps, n
<1>9. ASSUME NEW k \in i..j
      PROVE  v[k] = 0 <=> k = j - 1 /\ Reading!Place(v, j) + 1 # Reading!Place(v, i)
  <2>1. k - p \in a..b /\ k - p \in 1..n /\ p + (k - p) = k /\ (k = j - 1 <=> k - p = b - 1)
    BY <1>1, <1>5
  <2>2. v[k] = w[k - p]
    BY <1>1, <2>1
  <2>3. w[k - p] = 0 <=> k - p = b - 1 /\ Reading!Place(w, b) + 1 # Reading!Place(w, a)
    BY <1>8, <2>1 DEF Gap
  <2> QED BY <1>6, <2>1, <2>2, <2>3
<1> QED BY <1>6, <1>8, <1>9 DEF Gap

\* What the first k digits of a section sound like, once the leading one of them is known.
Heard(w, k) ==
  /\ w \in Seq(Marks)
  /\ w # <<>> => w[1] \in 0..9 /\ w[Len(w)] # 0
  /\ Gaps(w)
  /\ w # <<>> /\ w[1] # 0 => Reading!Place(w, 1) = k - 1
  /\ w # <<>> /\ w[1] = 0 => Len(w) >= 2 /\ w[2] \in 1..9 /\ Reading!Place(w, 2) < k - 1

\* Of leading zeros, or of no digit, nothing is heard.
LEMMA HeardNothing ==
  Heard(<<>>, 0) /\ \A k \in Nat : Heard(<<>>, k) => Heard(<<>>, k + 1)
<1>1. <<>> \in Seq(Marks) /\ Len(<<>>) = 0
  BY EmptySeq
<1> QED BY <1>1 DEF Heard, Gaps

\* A zero is put in front of a section that begins with a digit.
LEMMA HeardZero ==
  ASSUME NEW k \in Nat, NEW w, Heard(w, k), w # <<>>, w[1] # 0
  PROVE  LET v == <<0>> \o w
         IN  /\ Heard(v, k + 1) /\ v # <<>> /\ v[1] = 0
             /\ Reading!SectionValue(v) = Reading!SectionValue(<<0>>) + Reading!SectionValue(w)
<1> DEFINE pre == <<0>>
           v == pre \o w
<1>1. pre \in Seq(Marks) /\ Len(pre) = 1 /\ pre[1] = 0
  BY DEF Marks
<1>2. w \in Seq(Marks) /\ w[1] \in 1..9 /\ w[Len(w)] # 0 /\ Gaps(w) /\ Reading!Place(w, 1) = k - 1
      /\ Len(w) \in Nat /\ Len(w) > 0
  BY EmptySeq DEF Heard
<1>3. w[1] < Reading!TEN
  BY <1>2 DEF Reading!TEN
<1> HIDE DEF pre
<1>4. /\ v \in Seq(Marks) /\ Len(v) = 1 + Len(w)
      /\ \A i \in 1..Len(w) : v[1 + i] = w[i] /\ Reading!Place(v, 1 + i) = Reading!Place(w, i)
      /\ v[1] = 0
      /\ Reading!SectionValue(v) = Reading!SectionValue(pre) + Reading!SectionValue(w)
  <2>1. /\ v \in Seq(Marks) /\ Len(v) = Len(pre) + Len(w)
        /\ \A i \in 1..Len(w) : v[Len(pre) + i] = w[i]
                               /\ Reading!Place(v, Len(pre) + i) = Reading!Place(w, i)
        /\ \A i \in 1..Len(pre) : v[i] = pre[i] /\ Reading!Place(v, i) = Reading!Place(pre, i)
        /\ Reading!SectionValue(v) = Reading!SectionValue(pre) + Reading!SectionValue(w)
    BY <1>1, <1>2, <1>3, InFront, Zenon
  <2> HIDE DEF v
  <2> QED BY <1>1, <2>1
<1>5. Gaps(v)
  <2> SUFFICES ASSUME NEW i \in 1..Len(v), NEW j \in 1..Len(v), Reading!Follows(v, i, j)
               PROVE  Gap(v, i, j)
    BY DEF Gaps
  <2>1. v[i] \in 1..9
    BY DEF Reading!Follows, Reading!Spoken
  <2>2. i > 1
    <3> HIDE DEF v
    <3> QED BY <1>2, <1>4, <2>1
  <2>3. i > Len(pre) /\ Gaps(w) /\ (w # <<>> => w[1] < Reading!TEN)
        /\ pre \in Seq(Marks) /\ w \in Seq(Marks)
    BY <1>1, <1>2, <1>3, <2>2
  <2> QED BY <2>3, GapsInFront, Zenon
<1> HIDE DEF v
<1>6. v[Len(v)] # 0
  BY <1>2, <1>4
<1>7. v[2] = w[1] /\ Reading!Place(v, 2) = k - 1 /\ v # <<>>
  <2>1. 1 \in 1..Len(w) /\ 1 + 1 = 2
    BY <1>2
  <2>2. v # <<>>
    BY <1>2, <1>4, EmptySeq
  <2> QED BY <1>2, <1>4, <2>1, <2>2
<1> QED BY <1>2, <1>4, <1>5, <1>6, <1>7 DEF Heard, v, pre

\* A digit, with its unit, is put in front of anything.
LEMMA HeardDigit ==
  ASSUME NEW k \in 1..3, NEW w, Heard(w, k), NEW d \in 1..9
  PROVE  LET pre == <<d, Reading!TEN - 1 + k>>
             v == pre \o w
         IN  /\ Heard(v, k + 1) /\ v # <<>> /\ v[1] = d
             /\ Reading!SectionValue(v) = Reading!SectionValue(pre) + Reading!SectionValue(w)
<1> DEFINE pre == <<d, Reading!TEN - 1 + k>>
           v == pre \o w
<1>1. pre \in Seq(Marks) /\ Len(pre) = 2 /\ pre[1] = d /\ pre[2] \in 10..12 /\ Reading!Place(pre, 1) = k
  BY DEF Marks, Reading!Place, Reading!TEN
<1>2. w \in Seq(Marks) /\ Gaps(w) /\ Len(w) \in Nat
  BY LenProperties DEF Heard
<1>3. w # <<>> => w[1] < Reading!TEN
  BY DEF Reading!TEN, Heard
<1> HIDE DEF pre
<1>4. /\ v \in Seq(Marks) /\ Len(v) = 2 + Len(w)
      /\ \A i \in 1..Len(w) : v[2 + i] = w[i] /\ Reading!Place(v, 2 + i) = Reading!Place(w, i)
      /\ v[1] = d /\ v[2] \in 10..12 /\ Reading!Place(v, 1) = k
      /\ Reading!SectionValue(v) = Reading!SectionValue(pre) + Reading!SectionValue(w)
  <2>1. /\ v \in Seq(Marks) /\ Len(v) = Len(pre) + Len(w)
        /\ \A i \in 1..Len(w) : v[Len(pre) + i] = w[i]
                               /\ Reading!Place(v, Len(pre) + i) = Reading!Place(w, i)
        /\ \A i \in 1..Len(pre) : v[i] = pre[i] /\ Reading!Place(v, i) = Reading!Place(pre, i)
        /\ Reading!SectionValue(v) = Reading!SectionValue(pre) + Reading!SectionValue(w)
    BY <1>1, <1>2, <1>3, InFront, Zenon
  <2> HIDE DEF v
  <2> QED BY <1>1, <2>1
<1>5. DOMAIN v = 1..Len(v)
  BY <1>4, LenProperties
<1>6. Gaps(v)
  <2> SUFFICES ASSUME NEW i \in 1..Len(v), NEW j \in 1..Len(v), Reading!Follows(v, i, j)
               PROVE  Gap(v, i, j)
    BY DEF Gaps
  <2>1. CASE i > 2
    <3>1. i > Len(pre) /\ Gaps(w) /\ (w # <<>> => w[1] < Reading!TEN)
          /\ pre \in Seq(Marks) /\ w \in Seq(Marks)
      BY <1>1, <1>2, <1>3, <2>1
    <3> QED BY <3>1, GapsInFront, Zenon
  <2>2. CASE i <= 2
    <3> HIDE DEF v
    <3>1. v[i] \in 1..9 /\ v[j] \in 1..9 /\ i < j
          /\ \A m \in 1..Len(v) : v[m] \in 1..9 => m <= i \/ m >= j
      BY <1>5 DEF Reading!Follows, Reading!Spoken
    <3>2. i = 1
      BY <1>4, <2>2, <3>1, SMTT(30)
    <3>3. j > 2 /\ Len(w) > 0 /\ w # <<>>
      BY <1>2, <1>4, <3>1, <3>2, EmptySeq, SMTT(30)
    <3>4. v[3] = w[1] /\ Reading!Place(v, 3) = Reading!Place(w, 1) /\ 3 \in 1..Len(v)
      <4>1. 1 \in 1..Len(w) /\ 2 + 1 = 3
        BY <1>2, <3>3
      <4> QED BY <1>2, <1>4, <4>1
    <3>5. CASE w[1] # 0
      <4>1. w[1] \in 1..9 /\ Reading!Place(w, 1) = k - 1
        BY <3>3, <3>5 DEF Heard
      <4>2. j = 3
        BY <3>1, <3>2, <3>3, <3>4, <4>1
      <4>3. \A m \in 1..3 : v[m] # 0
        BY <1>4, <3>4, <4>1, SMTT(30)
      <4> QED BY <1>4, <3>2, <3>4, <4>1, <4>2, <4>3 DEF Gap
    <3>6. CASE w[1] = 0
      <4>1. Len(w) >= 2 /\ w[2] \in 1..9 /\ Reading!Place(w, 2) < k - 1
        BY <3>3, <3>6 DEF Heard
      <4>2. v[4] = w[2] /\ Reading!Place(v, 4) = Reading!Place(w, 2) /\ 4 \in 1..Len(v)
        <5>1. 2 \in 1..Len(w) /\ 2 + 2 = 4
          BY <1>2, <4>1
        <5> QED BY <1>2, <1>4, <5>1
      <4>3. j = 4
        BY <3>1, <3>2, <3>3, <3>4, <3>6, <4>1, <4>2, SMTT(30)
      <4>4. \A m \in 1..4 : v[m] = 0 <=> m = 3
        <5>1. v[1] # 0 /\ v[2] # 0 /\ v[3] = 0 /\ v[4] # 0
          BY <1>4, <3>4, <3>6, <4>1, <4>2, SMTT(30)
        <5>2. \A m \in 1..4 : m = 1 \/ m = 2 \/ m = 3 \/ m = 4
          OBVIOUS
        <5> QED BY <5>1, <5>2
      <4>5. Reading!Place(w, 2) \in 0..3
        BY <1>2, <4>1, WeightNat
      <4> QED BY <1>4, <3>2, <4>1, <4>2, <4>3, <4>4, <4>5 DEF Gap
    <3> QED BY <3>5, <3>6
  <2> QED BY <2>1, <2>2
<1> HIDE DEF v
<1>7. v[Len(v)] # 0
  <2>1. CASE w = <<>>
    BY <1>2, <1>4, <2>1
  <2>2. CASE w # <<>>
    <3>1. w[Len(w)] # 0 /\ Len(w) > 0
      BY <1>2, <2>2, EmptySeq DEF Heard
    <3> QED BY <1>2, <1>4, <3>1
  <2> QED BY <2>1, <2>2
<1>8. v # <<>>
  BY <1>2, <1>4, EmptySeq
<1> QED BY <1>4, <1>6, <1>7, <1>8 DEF Heard, v, pre

\* The units are heard without a word for their place.
LEMMA HeardUnits ==
  ASSUME NEW d \in 1..9
  PROVE  /\ Heard(<<d>>, 1) /\ <<d>> # <<>> /\ <<d>>[1] = d
<1> DEFINE w == <<d>>
<1>1. w \in Seq(Marks) /\ Len(w) = 1 /\ w[1] = d /\ w # <<>> /\ DOMAIN w = 1..1
  BY DEF Marks
<1> HIDE DEF w
<1>2. Reading!Place(w, 1) = 0
  BY <1>1 DEF Reading!Place
<1>3. Gaps(w)
  BY <1>1 DEF Gaps, Reading!Follows
<1> QED BY <1>1, <1>2, <1>3 DEF Heard, w

\* What the digit at i adds to the value of the number.
Digits(ds) == [i \in 1..Len(ds) |-> ds[i] * Reading!Power[i]]

\* The state of __add_num_thousand after k digits, when w is what it has put in front.
State(k, w, behind) ==
  [place |-> k, first |-> w # <<>>, zero |-> w # <<>> /\ w[1] = 0, words |-> w \o behind]
After(st, k, behind, ds) ==
  \E w : /\ Heard(w, k)
         /\ st = State(k, w, behind)
         /\ Reading!SectionValue(w) = Reading!Total(Digits(ds), k)
         /\ k > 0 => (ds[k] # 0 => w # <<>> /\ w[1] = ds[k])

\* The words of single digits.
LEMMA WordValues ==
  /\ Reading!SectionValue(<<>>) = 0
  /\ \A d \in 0..9 : Reading!SectionValue(<<d>>) = d
  /\ \A d \in 0..9, k \in 1..3 :
       Reading!SectionValue(<<d, Reading!TEN - 1 + k>>) = d * Reading!Power[k + 1]
<1>1. Reading!SectionValue(<<>>) = 0
  BY TotalStep DEF Reading!SectionValue
<1>2. ASSUME NEW d \in 0..9 PROVE Reading!SectionValue(<<d>>) = d
  <2> DEFINE w == <<d>>
  <2>1. Len(w) = 1 /\ w[1] = d /\ w \in Seq(Marks)
    BY DEF Marks
  <2> HIDE DEF w
  <2>2. Weight(w)[1] = d
    <3>1. Reading!Place(w, 1) = 0
      BY <2>1 DEF Reading!Place
    <3>2. Reading!Power[1] = 1
      BY DEF Reading!Power
    <3>3. Weight(w)[1] = w[1] * Reading!Power[Reading!Place(w, 1) + 1]
      BY <2>1 DEF Weight, Reading!TEN
    <3> QED BY <2>1, <3>1, <3>2, <3>3
  <2>3. Reading!Total(Weight(w), 0 + 1) = Reading!Total(Weight(w), 0) + Weight(w)[0 + 1]
        /\ Reading!Total(Weight(w), 0) = 0
    BY TotalStep
  <2>4. Reading!SectionValue(w) = Reading!Total(Weight(w), 1)
    BY <2>1 DEF Reading!SectionValue, Weight
  <2> QED BY <2>2, <2>3, <2>4 DEF w
<1>3. ASSUME NEW d \in 0..9, NEW k \in 1..3
      PROVE  Reading!SectionValue(<<d, Reading!TEN - 1 + k>>) = d * Reading!Power[k + 1]
  <2> DEFINE w == <<d, Reading!TEN - 1 + k>>
  <2>1. Len(w) = 2 /\ w[1] = d /\ w[2] = 9 + k
    BY DEF Reading!TEN
  <2> HIDE DEF w
  <2>2. Weight(w)[1] = d * Reading!Power[k + 1] /\ Weight(w)[2] = 0
    <3>1. Reading!Place(w, 1) = k
      BY <2>1 DEF Reading!Place, Reading!TEN
    <3>2. Weight(w)[1] = w[1] * Reading!Power[Reading!Place(w, 1) + 1] /\ Weight(w)[2] = 0
      BY <2>1 DEF Weight, Reading!TEN
    <3> QED BY <2>1, <3>1, <3>2
  <2>3. /\ Reading!Total(Weight(w), 0 + 1) = Reading!Total(Weight(w), 0) + Weight(w)[0 + 1]
        /\ Reading!Total(Weight(w), 1 + 1) = Reading!Total(Weight(w), 1) + Weight(w)[1 + 1]
        /\ Reading!Total(Weight(w), 0) = 0
    BY TotalStep
  <2>4. Reading!SectionValue(w) = Reading!Total(Weight(w), 2)
    BY <2>1 DEF Reading!SectionValue, Weight
  <2>5. d * Reading!Power[k + 1] \in Nat
    <3>1. \A x \in 1..3 : Reading!Power[x + 1] \in Nat
      BY DEF Reading!Power
    <3>2. \A a, b \in Nat : a * b \in Nat
      OBVIOUS
    <3> QED BY <3>1, <3>2
  <2> QED BY <2>2, <2>3, <2>4, <2>5 DEF w
<1> QED BY <1>1, <1>2, <1>3

\* Putting one thing and another in front.
LEMMA Nested ==
  ASSUME NEW a \in Seq(0..15), NEW b \in Seq(0..15), NEW c \in Seq(0..15)
  PROVE  a \o (b \o c) = (a \o b) \o c
BY ConcatAssociative, SMTT(30)

\* Two words are one in front of the other.
LEMMA Pair == ASSUME NEW a \in 0..15, NEW b \in 0..15 PROVE <<a>> \o <<b>> = <<a, b>>
<1> DEFINE s == <<a>> \o <<b>>
           t == <<a, b>>
<1>1. <<a>> \in Seq(0..15) /\ <<b>> \in Seq(0..15) /\ Len(<<a>>) = 1 /\ Len(<<b>>) = 1
      /\ <<a>>[1] = a /\ <<b>>[1] = b
  OBVIOUS
<1>2. s \in Seq(0..15) /\ Len(s) = 2 /\ s[1] = a /\ s[2] = b
  BY <1>1, ConcatProperties
<1>3. t \in Seq(0..15) /\ Len(t) = 2 /\ t[1] = a /\ t[2] = b
  OBVIOUS
<1> HIDE DEF s, t
<1>4. \A i \in 1..Len(s) : s[i] = t[i]
  BY <1>2, <1>3
<1>5. s = t
  BY <1>2, <1>3, <1>4, SeqEqual
<1> QED BY <1>5 DEF s, t

\* A round of the loop says one digit more.
LEMMA NextRound ==
  ASSUME NEW ds \in Seq(0..9), Len(ds) <= 4, NEW behind \in Seq(0..15),
         NEW k \in 0..Len(ds) - 1, NEW st, After(st, k, behind, ds)
  PROVE  After(Reading!AddDigit(st, ds[k + 1]), k + 1, behind, ds)
<1> DEFINE d == ds[k + 1]
           next == Reading!AddDigit(st, d)
<1>1. PICK w : /\ Heard(w, k)
               /\ st = State(k, w, behind)
               /\ Reading!SectionValue(w) = Reading!Total(Digits(ds), k)
  BY DEF After
<1>2. Len(ds) \in Nat /\ k \in 0..3 /\ k + 1 \in 1..Len(ds) /\ d \in 0..9
  <2>1. Len(ds) \in Nat
    BY LenProperties
  <2>2. k + 1 \in 1..Len(ds)
    BY <2>1
  <2> QED BY <2>1, <2>2, ElementOfSeq
<1> HIDE DEF d
<1>3. /\ Reading!Total(Digits(ds), k + 1) = Reading!Total(Digits(ds), k) + Digits(ds)[k + 1]
      /\ Digits(ds)[k + 1] = d * Reading!Power[k + 1]
      /\ Reading!Total(Digits(ds), k) \in Nat
  <2>1. \A i \in 1..k : Digits(ds)[i] \in Nat
    <3> SUFFICES ASSUME NEW i \in 1..k PROVE Digits(ds)[i] \in Nat
      OBVIOUS
    <3>1. i \in 1..Len(ds) /\ i \in 1..4
      BY <1>2
    <3>2. ds[i] \in Nat
      BY <3>1, ElementOfSeq
    <3>3. \A x \in 1..4 : Reading!Power[x] \in Nat
      BY DEF Reading!Power
    <3>4. \A a, b \in Nat : a * b \in Nat
      OBVIOUS
    <3> QED BY <3>1, <3>2, <3>3, <3>4 DEF Digits
  <2>2. Reading!Total(Digits(ds), k) \in Nat
    BY <1>2, <2>1, TotalNat
  <2>3. Digits(ds)[k + 1] = d * Reading!Power[k + 1]
    BY <1>2 DEF Digits, d
  <2>4. k \in Nat
    BY <1>2
  <2>5. Reading!Total(Digits(ds), k + 1) = Reading!Total(Digits(ds), k) + Digits(ds)[k + 1]
    BY <2>4, TotalStep, Zenon
  <2> QED BY <2>2, <2>3, <2>5
<1>4. w \in Seq(Marks) /\ w \in Seq(0..15)
  BY <1>1, SeqMonotonic DEF Heard, Marks
<1>5. SUFFICES \E v : /\ Heard(v, k + 1)
                      /\ next = State(k + 1, v, behind)
                      /\ Reading!SectionValue(v) = Reading!SectionValue(w) + d * Reading!Power[k + 1]
                      /\ d # 0 => v # <<>> /\ v[1] = d
  BY <1>1, <1>2, <1>3 DEF After, d
<1>6. CASE d = 0 /\ (w = <<>> \/ w[1] = 0)
  <2>1. Heard(w, k + 1)
    <3>1. w # <<>> => 2 \in 1..Len(w) /\ Reading!Place(w, 2) < k - 1
      BY <1>1, <1>4, <1>6, LenProperties DEF Heard
    <3>2. w # <<>> => Reading!Place(w, 2) \in 0..3
      BY <1>4, <3>1, WeightNat
    <3>3. w # <<>> => Reading!Place(w, 2) < (k + 1) - 1
      BY <1>2, <3>1, <3>2
    <3> QED BY <1>1, <1>6, <3>3 DEF Heard
  <2>2. <<>> \o <<>> = <<>> /\ <<>> \o (w \o behind) = w \o behind
    <3>1. w \o behind \in Seq(0..15)
      BY <1>4, ConcatProperties
    <3> QED BY <3>1, ConcatEmptySeq, EmptySeq
  <2>3. next = State(k + 1, w, behind)
    <3>1. CASE w = <<>>
      <4>1. st = [place |-> k, first |-> FALSE, zero |-> FALSE, words |-> w \o behind]
        BY <1>1, <3>1 DEF State
      <4>2. next = [place |-> k + 1, first |-> FALSE, zero |-> FALSE, words |-> w \o behind]
        BY <1>6, <2>2, <4>1 DEF Reading!AddDigit
      <4> QED BY <3>1, <4>2 DEF State
    <3>2. CASE w # <<>> /\ w[1] = 0
      <4>1. st = [place |-> k, first |-> TRUE, zero |-> TRUE, words |-> w \o behind]
        BY <1>1, <3>2 DEF State
      <4>2. next = [place |-> k + 1, first |-> TRUE, zero |-> TRUE, words |-> w \o behind]
        BY <1>6, <2>2, <4>1 DEF Reading!AddDigit
      <4> QED BY <3>2, <4>2 DEF State
    <3> QED BY <1>6, <3>1, <3>2
  <2>4. Reading!SectionValue(w) = Reading!SectionValue(w) + d * Reading!Power[k + 1]
    <3>1. \A x \in 1..4 : Reading!Power[x] \in Nat
      BY DEF Reading!Power
    <3>2. \A a \in Nat : 0 * a = 0
      OBVIOUS
    <3>3. d * Reading!Power[k + 1] = 0
      BY <1>2, <1>6, <3>1, <3>2
    <3> QED BY <1>1, <1>3, <3>3
  <2> QED BY <1>6, <2>1, <2>3, <2>4
<1>7. CASE d = 0 /\ w # <<>> /\ w[1] # 0
  <2> DEFINE v == <<0>> \o w
  <2>1. /\ Heard(v, k + 1) /\ v # <<>> /\ v[1] = 0
        /\ Reading!SectionValue(v) = Reading!SectionValue(<<0>>) + Reading!SectionValue(w)
    BY <1>1, <1>2, <1>7, HeardZero
  <2>2. (<<0>> \o <<>>) \o (w \o behind) = v \o behind
    <3>1. <<0>> \in Seq(0..15)
      OBVIOUS
    <3> QED BY <1>4, <3>1, ConcatEmptySeq, Nested, SMTT(30)
  <2>3. next = State(k + 1, v, behind)
    <3>1. st = [place |-> k, first |-> TRUE, zero |-> FALSE, words |-> w \o behind]
      BY <1>1, <1>7 DEF State
    <3>2. next = [place |-> k + 1, first |-> TRUE, zero |-> TRUE,
                  words |-> (<<0>> \o <<>>) \o (w \o behind)]
      BY <1>7, <3>1 DEF Reading!AddDigit
    <3> HIDE DEF v
    <3> QED BY <2>1, <2>2, <3>2 DEF State
  <2>4. Reading!SectionValue(v) = Reading!SectionValue(w) + d * Reading!Power[k + 1]
    <3>1. \A x \in 1..4 : Reading!Power[x] \in Nat
      BY DEF Reading!Power
    <3>2. \A a \in Nat : 0 * a = 0
      OBVIOUS
    <3>3. d * Reading!Power[k + 1] = 0
      BY <1>2, <1>7, <3>1, <3>2
    <3> QED BY <1>1, <1>3, <2>1, <3>3, WordValues
  <2> QED BY <1>7, <2>1, <2>3, <2>4
<1>8. CASE d # 0 /\ k = 0
  <2> DEFINE v == <<d>>
  <2>1. w = <<>>
    <3> SUFFICES ASSUME w # <<>> PROVE FALSE
      OBVIOUS
    <3>1. Len(w) \in Nat \ {0}
      BY <1>4, EmptySeq
    <3>2. CASE w[1] # 0
      <4>1. Reading!Place(w, 1) = k - 1 /\ 1 \in 1..Len(w)
        BY <1>1, <3>1, <3>2 DEF Heard
      <4>2. Reading!Place(w, 1) \in 0..3
        BY <1>4, <4>1, WeightNat
      <4> QED BY <1>8, <4>1, <4>2
    <3>3. CASE w[1] = 0
      <4>1. Reading!Place(w, 2) < k - 1 /\ 2 \in 1..Len(w)
        BY <1>1, <3>1, <3>3 DEF Heard
      <4>2. Reading!Place(w, 2) \in 0..3
        BY <1>4, <4>1, WeightNat
      <4> QED BY <1>8, <4>1, <4>2
    <3> QED BY <3>2, <3>3
  <2>2. d \in 1..9
    BY <1>2, <1>8
  <2>3. Heard(v, k + 1) /\ v # <<>> /\ v[1] = d
    <3>1. k + 1 = 1
      BY <1>8
    <3> QED BY <2>2, <3>1, HeardUnits, Zenon
  <2>4. (<<d>> \o <<>>) \o (w \o behind) = v \o behind
    <3>1. <<d>> \in Seq(0..15)
      BY <1>2
    <3> QED BY <2>1, <3>1, ConcatEmptySeq
  <2>5. next = State(k + 1, v, behind)
    <3>1. st = [place |-> k, first |-> FALSE, zero |-> FALSE, words |-> w \o behind]
      BY <1>1, <2>1 DEF State
    <3>2. next = [place |-> k + 1, first |-> TRUE, zero |-> FALSE,
                  words |-> (<<d>> \o <<>>) \o (w \o behind)]
      <4>1. ~(Reading!TEN - 1 + k \in Reading!TEN..Reading!THOUSAND)
        BY <1>8 DEF Reading!TEN, Reading!THOUSAND
      <4>2. st.place = k /\ st.words = w \o behind /\ st.first = FALSE /\ st.zero = FALSE
        BY <3>1
      <4> QED BY <1>8, <4>1, <4>2 DEF Reading!AddDigit
    <3>3. v[1] # 0 /\ v # <<>>
      BY <2>2, <2>3
    <3> HIDE DEF v
    <3> QED BY <2>4, <3>2, <3>3 DEF State
  <2>6. Reading!SectionValue(v) = Reading!SectionValue(w) + d * Reading!Power[k + 1]
    <3>1. Reading!SectionValue(v) = d /\ Reading!SectionValue(w) = 0
      BY <1>2, <2>1, WordValues
    <3>2. Reading!Power[k + 1] = 1
      BY <1>8 DEF Reading!Power
    <3> QED BY <1>2, <3>1, <3>2
  <2> QED BY <2>3, <2>5, <2>6
<1>9. CASE d # 0 /\ k # 0
  <2> DEFINE pre == <<d, Reading!TEN - 1 + k>>
             v == pre \o w
  <2>1. d \in 1..9 /\ k \in 1..3
    BY <1>2, <1>9
  <2>2. /\ Heard(v, k + 1) /\ v # <<>> /\ v[1] = d
        /\ Reading!SectionValue(v) = Reading!SectionValue(pre) + Reading!SectionValue(w)
    BY <1>1, <2>1, HeardDigit
  <2>3. (<<d>> \o <<Reading!TEN - 1 + k>>) \o (w \o behind) = v \o behind
    <3>1. pre \in Seq(0..15)
      BY <2>1 DEF Reading!TEN
    <3>2. <<d>> \o <<Reading!TEN - 1 + k>> = pre
      <4>1. Reading!TEN - 1 + k \in 0..15 /\ d \in 0..15
        BY <2>1 DEF Reading!TEN
      <4> QED BY <4>1, Pair
    <3> QED BY <1>4, <3>1, <3>2, Nested, SMTT(30)
  <2>4. next = State(k + 1, v, behind)
    <3>1. /\ st.place = k /\ st.words = w \o behind
          /\ st.first \in BOOLEAN /\ st.zero \in BOOLEAN
      BY <1>1 DEF State
    <3>2. next = [place |-> k + 1, first |-> TRUE, zero |-> FALSE,
                  words |-> (<<d>> \o <<Reading!TEN - 1 + k>>) \o (w \o behind)]
      <4>1. Reading!TEN - 1 + k \in Reading!TEN..Reading!THOUSAND
        BY <2>1 DEF Reading!TEN, Reading!THOUSAND
      <4> QED BY <1>9, <3>1, <4>1 DEF Reading!AddDigit
    <3>3. v[1] # 0 /\ v # <<>>
      BY <2>1, <2>2
    <3> HIDE DEF v
    <3> QED BY <2>3, <3>2, <3>3 DEF State
  <2>5. Reading!SectionValue(v) = Reading!SectionValue(w) + d * Reading!Power[k + 1]
    <3>1. Reading!SectionValue(pre) = d * Reading!Power[k + 1]
      BY <1>2, <2>1, WordValues
    <3>2. d * Reading!Power[k + 1] \in Nat
      <4>1. \A x \in 1..3 : Reading!Power[x + 1] \in Nat
        BY DEF Reading!Power
      <4>2. \A a, b \in Nat : a * b \in Nat
        OBVIOUS
      <4> QED BY <2>1, <4>1, <4>2, SMTT(30)
    <3> QED BY <1>1, <1>3, <2>2, <3>1, <3>2
  <2> QED BY <2>2, <2>4, <2>5
<1> QED BY <1>6, <1>7, <1>8, <1>9

\* h holds the states of the first n rounds.
Rounds(h, behind, ds, n) ==
  h = [k \in 0..n |->
         IF k = 0 THEN [place |-> 0, first |-> FALSE, zero |-> FALSE, words |-> behind]
         ELSE Reading!AddDigit(h[k - 1], ds[k])]

\* There are such states.
LEMMA RoundsExist ==
  ASSUME NEW behind, NEW ds PROVE \A n \in Nat : \E h : Rounds(h, behind, ds, n)
<1> DEFINE S == {n \in Nat : \E h : Rounds(h, behind, ds, n)}
           start == [place |-> 0, first |-> FALSE, zero |-> FALSE, words |-> behind]
<1> HIDE DEF start
<1>1. 0 \in S
  <2> DEFINE h == [k \in 0..0 |-> start]
  <2>1. h = [k \in 0..0 |-> IF k = 0 THEN start ELSE Reading!AddDigit(h[k - 1], ds[k])]
    OBVIOUS
  <2> QED BY <2>1 DEF Rounds, start
<1>2. ASSUME NEW n \in Nat, n \in S PROVE n + 1 \in S
  <2>1. PICK h : Rounds(h, behind, ds, n)
    BY <1>2
  <2> DEFINE g == [k \in 0..n + 1 |->
                     IF k = n + 1 THEN Reading!AddDigit(h[n], ds[n + 1]) ELSE h[k]]
  <2>2. \A k \in 0..n : h[k] = IF k = 0 THEN start ELSE Reading!AddDigit(h[k - 1], ds[k])
    BY <2>1 DEF Rounds, start
  <2>3. /\ \A k \in 0..n : g[k] = h[k]
        /\ g[n + 1] = Reading!AddDigit(h[n], ds[n + 1])
        /\ g = [k \in 0..n + 1 |-> g[k]]
    OBVIOUS
  <2> HIDE DEF g
  <2>4. \A k \in 0..n + 1 : g[k] = IF k = 0 THEN start ELSE Reading!AddDigit(g[k - 1], ds[k])
    <3> SUFFICES ASSUME NEW k \in 0..n + 1
                 PROVE  g[k] = IF k = 0 THEN start ELSE Reading!AddDigit(g[k - 1], ds[k])
      OBVIOUS
    <3>1. CASE k = n + 1
      <4>1. g[k - 1] = h[n] /\ k # 0
        BY <2>3, <3>1
      <4> QED BY <2>3, <3>1, <4>1
    <3>2. CASE k \in 0..n
      <4>1. k # 0 => g[k - 1] = h[k - 1]
        <5>1. k # 0 => k - 1 \in 0..n
          BY <3>2
        <5> QED BY <2>3, <5>1
      <4> QED BY <2>2, <2>3, <3>2, <4>1
    <3> QED BY <3>1, <3>2
  <2>5. g = [k \in 0..n + 1 |-> IF k = 0 THEN start ELSE Reading!AddDigit(g[k - 1], ds[k])]
    BY <2>3, <2>4
  <2> QED BY <2>5 DEF Rounds, start
<1> HIDE DEF S
<1>3. Nat \subseteq S
  BY <1>1, <1>2, SetInduction
<1> QED BY <1>3 DEF S

\* __add_num_thousand says the digits of a number below 10000, its value and its zeros.
LEMMA Thousands ==
  ASSUME NEW ds \in Seq(0..9), ds # <<>>, Len(ds) <= 4, ds[Len(ds)] # 0, NEW behind \in Seq(0..15)
  PROVE  \E w \in Seq(Marks) :
           /\ Reading!AddThousand(behind, ds) = w \o behind
           /\ w # <<>> /\ w[1] \in 1..9 /\ Heard(w, Len(ds))
           /\ Reading!SectionValue(w) = Reading!DigitsValue(ds)
<1> DEFINE n == Len(ds)
           h == CHOOSE h : Rounds(h, behind, ds, n)
<1>1. n \in Nat \ {0}
  BY EmptySeq
<1>2. Rounds(h, behind, ds, n)
  BY <1>1, RoundsExist
<1>3. Reading!AddThousand(behind, ds) = h[n].words
  BY DEF Reading!AddThousand, Rounds
<1> HIDE DEF h
<1> DEFINE S == {k \in Nat : k <= n => After(h[k], k, behind, ds)}
<1>4. 0 \in S
  <2>1. h[0] = [place |-> 0, first |-> FALSE, zero |-> FALSE, words |-> behind]
    BY <1>1, <1>2 DEF Rounds
  <2>2. <<>> \o behind = behind
    BY ConcatEmptySeq
  <2>3. h[0] = State(0, <<>>, behind)
    BY <2>1, <2>2 DEF State
  <2>4. Reading!SectionValue(<<>>) = Reading!Total(Digits(ds), 0)
    BY WordValues, TotalStep
  <2>5. After(h[0], 0, behind, ds)
    BY <2>3, <2>4, HeardNothing DEF After
  <2> QED BY <2>5
<1>5. ASSUME NEW k \in Nat, k \in S PROVE k + 1 \in S
  <2> SUFFICES ASSUME k + 1 <= n PROVE After(h[k + 1], k + 1, behind, ds)
    OBVIOUS
  <2>1. k \in 0..n - 1 /\ k + 1 \in 0..n /\ k + 1 # 0 /\ (k + 1) - 1 = k
    BY <1>1
  <2>2. h[k + 1] = Reading!AddDigit(h[k], ds[k + 1])
    BY <1>2, <2>1 DEF Rounds
  <2>3. After(h[k], k, behind, ds)
    BY <1>1, <1>5, <2>1
  <2> QED BY <2>1, <2>2, <2>3, NextRound
<1> HIDE DEF S
<1>6. Nat \subseteq S
  BY <1>4, <1>5, SetInduction
<1>7. After(h[n], n, behind, ds)
  BY <1>1, <1>6 DEF S
<1>8. PICK w : /\ Heard(w, n)
               /\ h[n] = State(n, w, behind)
               /\ Reading!SectionValue(w) = Reading!Total(Digits(ds), n)
               /\ w # <<>> /\ w[1] = ds[n]
  BY <1>1, <1>7 DEF After
<1>9. h[n].words = w \o behind
  BY <1>8 DEF State
<1>10. ds[n] \in 1..9
  BY <1>1, ElementOfSeq
<1>11. Reading!Total(Digits(ds), n) = Reading!DigitsValue(ds)
  BY DEF Reading!DigitsValue, Digits
<1> QED BY <1>3, <1>8, <1>9, <1>10, <1>11 DEF Heard

\* A nonempty set of numbers with a bound has a greatest element.
LEMMA Greatest ==
  ASSUME NEW n \in Nat, NEW top \in SUBSET (1..n), top # {}
  PROVE  \E m \in top : \A j \in top : j <= m
<1> DEFINE S == {k \in Nat : \A t \in SUBSET (1..k) : t # {} => \E m \in t : \A j \in t : j <= m}
<1>1. 0 \in S
  <2>1. 1..0 = {}
    OBVIOUS
  <2> QED BY <2>1
<1>2. ASSUME NEW k \in Nat, k \in S PROVE k + 1 \in S
  <2> SUFFICES ASSUME NEW t \in SUBSET (1..k + 1), t # {} PROVE \E m \in t : \A j \in t : j <= m
    OBVIOUS
  <2>1. CASE k + 1 \in t
    BY <2>1
  <2>2. CASE k + 1 \notin t
    <3>1. t \in SUBSET (1..k)
      BY <2>2
    <3> QED BY <1>2, <3>1
  <2> QED BY <2>1, <2>2
<1> HIDE DEF S
<1>3. Nat \subseteq S
  BY <1>1, <1>2, SetInduction
<1> QED BY <1>3 DEF S

\* A number, as digits without leading zeros; its digits go on with zeros.
Number(ds) == ds \in Seq(0..9) /\ (ds # <<>> => ds[Len(ds)] # 0)
Digit(ds, i) == IF i <= Len(ds) THEN ds[i] ELSE 0

\* A number is known by its digits.
LEMMA SameNumber ==
  ASSUME NEW s, NEW t, NEW k \in Nat, Number(s), Number(t), Len(s) <= k, Len(t) <= k,
         \A i \in 1..k : Digit(s, i) = Digit(t, i)
  PROVE  s = t
<1>1. s \in Seq(0..9) /\ t \in Seq(0..9) /\ Len(s) \in Nat /\ Len(t) \in Nat
  BY LenProperties DEF Number
<1>2. ~(Len(s) < Len(t))
  <2> SUFFICES ASSUME Len(s) < Len(t) PROVE FALSE
    OBVIOUS
  <2>1. t # <<>> /\ t[Len(t)] # 0 /\ Len(t) \in 1..k
    BY <1>1, EmptySeq DEF Number
  <2>2. Digit(s, Len(t)) = 0 /\ Digit(t, Len(t)) = t[Len(t)]
    BY <1>1 DEF Digit
  <2> QED BY <2>1, <2>2
<1>3. ~(Len(t) < Len(s))
  <2> SUFFICES ASSUME Len(t) < Len(s) PROVE FALSE
    OBVIOUS
  <2>1. s # <<>> /\ s[Len(s)] # 0 /\ Len(s) \in 1..k
    BY <1>1, EmptySeq DEF Number
  <2>2. Digit(t, Len(s)) = 0 /\ Digit(s, Len(s)) = s[Len(s)]
    BY <1>1 DEF Digit
  <2> QED BY <2>1, <2>2
<1>4. Len(s) = Len(t)
  BY <1>1, <1>2, <1>3
<1>5. \A i \in 1..Len(s) : s[i] = t[i]
  BY <1>1, <1>4 DEF Digit
<1> QED BY <1>1, <1>4, <1>5, SeqEqual

\* Without its leading zeros a list of digits is the same number.
LEMMA StripNumber ==
  ASSUME NEW s \in Seq(0..9)
  PROVE  LET t == Reading!Strip(s)
         IN  /\ Number(t) /\ Len(t) \in Nat /\ Len(t) <= Len(s)
             /\ \A i \in 1..Len(s) : Digit(t, i) = s[i]
<1> DEFINE top == {i \in DOMAIN s : s[i] # 0}
           m == CHOOSE m \in top : \A j \in top : j <= m
           t == Reading!Strip(s)
<1>1. DOMAIN s = 1..Len(s) /\ Len(s) \in Nat /\ \A i \in 1..Len(s) : s[i] \in 0..9
  BY LenProperties, ElementOfSeq
<1>2. CASE top = {}
  <2>1. t = <<>>
    BY <1>2 DEF Reading!Strip
  <2>2. Number(<<>>) /\ Len(<<>>) = 0
    BY EmptySeq DEF Number
  <2>3. \A i \in 1..Len(s) : Digit(<<>>, i) = s[i]
    BY <1>1, <1>2, <2>2 DEF Digit
  <2> HIDE DEF t
  <2> QED BY <1>1, <2>1, <2>2, <2>3 DEF t
<1>3. CASE top # {}
  <2>1. m \in top /\ \A j \in top : j <= m
    <3>1. top \in SUBSET (1..Len(s))
      BY <1>1
    <3> HIDE DEF top
    <3>2. \E x \in top : \A j \in top : j <= x
      BY <1>1, <1>3, <3>1, Greatest
    <3> QED BY <3>2
  <2>2. t = SubSeq(s, 1, m)
    BY <1>3 DEF Reading!Strip
  <2>3. m \in 1..Len(s) /\ s[m] # 0 /\ \A j \in 1..Len(s) : s[j] # 0 => j <= m
    BY <1>1, <2>1
  <2> HIDE DEF t, m
  <2>4. t \in Seq(0..9) /\ Len(t) = m /\ \A i \in 1..m : t[i] = s[i]
    <3>1. 1 \in Int /\ m \in Int /\ \A i \in 1..m : s[i] \in 0..9
      BY <1>1, <2>3
    <3>2. /\ t \in Seq(0..9)
          /\ Len(t) = IF 1 <= m THEN m - 1 + 1 ELSE 0
          /\ \A i \in 1..m - 1 + 1 : t[i] = s[1 + i - 1]
      BY <2>2, <3>1, SubSeqProperties
    <3>3. m - 1 + 1 = m /\ 1 <= m /\ \A i \in 1..m : 1 + i - 1 = i
      BY <2>3
    <3> QED BY <3>2, <3>3
  <2>5. Number(t)
    BY <2>3, <2>4 DEF Number
  <2>6. \A i \in 1..Len(s) : Digit(t, i) = s[i]
    BY <1>1, <2>3, <2>4 DEF Digit
  <2> QED BY <1>1, <2>3, <2>4, <2>5, <2>6 DEF t
<1> QED BY <1>2, <1>3

\* The remainder by 10^k keeps the lower digits, and the quotient the others.
LEMMA ModNumber ==
  ASSUME NEW ds \in Seq(0..9), NEW k \in Nat
  PROVE  LET t == Reading!ModPow(ds, k)
         IN  /\ Number(t) /\ Len(t) \in Nat /\ Len(t) <= k /\ Len(t) <= Len(ds)
             /\ \A i \in 1..k : Digit(t, i) = Digit(ds, i)
<1> DEFINE n == IF Len(ds) < k THEN Len(ds) ELSE k
           s == SubSeq(ds, 1, n)
           t == Reading!Strip(s)
<1>1. Len(ds) \in Nat /\ n \in Nat /\ n <= Len(ds) /\ n <= k /\ (n = Len(ds) \/ n = k)
      /\ \A i \in 1..Len(ds) : ds[i] \in 0..9
  BY LenProperties, ElementOfSeq
<1> HIDE DEF n
<1>2. s \in Seq(0..9) /\ Len(s) = n /\ \A i \in 1..n : s[i] = ds[i]
  <2>1. 1 \in Int /\ n \in Int /\ \A i \in 1..n : ds[i] \in 0..9
    BY <1>1
  <2>2. /\ s \in Seq(0..9)
        /\ Len(s) = IF 1 <= n THEN n - 1 + 1 ELSE 0
        /\ \A i \in 1..n - 1 + 1 : s[i] = ds[1 + i - 1]
    BY <2>1, SubSeqProperties
  <2>3. n - 1 + 1 = n /\ (~(1 <= n) => n = 0) /\ \A i \in 1..n : 1 + i - 1 = i
    BY <1>1
  <2> HIDE DEF s
  <2> QED BY <2>2, <2>3
<1>3. t = Reading!ModPow(ds, k)
  BY DEF Reading!ModPow, n
<1> HIDE DEF s
<1>4. Number(t) /\ Len(t) \in Nat /\ Len(t) <= n /\ \A i \in 1..n : Digit(t, i) = s[i]
  BY <1>2, StripNumber
<1> HIDE DEF t
<1>5. \A i \in 1..k : Digit(t, i) = Digit(ds, i)
  BY <1>1, <1>2, <1>4 DEF Digit
<1> QED BY <1>1, <1>3, <1>4, <1>5

\* The quotient by 10^k is a number, shorter by k digits.
LEMMA DivNumber ==
  ASSUME NEW ds, Number(ds), NEW k \in Nat
  PROVE  LET t == Reading!DivPow(ds, k)
         IN  /\ Number(t)
             /\ Len(ds) <= k => t = <<>>
             /\ Len(ds) > k => Len(t) = Len(ds) - k /\ t # <<>>
<1> DEFINE t == SubSeq(ds, k + 1, Len(ds))
<1>1. ds \in Seq(0..9) /\ Len(ds) \in Nat /\ \A i \in 1..Len(ds) : ds[i] \in 0..9
  BY LenProperties, ElementOfSeq DEF Number
<1>2. /\ t \in Seq(0..9)
      /\ Len(t) = IF k + 1 <= Len(ds) THEN Len(ds) - (k + 1) + 1 ELSE 0
      /\ \A i \in 1..Len(ds) - (k + 1) + 1 : t[i] = ds[(k + 1) + i - 1]
  <2>1. k + 1 \in Int /\ Len(ds) \in Int /\ \A i \in k + 1..Len(ds) : ds[i] \in 0..9
    BY <1>1
  <2> QED BY <2>1, SubSeqProperties
<1>0. t = Reading!DivPow(ds, k)
  BY DEF Reading!DivPow
<1> HIDE DEF t
<1>3. CASE Len(ds) <= k
  <2>1. t = <<>>
    BY <1>1, <1>2, <1>3, EmptySeq
  <2>2. Number(t)
    BY <1>2, <2>1 DEF Number
  <2> QED BY <1>0, <1>1, <1>3, <2>1, <2>2
<1>4. CASE Len(ds) > k
  <2>1. Len(t) = Len(ds) - k /\ Len(t) \in 1..Len(ds) - (k + 1) + 1 /\ (k + 1) + Len(t) - 1 = Len(ds)
    <3>1. k + 1 <= Len(ds)
      BY <1>1, <1>4
    <3>2. Len(t) = Len(ds) - (k + 1) + 1
      BY <1>2, <3>1
    <3>3. Len(ds) - (k + 1) + 1 = Len(ds) - k /\ Len(ds) - k \in 1..Len(ds) - k
          /\ (k + 1) + (Len(ds) - k) - 1 = Len(ds)
      BY <1>1, <1>4
    <3> QED BY <3>2, <3>3
  <2>2. t[Len(t)] = ds[Len(ds)]
    BY <1>2, <2>1
  <2>3. ds # <<>> /\ t # <<>>
    BY <1>1, <1>2, <1>4, <2>1, EmptySeq
  <2>4. Number(t)
    BY <1>2, <2>2, <2>3 DEF Number
  <2> QED BY <1>0, <1>1, <1>4, <2>1, <2>3, <2>4
<1> QED BY <1>1, <1>3, <1>4

\* A number below 10^k is its own remainder.
LEMMA ModWhole ==
  ASSUME NEW ds, Number(ds), NEW k \in Nat, Len(ds) <= k
  PROVE  Reading!ModPow(ds, k) = ds
<1>1. ds \in Seq(0..9)
  BY DEF Number
<1> QED BY <1>1, ModNumber, SameNumber

\* The remainder by 10^4 may be taken of the remainder by 10^8.
LEMMA ModMod ==
  ASSUME NEW ds \in Seq(0..9)
  PROVE  Reading!ModPow(Reading!ModPow(ds, 8), 4) = Reading!ModPow(ds, 4)
<1> DEFINE n2 == Reading!ModPow(ds, 8)
           s == Reading!ModPow(n2, 4)
           t == Reading!ModPow(ds, 4)
<1>1. Number(n2) /\ \A i \in 1..8 : Digit(n2, i) = Digit(ds, i)
  BY ModNumber
<1>2. n2 \in Seq(0..9)
  BY <1>1 DEF Number
<1> HIDE DEF n2
<1>3. Number(s) /\ Len(s) <= 4 /\ \A i \in 1..4 : Digit(s, i) = Digit(n2, i)
  BY <1>2, ModNumber
<1>4. Number(t) /\ Len(t) <= 4 /\ \A i \in 1..4 : Digit(t, i) = Digit(ds, i)
  BY ModNumber
<1> HIDE DEF s, t
<1>5. \A i \in 1..4 : Digit(s, i) = Digit(t, i)
  BY <1>1, <1>3, <1>4
<1>6. s = t
  BY <1>3, <1>4, <1>5, SameNumber
<1> QED BY <1>6 DEF s, t, n2

\* A section says a number below 10000; the last one has a zero in front where its number
\* is below 1000.
Says(w, ds) ==
  /\ \E k \in Nat : Heard(w, k)
  /\ Reading!SectionValue(w) = Reading!DigitsValue(ds)
  /\ w = <<>> <=> ds = <<>>
Rest(w, ds) == Says(w, ds) /\ (w # <<>> => (w[1] = 0 <=> Len(ds) < 4))
\* A section that no zero stands in front of.
Sharp(w, ds) == Says(w, ds) /\ (w # <<>> => w[1] # 0)
\* A section and its word, or neither.
Before(w, word, rest) == IF w = <<>> THEN rest ELSE w \o (<<word>> \o rest)

\* No words say the number zero of a section.
LEMMA SaysNothing == Says(<<>>, <<>>) /\ Sharp(<<>>, <<>>) /\ Rest(<<>>, <<>>)
<1>1. Reading!DigitsValue(<<>>) = 0
  BY TotalStep DEF Reading!DigitsValue
<1>2. \E k \in Nat : Heard(<<>>, k)
  BY HeardNothing
<1> QED BY <1>1, <1>2, WordValues DEF Says, Sharp, Rest

\* __add_num_thousand says the number of a section.
LEMMA SaysThousands ==
  ASSUME NEW ds, Number(ds), ds # <<>>, Len(ds) <= 4, NEW behind \in Seq(0..15)
  PROVE  \E w \in Seq(Marks) :
           /\ Reading!AddThousand(behind, ds) = w \o behind
           /\ Says(w, ds) /\ w # <<>> /\ w[1] \in 1..9 /\ Heard(w, Len(ds)) /\ Len(ds) \in Nat
<1>1. ds \in Seq(0..9) /\ ds[Len(ds)] # 0 /\ Len(ds) \in Nat
  BY LenProperties DEF Number
<1> QED BY <1>1, Thousands DEF Says

\* With the zero the callers put in front, it says the last section.
LEMMA SaysRest ==
  ASSUME NEW ds, Number(ds), ds # <<>>, Len(ds) <= 4, NEW behind \in Seq(0..15)
  PROVE  \E w \in Seq(Marks) :
           /\ (IF Len(ds) < 4 THEN <<0>> ELSE <<>>) \o Reading!AddThousand(behind, ds) = w \o behind
           /\ Rest(w, ds)
<1>1. PICK w \in Seq(Marks) :
        /\ Reading!AddThousand(behind, ds) = w \o behind
        /\ Says(w, ds) /\ w # <<>> /\ w[1] \in 1..9 /\ Heard(w, Len(ds)) /\ Len(ds) \in Nat
  BY SaysThousands
<1>2. w \in Seq(0..15) /\ w \o behind \in Seq(0..15)
  <2>1. w \in Seq(0..15)
    BY SeqMonotonic DEF Marks
  <2> QED BY <2>1, ConcatProperties
<1>3. CASE Len(ds) < 4
  <2> DEFINE v == <<0>> \o w
  <2>1. <<0>> \in Seq(0..15) /\ <<0>> \in Seq(Marks)
    BY DEF Marks
  <2>2. <<0>> \o (w \o behind) = v \o behind
    BY <1>2, <2>1, Nested
  <2>3. /\ Heard(v, Len(ds) + 1) /\ v # <<>> /\ v[1] = 0
        /\ Reading!SectionValue(v) = Reading!SectionValue(<<0>>) + Reading!SectionValue(w)
    <3>1. w[1] # 0
      BY <1>1
    <3> QED BY <1>1, <3>1, HeardZero, Zenon
  <2>4. v \in Seq(Marks)
    BY <2>1, ConcatProperties
  <2> HIDE DEF v
  <2>5. Reading!SectionValue(w) \in Nat
    <3>1. Len(w) \in Nat /\ \A i \in 1..Len(w) : Weight(w)[i] \in Nat
      BY WeightNat, LenProperties
    <3>2. Reading!Total(Weight(w), Len(w)) \in Nat
      BY <3>1, TotalNat
    <3> QED BY <3>2 DEF Reading!SectionValue, Weight
  <2>6. Reading!SectionValue(v) = Reading!SectionValue(w)
    BY <2>3, <2>5, WordValues
  <2>7. Rest(v, ds)
    <3>1. Len(ds) + 1 \in Nat
      BY <1>1
    <3> QED BY <1>1, <1>3, <2>3, <2>6, <3>1 DEF Rest, Says
  <2> QED BY <1>1, <1>3, <2>2, <2>4, <2>7
<1>4. CASE ~(Len(ds) < 4)
  <2>1. <<>> \o (w \o behind) = w \o behind
    BY <1>2, ConcatEmptySeq
  <2>2. w[1] # 0
    BY <1>1
  <2>3. Rest(w, ds)
    BY <1>1, <1>4, <2>2 DEF Rest
  <2> QED BY <1>1, <1>4, <2>1, <2>3
<1> QED BY <1>3, <1>4

\* __add_num_ten_thousand says two sections, neither of a number that is zero.
LEMMA SaysTenThousands ==
  ASSUME NEW ds, Number(ds), Len(ds) <= 8, NEW behind \in Seq(0..15)
  PROVE  \E b, c \in Seq(Marks) :
           /\ ds # <<>> => Reading!AddTenThousand(behind, ds)
                             = Before(b, Reading!TEN_THOUSAND, c \o behind)
           /\ Sharp(b, Reading!DivPow(ds, 4)) /\ Rest(c, Reading!ModPow(ds, 4))
           /\ ds = <<>> => b = <<>> /\ c = <<>>
<1> DEFINE n1 == Reading!DivPow(ds, 4)
           n2 == Reading!ModPow(ds, 4)
           low == IF n2 = <<>> THEN behind
                  ELSE (IF Len(n2) < 4 THEN <<0>> ELSE <<>>) \o Reading!AddThousand(behind, n2)
<1>1. Reading!AddTenThousand(behind, ds)
        = IF n1 = <<>> THEN low
          ELSE Reading!AddThousand(<<Reading!TEN_THOUSAND>> \o low, n1)
  BY DEF Reading!AddTenThousand
<1>2. Number(n2) /\ Len(n2) \in Nat /\ Len(n2) <= 4 /\ Len(n2) <= Len(ds)
  BY ModNumber DEF Number
<1>3. Number(n1) /\ (Len(ds) <= 4 => n1 = <<>>) /\ (Len(ds) > 4 => Len(n1) = Len(ds) - 4 /\ n1 # <<>>)
  BY DivNumber
<1>4. Len(ds) \in Nat
  BY LenProperties DEF Number
<1> HIDE DEF n1, n2
<1>5. PICK c \in Seq(Marks) : low = c \o behind /\ Rest(c, n2)
  <2>1. CASE n2 = <<>>
    <3>1. <<>> \o behind = behind /\ <<>> \in Seq(Marks)
      BY ConcatEmptySeq, EmptySeq
    <3> QED BY <2>1, <3>1, SaysNothing
  <2>2. CASE n2 # <<>>
    BY <1>2, <2>2, SaysRest
  <2> QED BY <2>1, <2>2
<1>6. low \in Seq(0..15) /\ <<Reading!TEN_THOUSAND>> \o low \in Seq(0..15)
  <2>1. c \in Seq(0..15) /\ <<Reading!TEN_THOUSAND>> \in Seq(0..15)
    <3>1. c \in Seq(0..15)
      BY SeqMonotonic DEF Marks
    <3> QED BY <3>1 DEF Reading!TEN_THOUSAND
  <2>2. low \in Seq(0..15)
    BY <1>5, <2>1, ConcatProperties
  <2> HIDE DEF low
  <2> QED BY <2>1, <2>2, ConcatProperties
<1> HIDE DEF low
<1>7. PICK b \in Seq(Marks) :
        /\ n1 # <<>> => Reading!AddThousand(<<Reading!TEN_THOUSAND>> \o low, n1)
                          = b \o (<<Reading!TEN_THOUSAND>> \o low)
        /\ Sharp(b, n1)
  <2>1. CASE n1 = <<>>
    BY <2>1, SaysNothing, EmptySeq
  <2>2. CASE n1 # <<>>
    <3>1. Len(n1) <= 4
      BY <1>3, <1>4, <2>2
    <3>2. \A x \in 1..9 : x # 0
      OBVIOUS
    <3> QED BY <1>3, <1>6, <2>2, <3>1, <3>2, SaysThousands DEF Sharp
  <2> QED BY <2>1, <2>2
<1>8. b = <<>> <=> n1 = <<>>
  BY <1>7 DEF Sharp, Says
<1>9. Reading!AddTenThousand(behind, ds) = Before(b, Reading!TEN_THOUSAND, c \o behind)
  BY <1>1, <1>5, <1>7, <1>8 DEF Before
<1>10. ds = <<>> => b = <<>> /\ c = <<>>
  <2> SUFFICES ASSUME ds = <<>> PROVE b = <<>> /\ c = <<>>
    OBVIOUS
  <2>1. Len(ds) = 0
    BY EmptySeq
  <2>2. n1 = <<>> /\ Len(n2) = 0
    BY <1>2, <1>3, <2>1
  <2>3. n2 = <<>>
    BY <1>2, <2>2, EmptySeq DEF Number
  <2>4. c = <<>> <=> n2 = <<>>
    BY <1>5 DEF Rest, Says
  <2> QED BY <1>8, <2>2, <2>3, <2>4
<1> QED BY <1>5, <1>7, <1>9, <1>10 DEF n1, n2

\* The decimals are the point and two digits, or nothing.
LEMMA DecimalMarks ==
  ASSUME NEW d \in 0..255
  PROVE  /\ Reading!DecimalWords(d) \in Seq(0..15)
         /\ d = 0 => Reading!DecimalWords(d) = <<>>
         /\ d # 0 => LET two == IF d >= 100 THEN d \div 10 ELSE d
                     IN  /\ Reading!DecimalWords(d) = <<Reading!POINT, two \div 10, two % 10>>
                         /\ two \div 10 \in 0..9 /\ two % 10 \in 0..9
<1> DEFINE two == IF d >= 100 THEN d \div 10 ELSE d
<1>1. two \in 0..99
  OBVIOUS
<1>2. two = IF d > 99 THEN d \div 10 ELSE d
  OBVIOUS
<1> HIDE DEF two
<1>3. two \div 10 \in 0..9 /\ two % 10 \in 0..9
  BY <1>1
<1>4. Reading!DecimalWords(d) = IF d = 0 THEN <<>> ELSE <<Reading!POINT, two \div 10, two % 10>>
  BY <1>2 DEF Reading!DecimalWords
<1>5. <<Reading!POINT, two \div 10, two % 10>> \in Seq(0..15) /\ <<>> \in Seq(0..15)
  <2>1. ASSUME NEW x \in 0..15, NEW y \in 0..15, NEW z \in 0..15 PROVE <<x, y, z>> \in Seq(0..15)
    OBVIOUS
  <2>2. Reading!POINT \in 0..15 /\ two \div 10 \in 0..15 /\ two % 10 \in 0..15
    BY <1>3 DEF Reading!POINT
  <2>3. <<Reading!POINT, two \div 10, two % 10>> \in Seq(0..15)
    BY <2>1, <2>2
  <2> QED BY <2>3, EmptySeq
<1> QED BY <1>3, <1>4, <1>5 DEF two

\* What a number sounds like: up to three sections, and the fraction.
Sounds(w, a, b, c, ds, d) ==
  /\ a \in Seq(Marks) /\ b \in Seq(Marks) /\ c \in Seq(Marks)
  /\ w = Before(a, Reading!BILLION, Before(b, Reading!TEN_THOUSAND, c \o Reading!DecimalWords(d)))
  /\ Says(a, Reading!DivPow(ds, 8))
  /\ Sharp(b, Reading!DivPow(Reading!ModPow(ds, 8), 4))
  /\ \/ /\ Says(c, Reading!ModPow(ds, 4))
        /\ a # <<>> \/ b # <<>> => Rest(c, Reading!ModPow(ds, 4))
     \/ ds = <<>> /\ a = <<>> /\ b = <<>> /\ c = <<0>>

\* audio_tts_num_play says every number below 10^12 in three sections.
LEMMA ReadingSounds ==
  ASSUME NEW ds, Number(ds), Len(ds) <= 12, NEW d \in 0..255
  PROVE  \E a, b, c : Sounds(Reading!Reading(ds, d), a, b, c, ds, d)
<1> DEFINE behind == Reading!DecimalWords(d)
           n8 == Reading!ModPow(ds, 8)
<1>1. behind \in Seq(0..15)
  BY DecimalMarks
<1>2. ds \in Seq(0..9) /\ Len(ds) \in Nat
  BY LenProperties DEF Number
<1>3. Number(n8) /\ Len(n8) \in Nat /\ Len(n8) <= 8
  BY <1>2, ModNumber
<1>4. Reading!ModPow(n8, 4) = Reading!ModPow(ds, 4)
  BY <1>2, ModMod
<1>5. Len(ds) <= 8 => n8 = ds
  BY ModWhole
<1>6. <<>> \in Seq(Marks)
  BY EmptySeq
<1> HIDE DEF behind, n8
<1>7. CASE Len(ds) <= 4
  <2>1. Reading!Reading(ds, d) = Reading!AddThousand(behind, ds)
    BY <1>7 DEF Reading!Reading, behind
  <2>2. Reading!DivPow(ds, 8) = <<>> /\ Reading!DivPow(n8, 4) = <<>> /\ Reading!ModPow(ds, 4) = ds
    <3>1. Len(ds) <= 8
      BY <1>2, <1>7
    <3> QED BY <1>5, <1>7, <3>1, DivNumber, ModWhole
  <2>3. CASE ds = <<>>
    <3>1. Reading!AddThousand(behind, ds) = <<0>> \o behind
      BY <2>3 DEF Reading!AddThousand
    <3>2. <<0>> \in Seq(Marks)
      BY DEF Marks
    <3>3. Sounds(Reading!Reading(ds, d), <<>>, <<>>, <<0>>, ds, d)
      BY <1>6, <2>1, <2>2, <2>3, <3>1, <3>2, SaysNothing DEF Sounds, Before, behind, n8
    <3> QED BY <3>3
  <2>4. CASE ds # <<>>
    <3>1. PICK c \in Seq(Marks) : Reading!AddThousand(behind, ds) = c \o behind /\ Says(c, ds)
      BY <1>1, <1>7, <2>4, SaysThousands
    <3>2. Sounds(Reading!Reading(ds, d), <<>>, <<>>, c, ds, d)
      BY <1>6, <2>1, <2>2, <3>1, SaysNothing DEF Sounds, Before, behind, n8
    <3> QED BY <3>2
  <2> QED BY <2>3, <2>4
<1>8. CASE Len(ds) > 4 /\ Len(ds) <= 8
  <2>1. Reading!Reading(ds, d) = Reading!AddTenThousand(behind, ds)
    BY <1>2, <1>8 DEF Reading!Reading, behind
  <2>2. Reading!DivPow(ds, 8) = <<>> /\ n8 = ds
    BY <1>5, <1>8, DivNumber
  <2>3. ds # <<>>
    BY <1>8, EmptySeq
  <2>4. PICK b, c \in Seq(Marks) :
          /\ Reading!AddTenThousand(behind, ds) = Before(b, Reading!TEN_THOUSAND, c \o behind)
          /\ Sharp(b, Reading!DivPow(ds, 4)) /\ Rest(c, Reading!ModPow(ds, 4))
    BY <1>1, <1>8, <2>3, SaysTenThousands
  <2>5. Before(<<>>, Reading!BILLION, Before(b, Reading!TEN_THOUSAND, c \o behind))
          = Before(b, Reading!TEN_THOUSAND, c \o behind)
    BY DEF Before
  <2>6. Sounds(Reading!Reading(ds, d), <<>>, b, c, ds, d)
    BY <1>6, <2>1, <2>2, <2>4, <2>5, SaysNothing DEF Sounds, Rest, behind, n8
  <2> QED BY <2>6
<1>9. CASE Len(ds) > 8
  <2> DEFINE low == IF n8 = <<>> THEN behind ELSE Reading!AddTenThousand(behind, n8)
             top == Reading!DivPow(ds, 8)
  <2>1. Reading!Reading(ds, d) = Reading!AddThousand(<<Reading!BILLION>> \o low, top)
    <3>1. ~(Len(ds) <= 4) /\ ~(Len(ds) <= 8)
      BY <1>2, <1>9
    <3>2. Reading!Reading(ds, d) = Reading!AddBillion(behind, ds)
      BY <3>1 DEF Reading!Reading, behind
    <3> QED BY <3>2 DEF Reading!AddBillion, n8
  <2>2. Number(top) /\ top # <<>> /\ Len(top) <= 4
    BY <1>2, <1>9, DivNumber
  <2>3. PICK b, c \in Seq(Marks) :
          /\ n8 # <<>> => Reading!AddTenThousand(behind, n8)
                            = Before(b, Reading!TEN_THOUSAND, c \o behind)
          /\ Sharp(b, Reading!DivPow(n8, 4)) /\ Rest(c, Reading!ModPow(n8, 4))
          /\ n8 = <<>> => b = <<>> /\ c = <<>>
    BY <1>1, <1>3, SaysTenThousands
  <2> DEFINE below == Before(b, Reading!TEN_THOUSAND, c \o behind)
  <2>4. low = below
    <3>1. <<>> \o behind = behind
      BY <1>1, ConcatEmptySeq
    <3> QED BY <2>3, <3>1 DEF Before
  <2>5. <<Reading!BILLION>> \o below \in Seq(0..15)
    <3>1. b \in Seq(0..15) /\ c \in Seq(0..15) /\ <<Reading!TEN_THOUSAND>> \in Seq(0..15)
          /\ <<Reading!BILLION>> \in Seq(0..15)
      <4>1. b \in Seq(0..15) /\ c \in Seq(0..15)
        BY SeqMonotonic DEF Marks
      <4> QED BY <4>1 DEF Reading!TEN_THOUSAND, Reading!BILLION
    <3>2. c \o behind \in Seq(0..15)
      BY <1>1, <3>1, ConcatProperties
    <3>3. <<Reading!TEN_THOUSAND>> \o (c \o behind) \in Seq(0..15)
      BY <3>1, <3>2, ConcatProperties
    <3>4. b \o (<<Reading!TEN_THOUSAND>> \o (c \o behind)) \in Seq(0..15)
      BY <3>1, <3>3, ConcatProperties
    <3>5. below \in Seq(0..15)
      BY <3>2, <3>4 DEF Before
    <3> HIDE DEF below
    <3> QED BY <3>1, <3>5, ConcatProperties
  <2> HIDE DEF low, top
  <2>6. PICK a \in Seq(Marks) :
          /\ Reading!AddThousand(<<Reading!BILLION>> \o below, top) = a \o (<<Reading!BILLION>> \o below)
          /\ Says(a, top) /\ a # <<>>
    <3> HIDE DEF below
    <3> QED BY <2>2, <2>5, SaysThousands
  <2>7. Reading!Reading(ds, d) = Before(a, Reading!BILLION, below)
    <3> HIDE DEF below
    <3> QED BY <2>1, <2>4, <2>6 DEF Before
  <2>8. Sounds(Reading!Reading(ds, d), a, b, c, ds, d)
    BY <1>4, <2>3, <2>6, <2>7 DEF Sounds, Rest, behind, n8, top
  <2> QED BY <2>8
<1> QED BY <1>2, <1>7, <1>8, <1>9

\* x does not occur in w.
Free(w, x) == \A i \in 1..Len(w) : w[i] # x

\* The first x of w stands between u and v.
CutInto(w, x, u, v) ==
  /\ Reading!IndexOf(w, x) # 0
  /\ SubSeq(w, 1, Reading!IndexOf(w, x) - 1) = u
  /\ SubSeq(w, Reading!IndexOf(w, x) + 1, Len(w)) = v

\* Cutting at a word that occurs once gives what stands on both sides of it.
LEMMA Cut ==
  ASSUME NEW x \in 0..15, NEW u \in Seq(0..15), NEW v \in Seq(0..15), Free(u, x), Free(v, x),
         NEW one, one = <<x>>
  PROVE  CutInto(u \o (one \o v), x, u, v)
<1> DEFINE r == <<x>> \o v
           w == u \o r
           p == Len(u) + 1
<1>1. <<x>> \in Seq(0..15) /\ Len(<<x>>) = 1 /\ <<x>>[1] = x
  OBVIOUS
<1>2. Len(u) \in Nat /\ Len(v) \in Nat
  BY LenProperties
<1>3. r \in Seq(0..15) /\ Len(r) = 1 + Len(v) /\ r[1] = x /\ \A i \in 1..Len(v) : r[1 + i] = v[i]
  <2>1. r \in Seq(0..15) /\ Len(r) = 1 + Len(v)
        /\ \A i \in 1..1 + Len(v) : r[i] = IF i <= 1 THEN <<x>>[i] ELSE v[i - 1]
    BY <1>1, ConcatProperties
  <2>2. \A i \in 1..Len(v) : 1 + i \in 1..1 + Len(v) /\ ~(1 + i <= 1) /\ (1 + i) - 1 = i
    BY <1>2
  <2>3. 1 \in 1..1 + Len(v) /\ 1 <= 1
    BY <1>2
  <2> HIDE DEF r
  <2> QED BY <1>1, <2>1, <2>2, <2>3
<1> HIDE DEF r
<1>4. w \in Seq(0..15) /\ Len(w) = Len(u) + Len(r)
      /\ \A i \in 1..Len(u) + Len(r) : w[i] = IF i <= Len(u) THEN u[i] ELSE r[i - Len(u)]
  <2>1. r \in Seq(0..15)
    BY <1>3
  <2> QED BY <2>1, ConcatProperties
<1> HIDE DEF w
<1>13. \A i \in 1..Len(w) : w[i] \in 0..15
  BY <1>4, ElementOfSeq
<1>5. Len(w) = p + Len(v) /\ p \in Nat \ {0} /\ p - 1 = Len(u)
  BY <1>2, <1>3, <1>4
<1>6. /\ \A i \in 1..p - 1 : w[i] = u[i]
      /\ w[p] = x
      /\ \A i \in 1..Len(v) : w[p + i] = v[i]
  <2>1. \A i \in 1..p - 1 : i \in 1..Len(u) + Len(r) /\ i <= Len(u)
    BY <1>2, <1>3
  <2>2. p \in 1..Len(u) + Len(r) /\ ~(p <= Len(u)) /\ p - Len(u) = 1
    BY <1>2, <1>3
  <2>3. \A i \in 1..Len(v) : /\ p + i \in 1..Len(u) + Len(r) /\ ~(p + i <= Len(u))
                             /\ (p + i) - Len(u) = 1 + i
    BY <1>2, <1>3
  <2> HIDE DEF p
  <2> QED BY <1>3, <1>4, <2>1, <2>2, <2>3
<1>7. DOMAIN w = 1..Len(w)
  BY <1>4, LenProperties
<1> HIDE DEF p
<1>8. \A i \in 1..Len(w) : w[i] = x => i = p
  <2> SUFFICES ASSUME NEW i \in 1..Len(w), w[i] = x, i # p PROVE FALSE
    OBVIOUS
  <2>1. CASE i < p
    <3>1. i \in 1..p - 1 /\ i \in 1..Len(u)
      BY <1>2, <1>5, <2>1
    <3> QED BY <1>6, <3>1 DEF Free
  <2>2. CASE i > p
    <3>1. i - p \in 1..Len(v) /\ p + (i - p) = i
      BY <1>2, <1>5, <2>2
    <3>2. w[i] = v[i - p]
      BY <1>6, <3>1
    <3> QED BY <3>1, <3>2 DEF Free
  <2> QED BY <1>5, <2>1, <2>2
<1>9. Reading!IndexOf(w, x) = p
  <2>1. p \in DOMAIN w /\ w[p] = x
    BY <1>2, <1>5, <1>6, <1>7
  <2>2. \A i \in DOMAIN w : w[i] = x => i = p
    BY <1>7, <1>8
  <2> QED BY <2>1, <2>2 DEF Reading!IndexOf
<1>10. SubSeq(w, 1, p - 1) = u
  <2> DEFINE s == SubSeq(w, 1, p - 1)
  <2>1. 1 \in Int /\ p - 1 \in Int /\ \A i \in 1..p - 1 : w[i] \in 0..15
    <3>1. \A i \in 1..p - 1 : i \in 1..Len(w)
      BY <1>2, <1>5
    <3> QED BY <1>13, <1>5, <3>1
  <2>2. s \in Seq(0..15) /\ Len(s) = (IF 1 <= p - 1 THEN (p - 1) - 1 + 1 ELSE 0)
        /\ \A i \in 1..(p - 1) - 1 + 1 : s[i] = w[1 + i - 1]
    BY <2>1, SubSeqProperties
  <2> HIDE DEF s
  <2>3. Len(s) = Len(u)
    BY <1>2, <1>5, <2>2
  <2>4. \A i \in 1..Len(u) : s[i] = u[i]
    <3>1. \A i \in 1..Len(u) : i \in 1..(p - 1) - 1 + 1 /\ 1 + i - 1 = i /\ i \in 1..p - 1
      BY <1>2, <1>5
    <3> QED BY <1>6, <2>2, <3>1
  <2>5. s = u
    BY <2>2, <2>3, <2>4, SeqEqual
  <2> QED BY <2>5 DEF s
<1>11. SubSeq(w, p + 1, Len(w)) = v
  <2> DEFINE s == SubSeq(w, p + 1, Len(w))
  <2>1. p + 1 \in Int /\ Len(w) \in Int /\ \A i \in p + 1..Len(w) : w[i] \in 0..15
    <3>1. \A i \in p + 1..Len(w) : i \in 1..Len(w)
      BY <1>2, <1>5
    <3> QED BY <1>2, <1>13, <1>5, <3>1
  <2>2. s \in Seq(0..15) /\ Len(s) = (IF p + 1 <= Len(w) THEN Len(w) - (p + 1) + 1 ELSE 0)
        /\ \A i \in 1..Len(w) - (p + 1) + 1 : s[i] = w[(p + 1) + i - 1]
    BY <2>1, SubSeqProperties
  <2> HIDE DEF s
  <2>3. Len(s) = Len(v)
    BY <1>2, <1>5, <2>2
  <2>4. \A i \in 1..Len(v) : s[i] = v[i]
    <3>1. \A i \in 1..Len(v) : i \in 1..Len(w) - (p + 1) + 1 /\ (p + 1) + i - 1 = p + i
      BY <1>2, <1>5
    <3> QED BY <1>6, <2>2, <3>1
  <2>5. s = v
    BY <2>2, <2>3, <2>4, SeqEqual
  <2> QED BY <2>5 DEF s
<1>12. /\ Reading!IndexOf(w, x) # 0
       /\ SubSeq(w, 1, Reading!IndexOf(w, x) - 1) = u
       /\ SubSeq(w, Reading!IndexOf(w, x) + 1, Len(w)) = v
  BY <1>5, <1>9, <1>10, <1>11
<1> QED BY <1>12 DEF CutInto, w, r

\* Nothing is cut off at a word that does not occur.
LEMMA NoCut ==
  ASSUME NEW x, NEW w \in Seq(0..15), Free(w, x)
  PROVE  Reading!IndexOf(w, x) = 0 /\ Reading!Upto(w, x) = <<>> /\ Reading!Beyond(w, x) = w
<1>1. DOMAIN w = 1..Len(w)
  BY LenProperties
<1>2. Reading!IndexOf(w, x) = 0
  BY <1>1 DEF Reading!IndexOf, Free
<1>3. SubSeq(w, 0 + 1, Len(w)) = w
  <2>1. 0 + 1 = 1
    OBVIOUS
  <2> QED BY <2>1, SubSeqFull
<1> QED BY <1>2, <1>3 DEF Reading!Upto, Reading!Beyond

\* A section is cut off at its word.
LEMMA CutSection ==
  ASSUME NEW x \in 0..15, NEW a \in Seq(0..15), NEW rest \in Seq(0..15), Free(a, x), Free(rest, x)
  PROVE  /\ Reading!Upto(Before(a, x, rest), x) = a
         /\ Reading!Beyond(Before(a, x, rest), x) = rest
<1>1. CASE a = <<>>
  BY <1>1, NoCut DEF Before
<1>2. CASE a # <<>>
  <2> DEFINE one == <<x>>
             w == a \o (one \o rest)
  <2>1. Before(a, x, rest) = w
    BY <1>2 DEF Before
  <2>2. CutInto(w, x, a, rest)
    <3>1. one = <<x>>
      OBVIOUS
    <3> HIDE DEF one
    <3> QED BY <3>1, Cut
  <2> HIDE DEF w
  <2> QED BY <2>1, <2>2 DEF CutInto, Reading!Upto, Reading!Beyond
<1> QED BY <1>1, <1>2

\* A section and its word bring no other word into the rest.
LEMMA FreeBefore ==
  ASSUME NEW x, NEW word \in 0..15, NEW a \in Seq(0..15), NEW rest \in Seq(0..15),
         Free(a, x), Free(rest, x), word # x
  PROVE  Before(a, word, rest) \in Seq(0..15) /\ Free(Before(a, word, rest), x)
<1> DEFINE r == <<word>> \o rest
           w == a \o r
<1>1. <<word>> \in Seq(0..15) /\ Len(<<word>>) = 1 /\ <<word>>[1] = word
  OBVIOUS
<1>2. Len(a) \in Nat /\ Len(rest) \in Nat
  BY LenProperties
<1>3. r \in Seq(0..15) /\ Len(r) = 1 + Len(rest)
      /\ \A i \in 1..1 + Len(rest) : r[i] = IF i <= 1 THEN <<word>>[i] ELSE rest[i - 1]
  BY <1>1, ConcatProperties
<1> HIDE DEF r
<1>4. Free(r, x)
  <2>1. \A i \in 1..1 + Len(rest) : i = 1 \/ (~(i <= 1) /\ i - 1 \in 1..Len(rest))
    BY <1>2
  <2> QED BY <1>1, <1>3, <2>1 DEF Free
<1>5. w \in Seq(0..15) /\ Len(w) = Len(a) + Len(r)
      /\ \A i \in 1..Len(a) + Len(r) : w[i] = IF i <= Len(a) THEN a[i] ELSE r[i - Len(a)]
  BY <1>3, ConcatProperties
<1> HIDE DEF w
<1>6. Free(w, x)
  <2>1. \A i \in 1..Len(a) + Len(r) : (i <= Len(a) /\ i \in 1..Len(a))
                                      \/ (~(i <= Len(a)) /\ i - Len(a) \in 1..Len(r))
    BY <1>2, <1>3
  <2> QED BY <1>4, <1>5, <2>1 DEF Free
<1>7. Before(a, word, rest) = IF a = <<>> THEN rest ELSE w
  BY DEF Before, w, r
<1> QED BY <1>5, <1>6, <1>7

\* What stands behind the rest stands behind all.
Behind(a, word, rest, more) == Before(a, word, rest \o more) = Before(a, word, rest) \o more

\* Putting a section in front, and something behind, may be done in either order.
LEMMA BeforeMore ==
  ASSUME NEW word \in 0..15, NEW a \in Seq(0..15), NEW rest \in Seq(0..15), NEW more \in Seq(0..15)
  PROVE  Behind(a, word, rest, more)
<1>1. CASE a = <<>>
  BY <1>1 DEF Before, Behind
<1>2. CASE a # <<>>
  <2>1. <<word>> \in Seq(0..15)
    OBVIOUS
  <2>2. <<word>> \o rest \in Seq(0..15)
    BY <2>1, ConcatProperties
  <2>3. <<word>> \o (rest \o more) = (<<word>> \o rest) \o more
    BY <2>1, ConcatAssociative, SMTT(30)
  <2>4. a \o ((<<word>> \o rest) \o more) = (a \o (<<word>> \o rest)) \o more
    BY <2>2, ConcatAssociative
  <2> QED BY <1>2, <2>3, <2>4 DEF Before, Behind
<1> QED BY <1>1, <1>2

\* No section holds the words that separate sections.
LEMMA FreeMarks ==
  ASSUME NEW a \in Seq(Marks), NEW x \in 13..15 PROVE a \in Seq(0..15) /\ Free(a, x)
<1>1. a \in Seq(0..15)
  BY SeqMonotonic DEF Marks
<1>2. Free(a, x)
  BY ElementOfSeq, SMTT(30) DEF Free, Marks
<1> QED BY <1>1, <1>2

\* The words are those of the number played last.  What they say follows from that.
ReadingInv == /\ Number(num) /\ Len(num) <= 12 /\ dec \in 0..255
              /\ words = Reading!Reading(num, dec)

\* The same of two sections, the inner one of which is low.
BehindBoth(a, x, b, y, c, low, more) ==
  Before(a, x, Before(b, y, c \o more)) = Before(a, x, low) \o more

\* The fraction stands behind both sections.
LEMMA BeforeTwice ==
  ASSUME NEW x \in 0..15, NEW y \in 0..15, NEW a \in Seq(0..15), NEW b \in Seq(0..15),
         NEW c \in Seq(0..15), NEW more \in Seq(0..15), NEW low \in Seq(0..15),
         low = Before(b, y, c)
  PROVE  BehindBoth(a, x, b, y, c, low, more)
<1>1. Behind(b, y, c, more) /\ Behind(a, x, low, more)
  BY BeforeMore
<1> QED BY <1>1 DEF Behind, BehindBoth

\* The words fall apart into the sections and the fraction they were made of.
LEMMA Apart3 ==
  ASSUME dec \in 0..255, NEW a, NEW b, NEW c, Sounds(words, a, b, c, num, dec)
  PROVE  /\ Reading!Whole = Before(a, Reading!BILLION, Before(b, Reading!TEN_THOUSAND, c))
         /\ Reading!Fraction = IF dec = 0 THEN <<>>
                               ELSE LET d == IF dec >= 100 THEN dec \div 10 ELSE dec
                                    IN  <<d \div 10, d % 10>>
         /\ Reading!Sections = <<a, b, c>>
<1> DEFINE low == Before(b, Reading!TEN_THOUSAND, c)
           whole == Before(a, Reading!BILLION, low)
           D == Reading!DecimalWords(dec)
<1>1. a \in Seq(Marks) /\ b \in Seq(Marks) /\ c \in Seq(Marks)
      /\ words = Before(a, Reading!BILLION, Before(b, Reading!TEN_THOUSAND, c \o D))
  BY DEF Sounds
<1>2. \A x \in 13..15 : /\ a \in Seq(0..15) /\ b \in Seq(0..15) /\ c \in Seq(0..15)
                        /\ Free(a, x) /\ Free(b, x) /\ Free(c, x)
  BY <1>1, FreeMarks
<1>3. Reading!TEN_THOUSAND = 13 /\ Reading!BILLION = 14 /\ Reading!POINT = 15
  BY DEF Reading!TEN_THOUSAND, Reading!BILLION, Reading!POINT
<1>4. low \in Seq(0..15) /\ Free(low, 14) /\ Free(low, 15)
  <2>1. 13 \in 0..15 /\ 14 \in 13..15 /\ 15 \in 13..15 /\ 13 # 14 /\ 13 # 15
    OBVIOUS
  <2>2. Before(b, 13, c) \in Seq(0..15) /\ Free(Before(b, 13, c), 14)
    BY <1>2, <2>1, FreeBefore
  <2>3. Free(Before(b, 13, c), 15)
    BY <1>2, <2>1, FreeBefore
  <2> QED BY <1>3, <2>2, <2>3
<1>5. words = whole \o D
  <2>1. D \in Seq(0..15)
    BY DecimalMarks, Zenon
  <2>2. Reading!TEN_THOUSAND \in 0..15 /\ Reading!BILLION \in 0..15
        /\ a \in Seq(0..15) /\ b \in Seq(0..15) /\ c \in Seq(0..15)
    <3>1. 13 \in 13..15
      OBVIOUS
    <3> QED BY <1>2, <1>3, <3>1
  <2> HIDE DEF D
  <2>3. low \in Seq(0..15) /\ low = Before(b, Reading!TEN_THOUSAND, c)
    BY <1>4
  <2> HIDE DEF low
  <2>4. BehindBoth(a, Reading!BILLION, b, Reading!TEN_THOUSAND, c, low, D)
    BY <2>1, <2>2, <2>3, BeforeTwice
  <2> QED BY <1>1, <2>4 DEF BehindBoth
<1>6. /\ Reading!Upto(low, Reading!TEN_THOUSAND) = b
      /\ Reading!Beyond(low, Reading!TEN_THOUSAND) = c
  <2>1. 13 \in 13..15 /\ 13 \in 0..15
    OBVIOUS
  <2>2. Reading!Upto(Before(b, 13, c), 13) = b /\ Reading!Beyond(Before(b, 13, c), 13) = c
    BY <1>2, <2>1, CutSection
  <2> QED BY <1>3, <2>2
<1> HIDE DEF low
<1>7. whole \in Seq(0..15) /\ Free(whole, 15)
      /\ Reading!Upto(whole, Reading!BILLION) = a /\ Reading!Beyond(whole, Reading!BILLION) = low
  <2>1. 14 \in 13..15 /\ 15 \in 13..15 /\ 14 \in 0..15 /\ 14 # 15
    OBVIOUS
  <2>2. Before(a, 14, low) \in Seq(0..15) /\ Free(Before(a, 14, low), 15)
    BY <1>2, <1>4, <2>1, FreeBefore
  <2>3. Reading!Upto(Before(a, 14, low), 14) = a /\ Reading!Beyond(Before(a, 14, low), 14) = low
    BY <1>2, <1>4, <2>1, CutSection
  <2> QED BY <1>3, <2>2, <2>3
<1> HIDE DEF whole, D
<1>8. Reading!Whole = whole
      /\ Reading!Fraction = IF dec = 0 THEN <<>>
                            ELSE LET d == IF dec >= 100 THEN dec \div 10 ELSE dec
                                 IN  <<d \div 10, d % 10>>
  <2>1. CASE dec = 0
    <3>1. D = <<>>
      BY <2>1, DecimalMarks DEF D
    <3>2. words = whole
      BY <1>5, <1>7, <3>1, ConcatEmptySeq
    <3>3. Reading!IndexOf(words, 15) = 0
      BY <1>7, <3>2, NoCut
    <3> QED BY <1>3, <2>1, <3>2, <3>3 DEF Reading!Whole, Reading!Fraction
  <2>2. CASE dec # 0
    <3> DEFINE d == IF dec >= 100 THEN dec \div 10 ELSE dec
               f == <<d \div 10, d % 10>>
               one == <<15>>
    <3>1. D = <<15, d \div 10, d % 10>> /\ d \div 10 \in 0..9 /\ d % 10 \in 0..9
      BY <1>3, <2>2, DecimalMarks DEF D
    <3> HIDE DEF d
    <3>2. f \in Seq(0..15) /\ Len(f) = 2 /\ f[1] \in 0..9 /\ f[2] \in 0..9
      BY <3>1
    <3>3. Free(f, 15)
      <4> HIDE DEF f
      <4> QED BY <3>2 DEF Free
    <3>4. one \o f = D
      <4>1. one \in Seq(0..15) /\ Len(one) = 1 /\ one[1] = 15
        OBVIOUS
      <4>2. D \in Seq(0..15) /\ Len(D) = 3 /\ D[1] = 15 /\ D[2] = f[1] /\ D[3] = f[2]
        BY <3>1
      <4> HIDE DEF f, one
      <4>3. one \o f \in Seq(0..15) /\ Len(one \o f) = Len(one) + Len(f)
            /\ \A i \in 1..Len(one) + Len(f) :
                 (one \o f)[i] = IF i <= Len(one) THEN one[i] ELSE f[i - Len(one)]
        <5>1. f \in Seq(0..15)
          BY <3>2
        <5> QED BY <4>1, <5>1, ConcatProperties
      <4>4. \A i \in 1..3 : (one \o f)[i] = D[i]
        <5>1. (one \o f)[1] = one[1] /\ (one \o f)[2] = f[1] /\ (one \o f)[3] = f[2]
          BY <3>2, <4>1, <4>3
        <5>2. (one \o f)[1] = D[1] /\ (one \o f)[2] = D[2] /\ (one \o f)[3] = D[3]
          BY <4>1, <4>2, <5>1
        <5>3. \A i \in 1..3 : i = 1 \/ i = 2 \/ i = 3
          OBVIOUS
        <5> QED BY <5>2, <5>3
      <4>5. Len(one \o f) = 3 /\ Len(D) = 3
        BY <3>2, <4>1, <4>2, <4>3
      <4> QED BY <4>2, <4>3, <4>4, <4>5, SeqEqual, SMTT(30)
    <3>5. CutInto(whole \o (one \o f), 15, whole, f)
      <4>1. one = <<15>> /\ 15 \in 0..15
        OBVIOUS
      <4> HIDE DEF f, one
      <4> QED BY <1>7, <3>2, <3>3, <4>1, Cut
    <3>6. CutInto(words, 15, whole, f)
      <4> HIDE DEF f, one
      <4> QED BY <1>5, <3>4, <3>5
    <3>7. Reading!Whole = whole /\ Reading!Fraction = f
      <4> HIDE DEF f, one
      <4> QED BY <1>3, <3>6 DEF CutInto, Reading!Whole, Reading!Fraction
    <3> QED BY <2>2, <3>7 DEF d
  <2> QED BY <2>1, <2>2
<1>9. Reading!Sections = <<a, b, c>>
  BY <1>6, <1>7, <1>8 DEF Reading!Sections
<1> QED BY <1>8, <1>9 DEF whole, low

\* What is heard of a section has its zeros where places are skipped.
LEMMA ZerosHeard == ASSUME NEW w, NEW n, Heard(w, n) PROVE Reading!ZerosIn(w)
<1>1. w \in Seq(Marks) /\ DOMAIN w = 1..Len(w) /\ Len(w) \in Nat
  BY LenProperties DEF Heard
<1>2. ASSUME NEW i \in DOMAIN w, NEW j \in DOMAIN w, Reading!Follows(w, i, j)
      PROVE  Reading!Place(w, j) < Reading!Place(w, i) /\ Reading!ZerosBetween(w, i, j)
  <2> DEFINE zeros == {k \in i..j : w[k] = 0}
  <2>1. Gap(w, i, j) /\ i < j
    BY <1>1, <1>2 DEF Heard, Gaps, Reading!Follows
  <2>2. Reading!Place(w, i) \in 0..3 /\ Reading!Place(w, j) \in 0..3
    BY <1>1, WeightNat
  <2>3. i \in Nat /\ j \in Nat
    BY <1>1
  <2>4. Reading!Place(w, j) < Reading!Place(w, i)
    BY <2>1 DEF Gap
  <2>5. Reading!Place(w, j) = Reading!Place(w, i) - 1 => zeros = {}
    BY <2>1, <2>2 DEF Gap
  <2>6. Reading!Place(w, j) # Reading!Place(w, i) - 1 => j - 1 \in i..j /\ zeros = {j - 1}
    <3> SUFFICES ASSUME Reading!Place(w, j) # Reading!Place(w, i) - 1
                 PROVE  j - 1 \in i..j /\ zeros = {j - 1}
      OBVIOUS
    <3>1. j - 1 \in i..j
      BY <2>1, <2>3
    <3>2. \A k \in i..j : w[k] = 0 <=> k = j - 1
      BY <2>1, <2>2 DEF Gap
    <3> QED BY <3>1, <3>2
  <2>7. Reading!ZerosBetween(w, i, j)
          <=> IF Reading!Place(w, j) = Reading!Place(w, i) - 1 THEN zeros = {}
              ELSE \E k \in i..j : zeros = {k}
    BY DEF Reading!ZerosBetween
  <2> HIDE DEF zeros
  <2> QED BY <2>4, <2>5, <2>6, <2>7
<1>3. w # <<>> => w[Len(w)] # 0
  BY DEF Heard
<1> QED BY <1>2, <1>3 DEF Reading!ZerosIn

\* What audio_tts_num_play puts together is understood.
LEMMA ReadingUnderstood == ASSUME ReadingInv PROVE Understood
<1>1. PICK a, b, c : Sounds(words, a, b, c, num, dec)
  BY ReadingSounds DEF ReadingInv
<1>2. dec \in 0..255
  BY DEF ReadingInv
<1>3. /\ Reading!Whole = Before(a, Reading!BILLION, Before(b, Reading!TEN_THOUSAND, c))
      /\ Reading!Fraction = IF dec = 0 THEN <<>>
                            ELSE LET d == IF dec >= 100 THEN dec \div 10 ELSE dec
                                 IN  <<d \div 10, d % 10>>
      /\ Reading!Sections = <<a, b, c>>
  BY <1>1, <1>2, Apart3
<1>4. Reading!Sections[1] = a /\ Reading!Sections[2] = b /\ Reading!Sections[3] = c
  BY <1>3
<1>5. ASSUME num = <<>>
      PROVE  Reading!DigitsValue(Reading!ModPow(num, 4)) = 0
  <2>1. <<>> \in Seq(0..9) /\ Len(<<>>) = 0
    BY EmptySeq
  <2>2. Number(<<>>)
    BY <2>1 DEF Number
  <2>3. Reading!ModPow(<<>>, 4) = <<>>
    BY <2>1, <2>2, ModWhole
  <2> QED BY <1>5, <2>3, TotalStep DEF Reading!DigitsValue
<1>6. Reading!Understood
  <2>1. /\ Reading!SectionValue(a) = Reading!DigitsValue(Reading!DivPow(num, 8))
        /\ Reading!SectionValue(b) = Reading!DigitsValue(Reading!DivPow(Reading!ModPow(num, 8), 4))
    BY <1>1 DEF Sounds, Sharp, Says
  <2>2. Reading!SectionValue(c) = Reading!DigitsValue(Reading!ModPow(num, 4))
    <3>1. CASE Says(c, Reading!ModPow(num, 4))
      BY <3>1 DEF Says
    <3>2. CASE num = <<>> /\ c = <<0>>
      BY <1>5, <3>2, WordValues
    <3> QED BY <1>1, <3>1, <3>2 DEF Sounds
  <2> QED BY <1>3, <1>4, <2>1, <2>2 DEF Reading!Understood
<1>7. Reading!ZerosSpoken
  <2> SUFFICES ASSUME Reading!Whole # << 0 >> PROVE Reading!ZerosSpoken
    BY DEF Reading!ZerosSpoken
  <2>1. /\ Says(c, Reading!ModPow(num, 4))
        /\ a # <<>> \/ b # <<>> => Rest(c, Reading!ModPow(num, 4))
    <3>1. a = <<>> /\ b = <<>> /\ c = <<0>> => Reading!Whole = <<0>>
      BY <1>3 DEF Before
    <3> QED BY <1>1, <3>1 DEF Sounds
  <2>2. (\E k \in Nat : Heard(a, k)) /\ (\E k \in Nat : Heard(b, k)) /\ (\E k \in Nat : Heard(c, k))
    BY <1>1, <2>1 DEF Sounds, Sharp, Says
  <2>3. \A s \in 1..3 : \E k \in Nat : Heard(Reading!Sections[s], k)
    BY <1>4, <2>2
  <2>4. \A s \in 1..3 : Reading!ZerosIn(Reading!Sections[s])
    BY <2>3, ZerosHeard
  <2>5. c # <<>> /\ Len(c) < Len(Reading!Whole) => (c[1] = 0 <=> Len(Reading!ModPow(num, 4)) < 4)
    <3>1. CASE a = <<>> /\ b = <<>>
      <4>1. Reading!Whole = c
        BY <1>3, <3>1 DEF Before
      <4>2. Len(c) \in Nat
        BY <2>2, LenProperties DEF Heard
      <4> QED BY <4>1, <4>2
    <3>2. CASE a # <<>> \/ b # <<>>
      BY <2>1, <3>2 DEF Rest
    <3> QED BY <3>1, <3>2
  <2>6. LET w == Reading!Sections[3] IN
          w # <<>> /\ Len(w) < Len(Reading!Whole) => (w[1] = 0 <=> Len(Reading!ModPow(num, 4)) < 4)
    BY <1>4, <2>5
  <2>7. Reading!Sections[2] # <<>> => Reading!Sections[2][1] # 0
    BY <1>1, <1>4 DEF Sounds, Sharp
  <2> QED BY <2>4, <2>6, <2>7 DEF Reading!ZerosSpoken
<1> QED BY <1>6, <1>7 DEF Understood

\* Whoever listens to audio_tts_num_play understands every number below 10^12.
THEOREM NumbersUnderstood == Spec => []Understood
<1>1. Init => ReadingInv
  <2> SUFFICES ASSUME Init PROVE ReadingInv
    OBVIOUS
  <2>1. num = <<>> /\ dec = 0 /\ words = <<0>>
    BY DEF Init, Reading!Init
  <2>2. <<>> \in Seq(0..9) /\ Len(<<>>) = 0
    BY EmptySeq
  <2>3. Reading!Reading(<<>>, 0) = <<0>> \o <<>>
    BY <2>2 DEF Reading!Reading, Reading!AddThousand, Reading!DecimalWords
  <2>4. <<0>> \o <<>> = <<0>>
    <3>1. <<0>> \in Seq(0..9)
      OBVIOUS
    <3> QED BY <3>1, ConcatEmptySeq
  <2> QED BY <2>1, <2>2, <2>3, <2>4 DEF ReadingInv, Number
<1>2. ReadingInv /\ [Next]_vars => ReadingInv'
  <2> SUFFICES ASSUME ReadingInv, [Next]_vars PROVE ReadingInv'
    OBVIOUS
  <2>1. CASE RunReading
    <3>1. PICK ds \in Numbers, d \in Decimals : Reading!Play(ds, d)
      BY <2>1 DEF RunReading, Reading!Next
    <3>2. Number(ds) /\ Len(ds) <= 12 /\ d \in 0..255
      BY NumbersAssumption DEF Number
    <3> QED BY <3>1, <3>2 DEF Reading!Play, ReadingInv, Number
  <2>2. CASE UNCHANGED reading
    BY <2>2 DEF reading, ReadingInv, Number
  <2> QED BY <2>1, <2>2, Apart
<1>3. ReadingInv => Understood
  BY ReadingUnderstood
<1> QED BY <1>1, <1>2, <1>3, PTL DEF Spec
=============================================================================
