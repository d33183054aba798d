------------------------------- MODULE Tickless -------------------------------
(***************************************************************************)
(* vApplicationSleep of bl602_demo_event and demo_ota: the idle task sleeps *)
(* until the tick FreeRTOS expects or until the Bluetooth controller is due,*)
(* whichever is first, in cycles of the slow clock, which it computes with  *)
(* unsigned words.                                                          *)
(***************************************************************************)
EXTENDS Integers

CONSTANTS
  Word,        \* 2^32
  Rate,        \* cycles in a second, 32768
  Second,      \* ticks in a second, 1000
  Enough,      \* TIME_5MS_IN_32768CYCLE
  Margin,      \* cycles taken off for waking up, 40
  MaxIdle,     \* bound: ticks expected
  MaxBle       \* bound: cycles the controller may sleep

VARIABLES
  expected,   \* ticks until FreeRTOS expects a task, 0 if it expects none
  bleSleep,   \* cycles until the controller is due
  slept       \* cycles of the sleep entered, 0 if none was
vars == <<expected, bleSleep, slept>>

Init == expected = 0 /\ bleSleep = 0 /\ slept = 0

\* Mutant: nothing is taken off for the tick that has begun and for waking up.
CyclesLate(ms) == (Rate * ms) \div Second + Margin + 1

\* expectedIdleTime_32768cycles: the product is a word, and wraps.
Cycles(ms) == ((Rate * (ms - 1)) % Word) \div Second

\* What FreeRTOS asks for: two ticks at least (configEXPECTED_IDLE_TIME_BEFORE_SLEEP), or
\* no end (0 here).  When it says that no task waits for a time, it asks with no end.
Statuses == {"eAbortSleep", "eStandardSleep", "eNoTasksWaitingTimeout"}
Asks(ms, status) == ms # 1 /\ (status = "eNoTasksWaitingTimeout" => ms = 0)

\* The scheduler may call the sleep off, as a controller about to sleep does (eAbortSleep
\* here), and one that is too short is called off.
Sleep(ms, ble, eSleepStatus) ==
  /\ expected' = ms /\ bleSleep' = ble
  /\ \/ /\ (ms # 0 /\ Cycles(ms) < Enough) \/ eSleepStatus = "eAbortSleep" \/ ble < Enough
        /\ slept' = 0
     \/ /\ ms = 0 \/ Cycles(ms) >= Enough
        /\ eSleepStatus # "eAbortSleep" /\ ble >= Enough
        /\ slept' = (IF eSleepStatus = "eStandardSleep" /\ ms # 0 /\ Cycles(ms) < ble
                     THEN Cycles(ms) ELSE ble) - Margin

\* A sleep is chosen afresh, whatever the one before it was: one is enough.
Next == /\ expected = 0 /\ bleSleep = 0
        /\ \E ms \in 0..MaxIdle, ble \in 0..MaxBle, eSleepStatus \in Statuses :
             Asks(ms, eSleepStatus) /\ Sleep(ms, ble, eSleepStatus)
Spec == Init /\ [][Next]_vars

(***************************************************************************)
(* Properties.                                                             *)
(***************************************************************************)

\* Whatever the product wraps to, a sleep ends before the tick that was expected and
\* before the controller is due, with the margin to wake up.
WakesInTime ==
  slept # 0 => /\ slept > 0 /\ slept + Margin <= bleSleep
               /\ expected # 0 => Second * (slept + Margin) <= Rate * (expected - 1)
=============================================================================
