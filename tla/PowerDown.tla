------------------------------ MODULE PowerDown ------------------------------
(***************************************************************************)
(* demo_tickless: a pin chooses between power-down and the Wi-Fi program.   *)
(* In power-down the chip wakes after PDS_WAKEUP_MS and looks at the pin;   *)
(* in the program a periodic timer looks at it; either reboots to change.   *)
(***************************************************************************)
VARIABLES
  pin,        \* it reads PDS_STATUS
  mode        \* of the chip
vars == <<pin, mode>>

Init == pin \in BOOLEAN /\ mode = "boot"

\* main, at every reboot
Boot == /\ mode = "boot" /\ UNCHANGED pin
        /\ mode' = IF pin THEN "asleep" ELSE "run"

\* enter_pds_mode returns after its sleep.
Wake == mode = "asleep" /\ mode' = "look" /\ UNCHANGED pin

\* Mutant: the pin is not looked at again.
LookDeaf == mode = "look" /\ mode' = "asleep" /\ UNCHANGED pin

Look == /\ mode = "look" /\ UNCHANGED pin
        /\ mode' = IF pin THEN "asleep" ELSE "boot"

\* pds_check_process, the callback of the timer.
PdsCheck == /\ mode = "run" /\ UNCHANGED pin
            /\ mode' = IF pin THEN "boot" ELSE "run"

Turn == pin' = ~pin /\ UNCHANGED mode

Next == Boot \/ Wake \/ Look \/ PdsCheck \/ Turn
Fairness == WF_vars(Boot) /\ WF_vars(Wake) /\ WF_vars(Look) /\ WF_vars(PdsCheck)
Spec == Init /\ [][Next]_vars /\ Fairness

\* A pin that is left alone decides in the end: the chip only ever sleeps and looks, or
\* runs its program for good.
FollowsPin == /\ <>[]pin => <>[](mode \in {"asleep", "look"})
              /\ <>[]~pin => <>[](mode = "run")
=============================================================================
