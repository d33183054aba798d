------------------------------ MODULE AwsClient ------------------------------
(***************************************************************************)
(* aws_main_entry of aws_iot_main.c: a task with an MQTT client of its own  *)
(* that reports a temperature to the device shadow again and again.  The    *)
(* command "aws" starts one more task, and ble_sync_with_aws gives that     *)
(* command at every address the station is given; all share the static      *)
(* shadowUpdateInProgress.                                                  *)
(***************************************************************************)
EXTENDS Integers

CONSTANTS
  Tasks,
  MaxAcks     \* updates a client of the library waits for at a time

VARIABLES
  pc,          \* where a task is
  away,        \* rc of its last yield was NETWORK_ATTEMPTING_RECONNECT
  pending,     \* updates its client waits for
  shadowUpdateInProgress,
  lost         \* history: an update failed, or its task ended before it was answered
vars == <<pc, away, pending, shadowUpdateInProgress, lost>>

Init == /\ pc = [t \in Tasks |-> "none"] /\ away = [t \in Tasks |-> FALSE]
        /\ pending = [t \in Tasks |-> 0]
        /\ shadowUpdateInProgress = FALSE /\ lost = FALSE

At(t, from, to) == pc[t] = from /\ pc' = [pc EXCEPT ![t] = to]

\* xTaskCreate.  The set-up of the client succeeds, or the task delays forever.
StartTask(t) ==
  /\ At(t, "none", "yield") \/ At(t, "none", "stuck")
  /\ UNCHANGED <<away, pending, shadowUpdateInProgress, lost>>

\* Mutant: an answer does not take the flag back.
AnswerSilent(t) == /\ pending[t] > 0
                   /\ pending' = [pending EXCEPT ![t] = @ - 1]
                   /\ UNCHANGED shadowUpdateInProgress

\* ShadowUpdateStatusCallback: accepted, rejected or timed out.
Answer(t) == /\ pending[t] > 0
             /\ pending' = [pending EXCEPT ![t] = @ - 1]
             /\ shadowUpdateInProgress' = FALSE

\* aws_iot_shadow_yield, which answers at most one update or none, and then the test of
\* its result and of the flag.
Yield(t, answered) ==
  /\ pc[t] = "yield"
  /\ IF answered THEN Answer(t) ELSE UNCHANGED <<pending, shadowUpdateInProgress>>
  /\ \E gone \in BOOLEAN :
       /\ away' = [away EXCEPT ![t] = gone]
       /\ pc' = [pc EXCEPT ![t] = IF gone \/ shadowUpdateInProgress' THEN "busy" ELSE "build"]
  /\ UNCHANGED lost

\* The result of the longer yield decides whether the loop goes on.
BusyYield(t, answered) ==
  /\ pc[t] = "busy"
  /\ IF answered THEN Answer(t) ELSE UNCHANGED <<pending, shadowUpdateInProgress>>
  /\ \/ \E gone \in BOOLEAN :
          /\ away' = [away EXCEPT ![t] = gone]
          /\ pc' = [pc EXCEPT ![t] = "yield"]
     \/ pc' = [pc EXCEPT ![t] = "end"] /\ UNCHANGED away
  /\ UNCHANGED lost

\* The document is made and sent.
Update(t) ==
  /\ At(t, "build", "yield") /\ pending[t] < MaxAcks
  /\ pending' = [pending EXCEPT ![t] = @ + 1] /\ shadowUpdateInProgress' = TRUE
  /\ UNCHANGED <<away, lost>>

\* It is not made; or it is not sent, and the flag is set all the same.
UpdateFails(t) ==
  /\ At(t, "build", "end")
  /\ \/ shadowUpdateInProgress' = TRUE /\ lost' = TRUE
     \/ UNCHANGED <<shadowUpdateInProgress, lost>>
  /\ UNCHANGED <<away, pending>>

\* aws_iot_shadow_disconnect and vTaskDelete: nobody answers its updates any more.
End(t) ==
  /\ At(t, "end", "ended")
  /\ lost' = (lost \/ pending[t] > 0) /\ pending' = [pending EXCEPT ![t] = 0]
  /\ UNCHANGED <<away, shadowUpdateInProgress>>

Loop(t) == \/ \E answered \in BOOLEAN : Yield(t, answered) \/ BusyYield(t, answered)
           \/ Update(t) \/ UpdateFails(t) \/ End(t)
Answered(t) == Yield(t, TRUE) \/ BusyYield(t, TRUE)
Next == \E t \in Tasks : StartTask(t) \/ Loop(t)

\* The tasks run, and the library answers an update after four seconds at the latest.
Fairness == \A t \in Tasks : WF_vars(Loop(t)) /\ SF_vars(Answered(t))
Spec == Init /\ [][Next]_vars /\ Fairness

(***************************************************************************)
(* Properties.                                                             *)
(***************************************************************************)

Looping == {t \in Tasks : pc[t] \in {"yield", "busy", "build", "end"}}

\* The temperature is reported again and again, unless the network stays away, no task is
\* left, or an update was lost: then shadowUpdateInProgress stays set for every task to
\* come.
Reports ==
  \/ <>lost \/ <>[](Looping = {})
  \/ \E t \in Tasks : []<>away[t]
  \/ []<>(\E t \in Tasks : pending[t] > 0)
=============================================================================
