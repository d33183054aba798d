----------------------------- MODULE RangeTest -----------------------------
(***************************************************************************)
(* The IEEE 802.15.4 range test of bl702_demo_lmac154 (LMAC154_CASE 2): one *)
(* board sends LMAC154_PKT_CNT numbered packets, each until it is           *)
(* acknowledged or given up, the other board counts the packets it hears.   *)
(* The sender is a task woken by the interrupt lmac154_ackEvent through a   *)
(* semaphore; the receiver is the interrupt lmac154_rxDoneEvent.  The MAC   *)
(* library between them transmits, repeats and acknowledges on its own:     *)
(* every transmission and every acknowledgement may be lost.                *)
(***************************************************************************)
EXTENDS Integers, FiniteSets

CONSTANTS
  PktCnt,      \* LMAC154_PKT_CNT, 100
  SeqMod,      \* sequence numbers are 8 bits wide: 256
  TxRetry,     \* lmac154_setTxRetry(3): repetitions by the MAC
  AppLimit,    \* "app_retry > 5"
  Rssi         \* signal strengths the receiver may measure

\* The test stops before a sequence number comes back, or meets the one the
\* receiver starts from.
ASSUME SeqAssumption == PktCnt \in Nat \ {0} /\ SeqMod \in Nat /\ PktCnt < SeqMod
ASSUME RetryAssumption == TxRetry \in Nat /\ AppLimit \in Nat
ASSUME RssiAssumption == Rssi \subseteq {r \in Int : r < 0} /\ Rssi # {}

VARIABLES
  \* the sending task and what it shares with its interrupt
  pc,          \* "send", "wait" in xSemaphoreTake, "delay" or "done"
  txSeq,       \* SEQ_NUM of the sender
  tx_cnt, ack_cnt, ack_ok, app_retry,
  sem,         \* counting semaphore, at most 1
  \* the sender's radio
  air,         \* "idle", "on", "acked", "noack" or "failed"
  left,        \* transmissions the MAC may still make
  \* the receiver
  pend,        \* a frame is in the receive buffer: "none", "good" or "bad"
  pendSeq,     \* its sequence number
  pendId,      \* history: which packet it is
  crc,         \* history: every CRC so far was "right", or one was "wrong"
  rxSeq,       \* SEQ_NUM of the receiver
  rx_cnt,
  rssi_max, rssi_min, rssi_sum,
  heard        \* history: packets that reached lmac154_rxDoneEvent intact

taskVars == <<pc, txSeq, tx_cnt, app_retry>>
ackVars == <<ack_cnt, ack_ok>>
pendVars == <<pend, pendSeq, pendId, crc>>
rxVars == <<rxSeq, rx_cnt, rssi_max, rssi_min, rssi_sum, heard>>
vars == <<taskVars, ackVars, sem, air, left, pendVars, rxVars>>

\* SEQ_NUM of a receiver that has heard nothing, 0xFF.
Unheard == SeqMod - 1

Init == /\ pc = "send" /\ txSeq = 0 /\ tx_cnt = 0 /\ app_retry = 0
        /\ ack_cnt = 0 /\ ack_ok = FALSE /\ sem = 0
        /\ air = "idle" /\ left = 0
        /\ pend = "none" /\ pendSeq = 0 /\ pendId = 0 /\ crc = "right"
        /\ rxSeq = Unheard /\ rx_cnt = 0
        /\ rssi_max = 0 /\ rssi_min = 0 /\ rssi_sum = 0
        /\ heard = {}

(***************************************************************************)
(* The sending task.                                                       *)
(***************************************************************************)

Send == /\ pc = "send" /\ pc' = "wait"
        /\ air' = "on" /\ left' = TxRetry + 1
        /\ UNCHANGED <<txSeq, tx_cnt, app_retry, ackVars, sem, pendVars, rxVars>>

\* Mutant: the sequence number is changed for a repetition too.
TryAgainRenumbered == /\ ~ack_ok /\ app_retry + 1 <= AppLimit
                      /\ app_retry' = app_retry + 1
                      /\ txSeq' = (txSeq + 1) % SeqMod
                      /\ UNCHANGED tx_cnt

\* Mutant: an acknowledged packet is repeated too.
TryAgainAcked == /\ app_retry + 1 <= AppLimit
                 /\ app_retry' = app_retry + 1
                 /\ UNCHANGED <<txSeq, tx_cnt>>

\* The packet was not acknowledged and is sent again.
TryAgain == /\ ~ack_ok /\ app_retry + 1 <= AppLimit
            /\ app_retry' = app_retry + 1
            /\ UNCHANGED <<txSeq, tx_cnt>>

\* The packet was acknowledged, or sent often enough: on to the next.
NextPacket == /\ ack_ok \/ app_retry + 1 > AppLimit
              /\ app_retry' = 0
              /\ txSeq' = (txSeq + 1) % SeqMod
              /\ tx_cnt' = tx_cnt + 1

Take == /\ pc = "wait" /\ sem = 1
        /\ sem' = 0 /\ pc' = "delay"
        /\ TryAgain \/ NextPacket
        /\ UNCHANGED <<ackVars, air, left, pendVars, rxVars>>

Delay == /\ pc = "delay"
         /\ pc' = IF tx_cnt = PktCnt THEN "done" ELSE "send"
         /\ UNCHANGED <<txSeq, tx_cnt, app_retry, ackVars, sem, air, left, pendVars,
                        rxVars>>

(***************************************************************************)
(* The MAC library and the medium.                                         *)
(***************************************************************************)

\* The frame, or the acknowledgement of it, is lost: the MAC repeats or gives up.
Missed == /\ left' = left - 1
          /\ air' = IF left = 1 THEN "noack" ELSE "on"

\* One transmission.  The receiver acknowledges a frame that it can store and whose
\* CRC is right; one whose CRC is wrong may reach the interrupt too.
Transmit ==
  /\ air = "on"
  /\ \/ Missed /\ UNCHANGED pendVars
     \/ /\ pend = "none"
        /\ pend' = "good" /\ pendSeq' = txSeq /\ pendId' = tx_cnt /\ UNCHANGED crc
        /\ \/ Missed
           \/ air' = "acked" /\ left' = left - 1
     \/ /\ pend = "none"
        /\ pend' = "bad" /\ pendSeq' \in 0..SeqMod - 1 /\ pendId' = tx_cnt
        /\ crc' = "wrong"
        /\ Missed
  /\ UNCHANGED <<taskVars, ackVars, sem, rxVars>>

\* The channel stays busy: lmac154_txDoneEvent reports the failure, which is only
\* printed.  Whether the library then still raises lmac154_ackEvent is its affair.
TxFail == /\ air = "on" /\ left = TxRetry + 1
          /\ air' \in {"failed", "noack"}
          /\ UNCHANGED <<taskVars, ackVars, sem, left, pendVars, rxVars>>

\* Mutants: the flag is only ever set; the waiting task is woken only by success.
AckEventSticky ==
  /\ air \in {"acked", "noack"}
  /\ air' = "idle"
  /\ ack_ok' = (ack_ok \/ air = "acked")
  /\ ack_cnt' = ack_cnt + IF air = "acked" THEN 1 ELSE 0
  /\ sem' = 1
  /\ UNCHANGED <<taskVars, left, pendVars, rxVars>>
AckEventQuiet ==
  /\ air \in {"acked", "noack"}
  /\ air' = "idle"
  /\ ack_ok' = (air = "acked")
  /\ ack_cnt' = ack_cnt + IF air = "acked" THEN 1 ELSE 0
  /\ sem' = IF air = "acked" THEN 1 ELSE sem
  /\ UNCHANGED <<taskVars, left, pendVars, rxVars>>

\* lmac154_ackEvent, in interrupt context.
AckEvent ==
  /\ air \in {"acked", "noack"}
  /\ air' = "idle"
  /\ ack_ok' = (air = "acked")
  /\ ack_cnt' = ack_cnt + IF air = "acked" THEN 1 ELSE 0
  /\ sem' = 1
  /\ UNCHANGED <<taskVars, left, pendVars, rxVars>>

(***************************************************************************)
(* The receiver.                                                           *)
(***************************************************************************)

\* A frame with another sequence number than the last one is counted and its
\* signal strength entered in the statistics.
Count(rssi) ==
  /\ rxSeq' = pendSeq
  /\ rx_cnt' = rx_cnt + 1
  /\ rssi_max' = IF rx_cnt = 0 \/ rssi > rssi_max THEN rssi ELSE rssi_max
  /\ rssi_min' = IF rx_cnt = 0 \/ rssi < rssi_min THEN rssi ELSE rssi_min
  /\ rssi_sum' = rssi_sum + rssi

\* lmac154_rxDoneEvent; crc_fail is not looked at.
RxDone ==
  /\ pend # "none" /\ pend' = "none"
  /\ IF pendSeq # rxSeq
     THEN \E rssi \in Rssi : Count(rssi)
     ELSE UNCHANGED <<rxSeq, rx_cnt, rssi_max, rssi_min, rssi_sum>>
  /\ heard' = IF pend = "good" THEN heard \cup {pendId} ELSE heard
  /\ UNCHANGED <<taskVars, ackVars, sem, air, left, pendSeq, pendId, crc>>

Task == Send \/ Take \/ Delay
Next == Task \/ Transmit \/ TxFail \/ AckEvent \/ RxDone

Spec == Init /\ [][Next]_vars

\* The task is scheduled, the MAC comes to an end with every frame, and interrupts
\* are served.
FairSpec == Spec /\ WF_vars(Task) /\ WF_vars(Transmit) /\ WF_vars(AckEvent)
                 /\ WF_vars(RxDone)

(***************************************************************************)
(* Properties.                                                             *)
(***************************************************************************)

TypeOK ==
  /\ pc \in {"send", "wait", "delay", "done"}
  /\ txSeq \in 0..SeqMod - 1 /\ tx_cnt \in 0..PktCnt /\ app_retry \in 0..AppLimit
  /\ ack_cnt \in Nat /\ ack_ok \in BOOLEAN /\ sem \in {0, 1}
  /\ air \in {"idle", "on", "acked", "noack", "failed"}
  /\ left \in 0..TxRetry + 1
  /\ pend \in {"none", "good", "bad"} /\ pendSeq \in 0..SeqMod - 1
  /\ pendId \in 0..PktCnt /\ crc \in {"right", "wrong"}
  /\ rxSeq \in 0..SeqMod - 1 /\ rx_cnt \in Nat
  /\ rssi_max \in Int /\ rssi_min \in Int /\ rssi_sum \in Int
  /\ heard \subseteq 0..PktCnt

\* Every packet the receiver hears is counted once, however often the MAC or the
\* task repeated it and however late the interrupt is (frames with a bad CRC apart).
CountedOnce == crc = "right" => rx_cnt = Cardinality(heard)

\* The figures of the two boards bracket the truth: what the sender saw acknowledged
\* was heard, or is about to be, and what was heard had been sent.
CountsAgree ==
  crc = "right" => /\ ack_cnt <= rx_cnt + (IF pend = "good" THEN 1 ELSE 0)
                 /\ rx_cnt <= tx_cnt + (IF pc = "wait" THEN 1
                                        ELSE IF app_retry > 0 THEN 1 ELSE 0)

\* The printed extremes were measured and the average lies between them; it is a C
\* division, which truncates towards zero.
RssiOrdered ==
  rx_cnt > 0 => LET avg == -((-rssi_sum) \div rx_cnt)
                IN /\ rssi_min \in Rssi /\ rssi_max \in Rssi
                   /\ rssi_min <= avg /\ avg <= rssi_max

\* What the boards print is consistent: the counts of the one with those of the other
\* (lmac154_example_task, lmac154_rxDoneEvent), and the signal strengths among themselves.
Consistent == CountsAgree /\ RssiOrdered

\* The sender moves on from a packet only when the receiver has it, or after it was
\* sent AppLimit + 1 times.
NotSkipped ==
  [][tx_cnt' # tx_cnt => \/ tx_cnt \in heard
                         \/ pend # "none" /\ pendId = tx_cnt
                         \/ app_retry = AppLimit]_vars

\* The test comes to its end, unless a frame could not be sent at all.
Finishes == <>(pc = "done" \/ air = "failed")
=============================================================================
