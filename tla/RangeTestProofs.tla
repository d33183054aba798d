-------------------------- MODULE RangeTestProofs --------------------------
(***************************************************************************)
(* What the range test counts, for every number of packets, of repetitions  *)
(* and of sequence numbers that SeqAssumption allows.                       *)
(***************************************************************************)
EXTENDS RangeTest, FiniteSetTheorems, TLAPS

\* The task waits exactly while the radio is busy or has just woken it.
Handshake ==
  /\ pc = "wait" => \/ sem = 1 /\ air = "idle"
                    \/ sem = 0 /\ air # "idle"
  /\ pc # "wait" => sem = 0 /\ air = "idle"
  /\ air = "on" => left >= 1
  /\ pc \in {"send", "wait"} => tx_cnt < PktCnt

\* The sequence number is the number of the packet: it never wraps around.
Numbered ==
  /\ txSeq = tx_cnt
  /\ heard \subseteq 0..tx_cnt
  /\ heard \subseteq 0..PktCnt - 1
  /\ pend # "none" => pendId <= tx_cnt /\ pendId < PktCnt

\* Without corruption the receiver remembers the last packet it heard, which is the
\* largest, and the buffered one comes after it or is a copy of it.
InOrder ==
  crc = "right" =>
    /\ pend # "bad"
    /\ heard = {} => rxSeq = SeqMod - 1
    /\ heard # {} => rxSeq \in heard
    /\ \A h \in heard : h <= rxSeq
    /\ pend = "good" => /\ pendSeq = pendId
                        /\ \A h \in heard : h <= pendId

Counted == CountedOnce /\ IsFiniteSet(heard)

IInv == TypeOK /\ Handshake /\ Numbered /\ InOrder /\ Counted

\* The initial states satisfy the invariant.
LEMMA InitInv == Init => IInv
<1> SUFFICES ASSUME Init PROVE IInv
  OBVIOUS
<1>1. /\ PktCnt \in Nat /\ SeqMod \in Nat /\ TxRetry \in Nat /\ AppLimit \in Nat
      /\ 0 < PktCnt /\ PktCnt < SeqMod
  BY SeqAssumption, RetryAssumption
<1>2. ack_ok \in BOOLEAN /\ crc \in {"right", "wrong"}
  BY DEF Init
<1>3. TypeOK
  BY <1>1, <1>2 DEF Init, Unheard, TypeOK
<1>4. Handshake /\ Numbered
  BY <1>1 DEF Init, Handshake, Numbered
<1>5. InOrder
  BY DEF Init, Unheard, InOrder
<1>6. Counted
  BY FS_EmptySet DEF Init, Unheard, Counted, CountedOnce
<1> QED BY <1>3, <1>4, <1>5, <1>6 DEF IInv

\* Every step of either board preserves it.
LEMMA NextInv == IInv /\ [Next]_vars => IInv'
<1> SUFFICES ASSUME IInv, [Next]_vars PROVE IInv'
  OBVIOUS
<1> USE DEF taskVars, ackVars, pendVars, rxVars
<1>0. /\ PktCnt \in Nat /\ SeqMod \in Nat /\ TxRetry \in Nat /\ AppLimit \in Nat
      /\ 0 < PktCnt /\ PktCnt < SeqMod
  BY SeqAssumption, RetryAssumption
<1>1. CASE Send
  <2>1. TypeOK'
    BY <1>0, <1>1 DEF IInv, TypeOK, Send
  <2>2. Handshake' /\ Numbered' /\ InOrder'
    BY <1>0, <1>1 DEF IInv, TypeOK, Send, Handshake, Numbered, InOrder
  <2>3. Counted'
    BY <1>1 DEF IInv, Send, Counted, CountedOnce
  <2> QED BY <2>1, <2>2, <2>3 DEF IInv
<1>2. CASE Take
  <2>1. (txSeq + 1) % SeqMod = txSeq + 1 /\ tx_cnt < PktCnt
    BY <1>0, <1>2 DEF IInv, TypeOK, Take, Numbered, Handshake
  <2>2. TypeOK'
    <3>1. ack_ok' \in BOOLEAN
      BY <1>2 DEF IInv, TypeOK, Take
    <3> QED BY <1>0, <1>2, <2>1, <3>1
         DEF IInv, TypeOK, Take, TryAgain, NextPacket, Numbered
  <2>3. Handshake' /\ Numbered' /\ InOrder'
    BY <1>0, <1>2, <2>1
       DEF IInv, TypeOK, Take, TryAgain, NextPacket, Handshake, Numbered, InOrder
  <2>4. Counted'
    BY <1>2 DEF IInv, Take, Counted, CountedOnce
  <2> QED BY <2>2, <2>3, <2>4 DEF IInv
<1>3. CASE Delay
  <2>1. TypeOK'
    BY <1>0, <1>3 DEF IInv, TypeOK, Delay
  <2>2. Handshake' /\ Numbered' /\ InOrder'
    BY <1>0, <1>3 DEF IInv, TypeOK, Delay, Handshake, Numbered, InOrder
  <2>3. Counted'
    BY <1>3 DEF IInv, Delay, Counted, CountedOnce
  <2> QED BY <2>1, <2>2, <2>3 DEF IInv
<1>4. CASE Transmit
  <2>1. TypeOK'
    <3>1. crc' \in {"right", "wrong"}
      BY <1>4 DEF IInv, TypeOK, Transmit
    <3> QED BY <1>0, <1>4, <3>1 DEF IInv, TypeOK, Transmit, Missed, Handshake
  <2>2. Handshake' /\ Numbered'
    BY <1>0, <1>4 DEF IInv, TypeOK, Transmit, Missed, Handshake, Numbered
  <2>3. InOrder'
    BY <1>0, <1>4 DEF IInv, TypeOK, Transmit, Missed, Handshake, Numbered, InOrder
  <2>4. Counted'
    BY <1>4 DEF IInv, Transmit, Counted, CountedOnce
  <2> QED BY <2>1, <2>2, <2>3, <2>4 DEF IInv
<1>5. CASE TxFail
  <2>1. TypeOK'
    BY <1>0, <1>5 DEF IInv, TypeOK, TxFail
  <2>2. Handshake' /\ Numbered' /\ InOrder'
    BY <1>0, <1>5 DEF IInv, TypeOK, TxFail, Handshake, Numbered, InOrder
  <2>3. Counted'
    BY <1>5 DEF IInv, TxFail, Counted, CountedOnce
  <2> QED BY <2>1, <2>2, <2>3 DEF IInv
<1>6. CASE AckEvent
  <2>1. TypeOK'
    <3>1. ack_ok' \in BOOLEAN
      BY <1>6 DEF AckEvent
    <3> QED BY <1>0, <1>6, <3>1 DEF IInv, TypeOK, AckEvent
  <2>2. Handshake' /\ Numbered' /\ InOrder'
    BY <1>0, <1>6 DEF IInv, TypeOK, AckEvent, Handshake, Numbered, InOrder
  <2>3. Counted'
    BY <1>6 DEF IInv, AckEvent, Counted, CountedOnce
  <2> QED BY <2>1, <2>2, <2>3 DEF IInv
<1>7. CASE RxDone
  <2>1. /\ pend # "none" /\ pend' = "none"
        /\ heard' = IF pend = "good" THEN heard \cup {pendId} ELSE heard
        /\ pendSeq # rxSeq => \E rssi \in Rssi : Count(rssi)
        /\ pendSeq = rxSeq => UNCHANGED <<rxSeq, rx_cnt, rssi_max, rssi_min, rssi_sum>>
        /\ UNCHANGED <<taskVars, ackVars, sem, air, left, pendSeq, pendId, crc>>
    BY <1>7 DEF RxDone
  <2>2. /\ rx_cnt' \in Nat /\ rssi_max' \in Int /\ rssi_min' \in Int /\ rssi_sum' \in Int
        /\ rxSeq' = pendSeq
    BY <2>1, RssiAssumption DEF IInv, TypeOK, Count
  <2>3. TypeOK'
    BY <2>1, <2>2 DEF IInv, TypeOK
  <2>4. Handshake'
    BY <2>1 DEF IInv, Handshake
  <2>5. Numbered' /\ InOrder'
    BY <1>0, <2>1, <2>2 DEF IInv, TypeOK, Numbered, InOrder, Count
  <2>6. Counted'
    <3>1. IsFiniteSet(heard') /\ Cardinality(heard) \in Nat
      BY <2>1, FS_AddElement, FS_CardinalityType DEF IInv, Counted
    <3>2. SUFFICES ASSUME crc' = "right" PROVE rx_cnt' = Cardinality(heard')
      BY <3>1 DEF Counted, CountedOnce
    <3>3. pend = "good" /\ heard' = heard \cup {pendId}
      BY <2>1, <3>2 DEF IInv, TypeOK, InOrder
    <3>4. pendId \in heard <=> pendSeq = rxSeq
      BY <1>0, <2>1, <3>2, <3>3 DEF IInv, TypeOK, InOrder, Numbered
    <3>5. CASE pendSeq = rxSeq
      BY <2>1, <3>2, <3>3, <3>4, <3>5 DEF IInv, Counted, CountedOnce
    <3>6. CASE pendSeq # rxSeq
      <4>1. Cardinality(heard') = Cardinality(heard) + 1
        BY <3>3, <3>4, <3>6, FS_AddElement DEF IInv, Counted
      <4>2. rx_cnt' = rx_cnt + 1
        BY <2>1, <3>6 DEF Count
      <4> QED BY <2>1, <3>2, <4>1, <4>2 DEF IInv, Counted, CountedOnce
    <3> QED BY <3>5, <3>6
  <2> QED BY <2>3, <2>4, <2>5, <2>6 DEF IInv
<1>8. CASE UNCHANGED vars
  <2>1. TypeOK'
    BY <1>8 DEF IInv, TypeOK, vars
  <2>2. Handshake' /\ Numbered' /\ InOrder'
    BY <1>8 DEF IInv, vars, Handshake, Numbered, InOrder
  <2>3. Counted'
    BY <1>8 DEF IInv, vars, Counted, CountedOnce
  <2> QED BY <2>1, <2>2, <2>3 DEF IInv
<1> QED
  BY <1>1, <1>2, <1>3, <1>4, <1>5, <1>6, <1>7, <1>8 DEF Next, Task

\* Every variable keeps its type.
THEOREM TypeCorrect == Spec => []TypeOK
<1>1. IInv => TypeOK
  BY DEF IInv
<1> QED BY <1>1, InitInv, NextInv, PTL DEF Spec

\* Every packet that reaches the receiver is counted once, whatever is lost and
\* repeated: the filter on the last sequence number in lmac154_rxDoneEvent is enough.
THEOREM CountsOnce == Spec => []CountedOnce
<1>1. IInv => CountedOnce
  BY DEF IInv, Counted
<1> QED BY <1>1, InitInv, NextInv, PTL DEF Spec

-----------------------------------------------------------------------------
\* The packet being sent was acknowledged, and the task is to learn it.
CurrentAcked == air = "acked" \/ (pc = "wait" /\ sem = 1 /\ ack_ok)

\* The packets the receiver has, and the acknowledgements it sent.
Received == heard \cup (IF pend = "good" THEN {pendId} ELSE {})
Acks == ack_cnt + (IF air = "acked" THEN 1 ELSE 0)

\* Only a packet the receiver has is acknowledged, and each one once.
Acked == /\ CurrentAcked => tx_cnt \in Received
         /\ Acks <= Cardinality(Received \ {tx_cnt}) + (IF CurrentAcked THEN 1 ELSE 0)

\* A packet that was not sent yet was not received.
Unsent == pc # "wait" /\ app_retry = 0 => /\ tx_cnt \notin heard
                                          /\ pend # "none" => pendId # tx_cnt

\* The sum of the signal strengths lies between its least and its greatest values.
Measured == /\ rx_cnt = 0 => rssi_sum = 0
            /\ rx_cnt > 0 => /\ rssi_min \in Rssi /\ rssi_max \in Rssi
                             /\ rx_cnt * rssi_min <= rssi_sum
                             /\ rssi_sum <= rx_cnt * rssi_max

Reports == Acked /\ Unsent /\ Measured

\* The received packets are finitely many, and one more than those heard at most.
LEMMA ReceivedSize ==
  ASSUME IInv
  PROVE  /\ IsFiniteSet(Received) /\ IsFiniteSet(heard)
         /\ Cardinality(heard) \in Nat /\ Cardinality(Received) \in Nat
         /\ Cardinality(Received) <= Cardinality(heard) + (IF pend = "good" THEN 1 ELSE 0)
         /\ Received \subseteq 0..tx_cnt
<1>1. IsFiniteSet(heard) /\ Cardinality(heard) \in Nat
  BY FS_CardinalityType DEF IInv, Counted
<1>2. CASE pend = "good"
  <2>1. Received = heard \cup {pendId}
    BY <1>2 DEF Received
  <2>2. IsFiniteSet(Received) /\ Cardinality(Received) \in Nat
        /\ Cardinality(Received) <= Cardinality(heard) + 1
    BY <1>1, <2>1, FS_AddElement, FS_CardinalityType
  <2>3. Received \subseteq 0..tx_cnt
    BY <1>2, <2>1 DEF IInv, Numbered, TypeOK
  <2> QED BY <1>1, <1>2, <2>2, <2>3
<1>3. CASE pend # "good"
  BY <1>1, <1>3 DEF Received, IInv, Numbered
<1> QED BY <1>2, <1>3

\* Leaving out one packet takes at most one from their number.
LEMMA WithoutOne ==
  ASSUME NEW R, NEW x, IsFiniteSet(R)
  PROVE  /\ IsFiniteSet(R \ {x}) /\ Cardinality(R \ {x}) \in Nat /\ Cardinality(R) \in Nat
         /\ x \in R => Cardinality(R) = Cardinality(R \ {x}) + 1
         /\ x \notin R => Cardinality(R) = Cardinality(R \ {x})
<1>1. IsFiniteSet(R \ {x}) /\ Cardinality(R \ {x}) \in Nat /\ Cardinality(R) \in Nat
  BY FS_RemoveElement, FS_CardinalityType
<1>2. Cardinality(R \ {x}) = IF x \in R THEN Cardinality(R) - 1 ELSE Cardinality(R)
  BY FS_RemoveElement
<1> QED BY <1>1, <1>2

\* Nothing was sent, received or measured yet.
LEMMA ReportsInit == Init => Reports
<1> SUFFICES ASSUME Init PROVE Reports
  OBVIOUS
<1>1. Received = {} /\ ~CurrentAcked /\ Acks = 0
  BY DEF Init, Unheard, Received, CurrentAcked, Acks
<1>2. Acked
  BY <1>1, WithoutOne, FS_EmptySet DEF Acked
<1>3. Unsent /\ Measured
  BY DEF Init, Unsent, Measured
<1> QED BY <1>2, <1>3 DEF Reports

\* Steps that change neither what was received nor what was acknowledged.
LEMMA AckedKept ==
  ASSUME Acked, Received' = Received, Acks' = Acks, CurrentAcked' <=> CurrentAcked, tx_cnt' = tx_cnt
  PROVE  Acked'
BY DEF Acked

\* There are no more acknowledgements than received packets.
LEMMA AcksOfReceived ==
  ASSUME IInv, Reports PROVE Acks <= Cardinality(Received)
<1>1. IsFiniteSet(Received)
  BY ReceivedSize
<1>2. /\ Cardinality(Received \ {tx_cnt}) \in Nat /\ Cardinality(Received) \in Nat
      /\ tx_cnt \in Received => Cardinality(Received) = Cardinality(Received \ {tx_cnt}) + 1
      /\ tx_cnt \notin Received => Cardinality(Received) = Cardinality(Received \ {tx_cnt})
  BY <1>1, WithoutOne
<1>3. Acks \in Nat
  BY DEF Acks, IInv, TypeOK
<1>4. CASE CurrentAcked
  BY <1>2, <1>3, <1>4 DEF Reports, Acked
<1>5. CASE ~CurrentAcked
  BY <1>2, <1>3, <1>5 DEF Reports, Acked
<1> QED BY <1>4, <1>5

\* One more value above a lower bound of the earlier ones ...
LEMMA OneMoreAbove ==
  ASSUME NEW k \in Nat, NEW a \in Int, NEW c \in Int, NEW s \in Int, NEW x \in Int,
         k * a <= s, c <= a, c <= x
  PROVE  (k + 1) * c <= s + x
<1>1. k * (a - c) = k * a - k * c /\ k * (a - c) >= 0 /\ k * a \in Int /\ k * c \in Int
  OBVIOUS
<1>2. (k + 1) * c = k * c + c
  OBVIOUS
<1> QED BY <1>1, <1>2

\* ... and below an upper bound.
LEMMA OneMoreBelow ==
  ASSUME NEW k \in Nat, NEW b \in Int, NEW d \in Int, NEW s \in Int, NEW x \in Int,
         s <= k * b, b <= d, x <= d
  PROVE  s + x <= (k + 1) * d
<1>1. k * (d - b) = k * d - k * b /\ k * (d - b) >= 0 /\ k * b \in Int /\ k * d \in Int
  OBVIOUS
<1>2. (k + 1) * d = k * d + d
  OBVIOUS
<1> QED BY <1>1, <1>2

\* One more measurement.
LEMMA MeasuredNext ==
  ASSUME IInv, Measured, NEW rssi \in Rssi, Count(rssi) PROVE Measured'
<1>0. rssi \in Int /\ rx_cnt \in Nat /\ rssi_min \in Int /\ rssi_max \in Int /\ rssi_sum \in Int
  BY RssiAssumption DEF IInv, TypeOK
<1>1. rx_cnt' = rx_cnt + 1 /\ rssi_sum' = rssi_sum + rssi /\ rx_cnt' > 0
  BY <1>0 DEF Count
<1>2. CASE rx_cnt = 0
  <2>1. rssi_min' = rssi /\ rssi_max' = rssi /\ rssi_sum' = rssi /\ rx_cnt' = 1
    BY <1>0, <1>1, <1>2 DEF Count, Measured
  <2> QED BY <1>0, <2>1 DEF Measured
<1>3. CASE rx_cnt # 0
  <2>1. /\ rssi_min' \in Rssi /\ rssi_min' \in Int /\ rssi_min' <= rssi_min /\ rssi_min' <= rssi
        /\ rssi_max' \in Rssi /\ rssi_max' \in Int /\ rssi_max <= rssi_max' /\ rssi <= rssi_max'
    BY <1>0, <1>3 DEF Count, Measured
  <2>2. rx_cnt * rssi_min <= rssi_sum /\ rssi_sum <= rx_cnt * rssi_max
    BY <1>0, <1>3 DEF Measured
  <2>3. (rx_cnt + 1) * rssi_min' <= rssi_sum + rssi
    BY <1>0, <2>1, <2>2, OneMoreAbove
  <2>4. rssi_sum + rssi <= (rx_cnt + 1) * rssi_max'
    BY <1>0, <2>1, <2>2, OneMoreBelow
  <2>5. rx_cnt' * rssi_min' <= rssi_sum' /\ rssi_sum' <= rx_cnt' * rssi_max'
    BY <1>1, <2>3, <2>4, Zenon
  <2>6. rx_cnt' # 0
    BY <1>0, <1>1
  <2> QED BY <2>1, <2>5, <2>6, Zenon DEF Measured
<1> QED BY <1>2, <1>3

\* Every step of either board keeps the reports right.
LEMMA ReportsNext == IInv /\ IInv' /\ Reports /\ [Next]_vars => Reports'
<1> SUFFICES ASSUME IInv, IInv', Reports, [Next]_vars PROVE Reports'
  OBVIOUS
<1> USE DEF taskVars, ackVars, pendVars, rxVars
<1>0. /\ Acked /\ Unsent /\ Measured /\ tx_cnt \in Nat /\ ack_cnt \in Nat /\ app_retry \in Nat
      /\ pendId \in Nat /\ IsFiniteSet(Received) /\ IsFiniteSet(heard) /\ Received \subseteq 0..tx_cnt
  BY ReceivedSize, RetryAssumption DEF IInv, TypeOK, Reports
<1>1. CASE Send
  <2>1. UNCHANGED <<Received, Acks, tx_cnt>> /\ ~CurrentAcked /\ ~CurrentAcked'
    BY <1>1 DEF Send, Received, Acks, CurrentAcked, IInv, Handshake
  <2>2. Acked'
    BY <1>0, <2>1, AckedKept
  <2>3. Unsent' /\ Measured'
    BY <1>0, <1>1 DEF Send, Unsent, Measured
  <2> QED BY <2>2, <2>3 DEF Reports
<1>2. CASE Take
  <2>1. /\ pc = "wait" /\ sem = 1 /\ air = "idle" /\ pc' = "delay" /\ air' = "idle"
        /\ UNCHANGED <<ackVars, pendVars, rxVars>>
    BY <1>2 DEF Take, IInv, Handshake
  <2>2. UNCHANGED <<Received, Acks>> /\ ~CurrentAcked' /\ (CurrentAcked <=> ack_ok)
    BY <2>1 DEF Received, Acks, CurrentAcked
  <2>3. Measured'
    BY <1>0, <2>1 DEF Measured
  <2>4. CASE TryAgain
    <3>1. Acked'
      BY <1>0, <2>2, <2>4, AckedKept DEF TryAgain
    <3>2. Unsent'
      BY <1>0, <2>4 DEF TryAgain, Unsent
    <3> QED BY <2>3, <3>1, <3>2 DEF Reports
  <2>5. CASE NextPacket
    <3>1. tx_cnt' = tx_cnt + 1 /\ tx_cnt + 1 \notin Received
      BY <1>0, <2>5 DEF NextPacket
    <3>2. Acks <= Cardinality(Received)
      BY AcksOfReceived
    <3>3. Acked'
      <4>1. Cardinality(Received \ {tx_cnt + 1}) = Cardinality(Received)
            /\ Cardinality(Received) \in Nat
        BY <1>0, <3>1, WithoutOne
      <4>2. Acks' <= Cardinality(Received' \ {tx_cnt'})
        BY <2>2, <3>1, <3>2, <4>1
      <4>3. Acks' <= Cardinality(Received' \ {tx_cnt'}) + 0
        BY <2>2, <3>1, <4>1, <4>2
      <4> QED BY <2>2, <4>3 DEF Acked
    <3>4. Unsent'
      BY <1>0, <2>1, <3>1 DEF Unsent, Received, IInv, Numbered
    <3> QED BY <2>3, <3>3, <3>4 DEF Reports
  <2> QED BY <1>2, <2>4, <2>5 DEF Take
<1>3. CASE Delay
  <2>1. UNCHANGED <<Received, Acks, tx_cnt>> /\ ~CurrentAcked /\ ~CurrentAcked'
    BY <1>3 DEF Delay, Received, Acks, CurrentAcked, IInv, Handshake
  <2>2. Acked'
    BY <1>0, <2>1, AckedKept
  <2>3. Unsent' /\ Measured'
    BY <1>0, <1>3 DEF Delay, Unsent, Measured
  <2> QED BY <2>2, <2>3 DEF Reports
<1>4. CASE Transmit
  <2>1. /\ air = "on" /\ pc = "wait" /\ sem = 0 /\ UNCHANGED <<taskVars, ackVars, sem, rxVars>>
    BY <1>4 DEF Transmit, IInv, Handshake
  <2>2. ~CurrentAcked /\ Acks = ack_cnt
    BY <1>0, <2>1 DEF CurrentAcked, Acks
  <2>3. Unsent' /\ Measured'
    BY <1>0, <2>1 DEF Unsent, Measured
  <2>4. Missed => ~CurrentAcked' /\ Acks' = ack_cnt
    BY <1>0, <2>1 DEF Missed, CurrentAcked, Acks
  <2>5. CASE Missed /\ UNCHANGED pendVars
    <3>1. Received' = Received
      BY <2>1, <2>5 DEF Received
    <3> QED BY <1>0, <2>1, <2>2, <2>3, <2>4, <2>5, <3>1, AckedKept DEF Reports
  <2>6. CASE pend = "none" /\ pend' = "bad" /\ Missed
    <3>1. Received' = Received
      BY <2>1, <2>6 DEF Received
    <3> QED BY <1>0, <2>1, <2>2, <2>3, <2>4, <2>6, <3>1, AckedKept DEF Reports
  <2>7. CASE pend = "none" /\ pend' = "good" /\ pendId' = tx_cnt
             /\ (Missed \/ air' = "acked")
    <3>1. Received = heard /\ Received' = heard \cup {tx_cnt} /\ tx_cnt \in Received'
      BY <2>1, <2>7 DEF Received
    <3>2. Received' \ {tx_cnt} = Received \ {tx_cnt}
      BY <3>1
    <3>3. Acks <= Cardinality(Received \ {tx_cnt}) /\ Cardinality(Received \ {tx_cnt}) \in Nat
      <4>1. Cardinality(Received \ {tx_cnt}) \in Nat
        BY <1>0, WithoutOne
      <4> QED BY <1>0, <2>2, <4>1 DEF Acked
    <3>4. Acks' = ack_cnt + (IF CurrentAcked' THEN 1 ELSE 0)
      BY <2>1, <2>4, <2>7 DEF Acks, CurrentAcked
    <3>5. Acked'
      <4>1. CASE CurrentAcked'
        BY <1>0, <2>1, <2>2, <3>1, <3>2, <3>3, <3>4, <4>1 DEF Acked
      <4>2. CASE ~CurrentAcked'
        BY <1>0, <2>1, <2>2, <3>1, <3>2, <3>3, <3>4, <4>2 DEF Acked
      <4> QED BY <4>1, <4>2
    <3> QED BY <2>3, <3>5 DEF Reports
  <2> QED BY <1>4, <2>5, <2>6, <2>7 DEF Transmit
<1>5. CASE TxFail
  <2>1. UNCHANGED <<Received, Acks, tx_cnt>> /\ ~CurrentAcked /\ ~CurrentAcked'
    BY <1>5 DEF TxFail, Received, Acks, CurrentAcked, IInv, Handshake
  <2>2. Acked'
    BY <1>0, <2>1, AckedKept
  <2>3. Unsent' /\ Measured'
    BY <1>0, <1>5 DEF TxFail, Unsent, Measured
  <2> QED BY <2>2, <2>3 DEF Reports
<1>6. CASE AckEvent
  <2>1. pc = "wait" /\ sem = 0 /\ sem' = 1 /\ air' = "idle" /\ pc' = "wait" /\ (ack_ok' <=> air = "acked")
        /\ UNCHANGED <<taskVars, pendVars, rxVars>>
    BY <1>6 DEF AckEvent, IInv, Handshake
  <2>2. UNCHANGED <<Received, Acks, tx_cnt>>
    BY <1>6, <2>1 DEF AckEvent, Received, Acks
  <2>3. CurrentAcked' <=> CurrentAcked
    BY <2>1 DEF CurrentAcked
  <2>4. Acked'
    BY <1>0, <2>2, <2>3, AckedKept
  <2>5. Unsent' /\ Measured'
    BY <1>0, <2>1 DEF Unsent, Measured
  <2> QED BY <2>4, <2>5 DEF Reports
<1>7. CASE RxDone
  <2>1. /\ pend # "none" /\ pend' = "none"
        /\ heard' = IF pend = "good" THEN heard \cup {pendId} ELSE heard
        /\ pendSeq # rxSeq => \E rssi \in Rssi : Count(rssi)
        /\ pendSeq = rxSeq => UNCHANGED <<rxSeq, rx_cnt, rssi_max, rssi_min, rssi_sum>>
        /\ UNCHANGED <<taskVars, ackVars, sem, air, left, pendSeq, pendId, crc>>
    BY <1>7 DEF RxDone
  <2>2. Received' = Received
    BY <2>1 DEF Received
  <2>3. Acks' = Acks /\ (CurrentAcked' <=> CurrentAcked) /\ tx_cnt' = tx_cnt
    BY <2>1 DEF Acks, CurrentAcked
  <2>4. Acked'
    BY <1>0, <2>2, <2>3, AckedKept
  <2>5. Unsent'
    BY <1>0, <2>1 DEF Unsent
  <2>6. Measured'
    BY <1>0, <2>1, MeasuredNext DEF Measured
  <2> QED BY <2>4, <2>5, <2>6 DEF Reports
<1>8. CASE UNCHANGED vars
  <2>1. UNCHANGED <<Received, Acks, tx_cnt>> /\ (CurrentAcked' <=> CurrentAcked)
    BY <1>8 DEF vars, Received, Acks, CurrentAcked
  <2>2. Acked' /\ Unsent' /\ Measured'
    BY <1>0, <1>8, <2>1, AckedKept DEF vars, Unsent, Measured
  <2> QED BY <2>2 DEF Reports
<1> QED
  BY <1>1, <1>2, <1>3, <1>4, <1>5, <1>6, <1>7, <1>8 DEF Next, Task

\* What both boards report holds in every state.
LEMMA ReportsAlways == Spec => [](IInv /\ Reports)
BY InitInv, NextInv, ReportsInit, ReportsNext, PTL DEF Spec

\* A division by a positive number that truncates towards zero stays between two bounds
\* of the quotient.
LEMMA AverageBetween ==
  ASSUME NEW k \in Nat \ {0}, NEW s \in Int, NEW a \in Int, NEW b \in Int,
         k * a <= s, s <= k * b
  PROVE  a <= -((-s) \div k) /\ -((-s) \div k) <= b
<1> DEFINE q == (-s) \div k
<1>1. q \in Int /\ k * q <= -s /\ -s < k * (q + 1)
  OBVIOUS
<1> HIDE DEF q
<1>2. ASSUME q > -a PROVE FALSE
  <2>1. q + a >= 1 /\ q + a \in Nat
    BY <1>1, <1>2
  <2>2. k * (q + a) = k * q + k * a /\ k * (q + a) >= k
    BY <1>1, <2>1
  <2> QED BY <1>1, <2>2
<1>3. ASSUME q < -b PROVE FALSE
  <2>1. q + 1 + b <= 0
    BY <1>1, <1>3
  <2>2. k * (q + 1 + b) = k * (q + 1) + k * b /\ k * (q + 1 + b) <= 0
    BY <1>1, <2>1
  <2> QED BY <1>1, <2>2
<1> QED BY <1>1, <1>2, <1>3 DEF q

\* What the two boards print agrees: no acknowledgement is counted twice or without the
\* packet, no packet is counted that was not sent, and the average of the signal strengths
\* lies between the extremes.
THEOREM ConsistentReports == Spec => []Consistent
<1>1. IInv /\ Reports => CountsAgree
  <2> SUFFICES ASSUME IInv, Reports, crc = "right" PROVE CountsAgree
    BY DEF CountsAgree
  <2>1. rx_cnt = Cardinality(heard)
    BY DEF IInv, Counted, CountedOnce
  <2>2. ack_cnt \in Nat /\ tx_cnt \in Nat /\ heard \subseteq 0..tx_cnt /\ rx_cnt \in Nat
        /\ app_retry \in Nat
    BY RetryAssumption DEF IInv, TypeOK, Numbered
  <2>3. ack_cnt <= Cardinality(Received)
    <3>1. Acks <= Cardinality(Received) /\ Cardinality(Received) \in Nat
      BY AcksOfReceived, ReceivedSize
    <3>2. ack_cnt <= Acks /\ Acks \in Nat
      BY <2>2 DEF Acks
    <3> QED BY <2>2, <3>1, <3>2
  <2>4. ack_cnt <= rx_cnt + (IF pend = "good" THEN 1 ELSE 0)
    BY <2>1, <2>2, <2>3, ReceivedSize
  <2>5. CASE pc = "wait" \/ app_retry > 0
    <3>1. IsFiniteSet(0..tx_cnt) /\ Cardinality(0..tx_cnt) = tx_cnt + 1
      BY <2>2, FS_Interval
    <3>2. rx_cnt <= tx_cnt + 1
      BY <2>1, <2>2, <3>1, FS_Subset
    <3> QED BY <2>4, <2>5, <3>2 DEF CountsAgree
  <2>6. CASE ~(pc = "wait" \/ app_retry > 0)
    <3>1. heard \in SUBSET (0..tx_cnt - 1)
      BY <2>2, <2>6 DEF Reports, Unsent
    <3>2. IsFiniteSet(0..tx_cnt - 1) /\ Cardinality(0..tx_cnt - 1) = tx_cnt
      BY <2>2, FS_Interval
    <3>3. rx_cnt <= tx_cnt
      <4>1. Cardinality(heard) <= Cardinality(0..tx_cnt - 1)
        BY <3>1, <3>2, FS_Subset
      <4> QED BY <2>1, <3>2, <4>1
    <3> QED BY <2>2, <2>4, <2>6, <3>3 DEF CountsAgree
  <2> QED BY <2>5, <2>6
<1>2. IInv /\ Reports => RssiOrdered
  <2> SUFFICES ASSUME IInv, Reports, rx_cnt > 0
      PROVE  LET avg == -((-rssi_sum) \div rx_cnt)
             IN /\ rssi_min \in Rssi /\ rssi_max \in Rssi
                /\ rssi_min <= avg /\ avg <= rssi_max
    BY DEF RssiOrdered
  <2>1. /\ rx_cnt \in Nat \ {0} /\ rssi_sum \in Int /\ rssi_min \in Int /\ rssi_max \in Int
        /\ rssi_min \in Rssi /\ rssi_max \in Rssi
        /\ rx_cnt * rssi_min <= rssi_sum /\ rssi_sum <= rx_cnt * rssi_max
    BY DEF IInv, TypeOK, Reports, Measured
  <2> QED BY <2>1, AverageBetween
<1> QED BY <1>1, <1>2, ReportsAlways, PTL DEF Consistent

\* For any loss of frames and acknowledgements: the sender moves on from a packet only
\* when the receiver has it, or after it was sent AppLimit + 1 times.
THEOREM SkipsNothing == Spec => NotSkipped
<1>1. IInv /\ Reports /\ [Next]_vars =>
        [tx_cnt' # tx_cnt => \/ tx_cnt \in heard
                             \/ pend # "none" /\ pendId = tx_cnt
                             \/ app_retry = AppLimit]_vars
  <2> SUFFICES ASSUME IInv, Reports, [Next]_vars, tx_cnt' # tx_cnt
               PROVE  \/ tx_cnt \in heard
                      \/ pend # "none" /\ pendId = tx_cnt
                      \/ app_retry = AppLimit
    OBVIOUS
  <2>1. Take /\ NextPacket
    BY DEF Next, Task, Send, Take, TryAgain, Delay, Transmit, TxFail, AckEvent, RxDone, vars, taskVars
  <2>2. CASE ack_ok
    <3>1. tx_cnt \in Received
      BY <2>1, <2>2 DEF Take, CurrentAcked, Reports, Acked
    <3> QED BY <3>1 DEF Received
  <2>3. CASE ~ack_ok
    BY <2>1, <2>3, RetryAssumption DEF NextPacket, IInv, TypeOK
  <2> QED BY <2>2, <2>3
<1> QED BY <1>1, ReportsAlways, PTL DEF Spec, NotSkipped
=============================================================================
