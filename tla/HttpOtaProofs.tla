--------------------------- MODULE HttpOtaProofs ---------------------------
(***************************************************************************)
(* Proofs about HttpOta for every set of files, every header, buffer and   *)
(* chunk size that the assumptions allow, every number of commands in a    *)
(* boot and every number of boots.                                         *)
(***************************************************************************)
EXTENDS HttpOta, SequenceTheorems, FiniteSetTheorems, TLAPS

\* Putting two runs of units together.
LEMMA ConcatUnits ==
  ASSUME NEW s \in Seq(Unit), NEW t \in Seq(Unit)
  PROVE  s \o t \in Seq(Unit) /\ Len(s \o t) = Len(s) + Len(t)
BY ConcatProperties

\* A piece of a file is made of units, and is as long as it was asked for.
LEMMA PieceOfFile ==
  ASSUME NEW f \in Files \cup {<<>>}, NEW g \in Nat, NEW n \in Nat,
         g + n <= Len(f)
  PROVE  /\ SubSeq(f, g + 1, g + n) \in Seq(Unit)
         /\ Len(SubSeq(f, g + 1, g + n)) = n
<1>1. f \in Seq(Unit)
  BY FilesAssumption, EmptySeq
<1>2. \A i \in g + 1..g + n : f[i] \in Unit
  BY <1>1, ElementOfSeq, LenProperties
<1> QED
  BY <1>2, SubSeqProperties

\* What the receive callback finds in the buffer: what was there and the new units.
LEMMA FilledBuffer ==
  ASSUME TypeOK, NEW c \in Conns, NEW n \in 1..MaxChunk,
         got[c] + n <= Len(file[c])
  PROVE  /\ Filled(c, n) \in Seq(Unit)
         /\ Len(Filled(c, n)) = Len(buf) + n
         /\ Len(buf) \in Nat /\ n \in Nat
<1>1. /\ buf \in Seq(Unit) /\ Len(buf) \in Nat
      /\ file[c] \in Files \cup {<<>>} /\ got[c] \in Nat
  BY LenProperties DEF TypeOK
<1>2. n \in Nat
  BY ChunkAssumption
<1>3. /\ SubSeq(file[c], got[c] + 1, got[c] + n) \in Seq(Unit)
      /\ Len(SubSeq(file[c], got[c] + 1, got[c] + n)) = n
  BY <1>1, <1>2, PieceOfFile
<1> DEFINE piece == SubSeq(file[c], got[c] + 1, got[c] + n)
<1>4. Filled(c, n) = buf \o piece
  BY DEF Filled
<1> HIDE DEF piece
<1>5. piece \in Seq(Unit) /\ Len(piece) = n
  BY <1>3 DEF piece
<1>6. buf \o piece \in Seq(Unit) /\ Len(buf \o piece) = Len(buf) + Len(piece)
  BY <1>1, <1>5, ConcatUnits
<1> QED
  BY <1>1, <1>2, <1>4, <1>5, <1>6

\* The types of the connections, of the persistent state and of the rest.
ConnOK == /\ conn \in [Conns -> {"none", "connecting", "body", "closed"}]
          /\ file \in [Conns -> Files \cup {<<>>}]
          /\ got \in [Conns -> Nat] /\ unacked \in [Conns -> Nat]
          /\ aborted \in [Conns -> BOOLEAN]

\* Progress of a connection keeps its record well formed.
LEMMA DeliverType ==
  ASSUME TypeOK, NEW c \in Conns, NEW n \in 1..MaxChunk, NEW a \in BOOLEAN,
         Deliver(c, n, a)
  PROVE  ConnOK'
<1>1. n \in Nat
  BY ChunkAssumption
<1> QED
  BY <1>1 DEF TypeOK, ConnOK, Deliver

\* A slot in which a sequence was written is well formed.
LEMMA WrittenType ==
  ASSUME TypeOK, NEW full \in Seq(Unit), NEW slot \in [1..PartLen -> Unit \cup {Erased}]
  PROVE  Written(slot, full) \in [1..PartLen -> Unit \cup {Erased}]
<1>1. ASSUME NEW i \in 1..PartLen,
             i \in flashOffset + 1..flashOffset + Len(full)
      PROVE  full[i - flashOffset] \in Unit
  <2>1. i - flashOffset \in 1..Len(full)
    BY <1>1, PartAssumption, LenProperties DEF TypeOK
  <2> QED BY <2>1, ElementOfSeq
<1>2. \A i \in 1..PartLen : slot[i] \in Unit \cup {Erased}
  OBVIOUS
<1> QED BY <1>1, <1>2 DEF Written

\* So does power that is lost in the middle of an erasure or a write; it leaves the
\* running slot alone.
LEMMA CutType ==
  ASSUME TypeOK, UNCHANGED flash \/ CutErase \/ CutWrite
  PROVE  /\ flash' \in [Slots -> [1..PartLen -> Unit \cup {Erased}]]
         /\ flash'[active] = flash[active]
<1>0. /\ Standby \in Slots /\ Standby # active /\ active \in Slots
      /\ flash \in [Slots -> [1..PartLen -> Unit \cup {Erased}]]
  BY DEF TypeOK, Slots, Standby
<1>1. ASSUME NEW s \in [1..PartLen -> Unit \cup {Erased}],
             flash' = [flash EXCEPT ![Standby] = s]
      PROVE  /\ flash' \in [Slots -> [1..PartLen -> Unit \cup {Erased}]]
             /\ flash'[active] = flash[active]
  BY <1>0, <1>1
<1>2. CASE UNCHANGED flash
  BY <1>0, <1>2
<1>3. CASE CutErase
  <2>1. PICK k \in 1..PartLen : flash' = [flash EXCEPT ![Standby] = ErasedTo(@, k)]
    BY <1>3 DEF CutErase
  <2>2. ErasedTo(flash[Standby], k) \in [1..PartLen -> Unit \cup {Erased}]
    BY <1>0 DEF ErasedTo
  <2> QED BY <1>1, <2>1, <2>2
<1>4. CASE CutWrite
  <2>1. PICK c \in Conns, n \in 1..MaxChunk :
          /\ Arrives(c, n)
          /\ \E k \in 1..Len(Filled(c, n)) :
               flash' = [flash EXCEPT ![Standby] = Written(@, SubSeq(Filled(c, n), 1, k))]
    BY <1>4, Zenon DEF CutWrite
  <2> DEFINE full == Filled(c, n)
  <2>2. full \in Seq(Unit)
    BY <2>1, FilledBuffer DEF Arrives
  <2>6. PICK k \in 1..Len(full) :
          flash' = [flash EXCEPT ![Standby] = Written(@, SubSeq(full, 1, k))]
    BY <2>1
  <2> HIDE DEF full
  <2>3. \A i \in 1..k : full[i] \in Unit
    BY <2>2, <2>6, ElementOfSeq, LenProperties
  <2>4. SubSeq(full, 1, k) \in Seq(Unit)
    BY <2>2, <2>3, <2>6, SubSeqProperties, LenProperties
  <2>5. Written(flash[Standby], SubSeq(full, 1, k)) \in [1..PartLen -> Unit \cup {Erased}]
    BY <1>0, <2>4, WrittenType
  <2> QED BY <1>1, <2>5, <2>6
<1> QED BY <1>2, <1>3, <1>4

\* A write leaves the slots well formed.
LEMMA WriteType ==
  ASSUME TypeOK, NEW full \in Seq(Unit), Write(full)
  PROVE  /\ flash' \in [Slots -> [1..PartLen -> Unit \cup {Erased}]]
         /\ degraded' \in BOOLEAN
<1>1. CASE degraded' = TRUE /\ UNCHANGED flash
  BY <1>1 DEF TypeOK
<1>2. CASE /\ flash' = [flash EXCEPT ![Standby] = Written(@, full)]
           /\ UNCHANGED degraded
  <2>1. Standby \in Slots
    BY DEF TypeOK, Slots, Standby
  <2>2. Written(flash[Standby], full) \in [1..PartLen -> Unit \cup {Erased}]
    BY <2>1, WrittenType DEF TypeOK
  <2> QED BY <1>2, <2>1, <2>2 DEF TypeOK
<1> QED BY <1>1, <1>2 DEF Write

\* A reboot leaves every variable it sets well formed.
LEMMA RebootType ==
  ASSUME TypeOK, Reboot,
         flash' \in [Slots -> [1..PartLen -> Unit \cup {Erased}]],
         active' \in Slots, bootLen' \in Nat, degraded' \in BOOLEAN
  PROVE  TypeOK'
<1>1. <<>> \in Seq(Unit)
  BY EmptySeq
<1> QED
  BY <1>1 DEF TypeOK, Reboot

-----------------------------------------------------------------------------
\* The initial values have the types.
LEMMA InitType == Init => TypeOK
<1>1. <<>> \in Seq(Unit)
  BY EmptySeq
<1>2. Blank \in [1..PartLen -> Unit \cup {Erased}]
  BY DEF Blank
<1>3. Init => /\ flash \in [Slots -> [1..PartLen -> Unit \cup {Erased}]]
              /\ active \in Slots /\ bootLen \in Nat /\ boots \in Nat
  BY <1>2 DEF Init, Slots
<1>4. Init => degraded \in BOOLEAN /\ otaHeader \in BOOLEAN
  BY Zenon DEF Init, RamInit
<1>5. Init => ConnOK
  BY DEF Init, RamInit, ConnOK
<1> QED
  BY <1>1, <1>3, <1>4, <1>5 DEF Init, RamInit, TypeOK, ConnOK

\* No step gives a variable another type.
LEMMA NextType == TypeOK /\ [Next]_vars => TypeOK'
<1> SUFFICES ASSUME TypeOK, [Next]_vars PROVE TypeOK'
  OBVIOUS
<1>1. ASSUME NEW c \in Conns, OtaCmd(c) PROVE TypeOK'
  BY <1>1 DEF OtaCmd, TypeOK, flashVars, recvVars, dlVars
<1>2. ASSUME NEW c \in Conns, NEW f \in Files, NEW known \in BOOLEAN,
             HeadersDone(c, f, known)
      PROVE  TypeOK'
  <2>1. ConnOK'
    BY <1>2, ZenonT(40) DEF HeadersDone, Replied, TypeOK, ConnOK
  <2>2. /\ (IF known THEN Len(f) ELSE NoLength) \in Nat
        /\ <<>> \in Seq(Unit)
    BY FilesAssumption, LenProperties, EmptySeq DEF NoLength
  <2>3. /\ flash' \in [Slots -> [1..PartLen -> Unit \cup {Erased}]]
        /\ degraded' \in BOOLEAN
    <3>1. Blank \in [1..PartLen -> Unit \cup {Erased}]
      BY DEF Blank
    <3> QED BY <1>2, <3>1 DEF HeadersDone, Erase, TypeOK
  <2>4. /\ otaHandle' \in {"null", "open", "closed"}
        /\ otaBuffer' \in {"null", "live", "freed"}
        /\ otaTotalLength' \in Nat /\ otaCtx' \in Seq(Unit)
        /\ cli' = cli /\ otaSema' \in {"none", "empty", "full"}
        /\ fault' \subseteq {"semaphore", "handle", "buffer", "overflow",
                             "partition"}
    BY <1>2, <2>2 DEF HeadersDone, HeadersFit, HeadersAbort, Give, GiveFault,
                      taskVars, TypeOK
  <2> QED
    BY <1>2, <2>1, <2>3, <2>4 DEF HeadersDone, recvVars, TypeOK, ConnOK
<1>3. ASSUME NEW c \in Conns, NEW n \in 1..MaxChunk, Recv(c, n)
      PROVE  TypeOK'
  <2> DEFINE full == Filled(c, n)
  <2>1. full \in Seq(Unit) /\ Len(full) \in Nat
    BY <1>3, FilledBuffer, LenProperties DEF Recv, Arrives
  <2>2. ASSUME NEW kind \in {"buffer", "overflow", "handle", "partition"},
               Lost(kind)
        PROVE  TypeOK'
    BY <2>2 DEF Lost, TypeOK, flashVars, taskVars, recvVars, dlVars, connVars
  <2>3. CASE Deliver(c, n, FALSE) /\ UNCHANGED <<flashVars, boots, taskVars,
                                                 recvVars, dlVars, fault>>
    <3>1. ConnOK'
      BY <2>3, DeliverType
    <3>2. UNCHANGED <<flashVars, boots, taskVars, recvVars, dlVars, fault>>
      BY <2>3
    <3> HIDE DEF full
    <3> QED
      BY <3>1, <3>2 DEF TypeOK, ConnOK, flashVars, taskVars, recvVars, dlVars
  <2>4. CASE RecvHeader(full) /\ Deliver(c, n, TRUE)
    <3>1. ConnOK'
      BY <2>4, DeliverType
    <3>2. Len(full) >= HeaderLen => /\ full[1] \in Unit
                                    /\ Claim[full[1]] \in Seq(Unit) \cup {NoDigest}
                                    /\ SubSeq(full, HeaderLen + 1, Len(full))
                                         \in Seq(Unit)
      <4>1. \A i \in 1..Len(full) : full[i] \in Unit
        BY <2>1, ElementOfSeq
      <4>2. \A i \in HeaderLen + 1..Len(full) : full[i] \in Unit
        BY <2>1, <4>1, HeaderAssumption
      <4>3. SubSeq(full, HeaderLen + 1, Len(full)) \in Seq(Unit)
        BY <2>1, <4>2, HeaderAssumption, SubSeqProperties
      <4>4. Len(full) >= HeaderLen => full[1] \in Unit
        BY <2>1, <4>1, HeaderAssumption
      <4> QED BY <4>3, <4>4, ClaimAssumption
    <3> HIDE DEF full
    <3>4. otaHeader' \in BOOLEAN
      BY <2>4, Zenon DEF RecvHeader, TypeOK
    <3>3. /\ buf' \in Seq(Unit) /\ flashOffset' \in Nat
          /\ otaSha256Img' \in Seq(Unit) \cup {NoDigest}
      <4>1. CASE Len(full) >= HeaderLen
        <5>1. /\ buf' = SubSeq(full, HeaderLen + 1, Len(full))
              /\ flashOffset' = 0 /\ otaSha256Img' = Claim[full[1]]
          BY <2>4, <4>1, Zenon DEF RecvHeader
        <5> QED BY <3>2, <4>1, <5>1
      <4>2. CASE ~(Len(full) >= HeaderLen)
        BY <2>1, <2>4, <4>2 DEF RecvHeader, TypeOK
      <4> QED BY <4>1, <4>2
    <3> QED
      BY <2>4, <3>1, <3>3, <3>4
         DEF RecvHeader, TypeOK, ConnOK, flashVars, taskVars, dlVars
  <2>6. CASE RecvBody(c, n, full)
    <3>1. /\ otaCtx \o full \in Seq(Unit) /\ flashOffset + Len(full) \in Nat
          /\ <<>> \in Seq(Unit)
      BY <2>1, ConcatUnits, EmptySeq DEF TypeOK
    <3>2. ConnOK'
      BY <2>6, DeliverType DEF RecvBody
    <3> HIDE DEF full
    <3>3. /\ flash' \in [Slots -> [1..PartLen -> Unit \cup {Erased}]]
          /\ degraded' \in BOOLEAN
      BY <2>1, <2>6, WriteType DEF RecvBody
    <3>4. recvAt' \in {"idle", "switch", "reboot"}
      BY <2>6 DEF RecvBody
    <3> QED
      BY <2>6, <3>1, <3>2, <3>3, <3>4 DEF RecvBody, TypeOK, ConnOK, taskVars
  <2> HIDE DEF full
  <2>7. \/ Deliver(c, n, FALSE) /\ UNCHANGED <<flashVars, boots, taskVars,
                                               recvVars, dlVars, fault>>
        \/ \E kind \in {"buffer", "overflow", "handle", "partition"} : Lost(kind)
        \/ RecvHeader(full) /\ Deliver(c, n, TRUE)
        \/ RecvBody(c, n, full)
    BY <1>3, Zenon DEF Recv, full
  <2> QED BY <2>2, <2>3, <2>4, <2>6, <2>7
<1>4. ASSUME NEW c \in Conns, Result(c) PROVE TypeOK'
  <2>1. /\ conn' \in [Conns -> {"none", "connecting", "body", "closed"}]
        /\ otaSema' \in {"none", "empty", "full"}
        /\ otaHandle' \in {"null", "open", "closed"}
        /\ otaBuffer' \in {"null", "live", "freed"}
    BY <1>4 DEF Result, Give, TypeOK
  <2>2. fault' \subseteq {"semaphore", "handle", "buffer", "overflow", "partition"}
    BY <1>4 DEF Result, GiveFault, CloseFault, TypeOK
  <2>3. UNCHANGED <<flashVars, boots, cli, recvVars, otaTotalLength, otaCtx,
                    file, got, unacked, aborted>>
    BY <1>4 DEF Result, Give
  <2> QED BY <2>1, <2>2, <2>3 DEF TypeOK, flashVars, recvVars
<1>5. CASE CmdTake
  BY <1>5 DEF CmdTake, TypeOK, flashVars, recvVars, dlVars, connVars
<1>6. CASE CmdDelete
  BY <1>6 DEF CmdDelete, TypeOK, flashVars, recvVars, dlVars, connVars
<1>7. CASE PowerLoss
  BY <1>7, CutType, RebootType DEF PowerLoss, TypeOK
<1>8. CASE UNCHANGED vars
  BY <1>8 DEF vars, flashVars, taskVars, recvVars, dlVars, connVars, TypeOK
<1>9. CASE UpdateTable
  BY <1>9 DEF UpdateTable, Standby, Slots, TypeOK, taskVars, dlVars, connVars
<1>10. CASE Reset
  BY <1>10, RebootType DEF Reset, flashVars, TypeOK
<1> QED
  BY <1>1, <1>2, <1>3, <1>4, <1>5, <1>6, <1>7, <1>8, <1>9, <1>10 DEF Next, Callback, Task, Switch

\* Every variable keeps its type, for all constants the assumptions allow.
THEOREM TypeCorrect == Spec => []TypeOK
BY InitType, NextType, PTL DEF Spec

-----------------------------------------------------------------------------
\* No sequence of commands, chunk sizes and dropped connections overflows otaBuffer,
\* although what one attempt left in it is still there in the next: with BufAssumption
\* (chunks of one TCP segment and the 4096-byte buffer satisfy it) the rest of a
\* header plus a chunk fits, and so does the rest of a chunk plus a chunk.
THEOREM BufferIsSafe == Spec => []BufferSafe
<1>1. Init => BufferSafe
  BY HeaderAssumption, EmptySeq DEF Init, RamInit, BufferSafe
<1>2. TypeOK /\ BufferSafe /\ [Next]_vars => BufferSafe'
  <2> SUFFICES ASSUME TypeOK, BufferSafe, [Next]_vars PROVE BufferSafe'
    OBVIOUS
  <2> USE DEF BufferSafe
  <2>1. ASSUME NEW c \in Conns, OtaCmd(c) PROVE BufferSafe'
    BY <2>1 DEF OtaCmd, recvVars
  <2>2. ASSUME NEW c \in Conns, NEW f \in Files, NEW known \in BOOLEAN,
               HeadersDone(c, f, known)
        PROVE  BufferSafe'
    BY <2>2 DEF HeadersDone, HeadersFit, HeadersAbort, GiveFault, recvVars
  <2>3. ASSUME NEW c \in Conns, NEW n \in 1..MaxChunk, Recv(c, n)
        PROVE  BufferSafe'
    <3> DEFINE full == Filled(c, n)
    <3>1. /\ full \in Seq(Unit) /\ Len(full) \in Nat
          /\ Len(full) = Len(buf) + n /\ Len(buf) \in Nat
      BY <2>3, FilledBuffer, LenProperties DEF Recv, Arrives
    <3>2. Len(full) <= BufSize
      BY <3>1, HeaderAssumption, ChunkAssumption, BufAssumption DEF TypeOK
    <3>3. ASSUME NEW kind \in {"buffer", "handle", "partition"}, Lost(kind)
          PROVE  BufferSafe'
      BY <3>3 DEF Lost, recvVars
    <3>4. CASE UNCHANGED <<recvVars, fault>>
      BY <3>4 DEF recvVars
    <3>5. CASE RecvHeader(full) /\ otaHeader
      <4>1. Len(full) < HeaderLen + MaxChunk
        BY <3>1, <3>5, HeaderAssumption, ChunkAssumption
      <4>2. CASE Len(full) >= HeaderLen
        <5>1. /\ buf' = SubSeq(full, HeaderLen + 1, Len(full))
              /\ ~otaHeader' /\ UNCHANGED fault
          BY <3>5, <4>2, Zenon DEF RecvHeader
        <5>2. \A i \in HeaderLen + 1..Len(full) : full[i] \in Unit
          BY <3>1, HeaderAssumption, ElementOfSeq
        <5>3. Len(buf') < MaxChunk
          BY <3>1, <4>1, <4>2, <5>1, <5>2, HeaderAssumption, ChunkAssumption,
             SubSeqProperties
        <5> QED BY <5>1, <5>3
      <4>3. CASE ~(Len(full) >= HeaderLen)
        <5>1. buf' = full /\ UNCHANGED <<otaHeader, fault>>
          BY <3>5, <4>3, Zenon DEF RecvHeader
        <5> QED BY <3>1, <3>5, <4>3, <5>1, HeaderAssumption
      <4> QED BY <4>2, <4>3
    <3>7. CASE RecvBody(c, n, full)
      BY <3>7, ChunkAssumption, HeaderAssumption, EmptySeq DEF RecvBody
    <3> HIDE DEF full, BufferSafe
    <3>8. \/ UNCHANGED <<recvVars, fault>>
          \/ \E kind \in {"buffer", "handle", "partition"} : Lost(kind)
          \/ otaHeader /\ RecvHeader(full)
          \/ RecvBody(c, n, full)
      <4>1. ~(Len(full) > BufSize)
        BY <3>1, <3>2, BufAssumption
      <4> QED BY <2>3, <4>1, Zenon DEF Recv, full
    <3> QED BY <3>3, <3>4, <3>5, <3>7, <3>8
  <2>4. ASSUME NEW c \in Conns, Result(c) PROVE BufferSafe'
    BY <2>4 DEF Result, GiveFault, CloseFault, recvVars
  <2>5. CASE Task
    BY <2>5 DEF Task, CmdTake, CmdDelete, recvVars
  <2>6. CASE PowerLoss
    BY <2>6, HeaderAssumption, EmptySeq DEF PowerLoss, Reboot
  <2>7. CASE UNCHANGED vars
    BY <2>7 DEF vars, recvVars
  <2>8. CASE Switch
    BY <2>8, HeaderAssumption, EmptySeq DEF Switch, UpdateTable, Reset, Reboot
  <2> QED
    BY <2>1, <2>2, <2>3, <2>4, <2>5, <2>6, <2>7, <2>8 DEF Next, Callback
<1> QED BY <1>1, <1>2, TypeCorrect, PTL DEF Spec
-----------------------------------------------------------------------------
\* A connection that has no reply yet has delivered nothing.
Fresh == \A c \in Conns : conn[c] \in {"none", "connecting"} =>
            file[c] = <<>> /\ got[c] = 0 /\ unacked[c] = 0 /\ ~aborted[c]
\* No connection delivers more than its file.
Within == \A c \in Conns : got[c] <= Len(file[c])
\* Once a header was read its digest is known; the body is written from an empty buffer
\* on, and only after some connection got a reply.
HeaderRead ==
  /\ otaHeader => flashOffset = 0
  /\ ~otaHeader => \E u \in Unit : otaSha256Img = Claim[u]
  /\ flashOffset > 0 => buf = <<>> /\ \E d \in Conns : conn[d] \in {"body", "closed"}

Base == TypeOK /\ Fresh /\ Within /\ HeaderRead /\ IsFiniteSet(Used)

\* What cb_altcp_recv_fn may do with n units.
LEMMA RecvSplit ==
  ASSUME TypeOK, NEW c \in Conns, NEW n \in 1..MaxChunk, Recv(c, n)
  PROVE  LET full == Filled(c, n) IN
         /\ Running /\ recvAt = "idle" /\ conn[c] = "body" /\ got[c] + n <= Len(file[c])
         /\ \/ /\ otaBuffer = "null" /\ Deliver(c, n, FALSE)
               /\ UNCHANGED <<flashVars, boots, taskVars, recvVars, dlVars, fault>>
            \/ /\ \E kind \in {"buffer", "overflow", "handle", "partition"} : Lost(kind)
               /\ \/ otaBuffer = "freed"
                  \/ otaBuffer = "live" /\ Len(full) > BufSize
                  \/ otaBuffer = "live" /\ ~otaHeader /\ otaHandle = "closed"
                  \/ otaBuffer = "live" /\ ~otaHeader /\ flashOffset + Len(full) > PartLen
            \/ otaBuffer = "live" /\ otaHeader /\ RecvHeader(full) /\ Deliver(c, n, TRUE)
            \/ /\ otaBuffer = "live" /\ ~otaHeader /\ flashOffset + Len(full) <= PartLen
               /\ RecvBody(c, n, full)
<1> DEFINE full == Filled(c, n)
<1>1. Len(full) \in Nat /\ full \in Seq(Unit)
  BY FilledBuffer, LenProperties DEF Recv, Arrives
<1>2. ~(flashOffset + Len(full) > PartLen) => flashOffset + Len(full) <= PartLen
  BY <1>1, PartAssumption DEF TypeOK
<1>4. ~(Len(full) > BufSize) => Len(full) <= BufSize
  BY <1>1, BufAssumption
<1>3. otaBuffer \in {"null", "live", "freed"}
  BY DEF TypeOK
<1> QED BY <1>1, <1>2, <1>3, <1>4, Zenon DEF Recv, Arrives, Ready

\* A header is completed, or kept until the rest of it comes.
LEMMA HeaderSplit ==
  ASSUME NEW full \in Seq(Unit), RecvHeader(full)
  PROVE  \/ /\ Len(full) >= HeaderLen /\ ~otaHeader' /\ flashOffset' = 0
            /\ otaSha256Img' = Claim[full[1]] /\ full[1] \in Unit
            /\ buf' = SubSeq(full, HeaderLen + 1, Len(full))
         \/ /\ Len(full) < HeaderLen /\ buf' = full
            /\ UNCHANGED <<otaHeader, flashOffset, otaSha256Img>>
<1>1. Len(full) \in Nat
  BY LenProperties
<1>2. Len(full) >= HeaderLen => full[1] \in Unit
  BY <1>1, ElementOfSeq, HeaderAssumption
<1>3. CASE Len(full) >= HeaderLen
  BY <1>2, <1>3, Zenon DEF RecvHeader
<1>4. CASE ~(Len(full) >= HeaderLen)
  <2>1. Len(full) < HeaderLen
    BY <1>1, <1>4, HeaderAssumption
  <2> QED BY <2>1, <1>4, Zenon DEF RecvHeader
<1> QED BY <1>3, <1>4

\* The connections after a delivery.
LEMMA Delivered ==
  ASSUME TypeOK, NEW c \in Conns, NEW n \in 1..MaxChunk, NEW a \in BOOLEAN, Deliver(c, n, a)
  PROVE  /\ got' = [got EXCEPT ![c] = got[c] + n] /\ got'[c] = got[c] + n
         /\ \A d \in Conns : d # c => got'[d] = got[d] /\ unacked'[d] = unacked[d]
         /\ UNCHANGED <<conn, file, aborted>> /\ n \in Nat \ {0}
BY ChunkAssumption DEF Deliver, TypeOK

\* A reboot leaves nothing in memory.
LEMMA Rebooted ==
  ASSUME Reboot
  PROVE  Fresh' /\ Within' /\ HeaderRead' /\ Used' = {}
<1>1. Fresh' /\ Within'
  BY EmptySeq DEF Reboot, Fresh, Within
<1>2. HeaderRead'
  BY DEF Reboot, HeaderRead
<1>3. Used' = {}
  BY DEF Reboot, Used
<1> QED BY <1>1, <1>2, <1>3

\* The connections in use after a step that changes no connection, or only c.
LEMMA UsedNext ==
  ASSUME IsFiniteSet(Used), NEW c \in Conns, conn \in [Conns -> {"none", "connecting", "body", "closed"}],
         NEW st \in {"connecting", "body", "closed"},
         conn' = [conn EXCEPT ![c] = st]
  PROVE  Used' = Used \cup {c} /\ IsFiniteSet(Used')
<1>1. Used' = Used \cup {c}
  BY DEF Used
<1> QED BY <1>1, FS_AddElement

\* These facts hold when the system starts ...
LEMMA BaseInit == Init => Base
<1> SUFFICES ASSUME Init PROVE Base
  OBVIOUS
<1>1. TypeOK
  BY InitType
<1>2. Fresh /\ Within
  BY EmptySeq DEF Init, RamInit, Fresh, Within
<1>3. HeaderRead
  BY DEF Init, RamInit, HeaderRead
<1>4. Used = {}
  BY DEF Init, RamInit, Used
<1> QED BY <1>1, <1>2, <1>3, <1>4, FS_EmptySet DEF Base

\* ... and every step keeps them.
LEMMA BaseNext == Base /\ [Next]_vars => Base'
<1> SUFFICES ASSUME Base, [Next]_vars PROVE Base'
  OBVIOUS
<1>0. TypeOK'
  BY NextType DEF Base
<1> SUFFICES Fresh' /\ Within' /\ HeaderRead' /\ IsFiniteSet(Used')
  BY <1>0 DEF Base
<1>a. /\ TypeOK /\ Fresh /\ Within /\ HeaderRead /\ IsFiniteSet(Used)
      /\ conn \in [Conns -> {"none", "connecting", "body", "closed"}]
  BY DEF Base, TypeOK
<1>b. UNCHANGED connVars => Fresh' /\ Within' /\ IsFiniteSet(Used')
  BY <1>a DEF connVars, Fresh, Within, Used
<1>c. UNCHANGED <<recvVars, conn>> => HeaderRead'
  BY <1>a DEF recvVars, HeaderRead
<1>1. ASSUME NEW c \in Conns, OtaCmd(c) PROVE Fresh' /\ Within' /\ HeaderRead' /\ IsFiniteSet(Used')
  <2>1. PICK st \in {"connecting", "closed"} : conn' = [conn EXCEPT ![c] = st]
    BY <1>1 DEF OtaCmd
  <2>2. conn[c] = "none" /\ UNCHANGED <<file, got, unacked, aborted, recvVars>>
    BY <1>1 DEF OtaCmd
  <2>3. Fresh' /\ Within'
    BY <1>a, <2>1, <2>2 DEF Fresh, Within
  <2>4. HeaderRead'
    BY <1>a, <2>1, <2>2 DEF HeaderRead, recvVars
  <2> QED BY <1>a, <2>1, <2>3, <2>4, UsedNext
<1>2. ASSUME NEW c \in Conns, NEW f \in Files, NEW known \in BOOLEAN, HeadersDone(c, f, known)
      PROVE  Fresh' /\ Within' /\ HeaderRead' /\ IsFiniteSet(Used')
  <2>1. /\ conn[c] = "connecting" /\ UNCHANGED recvVars
        /\ conn' = [conn EXCEPT ![c] = "body"] /\ file' = [file EXCEPT ![c] = f]
        /\ UNCHANGED <<got, unacked>> /\ \E t \in BOOLEAN : aborted' = [aborted EXCEPT ![c] = t]
    BY <1>2 DEF HeadersDone, Replied
  <2>2. Len(f) \in Nat
    BY FilesAssumption, LenProperties
  <2>3. Fresh' /\ Within'
    BY <1>a, <2>1, <2>2 DEF Fresh, Within, TypeOK
  <2>4. HeaderRead'
    BY <1>a, <2>1 DEF HeaderRead, recvVars
  <2> QED BY <1>a, <2>1, <2>3, <2>4, UsedNext
<1>3. ASSUME NEW c \in Conns, NEW n \in 1..MaxChunk, Recv(c, n)
      PROVE  Fresh' /\ Within' /\ HeaderRead' /\ IsFiniteSet(Used')
  <2> DEFINE full == Filled(c, n)
  <2>0. full \in Seq(Unit) /\ conn[c] = "body" /\ got[c] + n <= Len(file[c]) /\ Len(full) \in Nat
        /\ Len(full) = Len(buf) + n /\ Len(buf) \in Nat
    BY <1>a, <1>3, FilledBuffer, LenProperties DEF Recv, Arrives
  <2>1. ASSUME NEW a \in BOOLEAN, Deliver(c, n, a) PROVE Fresh' /\ Within' /\ IsFiniteSet(Used') /\ UNCHANGED conn
    <3> HIDE DEF full
    <3>1. /\ got'[c] = got[c] + n /\ UNCHANGED <<conn, file, aborted>>
          /\ \A d \in Conns : d # c => got'[d] = got[d] /\ unacked'[d] = unacked[d]
      BY <1>a, <2>1, Delivered
    <3>2. Fresh'
      BY <1>a, <2>0, <3>1 DEF Fresh
    <3>3. Within'
      BY <1>a, <2>0, <3>1 DEF Within
    <3> QED BY <1>a, <3>1, <3>2, <3>3 DEF Used
  <2>2. CASE Deliver(c, n, FALSE) /\ UNCHANGED recvVars
    BY <1>c, <2>1, <2>2
  <2>3. ASSUME NEW kind \in {"buffer", "overflow", "handle", "partition"}, Lost(kind)
        PROVE  Fresh' /\ Within' /\ HeaderRead' /\ IsFiniteSet(Used')
    BY <1>b, <1>c, <2>3 DEF Lost, connVars
  <2>4. CASE otaHeader /\ RecvHeader(full) /\ Deliver(c, n, TRUE)
    <3> HIDE DEF full
    <3>1. flashOffset' = 0 /\ (~otaHeader' => \E u \in Unit : otaSha256Img' = Claim[u])
      BY <1>a, <2>0, <2>4, HeaderSplit, Zenon DEF HeaderRead
    <3>2. HeaderRead'
      BY <3>1 DEF HeaderRead
    <3> QED BY <2>1, <2>4, <3>2
  <2>6. CASE ~otaHeader /\ RecvBody(c, n, full)
    <3>1. Deliver(c, n, TRUE) /\ UNCHANGED <<otaHeader, otaSha256Img>> /\ buf' = <<>>
      BY <2>6 DEF RecvBody
    <3>2. HeaderRead'
      BY <1>a, <2>0, <2>1, <2>6, <3>1 DEF HeaderRead
    <3> QED BY <2>1, <3>1, <3>2
  <2> HIDE DEF full
  <2> QED BY <1>a, <1>3, <2>2, <2>3, <2>4, <2>6, RecvSplit DEF full
<1>4. ASSUME NEW c \in Conns, Result(c) PROVE Fresh' /\ Within' /\ HeaderRead' /\ IsFiniteSet(Used')
  <2>1. /\ conn' = [conn EXCEPT ![c] = "closed"] /\ UNCHANGED <<file, got, unacked, aborted, recvVars>>
    BY <1>4 DEF Result
  <2>2. Fresh' /\ Within' /\ HeaderRead'
    BY <1>a, <2>1 DEF Fresh, Within, HeaderRead, recvVars
  <2> QED BY <1>a, <2>1, <2>2, UsedNext
<1>5. CASE Task
  BY <1>b, <1>c, <1>5 DEF Task, CmdTake, CmdDelete, connVars
<1>6. CASE PowerLoss
  BY <1>6, Rebooted, FS_EmptySet DEF PowerLoss
<1>7. CASE UNCHANGED vars
  BY <1>b, <1>c, <1>7 DEF vars, connVars
<1>8. CASE UpdateTable
  <2>1. UNCHANGED <<buf, otaHeader, flashOffset, otaSha256Img, connVars>>
    BY <1>8 DEF UpdateTable
  <2>2. HeaderRead'
    BY <1>a, <2>1 DEF HeaderRead, connVars
  <2> QED BY <1>b, <2>1, <2>2
<1>9. CASE Reset
  BY <1>9, Rebooted, FS_EmptySet DEF Reset
<1> QED BY <1>1, <1>2, <1>3, <1>4, <1>5, <1>6, <1>7, <1>8, <1>9 DEF Next, Callback, Switch

-----------------------------------------------------------------------------
\* Two adjacent pieces of a file.
LEMMA PiecesMeet ==
  ASSUME NEW f \in Files \cup {<<>>}, NEW a \in Nat \ {0}, NEW g \in Nat, NEW n \in Nat,
         a <= g + 1, g + n <= Len(f)
  PROVE  /\ SubSeq(f, a, g) \o SubSeq(f, g + 1, g + n) = SubSeq(f, a, g + n)
         /\ SubSeq(f, a, g) \in Seq(Unit) /\ Len(SubSeq(f, a, g)) = g - a + 1
<1>1. f \in Seq(Unit) /\ Len(f) \in Nat
  BY FilesAssumption, EmptySeq, LenProperties
<1>2. a \in 1..Len(f) + 1 /\ g \in a - 1..Len(f) /\ g + n \in g..Len(f)
  BY <1>1
<1>3. \A i \in a..g : f[i] \in Unit
  BY <1>1, ElementOfSeq
<1>4. SubSeq(f, a, g) \in Seq(Unit) /\ Len(SubSeq(f, a, g)) = g - a + 1
  BY <1>1, <1>2, <1>3, SubSeqProperties
<1>5. SubSeq(f, a, g) \o SubSeq(f, g + 1, g + n) = SubSeq(f, a, g + n)
  BY <1>1, <1>2, ConcatAdjacentSubSeq
<1> QED BY <1>4, <1>5

\* What follows the header in the beginning of a file.
LEMMA BehindHeader ==
  ASSUME NEW f \in Files \cup {<<>>}, NEW m \in Nat, HeaderLen <= m, m <= Len(f)
  PROVE  /\ SubSeq(SubSeq(f, 1, m), HeaderLen + 1, m) = SubSeq(f, HeaderLen + 1, m)
         /\ SubSeq(f, 1, m)[1] = f[1] /\ Len(SubSeq(f, 1, m)) = m
<1>1. f \in Seq(Unit) /\ Len(f) \in Nat /\ HeaderLen \in Nat \ {0}
  BY FilesAssumption, EmptySeq, LenProperties, HeaderAssumption
<1>2. \A i \in 1..m : f[i] \in Unit
  BY <1>1, ElementOfSeq
<1>3. Len(SubSeq(f, 1, m)) = m /\ SubSeq(f, 1, m)[1] = f[1]
  BY <1>1, <1>2, SubSeqProperties
<1>4. CASE HeaderLen + 1 <= m
  <2>1. 1 \in 1..Len(f) /\ m \in 1..Len(f) /\ HeaderLen + 1 \in 1..m - 1 + 1 /\ m \in 1..m - 1 + 1
    BY <1>1, <1>4
  <2>2. SubSeq(SubSeq(f, 1, m), HeaderLen + 1, m) = SubSeq(f, 1 + (HeaderLen + 1) - 1, 1 + m - 1)
    BY <1>1, <2>1, SubSeqOfSubSeq
  <2>3. 1 + (HeaderLen + 1) - 1 = HeaderLen + 1 /\ 1 + m - 1 = m
    BY <1>1
  <2> QED BY <1>3, <2>2, <2>3
<1>5. CASE m < HeaderLen + 1
  BY <1>1, <1>3, <1>5, SubSeqEmpty
<1> QED BY <1>1, <1>4, <1>5

\* Before the first command of a boot nothing is allocated, read or wrong.
Clean == Used = {} => /\ Running /\ otaBuffer = "null" /\ otaHandle = "null"
                      /\ buf = <<>> /\ otaHeader /\ otaCtx = <<>>

\* The only command of a boot: its semaphore, handle and buffer ...
SoleControl(c) ==
  /\ aborted[c] => otaBuffer = "null"
  /\ ~aborted[c] => Running
  /\ conn[c] \in Open /\ ~aborted[c] => cli = "waiting" /\ otaSema = "empty"
  /\ conn[c] = "connecting" => /\ otaBuffer = "null" /\ otaHandle = "null"
                               /\ buf = <<>> /\ otaHeader
  /\ conn[c] = "body" /\ ~aborted[c] => otaBuffer # "freed" /\ otaHandle # "closed"
  /\ otaBuffer # "null" => conn[c] \in {"body", "closed"}

\* ... and where the units of its file are: hashed and written, or in the buffer.
Big(f) == Good(f) /\ Len(f) >= HeaderLen + MaxChunk
SoleData(c) ==
  otaBuffer # "null" =>
    /\ Len(file[c]) < PartLen /\ otaTotalLength = Len(file[c])
    /\ otaHeader => buf = SubSeq(file[c], 1, got[c]) /\ otaCtx = <<>>
    /\ ~otaHeader => /\ otaCtx \o buf = SubSeq(file[c], HeaderLen + 1, got[c])
                     /\ Len(otaCtx) = flashOffset /\ HeaderLen <= got[c]
                     /\ otaSha256Img = Claim[file[c][1]]
    /\ Big(file[c]) => got[c] < Len(file[c]) \/ recvAt # "idle"

Sole(c) == SoleControl(c) /\ SoleData(c)
SoleInv == Clean /\ \A c \in Conns : Used = {c} => Sole(c)

\* No command was given yet.
LEMMA SoleInit == Init => SoleInv
<1> SUFFICES ASSUME Init PROVE SoleInv
  OBVIOUS
<1>1. Used = {}
  BY DEF Init, RamInit, Used
<1>2. Clean
  BY DEF Init, RamInit, Clean, Running
<1> QED BY <1>1, <1>2 DEF SoleInv

\* A reboot leaves no command.
LEMMA SoleReboot == ASSUME Reboot PROVE SoleInv'
<1>1. Used' = {} /\ Clean'
  BY DEF Reboot, Used, Clean, Running
<1> QED BY <1>1 DEF SoleInv

\* A step that leaves everything alone but tasks and flash.
LEMMA SoleKept ==
  ASSUME SoleInv, UNCHANGED <<connVars, buf, otaHeader, flashOffset, otaSha256Img, dlVars, fault>>,
         recvAt' = recvAt \/ recvAt' # "idle",
         UNCHANGED taskVars \/ (\A c \in Conns : conn[c] \in Open => cli # "waiting" \/ otaSema # "empty")
  PROVE  SoleInv'
<1> USE DEF connVars, dlVars, taskVars
<1>1. Used' = Used
  BY DEF Used
<1>2. Clean'
  BY <1>1 DEF SoleInv, Clean, Running
<1>3. ASSUME NEW c \in Conns, Used = {c} PROVE SoleControl(c)' /\ SoleData(c)'
  <2>1. SoleControl(c) /\ SoleData(c)
    BY <1>3 DEF SoleInv, Sole
  <2>2. SoleControl(c)'
    BY <2>1 DEF SoleControl, Running
  <2>3. SoleData(c)'
    BY <2>1 DEF SoleData
  <2> QED BY <2>2, <2>3
<1> QED BY <1>1, <1>2, <1>3 DEF SoleInv, Sole

\* The first command of a boot starts from a clean memory.
LEMMA SoleCmd ==
  ASSUME Base, SoleInv, NEW c \in Conns, OtaCmd(c) PROVE SoleInv'
<1>1. PICK st \in {"connecting", "closed"} : conn' = [conn EXCEPT ![c] = st]
  BY DEF OtaCmd
<1>2. /\ Running /\ cli' = "waiting" /\ otaSema' = "empty" /\ conn[c] = "none"
      /\ UNCHANGED <<file, got, unacked, aborted, recvVars, dlVars, fault>>
  BY DEF OtaCmd
<1>3. Used' = Used \cup {c} /\ c \notin Used
  BY <1>1, <1>2, UsedNext DEF Base, TypeOK, Used
<1>4. Clean'
  BY <1>3 DEF Clean
<1>5. ASSUME NEW d \in Conns, Used' = {d} PROVE Sole(d)'
  <2>1. d = c /\ Used = {}
    BY <1>3, <1>5
  <2>2. /\ otaBuffer = "null" /\ otaHandle = "null" /\ buf = <<>> /\ otaHeader
    BY <2>1 DEF SoleInv, Clean
  <2>3. ~aborted[c] /\ conn'[c] = st
    BY <1>1, <1>2 DEF Base, Fresh, TypeOK
  <2>4. SoleControl(c)'
    BY <1>2, <2>2, <2>3 DEF SoleControl, recvVars, dlVars, Running, Open
  <2>5. SoleData(c)'
    BY <1>2, <2>2 DEF SoleData, dlVars
  <2> QED BY <2>1, <2>4, <2>5 DEF Sole
<1> QED BY <1>4, <1>5 DEF SoleInv

\* The connections in use do not change while callbacks run.
LEMMA SameUsed ==
  ASSUME Base, NEW c \in Conns, conn[c] # "none",
         UNCHANGED conn \/ \E st \in {"connecting", "body", "closed"} : conn' = [conn EXCEPT ![c] = st]
  PROVE  Used' = Used /\ c \in Used
BY DEF Base, TypeOK, Used

\* The reply.
LEMMA SoleReply ==
  ASSUME Base, SoleInv, NEW c \in Conns, NEW f \in Files, NEW known \in BOOLEAN,
         HeadersDone(c, f, known)
  PROVE  SoleInv'
<1>1. /\ conn[c] = "connecting" /\ UNCHANGED recvVars /\ Running
      /\ conn' = [conn EXCEPT ![c] = "body"] /\ file' = [file EXCEPT ![c] = f]
      /\ UNCHANGED <<got, unacked>>
  BY DEF HeadersDone, Replied, Ready
<1>2. Used' = Used /\ c \in Used
  BY <1>1, SameUsed
<1>3. Clean'
  BY <1>2 DEF Clean
<1>4. ASSUME NEW d \in Conns, Used' = {d} PROVE Sole(d)'
  <2>1. d = c /\ SoleControl(c) /\ SoleData(c)
    BY <1>2, <1>4 DEF SoleInv, Sole
  <2>2. /\ otaBuffer = "null" /\ otaHandle = "null" /\ buf = <<>> /\ otaHeader
        /\ ~aborted[c] /\ got[c] = 0 /\ cli = "waiting" /\ otaSema = "empty"
    BY <1>1, <2>1 DEF SoleControl, Base, Fresh, Open
  <2>3. conn'[c] = "body" /\ file'[c] = f /\ got'[c] = 0
    BY <1>1, <2>2 DEF Base, TypeOK
  <2>4. CASE /\ aborted' = [aborted EXCEPT ![c] = FALSE] /\ otaHandle' \in {otaHandle, "open"}
             /\ UNCHANGED <<taskVars, otaBuffer, otaTotalLength, otaCtx, fault>>
    <3>1. ~aborted'[c]
      BY <2>4 DEF Base, TypeOK
    <3>2. SoleControl(c)'
      BY <1>1, <2>2, <2>3, <2>4, <3>1 DEF SoleControl, Running, recvVars, taskVars
    <3>3. SoleData(c)'
      BY <2>2, <2>4 DEF SoleData
    <3> QED BY <2>1, <3>2, <3>3 DEF Sole
  <2>5. CASE /\ aborted' = [aborted EXCEPT ![c] = FALSE] /\ known /\ Len(f) < PartLen
             /\ HeadersFit(Len(f))
    <3>1. ~aborted'[c]
      BY <2>5 DEF Base, TypeOK
    <3>2. SoleControl(c)'
      BY <1>1, <2>2, <2>3, <2>5, <3>1 DEF SoleControl, Running, recvVars, taskVars, HeadersFit
    <3>3. SubSeq(f, 1, 0) = <<>>
      BY SubSeqEmpty
    <3>4. Big(f) => 0 < Len(f)
      BY FilesAssumption, LenProperties, HeaderAssumption, ChunkAssumption DEF Big
    <3>5. SoleData(c)'
      BY <1>1, <2>2, <2>3, <2>5, <3>3, <3>4 DEF SoleData, recvVars, HeadersFit
    <3> QED BY <2>1, <3>2, <3>5 DEF Sole
  <2>6. CASE /\ aborted' = [aborted EXCEPT ![c] = TRUE]
             /\ \E total \in Nat : HeadersAbort(total)
    <3>1. aborted'[c] /\ otaBuffer' = "null"
      BY <2>2, <2>6 DEF Base, TypeOK, HeadersAbort
    <3>2. SoleControl(c)' /\ SoleData(c)'
      BY <2>3, <3>1 DEF SoleControl, SoleData
    <3> QED BY <2>1, <3>2 DEF Sole
  <2>7. (IF known THEN Len(f) ELSE NoLength) \in Nat
    BY FilesAssumption, LenProperties DEF NoLength
  <2> QED BY <2>4, <2>5, <2>6, <2>7 DEF HeadersDone, Replied
<1> QED BY <1>3, <1>4 DEF SoleInv

-----------------------------------------------------------------------------
\* The only command takes the rest of its header.
LEMMA SoleHeader ==
  ASSUME Base, BufferSafe, NEW c \in Conns, Sole(c), NEW n \in 1..MaxChunk,
         otaBuffer = "live", otaHeader, conn[c] = "body", got[c] + n <= Len(file[c]),
         RecvHeader(Filled(c, n)), Deliver(c, n, TRUE)
  PROVE  SoleData(c)'
<1> DEFINE full == Filled(c, n)
           f == file[c]
           g == got[c]
<1>0. /\ f \in Files \cup {<<>>} /\ f \in Seq(Unit) /\ g \in Nat /\ n \in Nat \ {0} /\ g + n <= Len(f)
      /\ HeaderLen \in Nat \ {0} /\ MaxChunk \in Nat /\ Len(f) \in Nat /\ n <= MaxChunk
  BY FilesAssumption, EmptySeq, LenProperties, HeaderAssumption, ChunkAssumption DEF Base, TypeOK
<1>1. /\ Len(f) < PartLen /\ otaTotalLength = Len(f)
      /\ buf = SubSeq(f, 1, g) /\ otaCtx = <<>>
  BY DEF Sole, SoleData
<1>2. full = SubSeq(f, 1, g + n)
  <2>1. full = SubSeq(f, 1, g) \o SubSeq(f, g + 1, g + n)
    BY <1>1 DEF Filled
  <2> HIDE DEF full, f, g
  <2>2. 1 \in Nat \ {0} /\ 1 <= g + 1
    BY <1>0
  <2>3. SubSeq(f, 1, g) \o SubSeq(f, g + 1, g + n) = SubSeq(f, 1, g + n)
    BY <1>0, <2>2, PiecesMeet
  <2> QED BY <2>1, <2>3
<1>3. /\ got' = [got EXCEPT ![c] = g + n] /\ got'[c] = g + n
      /\ UNCHANGED <<conn, file, aborted, otaBuffer, otaTotalLength, otaCtx>>
  BY Delivered DEF Base, RecvHeader, dlVars
<1>4. Len(buf) = g /\ g < HeaderLen
  BY <1>0, <1>1, PiecesMeet DEF BufferSafe
<1>5. Len(full) = g + n /\ full \in Seq(Unit)
  BY <1>0, <1>4, FilledBuffer DEF Base
<1> HIDE DEF full, f, g
<1>6. Big(f) => g + n < Len(f)
  BY <1>0, <1>4 DEF Big
<1>7. CASE /\ Len(full) >= HeaderLen /\ ~otaHeader' /\ flashOffset' = 0
           /\ otaSha256Img' = Claim[full[1]]
           /\ buf' = SubSeq(full, HeaderLen + 1, Len(full))
  <2>1. buf' = SubSeq(f, HeaderLen + 1, g + n) /\ full[1] = f[1]
    <3>1. g + n \in Nat /\ HeaderLen <= g + n
      BY <1>0, <1>5, <1>7
    <3>2. /\ SubSeq(SubSeq(f, 1, g + n), HeaderLen + 1, g + n) = SubSeq(f, HeaderLen + 1, g + n)
          /\ SubSeq(f, 1, g + n)[1] = f[1] /\ Len(SubSeq(f, 1, g + n)) = g + n
      BY <1>0, <3>1, BehindHeader
    <3> QED BY <1>2, <1>7, <3>2
  <2>2. buf' \in Seq(Unit)
    <3>1. HeaderLen + 1 \in Nat \ {0} /\ g + n \in Nat /\ 0 \in Nat
          /\ HeaderLen + 1 <= (g + n) + 1 /\ (g + n) + 0 <= Len(f)
      BY <1>0, <1>5, <1>7
    <3>2. SubSeq(f, HeaderLen + 1, g + n) \in Seq(Unit)
      BY <1>0, <3>1, PiecesMeet
    <3> QED BY <2>1, <3>2
  <2>3. otaCtx' \o buf' = buf' /\ Len(otaCtx') = 0
    BY <1>1, <1>3, <2>2, ConcatEmptySeq
  <2> QED BY <1>0, <1>1, <1>3, <1>5, <1>6, <1>7, <2>1, <2>3 DEF SoleData, f
<1>8. CASE /\ buf' = full /\ UNCHANGED <<otaHeader, flashOffset, otaSha256Img>>
  BY <1>0, <1>1, <1>2, <1>3, <1>6, <1>8 DEF SoleData, f
<1>9. RecvHeader(full)
  BY DEF full
<1> QED BY <1>5, <1>7, <1>8, <1>9, HeaderSplit

\* What the hash covers after more units of the body.
LEMMA SoleHashed ==
  ASSUME Base, NEW c \in Conns, Sole(c), NEW n \in 1..MaxChunk,
         otaBuffer = "live", ~otaHeader, got[c] + n <= Len(file[c])
  PROVE  LET full == Filled(c, n) IN
         /\ otaCtx \o full = SubSeq(file[c], HeaderLen + 1, got[c] + n)
         /\ Len(otaCtx \o full) = flashOffset + Len(full)
         /\ flashOffset + Len(full) = got[c] + n - HeaderLen
         /\ full \in Seq(Unit) /\ Len(full) \in Nat
<1> DEFINE full == Filled(c, n)
           f == file[c]
           g == got[c]
           piece == SubSeq(f, g + 1, g + n)
<1>0. /\ f \in Files \cup {<<>>} /\ g \in Nat /\ n \in Nat \ {0} /\ g + n <= Len(f)
      /\ HeaderLen \in Nat \ {0} /\ buf \in Seq(Unit) /\ otaCtx \in Seq(Unit)
  BY HeaderAssumption, ChunkAssumption DEF Base, TypeOK
<1>1. /\ otaCtx \o buf = SubSeq(f, HeaderLen + 1, g)
      /\ Len(otaCtx) = flashOffset /\ HeaderLen <= g
  BY DEF Sole, SoleData
<1>2. piece \in Seq(Unit)
  BY <1>0, PieceOfFile
<1>3. full = buf \o piece
  BY DEF Filled
<1>4. full \in Seq(Unit) /\ Len(full) \in Nat
  <2>1. full \in Seq(Unit)
    BY <1>0, FilledBuffer DEF Base
  <2> HIDE DEF full
  <2> QED BY <2>1, LenProperties
<1> HIDE DEF full, piece, f, g
<1>5. otaCtx \o full = (otaCtx \o buf) \o piece
  <2>1. otaCtx \in Seq(Unit) /\ buf \in Seq(Unit) /\ piece \in Seq(Unit)
    BY <1>0, <1>2
  <2>2. (otaCtx \o buf) \o piece = otaCtx \o (buf \o piece)
    BY ONLY <2>1, ConcatAssociative, SMTT(30)
  <2> QED BY <1>3, <2>2
<1>6. (otaCtx \o buf) \o piece = SubSeq(f, HeaderLen + 1, g + n)
  <2>1. HeaderLen + 1 \in Nat \ {0} /\ HeaderLen + 1 <= g + 1
    BY <1>0, <1>1
  <2>2. n \in Nat
    BY <1>0
  <2>3. SubSeq(f, HeaderLen + 1, g) \o SubSeq(f, g + 1, g + n) = SubSeq(f, HeaderLen + 1, g + n)
    BY <1>0, <2>1, <2>2, PiecesMeet, ZenonT(30)
  <2> QED BY <1>1, <2>3, Zenon DEF piece
<1>7. Len(otaCtx \o full) = flashOffset + Len(full)
  BY <1>0, <1>1, <1>4, ConcatUnits
<1>8. Len(SubSeq(f, HeaderLen + 1, g + n)) = g + n - HeaderLen
  <2>1. /\ HeaderLen + 1 \in Nat \ {0} /\ HeaderLen + 1 <= (g + n) + 1
        /\ g + n \in Nat /\ 0 \in Nat /\ (g + n) + 0 <= Len(f)
        /\ (g + n) - (HeaderLen + 1) + 1 = g + n - HeaderLen
    BY <1>0, <1>1
  <2>2. Len(SubSeq(f, HeaderLen + 1, g + n)) = (g + n) - (HeaderLen + 1) + 1
    BY <1>0, <2>1, PiecesMeet
  <2> QED BY <2>1, <2>2
<1>9. flashOffset + Len(full) = g + n - HeaderLen
  BY <1>5, <1>6, <1>7, <1>8
<1> QED BY <1>4, <1>5, <1>6, <1>7, <1>9 DEF full, f, g

\* The only command writes more of the body; when it is complete the callback goes on.
LEMMA SoleBody ==
  ASSUME Base, NEW c \in Conns, Sole(c), NEW n \in 1..MaxChunk,
         otaBuffer = "live", ~otaHeader, conn[c] = "body", got[c] + n <= Len(file[c]),
         RecvBody(c, n, Filled(c, n))
  PROVE  SoleData(c)'
<1> DEFINE full == Filled(c, n)
           f == file[c]
           g == got[c]
<1>0. /\ g \in Nat /\ n \in Nat \ {0} /\ f \in Files \cup {<<>>} /\ Len(f) \in Nat
      /\ HeaderLen \in Nat \ {0} /\ g + n <= Len(f) /\ otaCtx \in Seq(Unit)
  BY FilesAssumption, EmptySeq, LenProperties, HeaderAssumption, ChunkAssumption DEF Base, TypeOK
<1>1. /\ otaCtx \o full = SubSeq(f, HeaderLen + 1, g + n)
      /\ Len(otaCtx \o full) = flashOffset + Len(full)
      /\ flashOffset + Len(full) = g + n - HeaderLen
      /\ full \in Seq(Unit) /\ Len(full) \in Nat
  BY SoleHashed
<1>2. /\ Len(f) < PartLen /\ otaTotalLength = Len(f) /\ HeaderLen <= g
      /\ otaSha256Img = Claim[f[1]]
  BY DEF Sole, SoleData
<1>3. /\ got'[c] = g + n /\ UNCHANGED <<conn, file, aborted>>
  BY Delivered DEF Base, RecvBody
<1>4. /\ Complete(full) => recvAt' # "idle"
      /\ otaCtx' = otaCtx \o full /\ flashOffset' = flashOffset + Len(full)
      /\ buf' = <<>> /\ UNCHANGED <<otaHeader, otaSha256Img, otaBuffer, otaTotalLength>>
  BY DEF RecvBody
<1> HIDE DEF full, g
<1>5. otaCtx' \o buf' = otaCtx'
  BY <1>0, <1>1, <1>4, ConcatUnits, ConcatEmptySeq
<1>6. Big(f) => g + n < Len(f) \/ recvAt' # "idle"
  <2> SUFFICES ASSUME Big(f), g + n = Len(f) PROVE recvAt' # "idle"
    BY <1>0
  <2>1. otaCtx \o full = otaSha256Img
    BY <1>1, <1>2 DEF Big, Good, Body
  <2>2. flashOffset + Len(full) + HeaderLen = otaTotalLength
    BY <1>0, <1>1, <1>2
  <2> QED BY <1>4, <2>1, <2>2 DEF Complete
<1> QED BY <1>0, <1>1, <1>2, <1>3, <1>4, <1>5, <1>6 DEF SoleData, f

\* The receive callback.
LEMMA SoleRecv ==
  ASSUME Base, SoleInv, BufferSafe, NEW c \in Conns, NEW n \in 1..MaxChunk, Recv(c, n)
  PROVE  SoleInv'
<1> DEFINE full == Filled(c, n)
<1>a. /\ Running /\ conn[c] = "body" /\ got[c] + n <= Len(file[c])
  BY DEF Recv, Arrives, Ready
<1>0. UNCHANGED <<conn, aborted, taskVars, otaBuffer, otaHandle>>
  <2>1. ASSUME NEW kind \in {"buffer", "overflow", "handle", "partition"}, Lost(kind)
        PROVE UNCHANGED <<conn, aborted, taskVars, otaBuffer, otaHandle>>
    BY <2>1 DEF Lost, connVars, dlVars
  <2>2. CASE otaBuffer = "null" /\ Deliver(c, n, FALSE)
             /\ UNCHANGED <<flashVars, boots, taskVars, recvVars, dlVars, fault>>
    BY <2>2 DEF Deliver, dlVars
  <2>3. CASE RecvHeader(full) /\ Deliver(c, n, TRUE)
    BY <2>3 DEF RecvHeader, Deliver, dlVars
  <2>4. CASE RecvBody(c, n, full)
    BY <2>4 DEF RecvBody, Deliver
  <2> HIDE DEF full
  <2> QED BY <2>1, <2>2, <2>3, <2>4, RecvSplit DEF Base, full
<1>1. Used' = Used /\ c \in Used
  BY <1>a, <1>0, SameUsed
<1>2. Clean'
  BY <1>1 DEF Clean
<1>3. ASSUME NEW d \in Conns, Used' = {d} PROVE Sole(d)'
  <2>1. d = c /\ Sole(c)
    BY <1>1, <1>3 DEF SoleInv
  <2>2. CASE aborted[c]
    BY <1>0, <2>1, <2>2, <1>a DEF Sole, SoleControl, SoleData
  <2>3. CASE ~aborted[c]
    <3>1. otaBuffer # "freed" /\ otaHandle # "closed"
      BY <1>a, <2>1, <2>3 DEF Sole, SoleControl
    <3>2. Len(full) = Len(buf) + n /\ Len(buf) \in Nat /\ n \in Nat /\ n <= MaxChunk
      BY <1>a, FilledBuffer DEF Base
    <3>3. ~(otaBuffer = "live" /\ Len(full) > BufSize)
      BY <3>2, HeaderAssumption, ChunkAssumption, BufAssumption DEF BufferSafe, Base, TypeOK
    <3>4. ~(otaBuffer = "live" /\ ~otaHeader /\ flashOffset + Len(full) > PartLen)
      <4> SUFFICES ASSUME otaBuffer = "live", ~otaHeader PROVE ~(flashOffset + Len(full) > PartLen)
        OBVIOUS
      <4>1. flashOffset + Len(full) = got[c] + n - HeaderLen
        BY <1>a, <2>1, SoleHashed
      <4>2. Len(file[c]) < PartLen /\ Len(file[c]) \in Nat /\ got[c] \in Nat
        BY <2>1, FilesAssumption, EmptySeq, LenProperties DEF Sole, SoleData, Base, TypeOK
      <4> HIDE DEF full
      <4> QED BY <1>a, <3>2, <4>1, <4>2, HeaderAssumption, PartAssumption
    <3> HIDE DEF full
    <3>5. \/ /\ otaBuffer = "null" /\ Deliver(c, n, FALSE)
             /\ UNCHANGED <<flashVars, boots, taskVars, recvVars, dlVars, fault>>
          \/ otaBuffer = "live" /\ otaHeader /\ RecvHeader(full) /\ Deliver(c, n, TRUE)
          \/ otaBuffer = "live" /\ ~otaHeader /\ RecvBody(c, n, full)
      BY <3>1, <3>3, <3>4, RecvSplit DEF Base, full
    <3>6. UNCHANGED fault
      BY <3>5 DEF RecvHeader, RecvBody
    <3>7. SoleControl(c)'
      BY <1>a, <1>0, <2>1, <2>3, <3>6 DEF Sole, SoleControl, Running, taskVars
    <3>8. SoleData(c)'
      <4>1. CASE otaBuffer = "null"
        BY <1>0, <4>1 DEF SoleData
      <4>2. CASE otaBuffer # "null"
        BY <1>a, <2>1, <3>5, <4>2, SoleHeader, SoleBody DEF full
      <4> QED BY <4>1, <4>2
    <3> QED BY <2>1, <3>7, <3>8 DEF Sole
  <2> QED BY <2>2, <2>3
<1> QED BY <1>2, <1>3 DEF SoleInv

\* The end of the transfer.
LEMMA SoleResult ==
  ASSUME Base, SoleInv, NEW c \in Conns, Result(c) PROVE SoleInv'
<1>1. /\ Running /\ conn[c] \in Open /\ conn' = [conn EXCEPT ![c] = "closed"]
      /\ UNCHANGED <<recvVars, otaTotalLength, otaCtx, file, got, aborted>>
  BY DEF Result, Ready
<1>2. Used' = Used /\ c \in Used
  BY <1>1, SameUsed DEF Open
<1>3. Clean'
  BY <1>2 DEF Clean
<1>4. ASSUME NEW d \in Conns, Used' = {d} PROVE Sole(d)'
  <2>1. d = c /\ SoleControl(c) /\ SoleData(c)
    BY <1>2, <1>4 DEF SoleInv, Sole
  <2>2. conn'[c] = "closed"
    BY <1>1 DEF Base, TypeOK
  <2>3. otaBuffer' # "null" => otaBuffer # "null"
    BY DEF Result
  <2>4. SoleData(c)'
    BY <1>1, <2>1, <2>3 DEF SoleData, recvVars
  <2>5. ~aborted[c] => Running'
    <3> SUFFICES ASSUME ~aborted[c] PROVE fault' = {}
      BY DEF Running
    <3>1. cli = "waiting" /\ otaSema = "empty"
      BY <1>1, <2>1 DEF SoleControl
    <3>2. otaHandle # "closed" /\ otaBuffer # "freed"
      BY <1>1, <2>1 DEF SoleControl, Open
    <3> QED BY <1>1, <3>1, <3>2 DEF Result, GiveFault, CloseFault, Running
  <2>6. SoleControl(c)'
    BY <1>1, <2>1, <2>2, <2>3, <2>5 DEF SoleControl, Open
  <2> QED BY <2>1, <2>4, <2>6 DEF Sole
<1> QED BY <1>3, <1>4 DEF SoleInv

\* Every step keeps what is known of the only command.
LEMMA SoleNext == Base /\ BufferSafe /\ SoleInv /\ [Next]_vars => SoleInv'
<1> SUFFICES ASSUME Base, BufferSafe, SoleInv, [Next]_vars PROVE SoleInv'
  OBVIOUS
<1>1. CASE Task
  BY <1>1, SoleKept DEF Task, CmdTake, CmdDelete, recvVars
<1>2. CASE PowerLoss \/ Reset
  BY <1>2, SoleReboot DEF PowerLoss, Reset
<1>3. CASE UNCHANGED vars
  BY <1>3, SoleKept DEF vars, recvVars
<1>4. CASE UpdateTable
  <2>1. /\ UNCHANGED <<connVars, buf, otaHeader, flashOffset, otaSha256Img, dlVars, fault, taskVars>>
        /\ recvAt' # "idle"
    BY <1>4 DEF UpdateTable
  <2> QED BY <2>1, SoleKept
<1> QED
  BY <1>1, <1>2, <1>3, <1>4, SoleCmd, SoleReply, SoleRecv, SoleResult DEF Next, Callback, Switch

\* The invariant of the only command of a boot.
LEMMA SoleAlways == Spec => [](Base /\ SoleInv)
<1>1. Base /\ SoleInv /\ BufferSafe /\ [Next]_vars => (Base /\ SoleInv)'
  BY BaseNext, SoleNext
<1> QED BY <1>1, BaseInit, SoleInit, BufferIsSafe, PTL DEF Spec

\* One connection at most, if no two are in use.
LEMMA FewUsed ==
  ASSUME IsFiniteSet(Used), ~(Cardinality(Used) > 1)
  PROVE  Used = {} \/ \E c \in Conns : Used = {c}
<1> SUFFICES ASSUME NEW c \in Used, NEW d \in Used, c # d PROVE FALSE
  BY DEF Used
<1>1. {c, d} \in SUBSET Used
  OBVIOUS
<1>2. Cardinality({c, d}) <= Cardinality(Used) /\ Cardinality(Used) \in Nat
  BY <1>1, FS_Subset, FS_CardinalityType
<1>3. Cardinality({c}) = 1 /\ IsFiniteSet({c})
  BY FS_Singleton
<1>4. {c, d} = {c} \cup {d} /\ d \notin {c}
  OBVIOUS
<1>5. Cardinality({c, d}) = 2
  BY <1>3, <1>4, FS_AddElement, SMTT(30)
<1> QED BY <1>2, <1>5

\* The statics that survive a command are misused only by a second command, or after a
\* download was let go: the first of a boot never frees twice, writes through a closed
\* handle, beyond the partition, or gives a semaphore that does not exist.
THEOREM FaultsNeedRetry == Spec => []FaultNeedsRetry
<1>1. Base /\ SoleInv => FaultNeedsRetry
  <2> SUFFICES ASSUME Base, SoleInv, ~(Cardinality(Used) > 1), \A c \in Conns : ~aborted[c]
               PROVE  Running
    BY DEF FaultNeedsRetry
  <2>1. Used = {} \/ \E c \in Conns : Used = {c}
    BY FewUsed DEF Base
  <2> QED BY <2>1 DEF SoleInv, Clean, Sole, SoleControl
<1> QED BY <1>1, SoleAlways, PTL

\* A good file that no single callback can hold is installed with its last unit, however
\* it is cut into pieces.
THEOREM MissesNoInstall == Spec => []NoMissedInstall
<1>1. Base /\ SoleInv => NoMissedInstall
  BY DEF SoleInv, Sole, SoleData, Big, NoMissedInstall
<1> QED BY <1>1, SoleAlways, PTL

-----------------------------------------------------------------------------
\* No beginning of a file is itself the image of a release: images are served behind
\* their header.
Headed(f) == \A n \in 1..Len(f) : ~Authentic(SubSeq(f, 1, n))

\* More than one command in a boot only if no download was let go as too large (its
\* transfer goes on beside the next one), and all files are headed.
Orderly == \A c, d \in Used : c # d => ~aborted[c] /\ Headed(file[d])

\* The command waits for the one transfer that is going on.
OneOpen == /\ \A c \in Conns : conn[c] \in Open /\ ~aborted[c] => cli = "waiting" /\ otaSema = "empty"
           /\ \A c, d \in Conns : conn[c] \in Open /\ conn[d] \in Open => c = d

\* A live buffer belongs to a transfer and goes with a handle.
Fed == /\ otaBuffer = "live" => \E c \in Conns : conn[c] = "body" /\ ~aborted[c]
       /\ otaBuffer # "null" => otaHandle # "null"

\* What was hashed is what was written, from the start of the slot on; or a header of
\* an earlier transfer is still taken for read, and the file is hashed from its start.
InSync == /\ Len(otaCtx) = flashOffset /\ flashOffset <= PartLen
          /\ ~degraded => \A i \in 1..flashOffset : flash[Standby][i] = otaCtx[i]
Shifted(c) == /\ conn[c] = "body" /\ flashOffset > 0
              /\ otaCtx = SubSeq(file[c], 1, got[c])
              /\ \E d \in Used : d # c
Staged == otaBuffer = "live" /\ recvAt = "idle" => InSync \/ \E c \in Conns : Shifted(c)

\* When the table is about to be switched, the slot holds a whole released image.
Whole == recvAt = "switch" /\ ~degraded => Authentic(FS!Image(flash[Standby], flashOffset))

Flow == OneOpen /\ Fed /\ Staged /\ Whole

\* Nothing is transferred yet.
LEMMA FlowInit == Init => Flow
<1> SUFFICES ASSUME Init PROVE Flow
  OBVIOUS
<1>1. OneOpen
  BY DEF Init, RamInit, OneOpen, Open
<1>2. Fed /\ Staged /\ Whole
  BY DEF Init, RamInit, Fed, Staged, Whole
<1> QED BY <1>1, <1>2 DEF Flow

\* A reboot ends every transfer.
LEMMA FlowReboot == ASSUME Reboot PROVE Flow'
<1>1. OneOpen'
  BY DEF Reboot, OneOpen, Open
<1>2. Fed' /\ Staged' /\ Whole'
  BY DEF Reboot, Fed, Staged, Whole
<1> QED BY <1>1, <1>2 DEF Flow

\* Image taken from flash that agrees with a sequence is that sequence.
LEMMA ImageOfSeq ==
  ASSUME NEW s \in Seq(Unit), NEW slot, \A i \in 1..Len(s) : slot[i] = s[i]
  PROVE  FS!Image(slot, Len(s)) = s
<1>1. s = [i \in 1..Len(s) |-> s[i]]
  BY LenProperties
<1>2. FS!Image(slot, Len(s)) = [i \in 1..Len(s) |-> slot[i]]
  BY DEF FS!Image
<1> QED BY <1>1, <1>2

\* The elements of two sequences put together.
LEMMA ConcatIndex ==
  ASSUME NEW s \in Seq(Unit), NEW t \in Seq(Unit)
  PROVE  \A i \in 1..Len(s) + Len(t) :
           (s \o t)[i] = IF i <= Len(s) THEN s[i] ELSE t[i - Len(s)]
BY ConcatProperties

\* After a write that succeeds the slot holds what was hashed with it.
LEMMA WrittenInSync ==
  ASSUME TypeOK, InSync, NEW full \in Seq(Unit), flashOffset + Len(full) <= PartLen, Write(full)
  PROVE  ~degraded' => \A i \in 1..flashOffset + Len(full) : flash'[Standby][i] = (otaCtx \o full)[i]
<1> SUFFICES ASSUME ~degraded', NEW i \in 1..flashOffset + Len(full)
             PROVE  flash'[Standby][i] = (otaCtx \o full)[i]
  OBVIOUS
<1>1. ~degraded /\ flash' = [flash EXCEPT ![Standby] = Written(@, full)]
  BY DEF Write
<1>2. Len(full) \in Nat /\ Len(otaCtx) = flashOffset /\ flashOffset \in Nat /\ PartLen \in Nat
      /\ otaCtx \in Seq(Unit) /\ i \in Nat
  BY LenProperties, PartAssumption DEF InSync, TypeOK
<1>3. Standby \in Slots /\ flash \in [Slots -> [1..PartLen -> Unit \cup {Erased}]]
  BY DEF TypeOK, Standby, Slots
<1>4. flash'[Standby] = Written(flash[Standby], full)
  BY <1>1, <1>3
<1>5. i \in 1..PartLen
  BY <1>2
<1>6. flash'[Standby][i] = IF i \in flashOffset + 1..flashOffset + Len(full)
                           THEN full[i - flashOffset] ELSE flash[Standby][i]
  BY <1>4, <1>5 DEF Written
<1>7. (otaCtx \o full)[i] = IF i <= flashOffset THEN otaCtx[i] ELSE full[i - flashOffset]
  BY <1>2, ConcatIndex
<1>8. CASE i <= flashOffset
  <2>1. i \in 1..flashOffset /\ i \notin flashOffset + 1..flashOffset + Len(full)
    BY <1>2, <1>8
  <2> QED BY <1>1, <1>6, <1>7, <1>8, <2>1 DEF InSync
<1>9. CASE ~(i <= flashOffset)
  <2>1. i \in flashOffset + 1..flashOffset + Len(full)
    BY <1>2, <1>9
  <2> QED BY <1>6, <1>7, <1>9, <2>1
<1> QED BY <1>8, <1>9

\* A shifted transfer hashes its file from the start.
LEMMA ShiftedHash ==
  ASSUME Base, NEW c \in Conns, Shifted(c), NEW n \in 1..MaxChunk, got[c] + n <= Len(file[c])
  PROVE  otaCtx \o Filled(c, n) = SubSeq(file[c], 1, got[c] + n)
<1> DEFINE f == file[c]
           g == got[c]
           piece == SubSeq(f, g + 1, g + n)
<1>0. /\ f \in Files \cup {<<>>} /\ g \in Nat /\ n \in Nat /\ g + n <= Len(f)
      /\ 1 \in Nat \ {0} /\ 1 <= g + 1
  BY ChunkAssumption DEF Base, TypeOK
<1>1. buf = <<>> /\ otaCtx = SubSeq(f, 1, g)
  BY DEF Base, HeaderRead, Shifted
<1>2. piece \in Seq(Unit)
  BY <1>0, PieceOfFile
<1>3. Filled(c, n) = <<>> \o piece
  BY <1>1 DEF Filled
<1> HIDE DEF piece, f, g
<1>4. Filled(c, n) = piece
  BY <1>2, <1>3, ConcatEmptySeq
<1>5. SubSeq(f, 1, g) \o SubSeq(f, g + 1, g + n) = SubSeq(f, 1, g + n)
  BY <1>0, PiecesMeet
<1> QED BY <1>1, <1>4, <1>5 DEF piece, f, g

\* The units that complete an image leave it whole in the slot.
LEMMA WholeImage ==
  ASSUME Base, OneOpen, Staged, Orderly, NEW c \in Conns, NEW n \in 1..MaxChunk,
         recvAt = "idle", conn[c] = "body", got[c] + n <= Len(file[c]),
         otaBuffer = "live", ~otaHeader, flashOffset + Len(Filled(c, n)) <= PartLen,
         RecvBody(c, n, Filled(c, n))
  PROVE  Whole'
<1> DEFINE full == Filled(c, n)
           N == flashOffset + Len(full)
<1> SUFFICES ASSUME Complete(full), ~degraded'
             PROVE  Authentic(FS!Image(flash'[Standby], N))
  BY DEF Whole, RecvBody, Standby
<1>1. /\ full \in Seq(Unit) /\ Len(full) \in Nat /\ n \in Nat \ {0}
      /\ got[c] \in Nat /\ flashOffset \in Nat /\ otaCtx \in Seq(Unit)
  <2>1. full \in Seq(Unit) /\ Len(full) \in Nat /\ n \in Nat \ {0}
    BY FilledBuffer, LenProperties, ChunkAssumption DEF Base
  <2> HIDE DEF full
  <2> QED BY <2>1 DEF Base, TypeOK
<1>2. otaCtx \o full = otaSha256Img /\ Write(full)
  BY DEF RecvBody, Complete
<1>3. PICK u \in Unit : otaSha256Img = Claim[u]
  BY DEF Base, HeaderRead
<1>4. Authentic(otaCtx \o full)
  BY <1>2, <1>3 DEF Authentic
<1>5. ASSUME NEW d \in Conns, Shifted(d) PROVE FALSE
  <2>1. d = c
    BY <1>5 DEF OneOpen, Open, Shifted
  <2>2. otaCtx \o full = SubSeq(file[c], 1, got[c] + n)
    BY <1>5, <2>1, ShiftedHash
  <2>3. Headed(file[c])
    BY <1>5, <2>1 DEF Shifted, Orderly, Used
  <2>4. got[c] + n \in 1..Len(file[c])
    <3>1. file[c] \in Files \cup {<<>>}
      BY DEF Base, TypeOK
    <3>2. Len(file[c]) \in Nat
      BY <3>1, FilesAssumption, EmptySeq, LenProperties
    <3> HIDE DEF full
    <3> QED BY <1>1, <3>2
  <2> HIDE DEF full
  <2> QED BY <1>4, <2>2, <2>3, <2>4 DEF Headed
<1>6. InSync
  BY <1>5 DEF Staged
<1> HIDE DEF full
<1>7. otaCtx \o full \in Seq(Unit) /\ Len(otaCtx \o full) = N
  BY <1>1, <1>6, ConcatUnits DEF InSync
<1>8. \A i \in 1..N : flash'[Standby][i] = (otaCtx \o full)[i]
  <2>1. flashOffset + Len(full) <= PartLen
    BY DEF full
  <2> QED BY <1>1, <1>2, <1>6, <2>1, WrittenInSync DEF Base
<1>9. FS!Image(flash'[Standby], N) = otaCtx \o full
  <2> HIDE DEF N
  <2> QED BY <1>7, <1>8, ImageOfSeq
<1> QED BY <1>4, <1>9

\* Every step of an orderly boot keeps buffer, hash and slot together.
LEMMA FlowNext ==
  Base /\ Flow /\ Orderly /\ Orderly' /\ [Next]_vars => Flow'
<1> SUFFICES ASSUME Base, Flow, Orderly, Orderly', [Next]_vars PROVE Flow'
  OBVIOUS
<1>0. /\ conn \in [Conns -> {"none", "connecting", "body", "closed"}]
      /\ aborted \in [Conns -> BOOLEAN] /\ file \in [Conns -> Files \cup {<<>>}]
      /\ got \in [Conns -> Nat] /\ OneOpen /\ Fed /\ Staged /\ Whole
  BY DEF Base, TypeOK, Flow
<1>a. ASSUME UNCHANGED <<flash, active, degraded, flashOffset>>, recvAt' \in {recvAt, "idle", "reboot"}
      PROVE  Whole'
  BY <1>0, <1>a DEF Whole, Standby
<1>b. ASSUME recvAt' = "idle" PROVE Whole'
  BY <1>b DEF Whole
<1>1. ASSUME NEW c \in Conns, OtaCmd(c) PROVE Flow'
  <2>1. PICK st \in {"connecting", "closed"} : conn' = [conn EXCEPT ![c] = st]
    BY <1>1 DEF OtaCmd
  <2>2. /\ cli = "idle" /\ cli' = "waiting" /\ otaSema' = "empty" /\ conn[c] = "none"
        /\ UNCHANGED <<file, got, unacked, aborted, flashVars, recvVars, dlVars>>
    BY <1>1 DEF OtaCmd
  <2>3. ASSUME NEW d \in Conns, conn[d] \in Open PROVE FALSE
    <3>1. d # c /\ d \in Used' /\ c \in Used'
      BY <1>0, <2>1, <2>2, <2>3 DEF Used, Open
    <3>2. ~aborted[d]
      BY <2>2, <3>1 DEF Orderly
    <3> QED BY <1>0, <2>2, <2>3, <3>2 DEF OneOpen
  <2>4. OneOpen'
    BY <1>0, <2>1, <2>2, <2>3 DEF OneOpen, Open
  <2>5. otaBuffer # "live"
    BY <1>0, <2>3 DEF Fed, Open
  <2>6. Fed' /\ Staged'
    BY <1>0, <2>2, <2>5 DEF Fed, Staged, dlVars
  <2> QED BY <1>a, <2>2, <2>4, <2>6 DEF Flow, flashVars, recvVars
<1>2. ASSUME NEW c \in Conns, NEW f \in Files, NEW known \in BOOLEAN, HeadersDone(c, f, known)
      PROVE  Flow'
  <2>1. /\ conn[c] = "connecting" /\ UNCHANGED recvVars
        /\ conn' = [conn EXCEPT ![c] = "body"] /\ file' = [file EXCEPT ![c] = f]
        /\ UNCHANGED <<got, unacked>>
    BY <1>2 DEF HeadersDone, Replied
  <2>w. Whole'
    <3>1. recvAt' = "idle"
      BY <1>2 DEF HeadersDone, Ready, recvVars
    <3> QED BY <1>b, <3>1
  <2>2. \A d \in Conns : d # c => conn[d] \notin Open
    BY <1>0, <2>1 DEF OneOpen, Open
  <2>3. otaBuffer # "live" /\ conn'[c] = "body" /\ \A d \in Conns : d # c => conn'[d] \notin Open
    BY <1>0, <2>1, <2>2 DEF Fed, Open
  <2>4. CASE /\ aborted' = [aborted EXCEPT ![c] = FALSE] /\ otaHandle' \in {otaHandle, "open"}
             /\ UNCHANGED <<taskVars, otaBuffer>>
    <3>1. OneOpen'
      BY <1>0, <2>1, <2>3, <2>4 DEF OneOpen, Base, Fresh, Open, taskVars
    <3>2. Fed' /\ Staged'
      BY <1>0, <2>3, <2>4 DEF Fed, Staged
    <3> QED BY <2>w, <3>1, <3>2 DEF Flow
  <2>5. CASE /\ aborted' = [aborted EXCEPT ![c] = FALSE]
             /\ HeadersFit(Len(f))
    <3>1. OneOpen'
      BY <1>0, <2>1, <2>3, <2>5 DEF OneOpen, Base, Fresh, Open, taskVars, HeadersFit
    <3>2. Fed'
      BY <1>0, <2>3, <2>5 DEF Fed, HeadersFit
    <3>3. otaCtx' = <<>> /\ flashOffset' = flashOffset /\ flashOffset \in Nat
      BY <2>1, <2>5 DEF HeadersFit, recvVars, Base, TypeOK
    <3>4. CASE flashOffset = 0
      <4>1. Len(otaCtx') = 0 /\ flashOffset' = 0 /\ 0 <= PartLen
        BY <3>3, <3>4, PartAssumption
      <4>2. InSync'
        BY <4>1 DEF InSync
      <4> QED BY <2>w, <3>1, <3>2, <4>2 DEF Staged, Flow
    <3>5. CASE flashOffset > 0
      <4>1. PICK d \in Conns : conn[d] \in {"body", "closed"}
        BY <3>5 DEF Base, HeaderRead
      <4>2. d # c /\ d \in Used'
        BY <1>0, <2>1, <4>1 DEF Used
      <4>3. SubSeq(f, 1, 0) = <<>>
        BY SubSeqEmpty
      <4>4. file'[c] = f /\ got'[c] = 0
        BY <1>0, <2>1 DEF Base, Fresh
      <4>5. Shifted(c)'
        BY <2>3, <3>3, <3>5, <4>2, <4>3, <4>4 DEF Shifted
      <4> QED BY <2>w, <3>1, <3>2, <4>5 DEF Staged, Flow
    <3> QED BY <3>1, <3>2, <3>3, <3>4, <3>5 DEF Flow, Staged
  <2>6. CASE /\ aborted' = [aborted EXCEPT ![c] = TRUE]
             /\ \E total \in Nat : HeadersAbort(total)
    <3>1. OneOpen'
      BY <1>0, <2>1, <2>3, <2>6 DEF OneOpen, Open
    <3>2. Fed' /\ Staged'
      BY <1>0, <2>3, <2>6 DEF Fed, Staged, HeadersAbort
    <3> QED BY <2>w, <3>1, <3>2 DEF Flow
  <2>7. (IF known THEN Len(f) ELSE NoLength) \in Nat
    BY FilesAssumption, LenProperties DEF NoLength
  <2> QED BY <1>2, <2>4, <2>5, <2>6, <2>7 DEF HeadersDone, Replied
<1>3. ASSUME NEW c \in Conns, NEW n \in 1..MaxChunk, Recv(c, n) PROVE Flow'
  <2> DEFINE full == Filled(c, n)
  <2>0. /\ conn[c] = "body" /\ got[c] + n <= Len(file[c]) /\ full \in Seq(Unit) /\ Len(full) \in Nat
        /\ n \in Nat \ {0} /\ recvAt = "idle"
    BY <1>3, FilledBuffer, LenProperties, ChunkAssumption DEF Recv, Arrives, Ready, Base
  <2>1. ASSUME UNCHANGED <<conn, aborted, taskVars, otaBuffer, otaHandle>> PROVE OneOpen' /\ Fed'
    BY <1>0, <2>1 DEF OneOpen, Fed, taskVars
  <2>2. CASE /\ otaBuffer = "null" /\ Deliver(c, n, FALSE)
             /\ UNCHANGED <<flashVars, boots, taskVars, recvVars, dlVars, fault>>
    <3>1. UNCHANGED <<conn, aborted, taskVars, otaBuffer, otaHandle>>
      BY <2>2 DEF Deliver, dlVars
    <3>2. Staged'
      BY <2>2, <3>1 DEF Staged
    <3>3. Whole'
      BY <1>a, <2>2 DEF flashVars, recvVars
    <3> QED BY <2>1, <3>1, <3>2, <3>3 DEF Flow
  <2>3. ASSUME NEW kind \in {"buffer", "overflow", "handle", "partition"}, Lost(kind) PROVE Flow'
    <3>1. UNCHANGED <<conn, aborted, taskVars, otaBuffer, otaHandle>>
      BY <2>3 DEF Lost, connVars, dlVars
    <3>2. Staged'
      BY <1>0, <2>3 DEF Staged, InSync, Shifted, Lost, connVars, dlVars, recvVars, flashVars, Standby, Used
    <3>3. Whole'
      BY <1>a, <2>3 DEF Lost, flashVars, recvVars
    <3> QED BY <2>1, <3>1, <3>2, <3>3 DEF Flow
  <2>4. CASE otaBuffer = "live" /\ otaHeader /\ RecvHeader(full) /\ Deliver(c, n, TRUE)
    <3>1. UNCHANGED <<conn, aborted, taskVars, otaBuffer, otaHandle, flashVars, otaCtx>>
      BY <2>4 DEF RecvHeader, Deliver, dlVars
    <3>2. flashOffset = 0
      BY <2>4 DEF Base, HeaderRead
    <3>3. InSync
      BY <1>0, <2>0, <2>4, <3>2 DEF Staged, Shifted
    <3> HIDE DEF full
    <3>4. flashOffset' = 0
      BY <2>0, <2>4, <3>2, HeaderSplit
    <3>5. InSync'
      BY <3>1, <3>2, <3>3, <3>4 DEF InSync, flashVars, Standby
    <3>6. Whole'
      BY <1>b, <2>0, <2>4 DEF RecvHeader
    <3> QED BY <2>1, <3>1, <3>5, <3>6 DEF Flow, Staged
  <2>6. CASE otaBuffer = "live" /\ ~otaHeader /\ flashOffset + Len(full) <= PartLen /\ RecvBody(c, n, full)
    <3>1. UNCHANGED <<conn, file, aborted, taskVars, otaBuffer, otaHandle, active>> /\ got'[c] = got[c] + n
      BY <2>6, Delivered DEF RecvBody, Base, Deliver
    <3>2. otaCtx' = otaCtx \o full /\ flashOffset' = flashOffset + Len(full) /\ Write(full)
      BY <2>6 DEF RecvBody
    <3>5. Whole'
      BY <1>0, <2>0, <2>6, WholeImage
    <3> HIDE DEF full
    <3>3. CASE InSync
      <4>1. Len(otaCtx') = flashOffset'
        BY <2>0, <3>2, <3>3, ConcatUnits DEF InSync, Base, TypeOK
      <4>2. InSync'
        BY <2>0, <2>6, <3>1, <3>2, <3>3, <4>1, WrittenInSync DEF InSync, Base, Standby
      <4> QED BY <2>1, <3>1, <3>5, <4>2 DEF Flow, Staged
    <3>4. ASSUME NEW d \in Conns, Shifted(d) PROVE Flow'
      <4>1. d = c
        BY <1>0, <2>0, <3>4 DEF OneOpen, Open, Shifted
      <4>2. otaCtx' = SubSeq(file[c], 1, got[c] + n)
        BY <2>0, <3>2, <3>4, <4>1, ShiftedHash DEF full
      <4>3. flashOffset' > 0
        BY <2>0, <3>2, <3>4 DEF Shifted, Base, TypeOK
      <4>4. Used' = Used
        BY <3>1 DEF Used
      <4>5. Shifted(c)'
        BY <2>0, <3>1, <3>4, <4>1, <4>2, <4>3, <4>4 DEF Shifted
      <4> QED BY <2>1, <3>1, <3>5, <4>5 DEF Flow, Staged
    <3> QED BY <1>0, <2>0, <2>6, <3>3, <3>4 DEF Staged
  <2> HIDE DEF full
  <2> QED BY <1>3, <2>2, <2>3, <2>4, <2>6, RecvSplit DEF Base, full
<1>4. ASSUME NEW c \in Conns, Result(c) PROVE Flow'
  <2>1. conn[c] \in Open /\ conn' = [conn EXCEPT ![c] = "closed"] /\ UNCHANGED aborted
    BY <1>4 DEF Result
  <2>2. \A d \in Conns : conn'[d] \notin Open
    BY <1>0, <2>1 DEF OneOpen, Open
  <2>3. OneOpen'
    BY <2>2 DEF OneOpen
  <2>4. otaBuffer' # "live" /\ (otaBuffer' # "null" => otaHandle' # "null")
    BY <1>0, <1>4 DEF Fed, Result
  <2>5. Whole'
    BY <1>b, <1>4 DEF Result, Ready, recvVars
  <2> QED BY <2>3, <2>4, <2>5 DEF Fed, Staged, Flow
<1>5. CASE Task
  <2>1. UNCHANGED <<flashVars, boots, recvVars, dlVars, connVars, fault>>
        /\ (cli # "waiting" \/ otaSema # "empty")
    BY <1>5 DEF Task, CmdTake, CmdDelete
  <2>2. OneOpen' /\ Fed' /\ Staged'
    BY <1>0, <2>1 DEF OneOpen, Fed, Staged, InSync, Shifted, Used, Standby, flashVars, recvVars, dlVars, connVars
  <2>3. Whole'
    BY <1>a, <2>1 DEF flashVars, recvVars
  <2> QED BY <2>2, <2>3 DEF Flow
<1>6. CASE PowerLoss \/ Reset
  BY <1>6, FlowReboot DEF PowerLoss, Reset
<1>7. CASE UNCHANGED vars
  <2>1. OneOpen' /\ Fed' /\ Staged'
    BY <1>0, <1>7 DEF vars, OneOpen, Fed, Staged, InSync, Shifted, Used, Standby, flashVars, taskVars, recvVars, dlVars, connVars
  <2>2. Whole'
    BY <1>a, <1>7 DEF vars, flashVars, recvVars
  <2> QED BY <2>1, <2>2 DEF Flow
<1>8. CASE UpdateTable
  <2>1. recvAt' = "reboot" /\ UNCHANGED <<taskVars, dlVars, connVars>>
    BY <1>8 DEF UpdateTable
  <2>2. OneOpen' /\ Fed'
    BY <1>0, <2>1 DEF OneOpen, Fed, taskVars, dlVars, connVars
  <2>3. Staged' /\ Whole'
    BY <2>1 DEF Staged, Whole
  <2> QED BY <2>2, <2>3 DEF Flow
<1> QED BY <1>1, <1>2, <1>3, <1>4, <1>5, <1>6, <1>7, <1>8 DEF Next, Callback, Switch

\* Every step stages or activates as FirmwareSlots allows, or leaves flash alone.
LEMMA SlotsNext ==
  ASSUME Base, TypeOK', Flow, Orderly, [Next]_vars
  PROVE  [FS!Next]_FS!vars
<1> DEFINE Touched == /\ flash'[active] = flash[active]
                      /\ degraded' \in {degraded, TRUE}
<1>0. /\ active \in Slots /\ Standby \in Slots /\ Standby # active /\ degraded \in BOOLEAN
      /\ flash \in [Slots -> [1..PartLen -> Unit \cup {Erased}]]
      /\ flash' \in [Slots -> [1..PartLen -> Unit \cup {Erased}]]
      /\ OneOpen /\ Fed /\ Staged
  BY DEF Base, TypeOK, Slots, Standby, Flow
<1>1. ASSUME UNCHANGED flashVars PROVE UNCHANGED FS!vars
  BY <1>1 DEF flashVars, FS!vars
<1>2. ASSUME Touched, UNCHANGED <<active, bootLen>> PROVE FS!Next
  BY <1>0, <1>2 DEF FS!Next, FS!Stage, FS!Slots, Slots
<1>3. ASSUME NEW c \in Conns, OtaCmd(c) PROVE UNCHANGED flashVars
  BY <1>3 DEF OtaCmd
<1>4. ASSUME NEW c \in Conns, NEW f \in Files, NEW known \in BOOLEAN, HeadersDone(c, f, known)
      PROVE  FS!Next
  <2>1. UNCHANGED <<active, bootLen>> /\ (Erase \/ UNCHANGED <<flash, degraded>>)
    BY <1>4 DEF HeadersDone
  <2>2. Touched
    BY <1>0, <2>1 DEF Erase
  <2> QED BY <1>2, <2>1, <2>2
<1>5. ASSUME NEW full \in Seq(Unit), Write(full) PROVE Touched
  BY <1>0, <1>5 DEF Write
<1>6. ASSUME NEW c \in Conns, NEW n \in 1..MaxChunk, Recv(c, n) PROVE [FS!Next]_FS!vars
  <2> DEFINE full == Filled(c, n)
  <2>1. full \in Seq(Unit)
    BY <1>6, FilledBuffer DEF Recv, Arrives, Base
  <2>2. ASSUME NEW kind \in {"buffer", "overflow", "handle", "partition"}, Lost(kind) PROVE UNCHANGED flashVars
    BY <2>2 DEF Lost
  <2>3. CASE RecvHeader(full)
    BY <1>1, <2>3 DEF RecvHeader
  <2>4. CASE RecvBody(c, n, full)
    <3> HIDE DEF full
    <3> QED BY <1>2, <1>5, <2>1, <2>4 DEF RecvBody
  <2>6. CASE UNCHANGED flashVars
    BY <1>1, <2>6
  <2> HIDE DEF full
  <2> QED BY <1>1, <1>6, <2>2, <2>3, <2>4, <2>6, RecvSplit DEF Base, full
<1>7. ASSUME NEW c \in Conns, Result(c) PROVE UNCHANGED flashVars
  BY <1>7 DEF Result
<1>8. CASE Task
  BY <1>1, <1>8 DEF Task, CmdTake, CmdDelete
<1>9. CASE Reset \/ UNCHANGED vars
  BY <1>1, <1>9 DEF Reset, vars
<1>10. CASE PowerLoss
  BY <1>2, <1>10, CutType DEF PowerLoss, Base
<1>11. CASE UpdateTable
  <2>1. UNCHANGED <<flash, degraded>> /\ recvAt = "switch"
    BY <1>11 DEF UpdateTable
  <2>2. CASE UNCHANGED <<active, bootLen>>
    BY <1>1, <2>1, <2>2 DEF flashVars
  <2>3. CASE active' = Standby /\ bootLen' = flashOffset
    <3>1. flashOffset \in Nat /\ Whole
      BY DEF Base, TypeOK, Flow
    <3>2. ~degraded => Authentic(FS!Image(flash[Standby], flashOffset))
      BY <2>1, <3>1 DEF Whole
    <3> QED BY <2>1, <2>3, <3>1, <3>2 DEF FS!Next, FS!Activate, FS!Other, Standby
  <2> QED BY <1>11, <2>2, <2>3 DEF UpdateTable
<1> QED BY <1>1, <1>3, <1>4, <1>6, <1>7, <1>8, <1>9, <1>10, <1>11 DEF Next, Callback, Switch

\* An orderly update only ever stages in the slot that does not run, and activates it
\* only with an authentic image.
THEOREM UpdatesSlots == Spec /\ []Orderly => ImplementsSlots
<1>1. Init => FS!Init
  BY DEF Init, FS!Init, Blank, FS!Slots, Slots
<1>2. Base /\ TypeOK' /\ Flow /\ Orderly /\ [Next]_vars => [FS!Next]_FS!vars
  BY SlotsNext
<1>3. Spec => []Base
  BY SoleAlways, PTL
<1>4. Base => TypeOK
  BY DEF Base
<1>5. Spec /\ []Orderly => []Flow
  BY <1>3, FlowInit, FlowNext, PTL DEF Spec
<1>6. Spec /\ []Orderly => FS!Spec
  BY <1>1, <1>2, <1>3, <1>4, <1>5, PTL DEF Spec, FS!Spec
<1> QED BY <1>6 DEF ImplementsSlots

\* Hence, unless a flash operation was silently lost, the slot that boots always holds
\* a complete image that some header vouches for.
THEOREM UpdatesAreBootable == Spec /\ []Orderly => []FS!Bootable
<1>1. FS!Init => FS!Bootable
  BY DEF FS!Init, FS!Bootable
<1>2. TypeOK /\ TypeOK' /\ FS!Bootable /\ [FS!Next]_FS!vars => FS!Bootable'
  <2> SUFFICES ASSUME TypeOK, TypeOK', FS!Bootable, [FS!Next]_FS!vars PROVE FS!Bootable'
    OBVIOUS
  <2>0. degraded \in BOOLEAN
    BY DEF TypeOK
  <2>1. CASE FS!Stage
    <3>0. degraded' = degraded \/ degraded' = TRUE
      BY <2>1, Zenon DEF FS!Stage
    <3>1. UNCHANGED <<active, bootLen>> /\ flash'[active] = flash[active]
      BY <2>1 DEF FS!Stage
    <3>3. ~degraded' => ~degraded
      BY <2>0, <3>0
    <3>2. flash'[active'] = flash[active] /\ bootLen' = bootLen
      BY <3>1
    <3> QED BY <3>2, <3>3 DEF FS!Bootable
  <2>2. CASE FS!Activate
    BY <2>2 DEF FS!Activate, FS!Bootable
  <2>3. CASE UNCHANGED FS!vars
    BY <2>3 DEF FS!vars, FS!Bootable, FS!Image
  <2> QED BY <2>1, <2>2, <2>3 DEF FS!Next
<1>3. Spec /\ []Orderly => FS!Spec
  BY UpdatesSlots DEF ImplementsSlots
<1> QED BY <1>1, <1>2, <1>3, TypeCorrect, PTL DEF FS!Spec

\* With no condition on commands or files: the firmware that runs is never written to
\* while it is the one to boot.
THEOREM RunningFirmwareUntouched == Spec => FS!RunningUntouched
<1>1. TypeOK /\ [Next]_vars => [active' = active => flash'[active] = flash[active]]_FS!vars
  <2> SUFFICES ASSUME TypeOK, [Next]_vars, active' = active PROVE flash'[active] = flash[active]
    OBVIOUS
  <2>0. /\ active \in Slots /\ Standby \in Slots /\ Standby # active
        /\ flash \in [Slots -> [1..PartLen -> Unit \cup {Erased}]]
    BY DEF TypeOK, Slots, Standby
  <2>1. ASSUME NEW c \in Conns, NEW f \in Files, NEW known \in BOOLEAN, HeadersDone(c, f, known)
        PROVE  flash'[active] = flash[active]
    BY <2>0, <2>1 DEF HeadersDone, Erase
  <2>2. ASSUME NEW full, Write(full) PROVE flash'[active] = flash[active]
    BY <2>0, <2>2 DEF Write
  <2>3. ASSUME NEW c \in Conns, NEW n \in 1..MaxChunk, Recv(c, n) PROVE flash'[active] = flash[active]
    <3> DEFINE full == Filled(c, n)
    <3>1. CASE RecvBody(c, n, full)
      BY <2>2, <3>1 DEF RecvBody
    <3>2. CASE RecvHeader(full)
      BY <3>2 DEF RecvHeader, flashVars
    <3>3. ASSUME NEW kind \in {"buffer", "overflow", "handle", "partition"}, Lost(kind)
          PROVE  flash'[active] = flash[active]
      BY <3>3 DEF Lost, flashVars
    <3>5. CASE UNCHANGED flashVars
      BY <3>5 DEF flashVars
    <3> HIDE DEF full
    <3> QED BY <2>3, <3>1, <3>2, <3>3, <3>5, RecvSplit DEF full
  <2>4. CASE UNCHANGED flash
    BY <2>4
  <2>5. ASSUME NEW c \in Conns, OtaCmd(c) \/ Result(c) PROVE UNCHANGED flash
    BY <2>5 DEF OtaCmd, Result, flashVars
  <2>6. Task \/ Switch \/ UNCHANGED vars => UNCHANGED flash
    BY DEF Task, CmdTake, CmdDelete, Switch, UpdateTable, Reset, vars, flashVars
  <2>7. CASE PowerLoss
    BY <2>7, CutType DEF PowerLoss
  <2> QED BY <2>1, <2>3, <2>4, <2>5, <2>6, <2>7 DEF Next, Callback
<1> QED BY <1>1, TypeCorrect, PTL DEF Spec, FS!RunningUntouched

-----------------------------------------------------------------------------
\* No release image is the rest of a file from within its header on, or less than a
\* chunk followed by the beginning of a file: headers can be told from images.
Marked == \A f \in Files : \A m \in 1..Len(f) :
            /\ \A j \in 1..HeaderLen : j <= m => ~Authentic(SubSeq(f, j, m))
            /\ \A p \in Seq(Unit) : Len(p) < MaxChunk => ~Authentic(p \o SubSeq(f, 1, m))

\* No download of this boot was let go as too large.
AllFit == \A c \in Conns : ~aborted[c]

\* Once a download fed otaBuffer, a header that is still awaited has begun.
Begun == Consumed # {} /\ otaHeader => buf # <<>>

\* A later download comes behind what an earlier one left: its file is to complete a
\* header that has begun, and is then hashed from within its own header on, or is hashed
\* from its start behind the rest of a chunk.
BehindHead(c) == \E p \in Seq(Unit) : p # <<>> /\ buf = p \o SubSeq(file[c], 1, got[c])
BehindRest(c) ==
  \/ \E p \in Seq(Unit) : Len(p) < MaxChunk /\ otaCtx \o buf = p \o SubSeq(file[c], 1, got[c])
  \/ \E j \in 1..HeaderLen : j <= got[c] + 1 /\ otaCtx \o buf = SubSeq(file[c], j, got[c])
Behind(c) == IF otaHeader THEN BehindHead(c) ELSE BehindRest(c)
Later(c) == otaBuffer = "live" /\ conn[c] = "body" /\ \E d \in Consumed : d # c
Trailing == \A c \in Conns : Later(c) => Behind(c)

\* An image that is about to be switched to came through one download alone.
Settled == recvAt = "switch" => \A d, e \in Consumed : d = e

RetryInv == AllFit => Flow /\ Begun /\ Trailing /\ Settled

\* A reboot leaves nothing to trail.
LEMMA RetryReboot == ASSUME Reboot PROVE RetryInv'
<1>1. Consumed' = {}
  BY DEF Reboot, Consumed
<1>2. Begun' /\ Trailing' /\ Settled'
  BY <1>1 DEF Begun, Trailing, Later, Settled
<1> QED BY <1>2, FlowReboot DEF RetryInv

\* If headers can be told from images, files are headed.
LEMMA MarkedHeaded == ASSUME Marked, NEW f \in Files \cup {<<>>} PROVE Headed(f)
<1> SUFFICES ASSUME NEW n \in 1..Len(f), Authentic(SubSeq(f, 1, n)) PROVE FALSE
  BY DEF Headed
<1>1. f # <<>>
  BY EmptySeq
<1>2. 1 \in 1..HeaderLen /\ 1 <= n
  BY HeaderAssumption
<1> QED BY <1>1, <1>2 DEF Marked

\* The beginning of a file behind something, and more of the file.
LEMMA MoreBehind ==
  ASSUME NEW f \in Files \cup {<<>>}, NEW a \in 1..HeaderLen, NEW g \in Nat, NEW n \in Nat, a <= g + 1, g + n <= Len(f),
         NEW p \in Seq(Unit)
  PROVE  (p \o SubSeq(f, a, g)) \o SubSeq(f, g + 1, g + n) = p \o SubSeq(f, a, g + n)
<1>0. a \in Nat \ {0}
  BY HeaderAssumption
<1>1. /\ SubSeq(f, a, g) \o SubSeq(f, g + 1, g + n) = SubSeq(f, a, g + n)
      /\ SubSeq(f, a, g) \in Seq(Unit)
  BY <1>0, PiecesMeet
<1>2. SubSeq(f, g + 1, g + n) \in Seq(Unit)
  BY PieceOfFile
<1> DEFINE s == SubSeq(f, a, g)
           t == SubSeq(f, g + 1, g + n)
<1>3. s \in Seq(Unit) /\ t \in Seq(Unit)
  BY <1>1, <1>2
<1> HIDE DEF s, t
<1>4. (p \o s) \o t = p \o (s \o t)
  BY ONLY <1>3, p \in Seq(Unit), ConcatAssociative
<1> QED BY <1>1, <1>4, Zenon DEF s, t

\* What follows the header in something that is followed by the beginning of a file.
LEMMA TailBehind ==
  ASSUME NEW f \in Files \cup {<<>>}, NEW p \in Seq(Unit), NEW m \in Nat, m <= Len(f),
         Len(p) <= HeaderLen, HeaderLen <= Len(p) + m
  PROVE  SubSeq(p \o SubSeq(f, 1, m), HeaderLen + 1, Len(p) + m) = SubSeq(f, HeaderLen + 1 - Len(p), m)
<1> DEFINE t == SubSeq(f, 1, m)
           l == Len(p)
           h == HeaderLen
<1>0. l \in Nat /\ h \in Nat \ {0} /\ f \in Seq(Unit) /\ Len(f) \in Nat
  BY LenProperties, HeaderAssumption, FilesAssumption, EmptySeq
<1>1. t \in Seq(Unit) /\ Len(t) = m
  <2>1. 1 \in Nat \ {0} /\ 1 <= m + 1 /\ 0 \in Nat /\ m + 0 <= Len(f) /\ m - 1 + 1 = m
    BY <1>0
  <2>2. t \in Seq(Unit) /\ Len(t) = m - 1 + 1
    BY <2>1, PiecesMeet
  <2> QED BY <2>1, <2>2
<1>2. CASE h + 1 <= l + m
  <2>1. h + 1 \in Len(p) + 1..Len(p) + Len(t) /\ l + m \in Len(p) + 1..Len(p) + Len(t)
    BY <1>0, <1>1, <1>2
  <2> HIDE DEF t
  <2>2. SubSeq(p \o t, h + 1, l + m) = SubSeq(t, (h + 1) - Len(p), (l + m) - Len(p))
    BY <1>1, <2>1, SubSeqOfConcat2, ZenonT(40)
  <2>3. /\ 1 \in 1..Len(f) /\ m \in 1..Len(f)
        /\ h + 1 - l \in 1..m - 1 + 1 /\ m \in 1..m - 1 + 1
        /\ 1 + (h + 1 - l) - 1 = h + 1 - l /\ 1 + m - 1 = m /\ (l + m) - Len(p) = m
    BY <1>0, <1>2
  <2>4. SubSeq(SubSeq(f, 1, m), h + 1 - l, m) = SubSeq(f, 1 + (h + 1 - l) - 1, 1 + m - 1)
    BY <1>0, <2>3, SubSeqOfSubSeq
  <2>5. SubSeq(t, h + 1 - l, m) = SubSeq(f, h + 1 - l, m)
    BY <2>3, <2>4 DEF t
  <2>6. SubSeq(p \o t, h + 1, l + m) = SubSeq(t, h + 1 - l, m)
    <3>1. (h + 1) - Len(p) = h + 1 - l /\ (l + m) - Len(p) = m
      BY <1>0
    <3> HIDE DEF l, h
    <3> QED BY <2>2, <3>1
  <2> QED BY <2>5, <2>6, Zenon DEF t
<1>3. CASE l + m < h + 1
  <2>1. m < h + 1 - l /\ h + 1 \in Int /\ l + m \in Int /\ h + 1 - l \in Int
    BY <1>0, <1>3
  <2> QED BY <1>3, <2>1, SubSeqEmpty
<1>4. h + 1 <= l + m \/ l + m < h + 1
  BY <1>0
<1> QED BY <1>2, <1>3, <1>4, Zenon

\* Of a later download the file is behind something as soon as its reply is there.
LEMMA TrailingReply ==
  ASSUME Base, BufferSafe, Flow, Begun, NEW c \in Conns, NEW f \in Files, NEW known \in BOOLEAN,
         HeadersDone(c, f, known)
  PROVE  Begun' /\ Trailing'
<1>0. /\ conn[c] = "connecting" /\ UNCHANGED <<recvVars, got, unacked>>
      /\ conn' = [conn EXCEPT ![c] = "body"] /\ file' = [file EXCEPT ![c] = f]
  BY DEF HeadersDone, Replied, Ready
<1>1. Consumed' = Consumed /\ Begun'
  BY <1>0 DEF Consumed, Begun, recvVars
<1>2. ASSUME NEW e \in Conns, Later(e)' PROVE Behind(e)'
  <2>1. \A d \in Conns : d # c => conn[d] # "body"
    BY <1>0 DEF Flow, OneOpen, Open
  <2>2. e = c /\ file'[c] = f /\ got'[c] = 0
    BY <1>0, <1>2, <2>1 DEF Later, Base, TypeOK, Fresh
  <2>3. otaBuffer # "live"
    BY <1>0, <2>1 DEF Flow, Fed
  <2>4. otaCtx' = <<>>
    BY <1>2, <2>3 DEF HeadersDone, HeadersFit, HeadersAbort, Later
  <2>5. SubSeq(f, 1, 0) = <<>> /\ buf \in Seq(Unit) /\ Consumed # {}
    BY <1>1, <1>2, SubSeqEmpty DEF Later, Base, TypeOK
  <2>6. buf = buf \o <<>> /\ <<>> \o buf = buf \o <<>>
    BY <2>5, ConcatEmptySeq
  <2>7. CASE otaHeader
    <3>1. buf # <<>>
      BY <2>5, <2>7 DEF Begun
    <3>2. BehindHead(c)'
      BY <1>0, <2>2, <2>5, <2>6, <3>1 DEF BehindHead, recvVars
    <3> QED BY <1>0, <2>2, <2>7, <3>2 DEF Behind, recvVars
  <2>8. CASE ~otaHeader
    <3>1. Len(buf) < MaxChunk
      BY <2>8 DEF BufferSafe
    <3>2. BehindRest(c)'
      BY <1>0, <2>2, <2>4, <2>5, <2>6, <3>1 DEF BehindRest, recvVars
    <3> QED BY <1>0, <2>2, <2>8, <3>2 DEF Behind, recvVars
  <2> QED BY <2>7, <2>8
<1> QED BY <1>1, <1>2 DEF Trailing

\* What the units of a later download make of buffer and hash.
LEMMA TrailingFilled ==
  ASSUME Base, NEW c \in Conns, Behind(c), NEW n \in 1..MaxChunk, got[c] + n <= Len(file[c])
  PROVE  LET full == Filled(c, n) IN
         /\ otaHeader => \E p \in Seq(Unit) : p # <<>> /\ full = p \o SubSeq(file[c], 1, got[c] + n)
                                              /\ Len(p) <= Len(buf)
         /\ ~otaHeader =>
              \/ \E p \in Seq(Unit) : Len(p) < MaxChunk /\ otaCtx \o full = p \o SubSeq(file[c], 1, got[c] + n)
              \/ \E j \in 1..HeaderLen : j <= got[c] + 1 /\ otaCtx \o full = SubSeq(file[c], j, got[c] + n)
<1> DEFINE full == Filled(c, n)
           f == file[c]
           g == got[c]
           piece == SubSeq(f, g + 1, g + n)
<1>0. /\ f \in Files \cup {<<>>} /\ g \in Nat /\ n \in Nat /\ g + n <= Len(f)
      /\ buf \in Seq(Unit) /\ otaCtx \in Seq(Unit) /\ 1 \in 1..HeaderLen /\ 1 <= g + 1
  BY ChunkAssumption, HeaderAssumption DEF Base, TypeOK
<1>1. piece \in Seq(Unit) /\ full = buf \o piece
  BY <1>0, PieceOfFile DEF Filled
<1> HIDE DEF full, piece
<1>2. otaCtx \o full = (otaCtx \o buf) \o piece
  <2>1. otaCtx \in Seq(Unit) /\ buf \in Seq(Unit) /\ piece \in Seq(Unit)
    BY <1>0, <1>1
  <2>2. (otaCtx \o buf) \o piece = otaCtx \o (buf \o piece)
    BY ONLY <2>1, ConcatAssociative, SMTT(30)
  <2> QED BY <1>1, <2>2, Zenon
<1> HIDE DEF f, g
<1>3. ASSUME NEW p \in Seq(Unit)
      PROVE  (p \o SubSeq(f, 1, g)) \o piece = p \o SubSeq(f, 1, g + n)
  BY <1>0, <1>3, MoreBehind, Zenon DEF piece
<1>4. CASE otaHeader
  <2>1. PICK p \in Seq(Unit) : p # <<>> /\ buf = p \o SubSeq(f, 1, g)
    BY <1>4 DEF Behind, BehindHead, f, g
  <2>2. full = p \o SubSeq(f, 1, g + n)
    BY <1>1, <1>3, <2>1
  <2>3. Len(p) <= Len(buf)
    <3>1. SubSeq(f, 1, g + 0) \in Seq(Unit) /\ g + 0 = g
      <4>1. 0 \in Nat /\ 1 \in Nat \ {0} /\ Len(f) \in Nat /\ g + 0 <= Len(f) /\ g + 0 = g
        BY <1>0, FilesAssumption, EmptySeq, LenProperties
      <4> QED BY <1>0, <4>1, PiecesMeet
    <3> DEFINE s == SubSeq(f, 1, g)
    <3>2. s \in Seq(Unit) /\ buf = p \o s
      BY <2>1, <3>1
    <3> HIDE DEF s
    <3>3. Len(buf) = Len(p) + Len(s) /\ Len(s) \in Nat /\ Len(p) \in Nat
      BY <3>2, ConcatUnits, LenProperties
    <3> QED BY <3>3
  <2> QED BY <1>4, <2>1, <2>2, <2>3 DEF full, f, g
<1>5. CASE ~otaHeader
  <2>1. ASSUME NEW p \in Seq(Unit), Len(p) < MaxChunk, otaCtx \o buf = p \o SubSeq(f, 1, g)
        PROVE  otaCtx \o full = p \o SubSeq(f, 1, g + n)
    <3>1. (otaCtx \o buf) \o piece = p \o SubSeq(f, 1, g + n)
      BY <1>3, <2>1
    <3> QED BY <1>2, <3>1, Zenon
  <2>2. ASSUME NEW j \in 1..HeaderLen, j <= g + 1, otaCtx \o buf = SubSeq(f, j, g)
        PROVE  otaCtx \o full = SubSeq(f, j, g + n)
    <3>1. j \in Nat \ {0}
      BY HeaderAssumption
    <3>2. SubSeq(f, j, g) \o SubSeq(f, g + 1, g + n) = SubSeq(f, j, g + n)
      BY <1>0, <2>2, <3>1, PiecesMeet
    <3> QED BY <1>2, <2>2, <3>2 DEF piece
  <2>3. \/ \E p \in Seq(Unit) : Len(p) < MaxChunk /\ otaCtx \o buf = p \o SubSeq(f, 1, g)
        \/ \E j \in 1..HeaderLen : j <= g + 1 /\ otaCtx \o buf = SubSeq(f, j, g)
    BY <1>5 DEF Behind, BehindRest, f, g
  <2>4. \/ \E p \in Seq(Unit) : Len(p) < MaxChunk /\ otaCtx \o full = p \o SubSeq(f, 1, g + n)
        \/ \E j \in 1..HeaderLen : j <= g + 1 /\ otaCtx \o full = SubSeq(f, j, g + n)
    BY <2>1, <2>2, <2>3
  <2> QED BY <1>5, <2>4 DEF full, f, g
<1> QED BY <1>4, <1>5

\* The receive callback acknowledges what it uses, and nothing else.
LEMMA ConsumedNext ==
  ASSUME TypeOK, NEW c \in Conns, NEW n \in 1..MaxChunk, NEW a \in BOOLEAN, Deliver(c, n, a)
  PROVE  /\ \A d \in Conns : d # c => (d \in Consumed' <=> d \in Consumed)
         /\ a = FALSE => Consumed' = Consumed
<1>1. /\ got \in [Conns -> Nat] /\ unacked \in [Conns -> Nat] /\ n \in Nat
      /\ got' = [got EXCEPT ![c] = got[c] + n]
      /\ unacked' = [unacked EXCEPT ![c] = IF a THEN unacked[c] ELSE unacked[c] + n]
  BY ChunkAssumption DEF TypeOK, Deliver
<1>2. \A d \in Conns : d # c => (d \in Consumed' <=> d \in Consumed)
  BY <1>1 DEF Consumed
<1>3. a = FALSE => (c \in Consumed' <=> c \in Consumed)
  BY <1>1 DEF Consumed
<1>4. Consumed' \subseteq Conns /\ Consumed \subseteq Conns
  BY DEF Consumed
<1> QED BY <1>2, <1>3, <1>4

\* A later download completes a header that began in an earlier one, or not yet.
LEMMA TrailingHeader ==
  ASSUME Base, TypeOK', BufferSafe, Flow, NEW c \in Conns, Behind(c), NEW n \in 1..MaxChunk,
         recvAt = "idle", otaBuffer = "live", otaHeader, got[c] + n <= Len(file[c]),
         RecvHeader(Filled(c, n)), Deliver(c, n, TRUE)
  PROVE  Behind(c)'
<1> DEFINE full == Filled(c, n)
           f == file[c]
           m == got[c] + n
<1>0. /\ f \in Files \cup {<<>>} /\ m \in Nat /\ m <= Len(f)
      /\ full \in Seq(Unit) /\ Len(full) = Len(buf) + n /\ Len(buf) \in Nat /\ n \in Nat
      /\ got'[c] = m /\ file' = file /\ otaCtx' = otaCtx
  <2>1. /\ f \in Files \cup {<<>>} /\ m \in Nat /\ m <= Len(f)
    BY ChunkAssumption, SMTT(30) DEF Base, TypeOK
  <2>2. full \in Seq(Unit) /\ Len(full) = Len(buf) + n /\ Len(buf) \in Nat /\ n \in Nat
    BY FilledBuffer DEF Base
  <2>3. got'[c] = m /\ file' = file
    BY Delivered DEF Base
  <2>4. otaCtx' = otaCtx
    BY DEF RecvHeader, dlVars
  <2> HIDE DEF full, m, f
  <2> QED BY <2>1, <2>2, <2>3, <2>4
<1>1. PICK p \in Seq(Unit) : p # <<>> /\ full = p \o SubSeq(f, 1, m) /\ Len(p) <= Len(buf)
  BY TrailingFilled
<1>2. RecvHeader(full)
  OBVIOUS
<1> HIDE DEF full
<1>3. CASE /\ Len(full) >= HeaderLen /\ ~otaHeader'
           /\ buf' = SubSeq(full, HeaderLen + 1, Len(full))
  <2>1. Len(p) \in Nat \ {0} /\ Len(p) < HeaderLen /\ HeaderLen \in Nat \ {0}
    BY <1>0, <1>1, EmptySeq, LenProperties, HeaderAssumption DEF BufferSafe
  <2> DEFINE j == HeaderLen + 1 - Len(p)
  <2>2. Len(full) = Len(p) + m
    <3> HIDE DEF m, f
    <3>1. SubSeq(f, 1, m) \in Seq(Unit) /\ Len(SubSeq(f, 1, m)) = m
      <4>1. 1 \in Nat \ {0} /\ 1 <= m + 1 /\ 0 \in Nat /\ m + 0 <= Len(f) /\ m - 1 + 1 = m
        BY <1>0, FilesAssumption, EmptySeq, LenProperties
      <4>2. SubSeq(f, 1, m) \in Seq(Unit) /\ Len(SubSeq(f, 1, m)) = m - 1 + 1
        BY <1>0, <4>1, PiecesMeet
      <4> QED BY <4>1, <4>2
    <3> QED BY <1>1, <3>1, ConcatUnits
  <2> HIDE DEF m, f
  <2>3. j \in 1..HeaderLen /\ j <= m + 1
    <3> DEFINE l == Len(p)
               h == HeaderLen
    <3>1. l \in Nat \ {0} /\ l < h /\ h \in Nat \ {0} /\ m \in Nat /\ l + m >= h
      BY <1>0, <1>3, <2>1, <2>2
    <3>2. j = h + 1 - l
      OBVIOUS
    <3> HIDE DEF l, h, j
    <3>3. j \in 1..h /\ j <= m + 1
      BY <3>1, <3>2
    <3> QED BY <3>3 DEF h
  <2>4. buf' = SubSeq(f, j, m)
    <3>1. Len(p) <= HeaderLen /\ HeaderLen <= Len(p) + m
      BY <1>0, <1>3, <2>1, <2>2
    <3>2. SubSeq(p \o SubSeq(f, 1, m), HeaderLen + 1, Len(p) + m) = SubSeq(f, HeaderLen + 1 - Len(p), m)
      BY <1>0, <3>1, TailBehind
    <3> QED BY <1>1, <1>3, <2>2, <3>2, Zenon
  <2>5. otaCtx = <<>>
    <3>1. flashOffset = 0
      BY DEF Base, HeaderRead
    <3>2. InSync
      BY <3>1 DEF Flow, Staged, Shifted
    <3> QED BY <3>1, <3>2, EmptySeq DEF InSync, Base, TypeOK
  <2>6. otaCtx' \o buf' = buf'
    <3>1. buf' \in Seq(Unit)
      BY DEF TypeOK
    <3> QED BY <1>0, <2>5, <3>1, ConcatEmptySeq
  <2> HIDE DEF j
  <2>7. BehindRest(c)'
    BY <1>0, <2>3, <2>4, <2>6 DEF BehindRest, f
  <2> QED BY <1>3, <2>7 DEF Behind
<1>4. CASE buf' = full /\ otaHeader' = otaHeader
  BY <1>0, <1>1, <1>4 DEF Behind, BehindHead
<1> QED BY <1>0, <1>2, <1>3, <1>4, HeaderSplit

\* More of a later download is hashed.
LEMMA TrailingBody ==
  ASSUME Base, NEW c \in Conns, Behind(c), NEW n \in 1..MaxChunk,
         ~otaHeader, got[c] + n <= Len(file[c]), RecvBody(c, n, Filled(c, n))
  PROVE  Behind(c)'
<1> DEFINE full == Filled(c, n)
           g == got[c]
<1>1. /\ otaCtx' = otaCtx \o full /\ buf' = <<>> /\ otaHeader' = otaHeader
      /\ file' = file /\ got'[c] = g + n
  BY Delivered DEF Base, RecvBody
<1>2. otaCtx' \o buf' = otaCtx \o full
  <2>1. full \in Seq(Unit) /\ otaCtx \in Seq(Unit)
    BY FilledBuffer DEF Base, TypeOK
  <2> HIDE DEF full
  <2> QED BY <1>1, <2>1, ConcatUnits, ConcatEmptySeq
<1>3. \/ \E p \in Seq(Unit) : Len(p) < MaxChunk /\ otaCtx \o full = p \o SubSeq(file[c], 1, g + n)
      \/ \E j \in 1..HeaderLen : j <= g + 1 /\ otaCtx \o full = SubSeq(file[c], j, g + n)
  BY TrailingFilled
<1>4. \A j \in 1..HeaderLen : j <= g + 1 => j <= (g + n) + 1
  BY HeaderAssumption, ChunkAssumption DEF Base, TypeOK
<1> HIDE DEF full, g
<1> QED BY <1>1, <1>2, <1>3, <1>4 DEF Behind, BehindRest

\* The receive callback.
LEMMA TrailingRecv ==
  ASSUME Base, TypeOK', BufferSafe, Flow, Begun, Trailing,
         NEW c \in Conns, NEW n \in 1..MaxChunk, Recv(c, n)
  PROVE  Begun' /\ Trailing'
<1> DEFINE full == Filled(c, n)
<1>0. /\ conn[c] = "body" /\ got[c] + n <= Len(file[c]) /\ full \in Seq(Unit)
      /\ Len(full) = Len(buf) + n /\ Len(buf) \in Nat /\ n \in Nat \ {0} /\ recvAt = "idle"
  BY FilledBuffer, ChunkAssumption DEF Recv, Arrives, Ready, Base
<1>1. CASE /\ otaBuffer = "null" /\ Deliver(c, n, FALSE)
           /\ UNCHANGED <<flashVars, boots, taskVars, recvVars, dlVars, fault>>
  <2>1. Consumed' = Consumed
    BY <1>1, ConsumedNext DEF Base
  <2> QED BY <1>1, <2>1 DEF Begun, Trailing, Later, recvVars, dlVars
<1>2. ASSUME NEW kind \in {"buffer", "overflow", "handle", "partition"}, Lost(kind)
      PROVE  Begun' /\ Trailing'
  BY <1>2 DEF Lost, recvVars, dlVars, connVars, Begun, Trailing, Later, Behind, BehindHead,
              BehindRest, Consumed
<1>3. ASSUME Deliver(c, n, TRUE), otaBuffer = "live", otaBuffer' = otaBuffer,
             Behind(c) => Behind(c)'
      PROVE  Trailing'
  <2> SUFFICES ASSUME NEW e \in Conns, Later(e)' PROVE Behind(e)'
    BY DEF Trailing
  <2>1. e = c
    BY <1>0, <1>3, Delivered DEF Later, Base, Flow, OneOpen, Open
  <2>2. Later(c)
    BY <1>0, <1>3, <2>1, ConsumedNext DEF Later, Base, Consumed
  <2> QED BY <1>3, <2>1, <2>2 DEF Trailing
<1>4. CASE otaBuffer = "live" /\ otaHeader /\ RecvHeader(full) /\ Deliver(c, n, TRUE)
  <2>1. otaBuffer' = otaBuffer
    BY <1>4 DEF RecvHeader, dlVars
  <2>2. Behind(c) => Behind(c)'
    BY <1>0, <1>4, TrailingHeader
  <2>3. Begun'
    <3>1. full # <<>>
      <4> HIDE DEF full
      <4> QED BY <1>0, EmptySeq
    <3> HIDE DEF full
    <3> QED BY <1>0, <1>4, <3>1, HeaderSplit DEF Begun
  <2> QED BY <1>3, <1>4, <2>1, <2>2, <2>3
<1>5. CASE otaBuffer = "live" /\ ~otaHeader /\ RecvBody(c, n, full)
  <2>1. Deliver(c, n, TRUE) /\ otaBuffer' = otaBuffer /\ otaHeader' = otaHeader
    BY <1>5 DEF RecvBody
  <2>2. Behind(c) => Behind(c)'
    BY <1>0, <1>5, TrailingBody
  <2>3. Begun'
    BY <1>5, <2>1 DEF Begun
  <2> QED BY <1>3, <1>5, <2>1, <2>2, <2>3
<1> HIDE DEF full
<1> QED BY <1>1, <1>2, <1>4, <1>5, RecvSplit DEF Base, full

\* A later download completes no image.
LEMMA NoLateInstall ==
  ASSUME Marked, Base, Trailing, NEW c \in Conns, NEW n \in 1..MaxChunk, Recv(c, n),
         Complete(Filled(c, n)), otaBuffer = "live", ~otaHeader, NEW d \in Consumed, d # c
  PROVE  FALSE
<1> DEFINE full == Filled(c, n)
           m == got[c] + n
<1>1. /\ conn[c] = "body" /\ got[c] + n <= Len(file[c])
      /\ otaCtx \o full = otaSha256Img
  BY DEF Recv, Arrives, Complete
<1>3. Behind(c)
  BY <1>1 DEF Trailing, Later
<1>4. Authentic(otaCtx \o full)
  BY <1>1 DEF Authentic, Base, HeaderRead
<1>5. /\ \/ \E p \in Seq(Unit) : Len(p) < MaxChunk /\ otaCtx \o full = p \o SubSeq(file[c], 1, m)
         \/ \E j \in 1..HeaderLen : j <= got[c] + 1 /\ otaCtx \o full = SubSeq(file[c], j, m)
  BY <1>1, <1>3, TrailingFilled
<1>6. file[c] \in Files /\ m \in 1..Len(file[c]) /\ \A j \in 1..HeaderLen : j <= got[c] + 1 => j <= m
  <2>1. file[c] \in Files \cup {<<>>} /\ got[c] \in Nat /\ n \in Nat \ {0} /\ HeaderLen \in Nat
    BY ChunkAssumption, HeaderAssumption DEF Base, TypeOK
  <2>2. Len(file[c]) \in Nat
    BY <2>1, FilesAssumption, EmptySeq, LenProperties
  <2>3. file[c] # <<>>
    BY <1>1, <2>1, EmptySeq
  <2> QED BY <1>1, <2>1, <2>2, <2>3
<1> HIDE DEF full, m
<1> QED BY <1>4, <1>5, <1>6 DEF Marked

\* Nor does one that another preceded get to the table.
LEMMA SettledRecv ==
  ASSUME Marked, Base, Trailing, NEW c \in Conns, NEW n \in 1..MaxChunk, Recv(c, n)
  PROVE  Settled'
<1> DEFINE full == Filled(c, n)
<1>1. ASSUME NEW x, recvAt' = x, x # "switch" PROVE Settled'
  BY <1>1 DEF Settled
<1>2. CASE otaBuffer = "live" /\ ~otaHeader /\ RecvBody(c, n, full) /\ Complete(full)
  <2>1. Consumed \subseteq {c}
    BY <1>2, NoLateInstall
  <2>2. \A d \in Conns : d # c => (d \in Consumed' <=> d \in Consumed)
    BY <1>2, ConsumedNext DEF RecvBody, Base
  <2>3. Consumed' \subseteq {c}
    BY <2>1, <2>2 DEF Consumed
  <2> QED BY <2>3 DEF Settled
<1>3. recvAt = "idle"
  BY DEF Recv, Arrives, Ready
<1>4. CASE RecvBody(c, n, full) /\ ~Complete(full)
  <2>1. recvAt' = "idle"
    BY <1>4 DEF RecvBody
  <2> QED BY <1>1, <2>1
<1>5. CASE UNCHANGED recvAt
  BY <1>1, <1>3, <1>5
<1> HIDE DEF full
<1>6. \/ UNCHANGED recvAt
      \/ otaBuffer = "live" /\ ~otaHeader /\ RecvBody(c, n, full)
  <2>1. \A kind : Lost(kind) => UNCHANGED recvAt
    BY DEF Lost, recvVars
  <2>2. RecvHeader(full) \/ UNCHANGED recvVars => UNCHANGED recvAt
    BY DEF RecvHeader, recvVars
  <2> QED BY <2>1, <2>2, RecvSplit DEF Base, full
<1> QED BY <1>2, <1>4, <1>5, <1>6

\* Every step of a boot in which all downloads fit keeps the second behind the first.
LEMMA RetryNext ==
  Marked /\ Base /\ TypeOK' /\ BufferSafe /\ RetryInv /\ [Next]_vars => RetryInv'
<1> SUFFICES ASSUME Marked, Base, TypeOK', BufferSafe, RetryInv, [Next]_vars, ~Reboot, AllFit'
             PROVE  Flow' /\ Begun' /\ Trailing' /\ Settled'
  BY RetryReboot DEF RetryInv
<1>1. \A c \in Conns : OtaCmd(c) => UNCHANGED <<aborted, recvVars, dlVars, got, unacked, file>>
  BY DEF OtaCmd
<1>2. \A c \in Conns : Result(c) => UNCHANGED <<aborted, recvVars, otaCtx, got, unacked, file>>
  BY DEF Result
<1>3. ASSUME NEW c \in Conns, NEW n \in 1..MaxChunk, Recv(c, n)
      PROVE  aborted' = aborted
  <2>2. \A a \in BOOLEAN : Deliver(c, n, a) => aborted' = aborted
    BY DEF Deliver
  <2>3. \A kind : Lost(kind) => aborted' = aborted
    BY DEF Lost, connVars
  <2>4. RecvBody(c, n, Filled(c, n)) => aborted' = aborted
    BY DEF RecvBody, Deliver
  <2> QED BY <1>3, <2>2, <2>3, <2>4, RecvSplit DEF Base
<1>4. AllFit
  <2>1. ASSUME NEW c \in Conns, NEW f \in Files, NEW known \in BOOLEAN, HeadersDone(c, f, known)
        PROVE  AllFit
    <3>1. conn[c] = "connecting" /\ \E t \in BOOLEAN : aborted' = [aborted EXCEPT ![c] = t]
      BY <2>1 DEF HeadersDone, Replied
    <3> QED BY <3>1 DEF AllFit, Base, Fresh, TypeOK
  <2>2. Task \/ UpdateTable \/ UNCHANGED vars => aborted' = aborted
    BY DEF Task, CmdTake, CmdDelete, UpdateTable, vars, connVars
  <2>3. ~PowerLoss /\ ~Reset
    BY DEF PowerLoss, Reset
  <2> QED BY <1>1, <1>2, <1>3, <2>1, <2>2, <2>3 DEF AllFit, Next, Callback, Switch
<1>5. Orderly /\ Orderly'
  <2>1. \A d \in Conns : Headed(file[d])
    BY MarkedHeaded DEF Base, TypeOK
  <2>2. \A d \in Conns : Headed(file'[d])
    BY MarkedHeaded DEF TypeOK
  <2>3. Used \subseteq Conns /\ Used' \subseteq Conns
    BY DEF Used
  <2> QED BY <1>4, <2>1, <2>2, <2>3 DEF Orderly, AllFit
<1>6. Flow /\ Begun /\ Trailing /\ Settled
  BY <1>4 DEF RetryInv
<1>7. Flow'
  BY <1>5, <1>6, FlowNext
<1>a. ASSUME UNCHANGED <<recvAt, got, unacked>> PROVE Settled'
  <2>1. Consumed' = Consumed
    BY <1>a DEF Consumed
  <2> QED BY <1>6, <1>a, <2>1 DEF Settled
<1>b. ASSUME UNCHANGED <<buf, otaHeader, otaBuffer, otaCtx, connVars>> PROVE Begun' /\ Trailing'
  <2>1. Consumed' = Consumed
    BY <1>b DEF Consumed, connVars
  <2>2. \A c \in Conns : Behind(c)' <=> Behind(c)
    BY <1>b DEF Behind, BehindHead, BehindRest, connVars
  <2>3. \A c \in Conns : Later(c)' <=> Later(c)
    BY <1>b, <2>1 DEF Later, connVars
  <2> QED BY <1>6, <1>b, <2>1, <2>2, <2>3 DEF Begun, Trailing
<1>8. ASSUME NEW c \in Conns, OtaCmd(c) PROVE Begun' /\ Trailing' /\ Settled'
  <2>1. /\ conn[c] = "none" /\ UNCHANGED <<recvVars, dlVars, got, unacked, file>>
        /\ \E st \in {"connecting", "closed"} : conn' = [conn EXCEPT ![c] = st]
    BY <1>8 DEF OtaCmd
  <2>2. Consumed' = Consumed
    BY <2>1 DEF Consumed
  <2>3. \A e \in Conns : conn'[e] = "body" => conn[e] = "body"
    BY <2>1 DEF Base, TypeOK
  <2>4. Begun' /\ Trailing'
    BY <1>6, <2>1, <2>2, <2>3 DEF Begun, Trailing, Later, Behind, BehindHead, BehindRest,
                                  recvVars, dlVars
  <2> QED BY <1>a, <2>1, <2>4 DEF recvVars
<1>9. ASSUME NEW c \in Conns, Result(c) PROVE Begun' /\ Trailing' /\ Settled'
  <2>1. UNCHANGED <<recvVars, got, unacked>> /\ conn[c] \in Open /\ conn' = [conn EXCEPT ![c] = "closed"]
    BY <1>9 DEF Result
  <2>2. Consumed' = Consumed
    BY <2>1 DEF Consumed
  <2>3. \A e \in Conns : conn'[e] # "body"
    BY <1>6, <2>1 DEF Flow, OneOpen, Open, Base, TypeOK
  <2>4. Begun' /\ Trailing'
    BY <1>6, <2>1, <2>2, <2>3 DEF Begun, Trailing, Later, recvVars
  <2> QED BY <1>a, <2>1, <2>4 DEF recvVars
<1>10. CASE Task \/ UNCHANGED vars
  <2>1. UNCHANGED <<recvVars, dlVars, connVars>>
    BY <1>10 DEF Task, CmdTake, CmdDelete, vars
  <2>2. Begun' /\ Trailing'
    BY <1>b, <2>1 DEF recvVars, dlVars
  <2> QED BY <1>7, <1>a, <2>1, <2>2 DEF recvVars, connVars
<1>11. CASE UpdateTable
  <2>1. /\ recvAt' = "reboot"
        /\ UNCHANGED <<buf, otaHeader, flashOffset, otaSha256Img, dlVars, connVars>>
    BY <1>11 DEF UpdateTable
  <2>2. Begun' /\ Trailing'
    BY <1>b, <2>1 DEF dlVars
  <2> QED BY <1>7, <2>1, <2>2 DEF Settled
<1>12. ~PowerLoss /\ ~Reset
  BY DEF PowerLoss, Reset
<1>13. ASSUME NEW c \in Conns, NEW f \in Files, NEW known \in BOOLEAN, HeadersDone(c, f, known)
       PROVE  Settled'
  BY <1>a, <1>13 DEF HeadersDone, Replied, recvVars
<1>14. ASSUME NEW c \in Conns, Callback(c) PROVE Begun' /\ Trailing' /\ Settled'
  BY <1>6, <1>9, <1>13, <1>14, TrailingReply, TrailingRecv, SettledRecv DEF Callback
<1> QED BY <1>7, <1>8, <1>10, <1>11, <1>12, <1>14 DEF Next, Switch

\* When headers can be told from images, a boot in which all downloads fit installs
\* nothing once two downloads have fed the buffer: otaHeader and what otaBuffer holds
\* are not reset between commands (cb_altcp_recv_fn), so that the second is taken out of
\* step with its own header, for every way in which the first can end.
THEOREM RetriesInstallNothing == ASSUME Marked PROVE Spec => NoInstallOnRetry
<1> DEFINE Quiet == Cardinality(Consumed) > 1 /\ AllFit => active' = active
<1>1. Init => RetryInv
  <2> SUFFICES ASSUME Init PROVE RetryInv
    OBVIOUS
  <2>1. Consumed = {}
    BY DEF Init, RamInit, Consumed
  <2>2. Settled
    BY <2>1 DEF Settled
  <2> QED BY <2>1, <2>2, FlowInit DEF RetryInv, Begun, Trailing, Later
<1>2. Base /\ TypeOK' /\ BufferSafe /\ RetryInv /\ [Next]_vars => RetryInv'
  BY RetryNext
<1>3. Base /\ RetryInv /\ [Next]_vars => [Quiet]_vars
  <2> SUFFICES ASSUME Base, RetryInv, [Next]_vars, Cardinality(Consumed) > 1, AllFit,
                      active' # active
               PROVE  FALSE
    OBVIOUS
  <2>1. CASE UpdateTable
    <3>1. \A d, e \in Consumed : d = e
      BY <2>1 DEF RetryInv, Settled, UpdateTable
    <3>2. Consumed = {} \/ \E d \in Consumed : Consumed = {d}
      BY <3>1
    <3>3. Cardinality(Consumed) \in {0, 1}
      BY <3>2, FS_EmptySet, FS_Singleton
    <3> QED BY <3>3
  <2>2. ASSUME NEW c \in Conns, NEW n \in 1..MaxChunk, Recv(c, n) PROVE FALSE
    <3>1. \A kind : ~Lost(kind)
      BY DEF Lost, flashVars
    <3>2. ~RecvHeader(Filled(c, n)) /\ ~RecvBody(c, n, Filled(c, n)) /\ ~UNCHANGED flashVars
      BY DEF RecvHeader, RecvBody, flashVars
    <3> QED BY <2>2, <3>1, <3>2, RecvSplit, Zenon DEF Base
  <2>3. \A c \in Conns : ~OtaCmd(c) /\ ~Result(c)
    BY DEF OtaCmd, Result, flashVars
  <2>4. \A c \in Conns, f \in Files, known \in BOOLEAN : ~HeadersDone(c, f, known)
    BY DEF HeadersDone
  <2>5. ~Task /\ ~PowerLoss /\ ~Reset /\ ~UNCHANGED vars
    BY DEF Task, CmdTake, CmdDelete, PowerLoss, Reset, flashVars, vars
  <2> QED BY <2>1, <2>2, <2>3, <2>4, <2>5 DEF Next, Callback, Switch
<1>4. Spec => []Base
  BY SoleAlways, PTL
<1>5. Base => TypeOK
  BY DEF Base
<1>6. Spec => [][Quiet]_vars
  BY <1>1, <1>2, <1>3, <1>4, <1>5, BufferIsSafe, PTL DEF Spec
<1>7. [Quiet]_vars => [Cardinality(Consumed) > 1 /\ (\A c \in Conns : ~aborted[c]) => active' = active]_vars
  BY DEF AllFit
<1> QED BY <1>6, <1>7, PTL DEF NoInstallOnRetry
=============================================================================
