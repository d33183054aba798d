------------------------------ MODULE HttpOta ------------------------------
(***************************************************************************)
(* The over-the-air update of system/ota/demo_ota: the CLI command         *)
(* ota_http_cmd starts an HTTP download and blocks on a semaphore; the     *)
(* callbacks of lwIP's HTTP client run in the TCP/IP thread, strip the     *)
(* 512-byte OTA header, hash and write the body to the firmware partition  *)
(* that is not running, compare the hash with the one in the header,       *)
(* switch the partition table and reboot.  The last data write, the write  *)
(* of the table and the reboot are steps of their own: power may be lost   *)
(* between them and inside a write, and the table write may fail.          *)
(*                                                                         *)
(* Data is counted in units (a fraction of the OTA header): a file is a    *)
(* sequence of units, the first HeaderLen of them the OTA header.  SHA-256 *)
(* is taken to be free of collisions, so a digest is represented by the    *)
(* sequence that was hashed.  The C statics of cb_altcp_recv_fn survive    *)
(* from one command to the next and are reset by a reboot only.            *)
(***************************************************************************)
EXTENDS Naturals, Sequences, FiniteSets

CONSTANTS
  Unit,         \* the units files are made of
  Erased,       \* what an erased flash cell reads
  NoDigest,     \* otaSha256Img before any header was read
  Files,        \* files the server may serve: a set of sequences of units
  Claim,        \* Claim[u]: the digest read from a header that starts with u
  HeaderLen,    \* OTA_HEADER_SIZE, 512 bytes
  BufSize,      \* OTA_BUFFER_SIZE, 4096 bytes
  PartLen,      \* maxLen of a firmware partition
  MaxChunk,     \* the most that one receive callback delivers
  Window,       \* TCP receive window: what may arrive without altcp_recved
  Conns,        \* connections (commands) of one boot, a bound
  MaxBoots,     \* number of boots, a bound
  RetryBoots    \* boots in which the command is given more than once, a bound

ASSUME HeaderAssumption == HeaderLen \in Nat \ {0}
ASSUME ChunkAssumption == MaxChunk \in Nat \ {0}
\* A whole segment fits into the receive window.
ASSUME WindowAssumption == Window \in Nat /\ MaxChunk <= Window
ASSUME PartAssumption == PartLen \in Nat
ASSUME BootsAssumption == MaxBoots \in Nat
ASSUME FilesAssumption == Files \subseteq Seq(Unit)
ASSUME ClaimAssumption == Claim \in [Unit -> Seq(Unit) \cup {NoDigest}]
ASSUME ErasedAssumption == Erased \notin Unit

\* otaBuffer takes what was left before and a whole chunk on top of it.
ASSUME BufAssumption ==
  /\ BufSize \in Nat
  /\ HeaderLen - 1 + MaxChunk <= BufSize
  /\ 2 * MaxChunk - 1 <= BufSize

VARIABLES
  \* persistent: survives a reboot
  flash,       \* the two firmware slots
  active,      \* activeIndex of the partition table
  bootLen,     \* len of the active entry
  degraded,    \* a flash operation failed; its return code is not looked at
  boots,       \* number of boots so far
  \* the CLI task
  cli,         \* "idle", "waiting" in xSemaphoreTake, "taken" before delete
  otaSema,     \* "none" (not created, or deleted), "empty" or "full"
  \* statics of bl_http_ota.c
  otaHandle,   \* "null", "open" or "closed" (freed, pointer kept)
  otaBuffer,   \* "null", "live" or "freed" (freed, pointer kept)
  buf,         \* the units in otaBuffer; otaOffset is its length
  otaHeader,   \* the OTA header is still to be read
  flashOffset,
  otaTotalLength,
  otaCtx,      \* what was hashed since utils_sha256_starts
  otaSha256Img,
  recvAt,      \* where cb_altcp_recv_fn is: "idle" (not running), "switch"
               \* (about to write the table) or "reboot" (about to reset)
  \* the HTTP client
  conn,        \* conn[c]: "none", "connecting", "body" or "closed"
  file,        \* file[c]: the file that connection c transfers
  got,         \* got[c]: units of it handed to cb_altcp_recv_fn
  unacked,     \* unacked[c]: those the callback did not acknowledge
  aborted,     \* aborted[c]: the download was let go as too large
  fault        \* misuse of memory or flash: nothing is known afterwards

flashVars == <<flash, active, bootLen, degraded>>
taskVars == <<cli, otaSema>>
recvVars == <<buf, otaHeader, flashOffset, otaSha256Img, recvAt>>
dlVars == <<otaHandle, otaBuffer, otaTotalLength, otaCtx>>
connVars == <<conn, file, got, unacked, aborted>>
vars == <<flashVars, boots, taskVars, recvVars, dlVars, connVars, fault>>

Slots == {0, 1}
Standby == 1 - active
Blank == [i \in 1..PartLen |-> Erased]
Body(f) == SubSeq(f, HeaderLen + 1, Len(f))

\* An image some header vouches for, and a file whose header vouches for its body.
Authentic(s) == \E u \in Unit : Claim[u] = s
Good(f) == Len(f) >= HeaderLen /\ Claim[f[1]] = Body(f)

Open == {"connecting", "body"}
Used == {c \in Conns : conn[c] # "none"}

RamInit == /\ cli = "idle" /\ otaSema = "none"
           /\ otaHandle = "null" /\ otaBuffer = "null"
           /\ buf = <<>> /\ otaHeader = TRUE /\ flashOffset = 0
           /\ otaTotalLength = 0 /\ otaCtx = <<>> /\ otaSha256Img = NoDigest
           /\ recvAt = "idle"
           /\ conn = [c \in Conns |-> "none"] /\ file = [c \in Conns |-> <<>>]
           /\ got = [c \in Conns |-> 0] /\ unacked = [c \in Conns |-> 0]
           /\ aborted = [c \in Conns |-> FALSE]
           /\ fault = {}

Init == /\ flash = [s \in Slots |-> Blank]
        /\ active = 0 /\ bootLen = 0 /\ degraded = FALSE /\ boots = 1
        /\ RamInit

\* What a reboot does to the statics, the tasks and the connections.
Reboot == /\ boots' = boots + 1
          /\ cli' = "idle" /\ otaSema' = "none"
          /\ otaHandle' = "null" /\ otaBuffer' = "null"
          /\ buf' = <<>> /\ otaHeader' = TRUE /\ flashOffset' = 0
          /\ otaTotalLength' = 0 /\ otaCtx' = <<>> /\ otaSha256Img' = NoDigest
          /\ recvAt' = "idle"
          /\ conn' = [c \in Conns |-> "none"] /\ file' = [c \in Conns |-> <<>>]
          /\ got' = [c \in Conns |-> 0] /\ unacked' = [c \in Conns |-> 0]
          /\ aborted' = [c \in Conns |-> FALSE]
          /\ fault' = {}

Running == fault = {}

\* The TCP/IP thread is free for the next callback.
Ready == Running /\ recvAt = "idle"

(***************************************************************************)
(* The CLI task: ota_http_cmd.                                             *)
(***************************************************************************)

\* Create the semaphore and start the download; httpc_get_file_dns may fail
\* at once (no memory, bad name), and its result is not looked at.
OtaCmd(c) ==
  /\ Running /\ cli = "idle" /\ boots <= MaxBoots
  /\ conn[c] = "none" /\ \A d \in Conns : d < c => conn[d] # "none"
  /\ boots \in RetryBoots \/ Used = {}
  /\ cli' = "waiting" /\ otaSema' = "empty"
  /\ \E st \in {"connecting", "closed"} :
       conn' = [conn EXCEPT ![c] = st]
  /\ UNCHANGED <<file, got, unacked, aborted, flashVars, boots, recvVars, dlVars, fault>>

\* Mutant: the command waits for a bounded time.
CmdTakeTimeout == /\ Running /\ cli = "waiting"
                  /\ cli' = "taken" /\ otaSema' = "empty"
                  /\ UNCHANGED <<flashVars, boots, recvVars, dlVars, connVars, fault>>

CmdTake == /\ Running /\ cli = "waiting" /\ otaSema = "full"
           /\ cli' = "taken" /\ otaSema' = "empty"
           /\ UNCHANGED <<flashVars, boots, recvVars, dlVars, connVars, fault>>

CmdDelete == /\ Running /\ cli = "taken"
             /\ cli' = "idle" /\ otaSema' = "none"
             /\ UNCHANGED <<flashVars, boots, recvVars, dlVars, connVars, fault>>

\* Mutant: nobody is woken.
GiveNothing == UNCHANGED taskVars

\* xSemaphoreGive on the static handle, which may be stale.
Give == /\ otaSema' = IF otaSema = "none" THEN "none" ELSE "full"
        /\ UNCHANGED cli
GiveFault == IF otaSema = "none" THEN {"semaphore"} ELSE {}
CloseFault == IF otaHandle = "closed" THEN {"handle"} ELSE {}

(***************************************************************************)
(* The TCP/IP thread: the callbacks of the HTTP client.  Each is one step, *)
(* but for the receive callback that completes an image.                   *)
(***************************************************************************)

\* bl_mtd_erase_all on the partition that is not running.
Erase == \/ /\ flash' = [flash EXCEPT ![Standby] = Blank]
            /\ UNCHANGED degraded
         \/ degraded' = TRUE /\ UNCHANGED flash

\* otaTotalLength is compared with no length of a file: the reply had none.
NoLength == 0

\* The image fits: buffer and hash are prepared; pvPortMalloc may fail.
HeadersFit(total) ==
  /\ otaTotalLength' = total
  /\ otaHandle' = "open"
  /\ otaBuffer' \in {"live", "null"}
  /\ otaCtx' = <<>>
  /\ UNCHANGED <<taskVars, fault>>

\* The image does not fit: the waiting command is let go and the handle closed,
\* but the transfer goes on and its end will be reported.
HeadersAbort(total) ==
  /\ otaTotalLength' = total
  /\ otaHandle' = "closed"
  /\ Give /\ fault' = fault \cup GiveFault
  /\ UNCHANGED <<otaBuffer, otaCtx>>

Replied(c, f, tooLarge) ==
  /\ conn' = [conn EXCEPT ![c] = "body"]
  /\ file' = [file EXCEPT ![c] = f]
  /\ aborted' = [aborted EXCEPT ![c] = tooLarge]
  /\ UNCHANGED <<got, unacked>>

\* cb_httpc_headers_done_fn: the reply announces file f; known is whether it has
\* a Content-Length (if not, the length passed is the largest 32-bit number).
HeadersDone(c, f, known) ==
  LET fits == known /\ Len(f) < PartLen
      total == IF known THEN Len(f) ELSE NoLength
  IN /\ Ready /\ conn[c] = "connecting"
     /\ UNCHANGED <<active, bootLen, boots, recvVars>>
     /\ \/ \* bl_mtd_open fails, or hal_boot2_get_active_entries does
           /\ Replied(c, f, FALSE)
           /\ otaHandle' \in {otaHandle, "open"}
           /\ UNCHANGED <<flash, degraded, taskVars, otaBuffer, otaTotalLength,
                          otaCtx, fault>>
        \/ fits /\ Replied(c, f, FALSE) /\ Erase /\ HeadersFit(total)
        \/ ~fits /\ Replied(c, f, TRUE) /\ Erase /\ HeadersAbort(total)

\* What the receive callback finds in otaBuffer after copying n more units.
Filled(c, n) == buf \o SubSeq(file[c], got[c] + 1, got[c] + n)

Deliver(c, n, acked) ==
  /\ got' = [got EXCEPT ![c] = got[c] + n]
  /\ unacked' = [unacked EXCEPT ![c] = IF acked THEN unacked[c] ELSE unacked[c] + n]
  /\ UNCHANGED <<conn, file, aborted>>

Lost(kind) == /\ fault' = fault \cup {kind}
              /\ UNCHANGED <<flashVars, boots, taskVars, recvVars, dlVars, connVars>>

\* Mutant: the header is taken only when more than the header is there.
RecvHeaderLate(full) ==
  /\ IF Len(full) > HeaderLen
     THEN /\ otaSha256Img' = Claim[full[1]]
          /\ otaHeader' = FALSE
          /\ flashOffset' = 0
          /\ buf' = SubSeq(full, HeaderLen + 1, Len(full))
     ELSE buf' = full /\ UNCHANGED <<otaHeader, flashOffset, otaSha256Img>>
  /\ UNCHANGED <<recvAt, flashVars, boots, taskVars, dlVars, fault>>

\* The header is not complete yet, or it is and what follows it is kept.
RecvHeader(full) ==
  /\ IF Len(full) >= HeaderLen
     THEN /\ otaSha256Img' = Claim[full[1]]
          /\ otaHeader' = FALSE
          /\ flashOffset' = 0
          /\ buf' = SubSeq(full, HeaderLen + 1, Len(full))
     ELSE buf' = full /\ UNCHANGED <<otaHeader, flashOffset, otaSha256Img>>
  /\ UNCHANGED <<recvAt, flashVars, boots, taskVars, dlVars, fault>>

Written(slot, full) ==
  [i \in 1..PartLen |-> IF i \in flashOffset + 1..flashOffset + Len(full)
                        THEN full[i - flashOffset] ELSE slot[i]]

\* bl_mtd_write; its return code is not looked at.
Write(full) == \/ /\ flash' = [flash EXCEPT ![Standby] = Written(@, full)]
                  /\ UNCHANGED degraded
               \/ degraded' = TRUE /\ UNCHANGED flash

\* Mutants: the digest is not compared; the header is not counted.
CompleteAnyDigest(full) == flashOffset + Len(full) + HeaderLen = otaTotalLength
CompleteNoHeader(full) == /\ flashOffset + Len(full) = otaTotalLength
                          /\ otaCtx \o full = otaSha256Img

\* The whole image is written and its digest is the one in the header.
Complete(full) == /\ flashOffset + Len(full) + HeaderLen = otaTotalLength
                  /\ otaCtx \o full = otaSha256Img

\* Mutant: the table is switched before the last units are written.
RecvBodyTableFirst(c, n, full) ==
  /\ IF Complete(full)
     THEN /\ active' = Standby /\ bootLen' = flashOffset + Len(full)
          /\ recvAt' = "reboot" /\ UNCHANGED <<flash, degraded>>
     ELSE Write(full) /\ UNCHANGED <<active, bootLen, recvAt>>
  /\ otaCtx' = otaCtx \o full
  /\ flashOffset' = flashOffset + Len(full)
  /\ buf' = <<>>
  /\ Deliver(c, n, TRUE)
  /\ UNCHANGED <<boots, taskVars, otaHeader, otaSha256Img, otaHandle, otaBuffer,
                 otaTotalLength, fault>>

\* What is in otaBuffer is hashed and written.  With the last of an authentic image
\* the callback goes on to the table (and never acknowledges these units).
RecvBody(c, n, full) ==
  /\ Write(full)
  /\ otaCtx' = otaCtx \o full
  /\ flashOffset' = flashOffset + Len(full)
  /\ buf' = <<>>
  /\ recvAt' = IF Complete(full) THEN "switch" ELSE "idle"
  /\ Deliver(c, n, TRUE)
  /\ UNCHANGED <<active, bootLen, boots, taskVars, otaHeader, otaSha256Img,
                 otaHandle, otaBuffer, otaTotalLength, fault>>

\* hal_boot2_update_ptable, whose result is not looked at: the slot that was written
\* becomes the one to boot, or the table stays as it was.
UpdateTable ==
  /\ Running /\ recvAt = "switch"
  /\ recvAt' = "reboot"
  /\ \/ active' = Standby /\ bootLen' = flashOffset
     \/ UNCHANGED <<active, bootLen>>
  /\ UNCHANGED <<flash, degraded, boots, taskVars, buf, otaHeader, flashOffset,
                 otaSha256Img, dlVars, connVars, fault>>

\* hal_reboot, whatever became of the table.
Reset == /\ Running /\ recvAt = "reboot"
         /\ Reboot
         /\ UNCHANGED flashVars

\* The next n units of a transfer reach the callback.
Arrives(c, n) == /\ Ready /\ conn[c] = "body"
                 /\ got[c] + n <= Len(file[c])
                 /\ unacked[c] + n <= Window

\* cb_altcp_recv_fn with n units; without a buffer they are neither used nor
\* acknowledged.
Recv(c, n) ==
  LET full == Filled(c, n)
  IN /\ Arrives(c, n)
     /\ CASE otaBuffer = "null" ->
               /\ Deliver(c, n, FALSE)
               /\ UNCHANGED <<flashVars, boots, taskVars, recvVars, dlVars, fault>>
          [] otaBuffer = "freed" -> Lost("buffer")
          [] otaBuffer = "live" /\ Len(full) > BufSize -> Lost("overflow")
          [] otaBuffer = "live" /\ Len(full) <= BufSize /\ otaHeader ->
               RecvHeader(full) /\ Deliver(c, n, TRUE)
          [] OTHER ->
               CASE otaHandle = "closed" -> Lost("handle")
                 [] otaHandle # "closed"
                    /\ flashOffset + Len(full) > PartLen -> Lost("partition")
                 [] OTHER -> RecvBody(c, n, full)

\* cb_httpc_result: the transfer ended, for whatever reason.  The handle and the
\* buffer are released but the pointers to them are kept.
Result(c) ==
  /\ Ready /\ conn[c] \in Open
  /\ conn' = [conn EXCEPT ![c] = "closed"]
  /\ Give
  /\ IF otaHandle = "null"
     THEN fault' = fault \cup GiveFault /\ UNCHANGED <<otaHandle, otaBuffer>>
     ELSE /\ fault' = fault \cup GiveFault \cup CloseFault
                      \cup (IF otaBuffer = "freed" THEN {"buffer"} ELSE {})
          /\ otaHandle' = "closed"
          /\ otaBuffer' = IF otaBuffer = "null" THEN "null" ELSE "freed"
  /\ UNCHANGED <<flashVars, boots, recvVars, otaTotalLength, otaCtx,
                 file, got, unacked, aborted>>

\* The first k units of the slot are erased; the first k units of full are written.
ErasedTo(slot, k) == [i \in 1..PartLen |-> IF i <= k THEN Erased ELSE slot[i]]
CutErase ==
  /\ Ready /\ \E c \in Conns : conn[c] = "connecting"
  /\ \E k \in 1..PartLen : flash' = [flash EXCEPT ![Standby] = ErasedTo(@, k)]
CutWrite ==
  \E c \in Conns, n \in 1..MaxChunk :
    LET full == Filled(c, n)
    IN /\ Arrives(c, n) /\ otaBuffer = "live" /\ ~otaHeader /\ otaHandle # "closed"
       /\ flashOffset + Len(full) <= PartLen
       /\ \E k \in 1..Len(full) :
            flash' = [flash EXCEPT ![Standby] = Written(@, SubSeq(full, 1, k))]

\* Power is lost, between two steps or in the middle of an erasure or a write, or the
\* watchdog ends a system that went wrong.
PowerLoss == /\ boots < MaxBoots
             /\ UNCHANGED flash \/ CutErase \/ CutWrite
             /\ Reboot
             /\ UNCHANGED <<active, bootLen, degraded>>

Task == CmdTake \/ CmdDelete
Switch == UpdateTable \/ Reset
Callback(c) == \/ \E f \in Files, known \in BOOLEAN : HeadersDone(c, f, known)
               \/ \E n \in 1..MaxChunk : Recv(c, n)
               \/ Result(c)

Next == \/ \E c \in Conns : OtaCmd(c) \/ Callback(c)
        \/ Task
        \/ Switch
        \/ PowerLoss

Spec == Init /\ [][Next]_vars

\* The CLI task and the TCP/IP thread are scheduled, and the HTTP client ends every
\* connection: its poll timer closes one that does not move.
FairSpec == Spec /\ WF_vars(Task) /\ WF_vars(Switch) /\ \A c \in Conns : WF_vars(Result(c))

(***************************************************************************)
(* Properties.                                                             *)
(***************************************************************************)

TypeOK ==
  /\ flash \in [Slots -> [1..PartLen -> Unit \cup {Erased}]]
  /\ active \in Slots /\ bootLen \in Nat /\ degraded \in BOOLEAN
  /\ boots \in Nat
  /\ cli \in {"idle", "waiting", "taken"}
  /\ otaSema \in {"none", "empty", "full"}
  /\ otaHandle \in {"null", "open", "closed"}
  /\ otaBuffer \in {"null", "live", "freed"}
  /\ buf \in Seq(Unit)
  /\ otaHeader \in BOOLEAN
  /\ flashOffset \in Nat /\ otaTotalLength \in Nat
  /\ otaCtx \in Seq(Unit)
  /\ otaSha256Img \in Seq(Unit) \cup {NoDigest}
  /\ recvAt \in {"idle", "switch", "reboot"}
  /\ conn \in [Conns -> {"none", "connecting", "body", "closed"}]
  /\ file \in [Conns -> Files \cup {<<>>}]
  /\ got \in [Conns -> Nat] /\ unacked \in [Conns -> Nat]
  /\ aborted \in [Conns -> BOOLEAN]
  /\ fault \subseteq {"semaphore", "handle", "buffer", "overflow", "partition"}

\* otaBuffer never overflows, whatever an earlier attempt left in it: a header in
\* progress leaves less than HeaderLen, a finished one less than one chunk.
BufferSafe == /\ "overflow" \notin fault
              /\ otaHeader => Len(buf) < HeaderLen
              /\ ~otaHeader => Len(buf) < MaxChunk

\* Memory and flash are misused only by a command that is not the first of its
\* boot, or after a download that was too large was let go.
FaultNeedsRetry ==
  Running \/ Cardinality(Used) > 1 \/ \E c \in Conns : aborted[c]

\* Connections whose data went through otaBuffer in this boot.
Consumed == {c \in Conns : got[c] > unacked[c]}

\* The receive statics are not reset between commands: once two downloads of one
\* boot, one after the other, have fed the buffer, the table is not switched before the
\* next boot.  (A download let go as too large may still overlap with the next.)
NoInstallOnRetry ==
  [][Cardinality(Consumed) > 1 /\ (\A c \in Conns : ~aborted[c])
     => active' = active]_vars

\* The first download of a boot that delivers a good file which no single callback
\* can hold installs it at its last unit: the callback that took that unit is on its
\* way to the table and the reboot, and never comes back.
NoMissedInstall ==
  \A c \in Conns :
    /\ Used = {c}
    /\ Good(file[c]) /\ otaTotalLength = Len(file[c])
    /\ Len(file[c]) >= HeaderLen + MaxChunk
    /\ otaBuffer # "null"
    => got[c] < Len(file[c]) \/ recvAt # "idle"

\* A command whose connection exists comes back, unless the system went wrong.
CommandReturns ==
  (cli = "waiting" /\ \E c \in Conns : conn[c] \in Open)
    ~> (cli # "waiting" \/ ~Running)

\* The update only ever boots authentic images and leaves the running one alone.
FS == INSTANCE FirmwareSlots
        WITH SlotContents <- [1..PartLen -> Unit \cup {Erased}], len <- bootLen
ImplementsSlots == FS!Spec
=============================================================================
