------------------------------ MODULE AudioTts ------------------------------
(***************************************************************************)
(* The player of audio_udp.  For every datagram the UDP task lines up three *)
(* events, a recording before the number, the number and a recording after  *)
(* it, each a list of items (recordings), and starts the device; the        *)
(* transfer callback of the device, an interrupt, fills the next buffer     *)
(* from them.  The two share dma_list_head, dma_irq_ev, dma_irq_item, r_size *)
(* and end_flag without a lock.  An item is a record: at, its place in all  *)
(* that is to be heard, and the units of sound it holds.                    *)
(***************************************************************************)
EXTENDS Integers, Sequences, FiniteSets

CONSTANTS
  NULL,
  Sizes,        \* sizes of recordings
  Dual,         \* half a device buffer: mono sound fills it doubled
  Lengths,      \* numbers of items a number is read with
  MaxRequests,  \* bound: datagrams
  MaxFail,      \* bound: failures of pvPortMalloc
  MaxUnderrun   \* bound: underruns of the device

\* No recording of the file system is shorter than half a buffer.
ASSUME SizeAssumption == Dual \in Nat \ {0} /\ \A s \in Sizes : s \in Nat /\ s >= Dual
\* A number is read with some item, and there is a longest number.
ASSUME LengthAssumption == /\ \A n \in Lengths : n \in Nat \ {0}
                           /\ \E n \in Lengths : \A m \in Lengths : m <= n
ASSUME BoundAssumption == MaxRequests \in Nat /\ MaxFail \in Nat /\ MaxUnderrun \in Nat

VARIABLES
  pc,            \* UDP task: the event it makes next
  left,          \* items it still has to add to the number
  requests,
  list,          \* dma_list_head: events waiting, in order
  items,         \* event -> its list of items
  irqEv, irqItem, rSize, endFlag,   \* dma_irq_ev, dma_irq_item, r_size, end_flag
  running,       \* the device calls back
  fails, underruns,
  heard,         \* history: at of the item heard last, and how much of it
  ended,         \* history: items given back
  cut,           \* history: an item was given back before its end or heard out of turn
  clash          \* history: the task and the interrupt met over one event

task == <<pc, left, requests, fails>>
player == <<irqEv, irqItem, rSize, endFlag, running, underruns>>
history == <<heard, ended, cut>>
vars == <<task, list, items, player, history, clash>>

MaxLength == CHOOSE n \in Lengths : \A m \in Lengths : m <= n
Events == 1..(3 * MaxRequests)
At(e, k) == e * (MaxLength + 1) + k
Items == [at : Nat, size : Sizes]

\* A null pointer points to no event and no item.
ASSUME NullAssumption == NULL \notin Items \cup Events

Init == /\ pc = "recv" /\ left = 0 /\ requests = 0
        /\ list = <<>> /\ items = [e \in Events |-> <<>>]
        /\ irqEv = NULL /\ irqItem = NULL /\ rSize = 0 /\ endFlag = 0 /\ running = FALSE
        /\ fails = 0 /\ underruns = 0
        /\ heard = [at |-> 0, upto |-> 0] /\ ended = {} /\ cut = FALSE /\ clash = FALSE

(***************************************************************************)
(* UDP task.  After a clash the lists are not what the code takes them for, *)
(* and the model stops.                                                    *)
(***************************************************************************)

Event(part) == 3 * (requests - 1) + part

Recv == /\ pc = "recv" /\ requests < MaxRequests
        /\ requests' = requests + 1 /\ pc' = "before"
        /\ UNCHANGED <<left, fails, list, items, player, history, clash>>

\* audio_tts_characters_play: an event with one item, made before it is lined up.
Characters(part, next) ==
  /\ pc' = next
  /\ \/ \E s \in Sizes :
          /\ items' = [items EXCEPT ![Event(part)] = <<[at |-> At(Event(part), 1), size |-> s]>>]
          /\ list' = Append(list, Event(part)) /\ UNCHANGED fails
     \/ fails < MaxFail /\ fails' = fails + 1 /\ UNCHANGED <<items, list>>
  /\ UNCHANGED <<left, requests, player, history, clash>>

Before == pc = "before" /\ Characters(1, "number")
After == pc = "after" /\ Characters(3, "start")

\* audio_tts_num_play lines the event up first ...
Number ==
  /\ pc = "number"
  /\ \/ /\ list' = Append(list, Event(2)) /\ left' \in Lengths /\ pc' = "digit"
        /\ UNCHANGED fails
     \/ /\ fails < MaxFail /\ fails' = fails + 1 /\ pc' = "after"
        /\ UNCHANGED <<list, left>>
  /\ UNCHANGED <<requests, items, player, history, clash>>

\* Mutant: items are added to the end, although they are made last one first.
DigitAtEnd ==
  /\ pc = "digit"
  /\ left' = left - 1 /\ pc' = IF left = 1 THEN "after" ELSE pc
  /\ IF Event(2) \in {list[i] : i \in DOMAIN list}
     THEN \/ \E s \in Sizes :
               /\ items' = [items EXCEPT ![Event(2)] = @ \o <<[at |-> At(Event(2), left), size |-> s]>>]
               /\ UNCHANGED <<fails, clash>>
          \/ fails < MaxFail /\ fails' = fails + 1 /\ UNCHANGED <<items, clash>>
     ELSE clash' = TRUE /\ UNCHANGED <<items, fails>>
  /\ UNCHANGED <<requests, list, player, history>>

\* ... and then adds its items to the front, the last one first.
Digit ==
  /\ pc = "digit"
  /\ left' = left - 1 /\ pc' = IF left = 1 THEN "after" ELSE pc
  /\ IF Event(2) \in {list[i] : i \in DOMAIN list}
     THEN \/ \E s \in Sizes :
               /\ items' = [items EXCEPT ![Event(2)] = <<[at |-> At(Event(2), left), size |-> s]>> \o @]
               /\ UNCHANGED <<fails, clash>>
          \/ fails < MaxFail /\ fails' = fails + 1 /\ UNCHANGED <<items, clash>>
     ELSE clash' = TRUE /\ UNCHANGED <<items, fails>>
  /\ UNCHANGED <<requests, list, player, history>>

\* audio_tts_start takes the first event and its first item, which replaces the
\* one that is playing,
Start ==
  /\ pc = "start"
  /\ IF list = <<>> THEN pc' = "recv" /\ UNCHANGED <<list, items, irqEv, irqItem, clash>>
     ELSE LET e == Head(list) IN
          /\ pc' = "go" /\ irqEv' = e /\ list' = Tail(list)
          /\ irqItem' = IF items[e] = <<>> THEN NULL ELSE Head(items[e])
          /\ items' = [items EXCEPT ![e] = IF @ = <<>> THEN @ ELSE Tail(@)]
          /\ clash' = (irqItem # NULL)
  /\ UNCHANGED <<left, requests, fails, rSize, endFlag, running, underruns, history>>

\* and starts the device.
Go == /\ pc = "go" /\ pc' = "recv" /\ endFlag' = 0 /\ running' = TRUE
      /\ UNCHANGED <<left, requests, fails, list, items, irqEv, irqItem, rSize, underruns,
                     history, clash>>

Task == ~clash /\ (Recv \/ Before \/ Number \/ Digit \/ After \/ Start \/ Go)

(***************************************************************************)
(* __transfer_complete.                                                    *)
(***************************************************************************)

Rest == irqItem.size - rSize

\* What is copied follows what was heard last.
InTurn == IF rSize = 0 THEN heard.at < irqItem.at ELSE heard = [at |-> irqItem.at, upto |-> rSize]

\* The buffer is filled from the item that is playing.
TransferWithin ==
  /\ irqItem # NULL /\ Rest >= Dual
  /\ rSize' = rSize + Dual /\ heard' = [at |-> irqItem.at, upto |-> rSize + Dual]
  /\ cut' = (cut \/ ~InTurn)
  /\ UNCHANGED <<task, list, items, irqEv, irqItem, endFlag, running, underruns, ended, clash>>

\* Mutant: the next event is taken although this one has more items.
EventOverAlways == TRUE

\* The item that is playing is the last of its event.
EventOver == items[irqEv] = <<>>

\* r_size after an item, when next follows
Position(next) == IF next = NULL THEN 0 ELSE Dual - Rest

\* The rest of the item that is playing, if any, is copied; __next_transfer gives it
\* back, and its event with the last of its items, and takes the next, of the next
\* event if need be; the buffer is filled from that one, or with silence.
TransferAcross ==
  /\ irqItem # NULL /\ Rest < Dual
  /\ LET more == EventOver /\ list # <<>>
         ev == IF more THEN Head(list) ELSE irqEv
         next == IF items[ev] = <<>> THEN NULL ELSE Head(items[ev])
     IN  /\ irqEv' = ev /\ list' = IF more THEN Tail(list) ELSE list
         /\ irqItem' = next
         /\ items' = [items EXCEPT ![ev] = IF @ = <<>> THEN @ ELSE Tail(@)]
         /\ rSize' = Position(next)
         /\ endFlag' = IF next = NULL /\ Rest > 0 THEN 0 ELSE endFlag
         /\ heard' = IF next = NULL THEN [at |-> irqItem.at, upto |-> irqItem.size]
                     ELSE [at |-> next.at, upto |-> Dual - Rest]
         /\ cut' = (cut \/ (Rest > 0 /\ ~InTurn) \/ (next # NULL /\ next.at <= irqItem.at))
         \* the event of the number, taken while the task adds to it
         /\ clash' = (more /\ pc = "digit" /\ ev = Event(2))
  /\ ended' = ended \cup {irqItem.at}
  /\ UNCHANGED <<task, running, underruns>>

\* Mutant: silence for ever.
TransferSilenceOn ==
  /\ irqItem = NULL /\ endFlag' = (endFlag + 1) % 2
  /\ UNCHANGED <<task, list, items, irqEv, irqItem, rSize, running, underruns, history, clash>>

\* Nothing left: two buffers of silence, and the device stops.
TransferSilence ==
  /\ irqItem = NULL
  /\ endFlag' = (endFlag + 1) % 2 /\ running' = (endFlag + 1 < 2)
  /\ UNCHANGED <<task, list, items, irqEv, irqItem, rSize, underruns, history, clash>>

Underrun ==
  /\ underruns < MaxUnderrun /\ underruns' = underruns + 1 /\ running' = FALSE
  /\ UNCHANGED <<task, list, items, irqEv, irqItem, rSize, endFlag, history, clash>>

Transfer == ~clash /\ running /\ (TransferWithin \/ TransferAcross \/ TransferSilence \/ Underrun)
Served == ~clash /\ running /\ (TransferWithin \/ TransferAcross \/ TransferSilence)

Next == Task \/ Transfer
Spec == Init /\ [][Next]_vars
FairSpec == Spec /\ WF_vars(Task) /\ WF_vars(Served)

(***************************************************************************)
(* Properties.                                                             *)
(***************************************************************************)

\* What is heard is every item from its beginning to its end, in the order of the
\* sentences, and without a gap; and the position is within the item that is playing:
\* beyond it the callback would hand out the same buffer for ever.
Seamless == ~cut /\ (clash \/ rSize <= IF irqItem = NULL THEN 0 ELSE irqItem.size)

\* Nothing is forgotten or played twice: an item waits in an event that is lined up
\* or playing, and was not given back.
NothingForgotten ==
  \A e \in Events : items[e] # <<>> =>
    /\ clash \/ e = irqEv \/ e \in {list[i] : i \in DOMAIN list}
    /\ \A k \in DOMAIN items[e] : items[e][k].at \notin ended

\* Everything asked for is spoken, and then the device rests: unless the two sides
\* met, the device ran dry or there was no memory.
Spoken == <>(clash \/ underruns > 0 \/ fails > 0) \/ <>[](list = <<>> /\ irqItem = NULL /\ ~running)
=============================================================================
