--------------------------- MODULE FirmwareSlots ---------------------------
(***************************************************************************)
(* What an over-the-air update promises to the boot loader, without saying *)
(* how the image arrives.  There are two firmware slots and a partition    *)
(* table that names the slot to boot and the length of its image.  An      *)
(* update stages bytes in the slot that is not booted, and may then        *)
(* activate that slot only if the staged bytes are an authentic image.     *)
(* HttpOta is shown to implement this.                                     *)
(***************************************************************************)
EXTENDS Naturals

CONSTANTS
  SlotContents,  \* what a slot can hold: a set of functions over 1..n
  Authentic(_)   \* Authentic(s): the sequence s is the body of some release

VARIABLES
  flash,     \* flash[s]: the contents of slot s
  active,    \* the slot the boot loader starts
  len,       \* length of the active image, as the partition table records it
  degraded   \* a flash operation failed without anybody noticing

vars == <<flash, active, len, degraded>>

Slots == {0, 1}
Other(s) == 1 - s

\* The first n cells of a slot, as a sequence.
Image(contents, n) == [i \in 1..n |-> contents[i]]

Init == /\ active = 0
        /\ degraded = FALSE
        /\ flash \in [Slots -> SlotContents]
        /\ len \in Nat
        /\ len > 0 => Authentic(Image(flash[0], len))

\* The download erases or writes the slot that is not booted.
Stage == /\ flash' \in [Slots -> SlotContents]
         /\ flash'[active] = flash[active]
         /\ degraded' \in {degraded, TRUE}
         /\ UNCHANGED <<active, len>>

\* The slot becomes the one to boot: all of its image is there.
Activate == /\ active' = Other(active)
            /\ len' \in Nat
            /\ ~degraded => Authentic(Image(flash[active'], len'))
            /\ UNCHANGED <<flash, degraded>>

Next == Stage \/ Activate

Spec == Init /\ [][Next]_vars

(***************************************************************************)
(* Promises.                                                               *)
(***************************************************************************)

\* Unless a flash operation was silently lost, the slot that boots holds a
\* complete authentic image of the length the partition table gives.
Bootable == ~degraded => (len > 0 => Authentic(Image(flash[active], len)))

\* The running firmware is never overwritten while it is the one to boot.
RunningUntouched == [][active' = active => flash'[active] = flash[active]]_vars
=============================================================================
