------------------------------- MODULE Session -------------------------------
(***************************************************************************)
(* The Bluetooth provisioning session of blsync_ble_app.c: a block of the   *)
(* heap, referred to by gp_index, that the Bluetooth library runs until the *)
(* phone is done (blesync_complete_cb) or the command line stops it.  The   *)
(* main loop starts and stops it, the Bluetooth task calls back when the    *)
(* stack is enabled and when a session is complete, and neither locks       *)
(* gp_index: a step here is one access to it, or one call.  Four programs   *)
(* have a copy of the file, which differ in what they check.                *)
(***************************************************************************)
CONSTANTS
  Blocks,     \* blocks of the heap
  NULL

VARIABLES
  variant,       \* the copy of the file
  gp_index,
  live,          \* blocks in use
  running,       \* sessions the library runs
  stack_started, \* static of blsync_ble_start
  enabling,      \* bt_enable will call blsync_init
  doing,         \* what the main loop and the Bluetooth task are in the middle of
  completed,     \* history: a session has completed by itself
  clash,         \* history: a stop met an operation of the other task, or two starts met
  misused,       \* history: a session that is not there was started, stopped or freed
  misled         \* history: a start was refused while nothing ran
session == <<gp_index, live, running>>
stack == <<stack_started, enabling>>
tasks == <<doing, clash>>
vars == <<variant, session, stack, tasks, completed, misused, misled>>

\* What a copy checks, and whether its completion clears gp_index.
Copy(checksStart, checksStop, clears, enables) ==
  [checksStart |-> checksStart, checksStop |-> checksStop, clears |-> clears, enables |-> enables]
BleSync == Copy(TRUE, FALSE, FALSE, TRUE)
Mesh == Copy(TRUE, TRUE, TRUE, FALSE)
Zigbee == Copy(TRUE, FALSE, FALSE, FALSE)
BorderRouter == Copy(FALSE, TRUE, FALSE, TRUE)
Variants == {BleSync, Mesh, Zigbee, BorderRouter}

\* What a task does: make, stop or complete a session; the step that comes next; and the
\* block it has in a local variable, NULL if it goes by gp_index.
Nothing == [op |-> "none", step |-> "none", p |-> NULL]

Init == /\ variant \in Variants
        /\ gp_index = NULL /\ live = {} /\ running = {}
        /\ stack_started = FALSE /\ enabling = FALSE
        /\ doing = [t \in {"loop", "bt"} |-> Nothing]
        /\ completed = FALSE /\ clash = FALSE /\ misused = FALSE /\ misled = FALSE

Other(t) == IF t = "loop" THEN "bt" ELSE "loop"
Free(t) == doing[t] = Nothing
At(t, step) == doing[t].step = step
Begin(t, op, step, p) ==
  /\ doing' = [doing EXCEPT ![t] = [op |-> op, step |-> step, p |-> p]]
  /\ clash' = (clash \/ (~Free(Other(t)) /\ {op, doing[Other(t)].op} # {"make", "complete"}))
Goto(t, step) == doing' = [doing EXCEPT ![t].step = step] /\ UNCHANGED clash
Return(t) == doing' = [doing EXCEPT ![t] = Nothing] /\ UNCHANGED clash
Block(t) == IF doing[t].p = NULL THEN gp_index ELSE doing[t].p

(***************************************************************************)
(* Making a session.                                                       *)
(***************************************************************************)

\* The check of blsync_init, or of the start of the mesh and of Zigbee.
Make(t) ==
  \/ /\ gp_index # NULL                        \* "blsync already started"
     /\ misled' = (misled \/ (running = {} /\ Free(Other(t))))
     /\ UNCHANGED tasks
  \/ /\ gp_index = NULL
     /\ Begin(t, "make", "malloc", NULL)
     /\ UNCHANGED misled

\* blsync_ble_start: the first start brings the Bluetooth stack up, and bt_enable calls
\* back; later ones make the session at once.  The border router makes its block before,
\* at every start, and its callback only runs it.
Start ==
  /\ Free("loop")
  /\ \/ /\ variant.checksStart /\ (variant.enables => stack_started)
        /\ Make("loop") /\ UNCHANGED stack
     \/ /\ variant.checksStart /\ variant.enables /\ ~stack_started
        /\ stack_started' = TRUE /\ enabling' = TRUE
        /\ UNCHANGED <<tasks, misled>>
     \/ /\ ~variant.checksStart
        /\ Begin("loop", "make", "malloc", NULL) /\ UNCHANGED <<stack, misled>>
  /\ UNCHANGED <<variant, session, completed, misused>>

\* blsync_init, called back by the stack; an error ends it.
Enabled ==
  /\ Free("bt") /\ enabling /\ enabling' = FALSE
  /\ \/ variant.checksStart /\ Make("bt")
     \/ /\ ~variant.checksStart /\ gp_index # NULL
        /\ Begin("bt", "make", "run", NULL) /\ UNCHANGED misled
     \/ UNCHANGED <<tasks, misled>>
  /\ UNCHANGED <<variant, session, stack_started, completed, misused>>

\* pvPortMalloc of a session; the heap may be exhausted.
Malloc(t) ==
  /\ At(t, "malloc")
  /\ \/ \E b \in Blocks \ live :
          /\ gp_index' = b /\ live' = live \cup {b}
          /\ Goto(t, IF variant.checksStart THEN "run" ELSE "enable")
     \/ gp_index' = NULL /\ live' = live /\ Return(t)
  /\ UNCHANGED <<variant, running, stack, completed, misused, misled>>

\* bt_enable of the border router.
Enable(t) ==
  /\ At(t, "enable") /\ enabling' = TRUE /\ Return(t)
  /\ UNCHANGED <<variant, session, stack_started, completed, misused, misled>>

\* bl_ble_sync_start
Run(t) ==
  /\ At(t, "run") /\ Return(t)
  /\ running' = running \cup ({gp_index} \ {NULL})
  /\ misused' = (misused \/ gp_index \notin live)
  /\ UNCHANGED <<variant, gp_index, live, stack, completed, misled>>

(***************************************************************************)
(* Ending a session.                                                       *)
(***************************************************************************)

\* Mutant: as in the other copies, gp_index keeps the block.
CompleteKeeps(b) ==
  /\ Free("bt") /\ b \in running /\ completed' = TRUE
  /\ Begin("bt", "complete", "halt", b)
  /\ UNCHANGED <<variant, session, stack, misused, misled>>

\* blesync_complete_cb, for a session that runs: of the mesh, blsync_blemesh_stop if it is
\* the session of gp_index.
Complete(b) ==
  /\ Free("bt") /\ b \in running /\ completed' = TRUE
  /\ \/ variant.clears /\ b = gp_index /\ Begin("bt", "complete", "check", NULL)
     \/ variant.clears /\ b # gp_index /\ UNCHANGED tasks
     \/ ~variant.clears /\ Begin("bt", "complete", "halt", b)
  /\ UNCHANGED <<variant, session, stack, misused, misled>>

\* Its check of gp_index.
Check(t) ==
  /\ At(t, "check")
  /\ IF gp_index = NULL THEN Return(t) ELSE Goto(t, "halt")
  /\ UNCHANGED <<variant, session, stack, completed, misused, misled>>

\* blsync_ble_stop
Stop ==
  /\ Free("loop")
  /\ \/ variant.checksStop /\ gp_index = NULL /\ UNCHANGED tasks
     \/ /\ gp_index # NULL \/ ~variant.checksStop
        /\ Begin("loop", "stop", "halt", NULL)
  /\ UNCHANGED <<variant, session, stack, completed, misused, misled>>

\* bl_ble_sync_stop
Halt(t) ==
  /\ At(t, "halt") /\ Goto(t, "free")
  /\ running' = running \ {Block(t)}
  /\ misused' = (misused \/ Block(t) \notin live)
  /\ UNCHANGED <<variant, gp_index, live, stack, completed, misled>>

\* vPortFree, which lets NULL pass.
Release(t) ==
  /\ At(t, "free")
  /\ live' = live \ {Block(t)}
  /\ misused' = (misused \/ Block(t) \notin live \cup {NULL})
  /\ IF doing[t].p = NULL THEN Goto(t, "clear") ELSE Return(t)
  /\ UNCHANGED <<variant, gp_index, running, stack, completed, misled>>

Clear(t) ==
  /\ At(t, "clear") /\ gp_index' = NULL /\ Return(t)
  /\ UNCHANGED <<variant, live, running, stack, completed, misused, misled>>

Step(t) == Malloc(t) \/ Enable(t) \/ Run(t) \/ Check(t) \/ Halt(t) \/ Release(t) \/ Clear(t)

\* A program whose heap has been corrupted is not followed any further.
Next == /\ ~misused
        /\ \/ Start \/ Enabled \/ (\E b \in Blocks : Complete(b)) \/ Stop
           \/ \E t \in {"loop", "bt"} : Step(t)
Spec == Init /\ [][Next]_vars

(***************************************************************************)
(* Properties.                                                             *)
(***************************************************************************)

\* In the copies that check their start, between the operations, the session the library
\* runs is the block in use, and there is no other than that of gp_index; gp_index refers
\* to nothing else, unless a session completed by itself in a copy that then leaves it
\* set.  In the copies that check their stop, and as long as no completion left gp_index
\* set, no session is started, stopped or freed that is not there.  Both hold as long as
\* no stop meets an operation of the other task and no two starts meet, which nothing in
\* the code prevents; a start may meet a completion.
OneSession ==
  ~clash =>
    /\ (variant.checksStart /\ ~misused /\ Free("loop") /\ Free("bt")) =>
         /\ running = live /\ live \subseteq {gp_index}
         /\ (variant.clears \/ ~completed) => live = {gp_index} \ {NULL}
    /\ (variant.checksStop /\ (variant.clears \/ ~completed)) => ~misused

\* A start is refused as "already started" only while a session runs, or the other task
\* is in the middle of something.
StartedMeansRunning == ~misled
=============================================================================
