------------------------------ MODULE HttpClient ------------------------------
(***************************************************************************)
(* The two downloads of the HTTP client demos: the command "http" of        *)
(* client_demo, over a socket and within the command, and "httpc" of        *)
(* cmd_httpc_test, over the callbacks of lwIP's client, which runs in the   *)
(* TCP/IP task and answers when it likes.                                   *)
(***************************************************************************)
EXTENDS Integers

CONSTANT Sockets      \* sockets lwIP has

VARIABLES
  shell,     \* where the command line is: "idle", or in a command
  inUse,     \* sockets in use
  buffer,    \* recv_buffer is allocated
  abandoned, \* history: sockets whose connect failed
  req,       \* the static of cmd_httpc_test is set
  transfer,  \* a transfer of lwIP's client is under way
  asked      \* history: one has been begun and req is not set yet
vars == <<shell, inUse, buffer, abandoned, req, transfer, asked>>
raw == <<req, transfer, asked>>

Init == /\ shell = "idle" /\ inUse = 0 /\ buffer = FALSE /\ abandoned = 0
        /\ req = FALSE /\ transfer = FALSE /\ asked = FALSE

(***************************************************************************)
(* client_demo                                                             *)
(***************************************************************************)

\* gethostbyname and socket may fail.
Http == /\ shell = "idle" /\ UNCHANGED <<buffer, abandoned, raw>>
        /\ \/ inUse < Sockets /\ inUse' = inUse + 1 /\ shell' = "connect"
           \/ UNCHANGED <<shell, inUse>>

\* A connect that fails returns and leaves the socket.
Connect ==
  /\ shell = "connect" /\ UNCHANGED <<inUse, raw>>
  /\ \/ shell' = "idle" /\ abandoned' = abandoned + 1 /\ UNCHANGED buffer
     \/ shell' = "read" /\ buffer' = TRUE /\ UNCHANGED abandoned
     \/ shell' = "close" /\ UNCHANGED <<buffer, abandoned>>     \* the heap is exhausted

\* Read until the data ends, an error, or enough of it.
Read == /\ shell = "read" /\ shell' = "close" /\ buffer' = FALSE
        /\ UNCHANGED <<inUse, abandoned, raw>>

\* Mutant: the socket is not closed.
CloseNot == /\ shell = "close" /\ shell' = "idle"
            /\ UNCHANGED <<inUse, buffer, abandoned, raw>>

Close == /\ shell = "close" /\ shell' = "idle" /\ inUse' = inUse - 1
         /\ UNCHANGED <<buffer, abandoned, raw>>

(***************************************************************************)
(* cmd_httpc_test                                                          *)
(***************************************************************************)

\* httpc_get_file_dns may refuse.
Httpc ==
  /\ shell = "idle" /\ UNCHANGED <<inUse, buffer, abandoned, req>>
  /\ \/ ~req /\ transfer' = TRUE /\ asked' = TRUE /\ shell' = "asked"
     \/ UNCHANGED <<transfer, asked, shell>>

\* The call returns the request in req.
Asked == /\ shell = "asked" /\ shell' = "idle"
         /\ req' = TRUE /\ asked' = FALSE
         /\ UNCHANGED <<inUse, buffer, abandoned, transfer>>

\* cb_httpc_result, in the TCP/IP task.
Result == /\ transfer /\ transfer' = FALSE /\ req' = FALSE
          /\ UNCHANGED <<shell, inUse, buffer, abandoned, asked>>

Next == Http \/ Connect \/ Read \/ Close \/ Httpc \/ Asked \/ Result
Spec == Init /\ [][Next]_vars

(***************************************************************************)
(* Properties.                                                             *)
(***************************************************************************)

\* Between commands only the sockets whose connect failed are in use, and no buffer is;
\* and a transfer of lwIP's client, once req is set, has it set until it ends, so that the
\* command line never has two under way.
NothingLeft ==
  /\ shell = "idle" => inUse = abandoned /\ ~buffer
  /\ transfer => req \/ asked
=============================================================================
