----------------------------- MODULE MCWifiProv -----------------------------
(* WifiProv for TLC.  The blocks of the heap are interchangeable. *)
EXTENDS WifiProv, TLC
CONSTANTS b1, b2, b3
MCStrings == {"s", "t"}
MCStored == {<<"s", "t">>}
MCBuffers == {b1, b2, b3}
MCSymmetry == Permutations(MCBuffers)
=============================================================================
