---------------------------- MODULE MCRangeTest ----------------------------
(* RangeTest for TLC: three packets and the smallest sequence numbers that *)
(* SeqAssumption allows.                                                   *)
EXTENDS RangeTest
MCRssi == {-5, -2}
=============================================================================
