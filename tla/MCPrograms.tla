------------------------------ MODULE MCPrograms ------------------------------
(* Programs for TLC.  Numbers: every number below 10000, and every number below *)
(* 10^12 made of two digits, one of them 0.  The clock of the sleep is a slow   *)
(* one with a short word, so that the product wraps.  A central hears its      *)
(* peripheral on both sides of the threshold of -20.                           *)
EXTENDS Programs
Lead(set) == {ds \in set : ds = <<>> \/ ds[Len(ds)] # 0}
MCNumbers == Lead(UNION {[1..n -> 0..9] : n \in 0..4})
             \cup Lead(UNION {[1..n -> {0, 3}] : n \in 5..12})
MCDecimals == {0, 5, 40, 99, 251}
MCRssi == {-21, -20}
=============================================================================
