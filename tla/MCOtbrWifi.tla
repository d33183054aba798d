----------------------------- MODULE MCOtbrWifi -----------------------------
(* OtbrWifi for TLC: two access points; the passwords have 8 characters,    *)
(* the fewest that are taken, and 40.                                       *)
EXTENDS OtbrWifi
MCSsids == {"A", "B"}
MCPwds == {"p", "q"}
MCPairs == {<<"A", "p">>, <<"B", "q">>}
MCKey == [s \in MCSsids |-> IF s = "A" THEN "p" ELSE "q"]
MCLength == [p \in MCPwds \cup {Garbled} |-> IF p = "q" THEN 40 ELSE 8]
=============================================================================
