----------------------------- MODULE MCHttpOta -----------------------------
(***************************************************************************)
(* HttpOta for TLC: a header of two units, callbacks of at most two units, *)
(* the smallest buffer that BufAssumption allows, and one server that may  *)
(* serve a good image, a corrupted one, a tiny one or one that is too      *)
(* large.                                                                  *)
(***************************************************************************)
EXTENDS HttpOta

Tiny == <<"t1", "t2", "x">>
GoodFile == <<"g1", "g2", "a", "b">>
BadFile == <<"c1", "c2", "a">>
BigFile == <<"l1", "l2", "a", "b", "a">>

MCFiles == {Tiny, GoodFile, BadFile, BigFile}
MCUnit == {"t1", "t2", "x", "g1", "g2", "a", "b", "c1", "c2", "l1", "l2"}
MCClaim == [u \in MCUnit |->
              CASE u = "t1" -> <<"x">>
                [] u = "g1" -> <<"a", "b">>
                [] u = "c1" -> <<"b">>
                [] u = "l1" -> <<"a", "b", "a">>
                [] OTHER -> NoDigest]
=============================================================================
