-------------------------- MODULE MCBlePeripheral --------------------------
(* BlePeripheral for TLC. *)
EXTENDS BlePeripheral
CONSTANTS c1, c2
MCConns == {c1, c2}
=============================================================================
