--------------------------- MODULE MCValveRecords ---------------------------
(* A valve in users and two old entries; keys of the index that come in    *)
(* orders which call for each rotation, and equal ones.                    *)
EXTENDS ValveRecords, IndexTree

MCKeys == 1 .. 3
MCUsers == {2}
MCHashes == {<<1, 2, 3>>, <<1, 3, 2>>, <<3, 1, 2>>, <<2, 2, 1>>}
==============================================================================
