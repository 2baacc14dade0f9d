-------------------------- MODULE MCInflightLedger --------------------------
(* Small instances of InflightLedger for TLC. *)
EXTENDS InflightLedger

CONSTANTS h1, h2

MCNonces == 0 .. 2
MCHashes == {h1, h2}
MCFeeOf == [h \in MCHashes |-> IF h = h1 THEN 1 ELSE 2]
=============================================================================
