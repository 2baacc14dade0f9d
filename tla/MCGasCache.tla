----------------------------- MODULE MCGasCache -----------------------------
(* Small instances of GasCache. *)
EXTENDS GasCache

CONSTANTS p1, f1

MCOneCaller == {p1}
MCRefresher == {f1}
MCNobody == {}
MCAnyNetwork == BOOLEAN
=============================================================================
