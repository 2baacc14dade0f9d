--------------------------- MODULE MCStallRecovery ---------------------------
(* Small instances of StallRecovery for TLC. *)
EXTENDS StallRecovery

CONSTANTS r1, r2, s1, x1

MCTwoRequests == {r1, r2}
MCPlainPath == {"plain"}
MCNobody == {}
MCSyncers == {s1}
MCBothTags == {"latest", "pending"}
MCLatestTag == {"latest"}
MCOneFee == {1}
MCAboveMarket == {2}
MCMarket == {1}
MCMovingMarket == {1, 3}
MCRescuer == {x1}
MCCancel == {"cancel"}
MCBothRescues == {"cancel", "resend"}
==============================================================================
