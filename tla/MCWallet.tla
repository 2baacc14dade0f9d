------------------------------ MODULE MCWallet ------------------------------
(* Small instances of Wallet for TLC. *)
EXTENDS Wallet, TLC

CONSTANTS r1, r2, s1

MCTwoRequests == {r1, r2}
MCBothPaths == {"plain", "preheat"}
MCPlainPath == {"plain"}
MCNobody == {}
MCSyncers == {s1}
MCBothTags == {"latest", "pending"}
MCLatestTag == {"latest"}
MCTwoFees == {1, 2}

RequestsSymmetry == Permutations(Requests)

\* No step or property tells the unresolved statuses of a record apart, or reads
\* its hashes and the count of acceptances; nor the nonce a process read once it is
\* used; nor the context of a request whose answer is in; nor more than the nonce
\* of a request that is over and whose transaction the network no longer has.  Nor
\* the fees of what is mined, and what the ledger says of nonces the chain is past.
Over(r) == pc[r] \in {"sent", "done"} /\ ~Live(r)
ContextMatters(r) ==
  pc[r] \notin {"accepted", "mark_released", "sent", "done", "read_latest",
               "read_pending", "apply", "prune"}
MCView ==
  <<tr,
    [n \in {n \in DOMAIN records : n >= latest} |->
       <<IF records[n].status \in Resolved THEN records[n].status ELSE "open",
         records[n].fee>>],
    [r \in Requests |->
       IF Over(r) THEN <<nonce[r]>>
       ELSE <<pc[r], nonce[r], IF r \in mined THEN 0 ELSE fee[r],
              IF ContextMatters(r) THEN ctx[r] ELSE "">>],
    [p \in Processes |-> IF pc[p] \in {"apply", "prune", "checked"} THEN got[p] ELSE 0],
    [s \in Syncers |-> pc[s]], unmarked, network,
    {n \in blurred : n >= latest}>>
=============================================================================
