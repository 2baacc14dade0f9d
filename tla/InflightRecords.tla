--------------------------- MODULE InflightRecords ---------------------------
(***************************************************************************)
(* The operations of the in-flight ledger of src/src/inflight.rs, as       *)
(* operators on its map of records.  Each runs under the one mutex of      *)
(* InflightNonceLedger, so each is one step of the modules that use it.    *)
(*                                                                         *)
(* A ledger R is a function from the tracked nonces to records.  fee       *)
(* stands for max_fee_seen and max_priority_seen, which are merged alike;  *)
(* 0 is None.  The text of release_reason is left out.                     *)
(***************************************************************************)
EXTENDS Naturals, FiniteSets, Functions

CONSTANT MaxTracked  \* MAX_TRACKED_NONCES
ASSUME MaxTrackedIsPositive == MaxTracked \in Nat \ {0}

Acceptances == {"BroadcastAccepted", "RebroadcastAccepted"}
Resolved == {"Released", "Mined"}
Statuses ==
  {"Signed", "MempoolSeen", "Committed"} \cup Acceptances \cup Resolved

Larger(a, b) == IF a >= b THEN a ELSE b

\* InflightNonceRecord::new.
NewRecord(hashes, fee, now) ==
  [status |-> "Signed", hashes |-> hashes, first_seen |-> now, accepted |-> 0,
   fee |-> fee]

Put(R, n, record) ==
  [m \in DOMAIN R \cup {n} |-> IF m = n THEN record ELSE R[m]]

\* The record at n, or what or_insert_with would insert.
Entry(R, n, hashes, now) ==
  IF n \in DOMAIN R THEN R[n] ELSE NewRecord(hashes, 0, now)

\* Mutant: the newest nonces go first.
prune_new_records(R) ==
  Restrict(R, {n \in DOMAIN R : Cardinality({m \in DOMAIN R : m < n}) < MaxTracked})

\* Remove the lowest nonce until at most MaxTracked are left.
prune_old_records(R) ==
  Restrict(R, {n \in DOMAIN R : Cardinality({m \in DOMAIN R : m > n}) < MaxTracked})

\* Mutant: the fee of the last signature, not the highest.
merge_last(seen, observed) == observed

merge_max(seen, observed) == Larger(seen, observed)

\* Mutant: every signature restarts the clock.
Resigned_restart(record, hash, fee, now) ==
  [record EXCEPT !.hashes = @ \cup {hash}, !.fee = merge_max(@, fee),
                 !.status = "Signed", !.first_seen = now, !.accepted = 0]

\* Mutant: a released nonce signed again keeps the count of its old attempt.
Resigned_keeps_count(record, hash, fee, now) ==
  [record EXCEPT !.hashes = @ \cup {hash}, !.fee = merge_max(@, fee),
                 !.status = IF @ = "Released" THEN "Signed" ELSE @,
                 !.first_seen = IF record.status = "Released" THEN now ELSE @]

\* and_modify of record_signed: only a Released nonce starts a new attempt.
Resigned(record, hash, fee, now) ==
  LET merged == [record EXCEPT !.hashes = @ \cup {hash}, !.fee = merge_max(@, fee)]
  IN  IF record.status = "Released"
      THEN [merged EXCEPT !.status = "Signed", !.first_seen = now, !.accepted = 0]
      ELSE merged

record_signed(R, n, hash, fee, now) ==
  prune_old_records(
    Put(R, n, IF n \in DOMAIN R THEN Resigned(R[n], hash, fee, now)
              ELSE NewRecord({hash}, fee, now)))

\* update: whatever the status was, it is overwritten.
Update(R, n, hash, status, now) ==
  prune_old_records(
    Put(R, n, [Entry(R, n, {hash}, now) EXCEPT
                 !.hashes = @ \cup {hash},
                 !.status = status,
                 !.accepted = @ + IF status \in Acceptances THEN 1 ELSE 0]))

mark_broadcast_accepted(R, n, hash, now) == Update(R, n, hash, "BroadcastAccepted", now)
mark_mempool_seen(R, n, hash, now) == Update(R, n, hash, "MempoolSeen", now)
mark_rebroadcast_accepted(R, n, hash, now) == Update(R, n, hash, "RebroadcastAccepted", now)
mark_mined(R, n, hash, now) == Update(R, n, hash, "Mined", now)

\* Mutant: the placeholder B256::ZERO stays among the hashes.
mark_released_zero_hash(R, n, now) ==
  Put(R, n, [Entry(R, n, {"ZERO"}, now) EXCEPT !.status = "Released"])

\* mark_released and mark_committed insert too, but do not prune.
mark_released(R, n, now) ==
  Put(R, n, [Entry(R, n, {}, now) EXCEPT !.status = "Released"])
mark_committed(R, n, now) ==
  Put(R, n, [Entry(R, n, {}, now) EXCEPT !.status = "Committed"])

prune_consumed(R, chain_next) ==
  Restrict(R, {n \in DOMAIN R : n >= chain_next})

unresolved(R) == {n \in DOMAIN R : R[n].status \notin Resolved}

\* lowest_unresolved_at_or_above: a set of at most one nonce.
lowest_unresolved(R, chain_next) ==
  {n \in unresolved(R) :
     n >= chain_next /\ \A m \in unresolved(R) : m >= chain_next => n <= m}
=============================================================================
