--------------------------- MODULE InflightLedger ---------------------------
(***************************************************************************)
(* The in-flight ledger of src/src/inflight.rs on its own, under every     *)
(* sequence of calls its callers may make: the wallet's send paths call    *)
(* it between awaits, so the calls about one nonce arrive in any order.    *)
(***************************************************************************)
EXTENDS InflightRecords

CONSTANTS
  Nonces,    \* the nonces callers name
  Hashes,    \* the transactions they may sign at each nonce
  FeeOf,     \* FeeOf[h]: the fee of transaction h
  MaxTime,   \* bound on the clock
  MaxCalls   \* bound on the calls, those of prune_consumed apart

ASSUME NoncesAreNats == Nonces \subseteq Nat
ASSUME FeesArePositive == FeeOf \in [Hashes -> Nat \ {0}]
ASSUME LedgerBounds == MaxTime \in Nat /\ MaxCalls \in Nat

VARIABLES
  records,   \* the map under the mutex
  now,       \* ledger_now()
  calls,     \* ghost: calls made
  signed,    \* ghost: signed[n]: transactions signed while n was tracked
  accepts    \* ghost: accepts[n]: acceptances in n's current attempt

vars == <<records, now, calls, signed, accepts>>

Init ==
  /\ records = [n \in {} |-> NewRecord({}, 0, 0)]
  /\ now = 0
  /\ calls = 0
  /\ signed = [n \in Nonces |-> {}]
  /\ accepts = [n \in Nonces |-> 0]

\* A nonce that leaves the ledger takes its ghosts with it.
Tracked(f, none) ==
  [n \in Nonces |-> IF n \in DOMAIN records' THEN f[n] ELSE none]

Call(R) == calls < MaxCalls /\ calls' = calls + 1 /\ records' = R /\ now' = now

NewAttempt(n) == n \in DOMAIN records /\ records[n].status = "Released"

Sign(n, h) ==
  /\ Call(record_signed(records, n, h, FeeOf[h], now))
  /\ signed' = Tracked([signed EXCEPT ![n] = @ \cup {h}], {})
  /\ accepts' = Tracked([accepts EXCEPT ![n] = IF NewAttempt(n) THEN 0 ELSE @], 0)

Accept(n, h) ==
  /\ \/ Call(mark_broadcast_accepted(records, n, h, now))
     \/ Call(mark_rebroadcast_accepted(records, n, h, now))
  /\ signed' = Tracked(signed, {})
  /\ accepts' = Tracked([accepts EXCEPT ![n] = @ + 1], 0)

Observe(n, h) ==
  /\ \/ Call(mark_mempool_seen(records, n, h, now))
     \/ Call(mark_mined(records, n, h, now))
  /\ signed' = Tracked(signed, {})
  /\ accepts' = Tracked(accepts, 0)

Settle(n) ==
  /\ \/ Call(mark_released(records, n, now))
     \/ Call(mark_committed(records, n, now))
  /\ UNCHANGED <<signed, accepts>>

PruneConsumed(chain_next) ==
  /\ records' = prune_consumed(records, chain_next)
  /\ UNCHANGED <<now, calls>>
  /\ signed' = Tracked(signed, {})
  /\ accepts' = Tracked(accepts, 0)

Tick ==
  /\ now < MaxTime
  /\ now' = now + 1
  /\ UNCHANGED <<records, calls, signed, accepts>>

Next ==
  \/ \E n \in Nonces :
       \/ \E h \in Hashes : Sign(n, h) \/ Accept(n, h) \/ Observe(n, h)
       \/ Settle(n)
       \/ PruneConsumed(n)
  \/ Tick

Spec == Init /\ [][Next]_vars
-----------------------------------------------------------------------------
TypeOK ==
  /\ DOMAIN records \subseteq Nonces
  /\ \A n \in DOMAIN records :
       records[n] \in [status : Statuses, hashes : SUBSET Hashes, first_seen : Nat,
                       accepted : Nat, fee : Nat]
  /\ now \in Nat
  /\ calls \in Nat
  /\ signed \in [Nonces -> SUBSET Hashes]
  /\ accepts \in [Nonces -> Nat]

\* A replacement is priced over the highest fee ever signed at its nonce while
\* the nonce was tracked, however often it was released and signed again
\* (max_fee_seen), and every such transaction is among the hashes a liveness
\* probe of the stranded nonce would look for.
FeeBasisCovers ==
  \A n \in DOMAIN records : \A h \in signed[n] :
    records[n].fee >= FeeOf[h] /\ h \in records[n].hashes

\* accepted_broadcasts counts the acceptances of the attempt at hand, whatever
\* was released, observed or accepted before it began.
AcceptedOfThisAttempt ==
  \A n \in DOMAIN records : records[n].accepted = accepts[n]

\* inflight.rs:150-157: the age of a nonce that stays in the ledger restarts
\* exactly when a Released nonce is signed again; a replacement for a stranded
\* transaction never makes it look fresh, nor a new attempt look stranded.
AgeRestartsWithTheAttempt ==
  [][\A n \in DOMAIN records \cap DOMAIN records' :
       IF records[n].status = "Released" /\ records'[n].status = "Signed"
       THEN records'[n].first_seen = now
       ELSE records'[n].first_seen = records[n].first_seen]_vars

\* Whether it is consumed by the chain or evicted by the bound, a record leaves
\* the ledger only with every record below it: what is tracked is always the
\* upper end of what was.
LeavesFromTheBottom ==
  [][\A n \in DOMAIN records \ DOMAIN records' :
       \A m \in DOMAIN records' : n < m]_vars
=============================================================================
