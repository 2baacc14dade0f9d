------------------------------- MODULE Wallet -------------------------------
(***************************************************************************)
(* The send paths of FastWallet (src/src/wallet.rs): how a request gets a  *)
(* nonce from the tracker, is signed into the in-flight ledger, broadcast  *)
(* and settled, with its nonce kept, committed or given back.              *)
(*                                                                         *)
(* The tracker and the ledger are each one atomic call here (TrackerOps,   *)
(* InflightRecords); an await, and the gap between a call on one and the   *)
(* next call on the other, is where requests interleave.  A request signs  *)
(* at most one transaction, which goes by the request's name.              *)
(*                                                                         *)
(* The network is external: a transaction handed to the endpoints is on    *)
(* the wire until a pool takes it or it is lost; a pool may evict it.      *)
(***************************************************************************)
EXTENDS InflightRecords, TrackerOps

CONSTANTS
  Requests,    \* what callers ask the wallet to send
  Paths,       \* how: "plain" or "preheat"
  Syncers,     \* calls of sync_nonce, sync_nonce_latest, nonce_health_check
  SyncTags,    \* the block tags the syncers use
  Rescuers,    \* calls of replace_stalled_nonce (module StallRecovery)
  Permits,     \* max_pending_txs
  Fees,        \* the fees requests may sign with
  InitialNonce, \* the nonce the wallet is created with
  ChainStart,  \* transactions of the account mined before
  None,        \* no nonce yet
  MaxAge       \* ages are told apart up to this one

ASSUME PathsArePaths == Paths \subseteq {"plain", "preheat"}
ASSUME FeesAreNats == Fees \subseteq Nat \ {0}
ASSUME SyncTagsAreTags == SyncTags \subseteq {"latest", "pending"}
ASSUME WalletBounds ==
  /\ Permits \in Nat \ {0}
  /\ {InitialNonce, ChainStart, MaxAge} \subseteq Nat
ASSUME NoneIsNoNumber == None \notin Nat
ASSUME ProcessesAreDisjoint ==
  Requests \cap Syncers = {} /\ Rescuers \cap (Requests \cup Syncers) = {}

VARIABLES
  tr,        \* nonce_manager
  records,   \* inflight_nonces
  pc,        \* pc[p]: where request or syncer p is
  nonce,     \* nonce[x]: the nonce of x's transaction
  fee,       \* fee[x]: its fee
  ctx,       \* ctx[r]: the reservation in r's PreheatedContext
  got,       \* got[p]: the chain nonce p read before it applies it
  unmarked,  \* nonces release_preheat has given back and not yet marked
  wire,      \* transactions sent and not yet in a pool
  pool,      \* transactions in a pool
  mined,     \* transactions in the chain
  blurred    \* ghost: nonces whose record was dropped or resolved too early

calls == <<pc, nonce, fee, ctx, got, unmarked>>
network == <<wire, pool, mined>>
vars == <<tr, records, calls, network, blurred>>

Processes == Requests \cup Syncers \cup Rescuers
Senders == Requests \cup Rescuers

\* ledger_now.  Timestamps are relative: it is always MaxAge o'clock, and what
\* is stored grows older (Tick in StallRecovery).
now == MaxAge

\* Reservations: None for a plain send, Empty when the context holds none.
ContextStates == {"None", "Empty", "Held", "Broadcasting"}

\* latest: the chain's confirmed transaction count.
latest == ChainStart + Cardinality(mined)

\* eth_getTransactionCount at tag pending: latest and the pooled run above it.
pending ==
  Max({n \in latest .. latest + Cardinality(pool) :
         \A m \in latest .. n - 1 : \E x \in pool : nonce[x] = m})

TxCount(tag) == IF tag = "latest" THEN latest ELSE pending

Init ==
  /\ tr = new(InitialNonce)
  /\ records = [n \in {} |-> NewRecord({}, 0, 0)]
  /\ pc = [p \in Processes |-> "new"]
  /\ nonce = [x \in Senders |-> None]
  /\ fee = [x \in Senders |-> 0]
  /\ ctx = [r \in Requests |-> "None"]
  /\ got = [p \in Processes |-> 0]
  /\ unmarked = {}
  /\ wire = {} /\ pool = {} /\ mined = {}
  /\ blurred = {}

At(p, point) == pc[p] = point
Goto(p, point) == pc' = [pc EXCEPT ![p] = point]
SetCtx(r, state) == ctx' = [ctx EXCEPT ![r] = state]
Plain(r) == ctx[r] = "None"

TakeNonce(r) ==
  /\ nonce' = [nonce EXCEPT ![r] = next_nonce(tr)]
  /\ tr' = reserve(tr)

Finish(p) == Goto(p, "done")
-----------------------------------------------------------------------------
(* Who has a claim on a nonce *)

\* The request's transaction may still reach a pool, is in one, or is mined.
Live(r) == r \in wire \cup pool \cup mined

\* The request has the nonce to itself and has not handed it to the network.
\* A preheated one has it while its context does, or once it is broadcasting.
Holds(r) ==
  \/ pc[r] \in {"marked", "waiting", "sending"}
  \/ pc[r] \in {"allocated", "signed", "refused"} /\ Plain(r)
  \/ pc[r] # "done" /\ ctx[r] = "Held"
  \/ pc[r] = "refused" /\ ctx[r] = "Broadcasting"

Claims(x, n) == nonce[x] = n /\ (Live(x) \/ (x \in Requests /\ Holds(x)))
-----------------------------------------------------------------------------
(* Getting a nonce and signing *)

\* sign, sign_eip1559, sign_legacy: get_nonce without a guard.
Sign(r) ==
  /\ At(r, "new") /\ "plain" \in Paths
  /\ TakeNonce(r) /\ Goto(r, "allocated")
  /\ UNCHANGED <<records, fee, ctx, got, unmarked, network, blurred>>

\* preheat: reserve with a guard, kept in the context.
Preheat(r) ==
  /\ At(r, "new") /\ "preheat" \in Paths
  /\ TakeNonce(r) /\ SetCtx(r, "Held") /\ Goto(r, "preheated")
  /\ UNCHANGED <<records, fee, got, unmarked, network, blurred>>

\* preheat_warmup_only: a context without a reservation.
PreheatWarmupOnly(r) ==
  /\ At(r, "new") /\ "preheat" \in Paths
  /\ SetCtx(r, "Empty") /\ Goto(r, "preheated")
  /\ UNCHANGED <<tr, records, nonce, fee, got, unmarked, network, blurred>>

\* sign_with_preheat: mark_used, which succeeds once.
MarkUsed(r) ==
  /\ At(r, "preheated")
  /\ Goto(r, "used")
  /\ UNCHANGED <<tr, records, nonce, fee, ctx, got, unmarked, network, blurred>>

\* The nonce of the reservation; without one, reserve now.  The reservation may
\* be missing because release_preheat took it after mark_used.
BindNonce(r) ==
  /\ At(r, "used")
  /\ IF ctx[r] = "Held" THEN UNCHANGED <<tr, nonce, ctx>>
     ELSE TakeNonce(r) /\ SetCtx(r, "Held")
  /\ Goto(r, "allocated")
  /\ UNCHANGED <<records, fee, got, unmarked, network, blurred>>

\* A new record is again all there is to know of the nonce, unless another owns
\* it by now (release_preheat took r's reservation while r was signing).
RecordSigned(r) ==
  /\ records' = record_signed(records, nonce[r], r, fee'[r], now)
  /\ blurred' = IF Holds(r) THEN blurred \ {nonce[r]} ELSE blurred

\* build_and_sign succeeds and record_signed notes it.
SignOk(r) ==
  /\ At(r, "allocated")
  /\ \E f \in Fees : fee' = [fee EXCEPT ![r] = f]
  /\ RecordSigned(r) /\ Goto(r, "signed")
  /\ UNCHANGED <<tr, nonce, ctx, got, unmarked, network>>

\* record_signed_or_release: a failed signature gives the nonce back.
SignFails(r) ==
  /\ At(r, "allocated") /\ Plain(r)
  /\ tr' = recycle(tr, nonce[r]) /\ Goto(r, "mark_released")
  /\ UNCHANGED <<records, nonce, fee, ctx, got, unmarked, network, blurred>>

\* release_nonce: whoever has the signed transaction decides not to send it.
ReleaseNonce(r) ==
  /\ At(r, "signed") /\ Plain(r)
  /\ tr' = recycle(tr, nonce[r]) /\ Goto(r, "mark_released")
  /\ UNCHANGED <<records, nonce, fee, ctx, got, unmarked, network, blurred>>

\* Mutant: a guard that is Broadcasting gives its nonce back too.
ReleaseReservation_any(r) ==
  /\ tr' = IF ctx[r] # "Empty" THEN recycle(tr, nonce[r]) ELSE tr
  /\ SetCtx(r, "Empty")

\* release_reservation: the nonce goes back if the guard is still Held; a
\* guard that is Broadcasting is dropped and its nonce left to the chain.
ReleaseReservation(r) ==
  /\ tr' = IF ctx[r] = "Held" THEN recycle(tr, nonce[r]) ELSE tr
  /\ SetCtx(r, "Empty")

\* sign_with_preheat: a failed signature releases the reservation, silently.
SignWithPreheatFails(r) ==
  /\ At(r, "allocated") /\ ~Plain(r)
  /\ ReleaseReservation(r) /\ Finish(r)
  /\ UNCHANGED <<records, nonce, fee, got, unmarked, network, blurred>>

\* cancel_preheat, or drop of the context by its only owner.
CancelPreheat(r) ==
  /\ pc[r] \in {"preheated", "signed"} /\ ~Plain(r)
  /\ ReleaseReservation(r) /\ Finish(r)
  /\ UNCHANGED <<records, nonce, fee, got, unmarked, network, blurred>>

\* release_preheat from another task that shares the context; its mark_released
\* follows.  Before mark_used it also keeps the context from being used.
ReleasePreheat(r) ==
  /\ ~Plain(r) /\ pc[r] # "done"
  /\ ReleaseReservation(r)
  /\ unmarked' = unmarked \cup (IF ctx[r] = "Held" THEN {nonce[r]} ELSE {})
  /\ IF At(r, "preheated") THEN Finish(r) ELSE UNCHANGED pc
  /\ UNCHANGED <<records, nonce, fee, got, network, blurred>>

\* The tracker may have handed the nonce out again before it is marked.
MarkReleasedAt(n, others) ==
  /\ records' = mark_released(records, n, now)
  /\ blurred' = IF n < tr.current /\ n \notin tr.gaps /\ (\E x \in others : nonce[x] = n)
                THEN blurred \cup {n} ELSE blurred

ReleasePreheatMark(n) ==
  /\ n \in unmarked
  /\ MarkReleasedAt(n, Requests)
  /\ unmarked' = unmarked \ {n}
  /\ UNCHANGED <<tr, pc, nonce, fee, ctx, got, network>>
-----------------------------------------------------------------------------
(* Broadcasting *)

\* mark_preheat_broadcasting: sign now, broadcast later.
MarkPreheatBroadcasting(r) ==
  /\ At(r, "signed") /\ ctx[r] = "Held"
  /\ SetCtx(r, "Broadcasting") /\ Goto(r, "marked")
  /\ UNCHANGED <<tr, records, nonce, fee, got, unmarked, network, blurred>>

\* send_signed: record_broadcast_candidate, then wait for a permit.  A context
\* that was marked for it is dropped, which leaves the nonce alone.
SendSigned(r) ==
  /\ (At(r, "signed") /\ Plain(r)) \/ At(r, "marked")
  /\ fee' = fee /\ RecordSigned(r) /\ Goto(r, "waiting")
  /\ SetCtx(r, "None")
  /\ UNCHANGED <<tr, nonce, got, unmarked, network>>

\* The caller hands the bytes to endpoints of its own.
SendElsewhere(r) ==
  /\ At(r, "marked")
  /\ wire' = wire \cup {r} /\ Goto(r, "elsewhere")
  /\ UNCHANGED <<tr, records, nonce, fee, ctx, got, unmarked, pool, mined, blurred>>

\* commit_preheat, once an endpoint accepted them (a pool may have lost them
\* since): mark_committed if the context has its reservation, and commit it.
CommitPreheat(r) ==
  /\ At(r, "elsewhere") /\ r \notin wire
  /\ records' = IF ctx[r] = "Broadcasting"
                THEN mark_committed(records, nonce[r], now) ELSE records
  /\ SetCtx(r, "Empty") /\ Goto(r, "sent")
  /\ UNCHANGED <<tr, nonce, fee, got, unmarked, network, blurred>>

\* send_with_preheat: ctx.mark_broadcasting, an error if the guard is gone.
SendWithPreheat(r) ==
  /\ At(r, "signed") /\ ctx[r] = "Held"
  /\ SetCtx(r, "Broadcasting") /\ Goto(r, "waiting")
  /\ UNCHANGED <<tr, records, nonce, fee, got, unmarked, network, blurred>>

SendReleasedPreheat(r) ==
  /\ At(r, "signed") /\ ctx[r] = "Empty"
  /\ Finish(r)
  /\ UNCHANGED <<tr, records, nonce, fee, ctx, got, unmarked, network, blurred>>

InFlight == {r \in Requests : At(r, "sending")}

\* broadcast_signed_hash, broadcast_signed_result: a permit of the semaphore,
\* held until the endpoints have answered.
Broadcast(r) ==
  /\ At(r, "waiting") /\ Cardinality(InFlight) < Permits
  /\ wire' = wire \cup {r} /\ Goto(r, "sending")
  /\ UNCHANGED <<tr, records, nonce, fee, ctx, got, unmarked, pool, mined, blurred>>

\* pending_acquire_timeout, or the caller drops the future before it has a
\* permit: nothing was sent, but the nonce is kept.
PermitTimesOut(r) ==
  /\ At(r, "waiting")
  /\ Finish(r)
  /\ UNCHANGED <<tr, records, nonce, fee, ctx, got, unmarked, network, blurred>>

\* A pool takes x: its nonce is not consumed, and it outbids what it replaces.
Enters(x) ==
  /\ nonce[x] >= latest
  /\ \A y \in pool : nonce[y] = nonce[x] => fee[y] < fee[x]
  /\ pool' = {y \in pool : nonce[y] # nonce[x]} \cup {x}
  /\ wire' = wire \ {x}
  /\ mined' = mined

\* An endpoint accepted it.
ReplyOk(r) ==
  /\ At(r, "sending") /\ Enters(r)
  /\ Goto(r, "accepted")
  /\ UNCHANGED <<tr, records, nonce, fee, ctx, got, unmarked, blurred>>

\* is_definitive_precheck_rejection: every endpoint refused the bytes.
ReplyDefinitive(r) ==
  /\ At(r, "sending")
  /\ wire' = wire \ {r} /\ Goto(r, "refused")
  /\ UNCHANGED <<tr, records, nonce, fee, ctx, got, unmarked, pool, mined, blurred>>

\* Mutant: an ambiguous failure is taken for a definitive rejection.
ReplyAmbiguous_recycled(r) ==
  /\ At(r, "sending")
  /\ Goto(r, "refused")
  /\ UNCHANGED <<tr, records, nonce, fee, ctx, got, unmarked, network, blurred>>

\* Timeout, transport error, mixed verdicts, underpriced, or the caller drops the
\* future: the bytes may be live.
ReplyAmbiguous(r) ==
  /\ At(r, "sending")
  /\ Finish(r)
  /\ UNCHANGED <<tr, records, nonce, fee, ctx, got, unmarked, network, blurred>>

\* recover_nonce_error: "nonce too low" syncs from pending ...
ReplyTooLow(r) ==
  /\ At(r, "sending") /\ nonce[r] < latest
  /\ wire' = wire \ {r} /\ Goto(r, "read_pending")
  /\ UNCHANGED <<tr, records, nonce, fee, ctx, got, unmarked, pool, mined, blurred>>

\* ... "nonce too high" from latest; another endpoint may hold the bytes.
ReplyTooHigh(r) ==
  /\ At(r, "sending") /\ nonce[r] > latest
  /\ wire' \in {wire, wire \ {r}} /\ Goto(r, "read_latest")
  /\ UNCHANGED <<tr, records, nonce, fee, ctx, got, unmarked, pool, mined, blurred>>

\* commit_reservation, then mark_broadcast_accepted.
Accepted(r) ==
  /\ At(r, "accepted")
  /\ IF Plain(r) THEN ctx' = ctx ELSE SetCtx(r, "Empty")
  /\ records' = mark_broadcast_accepted(records, nonce[r], r, now)
  /\ Goto(r, "sent")
  /\ UNCHANGED <<tr, nonce, fee, got, unmarked, network, blurred>>

\* Mutant: a refused nonce is not given back.
Recycle_burns(r) ==
  /\ At(r, "refused") /\ ctx[r] \in {"None", "Broadcasting"}
  /\ IF Plain(r) THEN ctx' = ctx ELSE SetCtx(r, "Empty")
  /\ Goto(r, "mark_released")
  /\ UNCHANGED <<tr, records, nonce, fee, got, unmarked, network, blurred>>

\* nonce_manager.release, or release_rejected_broadcast on the guard.
Recycle(r) ==
  /\ At(r, "refused") /\ ctx[r] \in {"None", "Broadcasting"}
  /\ tr' = recycle(tr, nonce[r])
  /\ IF Plain(r) THEN ctx' = ctx ELSE SetCtx(r, "Empty")
  /\ Goto(r, "mark_released")
  /\ UNCHANGED <<records, nonce, fee, got, unmarked, network, blurred>>

\* release_preheat took the guard meanwhile: nothing is released.
RecycleNothing(r) ==
  /\ At(r, "refused") /\ ctx[r] = "Empty"
  /\ Finish(r)
  /\ UNCHANGED <<tr, records, nonce, fee, ctx, got, unmarked, network, blurred>>

\* The ledger hears of the release only after the tracker.
MarkReleased(r) ==
  /\ At(r, "mark_released")
  /\ MarkReleasedAt(nonce[r], Requests \ {r})
  /\ Finish(r)
  /\ UNCHANGED <<tr, nonce, fee, ctx, got, unmarked, network>>

\* verify_broadcast_check_only sees the transaction.
VerifyBroadcast(r) ==
  /\ At(r, "sent") /\ r \in pool \cup mined
  /\ records' = mark_mempool_seen(records, nonce[r], r, now)
  /\ UNCHANGED <<tr, calls, network, blurred>>

\* The caller has the receipt: mark_transaction_mined.
MarkMined(r) ==
  /\ At(r, "sent") /\ r \in mined
  /\ records' = mark_mined(records, nonce[r], r, now)
  /\ Finish(r)
  /\ UNCHANGED <<tr, nonce, fee, ctx, got, unmarked, network, blurred>>
-----------------------------------------------------------------------------
(* sync_nonce, sync_nonce_latest, nonce_health_check *)

SyncCall(s) ==
  /\ At(s, "new")
  /\ \E tag \in SyncTags : Goto(s, IF tag = "latest" THEN "read_latest" ELSE "read_pending")
  /\ UNCHANGED <<tr, records, nonce, fee, ctx, got, unmarked, network, blurred>>

HealthCheck(s) ==
  /\ At(s, "new") /\ "pending" \in SyncTags
  /\ got' = [got EXCEPT ![s] = pending]
  /\ Goto(s, "prune")
  /\ UNCHANGED <<tr, records, nonce, fee, ctx, unmarked, network, blurred>>

\* self_check: reads at the pending tag, and syncs the tracker alone.
SelfCheck(s) ==
  /\ At(s, "new") /\ "pending" \in SyncTags
  /\ got' = [got EXCEPT ![s] = pending]
  /\ Goto(s, "checked")
  /\ UNCHANGED <<tr, records, nonce, fee, ctx, unmarked, network, blurred>>

SelfCheckSync(s) ==
  /\ At(s, "checked")
  /\ tr' = forward(tr, got[s]) /\ Finish(s)
  /\ UNCHANGED <<records, nonce, fee, ctx, got, unmarked, network, blurred>>

\* The answer is a snapshot: the chain may move before it is applied.
SyncRead(p) ==
  /\ \/ At(p, "read_latest") /\ got' = [got EXCEPT ![p] = latest]
     \/ At(p, "read_pending") /\ got' = [got EXCEPT ![p] = pending]
  /\ Goto(p, "apply")
  /\ UNCHANGED <<tr, records, nonce, fee, ctx, unmarked, network, blurred>>

SyncReadFails(p) ==
  /\ pc[p] \in {"read_latest", "read_pending"}
  /\ Finish(p)
  /\ UNCHANGED <<tr, records, nonce, fee, ctx, got, unmarked, network, blurred>>

SyncApply(p) ==
  /\ At(p, "apply")
  /\ tr' = forward(tr, got[p]) /\ Goto(p, "prune")
  /\ UNCHANGED <<records, nonce, fee, ctx, got, unmarked, network, blurred>>

SyncPrune(p) ==
  /\ At(p, "prune")
  /\ records' = prune_consumed(records, got[p])
  /\ blurred' = blurred \cup (latest .. got[p] - 1)
  /\ Finish(p)
  /\ UNCHANGED <<tr, nonce, fee, ctx, got, unmarked, network>>
-----------------------------------------------------------------------------
(* The network (external) *)

\* The broadcast of x is over; the replacements are in StallRecovery.
Answered(x) == pc[x] \notin {"sending", "cancelling", "resending"}

\* Bytes whose sender had no clear answer reach a pool after all, or never do.
Arrive(x) ==
  /\ x \in wire /\ Answered(x) /\ Enters(x)
  /\ UNCHANGED <<tr, records, calls, blurred>>

Lose(x) ==
  /\ x \in wire /\ Answered(x)
  /\ wire' = wire \ {x}
  /\ UNCHANGED <<tr, records, calls, pool, mined, blurred>>

Evict(x) ==
  /\ x \in pool
  /\ pool' = pool \ {x}
  /\ UNCHANGED <<tr, records, calls, wire, mined, blurred>>

Mine(x) ==
  /\ x \in pool /\ nonce[x] = latest
  /\ pool' = pool \ {x} /\ mined' = mined \cup {x}
  /\ UNCHANGED <<tr, records, calls, wire, blurred>>

Network == \E x \in Senders : Arrive(x) \/ Lose(x) \/ Evict(x) \/ Mine(x)
-----------------------------------------------------------------------------
Request(r) ==
  \/ Sign(r)
  \/ Preheat(r)
  \/ PreheatWarmupOnly(r)
  \/ MarkUsed(r)
  \/ BindNonce(r)
  \/ SignOk(r)
  \/ SignFails(r)
  \/ SignWithPreheatFails(r)
  \/ CancelPreheat(r)
  \/ ReleasePreheat(r)
  \/ ReleaseNonce(r)
  \/ MarkPreheatBroadcasting(r)
  \/ SendElsewhere(r)
  \/ CommitPreheat(r)
  \/ SendSigned(r)
  \/ SendWithPreheat(r)
  \/ SendReleasedPreheat(r)
  \/ Broadcast(r)
  \/ PermitTimesOut(r)
  \/ ReplyOk(r)
  \/ ReplyDefinitive(r)
  \/ ReplyAmbiguous(r)
  \/ ReplyTooLow(r)
  \/ ReplyTooHigh(r)
  \/ Accepted(r)
  \/ Recycle(r)
  \/ RecycleNothing(r)
  \/ MarkReleased(r)
  \/ VerifyBroadcast(r)
  \/ MarkMined(r)

Sync(p) == SyncRead(p) \/ SyncReadFails(p) \/ SyncApply(p) \/ SyncPrune(p)

Syncer(s) == SyncCall(s) \/ HealthCheck(s) \/ SelfCheck(s) \/ SelfCheckSync(s)

Next ==
  \/ \E r \in Requests : Request(r)
  \/ \E n \in unmarked : ReleasePreheatMark(n)
  \/ \E s \in Syncers : Syncer(s)
  \/ \E p \in Processes : Sync(p)
  \/ Network

Spec == Init /\ [][Next]_vars
-----------------------------------------------------------------------------
(* Properties *)

Points ==
  {"new", "preheated", "used", "allocated", "signed", "marked", "elsewhere",
   "waiting", "sending", "accepted", "refused", "mark_released", "sent", "done",
   "read_latest", "read_pending", "apply", "prune", "checked"}

TypeOK ==
  /\ tr \in [current : Nat, synced : Nat, gaps : SUBSET Nat]
  /\ \A n \in DOMAIN records :
       n \in Nat /\ records[n] \in [status : Statuses, hashes : SUBSET Senders,
                                   first_seen : Nat, accepted : Nat, fee : Nat]
  /\ pc \in [Processes -> Points]
  /\ nonce \in [Senders -> Nat \cup {None}]
  /\ fee \in [Senders -> Nat]
  /\ ctx \in [Requests -> ContextStates]
  /\ got \in [Processes -> Nat]
  /\ unmarked \subseteq Nat
  /\ {wire, pool, mined} \subseteq SUBSET Senders
  /\ wire \cap pool = {} /\ wire \cap mined = {} /\ pool \cap mined = {}
  /\ blurred \subseteq Nat

\* A nonce has at most one claim: two requests never hold it, and it is never
\* given to a request while the transaction of another may still reach a pool,
\* is in one or is mined, whatever the endpoints answered and whoever released
\* or synced in between.  Otherwise the wallet would replace its own live
\* transaction.
OneClaimPerNonce ==
  /\ \A x, y \in Requests : x # y /\ Claims(x, nonce[x]) => ~Claims(y, nonce[x])
  /\ \A x \in Requests :
       Claims(x, nonce[x]) => nonce[x] < tr.current /\ nonce[x] \notin tr.gaps

\* A stalled head of line is one that replace_stalled_nonce can find.  If the
\* chain waits for a nonce that was handed out, is not free for reuse, and no
\* request holds or has on its way, then the ledger has an unresolved record of
\* it, except where a sync with the pending tag dropped the record of a pooled
\* transaction, or a release was marked after the nonce had its next owner.
StallIsVisible ==
  latest < tr.current /\ latest \notin tr.gaps
    /\ (\A x \in Senders : ~Claims(x, latest))
    => latest \in unresolved(records) \cup blurred

\* The fee a replacement has to outbid is in the ledger for every transaction
\* in a pool, with the same two exceptions.
PoolFeesAreLedgered ==
  \A x \in pool \ {x \in pool : nonce[x] \in blurred} :
    nonce[x] \in DOMAIN records /\ records[nonce[x]].fee >= fee[x]

\* The wallet uses the tracker as its contract requires although the plain path
\* releases by number, without a guard: what requests hold is an owned nonce of
\* the atomic pool that NonceTracker implements.
Owned == [r \in Requests |-> IF Holds(r) THEN {nonce[r]} ELSE {}]
Gone ==
  {n \in 0 .. tr.current - 1 :
     n \notin tr.gaps /\ \A r \in Requests : Holds(r) => nonce[r] # n}

Pool == INSTANCE NoncePool WITH
          Tasks <- Requests, InitNonce <- InitialNonce, owned <- Owned, gone <- Gone
ImplementsPool == Pool!Spec
=============================================================================
