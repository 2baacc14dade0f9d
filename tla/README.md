# A TLA+ model of fast-wallet

fast-wallet is a Rust library that signs and broadcasts Ethereum transactions
with as little latency as possible. To be fast it keeps its own idea of the next
nonce instead of asking the chain, hands nonces out without a lock, sends the same
bytes to several endpoints and continues with the first answer. Everything that can
go wrong with that is a question of order: who has which nonce, what may still be
live in a pool, and what the wallet still remembers about it. These modules model
that part of the library, with the transactions it signs and the clients it sends
them through, check it with TLC on small instances, and prove the safety of most of it
(the lock-free tracker, the ledger, the send paths with stall recovery, the broadcast to
endpoints, the gas price caches, and the prices of replacements) for every instance
with TLAPS.

Paths below are relative to the repository (`src/nonce.rs` is the tracker).

## The system

| Component | State | Operations | Hard part |
|---|---|---|---|
| Nonce tracker, `src/nonce.rs` | `current`, `synced_nonce`, `pending_count`, `gap_count` (atomics), `gaps` (a set under a mutex), the four states of each `ReservedNonce` | `reserve`, `get_and_increment`, `release`, `confirm`, `set`/`sync_forward`, `recover_stalled`, `reset_pending`, the guard's `mark_broadcasting`, `commit`, `release`, `release_rejected_broadcast`, drop | lock-free reservations against locked recycling, collapse, sync and rewind |
| In-flight ledger, `src/inflight.rs` | a map nonce -> record under one mutex | `record_signed`, `mark_*`, `prune_consumed`, `lowest_unresolved_at_or_above` | calls arrive in any order; old and new attempts share a record; the map is bounded |
| Send paths, `src/wallet.rs` | tracker, ledger, contexts, pending semaphore | `sign*`, `preheat*`, `sign_with_preheat`, `release_preheat`, `cancel_preheat`, `release_nonce`, `send_signed*`, `send_with_preheat*`, `mark_preheat_broadcasting`, `commit_preheat`, `verify_broadcast_check_only`, `mark_transaction_mined` | what an answer proves about the bytes; tracker and ledger are updated one after the other; a context may be shared by tasks |
| Synchronisation, `src/wallet.rs` | - | `sync_nonce`, `sync_nonce_latest`, `nonce_health_check`, `self_check`, background refresh, recovery after a nonce error | the chain is read, awaited and then applied |
| Stall recovery, `src/wallet.rs` | `last_stall_replace` | `replace_stalled_nonce`, `verify_broadcast`, `recover_stalled` | six awaits, with requests running between them; ages, windows, fees |
| Gas caches, `src/wallet.rs`, `src/gas_provider.rs` | two timed caches, a fetch mutex for each, a ticker | `get_gas_price`, `get_priority_fee`, `refresh_gas_prices`, background refresh, the read of `send_quick_liquidation` | double-checked locking over a network call, a refresh that goes past it, a TTL equal to the refresh interval |
| Redundant endpoints, `src/rpc/batch.rs`, `src/rpc/observation.rs`, `src/error/` | requests in flight, two flags shared with the observer | `broadcast_transaction*` | first success, detached losers, mixed verdicts |
| Broadcaster, `src/broadcast.rs` | requests in flight | race, all, priority, private first | fallback order, dropped losers |
| Clients, `src/wallet.rs`, `src/rpc/batch.rs` | the builder's lists and flags; one client per endpoint | `FastWalletBuilder`, `new`, `with_multiple_rpcs`, `with_known_nonce`, `warmup_connections` | setters in any order, one endpoint under several spellings, exclusivity |
| Warm state, `src/warm.rs`, `src/rpc/client.rs` | last success of each client | `probe_due`, `mark_success`, loss guard | calls on one client race, and are dropped |
| Reads, receipt wait, `src/rpc/` | - | JSON-RPC, `wait_for_receipt` | error counting, timeouts |
| Transactions, `src/transaction.rs`, `src/signer.rs` | a thread-local buffer | requests, defaults, bumps, cancels, RLP, signing | lengths declared apart from what is written; fees that have to clear a pool's rule after rounding |
| Nonce managers, `src/nonce.rs` | trackers by address | forwarding, `wait_for_sync` | a missed notification |
| TLS, command line | - | process set-up | - |

How they interact: a request reserves a nonce from the tracker, signs, writes the
ledger, takes a permit, and hands the bytes to the endpoints. The answer decides the
nonce's fate. Accepted: it is spent and the ledger notes it. Definitively refused by
every endpoint: no pool has the bytes, so the tracker gets the nonce back and the
ledger is then told. Nonce too low or high: the tracker is synchronised from the
chain. Anything else is ambiguous and the nonce stays out. Synchronisation moves the
tracker forward and prunes the ledger. When the chain waits for a nonce nobody will
send, `replace_stalled_nonce` finds it in the ledger, as the lowest unresolved record
of sufficient age, and cancels it with a higher fee.

What makes each part correct:

* tracker: a nonce has one owner; a nonce is never stranded between owners; gaps,
  their count and `current` stay consistent; the tracker is a simple atomic pool;
  every call returns;
* ledger: highest fee and all hashes are kept across attempts, clock and count
  restart with an attempt, records leave only from the bottom;
* send paths: never two live transactions of two requests at one nonce, whatever the
  endpoints answer; a stuck head of line is always one the recovery can find;
* recovery: a cancel stays at the head, out-bids what is there, leaves fresh
  transactions alone, and the head does get unblocked;
* redundant endpoints: what the sender concludes is true of the bytes, a failure has
  every verdict, nobody is asked before those who go first have failed;
* gas caches: prices are as young as promised, one request serves all who wait for
  it, and nobody waits for ever;
* clients: signed bytes go to the endpoints the caller meant, once each; warmup probes
  exactly the endpoints the wallet does not know to be connected; every call returns;
* transactions: a node reads what was signed; tips stay within maximum fees; a
  replacement out-bids what it replaces, and failed attempts do not raise the next.

## Modules

| Module | What it is |
|---|---|
| `NonceTracker` | `src/nonce.rs` with one step per atomic access or critical section. `pc[t]` names the step a task is at; `lock` is the mutex; `guard[t]`, `nonce[t]` are its reservation |
| `NoncePool` | abstract specification: what the tracker promises, in atomic steps, without counter or gaps |
| `NonceTrackerProofs` | TLAPS proofs about `NonceTracker` and `TrackerSequential`, for every value of their constants |
| `TrackerOps` | the tracker's calls as functions on a record, for the modules that compose |
| `TrackerSequential` | ties the two: run one call at a time, `NonceTracker` computes `TrackerOps` |
| `InflightRecords` | the ledger's calls as functions on its map |
| `InflightLedger` | the ledger as a state machine under every sequence of calls |
| `InflightLedgerProofs` | TLAPS proofs about `InflightLedger`, for every value of its constants |
| `Wallet` | requests, syncers and the network over `TrackerOps` and `InflightRecords` |
| `StallRecovery` | `Wallet` extended with rescuers, `recover_stalled` and time |
| `SendOutcome` | abstract specification: what the wallet may conclude from one broadcast |
| `EndpointBroadcast` | one broadcast to several endpoints: the fan-out of `BatchRpcClient` with its observer, and the four strategies of `TransactionBroadcaster`; implements `SendOutcome` |
| `EndpointBroadcastProofs` | TLAPS proofs about `EndpointBroadcast`, for every value of its constants |
| `GasCache` | the two gas price caches, their getters, refreshers and background task |
| `GasCacheProofs` | TLAPS proofs about `GasCache`, for every value of its constants |
| `WalletProofs` | TLAPS proofs about `Wallet` and `StallRecovery`, for every value of their constants |
| `WalletLedgerProofs` | TLAPS proofs about what `Wallet` may expect of the ledger, over `WalletProofs` |
| `TxEncoding` | typed transactions, their RLP, signing and what a node reads, as functions |
| `Transactions` | over `TxEncoding`: the transactions the wallet signs at one nonce, the request, its re-send and cancels, and a pool that takes only what out-bids |
| `TransactionsProofs` | TLAPS proofs about `Transactions`, for every value of its constants |
| `RpcClient` | HTTP clients, the requests open on them, and what each remembers of its endpoint |
| `WalletClients` | over `RpcClient`: the builder, and the calls of a wallet that share its clients |
| `WalletClientsProofs` | TLAPS proofs about `WalletClients`, for every value of its constants |
| `MC*` | small instances; each `.cfg` names one run |

Correspondence of state. In `NonceTracker` the variables have the source's names. In
`Wallet`, `tr` is `nonce_manager` (its one `NonceTracker`), `records` is
`inflight_nonces`, `ctx[r]` the `reservation` of a `PreheatedContext`, `pc[p]` the
await or call boundary a task is at. `wire`, `pool` and `mined` are the outside: sent
bytes, transactions in a pool, transactions in the chain. A request signs at most one
transaction, so the transaction has the request's name; a rescuer is one call of
`replace_stalled_nonce` or `verify_broadcast` and names its replacement. Ghosts are
`spent`, `leaked` in the tracker, `signed`, `accepts` in the ledger, `expected` in
`TrackerSequential`, `blurred` in `Wallet`, `returned` in `GasCache`, `bytes` (what
became of the bytes at an endpoint) in `EndpointBroadcast`, `over` (what a message is
priced over) and `taken` in `Transactions`, `heard` in `RpcClient`, and `meant` and the
fields `sent` and `polls` of a call in `WalletClients`.

A request of `Wallet` that is `"waiting"` has its ledger entry and wants a permit. At
`"marked"` its context is `Broadcasting` but nothing is sent: the caller may then send
through the wallet (`SendSigned`, which drops the context) or through endpoints of its
own (`SendElsewhere`, external, then `CommitPreheat`). A future dropped by its caller
ends like a call whose answer says nothing. Bytes of an open broadcast reach a pool with
the answer; an endpoint that took them and was not heard is `ReplyAmbiguous` followed by
`Arrive`.

In `EndpointBroadcast` every strategy is a sequence of waves: the fan-out, the race and
`broadcast_all` have one, `broadcast_priority` one per endpoint, and
`broadcast_private_first` two. `req[e]` is the future of endpoint `e`, with its verdict
when it has ended; `rows`, `detached`, `first_result` are the observer's. All futures of
a broadcast are polled by one task and `select_all` stops at the first that is ready, so
a request's end and what the collector makes of it are one step. An endpoint judges the
bytes whether or not anybody still listens; a transport verdict says nothing about them.
`SendOutcome` is the interface to `Wallet`: its replies are `ReplyOk`, `ReplyDefinitive`
and the ambiguous ones there, with the same condition on the bytes.

In `GasCache` a price is its age, since nothing else of it matters: `stamp` is the age of
the `Instant` stored with it, `price` the time since the endpoint read it. A process is
one call that may repeat; the background task waits for its two getters as the processes
`"gas_price"` and `"priority_fee"`. Taking the mutex and the second look are one step
because nothing the wallet does in between can tell.

In `Transactions` fees are in gwei, as the library's defaults are round there; rounding
and saturation are those of `bump_u256`. An RLP item is `<<kind, meaning, size>>`, a list
its type prefix, the length its header declares, and its items, so that a wrong length
or a missing field shows; the hash of a buffer is its content, so that a stale buffer
shows; a signature says by which hash and with which parity and leading zeros it was
made. `ledger` is the one record of the nonce.

In `RpcClient` a URL is a spelling and the target it parses to; there is one client per
entry of `clients`, and a request ends with a result, with an empty answer, with an
error of JSON-RPC, or lost, which includes being dropped with its future. Time counts in
ticks up to the longer of the two warmup windows.

Granularity. The tracker is a step per atomic access because its hazards are between
these. In `Wallet` a tracker or ledger call is one step: for the tracker because
`NonceTracker` implements the atomic pool (checked and proved) and computes
`TrackerOps` when calls do not overlap, for the ledger because each call is one
critical section. Between any two calls, and at every await, others may run.

`blurred` is where the wallet is known to lose track. A synchronisation or health
check with the `pending` tag drops the record of a transaction that is only pooled;
and a release may be marked in the ledger after the tracker has given the nonce away. A
nonce touched by either is blurred until its owner signs again; a signature by somebody
whose reservation was released meanwhile does not count. Properties that rely on
the ledger except blurred nonces, so they say exactly how far it can be trusted; both
cases are described below.

## Runs

| Run | Question | Bounds |
|---|---|---|
| `tracker_safety` | Is the lock-free tracker an atomic pool? Exclusive nonces, nothing stranded, gaps and their count tidy, no underflow, rewinds only over free nonces | 3 tasks, nonces to 3, one forgotten guard, chain nonces 0 and 2 |
| `tracker_live` | Does every call return against concurrent reservations, also those that race a recovery? | 2 tasks, nonces to 3, chain nonce 1, `Quiescent` off |
| `tracker_sequential` | Do the steps of each call add up to the function the wallet modules use, and does reuse go lowest first? | 4 tasks, nonces to 5 |
| `ledger` | What survives calls in any order? | 3 nonces, 2 tracked, 2 hashes each, 5 calls |
| `wallet_paths` | Both send paths with shared contexts, broadcasts the caller manages, released nonces, refusals, losses, evictions, dropped calls and one sync, health check or self check: one claim per nonce, stalls visible, fees known, the abstract pool implemented | 2 requests, 2 fees, 1 syncer, 1 permit, a chain ahead of the wallet by one |
| `stall` | Do these hold with cancels, re-sends, rewinds and time, do cancels stay at the head with a sufficient basis, and does the chain get past a stuck head? | 2 plain requests that pay 2, a network price of 1 or 3, 1 rescuer, no syncer, ages to 1 tick |
| `stall_handed_out` | violated: `CancelIsNotHandedOut` | 2 plain requests, 1 rescuer |
| `endpoints` | Does a broadcast tell the truth, under the fan-out and every strategy? Are verdicts complete, fallbacks in order, rows consistent with the result, and the losers of a fan-out heard? | 3 endpoints, 2 of them private |
| `gas_cache` | Are prices young, requests shared, calls finite, and how stale may background refresh leave a price? | 1 caller, 1 refresher, the background task; TTL 3, maximum age 2, interval 3, round trips to 1 |
| `transactions` | Does a node read what was signed, are prices valid, do replacements out-bid all they replace, and does a failed attempt leave the next alone? | 6 requests of all three types, one gas price and two tips that may also be missing, 2 cancels, 2 signatures |
| `cancel_outbids` | violated: `CancelOutbids` | 2 legacy requests, 1 cancel |
| `clients` | Do sends reach the set the builder was given, does warmup know its endpoints, is the receipt wait's verdict right, does every call return? | 2 endpoints with 2 spellings each, 2 builder calls, 2 wallet calls, windows of 2 and 1 ticks |

Why the bounds suffice. Conflicts over a nonce involve an owner, a second task that
interferes and one that turns the result into a second owner: three tasks. Three
nonces give a gap below the top, a gap to collapse and the top. In the wallet two
requests give every relation two nonces have to the head of line; the syncer applies
stale reads; `got` values lag the chain by up to two. A `pending` read counts pooled
transactions. With the chain at 1 and the wallet at 0 the first request meets "nonce
too low". Two fees make the highest differ from the last. One permit makes requests
wait for it. In `stall` the tick distinguishes
younger than `STALL_REPLACE_MIN_HEAD_AGE` from as old, and inside
`STALL_REPLACE_WINDOW` from outside. Requests there pay more than the network's lower
price, so that a cancel priced from the network alone would not out-bid a pooled one, and
less than the higher, so that a cancel follows the market too. No cancel needs more than
`MaxFee`.

`HeadUnblocks` speaks of the two nonces that two requests can be given. A head is stuck
when the chain waits for it, it has been given out and is not free, and no request still
has it in hand: its transaction was never sent, is on the wire, or sits in a pool, where
it may never be mined. The property holds only once the chain is past that nonce. A
cancel that is sent and then refused or lost does not count, and the caller has to try
again. Three things excuse it, and TLC shows that it needs each: a rewind by
`recover_stalled`, after which the nonce is free; a record lost by a late mark of a
release (`blurred`, see below); and a model out of rescuers. A rescuer stands for one
transaction a pool takes, so with one of them the run shows the first head that needs
one being passed, after any number of failures, and not a second in the same behaviour;
a rescuer whose re-send is pooled above the head is not there to cancel it either. A
stuck head that was recorded without a fee is `cancel_outbids`, not this run.

`MaxTracked` is 2 in the ledger run so that eviction happens and 256 elsewhere so that it
does not. Time is relative: stored timestamps grow older and the clock stands still, so
no clock bound is needed.

Three endpoints give a wave of two, a wave after it, and a winner between a failure and
a loser. In `gas_cache` the maximum age is below the TTL, so that both limits matter, and
every cache has two getters besides `refresh_gas_prices`; ages stop at `MaxAge`, above
every limit, and the ticker's lag at `MaxLag`. Requests may fail in half of the
behaviours (`faulty`); the property on background refresh is about the others.

The requests of `transactions` have every type, an absent recipient, empty and nonempty
data and access lists, a tip of zero, and a tip above the maximum fee; the
tips make a cancel follow the network or the record. In `clients` two builder calls give
every pair of setters in every order, and two wallet calls are enough for one to drop
what another relies on; two spellings make each endpoint a candidate for a second client.

`CHECK_DEADLOCK FALSE` is set where the system may stop: a wallet whose requests are
over and whose network is quiet has nothing to do. Symmetry is used over tasks and
requests in runs without liveness. The view of `wallet_paths` drops data that no guard
or property reads (hashes and acceptance counts, values of finished calls, records of
nonces the chain is past) and merges the unresolved statuses of a record, which nothing
in the wallet tells apart.

## Violations found

* `stall_handed_out`: a head whose first broadcast is still open passes the gate; when
  the endpoints refuse it, its nonce is recycled and handed out while the cancel is
  live.
* `cancel_outbids`: the convenience calls sign legacy transactions, which have no
  EIP-1559 fees to record, so a cancel of a well paid liquidation is priced from the
  network alone and a pool that holds the liquidation refuses it.

Each is a disagreement of the code with a comment or doc, quoted in `PROJECT.json`.
Seen while modelling, without a run:

* `mark_released` and `mark_committed` insert without pruning, so the "small bounded
  ledger" (`src/inflight.rs:95`) is not bounded by them.
* The release of a refused nonce reaches the tracker first. Another request takes it,
  signs and is accepted; then the old request marks it `Released`. A pooled transaction
  is now resolved in the ledger, and `replace_stalled_nonce` answers `NoCandidate` if it
  is stuck.
* Age is counted from the first signature; a transaction signed 30 s before it is sent
  can be cancelled the moment it enters a pool (`src/wallet.rs:389-390` says otherwise).
  A nonce given back by `cancel_preheat` after signing keeps the age of the abandoned
  attempt.
* A pending-tag health check drops the record of a pooled transaction. If
  `mark_broadcast_accepted` comes later it re-inserts the record without fees, and a
  cancel then underbids the transaction.
* The background task calls the gas price getters, which fetch nothing while the cached
  price is fresh. A price is stamped a round trip after a tick, so at the next tick it is
  a round trip younger than the interval, which is the TTL: it is kept, and goes stale a
  round trip later, until the tick after. `StaleForATickAtMost` says that this is the
  worst case.
* Overlapping calls of `replace_stalled_nonce` all pass its idempotency check.
* `reserve` completing between the call of `recover_stalled` and its load of `current`
  is excluded by `Quiescent`.
* `broadcast_private_first` forgets the errors of the private relays when it goes on to
  the public endpoints: its `failure_count` and `errors` leave them out.
* A caller that releases or drops a context while `send_signed` sends its transaction
  gives the nonce back twice when the endpoints refuse it; `mark_preheat_broadcasting`
  is there for that, and the model's callers use it.
* `sign_with_preheat` completes a request with the prices of EIP-1559 even if the caller
  gave a `gas_price`, which is then ignored. A context that knows the tip and not the gas
  price leaves the maximum fee to its default of 100 gwei, below which the tip has to be
  (`TipAssumption`).
* A second `verify_broadcast` bumps the original again, not the first re-send, and bids
  the same.
* An empty answer or an error of JSON-RPC disarms the loss guard without counting as a
  success, so an endpoint that answers only those is probed by every warmup.
* `wait_for_receipt` may exceed its timeout by one poll.

## Fairness

`tracker_live`: weak fairness of every task's steps inside a call (a thread that runs
keeps running), and strong fairness of taking the mutex, which `parking_lot` grants
eventually; reservations are finite in any instant but may keep coming.

`stall`: time passes; a call that was made goes on (its awaits return, as RPC
timeouts guarantee); the caller calls again, with what the chain says now and not
always with an older value; reading the chain and sending succeed if tried again and
again (strong fairness: endpoints may fail any number of times, not for ever); and the
chain mines a replacement that is pooled at the head. No fairness is assumed of requests,
nor of what pools do with their transactions: one that is pooled may stay there for ever.
A replacement bids over the market, so pools are assumed to keep it until it is mined or
outbid.

`endpoints`: the task that polls a broadcast keeps polling it, and every request ends
(each has a timeout); nothing is assumed of what endpoints answer.

`gas_cache`: a request ends, by an answer, an error or its timeout, and the mutex of
tokio is first come first served, so strong fairness of taking it. Nobody has to call.

`clients`: tasks run, time passes for a wait, and every request ends (each has a
timeout). Nobody has to call, and nothing is assumed of the answers.

## Proofs

`NonceTrackerProofs` proves, for any set of tasks, initial nonce and set of chain
nonces, under the assumption `Quiescent` (nobody reserves while `recover_stalled`
runs). That is a reading of the safety comment of `src/nonce.rs`, which makes the caller
prove that nothing is in flight, and of a concurrent `reserve` says only that the CAS
aborts if it advances `current`. Proved are:

* `Invariance`: `Spec => []IInv`;
* `TypeCorrect`, `NoncesAreExclusive`, `NoNonceIsStranded`, `TrackerStaysTidy`: what
  follows from it, each a property of `tracker_safety`;
* `RewindsAreFree`: the action property on steps that lower `current`;
* `TrackerImplementsPool`: `Spec => ImplementsPool`, the refinement of `NoncePool`
  under `Owned` and `Gone`;

and, without that assumption,

* `PendingIsNeverTooHigh`: `PendingNeverOvercounts`, the bound on `pending_count`;
* `CallsAreTheirFunctions`, `LowestFirst`: the properties of `tracker_sequential`,
  `CallsAddUp` and `HandsOutTheLowest`.

The properties are not inductive: a step keeps them only because of what the task
taking it established several steps earlier, and because the mutex kept everyone but
`fetch_add` away in between. `IInv` is `TypeOK`, `ExclusiveNonces` and
`NothingStranded` with five strengthenings. `LockInv`: the mutex is held by exactly the
task that is past its lock and not past its unlock. `GuardInv`: a guard is `Released`
exactly while its task gives the nonce back, and no reservation is made or held while a
recovery runs. `StepInv`: what the holder of the mutex has established (a recycled
nonce is not below `synced_nonce`; a sync's chain nonce is a lower bound of the gaps; a
collapsing task's loaded `current` is above every gap) and what the only step of others
it may meet, `fetch_add`, does not undo. `WindowInv`: the gaps lie between
`synced_nonce` and `current`, and which task may be at which point when they do not.
`CountInv`: `gap_count` against the size of `gaps`, one more while a collapse is between
its two updates. One lemma per group of steps shows that the step keeps
each part; `Invariance` puts them together. TLC found `IInv` true on the instance of
`tracker_safety` before it was proved. The refinement is proved step by step: calls and internal steps
stutter, the step at which a nonce changes hands maps to `Take`, `Yield`, `Pass` or
`Rewind`.

The bound on `pending_count` is an argument by cardinality: every step that adds one
puts a task into the set that is counted, or removes at most one task with the one it
subtracts (`StepsThatCount`). Its invariant `PendingInv` does not need the mutex at all,
which is why a reservation that races a recovery does not break it.

For calls that do not overlap, `SeqInv` relates the middle of a call to the function
of `TrackerOps` it will have computed: what is still to do in the state as it is,
`LeftToDo`, gives what was expected at the start. One lemma per call shows that each of
its steps leaves that unchanged. The collapse of gaps in `recycle` and `sync` is a loop
in the code and a search for a lowest nonce in `TrackerOps`; `CollapseStopsOnce` shows, by
the well-order of the naturals (`LeastIsMin`), that the search has one answer, and
`CollapseOneMore` and `CollapseNoMore` that a turn of the loop does not change it.

`EndpointBroadcastProofs` proves, for any list of distinct endpoints, any of them
private, and any set of strategies:

* `AllVerdicts`, `AskedInOrder`, `OneStory`: the safety properties of `endpoints`;
* `BroadcastImplementsOutcome`: `Spec => ImplementsSendOutcome`, so that what `Wallet`
  takes a definitive rejection to mean holds with any number of endpoints.

Its `IInv` says more than the properties do, because the end of a broadcast is judged
by what happened wave by wave: exactly the endpoints of the waves sent have been asked
(`AskedInv`), all but the last of these have failed (`FailedInv`), what a request was
told is true of the bytes (`BytesInv`), the errors are the failures that were not
forgotten with the private wave (`ErrorsInv`), and a failed broadcast has come to its
last wave (`ResultInv`). That every endpoint is in one wave is a lemma,
`WavesPartition`. A definitive rejection then needs all three: nobody is unasked, all
that were asked said "definitive", and `BytesInv` turns that into bytes nobody has.
`RowsInv` adds, for the observer, that a row is written once, when its request ends.

`InflightLedgerProofs` proves, for any set of nonces, transactions with positive fees,
and bound `MaxTracked`, the properties of `ledger`: `FeesAreCovered`,
`CountsAreOfTheAttempt`, and the action properties `AgesAreOfTheAttempt` and
`UpperEndStays`. Every call but `prune_consumed` replaces one record and may evict
others, which `Becomes` says and `PutBecomes` and `PrunedPutBecomes` prove of the
operators; `PruneOldRecords` is the argument about eviction, by the cardinality of what
lies above a nonce. The invariant needs one strengthening: a nonce that left the ledger
takes its history with it (`GhostsInv`), so that a record inserted by a late mark is
right to know nothing. With the calls bounded by the constant `MaxCalls`, the theorems
hold of sequences of any length.

`WalletProofs` proves, for any requests, syncers, rescuers, permits, fees and chain:

* `SendsNeverCollide` and `RecoveryNeverCollides`: `OneClaimPerNonce`, for the send
  paths alone and with `replace_stalled_nonce`, `verify_broadcast`, `recover_stalled`
  and time;
* `CancelsStayAtTheHead`: `CancelsAtTheHead`;
* `WalletImplementsPool`: `Spec => ImplementsPool`, that the wallet uses its tracker as
  the pool of `NoncePool`, though the plain path releases by number and not by guard;
* `WalletInvariance`, `StallInvariance`: `IInv`, on which these rest.

That two requests have no claim on one nonce is not inductive, because a claim comes
from where the request is, from its context and from where its bytes are. `ContextInv`:
a context is `Held` only before the send. `LiveInv`: before the send, and after a
definitive refusal, no pool has the bytes. `ClaimInv`: a claimed nonce is one the tracker
has given out and not got back, `DistinctInv`: and no two are the same. `MinedInv`: what
is mined is below the chain's nonce, so that a rewind to it spares it. `HeadInv`: what a
rescuer has confirmed the chain has reached. Lemmas on `TrackerOps` say which nonces
`reserve`, `recycle`, `forward` and `rewind` take or free (`ReserveTakes`, `RecycleFrees`,
`ForwardFreesNothing`, `RewindFrees`); `RequestEffect` says that each of the thirty steps
of a request takes a nonce when it has no claim, gives one back when its bytes are
nowhere, or gains no claim, and `RequestSpares` that it leaves the others alone. The rest,
the refinement too, is argued from these three cases. What a refusal proves of the bytes
is the guarantee of `SendOutcome`, which `BroadcastImplementsOutcome` proves of a
broadcast.

`WalletLedgerProofs` proves what the ledger is for, for any requests, syncers, rescuers,
permits and fees:

* `WalletTypesHold`: `TypeOK` of `Wallet`, without any hypothesis;
* `FeesStayLedgered` (`PoolFeesAreLedgered`) and `CancelsKnowTheirBasis`
  (`BasisCoversTheHead`), under `HasRoom`, always: the ledger tracks fewer nonces than it
  may, so that nothing is evicted. With more in flight the oldest records go, and the
  properties are false;
* `StallsStayVisible` (`StallIsVisible`), under `HasRoom` and for a wallet that is not
  created ahead of the chain: nobody ever signs the nonces it would skip.

What requests have signed lies apart from what the ledger knows, so an invariant relates
them. Its parts hold under different hypotheses, and each theorem takes those it needs.
`BaseInv` holds always, with rescuers too: records hold the transactions of requests and
are settled only below the chain's nonce, a request past its reservation has a nonce and a
fee, and bytes are in at most one of pool and chain, with a nonce the tracker has given
out. `FeeInv` needs room: whatever has been signed at a nonce not yet mined, pooled or
not, is covered by an unresolved record there. It is not `PoolFeesAreLedgered` for the
pool alone, because a fee must be on record before the pool has the bytes. For a cancel,
the chain is asked between the look at the ledger and the reading of the fees; that the
ledger's lowest nonce is still the head then, and its fee covers the pool's, is `FeeInv`
with what a rescuer has confirmed (`HeadInv`): the gate prunes only below the head
(`GateOpens`).

The other three parts of `LInv` are about lost nonces. `GivenInv`: a nonce that
is not free was given to a request that has not given it back, so a late mark of a
release concerns a nonce that is free again, or has a next owner and is blurred.
`PassedInv`: a sync only passes, above the chain's nonce, nonces that pools have, so it
cannot pass one that a request is about to give back; this needs that what a sync has
read stays true while it waits to apply it. `StallInv` is `StallIsVisible` for all nonces
from the head up, because a nonce is lost long before it becomes the head. `RequestLedger`
and `RequestClaims` say what each step does to the ledger and to claims; two lemmas,
`FeesStayOnRecord` and `StallsStayKnown`, argue from that for all steps at once. A larger
instance that the proof asked for (two fees) showed that an earlier form of `blurred`
trusted a record too soon: the signature of a request whose reservation
`release_preheat` had taken.

`TransactionsProofs` proves the properties of `transactions`, for any requests, prices,
bumps, number of cancels and width of U256 (`FeeAssumption`).

`ReplacementsAlwaysOutbid`, `PricesAreAlwaysValid` and `BasisIsAlwaysBacked` are about
fees, with tips no higher than the default maximum fee (`TipAssumption`, see above). The
arithmetic is in `BumpClears` (a bump of 12.5 per cent, rounded up, clears a tenth) and
`BumpIsMonotone` (so that a basis at least as high as a fee clears it); the invariant says
that the fees on record are as high as those of every transaction on record (`RecordInv`),
of the record a cancel has read as well, and that each message clears what it is priced
over.

`NodesAlwaysRead` (`NodeReadsWhatWasSigned`) is about bytes, for every chain, recipient,
data, access list and result of signing; `EncodingAssumption` gives the kinds of these
values: a chain id is a natural number, a recipient is not `""` (which stands for
none on the wire), an access list is a sequence of counts of keys, a parity is 0 or 1
(`signer.rs` asserts it) and a scalar has at most 32 leading zeros. `EncodingInv` says
that what is signed and sent is `sign` of a transaction with the fields of its type
(`Encodable`): `build` makes such ones (`BuildsEncodable`), `with_bumped_fees` keeps them
so (`BumpsEncodable`), and what the buffer held before does not matter
(`SignedIsWritten`). Then `NodesRead` goes through the bytes. `Match`: the encoder of each
type writes the items the EIP names, one for one. `FieldsAddUp` and `ListsAddUp`: the
length each list declares, from the length functions of the source, is the sum of the
sizes of its items, signed or to be signed. `FieldsAreRead`, `ChainIsRead` and
`SigningItemsAre`: each field, the chain and the parity in `v`, and what the signature
is of, come back. The sums of the model are folds that take positions in any order;
`SumIsUnique` shows that the order does not matter and `SumOfIs` that they add term by
term, both by the shortest counterexample (`LeastNat`).

`GasCacheProofs` proves the safety properties of `gas_cache`, for any tasks, durations,
bounds and networks: `PricesAreAlwaysRecent` (`PricesAreRecent`), `RequestsAreShared`
(`OneFetchForAll`) and `RefreshIsATickLateAtMost` (`StaleForATickAtMost`). That a price is
young because its stamp is needs `AgeInv`: who writes a cache writes the age of its own
request, a round trip at most. `MutexInv` (who asks has the mutex of its cache) makes the
second look under the mutex enough. The bound on a stale price is the argument about
ticks: `TickInv` says that between ticks a cache whose background getter is back was
fresh at the last tick or has been renewed since: whoever else writes it stamps it anew.

`WalletClientsProofs` proves the safety properties of `clients`, for any URLs in any
spellings, lists of any length, windows (`WindowsAssumption`: natural numbers) and
numbers of calls: `BytesReachTheSet` (`SendsReachTheSet`), `WarmupKnows`
(`WarmupKnowsTheEndpoint`) and `WaitsJudgeRightly` (`ReceiptVerdicts`). The other two
assumptions on the constants say that broadcast lists are sequences and that `None` is
no verdict. `ClientsInvariance` is the invariant. `MemoryInv`: no two clients have one
endpoint, and each remembers what was heard of its own, which makes a client's decision
to probe the right one for the endpoint. `WalletInv`: the batch has no client twice, and
its clients reach what the builder was told. `RequestsInv`: a call that has not
started has no request open, so that what a warmup is found to have sent is of this step.
`CallsInv` has for a receipt wait the reason for its count of errors: that many polls, the
last ones, failed, and the one before did not.

What building makes is a fold over a list of URLs (`sharing_primary`), and the prover
takes no induction rule with a predicate to give. `SharingIsFold` and `FoldIs` turn the
fold into its steps, and `SharingReaches` argues about the shortest prefix of the list
at which it would go wrong (`LeastOfNats`, from the well-order of the naturals); a step
keeps what a prefix has reached (`AddingReaches`): distinct endpoints, the primary's
first, and a client in the batch for each URL seen and for no other. The gas client is
then one of these or one more (`ChosenIsRight`).

Only model-checked: liveness (fairness and ENABLED are beyond the prover).

## Not modelled

* `NonceManager` and `SingleAddressNonceManager`: they forward to trackers, and the
  wallet does not use them.
* `sign_with_nonce` and `sign_alternatives`, which sign with a nonce nobody reserved;
  their documentation leaves conflicts to the caller. `reserve_nonce` gives a caller the
  guard that a preheated context holds otherwise.
* `next_client`, timings, connection hints, endpoint presets, the warm map of the
  broadcaster; permits in `WalletClients` (they are in `Wallet`).
* Which error text belongs to which class: a verdict is its class. Parameters and results
  of reads.
* Keccak, ECDSA, keys and their zeroing; `v` beyond 64 bits.
* TLS, the command line, examples and benchmarks: I/O and process set-up.
* An external gas provider: the wallet keeps no state for it.
* A second wallet process with the same key, chain reorganisations, and endpoints that
  disagree about the chain.

## Plan

1. Done: every module above, their runs, and the proofs about the tracker, the ledger,
   the send paths with recovery and with their ledger, the endpoints, the clients, the gas
   caches, the prices of replacements and the encoding.
2. `NonceManager` with its notification, if it earns its run.
