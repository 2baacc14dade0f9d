---------------------------- MODULE NonceTracker ----------------------------
(***************************************************************************)
(* The lock-free nonce allocator of src/src/nonce.rs: NonceTracker, and    *)
(* the RAII guard ReservedNonce that hands its nonces out.                 *)
(*                                                                         *)
(* Several tasks share one tracker.  `current`, `synced_nonce`,            *)
(* `gap_count` and `pending_count` are atomics, read and written without   *)
(* the mutex; the BTreeSet `gaps` is only touched with the mutex held.  A  *)
(* step of this module is one access to a shared atomic, together with     *)
(* what the code does to data no other task can see meanwhile: the task's  *)
(* own locals and, with the mutex held, `gaps`.  So an operation of the    *)
(* tracker is a sequence of steps of its task, told apart by pc[t].        *)
(*                                                                         *)
(* Each task owns at most one guard; reserve + release without a guard     *)
(* (get_and_increment, release) make the same steps.                       *)
(***************************************************************************)
EXTENDS Naturals, FiniteSets

CONSTANTS
  Tasks,        \* the tasks sharing the tracker
  NoTask,       \* the mutex is free
  InitNonce,    \* NonceTracker::new(initial_nonce)
  ChainNonces,  \* the transaction counts the chain may report
  MaxNonce,     \* bound: reserve is called only below this nonce
  MaxLeaks,     \* bound: guards dropped while broadcasting
  Quiescent     \* TRUE: no reserve() starts before recover_stalled returns.
                \* FALSE: one may, as the SAFETY comment of nonce.rs allows.

ASSUME InitNonceIsNat == InitNonce \in Nat
ASSUME ChainNoncesAreNats == ChainNonces \subseteq Nat
ASSUME BoundsAreNats == MaxNonce \in Nat /\ MaxLeaks \in Nat
ASSUME QuiescentIsBool == Quiescent \in BOOLEAN
ASSUME NoTaskIsNoTask == NoTask \notin Tasks

VARIABLES
  current,        \* the next nonce never handed out
  pending_count,  \* nonces handed out and not yet confirmed or released
  synced_nonce,   \* the last chain nonce applied
  gaps,           \* released nonces below current, free for reuse
  gap_count,      \* what the hot path reads instead of locking gaps
  lock,           \* the task holding the gaps mutex, or NoTask
  pc,             \* pc[t]: where task t is inside the tracker
  chain,          \* chain[t]: chain_nonce of t's sync or recovery
  seen,           \* seen[t]: the `current` t loaded before its CAS
  guard,          \* guard[t]: the state of t's ReservedNonce
  nonce,          \* nonce[t]: the nonce t's guard holds
  spent,          \* ghost: nonces committed, or left to the chain
  leaked          \* ghost: how many guards were dropped while broadcasting

atomics == <<current, pending_count, synced_nonce, gap_count>>
locals == <<chain, seen>>
guards == <<guard, nonce>>
ghosts == <<spent, leaked>>
vars == <<atomics, gaps, lock, pc, locals, guards, ghosts>>

\* The points inside an operation at which its task holds the mutex.
SyncPoints     == {"sync_max", "sync_load", "sync_cas"}
RecoverPoints  == {"recover_cas", "recover_clear", "recover_store"}
RecyclePoints  == {"recycle_cas", "recycle_insert"}
CollapsePoints == {"collapse_load", "collapse_cas", "collapse_count"}
LockedPoints   == SyncPoints \cup RecoverPoints \cup RecyclePoints
                     \cup CollapsePoints

ReservePoints == {"reserve_check", "reserve_pop", "reserve_add"}
LockingPoints == {"reserve_pop", "sync_lock", "recover_lock", "recycle_lock"}
Points == {"idle"} \cup ReservePoints \cup LockingPoints \cup LockedPoints

LiveStates == {"Held", "Broadcasting", "Released"}

\* The tasks whose nonce is theirs alone: its guard is held or broadcasting,
\* or already Released but not yet back in the tracker.
LiveTasks == {t \in Tasks : guard[t] \in LiveStates}
Reserved(n) == \E t \in LiveTasks : nonce[t] = n
Reserving == {t \in Tasks : pc[t] \in ReservePoints}
Recovering == {t \in Tasks : pc[t] \in RecoverPoints \cup {"recover_lock"}}

\* What the caller of recover_stalled has established when it calls: nothing is
\* in flight, and no task holds a nonce it has yet to sign with.
RecoveryProven == LiveTasks = {} /\ Reserving = {}

Init ==
  /\ current = InitNonce
  /\ pending_count = 0
  /\ synced_nonce = InitNonce
  /\ gaps = {}
  /\ gap_count = 0
  /\ lock = NoTask
  /\ pc = [t \in Tasks |-> "idle"]
  /\ chain = [t \in Tasks |-> 0]
  /\ seen = [t \in Tasks |-> 0]
  /\ guard = [t \in Tasks |-> "None"]
  /\ nonce = [t \in Tasks |-> 0]
  /\ spent = {}
  /\ leaked = 0

Goto(t, point) == pc' = [pc EXCEPT ![t] = point]
Acquire(t) == lock = NoTask /\ lock' = t
Unlock == lock' = NoTask

\* Mutant: fetch_sub instead of checked_sub.
decrement_unchecked == pending_count' = pending_count - 1

\* fetch_update with checked_sub: saturates at zero.
decrement_pending ==
  pending_count' = IF pending_count = 0 THEN 0 ELSE pending_count - 1

-----------------------------------------------------------------------------
(* reserve, get_and_increment, reserve_next_nonce *)

\* pending_count.fetch_add(1).
Reserve(t) ==
  /\ pc[t] = "idle" /\ guard[t] = "None"
  /\ Quiescent => Recovering = {}
  /\ current + Cardinality(Reserving) < MaxNonce
  /\ pending_count' = pending_count + 1
  /\ Goto(t, "reserve_check")
  /\ UNCHANGED <<current, synced_nonce, gap_count, gaps, lock, locals, guards,
                 ghosts>>

\* The hot path reads gap_count without the mutex.
ReserveCheck(t) ==
  /\ pc[t] = "reserve_check"
  /\ Goto(t, IF gap_count > 0 THEN "reserve_pop" ELSE "reserve_add")
  /\ UNCHANGED <<atomics, gaps, lock, locals, guards, ghosts>>

HandOut(t, n) ==
  /\ guard' = [guard EXCEPT ![t] = "Held"]
  /\ nonce' = [nonce EXCEPT ![t] = n]

\* Mutant: the gap handed out is not removed from the set.
ReservePeek(t) ==
  /\ pc[t] = "reserve_pop" /\ lock = NoTask
  /\ \E n \in gaps :
       /\ \A g \in gaps : n <= g
       /\ gap_count' = gap_count - 1
       /\ HandOut(t, n)
  /\ Goto(t, "idle")
  /\ UNCHANGED <<current, pending_count, synced_nonce, gaps, lock, locals, ghosts>>

\* Mutant: the highest gap is taken.
ReservePopHighest(t) ==
  /\ pc[t] = "reserve_pop" /\ lock = NoTask
  /\ \E n \in gaps :
       /\ \A g \in gaps : n >= g
       /\ gaps' = gaps \ {n}
       /\ gap_count' = gap_count - 1
       /\ HandOut(t, n)
  /\ Goto(t, "idle")
  /\ UNCHANGED <<current, pending_count, synced_nonce, lock, locals, ghosts>>

\* With the mutex: take the lowest gap.  The only access another task can see
\* is fetch_sub on gap_count, so the critical section is one step.
ReservePop(t) ==
  /\ pc[t] = "reserve_pop" /\ lock = NoTask
  /\ \E n \in gaps :
       /\ \A g \in gaps : n <= g
       /\ gaps' = gaps \ {n}
       /\ gap_count' = gap_count - 1
       /\ HandOut(t, n)
  /\ Goto(t, "idle")
  /\ UNCHANGED <<current, pending_count, synced_nonce, lock, locals, ghosts>>

\* The gap that gap_count announced was taken meanwhile.
ReservePopEmpty(t) ==
  /\ pc[t] = "reserve_pop" /\ lock = NoTask /\ gaps = {}
  /\ Goto(t, "reserve_add")
  /\ UNCHANGED <<atomics, gaps, lock, locals, guards, ghosts>>

\* current.fetch_add(1), without the mutex: it may fall between the steps of
\* an operation that holds it.
ReserveAdd(t) ==
  /\ pc[t] = "reserve_add"
  /\ current' = current + 1
  /\ HandOut(t, current)
  /\ Goto(t, "idle")
  /\ UNCHANGED <<pending_count, synced_nonce, gap_count, gaps, lock, locals,
                 ghosts>>

-----------------------------------------------------------------------------
(* The guard: ReservedNonce *)

\* The guard's state is private to its task; only the tracker's atomics show.
GuardIs(t, states) == pc[t] = "idle" /\ guard[t] \in states

mark_broadcasting(t) ==
  /\ GuardIs(t, {"Held"})
  /\ guard' = [guard EXCEPT ![t] = "Broadcasting"]
  /\ UNCHANGED <<atomics, gaps, lock, pc, locals, nonce, ghosts>>

\* Mutant: commit does not confirm the nonce with the tracker.
commit_unconfirmed(t) ==
  /\ GuardIs(t, {"Held", "Broadcasting"})
  /\ guard' = [guard EXCEPT ![t] = "None"]
  /\ spent' = spent \cup {nonce[t]}
  /\ UNCHANGED <<atomics, gaps, lock, pc, locals, nonce, leaked>>

\* commit: confirm the nonce with the tracker; it is never given back.
commit(t) ==
  /\ GuardIs(t, {"Held", "Broadcasting"})
  /\ decrement_pending
  /\ guard' = [guard EXCEPT ![t] = "None"]
  /\ spent' = spent \cup {nonce[t]}
  /\ UNCHANGED <<current, synced_nonce, gap_count, gaps, lock, pc, locals,
                 nonce, leaked>>

\* Drop while broadcasting: nothing is released and pending_count stays up.
DropBroadcasting(t) ==
  /\ GuardIs(t, {"Broadcasting"}) /\ leaked < MaxLeaks
  /\ guard' = [guard EXCEPT ![t] = "None"]
  /\ spent' = spent \cup {nonce[t]}
  /\ leaked' = leaked + 1
  /\ UNCHANGED <<atomics, gaps, lock, pc, locals, nonce>>

\* NonceTracker::release up to recycle_nonce.
GiveBack(t) ==
  /\ decrement_pending
  /\ guard' = [guard EXCEPT ![t] = "Released"]
  /\ Goto(t, "recycle_lock")
  /\ UNCHANGED <<current, synced_nonce, gap_count, gaps, lock, locals, nonce,
                 ghosts>>

\* release, or Drop of a guard still Held.
release(t) == GuardIs(t, {"Held"}) /\ GiveBack(t)

\* Every endpoint refused the transaction for certain.
release_rejected_broadcast(t) == GuardIs(t, {"Broadcasting"}) /\ GiveBack(t)

\* The caller's operation of that name: pending_count.store(0).
reset_pending(t) ==
  /\ pc[t] = "idle" /\ pending_count # 0
  /\ pending_count' = 0
  /\ UNCHANGED <<current, synced_nonce, gap_count, gaps, lock, pc, locals,
                 guards, ghosts>>

-----------------------------------------------------------------------------
(* recycle_nonce, collapse_top_gaps *)

Forget(t) == guard' = [guard EXCEPT ![t] = "None"]

\* A nonce the chain has already passed is dropped.
RecycleStale(t) ==
  /\ pc[t] = "recycle_lock" /\ lock = NoTask /\ nonce[t] < synced_nonce
  /\ Forget(t) /\ Goto(t, "idle")
  /\ UNCHANGED <<atomics, gaps, lock, locals, nonce, ghosts>>

RecycleLock(t) ==
  /\ pc[t] = "recycle_lock" /\ nonce[t] >= synced_nonce
  /\ Acquire(t) /\ Goto(t, "recycle_cas")
  /\ UNCHANGED <<atomics, gaps, locals, guards, ghosts>>

\* Mutant: the nonce handed back is the top one whatever current is.
RecycleTopAny(t) ==
  /\ pc[t] = "recycle_cas" /\ nonce[t] < current
  /\ current' = nonce[t]
  /\ Forget(t) /\ Goto(t, "collapse_load")
  /\ UNCHANGED <<pending_count, synced_nonce, gap_count, gaps, lock, locals,
                 nonce, ghosts>>

\* Mutant: return without collapse_top_gaps.
RecycleTopOnly(t) ==
  /\ pc[t] = "recycle_cas" /\ current = nonce[t] + 1
  /\ current' = nonce[t]
  /\ Forget(t) /\ Unlock /\ Goto(t, "idle")
  /\ UNCHANGED <<pending_count, synced_nonce, gap_count, gaps, locals, nonce,
                 ghosts>>

\* compare_exchange(nonce + 1, nonce) succeeds: the top nonce is handed back.
RecycleTop(t) ==
  /\ pc[t] = "recycle_cas" /\ current = nonce[t] + 1
  /\ current' = nonce[t]
  /\ Forget(t) /\ Goto(t, "collapse_load")
  /\ UNCHANGED <<pending_count, synced_nonce, gap_count, gaps, lock, locals,
                 nonce, ghosts>>

RecycleNotTop(t) ==
  /\ pc[t] = "recycle_cas" /\ current # nonce[t] + 1
  /\ Goto(t, "recycle_insert")
  /\ UNCHANGED <<atomics, gaps, lock, locals, guards, ghosts>>

\* Load current; a nonce below it that is not a gap yet becomes one.
RecycleInsert(t) ==
  /\ pc[t] = "recycle_insert"
  /\ IF nonce[t] < current /\ nonce[t] \notin gaps
     THEN gaps' = gaps \cup {nonce[t]} /\ gap_count' = gap_count + 1
     ELSE UNCHANGED <<gaps, gap_count>>
  /\ Forget(t) /\ Unlock /\ Goto(t, "idle")
  /\ UNCHANGED <<current, pending_count, synced_nonce, locals, nonce, ghosts>>

\* The top of the allocated range is again free and may be handed back too.
TopIsGap == current > 0 /\ current - 1 >= synced_nonce /\ current - 1 \in gaps

CollapseTake(t) ==
  /\ pc[t] = "collapse_load" /\ TopIsGap
  /\ gaps' = gaps \ {current - 1}
  /\ seen' = [seen EXCEPT ![t] = current]
  /\ Goto(t, "collapse_cas")
  /\ UNCHANGED <<atomics, lock, chain, guards, ghosts>>

CollapseDone(t) ==
  /\ pc[t] = "collapse_load" /\ ~TopIsGap
  /\ Unlock /\ Goto(t, "idle")
  /\ UNCHANGED <<atomics, gaps, locals, guards, ghosts>>

\* Mutant: a store where the code has a compare_exchange.
CollapseStore(t) ==
  /\ pc[t] = "collapse_cas"
  /\ current' = seen[t] - 1
  /\ Goto(t, "collapse_count")
  /\ UNCHANGED <<pending_count, synced_nonce, gap_count, gaps, lock, locals,
                 guards, ghosts>>

CollapseCas(t) ==
  /\ pc[t] = "collapse_cas" /\ current = seen[t]
  /\ current' = seen[t] - 1
  /\ Goto(t, "collapse_count")
  /\ UNCHANGED <<pending_count, synced_nonce, gap_count, gaps, lock, locals,
                 guards, ghosts>>

\* Mutant: the gap is not put back.
CollapseForgetsGap(t) ==
  /\ pc[t] = "collapse_cas" /\ current # seen[t]
  /\ gap_count' = gap_count - 1
  /\ Unlock /\ Goto(t, "idle")
  /\ UNCHANGED <<current, pending_count, synced_nonce, gaps, locals, guards,
                 ghosts>>

\* A reserve() moved current meanwhile: the gap is put back.
CollapseCasFails(t) ==
  /\ pc[t] = "collapse_cas" /\ current # seen[t]
  /\ gaps' = gaps \cup {seen[t] - 1}
  /\ Unlock /\ Goto(t, "idle")
  /\ UNCHANGED <<atomics, locals, guards, ghosts>>

CollapseCount(t) ==
  /\ pc[t] = "collapse_count"
  /\ gap_count' = gap_count - 1
  /\ Goto(t, "collapse_load")
  /\ UNCHANGED <<current, pending_count, synced_nonce, gaps, lock, locals,
                 guards, ghosts>>

-----------------------------------------------------------------------------
(* sync_forward *)

sync_forward(t, c) ==
  /\ pc[t] = "idle"
  /\ chain' = [chain EXCEPT ![t] = c]
  /\ Goto(t, "sync_lock")
  /\ UNCHANGED <<atomics, gaps, lock, seen, guards, ghosts>>

\* Lock, drop the gaps the chain has passed, store gap_count.
SyncPrune(t) ==
  /\ pc[t] = "sync_lock" /\ Acquire(t)
  /\ gaps' = {g \in gaps : g >= chain[t]}
  /\ gap_count' = Cardinality(gaps')
  /\ Goto(t, "sync_max")
  /\ UNCHANGED <<current, pending_count, synced_nonce, locals, guards, ghosts>>

SyncMax(t) ==
  /\ pc[t] = "sync_max"
  /\ synced_nonce' = IF chain[t] > synced_nonce THEN chain[t] ELSE synced_nonce
  /\ Goto(t, "sync_load")
  /\ UNCHANGED <<current, pending_count, gap_count, gaps, lock, locals, guards,
                 ghosts>>

SyncNotAhead(t) ==
  /\ pc[t] = "sync_load" /\ chain[t] <= current
  /\ Unlock /\ Goto(t, "idle")
  /\ UNCHANGED <<atomics, gaps, locals, guards, ghosts>>

SyncLoad(t) ==
  /\ pc[t] = "sync_load" /\ chain[t] > current
  /\ seen' = [seen EXCEPT ![t] = current]
  /\ Goto(t, "sync_cas")
  /\ UNCHANGED <<atomics, gaps, lock, chain, guards, ghosts>>

SyncCas(t) ==
  /\ pc[t] = "sync_cas" /\ current = seen[t]
  /\ current' = chain[t]
  /\ Unlock /\ Goto(t, "idle")
  /\ UNCHANGED <<pending_count, synced_nonce, gap_count, gaps, locals, guards,
                 ghosts>>

\* Mutant: the loop tries again without loading current again.
SyncCasRetriesStale(t) ==
  /\ pc[t] = "sync_cas" /\ current # seen[t]
  /\ Goto(t, "sync_cas")
  /\ UNCHANGED <<atomics, gaps, lock, locals, guards, ghosts>>

SyncCasFails(t) ==
  /\ pc[t] = "sync_cas" /\ current # seen[t]
  /\ Goto(t, "sync_load")
  /\ UNCHANGED <<atomics, gaps, lock, locals, guards, ghosts>>

-----------------------------------------------------------------------------
(* recover_stalled *)

recover_stalled(t, c) ==
  /\ pc[t] = "idle" /\ RecoveryProven
  /\ chain' = [chain EXCEPT ![t] = c]
  /\ Goto(t, "recover_lock")
  /\ UNCHANGED <<atomics, gaps, lock, seen, guards, ghosts>>

RecoverNotBehind(t) ==
  /\ pc[t] = "recover_lock" /\ lock = NoTask /\ chain[t] >= current
  /\ Goto(t, "idle")
  /\ UNCHANGED <<atomics, gaps, lock, locals, guards, ghosts>>

RecoverLoad(t) ==
  /\ pc[t] = "recover_lock" /\ chain[t] < current /\ Acquire(t)
  /\ seen' = [seen EXCEPT ![t] = current]
  /\ Goto(t, "recover_cas")
  /\ UNCHANGED <<atomics, gaps, chain, guards, ghosts>>

\* The rewind: the nonces from chain[t] on are free again.
RecoverCas(t) ==
  /\ pc[t] = "recover_cas" /\ current = seen[t]
  /\ current' = chain[t]
  /\ spent' = {n \in spent : n < chain[t]}
  /\ Goto(t, "recover_clear")
  /\ UNCHANGED <<pending_count, synced_nonce, gap_count, gaps, lock, locals,
                 guards, leaked>>

RecoverCasFails(t) ==
  /\ pc[t] = "recover_cas" /\ current # seen[t]
  /\ Unlock /\ Goto(t, "idle")
  /\ UNCHANGED <<atomics, gaps, locals, guards, ghosts>>

RecoverClear(t) ==
  /\ pc[t] = "recover_clear"
  /\ gaps' = {} /\ gap_count' = 0
  /\ Goto(t, "recover_store")
  /\ UNCHANGED <<current, pending_count, synced_nonce, lock, locals, guards,
                 ghosts>>

\* A store, not fetch_max: synced_nonce may go down.
RecoverStore(t) ==
  /\ pc[t] = "recover_store"
  /\ synced_nonce' = chain[t]
  /\ Unlock /\ Goto(t, "idle")
  /\ UNCHANGED <<current, pending_count, gap_count, gaps, locals, guards,
                 ghosts>>

-----------------------------------------------------------------------------
\* A call into the tracker or on a guard.
Call(t) ==
  \/ Reserve(t)
  \/ mark_broadcasting(t)
  \/ commit(t)
  \/ release(t)
  \/ release_rejected_broadcast(t)
  \/ DropBroadcasting(t)
  \/ reset_pending(t)
  \/ \E c \in ChainNonces : sync_forward(t, c)
  \/ \E c \in ChainNonces : recover_stalled(t, c)

\* A step that needs the mutex.
LockStep(t) ==
  \/ ReservePop(t)
  \/ ReservePopEmpty(t)
  \/ RecycleStale(t)
  \/ RecycleLock(t)
  \/ SyncPrune(t)
  \/ RecoverNotBehind(t)
  \/ RecoverLoad(t)

\* A step that never waits.
RunStep(t) ==
  \/ ReserveCheck(t)
  \/ ReserveAdd(t)
  \/ RecycleTop(t)
  \/ RecycleNotTop(t)
  \/ RecycleInsert(t)
  \/ CollapseTake(t)
  \/ CollapseDone(t)
  \/ CollapseCas(t)
  \/ CollapseCasFails(t)
  \/ CollapseCount(t)
  \/ SyncMax(t)
  \/ SyncNotAhead(t)
  \/ SyncLoad(t)
  \/ SyncCas(t)
  \/ SyncCasFails(t)
  \/ RecoverCas(t)
  \/ RecoverCasFails(t)
  \/ RecoverClear(t)
  \/ RecoverStore(t)

Next == \E t \in Tasks : Call(t) \/ LockStep(t) \/ RunStep(t)

Spec == Init /\ [][Next]_vars

\* A task that has entered the tracker keeps running (no await inside it), and
\* the parking_lot mutex is eventually handed to every task waiting for it.
Fairness == \A t \in Tasks : WF_vars(RunStep(t)) /\ SF_vars(LockStep(t))

FairSpec == Spec /\ Fairness
-----------------------------------------------------------------------------
(* Properties *)

\* Every variable has its type; the numbers are unbounded.
TypeOK ==
  /\ current \in Nat
  /\ pending_count \in Nat
  /\ synced_nonce \in Nat
  /\ gaps \subseteq Nat
  /\ IsFiniteSet(gaps)
  /\ gap_count \in Nat
  /\ lock \in Tasks \cup {NoTask}
  /\ pc \in [Tasks -> Points]
  /\ chain \in [Tasks -> Nat]
  /\ seen \in [Tasks -> Nat]
  /\ guard \in [Tasks -> {"None"} \cup LiveStates]
  /\ nonce \in [Tasks -> Nat]
  /\ spent \subseteq Nat
  /\ leaked \in Nat

\* Below current and free for reuse: a gap, or one that collapse_top_gaps has
\* taken out of gaps while it lowers current.
Reusable(n) ==
  n \in gaps \/ \E t \in Tasks : pc[t] = "collapse_cas" /\ seen[t] = n + 1

\* Mutual exclusion on nonces, in every interleaving of reserve's lock-free
\* fetch_add with release, collapse, sync and a proven recovery: two guards
\* never hold one nonce, and a nonce that a guard holds, or that was spent, is
\* neither a gap nor at or above current, where the next reserve finds it.
ExclusiveNonces ==
  /\ \A t, u \in LiveTasks : t # u => nonce[t] # nonce[u]
  /\ \A t \in LiveTasks :
       nonce[t] < current /\ ~Reusable(nonce[t]) /\ nonce[t] \notin spent
  /\ \A n \in spent : n < current /\ ~Reusable(n)

\* Nothing is lost: a nonce between the last chain nonce and current is free
\* for reuse, in a guard's hands, or spent.  A nonce that is none of these
\* would never be broadcast, and every later transaction would wait for it.
\* (An operation that has dropped gaps is about to move synced_nonce past them.)
Passed(n) ==
  \E t \in Tasks : pc[t] \in {"sync_max", "recover_store"} /\ n < chain[t]
NothingStranded ==
  \A n \in synced_nonce .. current - 1 :
    Reusable(n) \/ Reserved(n) \/ n \in spent \/ Passed(n)

\* Gaps lie in the window the code documents, at or above the chain nonce and
\* below current, and when the mutex is free the topmost allocated nonce is
\* never one of them: collapse_top_gaps hands it back, also when its CAS loses
\* to a reserve().
GapsTidy ==
  /\ \A g \in gaps : synced_nonce <= g
  /\ lock = NoTask => \A g \in gaps : g + 1 < current

\* The hot path's gap_count is the size of the set whenever the mutex is free:
\* one too few hides a gap from every reserve(), one too many makes the hot
\* path take the mutex for ever.
GapCountExact == lock = NoTask => gap_count = Cardinality(gaps)

\* What test_concurrent_release_sync_never_rewinds_below_synced asserts, for
\* every interleaving: releases racing a sync never leave current below the
\* chain nonce.
NeverBelowSynced == lock = NoTask => synced_nonce <= current

\* What every call leaves behind, once it has given back the mutex.
TrackerIsTidy == GapsTidy /\ GapCountExact /\ NeverBelowSynced

\* pending_count is informational and saturates; it may miss reservations after
\* reset_pending, but except for guards dropped while broadcasting it counts
\* none twice: a guard confirms or releases at most once.
PendingNeverOvercounts ==
  pending_count <=
    Cardinality({t \in LiveTasks : guard[t] # "Released"})
      + Cardinality(Reserving) + leaked

\* A rewind of current hands back only the topmost nonce, except in
\* recover_stalled, and never one that a guard holds or that was spent.
RewindsOnlyFreeNonces ==
  [][current' < current =>
       \/ current' = current - 1 /\ ~Reserved(current)' /\ current' \notin spent'
       \/ \E t \in Tasks : pc[t] = "recover_cas" /\ current' = chain[t]]_vars

\* Every operation returns: neither the CAS loop of sync_forward nor the loop of
\* collapse_top_gaps can run for ever against concurrent reservations, and the
\* mutex is always released.
OperationsReturn == \A t \in Tasks : pc[t] # "idle" ~> pc[t] = "idle"

-----------------------------------------------------------------------------
(* Why they hold: the inductive invariant *)

\* The mutex is held by exactly the task that is past its lock and not yet
\* past its unlock.
LockInv == \A t \in Tasks : pc[t] \in LockedPoints <=> lock = t

\* A guard is Released exactly while its task gives the nonce back, and no
\* reservation is made or held while a recovery runs.
GuardInv ==
  /\ \A t \in Tasks :
       /\ guard[t] = "Released" <=> pc[t] \in RecyclePoints \cup {"recycle_lock"}
       /\ pc[t] \in ReservePoints => guard[t] = "None"
  /\ Recovering # {} => LiveTasks = {} /\ Reserving = {}

\* What the task holding the mutex has established, and what fetch_add, the
\* only step of others it may meet, does not undo.
StepInv ==
  \A t \in Tasks :
    /\ pc[t] \in RecyclePoints => synced_nonce <= nonce[t]
    /\ pc[t] = "recycle_insert" => nonce[t] + 1 < current
    /\ pc[t] = "collapse_cas" =>
         /\ synced_nonce < seen[t] /\ seen[t] <= current
         /\ \A g \in gaps : g + 1 < seen[t]
    /\ pc[t] \in SyncPoints => \A g \in gaps : chain[t] <= g
    /\ pc[t] \in {"sync_load", "sync_cas"} =>
         chain[t] <= synced_nonce
           /\ (synced_nonce <= current \/ synced_nonce = chain[t])
    /\ pc[t] = "sync_cas" => seen[t] < chain[t]
    /\ pc[t] = "recover_cas" => chain[t] < seen[t]
    /\ pc[t] \in {"recover_clear", "recover_store"} => current = chain[t]
    /\ pc[t] = "recover_store" => gaps = {} /\ gap_count = 0

\* Where the gaps and the chain nonce lie at every point, also mid-operation.
WindowInv ==
  /\ \A g \in gaps : synced_nonce <= g
  /\ \A g \in gaps : g < current \/ \E t \in Tasks : pc[t] = "recover_clear"
  /\ \A g \in gaps : g + 1 < current
                       \/ \E t \in Tasks :
                            pc[t] \in CollapsePoints \cup {"recover_clear"}
  /\ \/ synced_nonce <= current
     \/ \E t \in Tasks : pc[t] \in {"sync_load", "sync_cas", "recover_clear",
                                    "recover_store"}

\* gap_count exceeds the set's size by one between collapse_top_gaps' removal and
\* its fetch_sub.
CountInv ==
  gap_count = Cardinality(gaps)
    + IF \E t \in Tasks : pc[t] \in {"collapse_cas", "collapse_count"} THEN 1 ELSE 0

IInv ==
  TypeOK /\ LockInv /\ GuardInv /\ StepInv /\ WindowInv /\ CountInv
    /\ ExclusiveNonces /\ NothingStranded

-----------------------------------------------------------------------------
\* The allocator this implements: owned by a task, gone, or free (NoncePool).
Owned == [t \in Tasks |-> IF t \in LiveTasks THEN {nonce[t]} ELSE {}]
Gone == {n \in 0 .. current - 1 : ~Reusable(n) /\ ~Reserved(n)}

Pool == INSTANCE NoncePool WITH owned <- Owned, gone <- Gone

\* The tracker with all its interleavings implements the atomic pool.
ImplementsPool == Pool!Spec
=============================================================================
