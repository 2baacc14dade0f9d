-------------------------- MODULE TrackerSequential --------------------------
(***************************************************************************)
(* NonceTracker with at most one task inside the tracker at a time: the    *)
(* steps of a call add up to the function TrackerOps gives for it.         *)
(***************************************************************************)
EXTENDS NonceTracker, TrackerOps

VARIABLE expected   \* ghost: the tracker after the call at hand

seqVars == <<vars, expected>>

Tracker == [current |-> current, synced |-> synced_nonce, gaps |-> gaps]

Quiet == \A t \in Tasks : pc[t] = "idle"

\* The function of the call that t starts.
Result(t) ==
  CASE pc'[t] = "reserve_check" -> reserve(expected)
    [] pc'[t] = "recycle_lock"  -> recycle(expected, nonce[t])
    [] pc'[t] = "sync_lock"     -> forward(expected, chain'[t])
    [] pc'[t] = "recover_lock"  -> rewind(expected, chain'[t])
    [] OTHER                    -> expected

SeqInit == Init /\ expected = new(InitNonce)

SeqNext ==
  \E t \in Tasks :
    \/ Quiet /\ Call(t) /\ expected' = Result(t)
    \/ (LockStep(t) \/ RunStep(t)) /\ expected' = expected

SeqSpec == SeqInit /\ [][SeqNext]_seqVars

\* Whenever no call is in progress, the tracker is what the functions make of
\* the calls so far.
CallsAddUp == Quiet => expected = Tracker

\* Released nonces are reused lowest first, before any new one: reserve hands
\* out what effective_next_nonce said, and not merely some free nonce.
HandsOutTheLowest ==
  [][\A t \in Tasks :
       guard[t] = "None" /\ guard'[t] = "Held"
         => nonce'[t] = next_nonce(Tracker)]_seqVars

-----------------------------------------------------------------------------
(* Why they hold: the inductive invariant *)

OneAtATime == \A t, u \in Tasks : pc[t] # "idle" /\ pc[u] # "idle" => t = u

\* The tracker with the gap that collapse_top_gaps has just taken put back.
Untaken == [Tracker EXCEPT !.gaps = gaps \cup {current - 1}]

\* What is left of the call at hand: the function of its operation on the
\* tracker as it is now, which every step leaves as it was.
LeftToDo(t) ==
  /\ pc[t] \in ReservePoints => expected = reserve(Tracker)
  /\ pc[t] = "reserve_pop" => gaps # {}
  /\ pc[t] = "reserve_add" => gaps = {}
  /\ pc[t] \in RecyclePoints \cup {"recycle_lock"} =>
       expected = recycle(Tracker, nonce[t])
  /\ pc[t] \in {"collapse_load", "collapse_count"} =>
       expected = recycle_top(Tracker, current)
  /\ pc[t] = "collapse_cas" =>
       seen[t] = current /\ expected = recycle_top(Untaken, current)
  /\ pc[t] \in SyncPoints \cup {"sync_lock"} => expected = forward(Tracker, chain[t])
  /\ pc[t] \in {"recover_lock", "recover_cas"} => expected = rewind(Tracker, chain[t])
  /\ pc[t] \in {"sync_cas", "recover_cas"} => seen[t] = current
  /\ pc[t] \in {"recover_clear", "recover_store"} => expected = new(chain[t])

SeqInv == OneAtATime /\ CallsAddUp /\ \A t \in Tasks : LeftToDo(t)
=============================================================================
