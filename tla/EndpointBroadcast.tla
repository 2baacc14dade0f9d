------------------------- MODULE EndpointBroadcast -------------------------
(***************************************************************************)
(* One broadcast of signed bytes to redundant endpoints: the fan-out of    *)
(* BatchRpcClient (src/src/rpc/batch.rs), which the wallet uses, with its  *)
(* observer (src/src/rpc/observation.rs), and the four strategies of       *)
(* TransactionBroadcaster (src/src/broadcast.rs).                          *)
(*                                                                         *)
(* All of them send to waves of endpoints, a wave after the one before it  *)
(* has failed; they differ in the waves, in what becomes of the losers of  *)
(* a race, and in what they report.  The futures of a broadcast are polled *)
(* by one task, which stops at the first that is ready: a request's end    *)
(* and what the collector makes of it are one step.                        *)
(*                                                                         *)
(* An endpoint takes or refuses bytes whether or not anyone hears of it.   *)
(***************************************************************************)
EXTENDS Naturals, Sequences

CONSTANTS
  Order,       \* the endpoints as the vector lists them
  Private,     \* the ones that are private relays
  Strategies,  \* "Fanout" (BatchRpcClient) or a BroadcastStrategy
  NoEndpoint

Endpoints == {Order[i] : i \in 1 .. Len(Order)}

ASSUME OrderIsInjective == \A i, j \in 1 .. Len(Order) : Order[i] = Order[j] => i = j
ASSUME EndpointsExist ==
  Order \in Seq(Endpoints) /\ Order # <<>> /\ NoEndpoint \notin Endpoints
ASSUME PrivateAreEndpoints == Private \subseteq Endpoints
ASSUME StrategiesAreStrategies ==
  Strategies \subseteq
    {"Fanout", "RaceAll", "BroadcastAll", "PriorityOrdered", "PrivateFirst"}

VARIABLES
  strategy,     \* of this broadcast
  wave,         \* how many waves have been sent
  req,          \* req[e]: "unsent", "sent", the verdict, or "dropped"
  bytes,        \* bytes[e]: where the bytes for e are
  errors,       \* the endpoints listed as failed
  result,       \* "none", "ok", "failed", or "cancelled" by the caller
  winner,       \* the endpoint a successful result names
  detached,     \* flag shared with the observations
  first_result, \* flag shared with the observations
  rows          \* rows[e]: the completion row of e, as far as it tells

vars == <<strategy, wave, req, bytes, errors, result, winner, detached,
          first_result, rows>>
observer == <<detached, first_result, rows>>

\* EndpointFailureClass and, for rejections, is_definitive_precheck_rejection.
Failures == {"definitive", "ambiguous", "transport"}
Verdicts == Failures \cup {"ok"}

NoRow == [phase |-> "none", first |-> FALSE]

\* Who is sent to at the same time, in which order.
Waves ==
  IF strategy = "PriorityOrdered" THEN [i \in 1 .. Len(Order) |-> {Order[i]}]
  ELSE IF strategy = "PrivateFirst" THEN <<Private, Endpoints \ Private>>
  ELSE <<Endpoints>>

Failed(S) == \A e \in S : req[e] \in Failures

Init ==
  /\ strategy \in Strategies
  /\ wave = 0
  /\ req = [e \in Endpoints |-> "unsent"]
  /\ bytes = [e \in Endpoints |-> "none"]
  /\ errors = {}
  /\ result = "none"
  /\ winner = NoEndpoint
  /\ detached = FALSE /\ first_result = FALSE
  /\ rows = [e \in Endpoints |-> NoRow]
-----------------------------------------------------------------------------
(* Endpoints (external) *)

\* The endpoint judges the bytes, or they never get there.
Judge(e) ==
  /\ bytes[e] = "wire"
  /\ \E fate \in {"taken", "refused", "lost"} : bytes' = [bytes EXCEPT ![e] = fate]
  /\ UNCHANGED <<strategy, wave, req, errors, result, winner, observer>>

\* What may be heard from an endpoint: a transport verdict says nothing, a
\* rejection that is not definitive only that it was reached.
Says(e, v) ==
  \/ v = "ok" /\ bytes[e] = "taken"
  \/ v = "definitive" /\ bytes[e] = "refused"
  \/ v = "ambiguous" /\ bytes[e] \in {"taken", "refused"}
  \/ v = "transport"
-----------------------------------------------------------------------------
(* Sending *)

\* Mutant: the next wave is sent as soon as one endpoint of this one failed.
StartWave_early ==
  /\ result = "none" /\ wave < Len(Waves)
  /\ wave > 0 => \E e \in Waves[wave] : req[e] \in Failures
  /\ wave' = wave + 1
  /\ req' = [e \in Endpoints |-> IF e \in Waves[wave'] THEN "sent" ELSE req[e]]
  /\ bytes' = [e \in Endpoints |-> IF e \in Waves[wave'] THEN "wire" ELSE bytes[e]]
  /\ errors' = IF strategy = "PrivateFirst" THEN {} ELSE errors
  /\ UNCHANGED <<strategy, result, winner, observer>>

\* The errors of the private relays are not carried into the public wave.
StartWave ==
  /\ result = "none" /\ wave < Len(Waves)
  /\ wave > 0 => Failed(Waves[wave])
  /\ wave' = wave + 1
  /\ req' = [e \in Endpoints |-> IF e \in Waves[wave'] THEN "sent" ELSE req[e]]
  /\ bytes' = [e \in Endpoints |-> IF e \in Waves[wave'] THEN "wire" ELSE bytes[e]]
  /\ errors' = IF strategy = "PrivateFirst" THEN {} ELSE errors
  /\ UNCHANGED <<strategy, result, winner, observer>>

Ended(e, v) == req[e] = "sent" /\ v \in Verdicts /\ Says(e, v)

\* Mutant: detached is not read, every completion counts as in time.
Observe_undetached(e) ==
  IF strategy = "Fanout"
  THEN /\ rows' = [rows EXCEPT ![e] =
                     [phase |-> "before_return", first |-> ~first_result]]
       /\ first_result' = TRUE
  ELSE UNCHANGED <<rows, first_result>>

\* Observation::finish.
Observe(e) ==
  IF strategy = "Fanout"
  THEN /\ rows' = [rows EXCEPT ![e] =
                     [phase |-> IF detached THEN "detached" ELSE "before_return",
                      first |-> ~first_result]]
       /\ first_result' = TRUE
  ELSE UNCHANGED <<rows, first_result>>

\* A request fails while the broadcast is waiting.
Fail(e) ==
  /\ result = "none"
  /\ \E v \in Failures : Ended(e, v) /\ req' = [req EXCEPT ![e] = v]
  /\ errors' = errors \cup {e}
  /\ Observe(e)
  /\ UNCHANGED <<strategy, wave, bytes, result, winner, detached>>

\* Mutant: the losers of a fan-out are dropped like those of a race.
Losers_dropped(e) == [d \in Endpoints |-> IF req[d] = "sent" THEN "dropped" ELSE req[d]]

\* log_remaining lets the other requests of a fan-out go on; elsewhere they are
\* dropped with the collector.
Losers(e) ==
  IF strategy = "Fanout" THEN req
  ELSE [d \in Endpoints |-> IF req[d] = "sent" THEN "dropped" ELSE req[d]]

\* The first success ends the broadcast.
Win(e) ==
  /\ result = "none" /\ strategy # "BroadcastAll" /\ Ended(e, "ok")
  /\ req' = [Losers(e) EXCEPT ![e] = "ok"]
  /\ result' = "ok" /\ winner' = e
  /\ detached' = (strategy = "Fanout")
  /\ Observe(e)
  /\ UNCHANGED <<strategy, wave, bytes, errors>>

\* broadcast_all waits for the others.
Succeed(e) ==
  /\ result = "none" /\ strategy = "BroadcastAll" /\ Ended(e, "ok")
  /\ req' = [req EXCEPT ![e] = "ok"]
  /\ UNCHANGED <<strategy, wave, bytes, errors, result, winner, observer>>

\* A detached request of a fan-out that has returned.
EndLate(e) ==
  /\ result = "ok"
  /\ \E v \in Verdicts : Ended(e, v) /\ req' = [req EXCEPT ![e] = v]
  /\ Observe(e)
  /\ UNCHANGED <<strategy, wave, bytes, errors, result, winner, detached>>

\* Mutant: the broadcast gives up at the first failure.
ReturnFailed_at_once ==
  /\ result = "none" /\ \E e \in Endpoints : req[e] \in Failures
  /\ result' = "failed"
  /\ UNCHANGED <<strategy, wave, req, bytes, errors, winner, observer>>

\* Nobody is left to hear from.
ReturnFailed ==
  /\ result = "none" /\ wave = Len(Waves) /\ Failed(Waves[wave])
  /\ result' = "failed"
  /\ UNCHANGED <<strategy, wave, req, bytes, errors, winner, observer>>

\* join_all: the success named is the first of the vector, not of time.
ReturnAll ==
  /\ result = "none" /\ strategy = "BroadcastAll"
  /\ \A e \in Endpoints : req[e] \in Verdicts
  /\ \E i \in 1 .. Len(Order) :
       /\ req[Order[i]] = "ok"
       /\ \A j \in 1 .. i - 1 : req[Order[j]] # "ok"
       /\ winner' = Order[i]
  /\ result' = "ok"
  /\ UNCHANGED <<strategy, wave, req, bytes, errors, observer>>

\* The caller drops the future: what it still polled is dropped.
Cancel ==
  /\ result = "none"
  /\ result' = "cancelled"
  /\ req' = [e \in Endpoints |-> IF req[e] = "sent" THEN "dropped" ELSE req[e]]
  /\ UNCHANGED <<strategy, wave, bytes, errors, winner, observer>>

End(e) == Fail(e) \/ Win(e) \/ Succeed(e) \/ EndLate(e)

Next ==
  \/ StartWave
  \/ \E e \in Endpoints : End(e)
  \/ ReturnFailed
  \/ ReturnAll
  \/ Cancel
  \/ \E e \in Endpoints : Judge(e)

Spec == Init /\ [][Next]_vars

\* The task that polls keeps polling, and every request has a timeout.
Fairness ==
  /\ WF_vars(StartWave) /\ WF_vars(ReturnFailed) /\ WF_vars(ReturnAll)
  /\ \A e \in Endpoints : WF_vars(End(e))

FairSpec == Spec /\ Fairness
-----------------------------------------------------------------------------
(* What the wallet concludes *)

\* Mutant: one definitive verdict is enough.
AllDefinitive_any == \E e \in errors : req[e] = "definitive"

\* is_definitive_precheck_rejection of a BroadcastFailed.
AllDefinitive == errors # {} /\ \A e \in errors : req[e] = "definitive"

reply ==
  IF result = "ok" THEN "ok"
  ELSE IF result # "failed" THEN "none"
  ELSE IF strategy = "Fanout" /\ AllDefinitive THEN "definitive"
  ELSE "ambiguous"

MayStillTake(e) == bytes[e] = "wire" \/ (bytes[e] = "none" /\ result = "none")

whereabouts ==
  IF \E e \in Endpoints : bytes[e] = "taken" THEN "reached"
  ELSE IF \E e \in Endpoints : MayStillTake(e) THEN "wire"
  ELSE "nowhere"

Outcome == INSTANCE SendOutcome
-----------------------------------------------------------------------------
(* Properties *)

TypeOK ==
  /\ strategy \in Strategies
  /\ wave \in 0 .. Len(Waves)
  /\ req \in [Endpoints -> Verdicts \cup {"unsent", "sent", "dropped"}]
  /\ bytes \in [Endpoints -> {"none", "wire", "taken", "refused", "lost"}]
  /\ errors \subseteq Endpoints
  /\ result \in {"none", "ok", "failed", "cancelled"}
  /\ winner \in Endpoints \cup {NoEndpoint}
  /\ winner # NoEndpoint <=> result = "ok"
  /\ {detached, first_result} \subseteq BOOLEAN
  /\ rows \in [Endpoints -> [phase : {"none", "before_return", "detached"},
                             first : BOOLEAN]]

\* A broadcast tells its sender the truth: a success reached a pool, and after
\* a definitive rejection, on which the wallet gives the nonce back, no endpoint
\* has the bytes and none will.
ImplementsSendOutcome == Outcome!Spec

\* A failed broadcast has a verdict of every endpoint it asked ("complete
\* all-fail verdict collection"); those of the private relays are not reported.
VerdictsAreComplete ==
  result = "failed" =>
    /\ Failed(Endpoints)
    /\ errors = IF strategy = "PrivateFirst" THEN Endpoints \ Private ELSE Endpoints

\* A public endpoint sees a transaction, and an endpoint of lower priority is
\* asked, only after everyone who goes first has failed.
NobodyIsAskedEarly ==
  \A i, j \in 1 .. Len(Waves) : i < j =>
    \A e \in Waves[j] : bytes[e] # "none" => Failed(Waves[i])

\* The observer and the result tell one story: what completed before the return
\* is the winner and the failures counted, and one row only is the first.
RowsMatchTheResult ==
  /\ strategy = "Fanout" /\ result \in {"ok", "failed"} =>
       {e \in Endpoints : rows[e].phase = "before_return"}
         = errors \cup ({winner} \ {NoEndpoint})
  /\ \A d, e \in Endpoints : rows[d].first /\ rows[e].first => d = e

\* A fan-out that is not cancelled hears from every endpoint, the losers of the
\* race included; every other broadcast returns.
EveryoneIsHeard ==
  <>(\/ result = "cancelled"
     \/ strategy = "Fanout" /\ \A e \in Endpoints : req[e] \in Verdicts
     \/ strategy # "Fanout" /\ result # "none")
=============================================================================
