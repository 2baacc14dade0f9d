---------------------- MODULE EndpointBroadcastProofs ----------------------
(***************************************************************************)
(* What EndpointBroadcast promises, for any list of endpoints, any of them *)
(* private, and every strategy: its verdicts are complete, nobody is asked *)
(* early, its observer tells what the result tells, and it implements      *)
(* SendOutcome.                                                            *)
(***************************************************************************)
EXTENDS EndpointBroadcast, TLAPS

(* The inductive invariant *)

\* Exactly the endpoints of the waves that were sent have been asked.
AskedInv ==
  \A i \in 1 .. Len(Waves) : \A e \in Waves[i] : req[e] = "unsent" <=> i > wave

\* Every wave but the last that was sent has failed.
FailedInv == \A i \in 1 .. Len(Waves) : i < wave => Failed(Waves[i])

\* What a request was told is true of the bytes.
BytesInv ==
  \A e \in Endpoints :
    /\ bytes[e] = "none" <=> req[e] = "unsent"
    /\ req[e] = "ok" => bytes[e] = "taken"
    /\ req[e] = "definitive" => bytes[e] = "refused"

\* Until the broadcast returns, its errors are the failures it reports.
Forgotten == IF strategy = "PrivateFirst" /\ wave > 1 THEN Private ELSE {}

ErrorsInv ==
  result \in {"none", "failed"} =>
    errors = {e \in Endpoints : req[e] \in Failures} \ Forgotten

ResultInv ==
  /\ result = "ok" => req[winner] = "ok"
  /\ result = "failed" => wave = Len(Waves) /\ Failed(Waves[wave])

IInv ==
  /\ TypeOK
  /\ AskedInv
  /\ FailedInv
  /\ BytesInv
  /\ ErrorsInv
  /\ ResultInv
-----------------------------------------------------------------------------
(* Waves *)

\* Every endpoint is in one wave: broadcast_private_first partitions, and
\* broadcast_priority lists everybody once.
LEMMA WavesPartition ==
  ASSUME strategy \in Strategies
  PROVE  /\ Waves \in Seq(SUBSET Endpoints)
         /\ Len(Waves) \in Nat \ {0}
         /\ \A e \in Endpoints : \E i \in 1 .. Len(Waves) : e \in Waves[i]
         /\ \A i, j \in 1 .. Len(Waves) : \A e \in Waves[i] \cap Waves[j] : i = j
<1>1. Len(Order) \in Nat \ {0} /\ Order \in Seq(Endpoints)
  BY EndpointsExist
<1>2. CASE strategy = "PriorityOrdered"
  <2>1. Waves = [i \in 1 .. Len(Order) |-> {Order[i]}]
    BY <1>2 DEF Waves
  <2>2. \A i \in 1 .. Len(Order) : {Order[i]} \in SUBSET Endpoints
    BY DEF Endpoints
  <2>3. Waves \in Seq(SUBSET Endpoints) /\ Len(Waves) = Len(Order)
    BY <1>1, <2>1, <2>2
  <2>4. \A e \in Endpoints : \E i \in 1 .. Len(Order) : e \in {Order[i]}
    BY DEF Endpoints
  <2>5. \A i, j \in 1 .. Len(Order) : \A e \in {Order[i]} \cap {Order[j]} : i = j
    BY OrderIsInjective
  <2>. QED  BY <1>1, <2>1, <2>3, <2>4, <2>5
<1>3. CASE strategy = "PrivateFirst"
  <2>1. Waves = <<Private, Endpoints \ Private>>
    BY <1>3 DEF Waves
  <2>2. Len(Waves) = 2 /\ Waves[1] = Private /\ Waves[2] = Endpoints \ Private
    BY <2>1
  <2>3. Waves \in Seq(SUBSET Endpoints)
    BY <2>1, PrivateAreEndpoints
  <2>4. 1 .. 2 = {1, 2}
    OBVIOUS
  <2>. QED  BY <2>2, <2>3, <2>4, PrivateAreEndpoints
<1>4. CASE strategy \notin {"PriorityOrdered", "PrivateFirst"}
  <2>1. Waves = <<Endpoints>>
    BY <1>4 DEF Waves
  <2>2. Len(Waves) = 1 /\ Waves[1] = Endpoints /\ Waves \in Seq(SUBSET Endpoints)
    BY <2>1
  <2>. QED  BY <2>2
<1>. QED  BY <1>2, <1>3, <1>4

LEMMA SameWaves == ASSUME strategy' = strategy PROVE Waves' = Waves
BY DEF Waves

LEMMA InitIsIInv == Init => IInv
<1>. SUFFICES ASSUME Init PROVE IInv
  OBVIOUS
<1>. USE DEF Init
<1>1. strategy \in Strategies /\ Waves \in Seq(SUBSET Endpoints) /\ Len(Waves) \in Nat \ {0}
      /\ \A i \in 1 .. Len(Waves) : Waves[i] \subseteq Endpoints
  BY WavesPartition
<1>2. TypeOK
  <2>1. rows \in [Endpoints -> [phase : {"none", "before_return", "detached"},
                                first : BOOLEAN]]
    BY DEF NoRow
  <2>2. {detached, first_result} \subseteq BOOLEAN
    OBVIOUS
  <2>3. wave \in 0 .. Len(Waves)
    BY <1>1
  <2>. QED  BY <1>1, <2>1, <2>2, <2>3 DEF TypeOK
<1>3. AskedInv /\ FailedInv
  BY <1>1 DEF AskedInv, FailedInv
<1>4. BytesInv /\ ResultInv
  BY DEF BytesInv, ResultInv
<1>5. ErrorsInv
  BY DEF ErrorsInv, Failures
<1>. QED  BY <1>2, <1>3, <1>4, <1>5 DEF IInv
-----------------------------------------------------------------------------
(* Every step keeps the invariant *)

\* A wave that starts was unsent, and the wave before it has failed.
LEMMA StartWaveStep == IInv /\ StartWave => IInv'
<1>. SUFFICES ASSUME IInv, StartWave PROVE IInv'
  OBVIOUS
<1>. USE DEF IInv, StartWave
<1>1. Waves' = Waves /\ strategy' = strategy
  BY SameWaves
<1>2. /\ Waves \in Seq(SUBSET Endpoints) /\ Len(Waves) \in Nat \ {0} /\ wave \in Nat
      /\ \A i, j \in 1 .. Len(Waves) : \A e \in Waves[i] \cap Waves[j] : i = j
      /\ \A i \in 1 .. Len(Waves) : Waves[i] \subseteq Endpoints
  BY WavesPartition DEF TypeOK
<1>3. wave' \in 1 .. Len(Waves) /\ wave' = wave + 1
  BY <1>2
<1>4. \A e \in Waves[wave'] : req[e] = "unsent" /\ e \in Endpoints
  BY <1>2, <1>3 DEF AskedInv
<1>5. TypeOK'
  BY <1>1, <1>2, <1>3 DEF TypeOK, observer
<1>6. AskedInv'
  BY <1>1, <1>2, <1>3 DEF AskedInv
<1>7. \A i \in 1 .. Len(Waves) : i <= wave => Failed(Waves[i])
  BY <1>2 DEF FailedInv
<1>8. FailedInv'
  BY <1>1, <1>2, <1>3, <1>4, <1>7 DEF FailedInv, Failed, Failures
<1>9. BytesInv'
  BY <1>4 DEF BytesInv, TypeOK
<1>10. ErrorsInv'
  <2>1. {e \in Endpoints : req'[e] \in Failures} = {e \in Endpoints : req[e] \in Failures}
    BY <1>4 DEF Failures
  <2>2. errors = {e \in Endpoints : req[e] \in Failures} \ Forgotten
    BY DEF ErrorsInv
  <2>3. CASE strategy # "PrivateFirst"
    BY <1>1, <2>1, <2>2, <2>3 DEF ErrorsInv, Forgotten
  <2>4. CASE strategy = "PrivateFirst"
    <3>1. Len(Waves) = 2 /\ Waves[1] = Private
      BY <2>4 DEF Waves
    <3>2. CASE wave = 0
      <4>1. \A e \in Endpoints : req[e] = "unsent"
        <5>1. \A e \in Endpoints : \E i \in 1 .. Len(Waves) : e \in Waves[i]
          BY WavesPartition DEF TypeOK
        <5>. QED  BY <5>1, <3>2, <1>2 DEF AskedInv
      <4>. QED  BY <4>1, <2>1, <2>4, <1>1 DEF ErrorsInv, Forgotten, Failures
    <3>3. CASE wave = 1
      <4>1. wave' > 1 /\ Forgotten' = Private
        BY <3>3, <2>4, <1>1, <1>3 DEF Forgotten
      <4>2. \A e \in Endpoints : req[e] \in Failures => e \in Private
        <5>1. Waves[2] = Endpoints \ Private
          BY <2>4 DEF Waves
        <5>. QED  BY <5>1, <3>1, <3>3 DEF AskedInv, Failures
      <4>. QED  BY <4>1, <4>2, <2>1, <2>4 DEF ErrorsInv
    <3>. QED  BY <3>1, <3>2, <3>3, <1>2
  <2>. QED  BY <2>3, <2>4
<1>11. ResultInv'
  BY DEF ResultInv
<1>. QED  BY <1>5, <1>6, <1>8, <1>9, <1>10, <1>11

\* The end of a request that is waited for: its verdict is final, and what was
\* final stays.
LEMMA VerdictStep ==
  ASSUME IInv, NEW e \in Endpoints, NEW v \in Verdicts, Ended(e, v),
         req' = [req EXCEPT ![e] = v],
         UNCHANGED <<strategy, wave, bytes>>
  PROVE  AskedInv' /\ FailedInv' /\ BytesInv'
<1>. USE DEF IInv, TypeOK
<1>1. Waves' = Waves
  BY SameWaves
<1>2. \A i \in 1 .. Len(Waves) : Waves[i] \subseteq Endpoints
  BY WavesPartition
<1>3. AskedInv'
  BY <1>1, <1>2 DEF AskedInv, Ended, Verdicts, Failures
<1>4. FailedInv'
  BY <1>1, <1>2 DEF FailedInv, Failed, Failures, Ended
<1>5. BytesInv'
  BY DEF BytesInv, Ended, Says, Verdicts, Failures
<1>. QED  BY <1>3, <1>4, <1>5

\* A completion row has its type, whatever the flags say.
LEMMA RowsAreRows ==
  ASSUME TypeOK, NEW e \in Endpoints, Observe(e)
  PROVE  /\ rows' \in [Endpoints -> [phase : {"none", "before_return", "detached"},
                                     first : BOOLEAN]]
         /\ first_result' \in BOOLEAN
<1>1. first_result \in BOOLEAN /\ detached \in BOOLEAN
  BY DEF TypeOK
<1>2. CASE strategy = "Fanout"
  <2>. DEFINE row == [phase |-> IF detached THEN "detached" ELSE "before_return",
                      first |-> ~first_result]
  <2>1. row \in [phase : {"none", "before_return", "detached"}, first : BOOLEAN]
    BY <1>1
  <2>2. rows' = [rows EXCEPT ![e] = row] /\ first_result' = TRUE
    BY <1>2 DEF Observe
  <2>. HIDE DEF row
  <2>. QED  BY <2>1, <2>2 DEF TypeOK
<1>3. CASE strategy # "Fanout"
  BY <1>1, <1>3 DEF Observe, TypeOK
<1>. QED  BY <1>2, <1>3

LEMMA FailKeepsIInv ==
  ASSUME IInv, NEW e \in Endpoints, Fail(e) PROVE IInv'
<1>. USE DEF IInv
<1>1. PICK v \in Failures : Ended(e, v) /\ req' = [req EXCEPT ![e] = v]
  BY DEF Fail
<1>2. /\ result = "none" /\ errors' = errors \cup {e} /\ Observe(e)
      /\ UNCHANGED <<strategy, wave, bytes, result, winner, detached>>
  BY DEF Fail
<1>3. v \in Verdicts /\ Waves' = Waves
  BY <1>2, SameWaves DEF Verdicts
<1>4. TypeOK'
  BY <1>1, <1>2, <1>3, RowsAreRows DEF TypeOK
<1>5. AskedInv' /\ FailedInv' /\ BytesInv'
  BY <1>1, <1>2, <1>3, VerdictStep
<1>6. ErrorsInv'
  <2>1. errors = {d \in Endpoints : req[d] \in Failures} \ Forgotten
    BY <1>2 DEF ErrorsInv
  <2>2. {d \in Endpoints : req'[d] \in Failures}
          = {d \in Endpoints : req[d] \in Failures} \cup {e}
    BY <1>1 DEF TypeOK
  <2>3. e \notin Forgotten /\ Forgotten' = Forgotten
    <3>1. Forgotten' = Forgotten
      BY <1>2 DEF Forgotten
    <3>2. ASSUME strategy = "PrivateFirst", wave > 1, e \in Private PROVE FALSE
      <4>1. Len(Waves) = 2 /\ Waves[1] = Private
        BY <3>2 DEF Waves
      <4>2. Failed(Private)
        BY <3>2, <4>1 DEF FailedInv
      <4>. QED  BY <4>2, <3>2, <1>1 DEF Failed, Failures, Ended
    <3>. QED  BY <3>1, <3>2 DEF Forgotten
  <2>. QED  BY <2>1, <2>2, <2>3, <1>2 DEF ErrorsInv
<1>7. ResultInv'
  BY <1>2 DEF ResultInv
<1>. QED  BY <1>4, <1>5, <1>6, <1>7

LEMMA WinKeepsIInv ==
  ASSUME IInv, NEW e \in Endpoints, Win(e) PROVE IInv'
<1>. USE DEF IInv
<1>1. /\ result = "none" /\ Ended(e, "ok") /\ Observe(e)
      /\ req' = [Losers(e) EXCEPT ![e] = "ok"]
      /\ result' = "ok" /\ winner' = e /\ detached' \in BOOLEAN
      /\ UNCHANGED <<strategy, wave, bytes, errors>>
  BY DEF Win
<1>2. Waves' = Waves
  BY <1>1, SameWaves
<1>3. /\ req' \in [Endpoints -> Verdicts \cup {"unsent", "sent", "dropped"}]
      /\ req'[e] = "ok"
      /\ \A d \in Endpoints \ {e} :
           req'[d] = req[d] \/ (req[d] = "sent" /\ req'[d] = "dropped")
  <2>1. req \in [Endpoints -> Verdicts \cup {"unsent", "sent", "dropped"}]
    BY DEF TypeOK
  <2>2. CASE strategy = "Fanout"
    BY <1>1, <2>1, <2>2 DEF Losers, Verdicts
  <2>3. CASE strategy # "Fanout"
    BY <1>1, <2>1, <2>3 DEF Losers, Verdicts
  <2>. QED  BY <2>2, <2>3
<1>4. \A i \in 1 .. Len(Waves) : Waves[i] \subseteq Endpoints
  BY WavesPartition DEF TypeOK
<1>5. TypeOK'
  <2>1. e # NoEndpoint
    BY EndpointsExist
  <2>. QED  BY <1>1, <1>2, <1>3, <2>1, RowsAreRows DEF TypeOK
<1>6. AskedInv'
  BY <1>1, <1>2, <1>3, <1>4 DEF AskedInv, Ended
<1>7. FailedInv'
  BY <1>1, <1>2, <1>3, <1>4 DEF FailedInv, Failed, Failures, Ended
<1>8. BytesInv'
  BY <1>1, <1>3 DEF BytesInv, Ended, Says
<1>9. ErrorsInv' /\ ResultInv'
  BY <1>1, <1>3 DEF ErrorsInv, ResultInv
<1>. QED  BY <1>5, <1>6, <1>7, <1>8, <1>9

LEMMA SucceedKeepsIInv ==
  ASSUME IInv, NEW e \in Endpoints, Succeed(e) PROVE IInv'
<1>. USE DEF IInv
<1>1. /\ result = "none" /\ Ended(e, "ok") /\ req' = [req EXCEPT ![e] = "ok"]
      /\ UNCHANGED <<strategy, wave, bytes, errors, result, winner, observer>>
  BY DEF Succeed
<1>2. "ok" \in Verdicts /\ Waves' = Waves
  BY <1>1, SameWaves DEF Verdicts
<1>3. TypeOK'
  BY <1>1, <1>2 DEF TypeOK, observer
<1>4. AskedInv' /\ FailedInv' /\ BytesInv'
  BY <1>1, <1>2, VerdictStep
<1>5. ErrorsInv'
  <2>1. {d \in Endpoints : req'[d] \in Failures} = {d \in Endpoints : req[d] \in Failures}
    BY <1>1 DEF TypeOK, Failures, Ended
  <2>. QED  BY <2>1, <1>1 DEF ErrorsInv, Forgotten
<1>6. ResultInv'
  BY <1>1 DEF ResultInv
<1>. QED  BY <1>3, <1>4, <1>5, <1>6

LEMMA EndLateKeepsIInv ==
  ASSUME IInv, NEW e \in Endpoints, EndLate(e) PROVE IInv'
<1>. USE DEF IInv
<1>1. PICK v \in Verdicts : Ended(e, v) /\ req' = [req EXCEPT ![e] = v]
  BY DEF EndLate
<1>2. /\ result = "ok" /\ Observe(e)
      /\ UNCHANGED <<strategy, wave, bytes, errors, result, winner, detached>>
  BY DEF EndLate
<1>3. Waves' = Waves
  BY <1>2, SameWaves
<1>4. TypeOK'
  BY <1>1, <1>2, <1>3, RowsAreRows DEF TypeOK
<1>5. AskedInv' /\ FailedInv' /\ BytesInv'
  BY <1>1, <1>2, VerdictStep
<1>6. ErrorsInv'
  BY <1>2 DEF ErrorsInv
<1>7. ResultInv'
  BY <1>1, <1>2 DEF ResultInv, TypeOK, Ended
<1>. QED  BY <1>4, <1>5, <1>6, <1>7

LEMMA ReturnKeepsIInv ==
  ASSUME IInv, ReturnFailed \/ ReturnAll PROVE IInv'
<1>. USE DEF IInv
<1>1. UNCHANGED <<strategy, wave, req, bytes, errors, observer>> /\ result = "none"
  BY DEF ReturnFailed, ReturnAll
<1>2. Waves' = Waves
  BY <1>1, SameWaves
<1>3. AskedInv' /\ FailedInv' /\ BytesInv'
  BY <1>1, <1>2 DEF AskedInv, FailedInv, BytesInv, Failed
<1>4. CASE ReturnFailed
  <2>1. TypeOK'
    BY <1>1, <1>2, <1>4 DEF TypeOK, observer, ReturnFailed
  <2>2. ErrorsInv' /\ ResultInv'
    BY <1>1, <1>2, <1>4 DEF ErrorsInv, ResultInv, Forgotten, Failed, ReturnFailed
  <2>. QED  BY <1>3, <2>1, <2>2
<1>5. CASE ReturnAll
  <2>1. winner' \in Endpoints /\ req[winner'] = "ok" /\ result' = "ok"
    BY <1>5 DEF ReturnAll, Endpoints
  <2>2. TypeOK'
    BY <1>1, <1>2, <2>1, EndpointsExist DEF TypeOK, observer
  <2>3. ErrorsInv' /\ ResultInv'
    BY <1>1, <2>1 DEF ErrorsInv, ResultInv
  <2>. QED  BY <1>3, <2>2, <2>3
<1>. QED  BY <1>4, <1>5

LEMMA CancelKeepsIInv == ASSUME IInv, Cancel PROVE IInv'
<1>. USE DEF IInv, Cancel
<1>1. Waves' = Waves
  BY SameWaves
<1>2. \A i \in 1 .. Len(Waves) : Waves[i] \subseteq Endpoints
  BY WavesPartition DEF TypeOK
<1>3. \A e \in Endpoints :
        req'[e] = req[e] \/ (req[e] = "sent" /\ req'[e] = "dropped")
  OBVIOUS
<1>4. TypeOK'
  BY <1>1 DEF TypeOK, observer
<1>5. AskedInv' /\ FailedInv'
  BY <1>1, <1>2, <1>3 DEF AskedInv, FailedInv, Failed, Failures
<1>6. BytesInv' /\ ErrorsInv' /\ ResultInv'
  BY <1>3 DEF BytesInv, ErrorsInv, ResultInv
<1>. QED  BY <1>4, <1>5, <1>6

LEMMA JudgeKeepsIInv ==
  ASSUME IInv, NEW e \in Endpoints, Judge(e) PROVE IInv'
<1>. USE DEF IInv
<1>1. PICK fate \in {"taken", "refused", "lost"} :
        bytes' = [bytes EXCEPT ![e] = fate]
  BY DEF Judge
<1>2. /\ bytes[e] = "wire"
      /\ UNCHANGED <<strategy, wave, req, errors, result, winner, observer>>
  BY DEF Judge
<1>3. Waves' = Waves
  BY <1>2, SameWaves
<1>4. TypeOK'
  BY <1>1, <1>2, <1>3 DEF TypeOK, observer
<1>5. AskedInv' /\ FailedInv' /\ ErrorsInv' /\ ResultInv'
  BY <1>2, <1>3 DEF AskedInv, FailedInv, ErrorsInv, ResultInv, Failed, Forgotten
<1>6. BytesInv'
  BY <1>1, <1>2 DEF BytesInv, TypeOK
<1>. QED  BY <1>4, <1>5, <1>6

LEMMA NextKeepsIInv == IInv /\ [Next]_vars => IInv'
<1>. SUFFICES ASSUME IInv, [Next]_vars PROVE IInv'
  OBVIOUS
<1>1. CASE StartWave
  BY <1>1, StartWaveStep
<1>2. ASSUME NEW e \in Endpoints, End(e) PROVE IInv'
  BY <1>2, FailKeepsIInv, WinKeepsIInv, SucceedKeepsIInv, EndLateKeepsIInv DEF End
<1>3. CASE ReturnFailed \/ ReturnAll
  BY <1>3, ReturnKeepsIInv
<1>4. CASE Cancel
  BY <1>4, CancelKeepsIInv
<1>5. ASSUME NEW e \in Endpoints, Judge(e) PROVE IInv'
  BY <1>5, JudgeKeepsIInv
<1>6. CASE UNCHANGED vars
  <2>1. /\ UNCHANGED <<strategy, wave, req, bytes, errors, result, winner, observer>>
        /\ Waves' = Waves
    BY <1>6, SameWaves DEF vars, observer
  <2>2. TypeOK'
    BY <2>1 DEF IInv, TypeOK, observer
  <2>3. AskedInv' /\ FailedInv' /\ BytesInv'
    BY <2>1 DEF IInv, AskedInv, FailedInv, BytesInv, Failed
  <2>4. ErrorsInv' /\ ResultInv'
    BY <2>1 DEF IInv, ErrorsInv, ResultInv, Failed, Forgotten
  <2>. QED  BY <2>2, <2>3, <2>4 DEF IInv
<1>. QED  BY <1>1, <1>2, <1>3, <1>4, <1>5, <1>6 DEF Next

\* The inductive invariant: it holds of every broadcast, over any endpoints.
THEOREM Invariance == Spec => []IInv
<1>1. Init => IInv
  BY InitIsIInv
<1>2. IInv /\ [Next]_vars => IInv'
  BY NextKeepsIInv
<1>. QED  BY <1>1, <1>2, PTL DEF Spec
-----------------------------------------------------------------------------
(* What follows from it *)

\* Every variable keeps its type, and a success has a winner.
THEOREM TypeCorrect == Spec => []TypeOK
<1>1. IInv => TypeOK
  BY DEF IInv
<1>. QED  BY <1>1, Invariance, PTL

\* When the last wave has failed, so have all.
LEMMA AllHaveFailed ==
  ASSUME IInv, wave = Len(Waves), Failed(Waves[wave]) PROVE Failed(Endpoints)
<1>1. \A i \in 1 .. Len(Waves) : Failed(Waves[i])
  <2>1. Len(Waves) \in Nat
    BY WavesPartition DEF IInv, TypeOK
  <2>. QED  BY <2>1 DEF IInv, FailedInv
<1>2. \A e \in Endpoints : \E i \in 1 .. Len(Waves) : e \in Waves[i]
  BY WavesPartition DEF IInv, TypeOK
<1>. QED  BY <1>1, <1>2 DEF Failed

\* A failed broadcast has a verdict of everyone (collect_broadcast), and reports
\* them all but those of private relays (broadcast_private_first).
THEOREM AllVerdicts == Spec => []VerdictsAreComplete
<1>1. IInv => VerdictsAreComplete
  <2>. SUFFICES ASSUME IInv, result = "failed"
                PROVE  /\ Failed(Endpoints)
                       /\ errors = IF strategy = "PrivateFirst"
                                   THEN Endpoints \ Private ELSE Endpoints
    BY DEF VerdictsAreComplete
  <2>1. Failed(Endpoints)
    BY AllHaveFailed DEF IInv, ResultInv
  <2>2. errors = Endpoints \ Forgotten
    BY <2>1 DEF IInv, ErrorsInv, Failed
  <2>3. strategy = "PrivateFirst" => wave = 2
    BY DEF IInv, ResultInv, Waves
  <2>. QED  BY <2>1, <2>2, <2>3 DEF Forgotten
<1>. QED  BY <1>1, Invariance, PTL

\* No bytes reach an endpoint before everyone who goes first has failed.
THEOREM AskedInOrder == Spec => []NobodyIsAskedEarly
<1>1. IInv => NobodyIsAskedEarly
  <2>. SUFFICES ASSUME IInv, NEW i \in 1 .. Len(Waves), NEW j \in 1 .. Len(Waves),
                       i < j, NEW e \in Waves[j], bytes[e] # "none"
                PROVE  Failed(Waves[i])
    BY DEF NobodyIsAskedEarly
  <2>1. Len(Waves) \in Nat /\ wave \in Nat /\ e \in Endpoints
    BY WavesPartition DEF IInv, TypeOK
  <2>2. req[e] # "unsent"
    BY <2>1 DEF IInv, BytesInv
  <2>3. j <= wave
    BY <2>1, <2>2 DEF IInv, AskedInv
  <2>. QED  BY <2>1, <2>3 DEF IInv, FailedInv
<1>. QED  BY <1>1, Invariance, PTL
-----------------------------------------------------------------------------
(* The rows of the observer *)

\* A row is written when its request ends, "before_return" until the result is
\* there; first_result stays set from the first of them.
RowsInv ==
  /\ strategy = "Fanout" =>
       /\ detached <=> result = "ok"
       /\ \A e \in Endpoints : rows[e].phase = "none" <=> req[e] \notin Verdicts
       /\ \A e \in Endpoints :
            rows[e].phase = "before_return" <=> e \in errors \/ e = winner
  /\ \A e \in Endpoints : rows[e].first => first_result
  /\ \A d, e \in Endpoints : rows[d].first /\ rows[e].first => d = e

LEMMA InitIsRowsInv == Init => RowsInv
BY EndpointsExist DEF Init, RowsInv, NoRow, Verdicts, Failures

\* The row of a request that ends is its first and only one.
LEMMA EndKeepsRowsInv ==
  ASSUME TypeOK, RowsInv, NEW e \in Endpoints, End(e) PROVE RowsInv'
<1>1. strategy' = strategy /\ req[e] = "sent"
  BY DEF End, Fail, Win, Succeed, EndLate, Ended
<1>2. CASE strategy # "Fanout"
  <2>1. UNCHANGED <<rows, first_result>>
    BY <1>2 DEF End, Fail, Win, Succeed, EndLate, Observe, observer
  <2>. QED  BY <1>1, <1>2, <2>1 DEF RowsInv
<1>3. CASE strategy = "Fanout"
  <2>1. /\ rows' = [rows EXCEPT ![e] =
                      [phase |-> IF detached THEN "detached" ELSE "before_return",
                       first |-> ~first_result]]
        /\ first_result' = TRUE
    BY <1>3 DEF End, Fail, Win, Succeed, EndLate, Observe
  <2>2. /\ rows'[e].phase = IF detached THEN "detached" ELSE "before_return"
        /\ rows'[e].first = ~first_result
        /\ \A d \in Endpoints : d # e => rows'[d] = rows[d]
    BY <2>1 DEF TypeOK
  <2>3. \A d \in Endpoints : rows'[d].first => first_result'
    BY <2>1
  <2>4. \A c, d \in Endpoints : rows'[c].first /\ rows'[d].first => c = d
    BY <2>2 DEF RowsInv
  <2>5. req'[e] \in Verdicts /\ \A d \in Endpoints : d # e => req'[d] = req[d]
    BY <1>3 DEF End, Fail, Win, Succeed, EndLate, Losers, TypeOK, Ended, Verdicts
  <2>6. \A d \in Endpoints : rows'[d].phase = "none" <=> req'[d] \notin Verdicts
    BY <1>3, <2>2, <2>5 DEF RowsInv
  <2>7. e \notin errors /\ e # winner
    BY <1>1, <1>3 DEF RowsInv, Verdicts, Failures
  <2>8. CASE Fail(e)
    <3>1. errors' = errors \cup {e} /\ UNCHANGED <<result, winner, detached>> /\ ~detached
      BY <1>3, <2>8 DEF Fail, RowsInv
    <3>2. \A d \in Endpoints :
            rows'[d].phase = "before_return" <=> d \in errors' \/ d = winner'
      BY <1>3, <2>2, <2>7, <3>1 DEF RowsInv
    <3>. QED  BY <1>1, <1>3, <2>3, <2>4, <2>6, <3>1, <3>2 DEF RowsInv
  <2>9. CASE Win(e)
    <3>1. /\ UNCHANGED errors /\ winner = NoEndpoint /\ winner' = e
          /\ ~detached /\ detached' /\ result' = "ok"
      BY <1>3, <2>9 DEF Win, RowsInv, TypeOK
    <3>2. \A d \in Endpoints :
            rows'[d].phase = "before_return" <=> d \in errors' \/ d = winner'
      BY <1>3, <2>2, <2>7, <3>1, EndpointsExist DEF RowsInv
    <3>. QED  BY <1>1, <1>3, <2>3, <2>4, <2>6, <3>1, <3>2 DEF RowsInv
  <2>10. CASE EndLate(e)
    <3>1. UNCHANGED <<errors, result, winner, detached>> /\ detached
      BY <1>3, <2>10 DEF EndLate, RowsInv
    <3>2. \A d \in Endpoints :
            rows'[d].phase = "before_return" <=> d \in errors' \/ d = winner'
      BY <1>3, <2>2, <2>7, <3>1 DEF RowsInv
    <3>. QED  BY <1>1, <1>3, <2>3, <2>4, <2>6, <3>1, <3>2 DEF RowsInv
  <2>. QED  BY <1>3, <2>8, <2>9, <2>10 DEF End, Succeed
<1>. QED  BY <1>2, <1>3

LEMMA NextKeepsRowsInv == IInv /\ RowsInv /\ [Next]_vars => RowsInv'
<1>. SUFFICES ASSUME IInv, RowsInv, [Next]_vars PROVE RowsInv'
  OBVIOUS
<1>. USE DEF observer, RowsInv
<1>1. CASE StartWave
  <2>1. /\ result' = result /\ winner' = winner /\ strategy' = strategy
        /\ UNCHANGED observer /\ (strategy = "Fanout" => errors' = errors)
    BY <1>1 DEF StartWave
  <2>2. \A e \in Endpoints : req[e] \notin Verdicts <=> req'[e] \notin Verdicts
    <3>1. wave' = wave + 1 /\ wave' \in 1 .. Len(Waves)
      BY <1>1, WavesPartition DEF StartWave, IInv, TypeOK
    <3>2. \A e \in Endpoints : e \in Waves[wave'] => req[e] = "unsent"
      BY <3>1 DEF IInv, AskedInv, TypeOK
    <3>3. req' = [e \in Endpoints |-> IF e \in Waves[wave'] THEN "sent" ELSE req[e]]
      BY <1>1 DEF StartWave
    <3>. QED  BY <3>2, <3>3 DEF Verdicts, Failures
  <2>. QED  BY <2>1, <2>2
<1>2. ASSUME NEW e \in Endpoints, End(e) PROVE RowsInv'
  BY <1>2, EndKeepsRowsInv DEF IInv
<1>3. CASE ReturnFailed
  BY <1>3 DEF ReturnFailed
<1>4. CASE ReturnAll
  BY <1>4 DEF ReturnAll
<1>5. CASE Cancel
  <2>1. \A e \in Endpoints : req[e] \notin Verdicts <=> req'[e] \notin Verdicts
    BY <1>5 DEF Cancel, Verdicts, Failures
  <2>. QED  BY <1>5, <2>1 DEF Cancel
<1>6. ASSUME NEW e \in Endpoints, Judge(e) PROVE RowsInv'
  BY <1>6 DEF Judge
<1>7. CASE UNCHANGED vars
  BY <1>7 DEF vars
<1>. QED  BY <1>1, <1>2, <1>3, <1>4, <1>5, <1>6, <1>7 DEF Next

\* What the observer reports as completed in time is the winner and the failures
\* the result counts, and it names one first completion (Observation::finish).
THEOREM OneStory == Spec => []RowsMatchTheResult
<1>1. Init => RowsInv
  BY InitIsRowsInv
<1>2. IInv /\ RowsInv /\ [Next]_vars => RowsInv'
  BY NextKeepsRowsInv
<1>3. IInv /\ RowsInv => RowsMatchTheResult
  BY EndpointsExist DEF RowsInv, RowsMatchTheResult, IInv, TypeOK
<1>. QED  BY <1>1, <1>2, <1>3, Invariance, PTL DEF Spec
-----------------------------------------------------------------------------
(* The refinement of SendOutcome *)

Taken == \E e \in Endpoints : bytes[e] = "taken"
MayReach == \E e \in Endpoints : MayStillTake(e)

LEMMA InitRefines == Init => Outcome!Init
<1>. SUFFICES ASSUME Init PROVE reply = "none" /\ whereabouts = "wire"
  BY DEF Outcome!Init
<1>1. \E e \in Endpoints : TRUE
  BY EndpointsExist DEF Endpoints
<1>. QED  BY <1>1 DEF Init, reply, whereabouts, MayStillTake

\* While a broadcast runs or is a success, its reply depends on the result alone.
LEMMA ReplyOfResult ==
  /\ result = "ok" => reply = "ok"
  /\ result \in {"none", "cancelled"} => reply = "none"
BY DEF reply

\* Sending a wave and ending a request move no bytes.
LEMMA StartWaveStutters ==
  ASSUME IInv, StartWave PROVE UNCHANGED <<reply, whereabouts>>
<1>1. wave' \in 1 .. Len(Waves) /\ wave' = wave + 1 /\ Waves' = Waves
      /\ \A i \in 1 .. Len(Waves) : Waves[i] \subseteq Endpoints
  BY WavesPartition, SameWaves DEF IInv, TypeOK, StartWave
<1>2. \A e \in Waves[wave'] : bytes[e] = "none" /\ e \in Endpoints
  BY <1>1 DEF IInv, AskedInv, BytesInv, TypeOK
<1>3. /\ result = "none" /\ result' = "none"
      /\ bytes' = [e \in Endpoints |-> IF e \in Waves[wave'] THEN "wire" ELSE bytes[e]]
  BY DEF StartWave
<1>4. Taken' <=> Taken
  BY <1>2, <1>3 DEF Taken
<1>5. MayReach' <=> MayReach
  BY <1>2, <1>3 DEF MayReach, MayStillTake
<1>. QED  BY <1>3, <1>4, <1>5 DEF reply, whereabouts, Taken, MayReach

LEMMA EndRefines ==
  ASSUME IInv, NEW e \in Endpoints, End(e)
  PROVE  [Outcome!Next]_<<reply, whereabouts>>
<1>1. CASE Fail(e) \/ Succeed(e) \/ EndLate(e)
  <2>1. UNCHANGED <<bytes, result>> /\ result \in {"none", "ok"}
    BY <1>1 DEF Fail, Succeed, EndLate
  <2>. QED  BY <2>1 DEF reply, whereabouts, MayStillTake
<1>2. CASE Win(e)
  <2>1. bytes[e] = "taken" /\ bytes' = bytes /\ result = "none" /\ result' = "ok"
    BY <1>2 DEF Win, Ended, Says, Failures
  <2>2. whereabouts = "reached" /\ whereabouts' = "reached"
    BY <2>1 DEF whereabouts
  <2>3. reply = "none" /\ reply' = "ok"
    BY <2>1 DEF reply
  <2>. QED  BY <2>2, <2>3 DEF Outcome!Next, Outcome!ReplyOk
<1>. QED  BY <1>1, <1>2 DEF End

\* When the fan-out reports definitive rejections of all, nobody has the bytes.
LEMMA ReturnFailedRefines ==
  ASSUME IInv, ReturnFailed
  PROVE  [Outcome!Next]_<<reply, whereabouts>>
<1>1. /\ result = "none" /\ result' = "failed"
      /\ UNCHANGED <<strategy, req, bytes, errors>>
  BY DEF ReturnFailed
<1>2. \A e \in Endpoints : req[e] \in Failures
  BY AllHaveFailed DEF ReturnFailed, Failed
<1>3. \A e \in Endpoints : bytes[e] # "none"
  BY <1>2 DEF IInv, BytesInv, Failures
<1>4. whereabouts' = whereabouts
  BY <1>1, <1>3 DEF whereabouts, MayStillTake
<1>5. reply = "none"
  BY <1>1 DEF reply
<1>6. CASE strategy = "Fanout" /\ AllDefinitive
  <2>1. errors = Endpoints
    BY <1>1, <1>2, <1>6 DEF IInv, ErrorsInv, Forgotten
  <2>2. \A e \in Endpoints : bytes[e] = "refused"
    BY <2>1, <1>6 DEF AllDefinitive, IInv, BytesInv
  <2>3. whereabouts = "nowhere"
    BY <2>2 DEF whereabouts, MayStillTake
  <2>4. reply' = "definitive"
    BY <1>1, <1>6 DEF reply, AllDefinitive
  <2>. QED  BY <1>4, <1>5, <2>3, <2>4 DEF Outcome!Next, Outcome!ReplyDefinitive
<1>7. CASE ~(strategy = "Fanout" /\ AllDefinitive)
  <2>1. reply' = "ambiguous"
    BY <1>1, <1>7 DEF reply, AllDefinitive
  <2>. QED  BY <1>4, <1>5, <2>1 DEF Outcome!Next, Outcome!ReplyAmbiguous
<1>. QED  BY <1>6, <1>7

LEMMA ReturnAllRefines ==
  ASSUME IInv, ReturnAll PROVE [Outcome!Next]_<<reply, whereabouts>>
<1>1. PICK i \in 1 .. Len(Order) : req[Order[i]] = "ok"
  BY DEF ReturnAll
<1>2. Order[i] \in Endpoints /\ bytes[Order[i]] = "taken"
  BY <1>1 DEF Endpoints, IInv, BytesInv
<1>3. bytes' = bytes /\ result = "none" /\ result' = "ok"
  BY DEF ReturnAll
<1>4. whereabouts = "reached" /\ whereabouts' = "reached"
  BY <1>2, <1>3 DEF whereabouts
<1>5. reply = "none" /\ reply' = "ok"
  BY <1>3 DEF reply
<1>. QED  BY <1>4, <1>5 DEF Outcome!Next, Outcome!ReplyOk

\* Dropping the call keeps unsent bytes from ever being sent.
LEMMA CancelRefines ==
  ASSUME IInv, Cancel PROVE [Outcome!Next]_<<reply, whereabouts>>
<1>1. result = "none" /\ result' = "cancelled" /\ bytes' = bytes
  BY DEF Cancel
<1>2. reply = "none" /\ reply' = "none"
  BY <1>1 DEF reply
<1>3. Taken' <=> Taken
  BY <1>1 DEF Taken
<1>4. MayReach' => MayReach
  BY <1>1 DEF MayReach, MayStillTake
<1>5. \/ whereabouts' = whereabouts
      \/ whereabouts = "wire" /\ whereabouts' = "nowhere"
  BY <1>3, <1>4 DEF whereabouts, Taken, MayReach
<1>. QED  BY <1>2, <1>5 DEF Outcome!Next, Outcome!Vanish

\* An endpoint that judges the bytes takes them, or is one less that may.
LEMMA JudgeRefines ==
  ASSUME IInv, NEW e \in Endpoints, Judge(e)
  PROVE  [Outcome!Next]_<<reply, whereabouts>>
<1>1. PICK fate \in {"taken", "refused", "lost"} :
        bytes' = [bytes EXCEPT ![e] = fate]
  BY DEF Judge
<1>2. bytes[e] = "wire" /\ UNCHANGED <<strategy, req, errors, result>>
  BY DEF Judge
<1>3. reply' = reply
  BY <1>2 DEF reply, AllDefinitive
<1>4. MayReach /\ (Taken => Taken')
  BY <1>1, <1>2 DEF MayReach, MayStillTake, Taken, IInv, TypeOK
<1>5. whereabouts = "reached" => whereabouts' = "reached"
  BY <1>4 DEF whereabouts, Taken
<1>6. whereabouts \in {"wire", "reached"}
  BY <1>4 DEF whereabouts, MayReach
<1>7. whereabouts' \in {"wire", "reached", "nowhere"}
  BY DEF whereabouts
<1>. QED  BY <1>3, <1>5, <1>6, <1>7 DEF Outcome!Next, Outcome!Reach, Outcome!Vanish

\* A broadcast tells its sender the truth: a success reached a pool, and after
\* a definitive rejection no endpoint has the bytes or will, so the wallet may
\* give the nonce back (is_definitive_precheck_rejection).
THEOREM BroadcastImplementsOutcome == Spec => ImplementsSendOutcome
<1>1. Init => Outcome!Init
  BY InitRefines
<1>2. IInv /\ [Next]_vars => [Outcome!Next]_<<reply, whereabouts>>
  <2>. SUFFICES ASSUME IInv, [Next]_vars
                PROVE  [Outcome!Next]_<<reply, whereabouts>>
    OBVIOUS
  <2>1. CASE StartWave
    BY <2>1, StartWaveStutters
  <2>2. ASSUME NEW e \in Endpoints, End(e)
        PROVE  [Outcome!Next]_<<reply, whereabouts>>
    BY <2>2, EndRefines
  <2>3. CASE ReturnFailed
    BY <2>3, ReturnFailedRefines
  <2>4. CASE ReturnAll
    BY <2>4, ReturnAllRefines
  <2>5. CASE Cancel
    BY <2>5, CancelRefines
  <2>6. ASSUME NEW e \in Endpoints, Judge(e)
        PROVE  [Outcome!Next]_<<reply, whereabouts>>
    BY <2>6, JudgeRefines
  <2>7. CASE UNCHANGED vars
    <3>1. UNCHANGED <<reply, whereabouts>>
      BY <2>7 DEF vars, observer, reply, whereabouts, AllDefinitive, MayStillTake
    <3>. QED  BY <3>1
  <2>. QED  BY <2>1, <2>2, <2>3, <2>4, <2>5, <2>6, <2>7 DEF Next
<1>3. Spec => []IInv
  BY Invariance
<1>. QED  BY <1>1, <1>2, <1>3, PTL DEF Spec, ImplementsSendOutcome, Outcome!Spec
=============================================================================
