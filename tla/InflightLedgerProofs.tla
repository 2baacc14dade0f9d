------------------------ MODULE InflightLedgerProofs ------------------------
(***************************************************************************)
(* What InflightLedger promises, for any nonces, transactions, fees and    *)
(* bound on the tracked records: the fee basis covers every transaction    *)
(* signed, counts and ages are those of the attempt, and records leave     *)
(* only from the bottom.                                                   *)
(***************************************************************************)
EXTENDS InflightLedger, FiniteSetTheorems, TLAPS

Records == [status : Statuses, hashes : SUBSET Hashes, first_seen : Nat,
            accepted : Nat, fee : Nat]

(* The operations on the map *)

\* X is R after a call that leaves record in place of n's, and what it evicts is
\* below all that stays.
Becomes(R, X, n, record) ==
  /\ IsFiniteSet(DOMAIN X)
  /\ DOMAIN X \subseteq DOMAIN R \cup {n}
  /\ \A m \in DOMAIN X : X[m] = IF m = n THEN record ELSE R[m]
  /\ \A k \in DOMAIN R \ DOMAIN X : \A m \in DOMAIN X : k < m

LEMMA PutBecomes ==
  ASSUME NEW R, IsFiniteSet(DOMAIN R), NEW n, NEW record
  PROVE  /\ Becomes(R, Put(R, n, record), n, record)
         /\ DOMAIN Put(R, n, record) = DOMAIN R \cup {n}
<1>1. IsFiniteSet(DOMAIN R \cup {n})
  BY FS_AddElement
<1>2. DOMAIN Put(R, n, record) = DOMAIN R \cup {n}
  BY DEF Put
<1>3. \A m \in DOMAIN R \cup {n} :
        Put(R, n, record)[m] = IF m = n THEN record ELSE R[m]
  BY DEF Put
<1>. QED  BY <1>1, <1>2, <1>3 DEF Becomes

\* Eviction keeps the upper end of the map: a nonce with few above it has none
\* below it that was kept with more above.
LEMMA PruneOldRecords ==
  ASSUME NEW R, IsFiniteSet(DOMAIN R), DOMAIN R \subseteq Nat
  PROVE  LET P == prune_old_records(R) IN
         /\ IsFiniteSet(DOMAIN P) /\ DOMAIN P \subseteq DOMAIN R
         /\ \A m \in DOMAIN P : P[m] = R[m]
         /\ \A k \in DOMAIN R \ DOMAIN P : \A m \in DOMAIN P : k < m
<1>. DEFINE Above(n) == {m \in DOMAIN R : m > n}
            P == prune_old_records(R)
<1>1. /\ DOMAIN P = {n \in DOMAIN R : Cardinality(Above(n)) < MaxTracked}
      /\ \A m \in DOMAIN P : P[m] = R[m]
  BY DEF prune_old_records, Restrict
<1>2. \A n \in DOMAIN R : IsFiniteSet(Above(n)) /\ Cardinality(Above(n)) \in Nat
  <2>. TAKE n \in DOMAIN R
  <2>1. Above(n) \subseteq DOMAIN R
    OBVIOUS
  <2>. QED  BY <2>1, FS_Subset, FS_CardinalityType
<1>3. ASSUME NEW k \in DOMAIN R \ DOMAIN P, NEW m \in DOMAIN P PROVE k < m
  <2>1. SUFFICES ASSUME ~ (k < m) PROVE FALSE
    OBVIOUS
  <2>2. k \in Nat /\ m \in Nat /\ k \in DOMAIN R /\ m \in DOMAIN R /\ m <= k
    BY <1>1, <2>1
  <2>3. Above(k) \subseteq Above(m)
    BY <2>2
  <2>4. Cardinality(Above(k)) <= Cardinality(Above(m))
    BY <1>2, <2>2, <2>3, FS_Subset
  <2>5. Cardinality(Above(m)) < MaxTracked /\ ~ (Cardinality(Above(k)) < MaxTracked)
    BY <1>1
  <2>. QED  BY <1>2, <2>2, <2>4, <2>5, MaxTrackedIsPositive
<1>4. IsFiniteSet(DOMAIN P)
  BY <1>1, FS_Subset
<1>. QED  BY <1>1, <1>3, <1>4

LEMMA PrunedPutBecomes ==
  ASSUME NEW R, IsFiniteSet(DOMAIN R), DOMAIN R \subseteq Nat, NEW n \in Nat, NEW record
  PROVE  Becomes(R, prune_old_records(Put(R, n, record)), n, record)
<1>. DEFINE Q == Put(R, n, record)
            P == prune_old_records(Q)
<1>1. Becomes(R, Q, n, record) /\ DOMAIN Q = DOMAIN R \cup {n}
  BY PutBecomes
<1>2. IsFiniteSet(DOMAIN Q) /\ DOMAIN Q \subseteq Nat
  BY <1>1 DEF Becomes
<1>. HIDE DEF Q
<1>3. /\ IsFiniteSet(DOMAIN P) /\ DOMAIN P \subseteq DOMAIN Q
      /\ \A m \in DOMAIN P : P[m] = Q[m]
      /\ \A k \in DOMAIN Q \ DOMAIN P : \A m \in DOMAIN P : k < m
  BY <1>2, PruneOldRecords
<1>. HIDE DEF P
<1>4. Becomes(R, P, n, record)
  BY <1>1, <1>3 DEF Becomes
<1>. QED  BY <1>4 DEF P, Q
-----------------------------------------------------------------------------
(* The inductive invariant *)

\* A nonce that is not tracked has no ghosts.
GhostsInv == \A n \in Nonces \ DOMAIN records : signed[n] = {} /\ accepts[n] = 0

IInv ==
  /\ TypeOK
  /\ IsFiniteSet(DOMAIN records)
  /\ GhostsInv
  /\ FeeBasisCovers
  /\ AcceptedOfThisAttempt

LEMMA InitIsIInv == Init => IInv
<1>. SUFFICES ASSUME Init PROVE IInv
  OBVIOUS
<1>1. DOMAIN records = {}
  BY DEF Init
<1>2. IsFiniteSet(DOMAIN records)
  BY <1>1, FS_EmptySet
<1>. QED  BY <1>1, <1>2 DEF Init, IInv, TypeOK, GhostsInv, FeeBasisCovers,
                            AcceptedOfThisAttempt

\* A call about n keeps the invariant if the record it leaves covers what is
\* signed at n then and counts what was accepted.
LEMMA CallKeepsIInv ==
  ASSUME IInv, NEW n \in Nonces, NEW record \in Records,
         NEW s \in SUBSET Hashes, NEW c \in Nat,
         Becomes(records, records', n, record), now' \in Nat, calls' \in Nat,
         signed' = Tracked([signed EXCEPT ![n] = s], {}),
         accepts' = Tracked([accepts EXCEPT ![n] = c], 0),
         \A h \in s : record.fee >= FeeOf[h] /\ h \in record.hashes,
         record.accepted = c
  PROVE  IInv'
<1>1. /\ DOMAIN records' \subseteq Nonces
      /\ \A m \in DOMAIN records' :
           /\ m # n => m \in DOMAIN records /\ records'[m] = records[m]
           /\ m = n => records'[m] = record
  BY DEF Becomes, IInv, TypeOK
<1>2. \A m \in DOMAIN records' : records'[m] \in Records
  BY <1>1 DEF IInv, TypeOK, Records
<1>3. signed' \in [Nonces -> SUBSET Hashes] /\ accepts' \in [Nonces -> Nat]
  BY DEF Tracked, IInv, TypeOK
<1>4. \A m \in Nonces :
        /\ m \notin DOMAIN records' => signed'[m] = {} /\ accepts'[m] = 0
        /\ m \in DOMAIN records' /\ m = n => signed'[m] = s /\ accepts'[m] = c
        /\ m \in DOMAIN records' /\ m # n =>
             signed'[m] = signed[m] /\ accepts'[m] = accepts[m]
  BY DEF Tracked, IInv, TypeOK
<1>5. TypeOK'
  BY <1>1, <1>2, <1>3 DEF TypeOK, Records
<1>6. IsFiniteSet(DOMAIN records') /\ GhostsInv'
  BY <1>4 DEF Becomes, GhostsInv
<1>7. FeeBasisCovers'
  BY <1>1, <1>4 DEF IInv, FeeBasisCovers
<1>8. AcceptedOfThisAttempt'
  BY <1>1, <1>4 DEF IInv, AcceptedOfThisAttempt
<1>. QED  BY <1>5, <1>6, <1>7, <1>8 DEF IInv

\* What the age property asks of a call about n.
AgeOf(n, record) ==
  n \in DOMAIN records =>
    IF records[n].status = "Released" /\ record.status = "Signed"
    THEN record.first_seen = now
    ELSE record.first_seen = records[n].first_seen

Age ==
  \A n \in DOMAIN records \cap DOMAIN records' :
    IF records[n].status = "Released" /\ records'[n].status = "Signed"
    THEN records'[n].first_seen = now
    ELSE records'[n].first_seen = records[n].first_seen

Bottom ==
  \A n \in DOMAIN records \ DOMAIN records' : \A m \in DOMAIN records' : n < m

LEMMA CallKeepsOrder ==
  ASSUME NEW n, NEW record, Becomes(records, records', n, record), AgeOf(n, record)
  PROVE  Age /\ Bottom
<1>1. \A m \in DOMAIN records' : m # n => records'[m] = records[m]
  BY DEF Becomes
<1>2. n \in DOMAIN records' => records'[n] = record
  BY DEF Becomes
<1>3. Age
  BY <1>1, <1>2 DEF Age, AgeOf
<1>4. Bottom
  BY DEF Becomes, Bottom
<1>. QED  BY <1>3, <1>4
-----------------------------------------------------------------------------
(* The calls *)

\* record_signed merges the fee and keeps every hash, old attempt or new.
LEMMA SignStep ==
  ASSUME IInv, NEW n \in Nonces, NEW h \in Hashes, Sign(n, h)
  PROVE  IInv' /\ Age /\ Bottom
<1>. DEFINE record == IF n \in DOMAIN records
                      THEN Resigned(records[n], h, FeeOf[h], now)
                      ELSE NewRecord({h}, FeeOf[h], now)
            s == signed[n] \cup {h}
            c == IF NewAttempt(n) THEN 0 ELSE accepts[n]
<1>1. Becomes(records, records', n, record)
  <2>1. records' = prune_old_records(Put(records, n, record))
    BY DEF Sign, Call, record_signed
  <2>2. DOMAIN records \subseteq Nat /\ n \in Nat /\ IsFiniteSet(DOMAIN records)
    BY NoncesAreNats DEF IInv, TypeOK
  <2>. HIDE DEF record
  <2>. QED  BY <2>1, <2>2, PrunedPutBecomes
<1>2. CASE n \notin DOMAIN records
  <2>1. record = NewRecord({h}, FeeOf[h], now) /\ s = {h} /\ c = 0
    BY <1>2 DEF IInv, GhostsInv, NewAttempt
  <2>2. record \in Records /\ record.fee >= FeeOf[h] /\ h \in record.hashes
        /\ record.accepted = 0
    BY <2>1, FeesArePositive DEF NewRecord, Records, Statuses, IInv, TypeOK
  <2>3. /\ signed' = Tracked([signed EXCEPT ![n] = s], {})
        /\ accepts' = Tracked([accepts EXCEPT ![n] = c], 0)
        /\ now' \in Nat /\ calls' \in Nat
    BY DEF Sign, Call, IInv, TypeOK
  <2>4. /\ AgeOf(n, record) /\ c \in Nat /\ s \in SUBSET Hashes
        /\ record.accepted = c
        /\ \A g \in s : record.fee >= FeeOf[g] /\ g \in record.hashes
    BY <1>2, <2>1, <2>2 DEF AgeOf
  <2>. HIDE DEF record, s, c
  <2>. QED  BY <1>1, <2>2, <2>3, <2>4, CallKeepsIInv, CallKeepsOrder
<1>3. CASE n \in DOMAIN records
  <2>1. /\ record = Resigned(records[n], h, FeeOf[h], now)
        /\ records[n] \in Records /\ FeeOf[h] \in Nat /\ now \in Nat
    BY <1>3, FeesArePositive DEF IInv, TypeOK, Records
  <2>2. /\ record.hashes = records[n].hashes \cup {h}
        /\ record.fee = Larger(records[n].fee, FeeOf[h])
        /\ record.accepted = IF records[n].status = "Released" THEN 0
                             ELSE records[n].accepted
        /\ record \in Records
    <3>0. /\ Larger(records[n].fee, FeeOf[h]) \in Nat
          /\ records[n].hashes \cup {h} \in SUBSET Hashes
          /\ records[n].accepted \in Nat /\ "Signed" \in Statuses
      BY <2>1 DEF Records, Larger, Statuses
    <3>. DEFINE merged == [records[n] EXCEPT
                             !.hashes = @ \cup {h}, !.fee = Larger(@, FeeOf[h])]
    <3>1. record = IF records[n].status = "Released"
                   THEN [merged EXCEPT !.status = "Signed", !.first_seen = now,
                                       !.accepted = 0]
                   ELSE merged
      BY <2>1 DEF Resigned, merge_max
    <3>2. /\ merged \in Records
          /\ merged.hashes = records[n].hashes \cup {h}
          /\ merged.fee = Larger(records[n].fee, FeeOf[h])
          /\ merged.accepted = records[n].accepted
      BY <2>1, <3>0 DEF Records
    <3>. HIDE DEF merged, record
    <3>3. CASE records[n].status = "Released"
      <4>1. record = [merged EXCEPT !.status = "Signed", !.first_seen = now,
                                    !.accepted = 0]
        BY <3>1, <3>3
      <4>2. now \in Nat /\ "Signed" \in Statuses
        BY <2>1, <3>0
      <4>3. record \in Records
        BY <3>2, <4>1, <4>2 DEF Records
      <4>4. record.accepted = 0
        BY <3>2, <4>1 DEF Records
      <4>5. record.hashes = merged.hashes /\ record.fee = merged.fee
        BY <3>2, <4>1 DEF Records
      <4>. QED  BY <3>2, <3>3, <4>3, <4>4, <4>5
    <3>4. CASE records[n].status # "Released"
      BY <3>1, <3>2, <3>4
    <3>. QED  BY <3>3, <3>4
  <2>3. AgeOf(n, record)
    BY <2>1 DEF AgeOf, Resigned, Records
  <2>4. \A g \in s : record.fee >= FeeOf[g] /\ g \in record.hashes
    <3>1. \A g \in signed[n] : records[n].fee >= FeeOf[g] /\ g \in records[n].hashes
      BY <1>3 DEF IInv, FeeBasisCovers
    <3>2. \A g \in Hashes : FeeOf[g] \in Nat
      BY FeesArePositive
    <3>3. signed[n] \subseteq Hashes
      BY DEF IInv, TypeOK
    <3>. QED  BY <2>1, <2>2, <3>1, <3>2, <3>3 DEF Larger, Records
  <2>5. record.accepted = c /\ c \in Nat /\ s \in SUBSET Hashes
    BY <1>3, <2>2 DEF NewAttempt, IInv, TypeOK, AcceptedOfThisAttempt
  <2>6. /\ signed' = Tracked([signed EXCEPT ![n] = s], {})
        /\ accepts' = Tracked([accepts EXCEPT ![n] = c], 0)
        /\ now' \in Nat /\ calls' \in Nat
    BY DEF Sign, Call, IInv, TypeOK
  <2>. HIDE DEF record, s, c
  <2>. QED  BY <1>1, <2>2, <2>3, <2>4, <2>5, <2>6, CallKeepsIInv, CallKeepsOrder
<1>. QED  BY <1>2, <1>3

\* update overwrites the status and keeps the rest.
LEMMA UpdateKeeps ==
  ASSUME IInv, NEW n \in Nonces, NEW h \in Hashes, NEW status \in Statuses \ {"Signed"},
         records' = Update(records, n, h, status, now), now' = now, calls' \in Nat,
         signed' = Tracked(signed, {}),
         accepts' = Tracked([accepts EXCEPT ![n] =
                              @ + IF status \in Acceptances THEN 1 ELSE 0], 0)
  PROVE  IInv' /\ Age /\ Bottom
<1>. DEFINE record == [Entry(records, n, {h}, now) EXCEPT
                         !.hashes = @ \cup {h}, !.status = status,
                         !.accepted = @ + IF status \in Acceptances THEN 1 ELSE 0]
            c == accepts[n] + IF status \in Acceptances THEN 1 ELSE 0
<1>1. Becomes(records, records', n, record)
  <2>1. records' = prune_old_records(Put(records, n, record))
    BY DEF Update
  <2>2. DOMAIN records \subseteq Nat /\ n \in Nat /\ IsFiniteSet(DOMAIN records)
    BY NoncesAreNats DEF IInv, TypeOK
  <2>. HIDE DEF record
  <2>. QED  BY <2>1, <2>2, PrunedPutBecomes
<1>2. /\ Entry(records, n, {h}, now) \in Records
      /\ n \in DOMAIN records => Entry(records, n, {h}, now) = records[n]
      /\ n \notin DOMAIN records => Entry(records, n, {h}, now).accepted = 0
  BY DEF Entry, NewRecord, Records, Statuses, IInv, TypeOK
<1>3. /\ record \in Records
      /\ record.hashes = Entry(records, n, {h}, now).hashes \cup {h}
      /\ record.fee = Entry(records, n, {h}, now).fee
      /\ record.first_seen = Entry(records, n, {h}, now).first_seen
      /\ record.status = status
      /\ record.accepted = Entry(records, n, {h}, now).accepted
                             + IF status \in Acceptances THEN 1 ELSE 0
  <2>. DEFINE entry == Entry(records, n, {h}, now)
  <2>1. entry \in Records
    BY <1>2
  <2>. HIDE DEF entry
  <2>2. record = [entry EXCEPT
                    !.hashes = @ \cup {h}, !.status = status,
                    !.accepted = @ + IF status \in Acceptances THEN 1 ELSE 0]
    BY DEF entry
  <2>. HIDE DEF record
  <2>3. /\ record \in Records
        /\ record.hashes = entry.hashes \cup {h} /\ record.status = status
        /\ record.fee = entry.fee /\ record.first_seen = entry.first_seen
        /\ record.accepted = entry.accepted + IF status \in Acceptances THEN 1 ELSE 0
    <3>1. /\ entry.hashes \cup {h} \in SUBSET Hashes /\ status \in Statuses
          /\ entry.accepted + (IF status \in Acceptances THEN 1 ELSE 0) \in Nat
      BY <2>1 DEF Records
    <3>. QED  BY <2>1, <2>2, <3>1 DEF Records
  <2>. QED  BY <2>3 DEF entry
<1>4. \A g \in signed[n] : record.fee >= FeeOf[g] /\ g \in record.hashes
  BY <1>2, <1>3 DEF IInv, FeeBasisCovers, GhostsInv
<1>5. record.accepted = c /\ c \in Nat
  BY <1>2, <1>3 DEF IInv, TypeOK, AcceptedOfThisAttempt, GhostsInv
<1>6. AgeOf(n, record)
  BY <1>2, <1>3 DEF AgeOf
<1>7. /\ signed' = Tracked([signed EXCEPT ![n] = signed[n]], {})
      /\ accepts' = Tracked([accepts EXCEPT ![n] = c], 0)
      /\ now' \in Nat /\ signed[n] \in SUBSET Hashes
  <2>1. signed = [signed EXCEPT ![n] = signed[n]]
    BY DEF IInv, TypeOK
  <2>. QED  BY <2>1 DEF IInv, TypeOK
<1>. HIDE DEF record, c
<1>. QED  BY <1>1, <1>3, <1>4, <1>5, <1>6, <1>7, CallKeepsIInv, CallKeepsOrder

LEMMA AcceptStep ==
  ASSUME IInv, NEW n \in Nonces, NEW h \in Hashes, Accept(n, h)
  PROVE  IInv' /\ Age /\ Bottom
<1>1. PICK status \in Acceptances : records' = Update(records, n, h, status, now)
  BY DEF Accept, Call, mark_broadcast_accepted, mark_rebroadcast_accepted, Acceptances
<1>2. status \in Statuses \ {"Signed"}
  BY DEF Acceptances, Statuses
<1>3. /\ accepts' = Tracked([accepts EXCEPT ![n] =
                              @ + IF status \in Acceptances THEN 1 ELSE 0], 0)
      /\ signed' = Tracked(signed, {}) /\ now' = now /\ calls' \in Nat
  BY DEF Accept, Call, IInv, TypeOK
<1>. QED  BY <1>1, <1>2, <1>3, UpdateKeeps

LEMMA ObserveStep ==
  ASSUME IInv, NEW n \in Nonces, NEW h \in Hashes, Observe(n, h)
  PROVE  IInv' /\ Age /\ Bottom
<1>1. PICK status \in {"MempoolSeen", "Mined"} :
        records' = Update(records, n, h, status, now)
  BY DEF Observe, Call, mark_mempool_seen, mark_mined
<1>2. status \in Statuses \ {"Signed"} /\ status \notin Acceptances
  BY DEF Acceptances, Statuses, Resolved
<1>3. accepts' = Tracked([accepts EXCEPT ![n] =
                            @ + IF status \in Acceptances THEN 1 ELSE 0], 0)
  BY <1>2 DEF Observe, Tracked, IInv, TypeOK
<1>4. signed' = Tracked(signed, {}) /\ now' = now /\ calls' \in Nat
  BY DEF Observe, Call, IInv, TypeOK
<1>. QED  BY <1>1, <1>2, <1>3, <1>4, UpdateKeeps

\* mark_released and mark_committed evict nobody.
LEMMA SettleStep ==
  ASSUME IInv, NEW n \in Nonces, Settle(n)
  PROVE  IInv' /\ Age /\ Bottom
<1>1. PICK status \in {"Released", "Committed"} :
        records' = Put(records, n, [Entry(records, n, {}, now) EXCEPT !.status = status])
  BY DEF Settle, Call, mark_released, mark_committed
<1>. DEFINE record == [Entry(records, n, {}, now) EXCEPT !.status = status]
<1>2. Becomes(records, records', n, record) /\ DOMAIN records' = DOMAIN records \cup {n}
  <2>. HIDE DEF record
  <2>. QED  BY <1>1, PutBecomes DEF IInv, record
<1>3. /\ Entry(records, n, {}, now) \in Records
      /\ n \in DOMAIN records => Entry(records, n, {}, now) = records[n]
      /\ n \notin DOMAIN records => Entry(records, n, {}, now).accepted = 0
  BY DEF Entry, NewRecord, Records, Statuses, IInv, TypeOK
<1>4. /\ record \in Records
      /\ record.hashes = Entry(records, n, {}, now).hashes
      /\ record.fee = Entry(records, n, {}, now).fee
      /\ record.first_seen = Entry(records, n, {}, now).first_seen
      /\ record.accepted = Entry(records, n, {}, now).accepted
      /\ record.status # "Signed"
  BY <1>3 DEF Records, Statuses, Resolved
<1>5. \A g \in signed[n] : record.fee >= FeeOf[g] /\ g \in record.hashes
  BY <1>3, <1>4 DEF IInv, FeeBasisCovers, GhostsInv
<1>6. record.accepted = accepts[n] /\ accepts[n] \in Nat /\ signed[n] \in SUBSET Hashes
  BY <1>3, <1>4 DEF IInv, TypeOK, AcceptedOfThisAttempt, GhostsInv
<1>7. AgeOf(n, record)
  BY <1>3, <1>4 DEF AgeOf
<1>8. /\ signed' = Tracked([signed EXCEPT ![n] = signed[n]], {})
      /\ accepts' = Tracked([accepts EXCEPT ![n] = accepts[n]], 0)
  BY <1>2 DEF Settle, Tracked, IInv, TypeOK, GhostsInv
<1>9. now' \in Nat /\ calls' \in Nat
  BY DEF Settle, Call, IInv, TypeOK
<1>. HIDE DEF record
<1>. QED  BY <1>2, <1>4, <1>5, <1>6, <1>7, <1>8, <1>9, CallKeepsIInv, CallKeepsOrder

LEMMA PruneConsumedStep ==
  ASSUME IInv, NEW chain_next \in Nonces, PruneConsumed(chain_next)
  PROVE  IInv' /\ Age /\ Bottom
<1>1. /\ DOMAIN records' = {n \in DOMAIN records : n >= chain_next}
      /\ \A n \in DOMAIN records' : records'[n] = records[n]
  BY DEF PruneConsumed, prune_consumed, Restrict
<1>2. \A n \in Nonces :
        /\ n \in DOMAIN records' => signed'[n] = signed[n] /\ accepts'[n] = accepts[n]
        /\ n \notin DOMAIN records' => signed'[n] = {} /\ accepts'[n] = 0
  BY DEF PruneConsumed, Tracked
<1>3. signed' \in [Nonces -> SUBSET Hashes] /\ accepts' \in [Nonces -> Nat]
  BY DEF PruneConsumed, Tracked, IInv, TypeOK
<1>4. TypeOK'
  BY <1>1, <1>3 DEF PruneConsumed, IInv, TypeOK
<1>5. IsFiniteSet(DOMAIN records')
  BY <1>1, FS_Subset DEF IInv
<1>6. GhostsInv' /\ FeeBasisCovers' /\ AcceptedOfThisAttempt'
  BY <1>1, <1>2 DEF GhostsInv, IInv, TypeOK, FeeBasisCovers, AcceptedOfThisAttempt
<1>7. Bottom
  <2>. SUFFICES ASSUME NEW n \in DOMAIN records \ DOMAIN records',
                       NEW m \in DOMAIN records'
                PROVE  n < m
    BY DEF Bottom
  <2>1. n \in Nat /\ m \in Nat /\ chain_next \in Nat
    BY <1>1, NoncesAreNats DEF IInv, TypeOK
  <2>2. ~ (n >= chain_next) /\ m >= chain_next
    BY <1>1
  <2>. QED  BY <2>1, <2>2
<1>8. Age
  BY <1>1 DEF Age
<1>. QED  BY <1>4, <1>5, <1>6, <1>7, <1>8 DEF IInv

LEMMA TickStep ==
  ASSUME IInv, Tick \/ UNCHANGED vars PROVE IInv' /\ Age /\ Bottom
<1>1. UNCHANGED <<records, calls, signed, accepts>> /\ now' \in Nat
  BY DEF Tick, vars, IInv, TypeOK
<1>2. IInv'
  BY <1>1 DEF IInv, TypeOK, GhostsInv, FeeBasisCovers, AcceptedOfThisAttempt
<1>3. Age /\ Bottom
  BY <1>1 DEF Age, Bottom
<1>. QED  BY <1>2, <1>3

LEMMA NextStep == IInv /\ [Next]_vars => IInv' /\ Age /\ Bottom
BY SignStep, AcceptStep, ObserveStep, SettleStep, PruneConsumedStep, TickStep DEF Next
-----------------------------------------------------------------------------
(* The theorems *)

\* The inductive invariant: it holds of the ledger after every sequence of calls.
THEOREM Invariance == Spec => []IInv
<1>1. Init => IInv
  BY InitIsIInv
<1>2. IInv /\ [Next]_vars => IInv'
  BY NextStep
<1>. QED  BY <1>1, <1>2, PTL DEF Spec

\* Every record stays a record, and the ghosts sets and counts.
THEOREM TypeCorrect == Spec => []TypeOK
<1>1. IInv => TypeOK
  BY DEF IInv
<1>. QED  BY <1>1, Invariance, PTL

\* max_fee_seen and the hashes cover every transaction signed at a nonce while it
\* was tracked (record_signed, update).
THEOREM FeesAreCovered == Spec => []FeeBasisCovers
<1>1. IInv => FeeBasisCovers
  BY DEF IInv
<1>. QED  BY <1>1, Invariance, PTL

\* accepted_broadcasts counts the attempt at hand (record_signed, update).
THEOREM CountsAreOfTheAttempt == Spec => []AcceptedOfThisAttempt
<1>1. IInv => AcceptedOfThisAttempt
  BY DEF IInv
<1>. QED  BY <1>1, Invariance, PTL

\* The clock of a tracked nonce restarts exactly with a new attempt (record_signed).
THEOREM AgesAreOfTheAttempt == Spec => AgeRestartsWithTheAttempt
<1>1. IInv /\ [Next]_vars => [Age]_vars
  BY NextStep
<1>. QED  BY <1>1, Invariance, PTL DEF Spec, AgeRestartsWithTheAttempt, Age

\* Eviction (prune_old_records) and consumption (prune_consumed) take the lowest.
THEOREM UpperEndStays == Spec => LeavesFromTheBottom
<1>1. IInv /\ [Next]_vars => [Bottom]_vars
  BY NextStep
<1>. QED  BY <1>1, Invariance, PTL DEF Spec, LeavesFromTheBottom, Bottom
=============================================================================
