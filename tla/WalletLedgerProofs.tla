------------------------- MODULE WalletLedgerProofs -------------------------
(***************************************************************************)
(* What Wallet guarantees of the ledger while it has room: the fees of     *)
(* pooled transactions are on record, cancels are priced over them, and a  *)
(* stalled head of line can be found, for any number of requests, syncers, *)
(* rescuers, permits and fees; and, with room or without, its types.       *)
(***************************************************************************)
EXTENDS WalletProofs

\* The ledger evicts nothing: fewer nonces are tracked than MAX_TRACKED_NONCES.
HasRoom == Cardinality(DOMAIN records) < MaxTracked

Taken(n) == ~FreeIn(tr, n)
Unclaimed(n) == \A x \in Requests : Claimed(x) => nonce[x] # n

\* r has a claim and has signed.
UnsignedPoints == {"new", "preheated", "used", "allocated"}
Signed(r) == Claimed(r) /\ pc[r] \notin UnsignedPoints

\* r has given its nonce back.
Returned(r) ==
  \/ pc[r] = "mark_released"
  \/ pc[r] \in {"preheated", "used"} /\ ctx[r] = "Empty"

LedgerRecords == [status : Statuses, hashes : SUBSET Senders, first_seen : Nat,
                  accepted : Nat, fee : Nat]

\* The ledger has at most the transactions of requests, and calls only mined what
\* the chain is past.
RecordsInv ==
  /\ IsFiniteSet(DOMAIN records) /\ DOMAIN records \subseteq Nat
  /\ \A n \in DOMAIN records :
       records[n] \in LedgerRecords /\ (records[n].status = "Mined" => n < latest)

ValuesInv == fee \in [Senders -> Nat] /\ unmarked \subseteq Nat

NonceInv ==
  \A r \in Requests :
    /\ pc[r] \notin {"new", "preheated", "used", "done"} => nonce[r] \in Nat
    /\ pc[r] = "new" => nonce[r] = None
    /\ pc[r] \in {"preheated", "used"} => ctx[r] \in {"Held", "Empty"}

\* Before it signs, a rescuer has no bytes anywhere.
IdlePoints == {"new", "confirm", "gate", "fees"}

\* A pool has one transaction for a nonce, and none for a consumed one.
PoolInv ==
  /\ \A x \in pool : nonce[x] \in Nat /\ nonce[x] >= latest
  /\ \A x, y \in pool : nonce[x] = nonce[y] => x = y
  /\ \A x \in Rescuers :
       IF pc[x] \in IdlePoints THEN ~Live(x) ELSE nonce[x] \in Nat

\* Bytes are in one place.
PlacesInv ==
  /\ {wire, pool, mined} \subseteq SUBSET Senders
  /\ wire \cap pool = {} /\ wire \cap mined = {} /\ pool \cap mined = {}
  /\ \A x \in Rescuers : pc[x] \in {"cancelling", "resending"} => x \notin pool \cup mined

BaseInv ==
  /\ RecordsInv
  /\ ValuesInv
  /\ NonceInv
  /\ PoolInv
  /\ PlacesInv

\* What has been signed at a nonce is on record with its fee, or the nonce blurred.
FeeInv ==
  \A r \in Requests :
    Signed(r) /\ nonce[r] >= latest /\ nonce[r] \notin blurred =>
      nonce[r] \in unresolved(records) /\ fee[r] <= records[nonce[r]].fee

\* Above the chain's nonce, a sync passes only what pools have: no request is
\* about to give such a nonce back.
Passed(c) == \A n \in Nat : latest <= n /\ n < c => Taken(n) /\ Unheld(n)

PassedInv ==
  /\ Passed(tr.synced)
  /\ \A p \in Processes : pc[p] \in {"apply", "prune", "checked"} => Passed(got[p])

\* A nonce that is not free was given to a request that has not given it back.
GivenInv ==
  \A n \in Nat : latest <= n /\ Taken(n) =>
    \E x \in Requests : nonce[x] = n /\ ~Returned(x)

StallInv ==
  \A n \in Nat : latest <= n /\ Taken(n) /\ Unclaimed(n) =>
    n \in unresolved(records) \cup blurred

\* Nobody replaces anything (Spec).
OnlyRequests == wire \cup pool \cup mined \subseteq Requests

LInv ==
  /\ BaseInv
  /\ FeeInv
  /\ OnlyRequests
  /\ PassedInv
  /\ GivenInv
  /\ StallInv
-----------------------------------------------------------------------------
(* The calls on a ledger with room *)

\* S is R with the record at n replaced, or inserted.
Rewritten(R, S, n) ==
  /\ DOMAIN S = DOMAIN R \cup {n}
  /\ \A m \in DOMAIN R : m # n => S[m] = R[m]

LEMMA NothingIsEvicted ==
  ASSUME NEW R, IsFiniteSet(DOMAIN R), DOMAIN R \subseteq Nat,
         Cardinality(DOMAIN R) < MaxTracked, NEW n \in Nat, NEW record
  PROVE  LET S == prune_old_records(Put(R, n, record)) IN
         Rewritten(R, S, n) /\ S[n] = record
<1> DEFINE Q == Put(R, n, record)
           D == DOMAIN R \cup {n}
           Above(k) == {m \in D : m > k}
<1>1. DOMAIN Q = D /\ \A m \in D : Q[m] = IF m = n THEN record ELSE R[m]
  BY DEF Put
<1>2. D \subseteq Nat /\ IsFiniteSet(D) /\ Cardinality(D) \in Nat /\ Cardinality(D) <= MaxTracked
  <2>1. Cardinality(DOMAIN R) \in Nat
    BY FS_CardinalityType
  <2>2. IsFiniteSet(D) /\ Cardinality(D) \in {Cardinality(DOMAIN R), Cardinality(DOMAIN R) + 1}
    BY FS_AddElement
  <2> QED BY <2>1, <2>2, MaxTrackedIsPositive
<1> HIDE DEF D
<1>3. ASSUME NEW k \in D PROVE Cardinality(Above(k)) < MaxTracked
  <2>1. IsFiniteSet(D \ {k}) /\ Cardinality(D \ {k}) = Cardinality(D) - 1
    BY <1>2, FS_RemoveElement
  <2>2. Above(k) \in SUBSET (D \ {k})
    BY <1>2
  <2>3. IsFiniteSet(Above(k)) /\ Cardinality(Above(k)) <= Cardinality(D \ {k})
    BY <2>1, <2>2, FS_Subset
  <2>4. Cardinality(Above(k)) \in Nat
    BY <2>3, FS_CardinalityType
  <2> HIDE DEF Above
  <2> QED BY <1>2, <2>1, <2>3, <2>4, MaxTrackedIsPositive
<1>4. DOMAIN prune_old_records(Q) = D
      /\ \A m \in D : prune_old_records(Q)[m] = Q[m]
  <2>1. {k \in DOMAIN Q : Cardinality({m \in DOMAIN Q : m > k}) < MaxTracked} = D
    BY <1>1, <1>3
  <2> QED BY <1>1, <2>1 DEF prune_old_records, Restrict
<1> HIDE DEF Q
<1> QED BY <1>1, <1>4 DEF Rewritten, D, Q

LEMMA EntryIsRecord ==
  ASSUME RecordsInv, NEW n \in Nat, NEW hashes \in SUBSET Senders
  PROVE  /\ Entry(records, n, hashes, now) \in LedgerRecords
         /\ n \in DOMAIN records => Entry(records, n, hashes, now) = records[n]
<1>1. now \in Nat /\ "Signed" \in Statuses
  BY WalletBounds DEF now, Statuses
<1> QED BY <1>1 DEF Entry, NewRecord, RecordsInv, LedgerRecords

\* What record_signed, update, mark_released and mark_committed put at n.
SignedRecord(n, x, f) ==
  IF n \in DOMAIN records THEN Resigned(records[n], x, f, now) ELSE NewRecord({x}, f, now)
UpdatedRecord(n, x, status) ==
  [Entry(records, n, {x}, now) EXCEPT
     !.hashes = @ \cup {x}, !.status = status,
     !.accepted = @ + IF status \in Acceptances THEN 1 ELSE 0]
MarkedRecord(n, status) == [Entry(records, n, {}, now) EXCEPT !.status = status]

\* record_signed: the fee is covered, and what was unresolved or given back is
\* unresolved.
LEMMA SignedRecordIs ==
  ASSUME RecordsInv, NEW n \in Nat, NEW x \in Senders, NEW f \in Nat
  PROVE  LET record == SignedRecord(n, x, f) IN
         /\ record \in LedgerRecords /\ f <= record.fee
         /\ n \in DOMAIN records =>
              /\ records[n].fee <= record.fee
              /\ record.status = IF records[n].status = "Released" THEN "Signed"
                                 ELSE records[n].status
         /\ n \notin DOMAIN records => record.status = "Signed"
<1> DEFINE record == SignedRecord(n, x, f)
<1>1. now \in Nat /\ "Signed" \in Statuses
  BY WalletBounds DEF now, Statuses
<1>2. CASE n \in DOMAIN records
  <2> DEFINE old == records[n]
             merged == [old EXCEPT !.hashes = @ \cup {x}, !.fee = merge_max(@, f)]
  <2>1. old \in LedgerRecords
    BY <1>2 DEF RecordsInv
  <2> HIDE DEF old
  <2>2. merge_max(old.fee, f) \in Nat /\ old.fee <= merge_max(old.fee, f)
        /\ f <= merge_max(old.fee, f)
    BY <2>1 DEF merge_max, Larger, LedgerRecords
  <2>3. merged \in LedgerRecords /\ merged.fee = merge_max(old.fee, f)
        /\ merged.status = old.status
    BY <2>1, <2>2 DEF LedgerRecords
  <2>4. record = IF old.status = "Released"
                 THEN [merged EXCEPT !.status = "Signed", !.first_seen = now, !.accepted = 0]
                 ELSE merged
    BY <1>2 DEF SignedRecord, Resigned, old
  <2> HIDE DEF merged, record
  <2>5. record \in LedgerRecords /\ record.fee = merged.fee
        /\ record.status = IF old.status = "Released" THEN "Signed" ELSE merged.status
    BY <1>1, <2>3, <2>4 DEF LedgerRecords
  <2> QED BY <1>2, <2>2, <2>3, <2>5 DEF old, record
<1>3. CASE n \notin DOMAIN records
  <2>1. record \in LedgerRecords /\ record.fee = f /\ record.status = "Signed"
    BY <1>1, <1>3 DEF SignedRecord, NewRecord, LedgerRecords
  <2> HIDE DEF record
  <2> QED BY <1>3, <2>1 DEF record
<1> QED BY <1>2, <1>3

\* update: the status is the new one and the fee what it was.
LEMMA UpdatedRecordIs ==
  ASSUME RecordsInv, NEW n \in Nat, NEW x \in Senders, NEW status \in Statuses
  PROVE  LET record == UpdatedRecord(n, x, status) IN
         /\ record \in LedgerRecords /\ record.status = status
         /\ n \in DOMAIN records => record.fee = records[n].fee
<1> DEFINE old == Entry(records, n, {x}, now)
           hashes == old.hashes \cup {x}
           accepted == old.accepted + IF status \in Acceptances THEN 1 ELSE 0
           record == [old EXCEPT !.hashes = hashes, !.status = status,
                                 !.accepted = accepted]
<1>1. old \in LedgerRecords /\ (n \in DOMAIN records => old = records[n])
  BY EntryIsRecord
<1>2. UpdatedRecord(n, x, status) = record
  BY DEF UpdatedRecord
<1> HIDE DEF old
<1>3. hashes \in SUBSET Senders /\ accepted \in Nat
  BY <1>1 DEF LedgerRecords
<1> HIDE DEF hashes, accepted
<1>4. record \in LedgerRecords /\ record.status = status /\ record.fee = old.fee
  BY <1>1, <1>3 DEF LedgerRecords
<1> HIDE DEF record
<1> QED BY <1>1, <1>2, <1>4

\* mark_released and mark_committed do the same.
LEMMA MarkedRecordIs ==
  ASSUME RecordsInv, NEW n \in Nat, NEW status \in Statuses
  PROVE  LET record == MarkedRecord(n, status) IN
         /\ record \in LedgerRecords /\ record.status = status
         /\ n \in DOMAIN records => record.fee = records[n].fee
<1> DEFINE old == Entry(records, n, {}, now)
           record == [old EXCEPT !.status = status]
<1>1. old \in LedgerRecords /\ (n \in DOMAIN records => old = records[n])
  BY EntryIsRecord
<1>2. MarkedRecord(n, status) = record
  BY DEF MarkedRecord
<1> HIDE DEF old
<1>3. record \in LedgerRecords /\ record.status = status /\ record.fee = old.fee
  BY <1>1 DEF LedgerRecords
<1> HIDE DEF record
<1> QED BY <1>1, <1>2, <1>3

\* With or without eviction, the ledger stays well-formed.
LEMMA PutKeepsRecords ==
  ASSUME RecordsInv, latest \in Nat, latest' = latest, NEW n \in Nat,
         NEW record \in LedgerRecords, record.status = "Mined" => n < latest,
         \/ records' = Put(records, n, record)
         \/ records' = prune_old_records(Put(records, n, record))
  PROVE  RecordsInv'
<1> DEFINE Q == Put(records, n, record)
<1>1. DOMAIN Q = DOMAIN records \cup {n}
      /\ \A m \in DOMAIN Q : Q[m] = IF m = n THEN record ELSE records[m]
  BY DEF Put
<1>2. IsFiniteSet(DOMAIN Q)
  BY <1>1, FS_AddElement DEF RecordsInv
<1>3. DOMAIN prune_old_records(Q) \in SUBSET DOMAIN Q
      /\ \A m \in DOMAIN prune_old_records(Q) : prune_old_records(Q)[m] = Q[m]
  BY DEF prune_old_records, Restrict
<1> HIDE DEF Q
<1>4. DOMAIN records' \in SUBSET DOMAIN Q /\ \A m \in DOMAIN records' : records'[m] = Q[m]
  BY <1>3 DEF Q
<1>5. IsFiniteSet(DOMAIN records')
  BY <1>2, <1>4, FS_Subset
<1> QED BY <1>1, <1>4, <1>5 DEF RecordsInv

LEMMA SignedIsRecorded ==
  ASSUME RecordsInv, HasRoom, NEW n \in Nat, NEW x \in Senders, NEW f \in Nat
  PROVE  LET S == record_signed(records, n, x, f, now) IN
         Rewritten(records, S, n) /\ S[n] = SignedRecord(n, x, f)
BY NothingIsEvicted DEF RecordsInv, HasRoom, record_signed, SignedRecord

LEMMA UpdateIsRecorded ==
  ASSUME RecordsInv, HasRoom, NEW n \in Nat, NEW x, NEW status
  PROVE  LET S == Update(records, n, x, status, now) IN
         Rewritten(records, S, n) /\ S[n] = UpdatedRecord(n, x, status)
BY NothingIsEvicted DEF RecordsInv, HasRoom, Update, UpdatedRecord

LEMMA StatusIsRecorded ==
  ASSUME NEW n \in Nat, NEW status
  PROVE  LET S == Put(records, n, MarkedRecord(n, status)) IN
         Rewritten(records, S, n) /\ S[n] = MarkedRecord(n, status)
BY DEF Put, Rewritten
-----------------------------------------------------------------------------
(* What a step may do to the ledger *)

\* What is known of n stays known, at no lower a fee.
Kept(n) ==
  /\ n \in blurred => n \in blurred'
  /\ n \in unresolved(records) =>
       n \in blurred' \/ (n \in unresolved(records') /\ records[n].fee <= records'[n].fee)

\* r has n to itself and puts its signature on record.
SignsAt(r, n) ==
  /\ nonce'[r] = n /\ Holds(r)'
  /\ n \in unresolved(records') /\ fee'[r] <= records'[n].fee

\* n stays known, unless it is free or its owner signs.
Moves(n) == Kept(n) \/ FreeIn(tr', n) \/ \E r \in Requests : SignsAt(r, n)

\* Every nonce the chain has not passed moves like that, or at least every one
\* that is signed.
LedgerMoves == \A n \in Nat : n >= latest' => Moves(n)
SignedMoves == \A r \in Requests : Signed(r)' /\ nonce'[r] >= latest' => Moves(nonce'[r])

\* Who is newly signed has signed here.
SignaturesMove ==
  \A r \in Requests : Signed(r)' /\ nonce'[r] >= latest' =>
    \/ Signed(r) /\ nonce'[r] = nonce[r] /\ fee'[r] = fee[r]
    \/ SignsAt(r, nonce'[r])

\* Who loses a claim gives the nonce back or had signed.
ClaimsMove ==
  \A n \in Nat : n >= latest' /\ ~FreeIn(tr', n) /\ Unclaimed(n)' =>
    ~FreeIn(tr, n) /\ (Unclaimed(n) \/ \E r \in Requests : Signed(r) /\ nonce[r] = n)

LEMMA LatestGrows ==
  ASSUME IInv, IInv', mined \subseteq mined'
  PROVE  latest \in Nat /\ latest' \in Nat /\ latest <= latest'
<1>1. IsFiniteSet(mined) /\ IsFiniteSet(mined')
  BY DEF IInv, TypeInv
<1>2. Cardinality(mined) \in Nat /\ Cardinality(mined') \in Nat
      /\ Cardinality(mined) <= Cardinality(mined')
  BY <1>1, FS_CardinalityType, FS_Subset
<1> QED BY <1>2, WalletBounds DEF latest

LEMMA UnresolvedIs ==
  ASSUME RecordsInv
  PROVE  \A n \in unresolved(records) :
           n \in DOMAIN records /\ n \in Nat /\ records[n].fee \in Nat
BY DEF unresolved, RecordsInv, LedgerRecords

LEMMA FeesStayOnRecord ==
  ASSUME IInv, IInv', RecordsInv, RecordsInv', ValuesInv, FeeInv,
         mined \subseteq mined', SignedMoves, SignaturesMove
  PROVE  FeeInv'
<1>1. latest \in Nat /\ latest' \in Nat /\ latest <= latest'
  BY LatestGrows
<1> SUFFICES ASSUME NEW r \in Requests, Signed(r)', nonce'[r] >= latest',
                    nonce'[r] \notin blurred'
             PROVE  nonce'[r] \in unresolved(records') /\ fee'[r] <= records'[nonce'[r]].fee
  BY DEF FeeInv
<1> DEFINE n == nonce'[r]
<1>2. n \in Nat /\ ~FreeIn(tr', n) /\ Claimed(r)'
  BY DEF Signed, IInv, ClaimInv
<1>3. CASE SignsAt(r, n)
  BY <1>3 DEF SignsAt
<1>4. CASE ~SignsAt(r, n)
  <2>1. Signed(r) /\ nonce[r] = n /\ fee'[r] = fee[r]
    BY <1>4 DEF SignaturesMove
  <2>2. \A q \in Requests : ~SignsAt(q, n)
    BY <1>2, <1>4 DEF SignsAt, IInv, DistinctInv, Claimed
  <2>3. Kept(n)
    BY <1>2, <2>2 DEF SignedMoves, Moves
  <2>4. n >= latest /\ n \notin blurred
    BY <1>1, <1>2, <2>3 DEF Kept
  <2>5. n \in unresolved(records) /\ fee[r] <= records[n].fee
    BY <2>1, <2>4 DEF FeeInv
  <2>6. n \in unresolved(records') /\ records[n].fee <= records'[n].fee
    BY <2>3, <2>5 DEF Kept
  <2>7. fee[r] \in Nat /\ records[n].fee \in Nat
    BY <2>5, UnresolvedIs DEF ValuesInv, Senders
  <2>8. records'[n].fee \in Nat
    BY <2>6 DEF unresolved, RecordsInv, LedgerRecords
  <2> HIDE DEF n
  <2>9. fee'[r] <= records'[n].fee
    BY <2>1, <2>5, <2>6, <2>7, <2>8
  <2> QED BY <2>6, <2>9 DEF n
<1> QED BY <1>3, <1>4

\* A step at which nobody signs and the ledger forgets nothing.
LEMMA FeesStayQuietly ==
  ASSUME IInv, IInv', RecordsInv, RecordsInv', ValuesInv, FeeInv, mined \subseteq mined',
         \A r \in Requests :
           Signed(r)' => Signed(r) /\ nonce'[r] = nonce[r] /\ fee'[r] = fee[r],
         \A n \in Nat : n >= latest' => Kept(n)
  PROVE  FeeInv'
<1>1. \A r \in Requests : Signed(r)' => nonce'[r] \in Nat
  BY DEF Signed, IInv, ClaimInv
<1>2. SignedMoves /\ SignaturesMove
  BY <1>1 DEF SignedMoves, SignaturesMove, Moves
<1> QED BY <1>2, FeesStayOnRecord

LEMMA StallsStayKnown ==
  ASSUME IInv, IInv', FeeInv, StallInv, mined \subseteq mined', LedgerMoves, ClaimsMove
  PROVE  StallInv'
<1>1. latest \in Nat /\ latest' \in Nat /\ latest <= latest'
  BY LatestGrows
<1> SUFFICES ASSUME NEW n \in Nat, latest' <= n, ~FreeIn(tr', n), Unclaimed(n)'
             PROVE  n \in unresolved(records') \cup blurred'
  BY DEF StallInv, Taken
<1>2. ~FreeIn(tr, n) /\ (Unclaimed(n) \/ \E r \in Requests : Signed(r) /\ nonce[r] = n)
  BY <1>1 DEF ClaimsMove
<1>3. n \in unresolved(records) \cup blurred
  <2>1. latest <= n
    BY <1>1
  <2>2. CASE Unclaimed(n)
    BY <1>2, <2>1, <2>2 DEF StallInv, Taken
  <2>3. ASSUME NEW r \in Requests, Signed(r), nonce[r] = n
        PROVE  n \in unresolved(records) \cup blurred
    BY <2>1, <2>3 DEF FeeInv
  <2> QED BY <1>2, <2>2, <2>3
<1>4. \A r \in Requests : ~SignsAt(r, n)
  BY DEF SignsAt, Unclaimed, Claimed
<1>5. Kept(n)
  BY <1>1, <1>4 DEF LedgerMoves, Moves
<1> QED BY <1>3, <1>5 DEF Kept

\* Bytes are only live when they were signed.
LEMMA LiveIsSigned ==
  ASSUME IInv, NEW r \in Requests, Live(r)
  PROVE  Signed(r)
BY DEF Signed, Claimed, IInv, LiveInv, NotLivePoints, UnsignedPoints

\* A nonce that is taken and unheld stays so.
UnheldStays ==
  \A n \in Nat : n >= latest' /\ Taken(n) /\ Unheld(n) => ~FreeIn(tr', n) /\ Unheld(n)'

LEMMA PassedStays ==
  ASSUME IInv, IInv', mined \subseteq mined', UnheldStays, NEW c, Passed(c)
  PROVE  \A n \in Nat : latest' <= n /\ n < c => ~FreeIn(tr', n) /\ Unheld(n)'
<1>1. latest \in Nat /\ latest' \in Nat /\ latest <= latest'
  BY LatestGrows
<1> SUFFICES ASSUME NEW n \in Nat, latest' <= n, n < c
             PROVE  ~FreeIn(tr', n) /\ Unheld(n)'
  OBVIOUS
<1>2. latest <= n
  BY <1>1
<1>3. Taken(n) /\ Unheld(n)
  BY <1>2 DEF Passed
<1> QED BY <1>3 DEF UnheldStays
-----------------------------------------------------------------------------
(* What a step of a request does beside the tracker *)

\* It leaves the ledger, signs, marks the nonce released after giving it back, or
\* gives an unresolved record another status.
Marks(r, status) ==
  \/ records' = Update(records, nonce[r], r, status, now)
  \/ records' = Put(records, nonce[r], MarkedRecord(nonce[r], status))

LedgerStep(r) ==
  \/ UNCHANGED <<records, blurred>>
  \/ /\ RecordSigned(r)
     /\ pc[r] \in {"allocated", "signed", "marked"} /\ (Holds(r)' <=> Holds(r))
     /\ UNCHANGED <<tr, nonce, network>> /\ fee'[r] \in Nat
  \/ /\ MarkReleasedAt(nonce[r], Requests \ {r})
     /\ pc[r] = "mark_released" /\ UNCHANGED <<tr, nonce, network>>
  \/ /\ \E status \in {"Committed", "BroadcastAccepted", "MempoolSeen"} : Marks(r, status)
     /\ pc[r] \in {"elsewhere", "accepted", "sent"} /\ blurred' = blurred
  \/ /\ Marks(r, "Mined")
     /\ r \in mined /\ pc[r] = "sent" /\ blurred' = blurred

LEMMA RequestLedger ==
  ASSUME IInv, ValuesInv, NEW r \in Requests, Request(r)
  PROVE  LedgerStep(r) /\ fee' \in [Senders -> Nat]
<1> USE FeesAreNats DEF IInv, TypeInv, ContextInv, ValuesInv, LedgerStep, At, Goto, Finish,
      SetCtx, Plain, Processes, Senders, network, Holds
<1>1. CASE Sign(r)
  BY <1>1 DEF Sign, TakeNonce
<1>2. CASE Preheat(r)
  BY <1>2 DEF Preheat, TakeNonce
<1>3. CASE PreheatWarmupOnly(r)
  BY <1>3 DEF PreheatWarmupOnly
<1>4. CASE MarkUsed(r)
  BY <1>4 DEF MarkUsed
<1>5. CASE BindNonce(r)
  BY <1>5 DEF BindNonce, TakeNonce
<1>6. CASE SignOk(r)
  BY <1>6 DEF SignOk
<1>7. CASE SignFails(r)
  BY <1>7 DEF SignFails
<1>8. CASE SignWithPreheatFails(r)
  BY <1>8 DEF SignWithPreheatFails, ReleaseReservation
<1>9. CASE CancelPreheat(r)
  BY <1>9 DEF CancelPreheat, ReleaseReservation
<1>10. CASE ReleasePreheat(r)
  BY <1>10 DEF ReleasePreheat, ReleaseReservation
<1>11. CASE SendSigned(r)
  BY <1>11 DEF SendSigned
<1>12. CASE SendWithPreheat(r)
  BY <1>12 DEF SendWithPreheat
<1>13. CASE SendReleasedPreheat(r)
  BY <1>13 DEF SendReleasedPreheat
<1>14. CASE Broadcast(r)
  BY <1>14 DEF Broadcast
<1>15. CASE PermitTimesOut(r)
  BY <1>15 DEF PermitTimesOut
<1>16. CASE ReplyOk(r)
  BY <1>16 DEF ReplyOk, Enters
<1>17. CASE ReplyDefinitive(r)
  BY <1>17 DEF ReplyDefinitive
<1>18. CASE ReplyAmbiguous(r)
  BY <1>18 DEF ReplyAmbiguous
<1>19. CASE ReplyTooLow(r)
  BY <1>19 DEF ReplyTooLow
<1>20. CASE ReplyTooHigh(r)
  BY <1>20 DEF ReplyTooHigh
<1>21. CASE Accepted(r)
  BY <1>21 DEF Accepted, mark_broadcast_accepted, Marks
<1>22. CASE Recycle(r)
  BY <1>22 DEF Recycle
<1>23. CASE RecycleNothing(r)
  BY <1>23 DEF RecycleNothing
<1>24. CASE MarkReleased(r)
  BY <1>24 DEF MarkReleased
<1>25. CASE VerifyBroadcast(r)
  BY <1>25 DEF VerifyBroadcast, calls, mark_mempool_seen, Marks
<1>26. CASE MarkMined(r)
  BY <1>26 DEF MarkMined, mark_mined, Marks
<1>27. CASE ReleaseNonce(r)
  BY <1>27 DEF ReleaseNonce
<1>28. CASE MarkPreheatBroadcasting(r)
  BY <1>28 DEF MarkPreheatBroadcasting
<1>29. CASE SendElsewhere(r)
  BY <1>29 DEF SendElsewhere
<1>30. CASE CommitPreheat(r)
  BY <1>30 DEF CommitPreheat, mark_committed, Marks, MarkedRecord
<1> QED BY <1>1, <1>2, <1>3, <1>4, <1>5, <1>6, <1>7, <1>8, <1>9, <1>10, <1>11,
           <1>12, <1>13, <1>14, <1>15, <1>16, <1>17, <1>18, <1>19, <1>20, <1>21,
           <1>22, <1>23, <1>24, <1>25, <1>26, <1>27, <1>28, <1>29, <1>30, Zenon
        DEF Request

\* It is the only one to move, and puts no bytes but its own anywhere.
LEMMA RequestStaysAtHome ==
  ASSUME IInv, NEW r \in Requests, Request(r)
  PROVE  /\ got' = got /\ \A q \in Processes \ {r} : pc'[q] = pc[q]
         /\ pc'[r] \in {"apply", "prune", "checked"} => pc[r] = pc'[r]
         /\ \A x \in Senders \ {r} : nonce'[x] = nonce[x] /\ fee'[x] = fee[x]
         /\ \A q \in Requests \ {r} : ctx'[q] = ctx[q]
         /\ pc'[r] = pc[r] \/ pc'[r] \in Points
         /\ wire' \subseteq wire \cup {r}
         /\ r \in wire' => r \in wire \/ pc[r] \in {"marked", "waiting"}
         /\ pool' = pool \/ (Enters(r) /\ pc[r] = "sending" /\ nonce' = nonce)
         /\ unmarked' \subseteq unmarked \cup (IF ctx[r] = "Held" THEN {nonce[r]} ELSE {})
<1> USE DEF IInv, TypeInv, At, Goto, Finish, SetCtx, Plain, Processes, Senders, network, calls, Points
<1>1. CASE Sign(r)
  BY <1>1 DEF Sign, TakeNonce
<1>2. CASE Preheat(r)
  BY <1>2 DEF Preheat, TakeNonce
<1>3. CASE PreheatWarmupOnly(r)
  BY <1>3 DEF PreheatWarmupOnly
<1>4. CASE MarkUsed(r)
  BY <1>4 DEF MarkUsed
<1>5. CASE BindNonce(r)
  BY <1>5 DEF BindNonce, TakeNonce
<1>6. CASE SignOk(r)
  BY <1>6 DEF SignOk
<1>7. CASE SignFails(r)
  BY <1>7 DEF SignFails
<1>8. CASE SignWithPreheatFails(r)
  BY <1>8 DEF SignWithPreheatFails, ReleaseReservation
<1>9. CASE CancelPreheat(r)
  BY <1>9 DEF CancelPreheat, ReleaseReservation
<1>10. CASE ReleasePreheat(r)
  BY <1>10 DEF ReleasePreheat, ReleaseReservation
<1>11. CASE SendSigned(r)
  BY <1>11 DEF SendSigned
<1>12. CASE SendWithPreheat(r)
  BY <1>12 DEF SendWithPreheat
<1>13. CASE SendReleasedPreheat(r)
  BY <1>13 DEF SendReleasedPreheat
<1>14. CASE Broadcast(r)
  BY <1>14 DEF Broadcast
<1>15. CASE PermitTimesOut(r)
  BY <1>15 DEF PermitTimesOut
<1>16. CASE ReplyOk(r)
  <2>1. wire' \subseteq wire
    BY <1>16 DEF ReplyOk, Enters
  <2> QED BY <1>16, <2>1 DEF ReplyOk
<1>17. CASE ReplyDefinitive(r)
  BY <1>17 DEF ReplyDefinitive
<1>18. CASE ReplyAmbiguous(r)
  BY <1>18 DEF ReplyAmbiguous
<1>19. CASE ReplyTooLow(r)
  BY <1>19 DEF ReplyTooLow
<1>20. CASE ReplyTooHigh(r)
  BY <1>20 DEF ReplyTooHigh
<1>21. CASE Accepted(r)
  BY <1>21 DEF Accepted
<1>22. CASE Recycle(r)
  BY <1>22 DEF Recycle
<1>23. CASE RecycleNothing(r)
  BY <1>23 DEF RecycleNothing
<1>24. CASE MarkReleased(r)
  BY <1>24 DEF MarkReleased
<1>25. CASE VerifyBroadcast(r)
  BY <1>25 DEF VerifyBroadcast, calls
<1>26. CASE MarkMined(r)
  BY <1>26 DEF MarkMined
<1>27. CASE ReleaseNonce(r)
  BY <1>27 DEF ReleaseNonce
<1>28. CASE MarkPreheatBroadcasting(r)
  BY <1>28 DEF MarkPreheatBroadcasting
<1>29. CASE SendElsewhere(r)
  BY <1>29 DEF SendElsewhere
<1>30. CASE CommitPreheat(r)
  BY <1>30 DEF CommitPreheat
<1> QED BY <1>1, <1>2, <1>3, <1>4, <1>5, <1>6, <1>7, <1>8, <1>9, <1>10, <1>11,
           <1>12, <1>13, <1>14, <1>15, <1>16, <1>17, <1>18, <1>19, <1>20, <1>21,
           <1>22, <1>23, <1>24, <1>25, <1>26, <1>27, <1>28, <1>29, <1>30, Zenon
        DEF Request

\* It signs what it has to itself, loses a claim by giving the nonce back or after
\* it has signed, and takes a nonce when it has none or has given it back.
LEMMA RequestClaims ==
  ASSUME IInv, NonceInv, ValuesInv, NEW r \in Requests, Request(r)
  PROVE  /\ Signed(r)' =>
              \/ Signed(r) /\ nonce'[r] = nonce[r] /\ fee'[r] = fee[r]
              \/ /\ RecordSigned(r) /\ Holds(r) /\ Holds(r)'
                 /\ nonce'[r] = nonce[r] /\ fee'[r] \in Nat
         /\ Claimed(r) /\ ~Claimed(r)' => GivesNonceBack(r) \/ Signed(r)
         /\ nonce'[r] # nonce[r] => Returned(r) \/ pc[r] = "new"
         /\ Returned(r)' => Returned(r) \/ GivesNonceBack(r) \/ pc[r] = "new"
         /\ TakesNonce(r) => ~Returned(r)'
         /\ pc'[r] # "new"
         /\ pc'[r] \in {"preheated", "used"} => ctx'[r] \in {"Held", "Empty"}
         /\ pc'[r] \notin {"preheated", "used", "done"} /\ ~TakesNonce(r) =>
              pc[r] \notin {"new", "preheated", "done"} /\ nonce'[r] = nonce[r]
              /\ (pc[r] = "used" => Claimed(r))
<1> USE FeesAreNats DEF IInv, TypeInv, ContextInv, LiveInv, NonceInv, ValuesInv,
      NotLivePoints, At, Goto, Finish, SetCtx, Plain, Processes, Senders, network, Holds, Live, Claimed, Signed, UnsignedPoints,
      Returned, TakesNonce, GivesNonceBack
<1>1. CASE Sign(r)
  BY <1>1 DEF Sign, TakeNonce
<1>2. CASE Preheat(r)
  BY <1>2 DEF Preheat, TakeNonce
<1>3. CASE PreheatWarmupOnly(r)
  BY <1>3 DEF PreheatWarmupOnly
<1>4. CASE MarkUsed(r)
  BY <1>4 DEF MarkUsed
<1>5. CASE BindNonce(r)
  BY <1>5 DEF BindNonce, TakeNonce
<1>6. CASE SignOk(r)
  BY <1>6 DEF SignOk
<1>7. CASE SignFails(r)
  BY <1>7 DEF SignFails
<1>8. CASE SignWithPreheatFails(r)
  <2>1. CASE ctx[r] = "Held"
    BY <1>8, <2>1 DEF SignWithPreheatFails, ReleaseReservation
  <2>2. CASE ctx[r] # "Held"
    BY <1>8, <2>2 DEF SignWithPreheatFails, ReleaseReservation
  <2> QED BY <2>1, <2>2
<1>9. CASE CancelPreheat(r)
  <2>1. CASE ctx[r] = "Held"
    BY <1>9, <2>1 DEF CancelPreheat, ReleaseReservation
  <2>2. CASE ctx[r] # "Held"
    BY <1>9, <2>2 DEF CancelPreheat, ReleaseReservation
  <2> QED BY <2>1, <2>2
<1>10. CASE ReleasePreheat(r)
  <2>1. CASE ctx[r] = "Held"
    BY <1>10, <2>1 DEF ReleasePreheat, ReleaseReservation
  <2>2. CASE ctx[r] # "Held"
    BY <1>10, <2>2 DEF ReleasePreheat, ReleaseReservation
  <2> QED BY <2>1, <2>2
<1>11. CASE SendSigned(r)
  BY <1>11 DEF SendSigned
<1>12. CASE SendWithPreheat(r)
  BY <1>12 DEF SendWithPreheat
<1>13. CASE SendReleasedPreheat(r)
  BY <1>13 DEF SendReleasedPreheat
<1>14. CASE Broadcast(r)
  BY <1>14 DEF Broadcast
<1>15. CASE PermitTimesOut(r)
  BY <1>15 DEF PermitTimesOut
<1>16. CASE ReplyOk(r)
  BY <1>16 DEF ReplyOk, Enters
<1>17. CASE ReplyDefinitive(r)
  BY <1>17 DEF ReplyDefinitive
<1>18. CASE ReplyAmbiguous(r)
  BY <1>18 DEF ReplyAmbiguous
<1>19. CASE ReplyTooLow(r)
  BY <1>19 DEF ReplyTooLow
<1>20. CASE ReplyTooHigh(r)
  BY <1>20 DEF ReplyTooHigh
<1>21. CASE Accepted(r)
  BY <1>21 DEF Accepted
<1>22. CASE Recycle(r)
  BY <1>22 DEF Recycle
<1>23. CASE RecycleNothing(r)
  BY <1>23 DEF RecycleNothing
<1>24. CASE MarkReleased(r)
  BY <1>24 DEF MarkReleased
<1>25. CASE VerifyBroadcast(r)
  BY <1>25 DEF VerifyBroadcast, calls
<1>26. CASE MarkMined(r)
  BY <1>26 DEF MarkMined
<1>27. CASE ReleaseNonce(r)
  BY <1>27 DEF ReleaseNonce
<1>28. CASE MarkPreheatBroadcasting(r)
  BY <1>28 DEF MarkPreheatBroadcasting
<1>29. CASE SendElsewhere(r)
  BY <1>29 DEF SendElsewhere
<1>30. CASE CommitPreheat(r)
  BY <1>30 DEF CommitPreheat
<1> QED BY <1>1, <1>2, <1>3, <1>4, <1>5, <1>6, <1>7, <1>8, <1>9, <1>10, <1>11,
           <1>12, <1>13, <1>14, <1>15, <1>16, <1>17, <1>18, <1>19, <1>20, <1>21,
           <1>22, <1>23, <1>24, <1>25, <1>26, <1>27, <1>28, <1>29, <1>30, Zenon
        DEF Request
-----------------------------------------------------------------------------
(* Every step keeps types, records and pools in order, with or without room *)

LEMMA RequestLatest ==
  ASSUME IInv, NEW r \in Requests, Request(r)
  PROVE  IInv' /\ mined' = mined /\ latest' = latest /\ latest \in Nat
<1>1. mined' = mined
  BY RequestSpares
<1>2. latest \in Nat
  BY LatestIsNat DEF IInv, TypeInv
<1> QED BY <1>1, <1>2, RequestKeeps DEF latest

\* A release is marked in the ledger after the tracker has the nonce back.
LEMMA ReleaseMarkKeepsRecords ==
  ASSUME RecordsInv, latest \in Nat, latest' = latest, NEW n \in Nat, NEW others,
         MarkReleasedAt(n, others)
  PROVE  RecordsInv'
<1>1. MarkedRecord(n, "Released") \in LedgerRecords
      /\ MarkedRecord(n, "Released").status = "Released"
  BY MarkedRecordIs DEF Statuses, Resolved
<1>2. records' = Put(records, n, MarkedRecord(n, "Released"))
  BY DEF MarkReleasedAt, mark_released, MarkedRecord
<1> QED BY <1>1, <1>2, PutKeepsRecords

LEMMA RequestKeepsRecords ==
  ASSUME IInv, BaseInv, NEW r \in Requests, Request(r)
  PROVE  RecordsInv'
<1> DEFINE n == nonce[r]
<1>1. RecordsInv /\ ValuesInv /\ NonceInv /\ latest' = latest /\ latest \in Nat /\ r \in Senders
  BY RequestLatest DEF BaseInv, Senders
<1>2. CASE UNCHANGED records
  BY <1>1, <1>2 DEF RecordsInv
<1>3. CASE /\ RecordSigned(r)
           /\ pc[r] \in {"allocated", "signed", "marked"} /\ fee'[r] \in Nat
  <2>1. n \in Nat
    BY <1>1, <1>3 DEF NonceInv
  <2> HIDE DEF n
  <2>2. SignedRecord(n, r, fee'[r]) \in LedgerRecords
        /\ (SignedRecord(n, r, fee'[r]).status = "Mined" => n < latest)
    BY <1>1, <1>3, <2>1, SignedRecordIs DEF RecordsInv
  <2>3. records' = prune_old_records(Put(records, n, SignedRecord(n, r, fee'[r])))
    BY <1>3 DEF RecordSigned, record_signed, SignedRecord, n
  <2> QED BY <1>1, <2>1, <2>2, <2>3, PutKeepsRecords
<1>4. CASE MarkReleasedAt(nonce[r], Requests \ {r}) /\ pc[r] = "mark_released"
  BY <1>1, <1>4, ReleaseMarkKeepsRecords DEF NonceInv
<1>5. ASSUME NEW status \in Statuses, Marks(r, status), status = "Mined" => n < latest,
             pc[r] \in {"elsewhere", "accepted", "sent"}
      PROVE  RecordsInv'
  <2>1. n \in Nat
    BY <1>1, <1>5 DEF NonceInv
  <2>2. \/ records' = prune_old_records(Put(records, n, UpdatedRecord(n, r, status)))
        \/ records' = Put(records, n, MarkedRecord(n, status))
    BY <1>5 DEF Marks, Update, UpdatedRecord
  <2> HIDE DEF n
  <2> QED BY <1>1, <1>5, <2>1, <2>2, UpdatedRecordIs, MarkedRecordIs, PutKeepsRecords
<1>6. r \in mined => n < latest
  BY DEF IInv, MinedInv
<1>7. {"Committed", "BroadcastAccepted", "MempoolSeen", "Mined"} \subseteq Statuses
  BY DEF Statuses, Acceptances, Resolved
<1> QED BY <1>1, <1>2, <1>3, <1>4, <1>5, <1>6, <1>7, RequestLedger DEF LedgerStep

\* A transaction that enters a pool does so at a nonce that is not consumed, and
\* replaces the one that was there.
LEMMA EntersInOrder ==
  ASSUME IInv, BaseInv, NEW x \in Senders, Enters(x), UNCHANGED <<pc, nonce>>
         \/ (x \in Requests /\ nonce' = nonce /\ \A y \in Rescuers : pc'[y] = pc[y]),
         x \in Requests => nonce[x] \in Nat,
         x \in Rescuers => pc[x] \notin IdlePoints
  PROVE  PoolInv'
<1>1. PoolInv /\ mined' = mined /\ latest' = latest /\ nonce' = nonce
      /\ \A y \in Rescuers : pc'[y] = pc[y]
  BY DEF BaseInv, Enters, latest
<1>2. nonce[x] \in Nat /\ nonce[x] >= latest
  BY <1>1 DEF Enters, PoolInv, Senders
<1>3. /\ \A y \in pool' : nonce[y] \in Nat /\ nonce[y] >= latest
      /\ \A y, z \in pool' : nonce[y] = nonce[z] => y = z
  BY <1>1, <1>2 DEF Enters, PoolInv
<1>4. \A y \in Rescuers : y # x => (Live(y)' => Live(y))
  BY DEF Enters, Live
<1> QED BY <1>1, <1>3, <1>4 DEF PoolInv

LEMMA RequestKeepsBase ==
  ASSUME IInv, BaseInv, NEW r \in Requests, Request(r)
  PROVE  BaseInv'
<1>1. IInv' /\ latest' = latest /\ mined' = mined
  BY RequestLatest
<1>2. ValuesInv /\ NonceInv /\ PoolInv
  BY DEF BaseInv
<1>3. fee' \in [Senders -> Nat]
  BY <1>2, RequestLedger
<1>4. unmarked' \subseteq Nat
  <2>1. ctx[r] = "Held" => nonce[r] \in Nat
    BY DEF IInv, ContextInv, ClaimInv, Claimed, Holds
  <2> QED BY <1>2, <2>1, RequestStaysAtHome DEF ValuesInv
<1>5. \A x \in Rescuers : x # r /\ pc'[x] = pc[x] /\ nonce'[x] = nonce[x]
  BY RequestSpares, ProcessesAreDisjoint
<1>6. PoolInv'
  <2>1. CASE pool' = pool
    <3>1. \A x \in pool : nonce'[x] = nonce[x]
      <4>1. r \in pool => nonce'[r] = nonce[r]
        BY <1>2, RequestClaims DEF IInv, LiveInv, NotLivePoints, Returned, Live
      <4>2. pool \subseteq Senders
        BY DEF BaseInv, PlacesInv
      <4> QED BY <4>1, <4>2, RequestStaysAtHome
    <3>2. \A x \in Rescuers : Live(x)' => Live(x)
      BY <1>1, <1>5, <2>1, RequestStaysAtHome DEF Live
    <3> QED BY <1>1, <1>2, <1>5, <2>1, <3>1, <3>2 DEF PoolInv
  <2>2. CASE Enters(r) /\ pc[r] = "sending" /\ nonce' = nonce
    BY <1>2, <1>5, <2>2, EntersInOrder DEF NonceInv, Senders
  <2> QED BY <2>1, <2>2, RequestStaysAtHome
<1>7. ASSUME NEW q \in Requests
      PROVE  /\ pc'[q] \notin {"new", "preheated", "used", "done"} => nonce'[q] \in Nat
             /\ pc'[q] = "new" => nonce'[q] = None
             /\ pc'[q] \in {"preheated", "used"} => ctx'[q] \in {"Held", "Empty"}
  <2>1. CASE q # r
    BY <1>2, <2>1, RequestStaysAtHome DEF NonceInv, Processes, Senders
  <2>2. CASE q = r
    <3>1. TakesNonce(r) => nonce'[r] \in Nat
      BY ReserveTakes DEF TakesNonce, IInv, TypeInv
    <3>2. Claimed(r) => nonce[r] \in Nat
      BY DEF IInv, ClaimInv
    <3> QED BY <1>2, <2>2, <3>1, <3>2, RequestClaims DEF NonceInv
  <2> QED BY <2>1, <2>2
<1>8. PlacesInv'
  <2>1. r \in Senders /\ PlacesInv /\ (r \in wire' => r \notin pool \cup mined)
    BY RequestStaysAtHome DEF IInv, LiveInv, NotLivePoints, BaseInv, PlacesInv, Live, Senders
  <2>2. CASE pool' = pool
    BY <1>1, <1>5, <2>1, <2>2, RequestStaysAtHome DEF PlacesInv
  <2>3. CASE Enters(r) /\ pc[r] = "sending"
    BY <1>5, <2>1, <2>3 DEF PlacesInv, Enters, IInv, LiveInv
  <2> QED BY <2>2, <2>3, RequestStaysAtHome
<1> QED BY <1>3, <1>4, <1>6, <1>7, <1>8, RequestKeepsRecords DEF BaseInv, ValuesInv, NonceInv

\* A step of the ledger or the tracker alone.
LEMMA QuietKeepsBase ==
  ASSUME BaseInv, UNCHANGED <<pc, nonce, fee, ctx, network>>, unmarked' \subseteq unmarked,
         RecordsInv'
  PROVE  BaseInv'
BY DEF BaseInv, ValuesInv, NonceInv, PoolInv, PlacesInv, Live, latest, network

LEMMA ReleasePreheatMarkKeepsBase ==
  ASSUME IInv, BaseInv, NEW n \in unmarked, ReleasePreheatMark(n)
  PROVE  BaseInv'
<1>1. UNCHANGED <<pc, nonce, fee, ctx, network>> /\ unmarked' \subseteq unmarked
  BY DEF ReleasePreheatMark
<1>2. latest' = latest /\ latest \in Nat
  BY <1>1, LatestIsNat DEF latest, network, IInv, TypeInv
<1>3. n \in Nat /\ RecordsInv
  BY DEF BaseInv, ValuesInv
<1>4. RecordsInv'
  BY <1>2, <1>3, ReleaseMarkKeepsRecords DEF ReleasePreheatMark
<1> QED BY <1>1, <1>4, QuietKeepsBase

\* Consumption by the chain only removes records.
LEMMA PruneKeepsRecords ==
  ASSUME RecordsInv, latest' = latest, NEW c, records' = prune_consumed(records, c)
  PROVE  /\ RecordsInv'
         /\ DOMAIN records' = {n \in DOMAIN records : n >= c}
         /\ \A n \in DOMAIN records' : records'[n] = records[n]
<1>1. DOMAIN records' = {n \in DOMAIN records : n >= c}
      /\ \A n \in DOMAIN records' : records'[n] = records[n]
  BY DEF prune_consumed, Restrict
<1>2. IsFiniteSet(DOMAIN records')
  BY <1>1, FS_Subset DEF RecordsInv
<1> QED BY <1>1, <1>2 DEF RecordsInv

SyncPoints == {"read_latest", "read_pending", "apply", "prune", "checked"}

LEMMA SyncStaysAtHome ==
  ASSUME IInv, NEW p \in Processes, Sync(p) \/ (p \in Syncers /\ Syncer(p))
  PROVE  /\ UNCHANGED <<nonce, fee, ctx, unmarked, network>>
         /\ \A q \in Processes \ {p} : pc'[q] = pc[q] /\ got'[q] = got[q]
         /\ pc[p] \in SyncPoints \/ p \in Syncers
         /\ pc'[p] \in SyncPoints \cup {"done"}
         /\ pc'[p] \in {"apply", "prune", "checked"} =>
              \/ got'[p] \in {latest, pending}
              \/ pc[p] \in {"apply", "prune", "checked"} /\ got'[p] = got[p]
         /\ \/ tr' = tr
            \/ tr' = forward(tr, got[p]) /\ pc[p] \in {"apply", "checked"}
         /\ \/ UNCHANGED <<records, blurred>>
            \/ /\ records' = prune_consumed(records, got[p])
               /\ blurred' = blurred \cup (latest .. got[p] - 1)
<1> USE DEF IInv, TypeInv, At, Goto, Finish, SyncPoints
<1>1. CASE SyncCall(p) /\ p \in Syncers
  BY <1>1 DEF SyncCall
<1>2. CASE HealthCheck(p) /\ p \in Syncers
  BY <1>2 DEF HealthCheck
<1>3. CASE SelfCheck(p) /\ p \in Syncers
  BY <1>3 DEF SelfCheck
<1>4. CASE SelfCheckSync(p)
  BY <1>4 DEF SelfCheckSync
<1>5. CASE SyncRead(p)
  BY <1>5 DEF SyncRead
<1>6. CASE SyncReadFails(p)
  BY <1>6 DEF SyncReadFails
<1>7. CASE SyncApply(p)
  BY <1>7 DEF SyncApply
<1>8. CASE SyncPrune(p)
  BY <1>8 DEF SyncPrune
<1> QED BY <1>1, <1>2, <1>3, <1>4, <1>5, <1>6, <1>7, <1>8 DEF Sync, Syncer

LEMMA SyncKeepsBase ==
  ASSUME IInv, BaseInv, NEW p \in Processes, Sync(p) \/ (p \in Syncers /\ Syncer(p))
  PROVE  BaseInv'
<1>1. UNCHANGED <<nonce, fee, ctx, unmarked, network, wire, pool, mined>>
  BY SyncStaysAtHome DEF network
<1>2. latest' = latest
  BY <1>1 DEF latest
<1>3. ValuesInv /\ NonceInv /\ PoolInv /\ PlacesInv /\ RecordsInv
  BY DEF BaseInv
<1>4. RecordsInv'
  BY <1>2, <1>3, SyncStaysAtHome, PruneKeepsRecords DEF RecordsInv
<1>5. \A q \in Requests \cup Rescuers :
        pc'[q] = pc[q] \/ (pc[q] \in SyncPoints /\ pc'[q] \in SyncPoints \cup {"done"})
  BY ProcessesAreDisjoint, SyncStaysAtHome DEF Processes
<1>6. NonceInv'
  BY <1>1, <1>3, <1>5 DEF NonceInv, SyncPoints
<1>7. PoolInv' /\ PlacesInv'
  BY <1>1, <1>2, <1>3, <1>5 DEF PoolInv, PlacesInv, SyncPoints, IdlePoints, Live
<1> QED BY <1>1, <1>3, <1>4, <1>6, <1>7 DEF BaseInv, ValuesInv

\* What the network does.  Mining takes one of the pool at the chain's nonce, and
\* there is one.
LEMMA NetworkKeepsBase ==
  ASSUME IInv, BaseInv, Network
  PROVE  BaseInv'
<1> PICK x \in Senders : Arrive(x) \/ Lose(x) \/ Evict(x) \/ Mine(x)
  BY DEF Network
<1>1. IInv' /\ UNCHANGED <<records, pc, nonce, fee, ctx, unmarked>> /\ mined \subseteq mined'
  BY NetworkKeeps DEF Arrive, Lose, Evict, Mine, Enters, calls
<1>2. latest \in Nat /\ latest' \in Nat /\ latest <= latest'
  BY <1>1, LatestGrows
<1>3. ValuesInv /\ NonceInv /\ PoolInv /\ PlacesInv /\ RecordsInv
  BY DEF BaseInv
<1>4. RecordsInv'
  BY <1>1, <1>2, <1>3 DEF RecordsInv
<1>5. \A y \in Rescuers : Live(y)' => Live(y)
  BY <1>1 DEF Arrive, Lose, Evict, Mine, Enters, Live
<1>6. PlacesInv'
  BY <1>1, <1>3 DEF PlacesInv, Arrive, Answered, Lose, Evict, Mine, Enters
<1>7. PoolInv'
  <2>1. CASE Arrive(x)
    <3>1. Live(x) /\ UNCHANGED <<pc, nonce>> /\ Enters(x)
      BY <1>1, <2>1 DEF Arrive, Live
    <3>2. x \in Requests => nonce[x] \in Nat
      BY <3>1 DEF IInv, ClaimInv, Claimed
    <3>3. x \in Rescuers => pc[x] \notin IdlePoints
      BY <1>3, <3>1 DEF PoolInv
    <3> QED BY <3>1, <3>2, <3>3, EntersInOrder
  <2>2. CASE Mine(x)
    <3>1. x \in pool /\ nonce[x] = latest /\ x \notin mined /\ mined' = mined \cup {x}
          /\ pool' = pool \ {x}
      BY <1>3, <2>2 DEF Mine, PlacesInv
    <3>2. latest' = latest + 1
      <4>1. IsFiniteSet(mined) /\ Cardinality(mined) \in Nat
        BY FS_CardinalityType DEF IInv, TypeInv
      <4>2. Cardinality(mined \cup {x}) = Cardinality(mined) + 1
        BY <3>1, <4>1, FS_AddElement
      <4> QED BY <3>1, <4>1, <4>2, WalletBounds DEF latest
    <3>3. \A y \in pool' : nonce[y] \in Nat /\ nonce[y] >= latest'
      <4> SUFFICES ASSUME NEW y \in pool, y # x
                   PROVE  nonce[y] \in Nat /\ nonce[y] >= latest'
        BY <3>1
      <4>1. nonce[y] \in Nat /\ nonce[y] >= latest /\ nonce[y] # latest
        BY <1>3, <3>1 DEF PoolInv
      <4> QED BY <1>2, <3>2, <4>1
    <3> QED BY <1>1, <1>3, <1>5, <3>1, <3>3 DEF PoolInv
  <2>3. CASE Lose(x) \/ Evict(x)
    <3>1. pool' \subseteq pool /\ latest' = latest
      BY <2>3 DEF Lose, Evict, latest
    <3> QED BY <1>1, <1>3, <1>5, <3>1 DEF PoolInv
  <2> QED BY <2>1, <2>2, <2>3
<1> QED BY <1>1, <1>3, <1>4, <1>6, <1>7 DEF BaseInv, ValuesInv, NonceInv
-----------------------------------------------------------------------------
(* The steps of StallRecovery *)

\* What a rescuer does to the ledger: nothing, prune below the chain's nonce, or
\* put its replacement on record.
Rescued(x) ==
  \/ UNCHANGED records
  \/ records' = prune_consumed(records, got[x]) /\ pc[x] = "gate"
  \/ /\ pc[x] \notin IdlePoints
     /\ \/ records' = record_signed(records, nonce[x], x, fee[x], now)
        \/ records' = mark_rebroadcast_accepted(records, nonce[x], x, now)

\* It is the only one to move, and its transaction is the only one to go anywhere.
LEMMA RescueStaysAtHome ==
  ASSUME IInv, BaseInv, NEW x \in Rescuers, Rescue(x)
  PROVE  /\ UNCHANGED <<tr, ctx, unmarked, mined, blurred>> /\ Rescued(x)
         /\ fee' \in [Senders -> Nat]
         /\ \A q \in Processes \ {x} : pc'[q] = pc[q]
         /\ \A y \in Senders \ {x} : nonce'[y] = nonce[y] /\ fee'[y] = fee[y]
         /\ pool' = pool \/ (Enters(x) /\ pc[x] \in {"cancelling", "resending"} /\ nonce' = nonce)
         /\ wire' \subseteq wire \cup {x}
         /\ Live(x) => nonce'[x] = nonce[x]
         /\ \/ pc'[x] \in IdlePoints /\ ~Live(x)'
            \/ pc'[x] \notin IdlePoints /\ nonce'[x] \in Nat
         /\ pc'[x] \in {"cancelling", "resending"} => x \notin pool' \cup mined'
         /\ x \in wire' => x \notin pool' \cup mined'
<1>1. ValuesInv /\ NonceInv /\ PoolInv /\ PlacesInv /\ RecordsInv /\ x \in Senders
      /\ x \in Processes
  BY DEF BaseInv, Senders, Processes
<1>2. got[x] \in Nat /\ pc \in [Processes -> AllPoints] /\ nonce \in [Senders -> Nat \cup {None}]
      /\ fee \in [Senders -> Nat]
  BY <1>1 DEF IInv, TypeInv, ValuesInv
<1> USE DEF IdlePoints, At, Goto, Live, Rescued, PlacesInv, PoolInv, network
<1>3. CASE ReplaceStalled(x, latest) \/ ReplaceStalled(x, pending)
  BY <1>1, <1>2, <1>3 DEF ReplaceStalled
<1>4. CASE ConfirmLatest(x)
  BY <1>1, <1>2, <1>4 DEF ConfirmLatest
<1>5. CASE Gate(x)
  <2>1. fee' \in [Senders -> Nat]
    <3>1. CASE lowest_unresolved(records', got[x]) = {got[x]}
      <4>1. got[x] \in DOMAIN records'
        BY <3>1 DEF lowest_unresolved, unresolved
      <4>2. got[x] \in DOMAIN records
        BY <1>5, <4>1 DEF Gate, prune_consumed, Restrict
      <4>3. records[got[x]].fee \in Nat
        BY <1>1, <4>2 DEF RecordsInv, LedgerRecords
      <4> QED BY <1>2, <1>5, <4>3 DEF Gate
    <3> QED BY <1>2, <1>5, <3>1 DEF Gate
  <2> QED BY <1>1, <1>2, <1>5, <2>1 DEF Gate
<1>6. CASE AbortCancel(x)
  BY <1>1, <1>2, <1>6 DEF AbortCancel
<1>7. CASE Cancel(x)
  <2>1. PICK gas \in NetworkFees : SendReplacement(x, got[x], Larger(gas, fee[x]) + 1)
    BY <1>7 DEF Cancel
  <2>2. Larger(gas, fee[x]) + 1 \in Nat
    BY <1>1, <1>2, <2>1, NetworkFeesAreNats DEF Larger
  <2> QED BY <1>1, <1>2, <1>7, <2>1, <2>2 DEF Cancel, SendReplacement
<1>8. CASE Resend(x)
  <2>1. PICK r \in Requests : At(r, "sent") /\ SendReplacement(x, nonce[r], fee[r] + 1)
    BY <1>8 DEF Resend
  <2>2. nonce[r] \in Nat /\ fee[r] + 1 \in Nat
    BY <1>1, <1>2, <2>1 DEF NonceInv, Senders
  <2> QED BY <1>1, <1>2, <1>8, <2>1, <2>2 DEF Resend, SendReplacement
<1>9. CASE ReplacementOk(x)
  <2>1. wire' = wire \ {x} /\ mined' = mined
    BY <1>9 DEF ReplacementOk, Enters
  <2> QED BY <1>1, <1>2, <1>9, <2>1 DEF ReplacementOk
<1>10. CASE ReplacementFails(x)
  BY <1>1, <1>2, <1>10 DEF ReplacementFails
<1>11. CASE RecordReplacement(x)
  BY <1>1, <1>2, <1>11 DEF RecordReplacement
<1>12. CASE MarkReplacement(x)
  BY <1>1, <1>2, <1>12 DEF MarkReplacement
<1>13. CASE CallAgain(x)
  BY <1>1, <1>2, <1>13 DEF CallAgain
<1> QED BY <1>3, <1>4, <1>5, <1>6, <1>7, <1>8, <1>9, <1>10, <1>11, <1>12, <1>13, Zenon
        DEF Rescue

LEMMA RescueKeepsBase ==
  ASSUME IInv, BaseInv, NEW x \in Rescuers, Rescue(x)
  PROVE  BaseInv'
<1>1. ValuesInv /\ NonceInv /\ PoolInv /\ PlacesInv /\ RecordsInv /\ x \in Senders /\ fee[x] \in Nat
  BY DEF BaseInv, ValuesInv, Senders
<1>2. latest' = latest /\ latest \in Nat /\ mined' = mined
  BY RescueStaysAtHome, LatestIsNat DEF latest, IInv, TypeInv
<1>3. \A r \in Requests \cup Rescuers :
        r # x => pc'[r] = pc[r] /\ nonce'[r] = nonce[r] /\ (Live(r)' => Live(r))
  BY <1>2, RescueStaysAtHome DEF Processes, Senders, Live, Enters
<1>4. RecordsInv'
  <2> DEFINE n == nonce[x]
  <2>1. CASE UNCHANGED records
    BY <1>1, <1>2, <2>1 DEF RecordsInv
  <2>2. CASE records' = prune_consumed(records, got[x])
    BY <1>1, <1>2, <2>2, PruneKeepsRecords
  <2>3. CASE pc[x] \notin IdlePoints /\ records' = record_signed(records, n, x, fee[x], now)
    <3>1. n \in Nat
      BY <1>1, <2>3 DEF PoolInv
    <3> HIDE DEF n
    <3>2. SignedRecord(n, x, fee[x]) \in LedgerRecords
          /\ (SignedRecord(n, x, fee[x]).status = "Mined" => n < latest)
      BY <1>1, <3>1, SignedRecordIs DEF RecordsInv
    <3>3. records' = prune_old_records(Put(records, n, SignedRecord(n, x, fee[x])))
      BY <2>3 DEF record_signed, SignedRecord
    <3> QED BY <1>1, <1>2, <3>1, <3>2, <3>3, PutKeepsRecords
  <2>4. CASE pc[x] \notin IdlePoints /\ records' = mark_rebroadcast_accepted(records, n, x, now)
    <3> DEFINE status == "RebroadcastAccepted"
    <3>1. n \in Nat /\ status \in Statuses
      BY <1>1, <2>4 DEF PoolInv, Statuses, Acceptances
    <3>2. records' = prune_old_records(Put(records, n, UpdatedRecord(n, x, status)))
      BY <2>4 DEF mark_rebroadcast_accepted, Update, UpdatedRecord
    <3>3. UpdatedRecord(n, x, status) \in LedgerRecords
          /\ UpdatedRecord(n, x, status).status = status
      BY <1>1, <3>1, UpdatedRecordIs
    <3> QED BY <1>1, <1>2, <3>1, <3>2, <3>3, PutKeepsRecords
  <2> QED BY <2>1, <2>2, <2>3, <2>4, RescueStaysAtHome DEF Rescued
<1>5. NonceInv'
  BY <1>1, <1>3, RescueStaysAtHome, ProcessesAreDisjoint DEF NonceInv
<1>6. /\ \A y \in pool' : nonce'[y] \in Nat /\ nonce'[y] >= latest
      /\ \A y, z \in pool' : nonce'[y] = nonce'[z] => y = z
  <2>1. CASE pool' = pool
    <3>1. \A y \in pool : nonce'[y] = nonce[y]
      BY <1>1, <1>3, RescueStaysAtHome DEF PlacesInv, Live, Senders
    <3> QED BY <1>1, <2>1, <3>1 DEF PoolInv
  <2>2. CASE Enters(x) /\ pc[x] \in {"cancelling", "resending"} /\ nonce' = nonce
    <3>1. nonce[x] \in Nat /\ nonce[x] >= latest
      BY <1>1, <2>2 DEF PoolInv, IdlePoints, Enters
    <3> QED BY <1>1, <2>2, <3>1 DEF PoolInv, Enters
  <2> QED BY <2>1, <2>2, RescueStaysAtHome
<1>7. PoolInv'
  BY <1>1, <1>2, <1>3, <1>6, RescueStaysAtHome DEF PoolInv
<1>8. PlacesInv'
  <2>1. {wire', pool', mined'} \subseteq SUBSET Senders
    BY <1>1, <1>2, RescueStaysAtHome DEF PlacesInv, Enters
  <2>2. wire' \cap pool' = {} /\ wire' \cap mined' = {} /\ pool' \cap mined' = {}
    BY <1>1, <1>2, RescueStaysAtHome DEF PlacesInv, Enters
  <2> QED BY <1>1, <1>2, <1>3, <2>1, <2>2, RescueStaysAtHome DEF PlacesInv, Enters
<1> QED BY <1>1, <1>4, <1>5, <1>7, <1>8, RescueStaysAtHome DEF BaseInv, ValuesInv

LEMMA TickKeepsRecords ==
  ASSUME IInv, RecordsInv, Tick
  PROVE  /\ RecordsInv' /\ DOMAIN records' = DOMAIN records
         /\ \A n \in DOMAIN records : records'[n].fee = records[n].fee
                                      /\ records'[n].status = records[n].status
<1>1. latest' = latest /\ DOMAIN records' = DOMAIN records
      /\ \A n \in DOMAIN records :
           records'[n] = [records[n] EXCEPT !.first_seen = Older(records[n].first_seen)]
  BY DEF Tick, latest, network
<1>2. \A n \in DOMAIN records : records[n] \in LedgerRecords /\ Older(records[n].first_seen) \in Nat
  BY DEF RecordsInv, LedgerRecords, Older
<1>3. \A n \in DOMAIN records :
        records'[n] \in LedgerRecords /\ records'[n].fee = records[n].fee
        /\ records'[n].status = records[n].status
  BY <1>1, <1>2 DEF LedgerRecords
<1> QED BY <1>1, <1>3 DEF RecordsInv
-----------------------------------------------------------------------------
(* While the ledger has room, what is signed stays on record *)

LEMMA RewriteKeeps ==
  ASSUME NEW n \in Nat, Rewritten(records, records', n)
  PROVE  /\ \A m \in unresolved(records) : m # n =>
              m \in unresolved(records') /\ records'[m] = records[m]
         /\ records'[n].status \notin Resolved => n \in unresolved(records')
BY DEF Rewritten, unresolved

\* record_signed forgets nothing.
LEMMA SigningKeeps ==
  ASSUME RecordsInv, HasRoom, NEW n \in Nat, NEW x \in Senders, NEW f \in Nat,
         records' = record_signed(records, n, x, f, now)
  PROVE  /\ \A m \in unresolved(records) :
              m \in unresolved(records') /\ records[m].fee <= records'[m].fee
         /\ (n \in DOMAIN records => records[n].status # "Mined") =>
              n \in unresolved(records') /\ f <= records'[n].fee
<1>1. Rewritten(records, records', n) /\ records'[n] = SignedRecord(n, x, f)
  BY SignedIsRecorded
<1>2. /\ \A m \in unresolved(records) : m # n =>
           m \in unresolved(records') /\ records'[m] = records[m]
      /\ records'[n].status \notin Resolved => n \in unresolved(records')
  BY <1>1, RewriteKeeps
<1>3. /\ f <= records'[n].fee
      /\ n \in DOMAIN records =>
           /\ records[n].fee <= records'[n].fee
           /\ records'[n].status = IF records[n].status = "Released" THEN "Signed"
                                   ELSE records[n].status
      /\ n \notin DOMAIN records => records'[n].status = "Signed"
  BY <1>1, SignedRecordIs
<1>4. \A m \in unresolved(records) : records[m].fee \in Nat
  BY UnresolvedIs
<1>5. n \in unresolved(records) => n \in unresolved(records') /\ records[n].fee <= records'[n].fee
  BY <1>2, <1>3 DEF unresolved, Resolved
<1>6. \A m \in unresolved(records) :
        m \in unresolved(records') /\ records[m].fee <= records'[m].fee
  BY <1>2, <1>4, <1>5
<1>7. (n \in DOMAIN records => records[n].status # "Mined") => n \in unresolved(records')
  <2>1. RecordsInv /\ n \in DOMAIN records => records[n].status \in Statuses
    BY DEF RecordsInv, LedgerRecords
  <2> QED BY <1>2, <1>3, <2>1 DEF unresolved, Resolved, Statuses, Acceptances
<1> QED BY <1>3, <1>6, <1>7

\* A mark with a status that does not resolve forgets nothing either.
LEMMA MarkingKeeps ==
  ASSUME RecordsInv, NEW n \in Nat, NEW status \in Statuses, NEW record,
         Rewritten(records, records', n), records'[n] = record, record.status = status,
         n \in DOMAIN records => record.fee = records[n].fee
  PROVE  /\ \A m \in unresolved(records) : m # n \/ status \notin Resolved =>
              m \in unresolved(records') /\ records[m].fee <= records'[m].fee
<1>1. /\ \A m \in unresolved(records) : m # n =>
           m \in unresolved(records') /\ records'[m] = records[m]
      /\ records'[n].status \notin Resolved => n \in unresolved(records')
  BY RewriteKeeps
<1>2. \A m \in unresolved(records) : m \in DOMAIN records /\ records[m].fee \in Nat
  BY UnresolvedIs
<1> QED BY <1>1, <1>2

LEMMA SignerIsOnRecord ==
  ASSUME IInv, RecordsInv, HasRoom, NEW r \in Requests, RecordSigned(r),
         Holds(r), Holds(r)', nonce'[r] = nonce[r], fee'[r] \in Nat, nonce[r] >= latest
  PROVE  SignsAt(r, nonce[r])
<1> DEFINE n == nonce[r]
<1>1. n \in Nat /\ r \in Senders /\ latest \in Nat
  BY LatestIsNat DEF IInv, TypeInv, ClaimInv, Claimed, Senders
<1>2. n \in DOMAIN records => records[n].status # "Mined"
  BY <1>1 DEF RecordsInv
<1>3. n \in unresolved(records') /\ fee'[r] <= records'[n].fee
  BY <1>1, <1>2, SigningKeeps DEF RecordSigned
<1> QED BY <1>3 DEF SignsAt

\* A release marked after the tracker has the nonce back: the nonce is free, or has
\* its next owner and is blurred, or nobody knows it.
LEMMA ReleaseMarkMoves ==
  ASSUME IInv, RecordsInv, latest' = latest, NEW n \in Nat, NEW others,
         MarkReleasedAt(n, others), tr' = tr
  PROVE  \A m \in Nat : m >= latest =>
           Moves(m) \/ (m = n /\ Taken(n) /\ \A x \in others : nonce[x] # n)
<1>1. Rewritten(records, records', n) /\ records'[n] = MarkedRecord(n, "Released")
  BY StatusIsRecorded DEF MarkReleasedAt, mark_released, MarkedRecord
<1>2. "Released" \in Statuses
  BY DEF Statuses, Resolved
<1>3. \A m \in unresolved(records) : m # n =>
        m \in unresolved(records') /\ records[m].fee <= records'[m].fee
  BY <1>1, <1>2, MarkedRecordIs, MarkingKeeps
<1>4. /\ blurred \subseteq blurred'
      /\ n < tr.current /\ n \notin tr.gaps /\ (\E x \in others : nonce[x] = n)
           => n \in blurred'
  BY DEF MarkReleasedAt
<1>5. Taken(n) => n < tr.current /\ n \notin tr.gaps
  BY DEF Taken, FreeIn, IInv, TypeInv, TrackerOK
<1>6. n \in blurred' => Kept(n)
  BY DEF Kept
<1>7. \A m \in Nat : m # n => Kept(m)
  BY <1>3, <1>4 DEF Kept
<1> QED BY <1>4, <1>5, <1>6, <1>7 DEF Moves, Taken

\* r has given n back and marks it now, and nobody has been given it since, though
\* it is not free.
Forsaken(r, n) ==
  /\ pc[r] = "mark_released" /\ n = nonce[r] /\ Taken(n)
  /\ \A x \in Requests \ {r} : nonce[x] # n

LEMMA RequestMovesLedger ==
  ASSUME IInv, BaseInv, HasRoom, NEW r \in Requests, Request(r)
  PROVE  \A n \in Nat : n >= latest' => Moves(n) \/ Forsaken(r, n)
<1>1. IInv' /\ latest' = latest /\ latest \in Nat
  BY RequestLatest
<1>2. RecordsInv /\ ValuesInv /\ NonceInv /\ r \in Senders
  BY DEF BaseInv, Senders
<1>3. \A n \in unresolved(records) : n \in Nat /\ records[n].fee \in Nat
  BY <1>2, UnresolvedIs
<1>4. CASE UNCHANGED <<records, blurred>>
  BY <1>3, <1>4 DEF Moves, Kept
<1>5. CASE /\ RecordSigned(r)
           /\ pc[r] \in {"allocated", "signed", "marked"} /\ (Holds(r)' <=> Holds(r))
           /\ UNCHANGED <<tr, nonce, network>> /\ fee'[r] \in Nat
  <2> SUFFICES ASSUME NEW n \in Nat, n >= latest PROVE Moves(n)
    BY <1>1
  <2>1. nonce[r] \in Nat
    BY <1>2, <1>5 DEF NonceInv
  <2>2. \A m \in unresolved(records) :
          m \in unresolved(records') /\ records[m].fee <= records'[m].fee
    BY <1>2, <1>5, <2>1, SigningKeeps DEF RecordSigned
  <2>3. blurred' = IF Holds(r) THEN blurred \ {nonce[r]} ELSE blurred
    BY <1>5 DEF RecordSigned
  <2>4. CASE n # nonce[r] \/ ~Holds(r)
    BY <2>2, <2>3, <2>4 DEF Moves, Kept
  <2>5. CASE n = nonce[r] /\ Holds(r)
    BY <1>2, <1>5, <2>5, SignerIsOnRecord DEF Moves
  <2> QED BY <2>4, <2>5
<1>6. CASE /\ MarkReleasedAt(nonce[r], Requests \ {r})
           /\ pc[r] = "mark_released" /\ UNCHANGED <<tr, nonce, network>>
  <2>1. nonce[r] \in Nat
    BY <1>2, <1>6 DEF NonceInv
  <2> QED BY <1>1, <1>2, <1>6, <2>1, ReleaseMarkMoves DEF Forsaken
<1>7. ASSUME NEW status \in Statuses, Marks(r, status), blurred' = blurred,
             pc[r] \in {"elsewhere", "accepted", "sent"}
      PROVE  \A m \in Nat : m # nonce[r] \/ status \notin Resolved => Kept(m)
  <2> DEFINE n == nonce[r]
  <2>1. n \in Nat
    BY <1>2, <1>7 DEF NonceInv
  <2>2. \E record : /\ Rewritten(records, records', n) /\ records'[n] = record
                    /\ record.status = status
                    /\ n \in DOMAIN records => record.fee = records[n].fee
    BY <1>2, <1>7, <2>1, UpdateIsRecorded, UpdatedRecordIs, StatusIsRecorded, MarkedRecordIs
       DEF Marks
  <2> HIDE DEF n
  <2>3. \A m \in unresolved(records) : m # n \/ status \notin Resolved =>
          m \in unresolved(records') /\ records[m].fee <= records'[m].fee
    BY <1>2, <2>1, <2>2, MarkingKeeps
  <2> QED BY <1>7, <2>3 DEF Kept, n
<1>8. CASE /\ \E status \in {"Committed", "BroadcastAccepted", "MempoolSeen"} : Marks(r, status)
           /\ pc[r] \in {"elsewhere", "accepted", "sent"} /\ blurred' = blurred
  <2>1. \A status \in {"Committed", "BroadcastAccepted", "MempoolSeen"} :
          status \in Statuses /\ status \notin Resolved
    BY DEF Statuses, Acceptances, Resolved
  <2> QED BY <1>7, <1>8, <2>1 DEF Moves
<1>9. CASE /\ Marks(r, "Mined")
           /\ r \in mined /\ pc[r] = "sent" /\ blurred' = blurred
  <2>1. "Mined" \in Statuses
    BY DEF Statuses, Resolved
  <2>2. nonce[r] \in Nat /\ nonce[r] < latest
    BY <1>9 DEF IInv, MinedInv
  <2> QED BY <1>1, <1>7, <1>9, <2>1, <2>2 DEF Moves
<1> QED BY <1>2, <1>4, <1>5, <1>6, <1>8, <1>9, RequestLedger DEF LedgerStep

LEMMA RequestSigns ==
  ASSUME IInv, BaseInv, HasRoom, NEW r \in Requests, Request(r)
  PROVE  /\ SignaturesMove
         /\ \A q \in Requests : Signed(q)' => nonce'[q] \in Nat
         /\ pc[r] = "mark_released" => ~Signed(r)'
<1>1. IInv' /\ latest' = latest /\ latest \in Nat
  BY RequestLatest
<1>2. NonceInv /\ RecordsInv /\ ValuesInv
  BY DEF BaseInv
<1>3. \A q \in Requests \ {r} :
        /\ nonce'[q] = nonce[q] /\ pc'[q] = pc[q] /\ fee'[q] = fee[q]
        /\ Claimed(q)' => Claimed(q)
  BY RequestSpares, RequestStaysAtHome DEF Untouched, Claimed, Processes, Senders
<1>4. \A q \in Requests \ {r} : Signed(q)' => Signed(q)
  BY <1>3 DEF Signed
<1>5. ASSUME Signed(r)', nonce'[r] >= latest
      PROVE  \/ Signed(r) /\ nonce'[r] = nonce[r] /\ fee'[r] = fee[r]
             \/ SignsAt(r, nonce'[r])
  <2>1. CASE /\ RecordSigned(r) /\ Holds(r) /\ Holds(r)'
             /\ nonce'[r] = nonce[r] /\ fee'[r] \in Nat
    BY <1>2, <1>5, <2>1, SignerIsOnRecord
  <2> QED BY <1>2, <1>5, <2>1, RequestClaims
<1>6. SignaturesMove
  BY <1>1, <1>3, <1>4, <1>5 DEF SignaturesMove
<1>7. \A q \in Requests : Signed(q)' => nonce'[q] \in Nat
  BY <1>1 DEF Signed, IInv, ClaimInv
<1>8. pc[r] = "mark_released" => ~Signed(r) /\ ~Holds(r)
  BY DEF Signed, Claimed, Holds, IInv, LiveInv, ContextInv, NotLivePoints
<1> QED BY <1>2, <1>6, <1>7, <1>8, RequestClaims

LEMMA RequestKeepsFees ==
  ASSUME IInv, BaseInv, FeeInv, HasRoom, NEW r \in Requests, Request(r)
  PROVE  FeeInv'
<1>1. IInv' /\ latest' = latest /\ mined \subseteq mined'
  BY RequestLatest
<1>2. SignaturesMove /\ \A q \in Requests : Signed(q)' => nonce'[q] \in Nat
  BY RequestSigns
<1>3. SignedMoves
  <2> SUFFICES ASSUME NEW q \in Requests, Signed(q)', nonce'[q] >= latest',
                      Forsaken(r, nonce'[q])
               PROVE  FALSE
    BY <1>2, RequestMovesLedger DEF SignedMoves
  <2>1. q # r
    BY RequestSigns DEF Forsaken
  <2> QED BY <2>1, RequestStaysAtHome DEF Forsaken, Senders
<1> QED BY <1>1, <1>2, <1>3, RequestKeepsBase, FeesStayOnRecord DEF BaseInv

\* A step of the ledger or the tracker alone.
LEMMA QuietKeepsSigned ==
  ASSUME UNCHANGED <<pc, nonce, fee, ctx, network>>
  PROVE  \A r \in Requests :
           (Signed(r)' <=> Signed(r)) /\ nonce'[r] = nonce[r] /\ fee'[r] = fee[r]
BY DEF Signed, Claimed, Holds, Live, Plain, network

LEMMA ReleasePreheatMarkKeepsFees ==
  ASSUME IInv, BaseInv, FeeInv, NEW n \in unmarked, ReleasePreheatMark(n)
  PROVE  FeeInv'
<1>1. UNCHANGED <<tr, pc, nonce, fee, ctx, got, network>>
  BY DEF ReleasePreheatMark
<1>2. IInv' /\ latest' = latest /\ mined \subseteq mined'
  BY <1>1, LedgerStepKeeps DEF latest, network
<1>3. n \in Nat /\ RecordsInv /\ ValuesInv
  BY DEF BaseInv, ValuesInv
<1>4. \A m \in Nat : m >= latest => Moves(m) \/ \A x \in Requests : nonce[x] # m
  BY <1>1, <1>2, <1>3, ReleaseMarkMoves DEF ReleasePreheatMark
<1>5. \A r \in Requests : Signed(r)' => nonce'[r] \in Nat
  BY <1>2 DEF Signed, IInv, ClaimInv
<1>6. SignedMoves /\ SignaturesMove
  BY <1>1, <1>2, <1>4, <1>5, QuietKeepsSigned DEF SignedMoves, SignaturesMove
<1> QED BY <1>2, <1>3, <1>6, ReleasePreheatMarkKeepsBase, FeesStayOnRecord DEF BaseInv

\* Of the nonces the chain has not passed, consumption forgets those a sync with
\* the pending tag takes for passed.
LEMMA PruneKeeps ==
  ASSUME RecordsInv, latest \in Nat, latest' = latest, NEW c \in Nat,
         records' = prune_consumed(records, c), blurred \subseteq blurred',
         latest .. c - 1 \subseteq blurred'
  PROVE  \A n \in Nat : n >= latest => Kept(n)
<1> SUFFICES ASSUME NEW n \in Nat, n >= latest PROVE Kept(n)
  OBVIOUS
<1>1. n < c => n \in blurred'
  OBVIOUS
<1>2. n \in unresolved(records) /\ n >= c =>
        n \in unresolved(records') /\ records'[n].fee = records[n].fee
  BY PruneKeepsRecords DEF unresolved
<1>3. n \in unresolved(records) => records[n].fee \in Nat
  BY UnresolvedIs
<1> QED BY <1>1, <1>2, <1>3 DEF Kept

LEMMA SyncKeepsKnown ==
  ASSUME IInv, BaseInv, NEW p \in Processes, Sync(p) \/ (p \in Syncers /\ Syncer(p))
  PROVE  \A n \in Nat : n >= latest => Kept(n)
<1>1. latest' = latest /\ latest \in Nat /\ RecordsInv /\ got[p] \in Nat
  BY SyncStaysAtHome, LatestIsNat DEF latest, network, IInv, TypeInv, BaseInv
<1>2. CASE UNCHANGED <<records, blurred>>
  BY <1>1, <1>2, UnresolvedIs DEF Kept
<1>3. CASE /\ records' = prune_consumed(records, got[p])
           /\ blurred' = blurred \cup (latest .. got[p] - 1)
  BY <1>1, <1>3, PruneKeeps
<1> QED BY <1>2, <1>3, SyncStaysAtHome

\* It signs nothing and claims nothing.
LEMMA SyncKeepsClaims ==
  ASSUME IInv, NEW p \in Processes, Sync(p) \/ (p \in Syncers /\ Syncer(p))
  PROVE  \A r \in Requests :
           /\ (Holds(r)' <=> Holds(r)) /\ (Live(r)' <=> Live(r)) /\ (Claimed(r)' <=> Claimed(r))
           /\ Signed(r)' => Signed(r)
           /\ Returned(r)' => Returned(r)
<1> TAKE r \in Requests
<1>1. UNCHANGED <<nonce, fee, ctx, unmarked, network, wire, pool, mined>>
  BY SyncStaysAtHome DEF network
<1>2. (Holds(r)' <=> Holds(r)) /\ (Live(r)' <=> Live(r)) /\ (Claimed(r)' <=> Claimed(r))
  BY <1>1, SyncKeeps DEF Untouched, Live, Claimed
<1>3. CASE r = p
  BY <1>2, <1>3, ProcessesAreDisjoint, SyncStaysAtHome
     DEF Signed, Returned, SyncPoints, UnsignedPoints
<1>4. CASE r # p
  BY <1>1, <1>2, <1>4, SyncStaysAtHome DEF Signed, Returned, Processes
<1> QED BY <1>2, <1>3, <1>4

LEMMA SyncKeepsFees ==
  ASSUME IInv, BaseInv, FeeInv, NEW p \in Processes, Sync(p) \/ (p \in Syncers /\ Syncer(p))
  PROVE  FeeInv'
<1>1. IInv' /\ BaseInv' /\ RecordsInv /\ ValuesInv
  BY SyncKeeps, SyncKeepsBase DEF BaseInv
<1>2. UNCHANGED <<nonce, fee, mined>> /\ latest' = latest
  BY SyncStaysAtHome DEF network, latest
<1> QED BY <1>1, <1>2, SyncKeepsKnown, SyncKeepsClaims, FeesStayQuietly DEF BaseInv

LEMMA NetworkKeepsSigned ==
  ASSUME IInv, Network
  PROVE  /\ IInv' /\ UNCHANGED <<tr, records, calls, blurred>> /\ mined \subseteq mined'
         /\ \A r \in Requests :
              /\ (Holds(r)' <=> Holds(r)) /\ (Claimed(r)' => Claimed(r))
              /\ (Signed(r)' => Signed(r))
<1>1. IInv' /\ UNCHANGED <<tr, records, calls, blurred>> /\ mined \subseteq mined'
  BY NetworkKeeps DEF Network, Arrive, Lose, Evict, Mine, Enters
<1>2. \A r \in Requests : (Holds(r)' <=> Holds(r)) /\ (Live(r)' => Live(r))
  BY NetworkKeeps DEF Untouched
<1> QED BY <1>1, <1>2 DEF Claimed, Signed, calls

LEMMA NetworkKeepsFees ==
  ASSUME IInv, BaseInv, FeeInv, Network
  PROVE  FeeInv'
<1>1. IInv' /\ UNCHANGED <<records, nonce, fee, blurred>> /\ mined \subseteq mined'
      /\ \A r \in Requests : Signed(r)' => Signed(r)
  BY NetworkKeepsSigned DEF calls
<1>2. \A n : Kept(n)
  BY <1>1, UnresolvedIs DEF Kept, BaseInv
<1> QED BY <1>1, <1>2, NetworkKeepsBase, FeesStayQuietly DEF BaseInv

LEMMA RescueKeepsFees ==
  ASSUME IInv, BaseInv, FeeInv, HasRoom, NEW x \in Rescuers, Rescue(x)
  PROVE  FeeInv'
<1>1. IInv' /\ BaseInv' /\ RecordsInv /\ ValuesInv /\ PoolInv /\ fee[x] \in Nat /\ x \in Senders
  BY RescueKeeps, RescueKeepsBase DEF BaseInv, ValuesInv, Senders
<1>2. latest' = latest /\ latest \in Nat /\ mined' = mined /\ blurred' = blurred /\ got[x] \in Nat
  BY RescueStaysAtHome, LatestIsNat DEF latest, IInv, TypeInv, Processes
<1>3. \A r \in Requests : Signed(r)' => Signed(r) /\ nonce'[r] = nonce[r] /\ fee'[r] = fee[r]
  <2> TAKE r \in Requests
  <2>1. r # x /\ r \in Processes /\ r \in Senders
    BY ProcessesAreDisjoint DEF Processes, Senders
  <2>2. (Holds(r)' <=> Holds(r)) /\ (Live(r)' => Live(r))
    BY RescueKeeps DEF Untouched
  <2> QED BY <2>1, <2>2, RescueStaysAtHome DEF Signed, Claimed
<1>4. \A n \in Nat : n >= latest => Kept(n)
  <2> DEFINE m == nonce[x]
  <2>1. CASE UNCHANGED records
    BY <1>1, <1>2, <2>1, UnresolvedIs DEF Kept
  <2>2. CASE records' = prune_consumed(records, got[x]) /\ pc[x] = "gate"
    <3>1. got[x] <= latest
      BY <2>2 DEF IInv, HeadInv
    <3>2. latest .. got[x] - 1 = {}
      BY <1>2, <3>1
    <3> QED BY <1>1, <1>2, <2>2, <3>2, PruneKeeps
  <2>3. CASE pc[x] \notin IdlePoints /\ records' = record_signed(records, m, x, fee[x], now)
    <3>1. m \in Nat
      BY <1>1, <2>3 DEF PoolInv
    <3> HIDE DEF m
    <3> QED BY <1>1, <1>2, <2>3, <3>1, SigningKeeps DEF Kept
  <2>4. CASE pc[x] \notin IdlePoints /\ records' = mark_rebroadcast_accepted(records, m, x, now)
    <3> DEFINE status == "RebroadcastAccepted"
    <3>1. m \in Nat /\ status \in Statuses /\ status \notin Resolved
      BY <1>1, <2>4 DEF PoolInv, Statuses, Acceptances, Resolved
    <3> HIDE DEF m, status
    <3>2. records' = Update(records, m, x, status, now)
      BY <2>4 DEF mark_rebroadcast_accepted, status
    <3>3. Rewritten(records, records', m) /\ records'[m] = UpdatedRecord(m, x, status)
      BY <1>1, <3>1, <3>2, UpdateIsRecorded
    <3>4. \A n \in unresolved(records) :
            n \in unresolved(records') /\ records[n].fee <= records'[n].fee
      BY <1>1, <3>1, <3>3, UpdatedRecordIs, MarkingKeeps
    <3> QED BY <1>2, <3>4 DEF Kept
  <2> QED BY <2>1, <2>2, <2>3, <2>4, RescueStaysAtHome DEF Rescued
<1> QED BY <1>1, <1>2, <1>3, <1>4, FeesStayQuietly DEF BaseInv

\* recover_stalled, the passing of time, and stuttering.
LEMMA QuietKeepsFees ==
  ASSUME IInv, IInv', BaseInv, FeeInv, UNCHANGED <<pc, nonce, fee, ctx, network, blurred>>,
         RecordsInv', \A n \in unresolved(records) :
           n \in unresolved(records') /\ records'[n].fee = records[n].fee
  PROVE  FeeInv'
<1>1. latest' = latest /\ mined \subseteq mined'
  BY DEF latest, network
<1>2. \A n : Kept(n)
  BY UnresolvedIs DEF Kept, BaseInv
<1> QED BY <1>1, <1>2, QuietKeepsSigned, FeesStayQuietly DEF BaseInv
-----------------------------------------------------------------------------
(* Steps of a request keep the rest of the ledger's invariant *)

LEMMA RequestFrees ==
  ASSUME IInv, PassedInv, NEW r \in Requests, Request(r)
  PROVE  /\ TrackerOK(tr) /\ TrackerOK(tr') /\ tr'.synced = tr.synced
         /\ TakesNonce(r) => \A n \in Nat : FreeIn(tr', n) <=> FreeIn(tr, n) /\ n # nonce'[r]
         /\ GivesNonceBack(r) =>
              /\ nonce[r] \in Nat
              /\ \A n \in Nat : FreeIn(tr', n) => FreeIn(tr, n) \/ n = nonce[r]
              /\ \A n \in Nat : FreeIn(tr, n) => FreeIn(tr', n)
              /\ nonce[r] >= latest => FreeIn(tr', nonce[r])
<1>1. TrackerOK(tr) /\ TrackerOK(tr') /\ latest \in Nat
  BY RequestLatest DEF IInv, TypeInv
<1>2. CASE TakesNonce(r)
  <2>1. tr'.synced = tr.synced
        /\ \A n \in Nat : FreeIn(tr', n) <=> FreeIn(tr, n) /\ n # nonce'[r]
    BY <1>1, <1>2, ReserveTakes DEF TakesNonce
  <2> QED BY <1>1, <1>2, <2>1 DEF TakesNonce, GivesNonceBack
<1>3. CASE GivesNonceBack(r)
  <2>1. nonce[r] \in Nat /\ Holds(r)
    BY <1>3 DEF GivesNonceBack, IInv, ClaimInv, Claimed
  <2>2. /\ tr'.synced = tr.synced
        /\ \A n \in Nat : FreeIn(tr', n) => FreeIn(tr, n) \/ n = nonce[r]
        /\ \A n \in Nat : FreeIn(tr, n) => FreeIn(tr', n)
        /\ nonce[r] >= tr.synced => FreeIn(tr', nonce[r])
    BY <1>1, <1>3, <2>1, RecycleFrees DEF GivesNonceBack
  <2>3. nonce[r] >= latest => nonce[r] >= tr.synced
    <3>1. ~(latest <= nonce[r] /\ nonce[r] < tr.synced)
      BY <2>1 DEF PassedInv, Passed, Unheld
    <3> QED BY <1>1, <2>1, <3>1 DEF TrackerOK
  <2> QED BY <1>1, <1>3, <2>1, <2>2, <2>3 DEF TakesNonce, GivesNonceBack
<1>4. CASE MovesOn(r) /\ ~GivesNonceBack(r)
  <2>1. tr' = tr /\ ~TakesNonce(r)
    BY <1>4 DEF MovesOn, TakesNonce
  <2> QED BY <1>1, <1>4, <2>1
<1> QED BY <1>2, <1>3, <1>4, RequestEffect

LEMMA RequestMovesClaims ==
  ASSUME IInv, LInv, NEW r \in Requests, Request(r)
  PROVE  ClaimsMove
<1>1. IInv' /\ latest' = latest /\ latest \in Nat
  BY RequestLatest
<1>2. NonceInv /\ PassedInv /\ ValuesInv
  BY DEF LInv, BaseInv
<1>3. \A q \in Requests \ {r} :
        /\ nonce'[q] = nonce[q] /\ pc'[q] = pc[q] /\ fee'[q] = fee[q]
        /\ Claimed(q)' => Claimed(q)
        /\ Claimed(q) /\ ~Claimed(q)' => Live(q)
  BY RequestSpares, RequestStaysAtHome DEF Untouched, Claimed, Processes, Senders
<1>4. \A q \in Requests \ {r} : Claimed(q) /\ ~Claimed(q)' => Signed(q)
  BY <1>3, LiveIsSigned
<1>5. ASSUME NEW n \in Nat, n >= latest, ~FreeIn(tr', n), Unclaimed(n)'
      PROVE  ~FreeIn(tr, n) /\ (Unclaimed(n) \/ \E q \in Requests : Signed(q) /\ nonce[q] = n)
  <2>1. ASSUME NEW q \in Requests, q # r, Claimed(q), nonce[q] = n
        PROVE  Signed(q)
    <3>1. ~Claimed(q)'
      BY <1>3, <1>5, <2>1 DEF Unclaimed
    <3> QED BY <1>4, <2>1, <3>1
  <2>2. ~FreeIn(tr, n) /\ (Claimed(r) /\ nonce[r] = n => Signed(r))
    <3>1. CASE TakesNonce(r)
      <4>1. n # nonce'[r]
        BY <1>5, <3>1 DEF TakesNonce, Unclaimed, Claimed
      <4>2. ~FreeIn(tr, n)
        BY <1>2, <1>5, <3>1, <4>1, RequestFrees
      <4>3. Claimed(r) => Signed(r)
        BY <3>1, LiveIsSigned DEF TakesNonce, Claimed
      <4> QED BY <4>2, <4>3
    <3>2. CASE GivesNonceBack(r)
      <4>1. ~FreeIn(tr, n) /\ n # nonce[r]
        BY <1>2, <1>5, <3>2, RequestFrees
      <4> QED BY <4>1
    <3>3. CASE MovesOn(r) /\ ~GivesNonceBack(r)
      <4>1. tr' = tr /\ nonce'[r] = nonce[r]
        BY <3>3 DEF MovesOn
      <4>2. nonce[r] = n => ~Claimed(r)'
        BY <1>5, <4>1 DEF Unclaimed
      <4> QED BY <1>2, <1>5, <3>3, <4>1, <4>2, RequestClaims
    <3> QED BY <3>1, <3>2, <3>3, RequestEffect
  <2> QED BY <2>1, <2>2 DEF Unclaimed
<1> QED BY <1>1, <1>5 DEF ClaimsMove

LEMMA RequestKeepsPassed ==
  ASSUME IInv, LInv, NEW r \in Requests, Request(r)
  PROVE  PassedInv'
<1>1. IInv' /\ latest' = latest /\ mined \subseteq mined'
  BY RequestLatest
<1>2. PassedInv /\ latest \in Nat
  BY RequestLatest DEF LInv
<1>3. \A q \in Requests \ {r} : nonce'[q] = nonce[q] /\ (Holds(q)' <=> Holds(q))
  BY RequestSpares DEF Untouched
<1>4. ASSUME NEW n \in Nat, n >= latest, ~FreeIn(tr, n), Unheld(n)
      PROVE  ~FreeIn(tr', n) /\ Unheld(n)'
  <2>1. CASE TakesNonce(r)
    <3>1. \A k \in Nat : FreeIn(tr', k) <=> FreeIn(tr, k) /\ k # nonce'[r]
      BY <1>2, <2>1, RequestFrees
    <3>2. ~FreeIn(tr', n) /\ n # nonce'[r]
      <4>1. FreeIn(tr, nonce'[r])
        BY <2>1, ReserveTakes DEF TakesNonce, IInv, TypeInv
      <4> QED BY <1>4, <3>1, <4>1
    <3> QED BY <1>3, <1>4, <3>2 DEF Unheld
  <2>2. CASE GivesNonceBack(r)
    <3>1. n # nonce[r] /\ ~Holds(r)'
      BY <1>4, <2>2 DEF GivesNonceBack, Unheld
    <3>2. ~FreeIn(tr', n)
      BY <1>2, <1>4, <2>2, <3>1, RequestFrees
    <3> QED BY <1>3, <1>4, <3>1, <3>2 DEF Unheld
  <2>3. CASE MovesOn(r)
    BY <1>3, <1>4, <2>3 DEF MovesOn, Unheld
  <2> QED BY <2>1, <2>2, <2>3, RequestEffect
<1>5. UnheldStays
  BY <1>1, <1>4 DEF UnheldStays, Taken
<1>6. ASSUME NEW c, Passed(c)
      PROVE  \A n \in Nat : latest' <= n /\ n < c => ~FreeIn(tr', n) /\ Unheld(n)'
  BY <1>1, <1>5, <1>6, PassedStays
<1>7. tr'.synced = tr.synced
  BY <1>2, RequestFrees
<1>8. ASSUME NEW p \in Processes, pc'[p] \in {"apply", "prune", "checked"}
      PROVE  pc[p] \in {"apply", "prune", "checked"} /\ got'[p] = got[p]
  BY <1>8, RequestStaysAtHome
<1> QED BY <1>2, <1>6, <1>7, <1>8 DEF PassedInv, Passed, Taken

LEMMA RequestKeepsGiven ==
  ASSUME IInv, LInv, NEW r \in Requests, Request(r)
  PROVE  GivenInv'
<1>1. latest' = latest /\ latest \in Nat
  BY RequestLatest
<1>2. PassedInv /\ GivenInv /\ NonceInv /\ ValuesInv
  BY DEF LInv, BaseInv
<1>3. \A q \in Requests \ {r} : nonce'[q] = nonce[q] /\ (Returned(q)' <=> Returned(q))
  BY RequestStaysAtHome DEF Returned, Processes, Senders
<1> SUFFICES ASSUME NEW n \in Nat, latest <= n, ~FreeIn(tr', n)
             PROVE  \E x \in Requests : nonce'[x] = n /\ ~Returned(x)'
  BY <1>1 DEF GivenInv, Taken
<1>4. CASE TakesNonce(r) /\ n = nonce'[r]
  BY <1>2, <1>4, RequestClaims
<1>5. CASE ~(TakesNonce(r) /\ n = nonce'[r])
  <2>1. ~FreeIn(tr, n) /\ (GivesNonceBack(r) => n # nonce[r])
    BY <1>2, <1>5, RequestFrees, RequestEffect DEF MovesOn
  <2>2. PICK x \in Requests : nonce[x] = n /\ ~Returned(x)
    BY <1>2, <2>1 DEF GivenInv, Taken
  <2>3. CASE x # r
    BY <1>3, <2>2, <2>3
  <2>4. CASE x = r
    <3>1. pc[r] # "new"
      BY <1>2, <2>2, <2>4, NoneIsNoNumber DEF NonceInv
    <3>2. nonce'[r] = nonce[r] /\ ~Returned(r)'
      BY <1>2, <2>1, <2>2, <2>4, <3>1, RequestClaims
    <3> QED BY <2>2, <2>4, <3>2
  <2> QED BY <2>3, <2>4
<1> QED BY <1>4, <1>5

LEMMA RequestKeepsLInv ==
  ASSUME IInv, LInv, HasRoom, NEW r \in Requests, Request(r)
  PROVE  LInv'
<1>1. IInv' /\ BaseInv' /\ FeeInv' /\ mined' = mined /\ latest' = latest
  BY RequestLatest, RequestKeepsBase, RequestKeepsFees DEF LInv
<1>2. LedgerMoves
  <2> SUFFICES ASSUME NEW n \in Nat, n >= latest, Forsaken(r, n) PROVE FALSE
    BY <1>1, RequestMovesLedger DEF LedgerMoves, LInv
  <2>1. PICK x \in Requests : nonce[x] = n /\ ~Returned(x)
    BY RequestLatest DEF Forsaken, LInv, GivenInv
  <2> QED BY <2>1 DEF Forsaken, Returned
<1>3. StallInv'
  BY <1>1, <1>2, RequestMovesClaims, StallsStayKnown DEF LInv
<1>4. OnlyRequests'
  BY <1>1, RequestStaysAtHome DEF LInv, OnlyRequests, Enters
<1> QED BY <1>1, <1>3, <1>4, RequestKeepsPassed, RequestKeepsGiven DEF LInv
-----------------------------------------------------------------------------
(* The other steps *)

\* A step that leaves tracker, requests and network as they are.
LEMMA QuietStep ==
  ASSUME IInv, LInv, UNCHANGED <<tr, pc, nonce, fee, ctx, got, network>>,
         BaseInv', FeeInv', LedgerMoves
  PROVE  LInv'
<1> USE DEF network
<1>1. IInv' /\ Untouched(Requests) /\ latest' = latest /\ mined \subseteq mined'
  BY LedgerStepKeeps DEF latest
<1>2. \A r \in Requests :
        /\ (Signed(r)' <=> Signed(r)) /\ (Claimed(r)' <=> Claimed(r))
        /\ (Returned(r)' <=> Returned(r)) /\ (Holds(r)' <=> Holds(r))
  BY DEF Signed, Claimed, Returned, Holds, Live, Plain
<1>3. ClaimsMove
  BY <1>1, <1>2 DEF ClaimsMove, Unclaimed
<1>4. StallInv'
  BY <1>1, <1>3, StallsStayKnown DEF LInv
<1>5. OnlyRequests' /\ GivenInv'
  BY <1>1, <1>2 DEF LInv, OnlyRequests, GivenInv, Taken
<1>6. PassedInv'
  BY <1>1, <1>2 DEF LInv, PassedInv, Passed, Taken, Unheld
<1> QED BY <1>4, <1>5, <1>6 DEF LInv

LEMMA ReleasePreheatMarkKeeps ==
  ASSUME IInv, LInv, NEW n \in unmarked, ReleasePreheatMark(n)
  PROVE  LInv'
<1>1. UNCHANGED <<tr, pc, nonce, fee, ctx, got, network>> /\ latest' = latest
  BY DEF ReleasePreheatMark, latest, network
<1>2. n \in Nat /\ RecordsInv /\ GivenInv
  BY DEF LInv, BaseInv, ValuesInv
<1>3. latest \in Nat
  BY LatestIsNat DEF IInv, TypeInv
<1>4. \A m \in Nat : m >= latest =>
        Moves(m) \/ (m = n /\ Taken(n) /\ \A x \in Requests : nonce[x] # n)
  BY <1>1, <1>2, ReleaseMarkMoves DEF ReleasePreheatMark
<1>5. LedgerMoves
  BY <1>1, <1>2, <1>3, <1>4 DEF LedgerMoves, GivenInv
<1> QED BY <1>1, <1>5, ReleasePreheatMarkKeepsBase, ReleasePreheatMarkKeepsFees, QuietStep
    DEF LInv

LEMMA StutterKeeps ==
  ASSUME IInv, LInv, UNCHANGED vars
  PROVE  LInv'
<1>1. UNCHANGED <<tr, pc, nonce, fee, ctx, got, network, records, blurred, unmarked>>
  BY DEF vars, calls
<1>2. latest' = latest /\ RecordsInv'
  BY <1>1 DEF latest, network, LInv, BaseInv, RecordsInv
<1>3. BaseInv'
  BY <1>1, <1>2, QuietKeepsBase DEF LInv
<1>4. IInv'
  BY <1>1, LedgerStepKeeps
<1>5. FeeInv'
  BY <1>1, <1>2, <1>4, QuietKeepsFees DEF LInv
<1>6. LedgerMoves
  BY <1>1, UnresolvedIs DEF LedgerMoves, Moves, Kept, LInv, BaseInv
<1> QED BY <1>1, <1>3, <1>5, <1>6, QuietStep

LEMMA NetworkKeepsLInv ==
  ASSUME IInv, LInv, Network
  PROVE  LInv'
<1>1. IInv' /\ UNCHANGED <<tr, calls>> /\ Untouched(Requests)
  BY NetworkKeeps
<1>2. UNCHANGED <<records, blurred, pc, nonce, fee, ctx, got, unmarked>>
      /\ mined \subseteq mined'
  BY <1>1, NetworkKeepsSigned DEF calls
<1>3. latest \in Nat /\ latest' \in Nat /\ latest <= latest'
  BY <1>1, <1>2, LatestGrows
<1>4. BaseInv /\ FeeInv /\ PassedInv /\ GivenInv /\ BaseInv' /\ FeeInv'
  BY NetworkKeepsBase, NetworkKeepsFees DEF LInv
<1>5. LedgerMoves
  BY <1>2, <1>4, UnresolvedIs DEF LedgerMoves, Moves, Kept, BaseInv
<1>6. \A r \in Requests :
        /\ Claimed(r)' => Claimed(r)
        /\ Signed(r)' => Signed(r)
        /\ Claimed(r) /\ ~Claimed(r)' => Signed(r)
        /\ (Returned(r)' <=> Returned(r)) /\ (Holds(r)' <=> Holds(r))
  <2> TAKE r \in Requests
  <2>1. (Holds(r)' <=> Holds(r)) /\ (Claimed(r)' => Claimed(r)) /\ (Signed(r)' => Signed(r))
    BY NetworkKeepsSigned
  <2>2. Claimed(r) /\ ~Claimed(r)' => Signed(r)
    BY <2>1, LiveIsSigned DEF Claimed
  <2> QED BY <1>2, <2>1, <2>2 DEF Returned
<1>7. ClaimsMove
  <2>1. \A n : Unclaimed(n)' => Unclaimed(n) \/ \E r \in Requests : Signed(r) /\ nonce[r] = n
    BY <1>2, <1>6 DEF Unclaimed
  <2> QED BY <1>1, <2>1 DEF ClaimsMove
<1>8. StallInv'
  BY <1>1, <1>2, <1>4, <1>5, <1>7, StallsStayKnown DEF LInv
<1>9. UnheldStays
  BY <1>1, <1>2, <1>6 DEF UnheldStays, Unheld, Taken
<1>10. ASSUME NEW c, Passed(c)
       PROVE  \A n \in Nat : latest' <= n /\ n < c => ~FreeIn(tr', n) /\ Unheld(n)'
  BY <1>1, <1>2, <1>9, <1>10, PassedStays
<1>11. PassedInv'
  BY <1>1, <1>2, <1>4, <1>10 DEF PassedInv, Passed, Taken
<1>12. GivenInv'
  <2> SUFFICES ASSUME NEW n \in Nat, latest' <= n, ~FreeIn(tr, n)
               PROVE  \E r \in Requests : nonce[r] = n /\ ~Returned(r)'
    BY <1>1, <1>2 DEF GivenInv, Taken
  <2>1. latest <= n
    BY <1>3
  <2> QED BY <1>4, <1>6, <2>1 DEF GivenInv, Taken
<1>13. OnlyRequests'
  BY DEF LInv, OnlyRequests, Network, Arrive, Lose, Evict, Mine, Enters
<1> QED BY <1>4, <1>8, <1>11, <1>12, <1>13 DEF LInv
-----------------------------------------------------------------------------
(* Synchronisation *)

LEMMA ForwardPasses ==
  ASSUME NEW t, TrackerOK(t), NEW c \in Nat
  PROVE  /\ \A k \in Nat : FreeIn(t, k) => FreeIn(forward(t, c), k) \/ k < c
         /\ forward(t, c).synced \in {t.synced, c}
<1> USE DEF TrackerOK
<1> DEFINE high == Max({t.current, c})
           sync == Max({t.synced, c})
<1>1. high \in {t.current, c}
  <2>1. {t.current, c} \in SUBSET Nat /\ {t.current, c} # {}
        /\ t.current + c \in Nat /\ \A k \in {t.current, c} : k <= t.current + c
    OBVIOUS
  <2> QED BY <2>1, MaxOfNats
<1>2. sync \in {t.synced, c}
  <2>1. {t.synced, c} \in SUBSET Nat /\ {t.synced, c} # {}
        /\ t.synced + c \in Nat /\ \A k \in {t.synced, c} : k <= t.synced + c
    OBVIOUS
  <2> QED BY <2>1, MaxOfNats
<1> HIDE DEF high, sync
<1>3. forward(t, c) = [current |-> high, synced |-> sync,
                       gaps |-> {g \in t.gaps : g >= c}]
  BY DEF forward, high, sync
<1> QED BY <1>1, <1>2, <1>3 DEF FreeIn

\* What the pending tag counts above latest is pooled.
LEMMA PendingIsPooled ==
  ASSUME IInv
  PROVE  \A n \in Nat : latest <= n /\ n < pending => \E x \in pool : nonce[x] = n
<1>1. latest \in Nat /\ Cardinality(pool) \in Nat
  BY LatestIsNat, FS_CardinalityType DEF IInv, TypeInv
<1> DEFINE S == {n \in latest .. latest + Cardinality(pool) :
                   \A m \in latest .. n - 1 : \E x \in pool : nonce[x] = m}
<1>2. latest \in S
  <2>1. latest .. latest - 1 = {} /\ latest \in latest .. latest + Cardinality(pool)
    BY <1>1
  <2> QED BY <2>1
<1>3. S \in SUBSET Nat /\ S # {} /\ latest + Cardinality(pool) \in Nat
      /\ \A k \in S : k <= latest + Cardinality(pool)
  BY <1>1, <1>2
<1>4. Max(S) \in S
  BY <1>3, MaxOfNats
<1>5. pending \in Nat /\ \A m \in latest .. pending - 1 : \E x \in pool : nonce[x] = m
  BY <1>3, <1>4 DEF pending
<1> QED BY <1>1, <1>5

\* So a sync from what was read passes no nonce that is free or may be given back.
LEMMA ReadsPass ==
  ASSUME IInv, OnlyRequests
  PROVE  Passed(latest) /\ Passed(pending)
<1>1. latest \in Nat
  BY LatestIsNat DEF IInv, TypeInv
<1>2. ASSUME NEW n \in Nat, latest <= n, n < pending
      PROVE  Taken(n) /\ Unheld(n)
  <2>1. PICK x \in pool : nonce[x] = n
    BY <1>2, PendingIsPooled
  <2>2. x \in Requests /\ Live(x) /\ Claimed(x)
    BY DEF OnlyRequests, Live, Claimed
  <2>3. ~Holds(x)
    BY <2>2 DEF Holds, IInv, ContextInv, LiveInv, NotLivePoints
  <2> QED BY <2>1, <2>2, <2>3 DEF Taken, Unheld, Claimed, IInv, ClaimInv, DistinctInv
<1> QED BY <1>1, <1>2 DEF Passed

LEMMA SyncKeepsLInv ==
  ASSUME IInv, LInv, NEW p \in Processes, Sync(p) \/ (p \in Syncers /\ Syncer(p))
  PROVE  LInv'
<1>1. IInv' /\ Untouched(Requests)
  BY SyncKeeps
<1>2. UNCHANGED <<nonce, fee, ctx, unmarked, network, wire, pool, mined>>
  BY SyncStaysAtHome DEF network
<1>3. latest \in Nat /\ latest' = latest /\ mined \subseteq mined'
  BY <1>2, LatestIsNat DEF latest, IInv, TypeInv
<1>4. OnlyRequests /\ FeeInv /\ PassedInv /\ GivenInv /\ StallInv
  BY DEF LInv
<1>5. TrackerOK(tr) /\ got[p] \in Nat
  BY DEF IInv, TypeInv
<1>6. LedgerMoves
  BY <1>3, SyncKeepsKnown DEF LedgerMoves, Moves, LInv
<1>7. \A n \in Nat : n >= latest /\ FreeIn(tr, n) => FreeIn(tr', n)
  <2>1. CASE tr' = tr
    BY <2>1
  <2>2. CASE tr' = forward(tr, got[p]) /\ pc[p] \in {"apply", "checked"}
    <3>1. Passed(got[p])
      BY <1>4, <2>2 DEF PassedInv
    <3> QED BY <1>3, <1>5, <2>2, <3>1, ForwardPasses DEF Passed, Taken
  <2> QED BY <2>1, <2>2, SyncStaysAtHome
<1>8. \A n \in Nat : FreeIn(tr', n) => FreeIn(tr, n)
  BY <1>5, ForwardFreesNothing, SyncStaysAtHome
<1>9. ClaimsMove
  BY <1>2, <1>3, <1>7, SyncKeepsClaims DEF ClaimsMove, Unclaimed
<1>10. StallInv'
  BY <1>1, <1>3, <1>4, <1>6, <1>9, StallsStayKnown
<1>11. UnheldStays
  BY <1>2, <1>8, SyncKeepsClaims DEF UnheldStays, Taken, Unheld
<1>12. ASSUME NEW c, Passed(c)
       PROVE  \A n \in Nat : latest' <= n /\ n < c => ~FreeIn(tr', n) /\ Unheld(n)'
  BY <1>1, <1>3, <1>11, <1>12, PassedStays
<1>13. PassedInv'
  <2>1. Passed(tr'.synced)
    <3>1. CASE tr' = tr
      BY <1>4, <3>1 DEF PassedInv
    <3>2. CASE tr' = forward(tr, got[p]) /\ pc[p] \in {"apply", "checked"}
      BY <1>4, <1>5, <3>2, ForwardPasses DEF PassedInv
    <3> QED BY <3>1, <3>2, SyncStaysAtHome
  <2>2. ASSUME NEW q \in Processes, pc'[q] \in {"apply", "prune", "checked"}
        PROVE  Passed(got'[q])
    <3>1. CASE q = p
      BY <1>4, <2>2, <3>1, ReadsPass, SyncStaysAtHome DEF PassedInv
    <3>2. CASE q # p
      BY <1>4, <2>2, <3>2, SyncStaysAtHome DEF PassedInv
    <3> QED BY <3>1, <3>2
  <2> QED BY <1>12, <2>1, <2>2 DEF PassedInv, Passed, Taken
<1>14. GivenInv'
  BY <1>2, <1>3, <1>4, <1>7, SyncKeepsClaims DEF GivenInv, Taken
<1>15. OnlyRequests'
  BY <1>2, <1>4 DEF OnlyRequests
<1> QED BY <1>10, <1>13, <1>14, <1>15, SyncKeepsBase, SyncKeepsFees DEF LInv
-----------------------------------------------------------------------------
(* What holds of every wallet *)

\* What Spec adds to BaseInv: nobody replaces anything, and every process is at a
\* point of the send paths.
PlainInv ==
  /\ OnlyRequests
  /\ blurred \subseteq Nat
  /\ pc \in [Processes -> Points]

LEMMA InitHoldsBase == Init => BaseInv /\ PlainInv /\ FeeInv
<1> SUFFICES ASSUME Init PROVE BaseInv /\ PlainInv /\ FeeInv
  OBVIOUS
<1> USE DEF Init, network
<1>1. \A r \in Requests \cup Rescuers : r \in Processes /\ r \in Senders /\ pc[r] = "new"
  BY DEF Processes, Senders
<1>2. DOMAIN records = {}
  OBVIOUS
<1>3. RecordsInv
  BY <1>2, FS_EmptySet DEF RecordsInv
<1>4. ValuesInv /\ NonceInv /\ PoolInv /\ PlacesInv
  BY <1>1 DEF ValuesInv, NonceInv, PoolInv, PlacesInv, IdlePoints, Live
<1>5. PlainInv
  BY DEF PlainInv, OnlyRequests, Points
<1>6. FeeInv
  BY <1>1 DEF FeeInv, Signed, UnsignedPoints
<1> QED BY <1>3, <1>4, <1>5, <1>6 DEF BaseInv

\* A stuttering step, or one that only lets time pass.
LEMMA StutterKeepsBase ==
  ASSUME IInv, BaseInv, UNCHANGED vars
  PROVE  BaseInv' /\ (FeeInv => FeeInv')
<1>1. UNCHANGED <<tr, pc, nonce, fee, ctx, got, network, records, blurred, unmarked>>
  BY DEF vars, calls
<1>2. latest' = latest /\ RecordsInv'
  BY <1>1 DEF latest, network, BaseInv, RecordsInv
<1>3. BaseInv' /\ IInv'
  BY <1>1, <1>2, QuietKeepsBase, LedgerStepKeeps
<1> QED BY <1>1, <1>2, <1>3, QuietKeepsFees

LEMMA StepKeepsBase ==
  IInv /\ BaseInv /\ [Next]_vars => BaseInv' /\ (HasRoom /\ FeeInv => FeeInv')
<1> SUFFICES ASSUME IInv, BaseInv, [Next]_vars
             PROVE  BaseInv' /\ (HasRoom /\ FeeInv => FeeInv')
  OBVIOUS
<1>1. CASE \E r \in Requests : Request(r)
  BY <1>1, RequestKeepsBase, RequestKeepsFees
<1>2. CASE \E n \in unmarked : ReleasePreheatMark(n)
  BY <1>2, ReleasePreheatMarkKeepsBase, ReleasePreheatMarkKeepsFees
<1>3. CASE \E s \in Syncers : Syncer(s)
  BY <1>3, SyncKeepsBase, SyncKeepsFees DEF Processes
<1>4. CASE \E p \in Processes : Sync(p)
  BY <1>4, SyncKeepsBase, SyncKeepsFees
<1>5. CASE Network
  BY <1>5, NetworkKeepsBase, NetworkKeepsFees
<1>6. CASE UNCHANGED vars
  BY <1>6, StutterKeepsBase
<1> QED BY <1>1, <1>2, <1>3, <1>4, <1>5, <1>6 DEF Next

LEMMA StallStepKeepsBase ==
  IInv /\ BaseInv /\ [StallNext]_stallVars => BaseInv' /\ (HasRoom /\ FeeInv => FeeInv')
<1> SUFFICES ASSUME IInv, BaseInv, [StallNext]_stallVars
             PROVE  BaseInv' /\ (HasRoom /\ FeeInv => FeeInv')
  OBVIOUS
<1>1. CASE WalletStep
  <2>1. Next
    BY <1>1 DEF WalletStep, Next, StallNetwork, Network
  <2> QED BY <2>1, StepKeepsBase
<1>2. CASE \E x \in Rescuers : Rescue(x)
  BY <1>2, RescueKeepsBase, RescueKeepsFees
<1>3. CASE recover_stalled
  <2>1. UNCHANGED <<pc, nonce, fee, ctx, network, records, blurred, unmarked>> /\ IInv'
    BY <1>3, RecoverKeeps DEF recover_stalled, calls
  <2>2. RecordsInv'
    BY <2>1 DEF BaseInv, RecordsInv, latest, network
  <2> QED BY <2>1, <2>2, QuietKeepsBase, QuietKeepsFees
<1>4. CASE Tick
  <2>1. UNCHANGED <<tr, pc, nonce, fee, ctx, got, network, blurred, unmarked>>
    BY <1>4 DEF Tick, calls
  <2>2. IInv' /\ RecordsInv
    BY <2>1, LedgerStepKeeps DEF BaseInv
  <2>3. RecordsInv' /\ \A n \in unresolved(records) :
          n \in unresolved(records') /\ records'[n].fee = records[n].fee
    BY <1>4, <2>2, TickKeepsRecords DEF unresolved
  <2> QED BY <2>1, <2>2, <2>3, QuietKeepsBase, QuietKeepsFees
<1>5. CASE UNCHANGED stallVars
  BY <1>5, StutterKeepsBase DEF stallVars
<1> QED BY <1>1, <1>2, <1>3, <1>4, <1>5 DEF StallNext

LEMMA StepKeepsPlain == IInv /\ BaseInv /\ PlainInv /\ [Next]_vars => PlainInv'
<1> SUFFICES ASSUME IInv, BaseInv, PlainInv, [Next]_vars PROVE PlainInv'
  OBVIOUS
<1> USE DEF PlainInv
<1>1. ASSUME NEW r \in Requests, Request(r) PROVE PlainInv'
  <2>1. OnlyRequests'
    BY <1>1, RequestLatest, RequestStaysAtHome DEF OnlyRequests, Enters
  <2>2. blurred' \subseteq Nat
    <3>1. pc[r] = "mark_released" => nonce[r] \in Nat
      BY DEF BaseInv, NonceInv
    <3> QED BY <1>1, <3>1, RequestLedger DEF LedgerStep, RecordSigned, MarkReleasedAt, BaseInv
  <2>3. pc' \in [Processes -> AllPoints] /\ r \in Processes
    BY <1>1, RequestKeeps DEF IInv, TypeInv, Processes
  <2>4. \A p \in Processes : pc'[p] \in Points
    BY <1>1, <2>3, RequestStaysAtHome
  <2> QED BY <2>1, <2>2, <2>3, <2>4
<1>2. ASSUME NEW n \in unmarked, ReleasePreheatMark(n) PROVE PlainInv'
  <2>1. n \in Nat
    BY DEF BaseInv, ValuesInv
  <2> QED BY <1>2, <2>1 DEF ReleasePreheatMark, MarkReleasedAt, OnlyRequests, network
<1>3. ASSUME NEW p \in Processes, Sync(p) \/ (p \in Syncers /\ Syncer(p)) PROVE PlainInv'
  <2>1. OnlyRequests'
    BY <1>3, SyncStaysAtHome DEF OnlyRequests, network
  <2>2. blurred' \subseteq Nat
    <3>1. latest \in Nat /\ got[p] \in Nat
      BY LatestIsNat DEF IInv, TypeInv
    <3>2. latest .. got[p] - 1 \subseteq Nat
      BY <3>1
    <3> QED BY <1>3, <3>2, SyncStaysAtHome
  <2>3. pc' \in [Processes -> AllPoints] /\ SyncPoints \cup {"done"} \subseteq Points
    BY <1>3, SyncKeeps DEF IInv, TypeInv, SyncPoints, Points
  <2>4. \A q \in Processes : pc'[q] \in Points
    BY <1>3, <2>3, SyncStaysAtHome
  <2> QED BY <2>1, <2>2, <2>3, <2>4
<1>4. CASE Network
  BY <1>4, NetworkKeepsSigned DEF Network, Arrive, Lose, Evict, Mine, Enters, OnlyRequests, calls
<1>5. CASE UNCHANGED vars
  BY <1>5 DEF vars, calls, network, OnlyRequests
<1> QED BY <1>1, <1>2, <1>3, <1>4, <1>5 DEF Next, Processes

\* The inductive invariant of the wallet's data, with any ledger.
THEOREM DataInvariance == Spec => [](BaseInv /\ PlainInv)
<1>1. Init => BaseInv /\ PlainInv
  BY InitHoldsBase
<1>2. IInv /\ (BaseInv /\ PlainInv) /\ [Next]_vars => (BaseInv /\ PlainInv)'
  BY StepKeepsBase, StepKeepsPlain
<1> QED BY <1>1, <1>2, WalletInvariance, PTL DEF Spec

\* Types: what is in the wallet's tracker, ledger and contexts is what the source
\* declares, and bytes are in one place of the network.
THEOREM WalletTypesHold == Spec => []TypeOK
<1>1. IInv /\ BaseInv /\ PlainInv => TypeOK
  BY DEF IInv, TypeInv, TrackerOK, BaseInv, RecordsInv, LedgerRecords, ValuesInv, PlacesInv,
     PlainInv, TypeOK
<1> QED BY <1>1, DataInvariance, WalletInvariance, PTL
-----------------------------------------------------------------------------
(* What the ledger guarantees while it has room *)

\* Whatever is signed at a nonce not yet mined is on record, on the send paths ...
THEOREM FeeInvariance == Spec /\ []HasRoom => []FeeInv
<1>1. Init => FeeInv
  BY InitHoldsBase
<1>2. IInv /\ (BaseInv /\ PlainInv) /\ HasRoom /\ FeeInv /\ [Next]_vars => FeeInv'
  BY StepKeepsBase
<1> QED BY <1>1, <1>2, WalletInvariance, DataInvariance, PTL DEF Spec

\* ... and while cancels, re-sends, recover_stalled and time interfere.
THEOREM StallFeeInvariance == StallSpec /\ []HasRoom => [](BaseInv /\ FeeInv)
<1>1. StallInit => BaseInv /\ FeeInv
  BY InitHoldsBase DEF StallInit
<1>2. IInv /\ (BaseInv /\ FeeInv) /\ HasRoom /\ [StallNext]_stallVars => (BaseInv /\ FeeInv)'
  BY StallStepKeepsBase
<1> QED BY <1>1, <1>2, StallInvariance, PTL DEF StallSpec

LEMMA PooledIsOnRecord ==
  ASSUME IInv, BaseInv, FeeInv, NEW x \in pool \cap Requests, nonce[x] \notin blurred
  PROVE  nonce[x] \in unresolved(records) /\ fee[x] <= records[nonce[x]].fee
         /\ fee[x] \in Nat /\ records[nonce[x]].fee \in Nat
<1>1. nonce[x] >= latest /\ Live(x)
  BY DEF BaseInv, PoolInv, Live
<1>2. Signed(x)
  BY <1>1, LiveIsSigned
<1>3. nonce[x] \in unresolved(records) /\ fee[x] <= records[nonce[x]].fee
  BY <1>1, <1>2 DEF FeeInv
<1> QED BY <1>3, UnresolvedIs DEF BaseInv, ValuesInv, Senders

\* The fee a replacement has to outbid is on record for every transaction in a
\* pool (record_signed, prune_consumed and mark_mined in src/src/wallet.rs), but
\* where the record was dropped or resolved too early.
THEOREM FeesStayLedgered == Spec /\ []HasRoom => []PoolFeesAreLedgered
<1>1. IInv /\ (BaseInv /\ PlainInv) /\ FeeInv => PoolFeesAreLedgered
  <2> SUFFICES ASSUME IInv, BaseInv, PlainInv, FeeInv, NEW x \in pool, nonce[x] \notin blurred
               PROVE  nonce[x] \in DOMAIN records /\ records[nonce[x]].fee >= fee[x]
    BY DEF PoolFeesAreLedgered
  <2>1. x \in Requests
    BY DEF PlainInv, OnlyRequests
  <2> QED BY <2>1, PooledIsOnRecord DEF unresolved
<1> QED BY <1>1, WalletInvariance, DataInvariance, FeeInvariance, PTL

\* Between the gate and the fees a rescuer only ever takes the step of the gate.
LEMMA GateOpens ==
  ASSUME IInv, BaseInv, [StallNext]_stallVars, NEW x \in Rescuers,
         At(x, "gate"), At(x, "fees")'
  PROVE  fee'[x] = records[got[x]].fee
<1> USE DEF At
<1>1. x \in Senders /\ x \in Processes /\ fee \in [Senders -> Nat]
  BY DEF Senders, Processes, BaseInv, ValuesInv
<1>2. Gate(x)
  <2>1. ~WalletStep
    <3>1. \A r \in Requests : ~Request(r)
      BY RequestSpares
    <3>2. \A n \in unmarked : ~ReleasePreheatMark(n)
      BY DEF ReleasePreheatMark
    <3>3. \A p \in Processes : ~(Sync(p) \/ (p \in Syncers /\ Syncer(p)))
      BY <1>1, SyncStaysAtHome, ProcessesAreDisjoint DEF SyncPoints
    <3>4. ~Network
      BY NetworkKeeps DEF calls
    <3> QED BY <3>1, <3>2, <3>3, <3>4 DEF WalletStep, StallNetwork, Network, Processes
  <2>2. ~recover_stalled /\ ~Tick /\ ~UNCHANGED stallVars
    BY DEF recover_stalled, Tick, stallVars, vars, calls
  <2>3. PICK y \in Rescuers : Rescue(y)
    BY <2>1, <2>2 DEF StallNext
  <2>4. y = x
    BY <1>1, <2>3 DEF Rescue, ReplaceStalled, ConfirmLatest, Gate, AbortCancel, Cancel, Resend,
       ReplacementOk, ReplacementFails, RecordReplacement, MarkReplacement, CallAgain, Goto,
       IInv, TypeInv
  <2> QED BY <1>1, <2>3, <2>4 DEF Rescue, ReplaceStalled, ConfirmLatest, Gate, AbortCancel,
       Cancel, Resend, ReplacementOk, ReplacementFails, RecordReplacement, MarkReplacement,
       CallAgain, Goto, IInv, TypeInv
<1>3. CASE lowest_unresolved(records', got[x]) = {got[x]}
  BY <1>1, <1>2, <1>3 DEF Gate, Goto, IInv, TypeInv
<1> QED BY <1>1, <1>2, <1>3 DEF Gate, Goto, IInv, TypeInv

\* replace_stalled_nonce never prices a cancel below what a pool holds of a request
\* at the head, however the ledger changed while it waited for the chain.
THEOREM CancelsKnowTheirBasis == StallSpec /\ []HasRoom => BasisCoversTheHead
<1>1. IInv /\ (BaseInv /\ FeeInv) /\ [StallNext]_stallVars =>
        [\A x \in Rescuers, y \in pool \cap Requests :
           At(x, "gate") /\ At(x, "fees")' /\ nonce[y] = got[x]
             => fee'[x] >= fee[y] \/ nonce[y] \in blurred]_stallVars
  <2> SUFFICES ASSUME IInv, BaseInv, FeeInv, [StallNext]_stallVars,
                      NEW x \in Rescuers, NEW y \in pool \cap Requests,
                      At(x, "gate"), At(x, "fees")', nonce[y] = got[x], nonce[y] \notin blurred
               PROVE  fee'[x] >= fee[y]
    OBVIOUS
  <2>1. fee'[x] = records[got[x]].fee
    BY GateOpens
  <2> QED BY <2>1, PooledIsOnRecord
<1> QED BY <1>1, StallInvariance, StallFeeInvariance, PTL DEF StallSpec, BasisCoversTheHead

\* A wallet created behind the chain or with it.
LEMMA InitHoldsLInv == Init /\ InitialNonce <= ChainStart => LInv
<1> SUFFICES ASSUME Init, InitialNonce <= ChainStart PROVE LInv
  OBVIOUS
<1>1. BaseInv /\ FeeInv /\ OnlyRequests
  BY InitHoldsBase DEF PlainInv
<1> USE DEF Init, network
<1>2. InitialNonce \in Nat /\ ChainStart \in Nat /\ latest = ChainStart
  BY WalletBounds, FS_EmptySet DEF latest
<1>3. tr = [current |-> InitialNonce, synced |-> InitialNonce, gaps |-> {}]
  BY DEF new
<1>4. \A n \in Nat : latest <= n => ~Taken(n)
  BY <1>2, <1>3 DEF Taken, FreeIn
<1>5. PassedInv
  BY <1>2, <1>3 DEF PassedInv, Passed
<1>6. GivenInv /\ StallInv
  BY <1>4 DEF GivenInv, StallInv
<1> QED BY <1>1, <1>5, <1>6 DEF LInv

LEMMA StepKeepsLInv == IInv /\ LInv /\ HasRoom /\ [Next]_vars => LInv'
<1> SUFFICES ASSUME IInv, LInv, HasRoom, [Next]_vars PROVE LInv'
  OBVIOUS
<1>1. CASE \E r \in Requests : Request(r)
  BY <1>1, RequestKeepsLInv
<1>2. CASE \E n \in unmarked : ReleasePreheatMark(n)
  BY <1>2, ReleasePreheatMarkKeeps
<1>3. CASE \E s \in Syncers : Syncer(s)
  BY <1>3, SyncKeepsLInv DEF Processes
<1>4. CASE \E p \in Processes : Sync(p)
  BY <1>4, SyncKeepsLInv
<1>5. CASE Network
  BY <1>5, NetworkKeepsLInv
<1>6. CASE UNCHANGED vars
  BY <1>6, StutterKeeps
<1> QED BY <1>1, <1>2, <1>3, <1>4, <1>5, <1>6 DEF Next

\* The ledger, the tracker, the requests and the network agree, as LInv says, in
\* a wallet not created ahead of the chain and as long as nothing is evicted.
THEOREM LedgerInvariance ==
  ASSUME InitialNonce <= ChainStart
  PROVE  Spec /\ []HasRoom => []LInv
<1>1. Init => LInv
  BY InitHoldsLInv
<1>2. IInv /\ LInv /\ HasRoom /\ [Next]_vars => LInv'
  BY StepKeepsLInv
<1>3. Spec => []IInv
  BY WalletInvariance
<1> QED BY <1>1, <1>2, <1>3, PTL DEF Spec

\* The nonce the chain waits for, once no request can still fill it, is among
\* the unresolved records that stalled_nonces looks through.
THEOREM StallsStayVisible ==
  ASSUME InitialNonce <= ChainStart
  PROVE  Spec /\ []HasRoom => []StallIsVisible
<1>1. IInv /\ LInv => StallIsVisible
  <2> SUFFICES ASSUME IInv, LInv, latest < tr.current, latest \notin tr.gaps,
                      \A x \in Senders : ~Claims(x, latest)
               PROVE  latest \in unresolved(records) \cup blurred
    BY DEF StallIsVisible
  <2>1. latest \in Nat /\ tr.current \in Nat
    BY LatestIsNat DEF IInv, TypeInv, TrackerOK
  <2>2. Taken(latest)
    BY <2>1 DEF Taken, FreeIn
  <2>3. Unclaimed(latest)
    BY DEF Unclaimed, Claimed, Claims, Senders
  <2> QED BY <2>1, <2>2, <2>3 DEF LInv, StallInv
<1>2. Spec => []IInv
  BY WalletInvariance
<1> QED BY <1>1, <1>2, LedgerInvariance, PTL
=============================================================================
