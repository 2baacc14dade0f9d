---------------------------- MODULE WalletProofs ----------------------------
(***************************************************************************)
(* What Wallet and StallRecovery guarantee for any number of requests,     *)
(* syncers, rescuers and permits, whatever the endpoints answer: no nonce  *)
(* has two claims, cancels stay at the head of the line, and the wallet    *)
(* uses its tracker as an atomic pool.                                     *)
(***************************************************************************)
EXTENDS StallRecovery, FiniteSetTheorems, WellFoundedInduction, TLAPS

(* Least and greatest elements *)

LEMMA NatOrder == IsWellFoundedOn({ss \in Nat \X Nat : ss[1] < ss[2]}, Nat)
BY NatLessThanWellFounded DEF OpToRel

LEMMA MinOfNats ==
  ASSUME NEW S \in SUBSET Nat, S # {}
  PROVE  Min(S) \in S /\ \A k \in S : Min(S) <= k
<1> DEFINE R == {ss \in Nat \X Nat : ss[1] < ss[2]}
<1>1. IsWellFoundedOn(R, Nat)
  BY NatOrder
<1> HIDE DEF R
<1>2. PICK x \in S : \A y \in S : <<y, x>> \notin R
  BY <1>1, WFMin, Zenon
<1>3. \A y \in S : x <= y
  <2> SUFFICES ASSUME NEW y \in S PROVE x <= y
    OBVIOUS
  <2>1. ~(y < x)
    BY <1>2 DEF R
  <2> QED BY <2>1
<1> QED BY <1>3, Zenon DEF Min

LEMMA MaxOfNats ==
  ASSUME NEW S \in SUBSET Nat, S # {}, NEW top \in Nat, \A k \in S : k <= top
  PROVE  Max(S) \in S /\ \A k \in S : k <= Max(S)
<1> DEFINE T == {d \in Nat : top - d \in S}
<1>1. \A k \in S : top - k \in T
  OBVIOUS
<1>2. T # {} /\ T \subseteq Nat
  BY <1>1
<1>3. Min(T) \in T /\ \A d \in T : Min(T) <= d
  BY <1>2, MinOfNats
<1> DEFINE m == top - Min(T)
<1>4. m \in S
  BY <1>3
<1>5. \A k \in S : m >= k
  <2> SUFFICES ASSUME NEW k \in S PROVE m >= k
    OBVIOUS
  <2>1. Min(T) <= top - k /\ Min(T) \in Nat
    BY <1>1, <1>3
  <2> QED BY <2>1
<1> HIDE DEF m
<1> QED BY <1>4, <1>5, Zenon DEF Max
-----------------------------------------------------------------------------
(* The tracker's calls: which nonces they make free *)

\* n is free in tracker t: reserve can hand it out, now or later.
FreeIn(t, n) == n >= t.current \/ n \in t.gaps

TrackerOK(t) ==
  /\ t \in [current : Nat, synced : Nat, gaps : SUBSET Nat]
  /\ \A g \in t.gaps : g < t.current

\* reserve hands out a free nonce, which is then the only one no longer free.
LEMMA ReserveTakes ==
  ASSUME NEW t, TrackerOK(t)
  PROVE  /\ TrackerOK(reserve(t))
         /\ next_nonce(t) \in Nat /\ FreeIn(t, next_nonce(t))
         /\ \A n \in Nat :
              FreeIn(reserve(t), n) <=> FreeIn(t, n) /\ n # next_nonce(t)
         /\ reserve(t).synced = t.synced
<1> USE DEF TrackerOK
<1>1. t.gaps \cup {t.current} \subseteq Nat /\ t.gaps \cup {t.current} # {}
  OBVIOUS
<1>2. CASE t.gaps = {}
  <2>1. next_nonce(t) = t.current
    <3>1. t.gaps \cup {t.current} = {t.current}
      BY <1>2
    <3> QED BY <3>1, <1>1, MinOfNats DEF next_nonce
  <2>2. reserve(t) = [t EXCEPT !.current = @ + 1]
    BY <1>2 DEF reserve
  <2> QED BY <1>2, <2>1, <2>2 DEF FreeIn
<1>3. CASE t.gaps # {}
  <2> DEFINE m == Min(t.gaps)
  <2>1. m \in t.gaps /\ \A k \in t.gaps : m <= k
    BY <1>3, MinOfNats
  <2>2. next_nonce(t) \in t.gaps \cup {t.current}
        /\ \A k \in t.gaps \cup {t.current} : next_nonce(t) <= k
    BY <1>1, MinOfNats DEF next_nonce
  <2>3. next_nonce(t) = m
    BY <2>1, <2>2
  <2>4. reserve(t) = [t EXCEPT !.gaps = @ \ {m}]
    BY <1>3 DEF reserve
  <2> HIDE DEF m
  <2> QED BY <2>1, <2>3, <2>4 DEF FreeIn
<1> QED BY <1>2, <1>3

\* recycle frees the nonce it is given, or nothing if the chain has passed it,
\* and no other: collapsing only moves current over nonces that are free.
LEMMA RecycleFrees ==
  ASSUME NEW t, TrackerOK(t), NEW n \in Nat
  PROVE  /\ TrackerOK(recycle(t, n))
         /\ \A k \in Nat : FreeIn(t, k) => FreeIn(recycle(t, n), k)
         /\ \A k \in Nat :
              FreeIn(recycle(t, n), k) => FreeIn(t, k) \/ k = n
         /\ n >= t.synced => FreeIn(recycle(t, n), n)
         /\ recycle(t, n).current <= t.current
         /\ recycle(t, n).synced = t.synced
<1> USE DEF TrackerOK
<1>1. CASE n >= t.synced /\ t.current = n + 1
  <2> DEFINE S == {k \in t.synced .. n : k .. n - 1 \subseteq t.gaps}
             top == Min(S)
  <2>1. n \in S
    BY <1>1
  <2>2. S \in SUBSET Nat /\ S # {}
    BY <2>1
  <2>3. top \in S
    BY <2>2, MinOfNats
  <2> HIDE DEF top
  <2>4. top \in Nat /\ top <= n /\ top .. n - 1 \subseteq t.gaps
    BY <2>3
  <2>5. recycle(t, n) = [t EXCEPT !.current = top, !.gaps = @ \ (top .. n)]
    BY <1>1 DEF recycle, recycle_top, top
  <2>6. TrackerOK(recycle(t, n)) /\ recycle(t, n).current <= t.current
    <3>1. recycle(t, n).current = top /\ recycle(t, n).synced = t.synced
          /\ recycle(t, n).gaps = t.gaps \ (top .. n)
      BY <2>5
    <3>2. \A g \in t.gaps \ (top .. n) : g < top
      BY <1>1, <2>4
    <3>3. recycle(t, n) \in [current : Nat, synced : Nat, gaps : SUBSET Nat]
      <4>1. t.gaps \ (top .. n) \in SUBSET Nat
        OBVIOUS
      <4> QED BY <2>4, <2>5, <4>1
    <3> HIDE DEF S
    <3> QED BY <1>1, <2>4, <3>1, <3>2, <3>3
  <2>7. \A k \in Nat : k >= top /\ k < n => k \in t.gaps
    BY <2>4
  <2>8. ASSUME NEW k \in Nat
        PROVE  FreeIn(recycle(t, n), k) <=> FreeIn(t, k) \/ k = n
    <3>1. FreeIn(recycle(t, n), k)
            <=> k >= top \/ (k \in t.gaps /\ k \notin top .. n)
      BY <2>5 DEF FreeIn
    <3>2. FreeIn(t, k) <=> k > n \/ k \in t.gaps
      BY <1>1 DEF FreeIn
    <3> QED BY <2>4, <2>7, <3>1, <3>2
  <2>9. recycle(t, n).synced = t.synced
    BY <2>5
  <2> QED BY <2>6, <2>8, <2>9
<1>2. CASE n >= t.synced /\ n < t.current /\ t.current # n + 1
  <2>1. recycle(t, n) = [t EXCEPT !.gaps = @ \cup {n}]
    BY <1>2 DEF recycle
  <2> QED BY <1>2, <2>1 DEF FreeIn
<1>3. CASE n < t.synced \/ n >= t.current
  <2>1. recycle(t, n) = t
    BY <1>3 DEF recycle
  <2> QED BY <1>3, <2>1 DEF FreeIn
<1> QED BY <1>1, <1>2, <1>3

\* A sync only ever takes nonces away.
LEMMA ForwardFreesNothing ==
  ASSUME NEW t, TrackerOK(t), NEW c \in Nat
  PROVE  /\ TrackerOK(forward(t, c))
         /\ \A k \in Nat : FreeIn(forward(t, c), k) => FreeIn(t, k)
         /\ t.current <= forward(t, c).current
<1> USE DEF TrackerOK
<1> DEFINE high == Max({t.current, c})
           sync == Max({t.synced, c})
<1>1. high \in {t.current, c} /\ high >= t.current
  <2>1. {t.current, c} \in SUBSET Nat /\ {t.current, c} # {}
        /\ t.current + c \in Nat /\ \A k \in {t.current, c} : k <= t.current + c
    OBVIOUS
  <2>2. high \in {t.current, c} /\ \A k \in {t.current, c} : k <= high
    BY <2>1, MaxOfNats
  <2> HIDE DEF high
  <2> QED BY <2>2
<1>2. sync \in {t.synced, c}
  <2>1. {t.synced, c} \in SUBSET Nat /\ {t.synced, c} # {}
        /\ t.synced + c \in Nat /\ \A k \in {t.synced, c} : k <= t.synced + c
    OBVIOUS
  <2> QED BY <2>1, MaxOfNats
<1> HIDE DEF high, sync
<1>3. forward(t, c) = [current |-> high, synced |-> sync,
                       gaps |-> {g \in t.gaps : g >= c}]
  BY DEF forward, high, sync
<1>4. TrackerOK(forward(t, c)) /\ t.current <= forward(t, c).current
  BY <1>1, <1>2, <1>3
<1>5. ASSUME NEW k \in Nat, FreeIn(forward(t, c), k)
      PROVE  FreeIn(t, k)
  BY <1>1, <1>3, <1>5 DEF FreeIn
<1> QED BY <1>4, <1>5

\* A rewind frees the chain's nonce and what is above it.
LEMMA RewindFrees ==
  ASSUME NEW t, TrackerOK(t), NEW c \in Nat
  PROVE  /\ TrackerOK(rewind(t, c))
         /\ \A k \in Nat : FreeIn(rewind(t, c), k) => FreeIn(t, k) \/ k >= c
<1>1. CASE c >= t.current
  BY <1>1 DEF rewind
<1>2. CASE ~(c >= t.current)
  <2>1. rewind(t, c) = [current |-> c, synced |-> c, gaps |-> {}]
    BY <1>2 DEF rewind, new
  <2> QED BY <2>1 DEF TrackerOK, FreeIn
<1> QED BY <1>1, <1>2
-----------------------------------------------------------------------------
(* The inductive invariant *)

\* What a request has a claim on: see Claims.
Claimed(r) == Live(r) \/ Holds(r)

AllPoints ==
  Points \cup {"confirm", "gate", "fees", "cancelling", "cancelled", "recorded",
              "resending", "resent", "rerecorded"}

TypeInv ==
  /\ TrackerOK(tr)
  /\ pc \in [Processes -> AllPoints]
  /\ nonce \in [Senders -> Nat \cup {None}]
  /\ ctx \in [Requests -> ContextStates]
  /\ got \in [Processes -> Nat]
  /\ IsFiniteSet(pool) /\ IsFiniteSet(mined)

\* A context holds its reservation only before the send: from there on it is
\* Broadcasting, or somebody has taken the reservation out.
ContextInv ==
  \A r \in Requests :
    /\ ctx[r] = "Held" => pc[r] \in {"preheated", "used", "allocated", "signed"}
    /\ pc[r] = "new" => ctx[r] = "None"

\* Before the send, and after a definitive refusal, no pool has the bytes; while
\* the endpoints are still asked they are on the wire.
NotLivePoints ==
  {"new", "preheated", "used", "allocated", "signed", "marked", "waiting",
   "refused", "mark_released"}

LiveInv ==
  \A r \in Requests :
    /\ pc[r] \in NotLivePoints => ~Live(r)
    /\ pc[r] = "sending" => r \notin pool \cup mined

\* A claimed nonce is one the tracker has given out and not got back.
ClaimInv ==
  \A r \in Requests : Claimed(r) => nonce[r] \in Nat /\ ~FreeIn(tr, nonce[r])

DistinctInv ==
  \A x, y \in Requests :
    x # y /\ Claimed(x) /\ Claimed(y) => nonce[x] # nonce[y]

\* The chain is past what it has mined, so a rewind to the chain's nonce spares it.
MinedInv == \A x \in mined \cap Requests : nonce[x] \in Nat /\ nonce[x] < latest

\* A cancel is for a nonce the chain was waiting for when it was asked last.
HeadInv ==
  \A x \in Rescuers :
    /\ pc[x] \in {"gate", "fees"} => got[x] <= latest
    /\ pc[x] \in {"cancelling", "cancelled", "recorded"} =>
         nonce[x] \in Nat /\ nonce[x] <= latest

IInv ==
  /\ TypeInv
  /\ ContextInv
  /\ LiveInv
  /\ ClaimInv
  /\ DistinctInv
  /\ MinedInv
  /\ HeadInv

LEMMA InitHolds == Init => IInv
<1> SUFFICES ASSUME Init PROVE IInv
  OBVIOUS
<1> USE DEF Init
<1>1. InitialNonce \in Nat /\ ChainStart \in Nat
  BY WalletBounds
<1>2. TrackerOK(tr)
  BY <1>1 DEF TrackerOK, new
<1>3. TypeInv
  <2>1. IsFiniteSet(pool) /\ IsFiniteSet(mined)
    BY FS_EmptySet
  <2>2. pc \in [Processes -> AllPoints] /\ ctx \in [Requests -> ContextStates]
    BY DEF ContextStates, AllPoints, Points
  <2>3. nonce \in [Senders -> Nat \cup {None}] /\ got \in [Processes -> Nat]
    OBVIOUS
  <2> QED BY <1>2, <2>1, <2>2, <2>3 DEF TypeInv
<1>4. \A r \in Requests : ~Live(r) /\ ~Holds(r)
  BY DEF Live, Holds, Plain, Processes
<1>5. ContextInv /\ LiveInv
  BY <1>4 DEF ContextInv, LiveInv, Processes
<1>6. ClaimInv /\ DistinctInv /\ MinedInv
  BY <1>4 DEF ClaimInv, DistinctInv, MinedInv, Claimed
<1>7. HeadInv
  BY DEF HeadInv, Processes
<1> QED BY <1>3, <1>5, <1>6, <1>7 DEF IInv

LEMMA LatestIsNat ==
  ASSUME IsFiniteSet(mined)
  PROVE  latest \in Nat
BY WalletBounds, FS_CardinalityType DEF latest

LEMMA PendingIsNat ==
  ASSUME IsFiniteSet(mined), IsFiniteSet(pool)
  PROVE  pending \in Nat
<1>1. latest \in Nat /\ Cardinality(pool) \in Nat
  BY LatestIsNat, FS_CardinalityType
<1> DEFINE S == {n \in latest .. latest + Cardinality(pool) :
                   \A m \in latest .. n - 1 : \E x \in pool : nonce[x] = m}
<1>2. latest \in S
  <2>1. latest .. latest - 1 = {} /\ latest \in latest .. latest + Cardinality(pool)
    BY <1>1
  <2> QED BY <2>1
<1>3. S \in SUBSET Nat /\ S # {} /\ latest + Cardinality(pool) \in Nat
      /\ \A k \in S : k <= latest + Cardinality(pool)
  BY <1>1, <1>2
<1>4. Max(S) \in S
  BY <1>3, MaxOfNats
<1> QED BY <1>3, <1>4 DEF pending
-----------------------------------------------------------------------------
(* What a step of a request does to the tracker and to the claims *)

TakesNonce(r) ==
  /\ tr' = reserve(tr) /\ nonce'[r] = next_nonce(tr)
  /\ ~Holds(r) /\ Holds(r)' /\ ~Live(r)'

GivesNonceBack(r) ==
  /\ tr' = recycle(tr, nonce[r]) /\ nonce'[r] = nonce[r]
  /\ Holds(r) /\ ~Holds(r)' /\ ~Live(r)'

MovesOn(r) ==
  /\ tr' = tr /\ nonce'[r] = nonce[r]
  /\ Holds(r)' => Holds(r)
  /\ Live(r)' => Claimed(r)

\* The other requests keep what they hold, and at most lose what is live.
Untouched(S) ==
  \A y \in S :
    nonce'[y] = nonce[y] /\ (Holds(y)' <=> Holds(y)) /\ (Live(y)' => Live(y))

\* A request gets a nonce only when it has no claim, gives one back only when
\* its bytes are nowhere, and otherwise gains no claim.
LEMMA RequestEffect ==
  ASSUME IInv, NEW r \in Requests, Request(r)
  PROVE  TakesNonce(r) \/ GivesNonceBack(r) \/ MovesOn(r)
<1> USE DEF IInv, TypeInv, ContextInv, LiveInv, NotLivePoints, At, Goto, Finish,
      SetCtx, Plain, Processes, Senders, network, Holds, Live, Claimed
<1>1. CASE Sign(r)
  BY <1>1 DEF Sign, TakeNonce, TakesNonce
<1>2. CASE Preheat(r)
  BY <1>2 DEF Preheat, TakeNonce, TakesNonce
<1>3. CASE PreheatWarmupOnly(r)
  BY <1>3 DEF PreheatWarmupOnly, MovesOn
<1>4. CASE MarkUsed(r)
  BY <1>4 DEF MarkUsed, MovesOn
<1>5. CASE BindNonce(r)
  <2>1. CASE ctx[r] = "Held"
    BY <1>5, <2>1 DEF BindNonce, MovesOn
  <2>2. CASE ctx[r] # "Held"
    BY <1>5, <2>2 DEF BindNonce, TakeNonce, TakesNonce
  <2> QED BY <2>1, <2>2
<1>6. CASE SignOk(r)
  BY <1>6 DEF SignOk, MovesOn
<1>7. CASE SignFails(r)
  BY <1>7 DEF SignFails, GivesNonceBack
<1>8. CASE SignWithPreheatFails(r)
  <2>1. CASE ctx[r] = "Held"
    BY <1>8, <2>1 DEF SignWithPreheatFails, ReleaseReservation, GivesNonceBack
  <2>2. CASE ctx[r] # "Held"
    BY <1>8, <2>2 DEF SignWithPreheatFails, ReleaseReservation, MovesOn
  <2> QED BY <2>1, <2>2
<1>9. CASE CancelPreheat(r)
  <2>1. CASE ctx[r] = "Held"
    BY <1>9, <2>1 DEF CancelPreheat, ReleaseReservation, GivesNonceBack
  <2>2. CASE ctx[r] # "Held"
    BY <1>9, <2>2 DEF CancelPreheat, ReleaseReservation, MovesOn
  <2> QED BY <2>1, <2>2
<1>10. CASE ReleasePreheat(r)
  <2>1. CASE ctx[r] = "Held"
    BY <1>10, <2>1 DEF ReleasePreheat, ReleaseReservation, GivesNonceBack
  <2>2. CASE ctx[r] # "Held"
    BY <1>10, <2>2 DEF ReleasePreheat, ReleaseReservation, MovesOn
  <2> QED BY <2>1, <2>2
<1>11. CASE SendSigned(r)
  BY <1>11 DEF SendSigned, MovesOn
<1>12. CASE SendWithPreheat(r)
  BY <1>12 DEF SendWithPreheat, MovesOn
<1>13. CASE SendReleasedPreheat(r)
  BY <1>13 DEF SendReleasedPreheat, MovesOn
<1>14. CASE Broadcast(r)
  BY <1>14 DEF Broadcast, MovesOn
<1>15. CASE PermitTimesOut(r)
  BY <1>15 DEF PermitTimesOut, MovesOn
<1>16. CASE ReplyOk(r)
  BY <1>16 DEF ReplyOk, Enters, MovesOn
<1>17. CASE ReplyDefinitive(r)
  BY <1>17 DEF ReplyDefinitive, MovesOn
<1>18. CASE ReplyAmbiguous(r)
  BY <1>18 DEF ReplyAmbiguous, MovesOn
<1>19. CASE ReplyTooLow(r)
  BY <1>19 DEF ReplyTooLow, MovesOn
<1>20. CASE ReplyTooHigh(r)
  BY <1>20 DEF ReplyTooHigh, MovesOn
<1>21. CASE Accepted(r)
  BY <1>21 DEF Accepted, MovesOn
<1>22. CASE Recycle(r)
  BY <1>22 DEF Recycle, GivesNonceBack
<1>23. CASE RecycleNothing(r)
  BY <1>23 DEF RecycleNothing, MovesOn
<1>24. CASE MarkReleased(r)
  BY <1>24 DEF MarkReleased, MovesOn
<1>25. CASE VerifyBroadcast(r)
  BY <1>25 DEF VerifyBroadcast, calls, MovesOn
<1>26. CASE MarkMined(r)
  BY <1>26 DEF MarkMined, MovesOn
<1>27. CASE ReleaseNonce(r)
  BY <1>27 DEF ReleaseNonce, GivesNonceBack
<1>28. CASE MarkPreheatBroadcasting(r)
  BY <1>28 DEF MarkPreheatBroadcasting, MovesOn
<1>29. CASE SendElsewhere(r)
  BY <1>29 DEF SendElsewhere, MovesOn
<1>30. CASE CommitPreheat(r)
  BY <1>30 DEF CommitPreheat, MovesOn
<1> QED BY <1>1, <1>2, <1>3, <1>4, <1>5, <1>6, <1>7, <1>8, <1>9, <1>10, <1>11,
           <1>12, <1>13, <1>14, <1>15, <1>16, <1>17, <1>18, <1>19, <1>20, <1>21,
           <1>22, <1>23, <1>24, <1>25, <1>26, <1>27, <1>28, <1>29, <1>30, Zenon
        DEF Request

\* It changes nothing of the other requests, and of a rescuer only that its
\* transaction may be outbid in a pool.
LEMMA RequestSpares ==
  ASSUME IInv, NEW r \in Requests, Request(r)
  PROVE  /\ Untouched(Requests \ {r})
         /\ \A x \in Rescuers :
              pc'[x] = pc[x] /\ got'[x] = got[x] /\ nonce'[x] = nonce[x]
         /\ mined' = mined
<1> USE ProcessesAreDisjoint
    DEF IInv, TypeInv, Untouched, At, Goto, Finish, SetCtx, Plain, Processes,
      Senders, network, Holds, Live
<1>1. CASE Sign(r)
  BY <1>1 DEF Sign, TakeNonce
<1>2. CASE Preheat(r)
  BY <1>2 DEF Preheat, TakeNonce
<1>3. CASE PreheatWarmupOnly(r)
  BY <1>3 DEF PreheatWarmupOnly
<1>4. CASE MarkUsed(r)
  BY <1>4 DEF MarkUsed
<1>5. CASE BindNonce(r)
  BY <1>5 DEF BindNonce, TakeNonce
<1>6. CASE SignOk(r)
  BY <1>6 DEF SignOk
<1>7. CASE SignFails(r)
  BY <1>7 DEF SignFails
<1>8. CASE SignWithPreheatFails(r)
  BY <1>8 DEF SignWithPreheatFails, ReleaseReservation
<1>9. CASE CancelPreheat(r)
  BY <1>9 DEF CancelPreheat, ReleaseReservation
<1>10. CASE ReleasePreheat(r)
  BY <1>10 DEF ReleasePreheat, ReleaseReservation
<1>11. CASE SendSigned(r)
  BY <1>11 DEF SendSigned
<1>12. CASE SendWithPreheat(r)
  BY <1>12 DEF SendWithPreheat
<1>13. CASE SendReleasedPreheat(r)
  BY <1>13 DEF SendReleasedPreheat
<1>14. CASE Broadcast(r)
  BY <1>14 DEF Broadcast
<1>15. CASE PermitTimesOut(r)
  BY <1>15 DEF PermitTimesOut
<1>16. CASE ReplyOk(r)
  BY <1>16 DEF ReplyOk, Enters
<1>17. CASE ReplyDefinitive(r)
  BY <1>17 DEF ReplyDefinitive
<1>18. CASE ReplyAmbiguous(r)
  BY <1>18 DEF ReplyAmbiguous
<1>19. CASE ReplyTooLow(r)
  BY <1>19 DEF ReplyTooLow
<1>20. CASE ReplyTooHigh(r)
  BY <1>20 DEF ReplyTooHigh
<1>21. CASE Accepted(r)
  BY <1>21 DEF Accepted
<1>22. CASE Recycle(r)
  BY <1>22 DEF Recycle
<1>23. CASE RecycleNothing(r)
  BY <1>23 DEF RecycleNothing
<1>24. CASE MarkReleased(r)
  BY <1>24 DEF MarkReleased
<1>25. CASE VerifyBroadcast(r)
  BY <1>25 DEF VerifyBroadcast, calls
<1>26. CASE MarkMined(r)
  BY <1>26 DEF MarkMined
<1>27. CASE ReleaseNonce(r)
  BY <1>27 DEF ReleaseNonce
<1>28. CASE MarkPreheatBroadcasting(r)
  BY <1>28 DEF MarkPreheatBroadcasting
<1>29. CASE SendElsewhere(r)
  BY <1>29 DEF SendElsewhere
<1>30. CASE CommitPreheat(r)
  BY <1>30 DEF CommitPreheat
<1> QED BY <1>1, <1>2, <1>3, <1>4, <1>5, <1>6, <1>7, <1>8, <1>9, <1>10, <1>11,
           <1>12, <1>13, <1>14, <1>15, <1>16, <1>17, <1>18, <1>19, <1>20, <1>21,
           <1>22, <1>23, <1>24, <1>25, <1>26, <1>27, <1>28, <1>29, <1>30, Zenon
        DEF Request
-----------------------------------------------------------------------------
(* Steps of a request keep the invariant *)

LEMMA RequestKeepsTypes ==
  ASSUME IInv, NEW r \in Requests, Request(r)
  PROVE  TypeInv' /\ ContextInv' /\ LiveInv'
<1>0. TrackerOK(tr')
  <2>1. TrackerOK(tr)
    BY DEF IInv, TypeInv
  <2>2. CASE TakesNonce(r)
    BY <2>1, <2>2, ReserveTakes DEF TakesNonce
  <2>3. CASE GivesNonceBack(r)
    <3>1. nonce[r] \in Nat
      BY <2>3 DEF GivesNonceBack, IInv, ClaimInv, Claimed
    <3> QED BY <2>1, <2>3, <3>1, RecycleFrees DEF GivesNonceBack
  <2>4. CASE MovesOn(r)
    BY <2>1, <2>4 DEF MovesOn
  <2> QED BY <2>2, <2>3, <2>4, RequestEffect
<1>n. next_nonce(tr) \in Nat
  BY ReserveTakes DEF IInv, TypeInv
<1>p. IsFiniteSet({y \in pool : nonce[y] # nonce[r]} \cup {r})
  <2>1. IsFiniteSet({y \in pool : nonce[y] # nonce[r]})
    BY FS_Subset DEF IInv, TypeInv
  <2> QED BY <2>1, FS_AddElement
<1> USE <1>0, <1>n
    DEF IInv, TypeInv, ContextInv, LiveInv, NotLivePoints, AllPoints, Points,
      ContextStates, At, Goto, Finish, SetCtx, Plain, Processes, Senders, network, Live
<1>1. CASE Sign(r)
  BY <1>1 DEF Sign, TakeNonce
<1>2. CASE Preheat(r)
  BY <1>2 DEF Preheat, TakeNonce
<1>3. CASE PreheatWarmupOnly(r)
  BY <1>3 DEF PreheatWarmupOnly
<1>4. CASE MarkUsed(r)
  BY <1>4 DEF MarkUsed
<1>5. CASE BindNonce(r)
  BY <1>5 DEF BindNonce, TakeNonce
<1>6. CASE SignOk(r)
  BY <1>6 DEF SignOk
<1>7. CASE SignFails(r)
  BY <1>7 DEF SignFails
<1>8. CASE SignWithPreheatFails(r)
  BY <1>8 DEF SignWithPreheatFails, ReleaseReservation
<1>9. CASE CancelPreheat(r)
  BY <1>9 DEF CancelPreheat, ReleaseReservation
<1>10. CASE ReleasePreheat(r)
  BY <1>10 DEF ReleasePreheat, ReleaseReservation
<1>11. CASE SendSigned(r)
  BY <1>11 DEF SendSigned
<1>12. CASE SendWithPreheat(r)
  BY <1>12 DEF SendWithPreheat
<1>13. CASE SendReleasedPreheat(r)
  BY <1>13 DEF SendReleasedPreheat
<1>14. CASE Broadcast(r)
  BY <1>14 DEF Broadcast
<1>15. CASE PermitTimesOut(r)
  BY <1>15 DEF PermitTimesOut
<1>16. CASE ReplyOk(r)
  BY <1>16, <1>p DEF ReplyOk, Enters
<1>17. CASE ReplyDefinitive(r)
  BY <1>17 DEF ReplyDefinitive
<1>18. CASE ReplyAmbiguous(r)
  BY <1>18 DEF ReplyAmbiguous
<1>19. CASE ReplyTooLow(r)
  BY <1>19 DEF ReplyTooLow
<1>20. CASE ReplyTooHigh(r)
  BY <1>20 DEF ReplyTooHigh
<1>21. CASE Accepted(r)
  BY <1>21 DEF Accepted
<1>22. CASE Recycle(r)
  BY <1>22 DEF Recycle
<1>23. CASE RecycleNothing(r)
  BY <1>23 DEF RecycleNothing
<1>24. CASE MarkReleased(r)
  BY <1>24 DEF MarkReleased
<1>25. CASE VerifyBroadcast(r)
  BY <1>25 DEF VerifyBroadcast, calls
<1>26. CASE MarkMined(r)
  BY <1>26 DEF MarkMined
<1>27. CASE ReleaseNonce(r)
  BY <1>27 DEF ReleaseNonce
<1>28. CASE MarkPreheatBroadcasting(r)
  BY <1>28 DEF MarkPreheatBroadcasting
<1>29. CASE SendElsewhere(r)
  BY <1>29 DEF SendElsewhere
<1>30. CASE CommitPreheat(r)
  BY <1>30 DEF CommitPreheat
<1> QED BY <1>1, <1>2, <1>3, <1>4, <1>5, <1>6, <1>7, <1>8, <1>9, <1>10, <1>11,
           <1>12, <1>13, <1>14, <1>15, <1>16, <1>17, <1>18, <1>19, <1>20, <1>21,
           <1>22, <1>23, <1>24, <1>25, <1>26, <1>27, <1>28, <1>29, <1>30, Zenon
        DEF Request

\* A step that makes no claim and frees no claimed nonce keeps the claims apart.
LEMMA ClaimsKept ==
  ASSUME ClaimInv, DistinctInv,
         \A x \in Requests : Claimed(x)' =>
           /\ Claimed(x) /\ nonce'[x] = nonce[x]
           /\ FreeIn(tr', nonce[x]) => FreeIn(tr, nonce[x])
  PROVE  ClaimInv' /\ DistinctInv'
<1>1. ClaimInv'
  <2> SUFFICES ASSUME NEW x \in Requests, Claimed(x)'
               PROVE  nonce'[x] \in Nat /\ ~FreeIn(tr', nonce'[x])
    BY DEF ClaimInv
  <2> QED BY DEF ClaimInv
<1>2. DistinctInv'
  <2> SUFFICES ASSUME NEW x \in Requests, NEW y \in Requests, x # y,
                      Claimed(x)', Claimed(y)'
               PROVE  nonce'[x] # nonce'[y]
    BY DEF DistinctInv
  <2> QED BY DEF DistinctInv
<1> QED BY <1>1, <1>2

LEMMA RequestKeepsClaims ==
  ASSUME IInv, NEW r \in Requests, Request(r)
  PROVE  ClaimInv' /\ DistinctInv'
<1>1. TrackerOK(tr) /\ ClaimInv /\ DistinctInv
  BY DEF IInv, TypeInv
<1>2. \A x \in Requests \ {r} : nonce'[x] = nonce[x] /\ (Claimed(x)' => Claimed(x))
  BY RequestSpares DEF Untouched, Claimed
<1>3. CASE TakesNonce(r)
  <2> DEFINE m == next_nonce(tr)
  <2>1. /\ m \in Nat /\ FreeIn(tr, m)
        /\ \A n \in Nat : FreeIn(tr', n) <=> FreeIn(tr, n) /\ n # m
    BY <1>1, <1>3, ReserveTakes DEF TakesNonce
  <2> HIDE DEF m
  <2>2. nonce'[r] = m
    BY <1>3 DEF TakesNonce, m
  <2>3. \A x \in Requests \ {r} : Claimed(x)' =>
          nonce'[x] \in Nat /\ nonce'[x] # m /\ ~FreeIn(tr', nonce'[x])
    BY <1>1, <1>2, <2>1 DEF ClaimInv
  <2>4. ClaimInv'
    <3> SUFFICES ASSUME NEW x \in Requests, Claimed(x)'
                 PROVE  nonce'[x] \in Nat /\ ~FreeIn(tr', nonce'[x])
      BY DEF ClaimInv
    <3> QED BY <2>1, <2>2, <2>3
  <2>5. DistinctInv'
    <3> SUFFICES ASSUME NEW x \in Requests, NEW y \in Requests, x # y,
                        Claimed(x)', Claimed(y)'
                 PROVE  nonce'[x] # nonce'[y]
      BY DEF DistinctInv
    <3> QED BY <1>1, <1>2, <2>2, <2>3 DEF DistinctInv
  <2> QED BY <2>4, <2>5
<1>4. CASE GivesNonceBack(r)
  <2>1. nonce[r] \in Nat /\ Claimed(r)
    BY <1>1, <1>4 DEF GivesNonceBack, ClaimInv, Claimed
  <2>2. \A k \in Nat : FreeIn(tr', k) => FreeIn(tr, k) \/ k = nonce[r]
    BY <1>1, <1>4, <2>1, RecycleFrees DEF GivesNonceBack
  <2>3. ASSUME NEW x \in Requests, Claimed(x)'
        PROVE  /\ Claimed(x) /\ nonce'[x] = nonce[x]
               /\ FreeIn(tr', nonce[x]) => FreeIn(tr, nonce[x])
    <3>1. x # r
      BY <1>4, <2>3 DEF GivesNonceBack, Claimed
    <3>2. Claimed(x) /\ nonce'[x] = nonce[x]
      BY <1>2, <2>3, <3>1
    <3>3. nonce[x] \in Nat /\ nonce[x] # nonce[r]
      BY <1>1, <2>1, <3>1, <3>2 DEF ClaimInv, DistinctInv
    <3> QED BY <2>2, <3>2, <3>3
  <2> QED BY <1>1, <2>3, ClaimsKept
<1>5. CASE MovesOn(r)
  <2>1. \A x \in Requests : Claimed(x)' =>
          /\ Claimed(x) /\ nonce'[x] = nonce[x]
          /\ FreeIn(tr', nonce[x]) => FreeIn(tr, nonce[x])
    BY <1>2, <1>5 DEF MovesOn, Claimed
  <2> QED BY <1>1, <2>1, ClaimsKept
<1> QED BY <1>3, <1>4, <1>5, RequestEffect

LEMMA RequestKeepsHead ==
  ASSUME IInv, NEW r \in Requests, Request(r)
  PROVE  MinedInv' /\ HeadInv'
<1>1. mined' = mined /\ latest' = latest
  BY RequestSpares DEF latest
<1>2. MinedInv'
  <2> SUFFICES ASSUME NEW x \in mined \cap Requests
               PROVE  nonce'[x] = nonce[x]
    BY <1>1 DEF MinedInv, IInv
  <2>1. CASE x = r
    <3>1. Live(r)'
      BY <1>1, <2>1 DEF Live
    <3> QED BY <2>1, <3>1, RequestEffect DEF TakesNonce, GivesNonceBack, MovesOn
  <2>2. CASE x # r
    BY <2>2, RequestSpares DEF Untouched
  <2> QED BY <2>1, <2>2
<1>3. HeadInv'
  BY <1>1, RequestSpares DEF HeadInv, IInv
<1> QED BY <1>2, <1>3

LEMMA RequestKeeps ==
  ASSUME IInv, NEW r \in Requests, Request(r)
  PROVE  IInv'
BY RequestKeepsTypes, RequestKeepsClaims, RequestKeepsHead DEF IInv
-----------------------------------------------------------------------------
(* The other steps.  None of them gives a request a claim. *)

\* The network moves bytes on, and forgets some; it never makes bytes appear.
LEMMA NetworkKeeps ==
  ASSUME IInv, Network
  PROVE  IInv' /\ UNCHANGED <<tr, calls>> /\ Untouched(Requests)
<1> PICK x \in Senders : Arrive(x) \/ Lose(x) \/ Evict(x) \/ Mine(x)
  BY DEF Network
<1>1. UNCHANGED <<tr, calls>>
  BY DEF Arrive, Lose, Evict, Mine
<1>2. \A y : Live(y)' => Live(y)
  BY DEF Live, Arrive, Lose, Evict, Mine, Enters
<1>3. \A r \in Requests : Holds(r)' <=> Holds(r)
  BY <1>1 DEF calls, Holds, Plain
<1>4. IsFiniteSet(pool') /\ IsFiniteSet(mined') /\ mined \subseteq mined'
  <2>0. IsFiniteSet(pool) /\ IsFiniteSet(mined)
    BY DEF IInv, TypeInv
  <2>1. CASE Arrive(x)
    <3>1. IsFiniteSet({y \in pool : nonce[y] # nonce[x]})
      BY <2>0, FS_Subset
    <3> QED BY <2>0, <2>1, <3>1, FS_AddElement DEF Arrive, Enters
  <2>2. CASE Lose(x)
    BY <2>0, <2>2 DEF Lose
  <2>3. CASE Evict(x)
    BY <2>0, <2>3, FS_RemoveElement DEF Evict
  <2>4. CASE Mine(x)
    BY <2>0, <2>4, FS_RemoveElement, FS_AddElement DEF Mine
  <2> QED BY <2>1, <2>2, <2>3, <2>4
<1>5. latest \in Nat /\ latest' \in Nat /\ latest <= latest'
      /\ (Mine(x) /\ x \notin mined => latest' = latest + 1)
  <2>1. Cardinality(mined) \in Nat /\ Cardinality(mined') \in Nat
        /\ Cardinality(mined) <= Cardinality(mined')
    BY <1>4, FS_CardinalityType, FS_Subset
  <2>2. Mine(x) /\ x \notin mined => Cardinality(mined') = Cardinality(mined) + 1
    BY FS_AddElement DEF Mine, IInv, TypeInv
  <2> QED BY <2>1, <2>2, WalletBounds DEF latest
<1>6. TypeInv'
  BY <1>1, <1>4 DEF TypeInv, IInv, calls
<1>7. ContextInv'
  BY <1>1 DEF ContextInv, IInv, calls
<1>8. LiveInv'
  BY <1>1 DEF LiveInv, IInv, calls, NotLivePoints, Live, Arrive, Lose, Evict, Mine,
     Enters, Answered
<1>9. ClaimInv' /\ DistinctInv'
  BY <1>1, <1>2, <1>3, ClaimsKept DEF IInv, Claimed, calls
<1>10. MinedInv'
  <2> SUFFICES ASSUME NEW y \in mined' \cap Requests
               PROVE  nonce[y] \in Nat /\ nonce[y] < latest'
    BY <1>1 DEF MinedInv, calls
  <2>1. CASE y \in mined
    BY <1>5, <2>1 DEF MinedInv, IInv
  <2>2. CASE y \notin mined
    <3>1. Mine(x) /\ y = x
      BY <2>2 DEF Arrive, Lose, Evict, Mine, Enters
    <3> QED BY <1>5, <2>2, <3>1 DEF Mine
  <2> QED BY <2>1, <2>2
<1>11. HeadInv'
  <2> SUFFICES ASSUME NEW y \in Rescuers
               PROVE  /\ pc[y] \in {"gate", "fees"} => got[y] <= latest'
                      /\ pc[y] \in {"cancelling", "cancelled", "recorded"} =>
                           nonce[y] \in Nat /\ nonce[y] <= latest'
    BY <1>1 DEF HeadInv, calls
  <2>1. got[y] \in Nat
    BY DEF IInv, TypeInv, Processes
  <2> QED BY <1>5, <2>1 DEF HeadInv, IInv
<1> QED BY <1>1, <1>2, <1>3, <1>6, <1>7, <1>8, <1>9, <1>10, <1>11
        DEF IInv, Untouched, calls

\* The invariant is not about the ledger.
LEMMA LedgerStepKeeps ==
  ASSUME IInv, UNCHANGED <<tr, pc, nonce, ctx, got, network>>
  PROVE  IInv' /\ Untouched(Requests)
<1> USE DEF network
<1>1. \A r \in Requests : (Live(r)' <=> Live(r)) /\ (Holds(r)' <=> Holds(r))
  BY DEF Live, Holds, Plain
<1>2. latest' = latest
  BY DEF latest
<1>3. TypeInv' /\ ContextInv' /\ LiveInv'
  BY <1>1 DEF IInv, TypeInv, ContextInv, LiveInv
<1>4. ClaimInv' /\ DistinctInv'
  BY <1>1, ClaimsKept DEF IInv, Claimed
<1>5. MinedInv' /\ HeadInv'
  BY <1>2 DEF IInv, MinedInv, HeadInv
<1> QED BY <1>1, <1>3, <1>4, <1>5 DEF IInv, Untouched

\* What a synchronisation read may be old when it is applied: it only ever moves
\* the tracker forward.
LEMMA SyncKeeps ==
  ASSUME IInv, NEW p \in Processes,
         Sync(p) \/ (p \in Syncers /\ Syncer(p))
  PROVE  /\ IInv' /\ Untouched(Requests)
         /\ tr' = tr \/ \E c \in Nat : tr' = forward(tr, c)
<1>1. latest \in Nat /\ pending \in Nat
  BY LatestIsNat, PendingIsNat DEF IInv, TypeInv
<1>2. UNCHANGED <<nonce, ctx, network>>
  BY DEF Sync, SyncRead, SyncReadFails, SyncApply, SyncPrune, Syncer, SyncCall,
     HealthCheck, SelfCheck, SelfCheckSync
<1>3. \E there \in AllPoints :
        /\ pc' = [pc EXCEPT ![p] = there]
        /\ there \notin {"marked", "waiting", "sending", "allocated", "signed", "refused"}
             \cup NotLivePoints
        /\ there \notin {"gate", "fees", "cancelling", "cancelled", "recorded"}
  BY DEF Sync, SyncRead, SyncReadFails, SyncApply, SyncPrune, Syncer, SyncCall,
     HealthCheck, SelfCheck, SelfCheckSync, Goto, Finish,
     AllPoints, Points, NotLivePoints
<1>4. pc[p] \in {"new", "read_latest", "read_pending", "apply", "prune", "checked"}
      /\ (p \in Requests => pc[p] # "new")
  BY ProcessesAreDisjoint DEF Sync, SyncRead, SyncReadFails, SyncApply, SyncPrune, Syncer, SyncCall,
     HealthCheck, SelfCheck, SelfCheckSync, At
<1>5. got' \in [Processes -> Nat] /\ \A q \in Processes \ {p} : got'[q] = got[q]
  BY <1>1 DEF IInv, TypeInv, Sync, SyncRead, SyncReadFails, SyncApply, SyncPrune, Syncer, SyncCall,
     HealthCheck, SelfCheck, SelfCheckSync
<1>6. tr' = tr \/ \E c \in Nat : tr' = forward(tr, c)
  <2>1. got[p] \in Nat
    BY DEF IInv, TypeInv
  <2> QED BY <2>1 DEF Sync, SyncRead, SyncReadFails, SyncApply, SyncPrune, Syncer, SyncCall,
     HealthCheck, SelfCheck, SelfCheckSync
<1>7. TrackerOK(tr') /\ \A k \in Nat : FreeIn(tr', k) => FreeIn(tr, k)
  BY <1>6, ForwardFreesNothing DEF IInv, TypeInv
<1>8. pc' \in [Processes -> AllPoints]
  BY <1>3 DEF IInv, TypeInv
<1>9. \A r \in Requests : (Live(r)' <=> Live(r)) /\ (Holds(r)' <=> Holds(r))
  BY <1>2, <1>3, <1>4 DEF IInv, TypeInv, ContextInv, Live, Holds, Plain, network,
     Processes
<1>10. latest' = latest
  BY <1>2 DEF latest, network
<1>11. TypeInv'
  BY <1>2, <1>5, <1>7, <1>8 DEF IInv, TypeInv, network
<1>12. ContextInv'
  BY <1>2, <1>3, <1>4 DEF IInv, TypeInv, ContextInv, NotLivePoints, Processes
<1>13. LiveInv'
  BY <1>2, <1>3, <1>9 DEF IInv, TypeInv, LiveInv, NotLivePoints, network, Processes
<1>14. ClaimInv' /\ DistinctInv'
  <2>1. \A x \in Requests : Claimed(x)' =>
          /\ Claimed(x) /\ nonce'[x] = nonce[x]
          /\ FreeIn(tr', nonce[x]) => FreeIn(tr, nonce[x])
    BY <1>2, <1>7, <1>9 DEF IInv, ClaimInv, Claimed
  <2> QED BY <2>1, ClaimsKept DEF IInv
<1>15. MinedInv'
  BY <1>2, <1>10 DEF IInv, MinedInv, network
<1>16. HeadInv'
  <2> SUFFICES ASSUME NEW x \in Rescuers
               PROVE  /\ pc'[x] \in {"gate", "fees"} => got'[x] <= latest
                      /\ pc'[x] \in {"cancelling", "cancelled", "recorded"} =>
                           nonce[x] \in Nat /\ nonce[x] <= latest
    BY <1>2, <1>10 DEF HeadInv
  <2>1. CASE x = p
    BY <1>3, <2>1 DEF IInv, TypeInv, Processes
  <2>2. CASE x # p
    BY <1>3, <1>5, <2>2 DEF IInv, TypeInv, HeadInv, Processes
  <2> QED BY <2>1, <2>2
<1> QED BY <1>2, <1>6, <1>9, <1>11, <1>12, <1>13, <1>14, <1>15, <1>16
        DEF IInv, Untouched

LEMMA WalletStepKeeps == IInv /\ [Next]_vars => IInv'
<1> SUFFICES ASSUME IInv, [Next]_vars PROVE IInv'
  OBVIOUS
<1>1. CASE \E r \in Requests : Request(r)
  BY <1>1, RequestKeeps
<1>2. CASE \E n \in unmarked : ReleasePreheatMark(n)
  BY <1>2, LedgerStepKeeps DEF ReleasePreheatMark
<1>3. CASE \E s \in Syncers : Syncer(s)
  BY <1>3, SyncKeeps DEF Processes
<1>4. CASE \E p \in Processes : Sync(p)
  BY <1>4, SyncKeeps
<1>5. CASE Network
  BY <1>5, NetworkKeeps
<1>6. CASE UNCHANGED vars
  BY <1>6, LedgerStepKeeps DEF vars, calls
<1> QED BY <1>1, <1>2, <1>3, <1>4, <1>5, <1>6 DEF Next
-----------------------------------------------------------------------------
(* The steps of StallRecovery *)

\* A rescuer touches no request, except that its transaction may push one out of
\* a pool; and what it cancels is a nonce the chain has confirmed to wait for.
LEMMA RescueKeeps ==
  ASSUME IInv, NEW x \in Rescuers, Rescue(x)
  PROVE  IInv' /\ Untouched(Requests)
<1> USE DEF IInv, TypeInv
<1>1. latest \in Nat /\ pending \in Nat
  BY LatestIsNat, PendingIsNat
<1>2. UNCHANGED <<tr, ctx, mined>> /\ latest' = latest
  BY DEF Rescue, ReplaceStalled, ConfirmLatest, Gate, AbortCancel, Cancel, Resend,
     ReplacementOk, ReplacementFails, RecordReplacement, MarkReplacement, CallAgain,
     SendReplacement, Enters, network, latest
<1>3. \E there \in AllPoints : pc' = [pc EXCEPT ![x] = there]
  <2>1. \E there \in {"new", "confirm", "gate", "fees", "cancelling", "cancelled",
                     "recorded", "resending", "resent", "rerecorded", "done"} :
          Goto(x, there)
    BY DEF Rescue, ReplaceStalled, ConfirmLatest, Gate, AbortCancel, Cancel, Resend,
       ReplacementOk, ReplacementFails, RecordReplacement, MarkReplacement, CallAgain
  <2> QED BY <2>1 DEF Goto, AllPoints, Points
<1>4. /\ got' \in [Processes -> Nat]
      /\ \A y \in Processes \ {x} : got'[y] = got[y]
  BY <1>1 DEF Rescue, ReplaceStalled, ConfirmLatest, Gate, AbortCancel, Cancel, Resend,
     ReplacementOk, ReplacementFails, RecordReplacement, MarkReplacement, CallAgain,
     SendReplacement
<1>5. /\ nonce' \in [Senders -> Nat \cup {None}]
      /\ \A y \in Senders \ {x} : nonce'[y] = nonce[y]
  <2>1. CASE Cancel(x)
    BY <2>1 DEF Cancel, SendReplacement, Senders, Processes
  <2>2. CASE Resend(x)
    BY <2>2 DEF Resend, SendReplacement, Senders
  <2>3. CASE CallAgain(x)
    BY <2>3 DEF CallAgain, Senders
  <2>4. CASE ~(Cancel(x) \/ Resend(x) \/ CallAgain(x))
    BY <2>4 DEF Rescue, ReplaceStalled, ConfirmLatest, Gate, AbortCancel,
       ReplacementOk, ReplacementFails, RecordReplacement, MarkReplacement
  <2> QED BY <2>1, <2>2, <2>3, <2>4
<1>6. /\ wire' \subseteq wire \cup {x} /\ pool' \subseteq pool \cup {x}
  BY DEF Rescue, ReplaceStalled, ConfirmLatest, Gate, AbortCancel, Cancel, Resend,
     ReplacementOk, ReplacementFails, RecordReplacement, MarkReplacement, CallAgain,
     SendReplacement, Enters, network
<1>7. IsFiniteSet(pool')
  BY <1>6, FS_AddElement, FS_Subset
<1>8. \A r \in Requests : r # x /\ r \in Processes /\ r \in Senders
  BY ProcessesAreDisjoint DEF Processes, Senders
<1>9. \A r \in Requests :
        /\ pc'[r] = pc[r] /\ ctx'[r] = ctx[r] /\ nonce'[r] = nonce[r]
        /\ (Holds(r)' <=> Holds(r)) /\ (Live(r)' => Live(r))
  <2>1. \A r \in Requests :
          pc'[r] = pc[r] /\ ctx'[r] = ctx[r] /\ nonce'[r] = nonce[r]
    BY <1>2, <1>3, <1>5, <1>8
  <2> QED BY <1>2, <1>6, <1>8, <2>1 DEF Holds, Live, Plain
<1>10. TypeInv'
  BY <1>2, <1>3, <1>4, <1>5, <1>7
<1>11. ContextInv' /\ LiveInv'
  BY <1>2, <1>6, <1>8, <1>9 DEF ContextInv, LiveInv
<1>12. ClaimInv' /\ DistinctInv'
  BY <1>2, <1>9, ClaimsKept DEF Claimed
<1>13. MinedInv'
  BY <1>2, <1>9 DEF MinedInv
<1>14. HeadInv'
  <2> SUFFICES ASSUME NEW y \in Rescuers
               PROVE  /\ pc'[y] \in {"gate", "fees"} => got'[y] <= latest
                      /\ pc'[y] \in {"cancelling", "cancelled", "recorded"} =>
                           nonce'[y] \in Nat /\ nonce'[y] <= latest
    BY <1>2 DEF HeadInv
  <2>1. CASE y # x
    BY <1>3, <1>4, <1>5, <2>1 DEF HeadInv, Processes, Senders
  <2>2. CASE y = x
    <3> USE <1>1, <2>2 DEF HeadInv, Processes, Senders, At, Goto
    <3>1. CASE ReplaceStalled(x, latest) \/ ReplaceStalled(x, pending)
      BY <3>1 DEF ReplaceStalled
    <3>2. CASE ConfirmLatest(x)
      BY <3>2 DEF ConfirmLatest
    <3>3. CASE Gate(x)
      BY <3>3 DEF Gate
    <3>4. CASE AbortCancel(x)
      BY <3>4 DEF AbortCancel
    <3>5. CASE Cancel(x)
      BY <3>5 DEF Cancel, SendReplacement
    <3>6. CASE Resend(x)
      BY <3>6 DEF Resend, SendReplacement
    <3>7. CASE ReplacementOk(x)
      BY <3>7 DEF ReplacementOk
    <3>8. CASE ReplacementFails(x)
      BY <3>8 DEF ReplacementFails
    <3>9. CASE RecordReplacement(x)
      BY <3>9 DEF RecordReplacement
    <3>10. CASE MarkReplacement(x)
      BY <3>10 DEF MarkReplacement
    <3>11. CASE CallAgain(x)
      BY <3>11 DEF CallAgain
    <3> QED BY <3>1, <3>2, <3>3, <3>4, <3>5, <3>6, <3>7, <3>8, <3>9, <3>10, <3>11
            DEF Rescue
  <2> QED BY <2>1, <2>2
<1> QED BY <1>9, <1>10, <1>11, <1>12, <1>13, <1>14 DEF Untouched

\* recover_stalled frees every nonce from the chain's on.  Its precondition leaves
\* claims only on what is mined, and that is below.
LEMMA RecoverKeeps ==
  ASSUME IInv, recover_stalled
  PROVE  IInv' /\ Untouched(Requests)
<1>1. UNCHANGED <<calls, network>> /\ latest' = latest
  BY DEF recover_stalled, latest, network
<1>2. latest \in Nat /\ TrackerOK(tr)
  BY LatestIsNat DEF IInv, TypeInv
<1>3. tr' = rewind(tr, latest)
  BY DEF recover_stalled
<1>4. TrackerOK(tr') /\ \A k \in Nat : FreeIn(tr', k) => FreeIn(tr, k) \/ k >= latest
  BY <1>2, <1>3, RewindFrees
<1>5. \A r \in Requests : (Live(r)' <=> Live(r)) /\ (Holds(r)' <=> Holds(r))
  BY <1>1 DEF Live, Holds, Plain, calls, network
<1>6. \A r \in Requests : Claimed(r) => r \in mined
  BY DEF recover_stalled, Claimed, Holds, IInv, ContextInv, Processes, Senders
<1>7. ClaimInv' /\ DistinctInv'
  <2>1. ASSUME NEW r \in Requests, Claimed(r)'
        PROVE  /\ Claimed(r) /\ nonce'[r] = nonce[r]
               /\ FreeIn(tr', nonce[r]) => FreeIn(tr, nonce[r])
    <3>1. Claimed(r) /\ r \in mined
      BY <1>5, <1>6, <2>1 DEF Claimed
    <3>2. nonce[r] \in Nat /\ nonce[r] < latest
      BY <3>1 DEF IInv, MinedInv
    <3> QED BY <1>1, <1>2, <1>4, <3>1, <3>2 DEF calls
  <2> QED BY <2>1, ClaimsKept DEF IInv
<1>8. TypeInv' /\ ContextInv' /\ LiveInv'
  BY <1>1, <1>4, <1>5 DEF IInv, TypeInv, ContextInv, LiveInv, calls, network
<1>9. MinedInv' /\ HeadInv'
  BY <1>1 DEF IInv, MinedInv, HeadInv, calls, network
<1> QED BY <1>1, <1>5, <1>7, <1>8, <1>9 DEF IInv, Untouched, calls

LEMMA StallStepKeeps == IInv /\ [StallNext]_stallVars => IInv'
<1> SUFFICES ASSUME IInv, [StallNext]_stallVars PROVE IInv'
  OBVIOUS
<1>1. CASE WalletStep
  <2>1. Next
    BY <1>1 DEF WalletStep, Next, StallNetwork, Network
  <2> QED BY <2>1, WalletStepKeeps
<1>2. CASE \E x \in Rescuers : Rescue(x)
  BY <1>2, RescueKeeps
<1>3. CASE recover_stalled
  BY <1>3, RecoverKeeps
<1>4. CASE Tick
  BY <1>4, LedgerStepKeeps DEF Tick, calls
<1>5. CASE UNCHANGED stallVars
  BY <1>5, LedgerStepKeeps DEF stallVars, vars, calls
<1> QED BY <1>1, <1>2, <1>3, <1>4, <1>5 DEF StallNext
-----------------------------------------------------------------------------
(* What the invariant gives *)

\* IInv is an inductive invariant of the send paths alone ...
THEOREM WalletInvariance == Spec => []IInv
<1>1. Init => IInv
  BY InitHolds
<1>2. IInv /\ [Next]_vars => IInv'
  BY WalletStepKeeps
<1> QED BY <1>1, <1>2, PTL DEF Spec

\* ... and of the send paths with cancels, re-sends, rewinds and time.
THEOREM StallInvariance == StallSpec => []IInv
<1>1. StallInit => IInv
  BY InitHolds DEF StallInit
<1>2. IInv /\ [StallNext]_stallVars => IInv'
  BY StallStepKeeps
<1> QED BY <1>1, <1>2, PTL DEF StallSpec

LEMMA ClaimsAreExclusive == IInv => OneClaimPerNonce
<1> SUFFICES ASSUME IInv PROVE OneClaimPerNonce
  OBVIOUS
<1>1. \A x \in Requests : \A n : Claims(x, n) <=> nonce[x] = n /\ Claimed(x)
  BY DEF Claims, Claimed
<1>2. \A x, y \in Requests : x # y /\ Claims(x, nonce[x]) => ~Claims(y, nonce[x])
  BY <1>1 DEF IInv, DistinctInv
<1>3. ASSUME NEW x \in Requests, Claims(x, nonce[x])
      PROVE  nonce[x] < tr.current /\ nonce[x] \notin tr.gaps
  <2>1. nonce[x] \in Nat /\ ~FreeIn(tr, nonce[x]) /\ tr.current \in Nat
    BY <1>1, <1>3 DEF IInv, ClaimInv, TypeInv, TrackerOK
  <2> QED BY <2>1 DEF FreeIn
<1> QED BY <1>2, <1>3 DEF OneClaimPerNonce

\* Whatever the endpoints answer and whoever releases, syncs, shares a context or
\* gives up in between, two requests never have a claim on one nonce
\* (nonce.rs and every send path of wallet.rs).
THEOREM SendsNeverCollide == Spec => []OneClaimPerNonce
BY WalletInvariance, ClaimsAreExclusive, PTL

\* Nor when replace_stalled_nonce, verify_broadcast and recover_stalled run while
\* requests use the wallet.
THEOREM RecoveryNeverCollides == StallSpec => []OneClaimPerNonce
BY StallInvariance, ClaimsAreExclusive, PTL

\* replace_stalled_nonce awaits the chain, the ledger and the fees, and still only
\* cancels a nonce the chain has reached.
THEOREM CancelsStayAtTheHead == StallSpec => []CancelsAtTheHead
<1>1. IInv => CancelsAtTheHead
  BY DEF IInv, HeadInv, CancelsAtTheHead
<1> QED BY <1>1, StallInvariance, PTL
-----------------------------------------------------------------------------
(* The wallet uses its tracker as the atomic pool of NoncePool *)

\* Nobody holds n.
Unheld(n) == \A r \in Requests : Holds(r) => nonce[r] # n

LEMMA GoneIs ==
  ASSUME TrackerOK(tr)
  PROVE  \A n : n \in Gone <=> n \in Nat /\ ~FreeIn(tr, n) /\ Unheld(n)
BY DEF Gone, FreeIn, Unheld, TrackerOK

\* The same in the next state, unprimed where it can be.
LEMMA GoneIsNext ==
  ASSUME TrackerOK(tr')
  PROVE  \A n : n \in Gone' <=> n \in Nat /\ ~FreeIn(tr', n) /\ Unheld(n)'
BY DEF Gone, FreeIn, Unheld, TrackerOK

\* Steps that neither touch what requests hold nor free a nonce.
LEMMA UntouchedPasses ==
  ASSUME IInv, IInv', Untouched(Requests),
         tr' = tr \/ \E c \in Nat : tr' = forward(tr, c)
  PROVE  [Pool!Next]_Pool!vars
<1>1. TrackerOK(tr) /\ TrackerOK(tr')
  BY DEF IInv, TypeInv
<1>2. \A k \in Nat : FreeIn(tr', k) => FreeIn(tr, k)
  BY <1>1, ForwardFreesNothing
<1>3. Owned' = Owned /\ \A n : Unheld(n)' <=> Unheld(n)
  BY DEF Untouched, Owned, Unheld
<1>4. Gone \subseteq Gone'
  BY <1>1, <1>2, <1>3, GoneIs, GoneIsNext
<1>5. \A n \in Gone' \ Gone : Pool!Owners(n) = {}
  BY <1>1, <1>3, GoneIsNext DEF Pool!Owners, Owned, Unheld
<1> QED BY <1>3, <1>4, <1>5 DEF Pool!Next, Pool!Pass

\* A step of one request takes a free nonce, gives one up, or is invisible.
LEMMA RequestMaps ==
  ASSUME IInv, IInv', NEW r \in Requests, Request(r)
  PROVE  [Pool!Next]_Pool!vars
<1>1. TrackerOK(tr) /\ TrackerOK(tr')
  BY DEF IInv, TypeInv
<1>2. \A y \in Requests \ {r} : nonce'[y] = nonce[y] /\ (Holds(y)' <=> Holds(y))
  BY RequestSpares DEF Untouched
<1>3. \A n : n \in Gone <=> n \in Nat /\ ~FreeIn(tr, n) /\ Unheld(n)
  BY <1>1, GoneIs
<1>4. \A n : n \in Gone' <=> n \in Nat /\ ~FreeIn(tr', n) /\ Unheld(n)'
  BY <1>1, GoneIsNext
<1>5. CASE TakesNonce(r)
  <2> DEFINE m == next_nonce(tr)
  <2>1. /\ m \in Nat /\ FreeIn(tr, m)
        /\ \A n \in Nat : FreeIn(tr', n) <=> FreeIn(tr, n) /\ n # m
    BY <1>1, <1>5, ReserveTakes DEF TakesNonce
  <2> HIDE DEF m
  <2>2. nonce'[r] = m /\ ~Holds(r) /\ Holds(r)'
    BY <1>5 DEF TakesNonce, m
  <2>3. Owned[r] = {} /\ Owned' = [Owned EXCEPT ![r] = {m}]
    BY <1>2, <2>2 DEF Owned
  <2>4. \A n : Unheld(n)' <=> Unheld(n) /\ n # m
    BY <1>2, <2>2 DEF Unheld
  <2>5. Gone' = Gone
    <3>1. \A n : n \in Gone' <=> n \in Gone
      BY <1>3, <1>4, <2>1, <2>4
    <3> QED BY <3>1
  <2>6. \A y \in Requests : Holds(y) => nonce[y] # m
    BY <2>1 DEF IInv, ClaimInv, Claimed
  <2>7. Pool!Free(m)
    <3>1. m \notin Gone
      BY <1>3, <2>1
    <3> QED BY <2>6, <3>1 DEF Pool!Free, Pool!Owners, Owned
  <2>8. m \in Owned'[r]
    BY <2>3 DEF Owned
  <2>9. Pool!Take(r)
    BY <2>3, <2>5, <2>7, <2>8 DEF Pool!Take
  <2> QED BY <2>9 DEF Pool!Next
<1>6. ASSUME Holds(r), ~Holds(r)',
             \A k \in Nat : k # nonce[r] => (FreeIn(tr', k) <=> FreeIn(tr, k))
      PROVE  Pool!Next
  <2>1. Owned[r] = {nonce[r]} /\ Owned' = [Owned EXCEPT ![r] = {}]
    BY <1>2, <1>6 DEF Owned
  <2>2. \A n : n # nonce[r] => (Unheld(n)' <=> Unheld(n))
    BY <1>2, <1>6 DEF Unheld
  <2>3. \A n : n # nonce[r] => (n \in Gone' <=> n \in Gone)
    BY <1>3, <1>4, <1>6, <2>2
  <2>4. nonce[r] \notin Gone
    BY <1>3, <1>6 DEF Unheld
  <2>5. Gone' \in {Gone, Gone \cup Owned[r]}
    <3>1. CASE nonce[r] \in Gone'
      BY <2>1, <2>3, <3>1
    <3>2. CASE nonce[r] \notin Gone'
      BY <2>3, <2>4, <3>2
    <3> QED BY <3>1, <3>2
  <2>6. Pool!Yield(r)
    BY <2>1, <2>5 DEF Pool!Yield
  <2> QED BY <2>6 DEF Pool!Next
<1>7. CASE GivesNonceBack(r)
  <2>1. nonce[r] \in Nat
    BY <1>7 DEF GivesNonceBack, IInv, ClaimInv, Claimed
  <2>2. \A k \in Nat : k # nonce[r] => (FreeIn(tr', k) <=> FreeIn(tr, k))
    BY <1>1, <1>7, <2>1, RecycleFrees DEF GivesNonceBack
  <2> QED BY <1>6, <1>7, <2>2 DEF GivesNonceBack
<1>8. CASE MovesOn(r) /\ Holds(r) /\ ~Holds(r)'
  BY <1>6, <1>8 DEF MovesOn
<1>9. CASE MovesOn(r) /\ (Holds(r)' <=> Holds(r))
  <2>1. Owned' = Owned /\ \A n : Unheld(n)' <=> Unheld(n)
    BY <1>2, <1>9 DEF Owned, Unheld, MovesOn
  <2>2. Gone' = Gone
    <3>1. \A n : n \in Gone' <=> n \in Gone
      BY <1>3, <1>4, <1>9, <2>1 DEF MovesOn
    <3> QED BY <3>1
  <2> QED BY <2>1, <2>2 DEF Pool!vars
<1> QED BY <1>5, <1>7, <1>8, <1>9, RequestEffect DEF MovesOn

\* release by number (nonce_manager.release of the plain path) and guards alike:
\* the wallet never gives back a nonce twice, nor one it does not own.
THEOREM WalletImplementsPool == Spec => ImplementsPool
<1>1. Init => Pool!Init
  <2> SUFFICES ASSUME Init PROVE Pool!Init
    OBVIOUS
  <2>1. \A r \in Requests : ~Holds(r)
    BY DEF Init, Holds, Plain, Processes
  <2>2. tr.current = InitialNonce /\ tr.gaps = {}
    BY DEF Init, new
  <2> QED BY <2>1, <2>2 DEF Pool!Init, Owned, Gone
<1>2. IInv /\ IInv' /\ [Next]_vars => [Pool!Next]_Pool!vars
  <2> SUFFICES ASSUME IInv, IInv', [Next]_vars PROVE [Pool!Next]_Pool!vars
    OBVIOUS
  <2>1. CASE \E r \in Requests : Request(r)
    BY <2>1, RequestMaps
  <2>2. CASE \E n \in unmarked : ReleasePreheatMark(n)
    BY <2>2, LedgerStepKeeps, UntouchedPasses DEF ReleasePreheatMark
  <2>3. CASE \E s \in Syncers : Syncer(s)
    BY <2>3, SyncKeeps, UntouchedPasses DEF Processes
  <2>4. CASE \E p \in Processes : Sync(p)
    BY <2>4, SyncKeeps, UntouchedPasses
  <2>5. CASE Network
    BY <2>5, NetworkKeeps, UntouchedPasses
  <2>6. CASE UNCHANGED vars
    BY <2>6, LedgerStepKeeps, UntouchedPasses DEF vars, calls
  <2> QED BY <2>1, <2>2, <2>3, <2>4, <2>5, <2>6 DEF Next
<1> QED BY <1>1, <1>2, WalletInvariance, PTL DEF Spec, ImplementsPool, Pool!Spec
=============================================================================
