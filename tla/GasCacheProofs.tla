--------------------------- MODULE GasCacheProofs ---------------------------
(* Proofs about GasCache, for any tasks, durations, bounds and networks: how   *)
(* old a price may be, that getters share their requests, and how stale the    *)
(* background refresh leaves a price.                                          *)
EXTENDS GasCache, TLAPS

Entries == [stamp : 0 .. MaxAge, price : 0 .. MaxAge]
Points == {"idle", "lock", "fetch", "refresh"}

TypeInv ==
  /\ cache \in [Caches -> Entries \cup {None}]
  /\ holder \in [Caches -> Processes \cup {None}]
  /\ pc \in [Processes -> Points]
  /\ asked \in [Processes -> 0 .. MaxRtt]
  /\ next_tick \in Int \cup {None}
  /\ next_tick # None => next_tick <= Interval
  /\ faulty \in BOOLEAN

\* A price is older than its stamp by at most the round trip that brought it.
AgeInv ==
  \A c \in Caches : cache[c] # None => cache[c].price <= cache[c].stamp + MaxRtt

ReturnedInv == returned # None => returned \in Nat /\ returned < MaxCacheAge + MaxRtt

\* Who asks has the mutex.
MutexInv == \A p \in Getters : pc[p] = "fetch" => holder[Of(p)] = p

\* Between ticks, a cache whose getter is back was fresh at the last tick or has
\* been renewed since.
Within(c, limit) == cache[c].stamp + next_tick < limit + Interval
TickInv ==
  ~faulty /\ next_tick # None /\ next_tick > 0 =>
    \A c \in Caches : pc[c] = "idle" =>
      cache[c] # None /\ Within(c, TTL) /\ Within(c, MaxCacheAge)

IInv == TypeInv /\ AgeInv /\ ReturnedInv /\ MutexInv /\ TickInv

LEMMA Durations ==
  /\ {TTL, MaxCacheAge, Interval, MaxRtt, MaxAge, MaxLag} \subseteq Nat
  /\ \A n \in {TTL, MaxCacheAge, Interval, MaxRtt, MaxAge, MaxLag} : n > 0
  /\ MaxAge > MaxRtt
BY DurationsAreDurations, AgesAreTold

LEMMA EntriesAreSome == \A e \in Entries : e # None
BY Durations, NoneIsNothing DEF Entries

LEMMA ProcessesAre ==
  /\ Callers \subseteq Getters /\ Caches \subseteq Getters /\ Getters \subseteq Processes
  /\ Refreshers \subseteq Processes
  /\ \A p \in Getters : Of(p) \in Caches
  /\ \A c \in Caches : Of(c) = c
  /\ None \notin Processes
  /\ \A p \in Callers \cup Refreshers : p \notin Caches
BY ProcessesDiffer DEF Getters, Processes, Of, Caches, Callers

LEMMA InitHolds == Init => IInv
BY Durations, NoneIsNothing, NetworksMayFail, ProcessesAre
   DEF Init, IInv, TypeInv, AgeInv, ReturnedInv, MutexInv, TickInv, Points

\* An answer of age price is written to some caches.
LEMMA WrittenIs ==
  ASSUME NEW price \in 0 .. MaxRtt
  PROVE  /\ Written(price) \in Entries /\ Written(price) # None
         /\ Written(price).stamp = 0 /\ Written(price).price = price
BY Durations, EntriesAreSome DEF Written, Entries

LEMMA FreshIs ==
  ASSUME IInv, NEW c \in Caches, Fresh(c)
  PROVE  /\ cache[c] # None /\ cache[c].stamp \in Nat /\ cache[c].price \in Nat
         /\ cache[c].stamp < TTL /\ cache[c].stamp < MaxCacheAge
         /\ cache[c].price < MaxCacheAge + MaxRtt
BY Durations DEF Fresh, IInv, TypeInv, AgeInv, Entries

-----------------------------------------------------------------------------
(* Each step keeps the invariant *)

LEMMA GetKeeps ==
  ASSUME IInv, NEW p \in Callers, Get(p)
  PROVE  IInv'
<1> USE ProcessesAre
<1>1. ReturnedInv'
  BY FreshIs DEF Get, IInv, ReturnedInv
<1>2. TypeInv' /\ MutexInv'
  BY DEF Get, IInv, TypeInv, MutexInv, Points
<1>3. AgeInv' /\ TickInv'
  BY DEF Get, IInv, TypeInv, AgeInv, TickInv, Within
<1> QED BY <1>1, <1>2, <1>3 DEF IInv

LEMMA QuickPriceKeeps ==
  ASSUME IInv, NEW p \in Callers, QuickPrice(p)
  PROVE  IInv'
<1>1. ReturnedInv'
  BY Durations DEF QuickPrice, IInv, TypeInv, AgeInv, ReturnedInv, Entries, Caches
<1>2. TypeInv' /\ MutexInv' /\ AgeInv' /\ TickInv'
  BY DEF QuickPrice, IInv, TypeInv, MutexInv, AgeInv, TickInv, Within
<1> QED BY <1>1, <1>2 DEF IInv

LEMMA AbandonKeeps ==
  ASSUME IInv, NEW p \in Callers, Abandon(p)
  PROVE  IInv'
<1> USE ProcessesAre DEF Abandon, Return, IInv
<1>1. TypeInv'
  BY Durations DEF TypeInv, Points
<1>2. MutexInv'
  BY DEF TypeInv, MutexInv
<1>3. ReturnedInv' /\ AgeInv' /\ TickInv'
  BY DEF TypeInv, ReturnedInv, AgeInv, TickInv, Within
<1> QED BY <1>1, <1>2, <1>3

LEMMA LockKeeps ==
  ASSUME IInv, NEW p \in Getters, Lock(p)
  PROVE  IInv'
<1> USE ProcessesAre DEF Lock, Fetch, Return, IInv
<1>1. CASE ~Fresh(Of(p)) /\ Fetch(p)
  <2>1. TypeInv'
    BY <1>1 DEF TypeInv, Points
  <2>2. MutexInv'
    BY <1>1 DEF TypeInv, MutexInv
  <2>3. ReturnedInv' /\ AgeInv' /\ TickInv'
    BY <1>1 DEF TypeInv, ReturnedInv, AgeInv, TickInv, Within
  <2> QED BY <2>1, <2>2, <2>3
<1>2. CASE Fresh(Of(p)) /\ Return(p) /\ returned' = cache[Of(p)].price
           /\ UNCHANGED <<cache, holder, next_tick, faulty>>
  <2>1. TypeInv' /\ MutexInv' /\ AgeInv'
    BY <1>2, Durations DEF TypeInv, Points, MutexInv, AgeInv
  <2>2. ReturnedInv'
    BY <1>2, FreshIs DEF ReturnedInv
  <2>3. TickInv'
    <3> SUFFICES ASSUME ~faulty, next_tick # None, next_tick > 0, NEW c \in Caches,
                        pc'[c] = "idle"
                 PROVE  cache[c] # None /\ Within(c, TTL) /\ Within(c, MaxCacheAge)
      BY <1>2 DEF TickInv, Within
    <3>1. CASE c = p
      <4>1. cache[c] # None /\ cache[c].stamp \in Nat
            /\ cache[c].stamp < TTL /\ cache[c].stamp < MaxCacheAge
        BY <1>2, <3>1, FreshIs
      <4>2. next_tick \in Int /\ next_tick <= Interval
        BY DEF TypeInv
      <4> QED BY <4>1, <4>2, Durations DEF Within
    <3>2. CASE c # p
      BY <1>2, <3>2 DEF TypeInv, TickInv
    <3> QED BY <3>1, <3>2
  <2> QED BY <2>1, <2>2, <2>3
<1> QED BY <1>1, <1>2

\* A cache written just now is as fresh as can be, whoever wrote it.
LEMMA RenewedIsWithin ==
  ASSUME TypeInv, next_tick # None, NEW price \in 0 .. MaxRtt
  PROVE  \A limit \in {TTL, MaxCacheAge} :
           Written(price).stamp + next_tick < limit + Interval
BY WrittenIs, Durations DEF TypeInv

\* What is answered was read after it was asked.
LEMMA AnswersAre ==
  ASSUME TypeInv, NEW p \in Processes
  PROVE  \A price \in Answers(p) : price \in 0 .. MaxRtt
BY Durations DEF Answers, TypeInv

LEMMA AnswerKeeps ==
  ASSUME IInv, NEW p \in Getters, Answer(p)
  PROVE  IInv'
<1> USE ProcessesAre DEF IInv
<1> PICK price \in Answers(p) :
      cache' = [cache EXCEPT ![Of(p)] = Written(price)] /\ returned' = price
  BY DEF Answer
<1>0. price \in 0 .. MaxRtt
  BY AnswersAre
<1> USE <1>0
<1>1. TypeInv'
  BY Durations, WrittenIs DEF Answer, Return, TypeInv, Points
<1>2. MutexInv'
  BY DEF Answer, Return, TypeInv, MutexInv
<1>3. ReturnedInv' /\ AgeInv'
  BY Durations, WrittenIs DEF TypeInv, ReturnedInv, AgeInv
<1>4. TickInv'
  BY WrittenIs, RenewedIsWithin DEF Answer, Return, TypeInv, TickInv, Within
<1> QED BY <1>1, <1>2, <1>3, <1>4

LEMMA FailKeeps ==
  ASSUME IInv, NEW p \in Getters, Fail(p)
  PROVE  IInv'
<1> USE ProcessesAre DEF Fail, Return, IInv
<1>1. TypeInv'
  BY Durations DEF TypeInv, Points
<1>2. MutexInv'
  BY DEF TypeInv, MutexInv
<1>3. ReturnedInv' /\ AgeInv' /\ TickInv'
  BY DEF TypeInv, ReturnedInv, AgeInv, TickInv
<1> QED BY <1>1, <1>2, <1>3

LEMMA RefreshKeeps ==
  ASSUME IInv, NEW p \in Refreshers, Refresh(p)
  PROVE  IInv'
<1> USE ProcessesAre DEF Refresh, IInv
<1>1. TypeInv' /\ MutexInv' /\ ReturnedInv' /\ AgeInv'
  BY DEF TypeInv, Points, MutexInv, ReturnedInv, AgeInv
<1>2. TickInv'
  BY DEF TypeInv, TickInv, Within
<1> QED BY <1>1, <1>2

LEMMA RefreshEndsKeeps ==
  ASSUME IInv, NEW p \in Refreshers, RefreshEnds(p)
  PROVE  IInv'
<1> USE ProcessesAre DEF IInv
<1>0. /\ pc' = [pc EXCEPT ![p] = "idle"] /\ asked' = [asked EXCEPT ![p] = 0]
      /\ UNCHANGED <<holder, next_tick, faulty>>
  BY DEF RefreshEnds, Return
<1>1. MutexInv'
  BY <1>0 DEF TypeInv, MutexInv
<1>2. CASE \E price, fee \in 0 .. MaxRtt :
             /\ cache' = [c \in Caches |->
                            Written(IF c = "gas_price" THEN price ELSE fee)]
             /\ returned' = price
  <2> PICK price \in 0 .. MaxRtt, fee \in 0 .. MaxRtt :
             /\ cache' = [c \in Caches |->
                            Written(IF c = "gas_price" THEN price ELSE fee)]
             /\ returned' = price
    BY <1>2
  <2>1. TypeInv'
    BY <1>0, Durations, WrittenIs DEF TypeInv, Points
  <2>2. ReturnedInv' /\ AgeInv'
    BY Durations, WrittenIs DEF ReturnedInv, AgeInv
  <2>3. TickInv'
    BY <1>0, WrittenIs, RenewedIsWithin DEF TickInv, Within
  <2> QED BY <1>1, <2>1, <2>2, <2>3
<1>3. CASE faulty /\ \E price \in 0 .. MaxRtt :
             /\ cache' = [cache EXCEPT !["gas_price"] = Written(price)]
             /\ returned' = price
  <2> PICK price \in 0 .. MaxRtt :
             /\ cache' = [cache EXCEPT !["gas_price"] = Written(price)]
             /\ returned' = price
    BY <1>3
  <2>1. TypeInv'
    <3>1. Written(price) \in Entries
      BY WrittenIs
    <3>2. cache' \in [Caches -> Entries \cup {None}]
      BY <3>1 DEF TypeInv
    <3> QED BY <1>0, <3>2, Durations DEF TypeInv, Points
  <2>2. ReturnedInv' /\ AgeInv'
    BY Durations, WrittenIs DEF TypeInv, ReturnedInv, AgeInv
  <2>3. TickInv'
    BY <1>0, <1>3 DEF TickInv
  <2> QED BY <1>1, <2>1, <2>2, <2>3
<1>4. CASE faulty /\ UNCHANGED <<cache, returned>>
  BY <1>0, <1>1, <1>4, Durations DEF TypeInv, Points, ReturnedInv, AgeInv, TickInv
<1>5. \A price \in Answers(p) : price \in 0 .. MaxRtt
  BY AnswersAre
<1> QED BY <1>2, <1>3, <1>4, <1>5 DEF RefreshEnds

LEMMA StartBackgroundKeeps ==
  ASSUME IInv, StartBackground
  PROVE  IInv'
BY Durations DEF StartBackground, IInv, TypeInv, MutexInv, ReturnedInv, AgeInv, TickInv

LEMMA TickerFiresKeeps ==
  ASSUME IInv, TickerFires
  PROVE  IInv'
<1> USE ProcessesAre DEF IInv
<1>0. next_tick \in Int /\ next_tick <= 0 /\ next_tick' = next_tick + Interval
  BY DEF TickerFires, Due, TypeInv
<1>1. TypeInv'
  BY <1>0, Durations, NoneIsNothing DEF TickerFires, TypeInv, Points
<1>2. MutexInv' /\ ReturnedInv' /\ AgeInv'
  BY DEF TickerFires, TypeInv, MutexInv, ReturnedInv, AgeInv
<1>3. TickInv'
  <2> SUFFICES ASSUME NEW c \in Caches, pc'[c] = "idle"
               PROVE  /\ cache[c] # None
                      /\ cache[c].stamp + next_tick' < TTL + Interval
                      /\ cache[c].stamp + next_tick' < MaxCacheAge + Interval
    BY DEF TickInv, Within, TickerFires
  <2>1. Fresh(c)
    BY DEF TickerFires, TypeInv
  <2> QED BY <1>0, <2>1, FreshIs, Durations
<1> QED BY <1>1, <1>2, <1>3

LEMMA OlderIs ==
  ASSUME NEW age \in 0 .. MaxAge
  PROVE  Older(age) \in 0 .. MaxAge /\ age <= Older(age) /\ Older(age) <= age + 1
BY Durations DEF Older

LEMMA TickKeeps ==
  ASSUME IInv, Tick
  PROVE  IInv'
<1> USE ProcessesAre DEF IInv
<1>1. \A c \in Caches :
        /\ cache[c] = None => cache'[c] = None
        /\ cache[c] # None =>
             /\ cache[c] \in Entries /\ cache'[c] \in Entries
             /\ cache'[c].stamp = Older(cache[c].stamp)
             /\ cache'[c].price = Older(cache[c].price)
  BY OlderIs DEF Tick, TypeInv, Entries
<1>2. cache' \in [Caches -> Entries \cup {None}]
  BY <1>1 DEF Tick
<1>3. asked' \in [Processes -> 0 .. MaxRtt]
  BY Durations DEF Tick, TypeInv
<1>4. /\ next_tick' \in Int \cup {None} /\ (next_tick' # None => next_tick' <= Interval)
      /\ next_tick' # None /\ next_tick' > 0 =>
           next_tick # None /\ next_tick \in Int /\ next_tick > 0
           /\ next_tick' = next_tick - 1
  <2>1. MaxLag \in Nat /\ -MaxLag \in Int /\ -MaxLag < 0
    BY Durations
  <2> QED BY <2>1, Durations, NoneIsNothing DEF Tick, TypeInv
<1>5. TypeInv' /\ MutexInv' /\ ReturnedInv'
  BY <1>2, <1>3, <1>4 DEF Tick, TypeInv, MutexInv, ReturnedInv
<1>6. AgeInv'
  <2> SUFFICES ASSUME NEW c \in Caches, cache'[c] # None
               PROVE  cache'[c].price <= cache'[c].stamp + MaxRtt
    BY DEF AgeInv
  <2>1. cache[c] \in Entries /\ cache[c].price <= cache[c].stamp + MaxRtt
    BY <1>1 DEF AgeInv
  <2> QED BY <1>1, <2>1, Durations DEF Older, Entries
<1>7. TickInv'
  <2> SUFFICES ASSUME ~faulty, next_tick' # None, next_tick' > 0, NEW c \in Caches,
                      pc[c] = "idle"
               PROVE  /\ cache'[c] # None
                      /\ cache'[c].stamp + next_tick' < TTL + Interval
                      /\ cache'[c].stamp + next_tick' < MaxCacheAge + Interval
    BY DEF TickInv, Within, Tick
  <2>1. cache[c] # None /\ Within(c, TTL) /\ Within(c, MaxCacheAge)
    BY <1>4 DEF TickInv
  <2>2. cache[c].stamp \in 0 .. MaxAge /\ cache'[c] \in Entries
        /\ cache'[c].stamp = Older(cache[c].stamp)
    BY <1>1, <2>1 DEF Entries
  <2> QED BY <1>4, <2>1, <2>2, OlderIs, EntriesAreSome, Durations DEF Within, Entries
<1> QED BY <1>5, <1>6, <1>7

LEMMA StepKeeps == IInv /\ [Next]_vars => IInv'
<1> SUFFICES ASSUME IInv, [Next]_vars PROVE IInv'
  OBVIOUS
<1>1. CASE \E p \in Callers : Call(p)
  BY <1>1, GetKeeps, QuickPriceKeeps, AbandonKeeps DEF Call
<1>2. CASE \E p \in Getters : Lock(p) \/ Answer(p) \/ Fail(p)
  BY <1>2, LockKeeps, AnswerKeeps, FailKeeps
<1>3. CASE \E p \in Refreshers : Refresh(p) \/ RefreshEnds(p)
  BY <1>3, RefreshKeeps, RefreshEndsKeeps
<1>4. CASE StartBackground \/ TickerFires \/ Tick
  BY <1>4, StartBackgroundKeeps, TickerFiresKeeps, TickKeeps
<1>5. CASE UNCHANGED vars
  BY <1>5 DEF vars, IInv, TypeInv, AgeInv, ReturnedInv, MutexInv, TickInv, Within
<1> QED BY <1>1, <1>2, <1>3, <1>4, <1>5 DEF Next
-----------------------------------------------------------------------------
(* Theorems *)

\* IInv holds of every state the caches can be in.
THEOREM CachesInvariance == Spec => []IInv
BY InitHolds, StepKeeps, PTL DEF Spec

\* No call of get_gas_price, get_priority_fee, refresh_gas_prices or
\* send_quick_liquidation returns a price older than max_gas_cache_age and the
\* round trip that fetched it, whoever writes the caches in between.
THEOREM PricesAreAlwaysRecent == Spec => []PricesAreRecent
<1>1. IInv => PricesAreRecent
  BY DEF IInv, ReturnedInv, PricesAreRecent
<1> QED BY <1>1, CachesInvariance, PTL

\* When nothing fails, the tick of the background task after the next renews a price
\* that the next one left (wallet.rs: start_background_gas_refresh).
THEOREM RefreshIsATickLateAtMost == Spec => []StaleForATickAtMost
<1>1. IInv => StaleForATickAtMost
  <2> SUFFICES ASSUME IInv, ~faulty, next_tick # None, ~Due, Waiting, NEW c \in Caches
               PROVE  cache[c] # None /\ Within(c, TTL) /\ Within(c, MaxCacheAge)
    BY DEF StaleForATickAtMost, Within
  <2>1. next_tick > 0
    BY DEF Due, IInv, TypeInv
  <2> QED BY <2>1 DEF Waiting, IInv, TickInv
<1> QED BY <1>1, CachesInvariance, PTL

\* Getters of one cache never ask at once, and none asks for a price it could have
\* found when it got the mutex.
THEOREM RequestsAreShared == Spec => OneFetchForAll
<1> DEFINE Shared ==
      \A p \in Getters :
        pc[p] # "fetch" /\ pc'[p] = "fetch" =>
          /\ ~Fresh(Of(p))
          /\ \A q \in Getters \ {p} : ~(pc[q] = "fetch" /\ Of(q) = Of(p))
<1>1. IInv /\ [Next]_vars => [Shared]_vars
  <2> SUFFICES ASSUME IInv, Next, NEW p \in Getters, pc[p] # "fetch", pc'[p] = "fetch"
               PROVE  ~Fresh(Of(p)) /\ holder[Of(p)] = None
    BY ProcessesAre DEF IInv, MutexInv
  <2>1. Lock(p) /\ ~Fresh(Of(p))
    <3> USE ProcessesAre DEF IInv, TypeInv
    <3>1. CASE \E q \in Callers : Call(q)
      BY <3>1 DEF Call, Get, QuickPrice, Abandon, Return
    <3>2. CASE \E q \in Getters : Lock(q) \/ Answer(q) \/ Fail(q)
      BY <3>2 DEF Lock, Fetch, Answer, Fail, Return
    <3>3. CASE \E q \in Refreshers : Refresh(q) \/ RefreshEnds(q)
      BY <3>3 DEF Refresh, RefreshEnds, Return
    <3>4. CASE StartBackground \/ TickerFires \/ Tick
      BY <3>4 DEF StartBackground, TickerFires, Tick
    <3> QED BY <3>1, <3>2, <3>3, <3>4 DEF Next
  <2> QED BY <2>1 DEF Lock
<1> QED BY <1>1, CachesInvariance, PTL DEF Spec, OneFetchForAll
=============================================================================
