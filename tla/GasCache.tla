------------------------------ MODULE GasCache ------------------------------
(***************************************************************************)
(* The gas price caches of FastWallet (src/src/wallet.rs): double-checked  *)
(* fetches behind one async mutex per cache, refresh_gas_prices, which     *)
(* goes past it, the background refresh, and send_quick_liquidation, which *)
(* reads the price cache by another rule.                                  *)
(*                                                                         *)
(* A price is what matters of it: how old it is.  Time is relative, every  *)
(* stored instant is an age that grows; ages from MaxAge on are alike.     *)
(*                                                                         *)
(* A process awaits the mutex or an answer; between awaits its accesses to *)
(* one cache commute with those of others and are one step.  With an       *)
(* external gas_provider nothing here runs.                                *)
(***************************************************************************)
EXTENDS Integers

CONSTANTS
  PriceCallers, \* tasks that call get_gas_price
  FeeCallers,   \* tasks that call get_priority_fee
  Refreshers,   \* tasks that call refresh_gas_prices
  TTL,          \* effective_gas_cache_duration
  MaxCacheAge,  \* max_gas_cache_age
  Interval,     \* background_gas_refresh
  MaxRtt,       \* rpc_request_timeout
  Networks,     \* may requests fail
  MaxAge,       \* bound on ages
  MaxLag,       \* bound on how late the background task may be
  None

\* get_gas_price and get_priority_fee are one text over two caches; the
\* background task calls both, and waits for the one on cache c as process c.
Caches == {"gas_price", "priority_fee"}
Callers == PriceCallers \cup FeeCallers
Getters == Callers \cup Caches
Processes == Getters \cup Refreshers

Of(p) ==
  IF p \in Caches THEN p
  ELSE IF p \in PriceCallers THEN "gas_price" ELSE "priority_fee"

ASSUME DurationsAreDurations ==
  {TTL, MaxCacheAge, Interval, MaxRtt, MaxAge, MaxLag} \subseteq Nat \ {0}
ASSUME AgesAreTold == MaxAge > MaxCacheAge + MaxRtt /\ MaxAge >= TTL
ASSUME NetworksMayFail == Networks \subseteq BOOLEAN
ASSUME ProcessesDiffer ==
  /\ PriceCallers \cap FeeCallers = {} /\ (Callers \cup Refreshers) \cap Caches = {}
  /\ Callers \cap Refreshers = {} /\ None \notin Processes
ASSUME NoneIsNothing == None \notin Int /\ None \notin [stamp : Nat, price : Nat]

VARIABLES
  cache,      \* cache[c]: the ages of the stamp and of the price, or None
  holder,     \* holder[c]: who holds the fetch mutex of c
  pc,         \* what p awaits: "idle", "lock", "fetch", "refresh"
  asked,      \* asked[p]: how long ago p sent its request
  next_tick,  \* time until the ticker fires, or None before it is started
  returned,   \* ghost: the age of the price that a call returned last, or None
  faulty      \* may requests fail in this behaviour

vars == <<cache, holder, pc, asked, next_tick, returned, faulty>>

Init ==
  /\ cache = [c \in Caches |-> None]
  /\ holder = [c \in Caches |-> None]
  /\ pc = [p \in Processes |-> "idle"]
  /\ asked = [p \in Processes |-> 0]
  /\ next_tick = None
  /\ returned = None
  /\ faulty \in Networks

Older(age) == IF age = MaxAge THEN age ELSE age + 1

\* Mutant: the upper bound on the age of a price is forgotten.
Fresh_unbounded(c) == cache[c] # None /\ cache[c].stamp < TTL

\* read_gas_cache.
Fresh(c) ==
  /\ cache[c] # None
  /\ cache[c].stamp < TTL
  /\ cache[c].stamp < MaxCacheAge

\* A price that the endpoint read some time after it was asked.
Answers(p) == 0 .. asked[p]

Written(price) == [stamp |-> 0, price |-> price]
-----------------------------------------------------------------------------
(* get_gas_price, get_priority_fee *)

\* The fast path, or the wait for the mutex.
Get(p) ==
  /\ pc[p] = "idle"
  /\ IF Fresh(Of(p))
     THEN returned' = cache[Of(p)].price /\ UNCHANGED pc
     ELSE pc' = [pc EXCEPT ![p] = "lock"] /\ UNCHANGED returned
  /\ UNCHANGED <<cache, holder, asked, next_tick, faulty>>

Return(p) ==
  pc' = [pc EXCEPT ![p] = "idle"] /\ asked' = [asked EXCEPT ![p] = 0]

Fetch(p) ==
  /\ holder' = [holder EXCEPT ![Of(p)] = p]
  /\ pc' = [pc EXCEPT ![p] = "fetch"]
  /\ UNCHANGED <<cache, asked, next_tick, returned, faulty>>

\* Mutant: no second look at the cache.
Lock_unchecked(p) == pc[p] = "lock" /\ holder[Of(p)] = None /\ Fetch(p)

\* The second look at the cache, under the mutex.
Lock(p) ==
  /\ pc[p] = "lock" /\ holder[Of(p)] = None
  /\ \/ ~Fresh(Of(p)) /\ Fetch(p)
     \/ /\ Fresh(Of(p))
        /\ Return(p) /\ returned' = cache[Of(p)].price
        /\ UNCHANGED <<cache, holder, next_tick, faulty>>

\* The answer is stamped when it arrives.
Answer(p) ==
  /\ pc[p] = "fetch"
  /\ \E price \in Answers(p) :
       /\ cache' = [cache EXCEPT ![Of(p)] = Written(price)]
       /\ returned' = price
  /\ holder' = [holder EXCEPT ![Of(p)] = None]
  /\ Return(p)
  /\ UNCHANGED <<next_tick, faulty>>

\* Mutant: the mutex is not given back when the request fails.
Fail_locked(p) ==
  /\ pc[p] = "fetch" /\ faulty
  /\ Return(p)
  /\ UNCHANGED <<cache, holder, next_tick, returned, faulty>>

\* An error or a timeout; the guard is dropped.
Fail(p) ==
  /\ pc[p] = "fetch" /\ faulty
  /\ holder' = [holder EXCEPT ![Of(p)] = None]
  /\ Return(p)
  /\ UNCHANGED <<cache, next_tick, returned, faulty>>

\* The caller's future is dropped at its await, its guard with it.
Abandon(p) ==
  /\ p \in Callers /\ pc[p] \in {"lock", "fetch"}
  /\ Return(p)
  /\ holder' = [c \in Caches |-> IF holder[c] = p THEN None ELSE holder[c]]
  /\ UNCHANGED <<cache, next_tick, returned, faulty>>

\* send_quick_liquidation takes a cached price of any age up to the maximum,
\* or its default.
QuickPrice(p) ==
  /\ p \in Callers /\ pc[p] = "idle"
  /\ returned' =
       (IF cache["gas_price"] # None /\ cache["gas_price"].stamp < MaxCacheAge
       THEN cache["gas_price"].price ELSE None)
  /\ UNCHANGED <<cache, holder, pc, asked, next_tick, faulty>>
-----------------------------------------------------------------------------
(* refresh_gas_prices *)

Refresh(p) ==
  /\ p \in Refreshers /\ pc[p] = "idle"
  /\ pc' = [pc EXCEPT ![p] = "refresh"]
  /\ UNCHANGED <<cache, holder, asked, next_tick, returned, faulty>>

\* Both answers are awaited; the priority fee may be missing, and without the
\* gas price nothing is written.
RefreshEnds(p) ==
  /\ pc[p] = "refresh"
  /\ Return(p)
  /\ \/ \E price, fee \in Answers(p) :
          /\ cache' = [c \in Caches |->
                         Written(IF c = "gas_price" THEN price ELSE fee)]
          /\ returned' = price
     \/ /\ faulty
        /\ \E price \in Answers(p) :
             /\ cache' = [cache EXCEPT !["gas_price"] = Written(price)]
             /\ returned' = price
     \/ faulty /\ UNCHANGED <<cache, returned>>
  /\ UNCHANGED <<holder, next_tick, faulty>>
-----------------------------------------------------------------------------
(* start_background_gas_refresh *)

\* The first tick of a tokio interval is immediate.
StartBackground ==
  /\ next_tick = None
  /\ next_tick' = 0
  /\ UNCHANGED <<cache, holder, pc, asked, returned, faulty>>

Waiting == \A c \in Caches : pc[c] = "idle"
Due == next_tick # None /\ next_tick <= 0

\* A missed tick fires as soon as the task is back (MissedTickBehavior::Burst).
\* Both getters are called in one poll.
TickerFires ==
  /\ Due /\ Waiting
  /\ next_tick' = next_tick + Interval
  /\ pc' = [p \in Processes |-> IF p \in Caches /\ ~Fresh(p) THEN "lock" ELSE pc[p]]
  /\ UNCHANGED <<cache, holder, asked, returned, faulty>>

\* A request is answered or timed out within MaxRtt, a timer fires when due.
Tick ==
  /\ \A p \in Processes : pc[p] \in {"fetch", "refresh"} => asked[p] < MaxRtt
  /\ ~(Due /\ Waiting)
  /\ cache' = [c \in Caches |->
       IF cache[c] = None THEN None
       ELSE [stamp |-> Older(cache[c].stamp), price |-> Older(cache[c].price)]]
  /\ asked' = [p \in Processes |->
       IF pc[p] \in {"fetch", "refresh"} THEN asked[p] + 1 ELSE asked[p]]
  /\ next_tick' = IF next_tick \in {None, -MaxLag} THEN next_tick ELSE next_tick - 1
  /\ UNCHANGED <<holder, pc, returned, faulty>>

Call(p) ==
  \/ Get(p)
  \/ QuickPrice(p)
  \/ Abandon(p)

Next ==
  \/ \E p \in Callers : Call(p)
  \/ \E p \in Getters : Lock(p) \/ Answer(p) \/ Fail(p)
  \/ \E p \in Refreshers : Refresh(p) \/ RefreshEnds(p)
  \/ StartBackground
  \/ TickerFires
  \/ Tick

Spec == Init /\ [][Next]_vars

\* Requests end, and the mutex of tokio is first come first served.
Fairness ==
  /\ \A p \in Getters : SF_vars(Lock(p)) /\ WF_vars(Answer(p) \/ Fail(p))
  /\ \A p \in Refreshers : WF_vars(RefreshEnds(p))

FairSpec == Spec /\ Fairness
-----------------------------------------------------------------------------
(* Properties *)

\* No call returns a price older than max_gas_cache_age, but for the round trip
\* of the request that fetched it: the stamp is that of the answer.
PricesAreRecent ==
  returned # None => returned < MaxCacheAge + MaxRtt

\* "ensures only one RPC call is made when multiple concurrent requests need gas
\* prices": a getter asks only while no other asks for the same cache, and when
\* no answer that came while it waited would do.
OneFetchForAll ==
  [][\A p \in Getters :
       pc[p] # "fetch" /\ pc'[p] = "fetch" =>
         /\ ~Fresh(Of(p))
         /\ \A q \in Getters \ {p} : ~(pc[q] = "fetch" /\ Of(q) = Of(p))]_vars

\* When nothing fails, background refresh leaves a price stale for less than one
\* interval: the second tick at the latest renews it.
StaleForATickAtMost ==
  ~faulty /\ next_tick # None /\ ~Due /\ Waiting =>
    \A c \in Caches :
      /\ cache[c] # None
      /\ \A limit \in {TTL, MaxCacheAge} : cache[c].stamp + next_tick < limit + Interval

\* A call returns, whoever failed or was dropped holding the mutex.
CallsReturn == \A p \in Getters : pc[p] = "lock" ~> pc[p] = "idle"
=============================================================================
