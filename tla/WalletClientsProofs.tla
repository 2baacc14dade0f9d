------------------------- MODULE WalletClientsProofs ------------------------
(* Theorems of WalletClients, for any URLs, lists, windows and numbers of calls:  *)
(* where signed bytes go, what warmup knows, and how a wait for a receipt ends.   *)
(* First what a fold over a list of URLs computes, by the least prefix at which   *)
(* it would go wrong; then the clients that building makes; then the invariant.   *)
EXTENDS WalletClients, TLAPS, WellFoundedInduction, SequenceTheorems, FiniteSetTheorems

-----------------------------------------------------------------------------
(* What a fold over a list of URLs computes *)

\* The naturals are well ordered, which is induction without a predicate to give.
LEMMA NatOrder == IsWellFoundedOn({ss \in Nat \X Nat : ss[1] < ss[2]}, Nat)
BY NatLessThanWellFounded DEF OpToRel

LEMMA LeastOfNats ==
  ASSUME NEW S \in SUBSET Nat, S # {}
  PROVE  \E m \in S : \A k \in S : m <= k
<1> DEFINE R == {ss \in Nat \X Nat : ss[1] < ss[2]}
<1>1. IsWellFoundedOn(R, Nat)
  BY NatOrder
<1> HIDE DEF R
<1>2. PICK m \in S : \A k \in S : <<k, m>> \notin R
  BY <1>1, WFMin, Zenon
<1>3. \A k \in S : m <= k
  <2> SUFFICES ASSUME NEW k \in S PROVE m <= k
    OBVIOUS
  <2>1. ~(k < m)
    BY <1>2 DEF R
  <2> QED BY <2>1
<1> QED BY <1>3

\* Max chooses the last of some positions: the least that no position exceeds.
LEMMA MaxOfPositions ==
  ASSUME NEW n \in Nat, NEW S \in SUBSET (1 .. n), S # {}
  PROVE  Max(S) \in S /\ \A k \in S : k <= Max(S)
<1> DEFINE Bounds == {m \in Nat : \A k \in S : k <= m}
<1>1. n \in Bounds /\ Bounds \in SUBSET Nat
  OBVIOUS
<1> HIDE DEF Bounds
<1>2. PICK m \in Bounds : \A k \in Bounds : m <= k
  BY <1>1, LeastOfNats
<1>3. m \in S
  <2> SUFFICES ASSUME m \notin S PROVE FALSE
    OBVIOUS
  <2>1. m \in Nat /\ m >= 1 /\ \A k \in S : k <= m
    <3>1. PICK k \in S : k \in 1 .. n
      OBVIOUS
    <3> QED BY <1>2, <3>1 DEF Bounds
  <2>2. m - 1 \in Bounds
    BY <2>1 DEF Bounds
  <2> QED BY <1>2, <2>1, <2>2
<1>4. \E x \in S : \A y \in S : x >= y
  BY <1>3 DEF Bounds
<1>5. Max(S) \in S /\ \A y \in S : Max(S) >= y
  BY <1>4, Zenon DEF Max
<1> QED BY <1>5

\* One turn of the loop in sharing_primary.
Adding(acc, url) ==
  LET same(i) == normalized_url(acc.made[i]) = normalized_url(url)
  IN  IF \E i \in Range(acc.batch_client) : same(i) THEN acc
      ELSE IF same(1) THEN [acc EXCEPT !.batch_client = Append(@, 1)]
      ELSE [made |-> Append(acc.made, url),
            batch_client |-> Append(acc.batch_client, Len(acc.made) + 1)]

\* The fold takes the last of a set of positions after the others.
Folded(made, urls, s, before) ==
  IF s = {} THEN [made |-> made, batch_client |-> <<>>]
  ELSE Adding(before[s \ {Max(s)}], urls[Max(s)])
IsFold(made, urls, n, f) == f = [s \in SUBSET (1 .. n) |-> Folded(made, urls, s, f)]
Fold(made, urls) ==
  CHOOSE f : f = [s \in SUBSET DOMAIN urls |-> Folded(made, urls, s, f)]

LEMMA SharingIsFold ==
  ASSUME NEW made, NEW urls
  PROVE  sharing_primary(made, urls) = Fold(made, urls)[DOMAIN urls]
BY DEF sharing_primary, FoldLeft, MapThenFoldSet, Adding, Fold, Folded

\* The function that the fold chooses exists, on the sets of the first n positions
\* and so on all.
LEMMA FoldExists ==
  ASSUME NEW made, NEW urls, NEW n \in Nat
  PROVE  \E f : IsFold(made, urls, n, f)
<1> USE DEF IsFold
<1> DEFINE Exists(m) == \E f : f = [s \in SUBSET (1 .. m) |-> Folded(made, urls, s, f)]
           Bad == {m \in Nat : ~Exists(m)}
<1> SUFFICES ASSUME Bad # {} PROVE FALSE
  OBVIOUS
<1>1. PICK m \in Bad : \A k \in Bad : m <= k
  <2>1. Bad \in SUBSET Nat
    OBVIOUS
  <2> HIDE DEF Bad
  <2> QED BY <2>1, LeastOfNats
<1>2. CASE m = 0
  <2> DEFINE f == [s \in SUBSET (1 .. 0) |-> [made |-> made, batch_client |-> <<>>]]
  <2>1. \A s \in SUBSET (1 .. 0) : Folded(made, urls, s, f) = [made |-> made, batch_client |-> <<>>]
    BY DEF Folded
  <2>2. f = [s \in SUBSET (1 .. 0) |-> Folded(made, urls, s, f)]
    BY <2>1
  <2> QED BY <1>1, <1>2, <2>2
<1>3. CASE m # 0
  <2>1. m - 1 \in Nat /\ m \in Nat
    BY <1>3
  <2>2. m - 1 \notin Bad
    <3> HIDE DEF Bad
    <3> QED BY <1>1, <2>1
  <2>3. PICK f : f = [s \in SUBSET (1 .. m - 1) |-> Folded(made, urls, s, f)]
    BY <2>1, <2>2
  <2> DEFINE g == [s \in SUBSET (1 .. m) |-> Folded(made, urls, s, f)]
  <2>4. \A s \in SUBSET (1 .. m - 1) : g[s] = f[s]
    <3> SUFFICES ASSUME NEW s \in SUBSET (1 .. m - 1) PROVE g[s] = f[s]
      OBVIOUS
    <3>1. s \in SUBSET (1 .. m)
      BY <2>1
    <3>2. f[s] = Folded(made, urls, s, f)
      BY <2>3
    <3> QED BY <3>1, <3>2
  <2> HIDE DEF g
  <2>5. ASSUME NEW s \in SUBSET (1 .. m)
        PROVE  Folded(made, urls, s, g) = Folded(made, urls, s, f)
    <3>1. CASE s = {}
      BY <3>1 DEF Folded
    <3>2. CASE s # {}
      <4>1. Max(s) \in s /\ \A k \in s : k <= Max(s)
        BY <2>1, <2>5, <3>2, MaxOfPositions
      <4>2. s \ {Max(s)} \in SUBSET (1 .. m - 1)
        <5>1. \A k \in s \ {Max(s)} : k \in 1 .. m /\ k <= Max(s) /\ k # Max(s)
          BY <2>5, <4>1
        <5>2. Max(s) \in 1 .. m
          BY <2>5, <4>1
        <5> HIDE DEF g, Bad
        <5>3. \A k \in s \ {Max(s)} : k \in 1 .. m - 1
          BY <2>1, <5>1, <5>2
        <5> QED BY <5>3
      <4>3. g[s \ {Max(s)}] = f[s \ {Max(s)}]
        BY <2>4, <4>2
      <4> QED BY <3>2, <4>3 DEF Folded
    <3> QED BY <3>1, <3>2
  <2>6. g = [s \in SUBSET (1 .. m) |-> Folded(made, urls, s, g)]
    BY <2>5 DEF g
  <2> QED BY <1>1, <2>6
<1> QED BY <1>2, <1>3

\* So the fold goes through the list from the front, one URL at a time.
LEMMA FoldIs ==
  ASSUME NEW made, NEW U, NEW urls \in Seq(U)
  PROVE  /\ Fold(made, urls)[1 .. 0] = [made |-> made, batch_client |-> <<>>]
         /\ \A k \in 1 .. Len(urls) :
              Fold(made, urls)[1 .. k] = Adding(Fold(made, urls)[1 .. k - 1], urls[k])
<1> DEFINE f == Fold(made, urls)
<1>1. DOMAIN urls = 1 .. Len(urls) /\ Len(urls) \in Nat
  BY LenProperties
<1>2. f = [s \in SUBSET (1 .. Len(urls)) |-> Folded(made, urls, s, f)]
  <2>1. \E g : IsFold(made, urls, Len(urls), g)
    BY <1>1, FoldExists
  <2> QED BY <1>1, <2>1 DEF Fold, IsFold
<1> HIDE DEF f
<1>3. f[1 .. 0] = [made |-> made, batch_client |-> <<>>]
  <2>1. 1 .. 0 = {} /\ {} \in SUBSET (1 .. Len(urls))
    OBVIOUS
  <2> QED BY <1>2, <2>1 DEF Folded
<1>4. ASSUME NEW k \in 1 .. Len(urls)
      PROVE  f[1 .. k] = Adding(f[1 .. k - 1], urls[k])
  <2>1. k \in Nat /\ k \in 1 .. k /\ 1 .. k \in SUBSET (1 .. Len(urls))
    <3>1. k \in Nat /\ 1 <= k /\ k <= Len(urls) /\ Len(urls) \in Nat
      BY <1>1
    <3> QED BY <3>1
  <2>2. Max(1 .. k) \in 1 .. k /\ \A j \in 1 .. k : j <= Max(1 .. k)
    BY <2>1, MaxOfPositions
  <2>3. Max(1 .. k) = k
    BY <2>1, <2>2
  <2>4. (1 .. k) \ {k} = 1 .. k - 1
    BY <2>1
  <2>5. f[1 .. k] = Folded(made, urls, 1 .. k, f)
    BY <1>2, <2>1
  <2> QED BY <2>1, <2>3, <2>4, <2>5 DEF Folded
<1> QED BY <1>3, <1>4 DEF f
-----------------------------------------------------------------------------
(* One client for each endpoint *)

Same(url, other) == normalized_url(url) = normalized_url(other)
Distinct(made) == \A i, j \in DOMAIN made : Same(made[i], made[j]) => i = j

Accs == [made : Seq(Urls), batch_client : Seq(Nat)]

\* A batch reaches the first k of urls, over clients of which p's is the first.
Reaches(p, urls, k, acc) ==
  /\ acc \in Accs
  /\ Len(acc.made) >= 1 /\ acc.made[1] = p
  /\ Distinct(acc.made)
  /\ Range(acc.batch_client) \subseteq 1 .. Len(acc.made)
  /\ 2 .. Len(acc.made) \subseteq Range(acc.batch_client)
  /\ IsInjective(acc.batch_client)
  /\ \A i \in Range(acc.batch_client) : \E j \in 1 .. k : Same(acc.made[i], urls[j])
  /\ \A j \in 1 .. k : \E i \in Range(acc.batch_client) : Same(acc.made[i], urls[j])

LEMMA AppendedRange ==
  ASSUME NEW S, NEW s \in Seq(S), NEW x \in S
  PROVE  /\ Append(s, x) \in Seq(S) /\ Len(Append(s, x)) = Len(s) + 1
         /\ \A i \in 1 .. Len(s) : Append(s, x)[i] = s[i]
         /\ Append(s, x)[Len(s) + 1] = x
         /\ Range(Append(s, x)) = Range(s) \cup {x}
         /\ DOMAIN Append(s, x) = 1 .. Len(s) + 1
         /\ IsInjective(s) /\ x \notin Range(s) => IsInjective(Append(s, x))
<1> DEFINE t == Append(s, x)
<1>1. /\ t \in Seq(S) /\ Len(t) = Len(s) + 1 /\ DOMAIN t = 1 .. Len(s) + 1
      /\ \A i \in 1 .. Len(s) : t[i] = s[i]
      /\ t[Len(s) + 1] = x
  BY AppendProperties, LenProperties
<1>2. DOMAIN s = 1 .. Len(s) /\ Len(s) \in Nat
  BY LenProperties
<1> HIDE DEF t
<1>3. Range(t) = Range(s) \cup {x}
  BY <1>1, <1>2 DEF Range
<1>4. IsInjective(s) /\ x \notin Range(s) => IsInjective(t)
  BY <1>1, <1>2 DEF IsInjective, Range
<1> QED BY <1>1, <1>3, <1>4 DEF t

LEMMA AddingReaches ==
  ASSUME NEW p, NEW urls \in Seq(Urls), NEW k \in 1 .. Len(urls), NEW acc,
         Reaches(p, urls, k - 1, acc)
  PROVE  Reaches(p, urls, k, Adding(acc, urls[k]))
<1> DEFINE url == urls[k]
           made == acc.made
           batch == acc.batch_client
<1>1. /\ acc = [made |-> made, batch_client |-> batch]
      /\ made \in Seq(Urls) /\ batch \in Seq(Nat) /\ Len(made) \in Nat
      /\ DOMAIN made = 1 .. Len(made) /\ DOMAIN batch = 1 .. Len(batch)
      /\ url \in Urls /\ k \in Nat /\ 1 .. k = (1 .. k - 1) \cup {k}
  <2>1. acc \in Accs
    BY DEF Reaches
  <2>2. k \in 1 .. Len(urls) /\ Len(urls) \in Nat /\ url \in Urls
    BY LenProperties, ElementOfSeq
  <2>3. 1 .. k = (1 .. k - 1) \cup {k}
    BY <2>2
  <2> QED BY <2>1, <2>2, <2>3, LenProperties DEF Accs
<1>2. /\ Len(made) >= 1 /\ made[1] = p
      /\ Distinct(made)
      /\ Range(batch) \subseteq 1 .. Len(made)
      /\ 2 .. Len(made) \subseteq Range(batch)
      /\ IsInjective(batch)
      /\ \A i \in Range(batch) : \E j \in 1 .. k - 1 : Same(made[i], urls[j])
      /\ \A j \in 1 .. k - 1 : \E i \in Range(batch) : Same(made[i], urls[j])
  BY DEF Reaches
<1>3. Len(made) \in Nat /\ Len(made) >= 1 /\ (\A i \in 1 .. Len(made) : i = 1 \/ i \in Range(batch))
  BY <1>1, <1>2
<1>4. \A j \in 1 .. k : j \in 1 .. k - 1 \/ urls[j] = url
  BY <1>1
<1>5. k \in 1 .. k /\ 1 .. k - 1 \subseteq 1 .. k /\ url = urls[k]
  BY <1>1
<1> HIDE DEF made, batch, url
<1>6. CASE \E i \in Range(batch) : Same(made[i], url)
  <2>1. Adding(acc, url) = acc
    BY <1>6 DEF Adding, Same, made, batch
  <2>2. \A i \in Range(batch) : \E j \in 1 .. k : Same(made[i], urls[j])
    BY <1>2, <1>5
  <2>3. \A j \in 1 .. k : \E i \in Range(batch) : Same(made[i], urls[j])
    BY <1>2, <1>4, <1>6
  <2>4. Reaches(p, urls, k, [made |-> made, batch_client |-> batch])
    BY <1>1, <1>2, <2>2, <2>3 DEF Reaches, Accs
  <2> QED BY <1>1, <1>5, <2>1, <2>4
<1>7. CASE ~(\E i \in Range(batch) : Same(made[i], url)) /\ Same(made[1], url)
  <2> DEFINE batch2 == Append(batch, 1)
  <2>1. Adding(acc, url) = [made |-> made, batch_client |-> batch2]
    BY <1>1, <1>7 DEF Adding, Same, made, batch
  <2>2. 1 \notin Range(batch)
    BY <1>7
  <2>3. batch2 \in Seq(Nat) /\ Range(batch2) = Range(batch) \cup {1} /\ IsInjective(batch2)
    BY <1>1, <1>2, <2>2, AppendedRange
  <2> HIDE DEF batch2
  <2>4. \A i \in Range(batch2) : \E j \in 1 .. k : Same(made[i], urls[j])
    BY <1>2, <1>5, <1>7, <2>3
  <2>5. \A j \in 1 .. k : \E i \in Range(batch2) : Same(made[i], urls[j])
    BY <1>2, <1>4, <1>7, <2>3
  <2>6. Range(batch2) \subseteq 1 .. Len(made) /\ 2 .. Len(made) \subseteq Range(batch2)
    BY <1>2, <1>3, <2>3
  <2>7. Reaches(p, urls, k, [made |-> made, batch_client |-> batch2])
    BY <1>1, <1>2, <2>3, <2>4, <2>5, <2>6 DEF Reaches, Accs
  <2> QED BY <1>5, <2>1, <2>7
<1>8. CASE ~(\E i \in Range(batch) : Same(made[i], url)) /\ ~Same(made[1], url)
  <2> DEFINE more == Append(made, url)
             batch2 == Append(batch, Len(made) + 1)
  <2>1. Adding(acc, url) = [made |-> more, batch_client |-> batch2]
    BY <1>1, <1>8 DEF Adding, Same, made, batch
  <2>2. Len(made) + 1 \notin Range(batch) /\ Len(made) + 1 \in Nat
    BY <1>2, <1>3
  <2>3. /\ batch2 \in Seq(Nat) /\ Range(batch2) = Range(batch) \cup {Len(made) + 1}
        /\ IsInjective(batch2)
    BY <1>1, <1>2, <2>2, AppendedRange
  <2>4. /\ more \in Seq(Urls) /\ Len(more) = Len(made) + 1 /\ DOMAIN more = 1 .. Len(made) + 1
        /\ \A i \in 1 .. Len(made) : more[i] = made[i]
        /\ more[Len(made) + 1] = url
    BY <1>1, AppendedRange
  <2> HIDE DEF more, batch2
  <2>5. \A i \in 1 .. Len(made) : ~Same(made[i], url) /\ ~Same(url, made[i])
    BY <1>3, <1>8 DEF Same
  <2>6. Distinct(more)
    <3>1. \A i \in DOMAIN more : i \in 1 .. Len(made) \/ i = Len(made) + 1
      BY <1>3, <2>4
    <3>2. \A i, j \in 1 .. Len(made) : Same(made[i], made[j]) => i = j
      BY <1>1, <1>2 DEF Distinct
    <3> SUFFICES ASSUME NEW i \in DOMAIN more, NEW j \in DOMAIN more, Same(more[i], more[j])
                 PROVE  i = j
      BY DEF Distinct
    <3> QED BY <2>4, <2>5, <3>1, <3>2
  <2>7. \A i \in Range(batch) : i \in 1 .. Len(made) /\ more[i] = made[i]
    BY <1>2, <2>4
  <2>8. \A i \in Range(batch2) : \E j \in 1 .. k : Same(more[i], urls[j])
    <3>1. Same(more[Len(made) + 1], urls[k])
      BY <1>5, <2>4 DEF Same
    <3>2. \A i \in Range(batch) : \E j \in 1 .. k : Same(more[i], urls[j])
      BY <1>2, <1>5, <2>7
    <3> QED BY <1>5, <2>3, <3>1, <3>2
  <2>9. \A j \in 1 .. k : \E i \in Range(batch2) : Same(more[i], urls[j])
    <3>1. \A j \in 1 .. k - 1 : \E i \in Range(batch2) : Same(more[i], urls[j])
      BY <1>2, <2>3, <2>7
    <3>2. Same(more[Len(made) + 1], url) /\ Len(made) + 1 \in Range(batch2)
      BY <2>3, <2>4 DEF Same
    <3> QED BY <1>4, <3>1, <3>2
  <2>10. /\ Len(more) >= 1 /\ more[1] = p
         /\ Range(batch2) \subseteq 1 .. Len(more)
         /\ 2 .. Len(more) \subseteq Range(batch2)
    <3>1. \A i \in 2 .. Len(more) : i \in 2 .. Len(made) \/ i = Len(made) + 1
      BY <1>3, <2>4
    <3>2. \A i \in 1 .. Len(made) : i \in 1 .. Len(more)
      BY <1>3, <2>4
    <3>3. Len(made) + 1 \in 1 .. Len(more) /\ Len(more) >= 1 /\ 1 \in 1 .. Len(made)
      BY <1>3, <2>4
    <3> QED BY <1>2, <2>3, <2>4, <3>1, <3>2, <3>3
  <2>11. Reaches(p, urls, k, [made |-> more, batch_client |-> batch2])
    BY <2>3, <2>4, <2>6, <2>8, <2>9, <2>10 DEF Reaches, Accs
  <2> QED BY <1>5, <2>1, <2>11
<1> QED BY <1>5, <1>6, <1>7, <1>8

\* sharing_primary (src/src/rpc/batch.rs): an endpoint has one client, the primary's
\* its own, and the batch has exactly the clients of the URLs it was given.
LEMMA SharingReaches ==
  ASSUME NEW p \in Urls, NEW urls \in Seq(Urls)
  PROVE  Reaches(p, urls, Len(urls), sharing_primary(<<p>>, urls))
<1> DEFINE at(k) == Fold(<<p>>, urls)[1 .. k]
           Bad == {k \in 0 .. Len(urls) : ~Reaches(p, urls, k, at(k))}
<1>1. Len(urls) \in Nat /\ DOMAIN urls = 1 .. Len(urls)
  BY LenProperties
<1>2. Reaches(p, urls, 0, at(0))
  <2>1. at(0) = [made |-> <<p>>, batch_client |-> <<>>]
    BY FoldIs
  <2>2. /\ <<p>> \in Seq(Urls) /\ Len(<<p>>) = 1 /\ <<p>>[1] = p /\ DOMAIN <<p>> = {1}
        /\ <<>> \in Seq(Nat) /\ DOMAIN <<>> = {}
    OBVIOUS
  <2>3. Range(<<>>) = {} /\ IsInjective(<<>>)
    BY <2>2 DEF Range, IsInjective
  <2>4. Reaches(p, urls, 0, [made |-> <<p>>, batch_client |-> <<>>])
    BY <2>2, <2>3 DEF Reaches, Accs, Distinct
  <2> QED BY <2>1, <2>4
<1>3. ASSUME NEW k \in 1 .. Len(urls), Reaches(p, urls, k - 1, at(k - 1))
      PROVE  Reaches(p, urls, k, at(k))
  <2>1. at(k) = Adding(at(k - 1), urls[k])
    BY FoldIs
  <2> HIDE DEF at
  <2> QED BY <1>3, <2>1, AddingReaches
<1>4. Bad = {}
  <2> SUFFICES ASSUME Bad # {} PROVE FALSE
    OBVIOUS
  <2> HIDE DEF at
  <2>1. Bad \in SUBSET Nat
    BY <1>1
  <2>2. PICK k \in Bad : \A j \in Bad : k <= j
    <3> HIDE DEF Bad
    <3> QED BY <2>1, LeastOfNats
  <2>3. k \in 1 .. Len(urls) /\ k - 1 \in 0 .. Len(urls)
    BY <1>1, <1>2
  <2>4. k - 1 \notin Bad
    <3> HIDE DEF Bad
    <3> QED BY <2>2, <2>3
  <2> QED BY <1>3, <2>3, <2>4
<1>5. Reaches(p, urls, Len(urls), at(Len(urls)))
  <2> HIDE DEF at
  <2> QED BY <1>1, <1>4
<1> QED BY <1>1, <1>5, SharingIsFold
-----------------------------------------------------------------------------
(* What the builder makes *)

Builders ==
  [at : {"open", "fetching", "built", "failed"}, primary_rpc : Primaries,
   broadcast_rpcs : Seq(Urls), exclusive_broadcast : BOOLEAN,
   gas_rpc_url : {{}} \cup {{url} : url \in GasUrls}, initial_nonce : BOOLEAN, setters : Int]

\* To where signed bytes are to go, by what the builder is told.
ToldBy(p, rpcs, exclusive) ==
  {normalized_url(url) : url \in Range(rpcs)}
    \cup (IF exclusive THEN {} ELSE {normalized_url(p)})
Told == ToldBy(builder.primary_rpc, builder.broadcast_rpcs, builder.exclusive_broadcast)

\* To where they go, over clients for made.
Reached(made, batch) ==
  {normalized_url(made[i]) : i \in IF batch = <<>> THEN {1} ELSE Range(batch)}

\* A client for each endpoint, p's the first, and a batch that uses the others.
Chooses(p, told, acc) ==
  /\ acc \in Accs
  /\ Len(acc.made) >= 1 /\ acc.made[1] = p
  /\ Distinct(acc.made)
  /\ Range(acc.batch_client) \subseteq 1 .. Len(acc.made)
  /\ 2 .. Len(acc.made) \subseteq Range(acc.batch_client)
  /\ IsInjective(acc.batch_client)
  /\ Reached(acc.made, acc.batch_client) = told

LEMMA SeqRange ==
  ASSUME NEW S, NEW s \in Seq(S)
  PROVE  /\ Range(s) \subseteq S
         /\ \A x : x \in Range(s) <=> \E j \in 1 .. Len(s) : s[j] = x
         /\ (s = <<>> <=> Len(s) = 0) /\ (s = <<>> <=> Range(s) = {})
<1>1. DOMAIN s = 1 .. Len(s) /\ Len(s) \in Nat /\ \A j \in 1 .. Len(s) : s[j] \in S
  BY LenProperties, ElementOfSeq
<1>2. s = <<>> <=> Len(s) = 0
  BY EmptySeq
<1>3. \A x : x \in Range(s) <=> \E j \in 1 .. Len(s) : s[j] = x
  BY <1>1 DEF Range
<1>4. Range(s) \subseteq S
  BY <1>1, <1>3
<1>5. Len(s) = 0 => Range(s) = {}
  BY <1>3
<1>6. Len(s) # 0 => Range(s) # {}
  <2>1. Len(s) # 0 => 1 \in 1 .. Len(s)
    BY <1>1
  <2> QED BY <1>3, <2>1
<1> QED BY <1>2, <1>3, <1>4, <1>5, <1>6

LEMMA OnlyThePrimary ==
  ASSUME NEW p \in Urls
  PROVE  Chooses(p, ToldBy(p, <<>>, FALSE), [made |-> <<p>>, batch_client |-> <<>>])
<1> DEFINE m == <<p>>
           b == <<>>
           told == ToldBy(p, b, FALSE)
<1>1. /\ m \in Seq(Urls) /\ Len(m) = 1 /\ m[1] = p /\ DOMAIN m = {1}
      /\ b \in Seq(Nat) /\ DOMAIN b = {}
  OBVIOUS
<1>2. Reached(m, b) = {normalized_url(p)}
  BY <1>1 DEF Reached
<1> HIDE DEF m, b
<1>3. Range(b) = {} /\ IsInjective(b)
  BY <1>1 DEF Range, IsInjective
<1>4. told = {normalized_url(p)}
  BY <1>3 DEF ToldBy
<1>5. Distinct(m) /\ 2 .. Len(m) = {}
  BY <1>1 DEF Distinct
<1> HIDE DEF told
<1> DEFINE acc == [made |-> m, batch_client |-> b]
<1>6. acc \in Accs /\ acc.made = m /\ acc.batch_client = b
  BY <1>1 DEF Accs
<1> HIDE DEF acc
<1>7. Reached(acc.made, acc.batch_client) = told
  BY <1>2, <1>4, <1>6
<1>8. Distinct(acc.made) /\ IsInjective(acc.batch_client)
  BY <1>3, <1>5, <1>6
<1>9. Len(acc.made) >= 1 /\ acc.made[1] = p
  <2>1. Len(acc.made) = Len(m) /\ acc.made[1] = m[1]
    BY <1>6, Zenon
  <2> HIDE DEF acc
  <2>2. Len(m) = 1 /\ m[1] = p
    BY <1>1
  <2> QED BY <2>1, <2>2
<1>10. /\ Range(acc.batch_client) \subseteq 1 .. Len(acc.made)
       /\ 2 .. Len(acc.made) \subseteq Range(acc.batch_client)
  BY <1>3, <1>5, <1>6
<1>11. Chooses(p, told, acc)
  BY <1>6, <1>7, <1>8, <1>9, <1>10 DEF Chooses
<1> QED BY <1>11 DEF m, b, told, acc

\* resolve_broadcast_rpcs puts the primary in front, unless the list is exclusive.
LEMMA Resolved ==
  ASSUME NEW p \in Urls, NEW rpcs \in Seq(Urls), rpcs # <<>>, NEW exclusive \in BOOLEAN,
         NEW urls, urls = resolve_broadcast_rpcs(p, rpcs, exclusive)
  PROVE  /\ urls \in Seq(Urls) /\ Len(urls) > 0
         /\ {normalized_url(u) : u \in Range(urls)} = ToldBy(p, rpcs, exclusive)
<1>1. Len(rpcs) \in Nat /\ Len(rpcs) > 0
  BY SeqRange, LenProperties
<1>2. CASE exclusive
  BY <1>1, <1>2 DEF resolve_broadcast_rpcs, ToldBy
<1>3. CASE ~exclusive
  <2>1. <<p>> \in Seq(Urls) /\ Len(<<p>>) = 1 /\ <<p>>[1] = p
    OBVIOUS
  <2>2. /\ <<p>> \o rpcs \in Seq(Urls) /\ Len(<<p>> \o rpcs) = 1 + Len(rpcs)
        /\ \A j \in 1 .. 1 + Len(rpcs) :
             (<<p>> \o rpcs)[j] = IF j <= 1 THEN <<p>>[j] ELSE rpcs[j - 1]
    BY <2>1, ConcatProperties
  <2>3. urls = <<p>> \o rpcs
    BY <1>3 DEF resolve_broadcast_rpcs
  <2>4. /\ urls \in Seq(Urls) /\ Len(urls) = 1 + Len(rpcs) /\ urls[1] = p
        /\ \A j \in 1 .. Len(rpcs) : urls[j + 1] = rpcs[j]
    BY <1>1, <2>1, <2>2, <2>3
  <2>5. \A u : u \in Range(urls) <=> u \in Range(rpcs) \/ u = p
    <3> SUFFICES ASSUME NEW u PROVE u \in Range(urls) <=> u \in Range(rpcs) \/ u = p
      OBVIOUS
    <3>1. u \in Range(urls) <=> \E j \in 1 .. 1 + Len(rpcs) : urls[j] = u
      BY <2>4, SeqRange
    <3>2. u \in Range(rpcs) <=> \E j \in 1 .. Len(rpcs) : rpcs[j] = u
      BY SeqRange
    <3>3. ASSUME NEW j \in 1 .. 1 + Len(rpcs), urls[j] = u PROVE u \in Range(rpcs) \/ u = p
      <4>1. j = 1 \/ (j - 1 \in 1 .. Len(rpcs) /\ j = (j - 1) + 1)
        BY <1>1
      <4> QED BY <2>4, <3>2, <3>3, <4>1
    <3>4. 1 \in 1 .. 1 + Len(rpcs) /\ \A j \in 1 .. Len(rpcs) : j + 1 \in 1 .. 1 + Len(rpcs)
      BY <1>1
    <3> QED BY <2>4, <3>1, <3>2, <3>3, <3>4
  <2>6. {normalized_url(u) : u \in Range(urls)} = ToldBy(p, rpcs, exclusive)
    BY <1>3, <2>5 DEF ToldBy
  <2> QED BY <1>1, <2>4, <2>6
<1> QED BY <1>2, <1>3

LEMMA SharingChooses ==
  ASSUME NEW p \in Urls, NEW rpcs \in Seq(Urls), rpcs # <<>>, NEW exclusive \in BOOLEAN
  PROVE  Chooses(p, ToldBy(p, rpcs, exclusive),
                 sharing_primary(<<p>>, resolve_broadcast_rpcs(p, rpcs, exclusive)))
<1> DEFINE urls == resolve_broadcast_rpcs(p, rpcs, exclusive)
           acc == sharing_primary(<<p>>, urls)
           told == ToldBy(p, rpcs, exclusive)
<1>1. /\ urls \in Seq(Urls) /\ Len(urls) > 0
      /\ {normalized_url(u) : u \in Range(urls)} = told
  BY Resolved
<1> HIDE DEF urls, told
<1>2. Reaches(p, urls, Len(urls), acc)
  BY <1>1, SharingReaches
<1> HIDE DEF acc
<1>3. 1 \in 1 .. Len(urls) /\ acc.batch_client \in Seq(Nat)
  BY <1>1, <1>2, LenProperties DEF Reaches, Accs
<1>4. acc.batch_client # <<>>
  <2>1. Range(acc.batch_client) # {}
    BY <1>2, <1>3 DEF Reaches
  <2> QED BY <1>3, <2>1, SeqRange
<1>5. Reached(acc.made, acc.batch_client) = told
  <2>1. \A u : u \in Range(urls) <=> \E j \in 1 .. Len(urls) : urls[j] = u
    BY <1>1, SeqRange
  <2>2. ASSUME NEW i \in Range(acc.batch_client)
        PROVE  \E u \in Range(urls) : normalized_url(acc.made[i]) = normalized_url(u)
    BY <1>2, <2>1 DEF Reaches, Same
  <2>3. ASSUME NEW u \in Range(urls)
        PROVE  \E i \in Range(acc.batch_client) : normalized_url(acc.made[i]) = normalized_url(u)
    BY <1>2, <2>1, <2>3 DEF Reaches, Same
  <2>4. Reached(acc.made, acc.batch_client) =
          {normalized_url(acc.made[i]) : i \in Range(acc.batch_client)}
    BY <1>4 DEF Reached
  <2>5. {normalized_url(acc.made[i]) : i \in Range(acc.batch_client)} =
          {normalized_url(u) : u \in Range(urls)}
    <3> DEFINE mine == {normalized_url(acc.made[i]) : i \in Range(acc.batch_client)}
               given == {normalized_url(u) : u \in Range(urls)}
    <3>1. \A t \in mine : t \in given
      BY <2>2
    <3>2. \A t \in given : t \in mine
      BY <2>3
    <3> QED BY <3>1, <3>2
  <2> QED BY <1>1, <2>4, <2>5
<1> QED BY <1>2, <1>5 DEF Reaches, Chooses, acc, urls, told

Wallets == [rpc_client : {1}, batch_client : Seq(Nat), gas_rpc_client : Nat]

\* Clients and a wallet that has no endpoint twice and reaches what was told.
WellChosen(made, chosen) ==
  /\ made \in Seq(Urls) /\ Len(made) >= 1 /\ made[1] = builder.primary_rpc
  /\ Distinct(made)
  /\ chosen \in Wallets
  /\ Range(chosen.batch_client) \subseteq 1 .. Len(made)
  /\ chosen.gas_rpc_client \in 1 .. Len(made)
  /\ IsInjective(chosen.batch_client)
  /\ Reached(made, chosen.batch_client) = Told

\* client_for finds the client of the endpoint, if there is one.
LEMMA ClientFor ==
  ASSUME NEW p, NEW told, NEW acc, Chooses(p, told, acc), NEW url \in Urls,
         NEW i, i = client_for(acc.made, acc.batch_client, url)
  PROVE  \/ i \in 1 .. Len(acc.made)
         \/ /\ i = Len(acc.made) + 1
            /\ \A j \in 1 .. Len(acc.made) : ~Same(acc.made[j], url)
<1> DEFINE found == {j \in {1} \cup Range(acc.batch_client) :
                       normalized_url(acc.made[j]) = normalized_url(url)}
<1>1. /\ \A j \in 1 .. Len(acc.made) : j = 1 \/ j \in Range(acc.batch_client)
      /\ \A j \in {1} \cup Range(acc.batch_client) : j \in 1 .. Len(acc.made)
  <2>1. acc.made \in Seq(Urls)
    BY DEF Chooses, Accs
  <2>2. Len(acc.made) \in Nat
    BY <2>1, LenProperties
  <2> QED BY <2>2 DEF Chooses
<1>2. i = IF found = {} THEN Len(acc.made) + 1 ELSE CHOOSE j \in found : TRUE
  BY DEF client_for
<1>3. \A j \in found : j \in 1 .. Len(acc.made)
  BY <1>1
<1>4. CASE found = {}
  <2>1. \A j \in 1 .. Len(acc.made) : ~Same(acc.made[j], url)
    BY <1>1, <1>4 DEF Same
  <2> HIDE DEF found
  <2> QED BY <1>2, <1>4, <2>1
<1>5. CASE found # {}
  <2> HIDE DEF found
  <2>1. (CHOOSE j \in found : TRUE) \in found
    BY <1>5
  <2> QED BY <1>2, <1>3, <1>5, <2>1
<1> QED BY <1>4, <1>5

LEMMA SeqOfOne ==
  ASSUME NEW x
  PROVE  SetToSeq({x}) \in Seq({x}) /\ Len(SetToSeq({x})) = 1 /\ SetToSeq({x})[1] = x
<1> DEFINE fs == [1 .. 1 -> {x}]
<1>1. Cardinality({x}) = 1
  BY FS_Singleton
<1>2. [i \in 1 .. 1 |-> x] \in fs /\ IsInjective([i \in 1 .. 1 |-> x])
  BY DEF IsInjective
<1>3. SetToSeq({x}) \in fs
  <2>1. SetToSeq({x}) = CHOOSE f \in fs : IsInjective(f)
    BY <1>1 DEF SetToSeq
  <2> HIDE DEF fs
  <2> QED BY <1>2, <2>1
<1>4. ASSUME NEW f \in fs PROVE f \in Seq({x}) /\ Len(f) = 1 /\ f[1] = x
  OBVIOUS
<1> QED BY <1>3, <1>4

LEMMA OneMore ==
  ASSUME NEW made \in Seq(Urls), NEW one \in Seq(Urls), NEW url, Len(one) = 1, one[1] = url,
         Distinct(made), \A j \in 1 .. Len(made) : ~Same(made[j], url)
  PROVE  /\ made \o one \in Seq(Urls) /\ Len(made \o one) = Len(made) + 1
         /\ \A j \in 1 .. Len(made) : (made \o one)[j] = made[j]
         /\ Distinct(made \o one)
<1> DEFINE more == made \o one
<1>1. /\ Len(made) \in Nat /\ DOMAIN made = 1 .. Len(made)
      /\ more \in Seq(Urls) /\ Len(more) = Len(made) + Len(one)
      /\ \A j \in 1 .. Len(made) + Len(one) :
           more[j] = IF j <= Len(made) THEN made[j] ELSE one[j - Len(made)]
  BY ConcatProperties, LenProperties
<1> HIDE DEF more
<1>2. /\ Len(more) = Len(made) + 1 /\ DOMAIN more = 1 .. Len(made) + 1
      /\ \A j \in 1 .. Len(made) : more[j] = made[j]
  BY <1>1, LenProperties
<1>3. more[Len(made) + 1] = url
  <2>1. Len(made) + 1 \in 1 .. Len(made) + Len(one) /\ (Len(made) + 1) - Len(made) = 1
    BY <1>1
  <2> QED BY <1>1, <2>1
<1>4. \A j \in DOMAIN more : j \in 1 .. Len(made) \/ j = Len(made) + 1
  BY <1>1, <1>2
<1>5. \A j, k \in 1 .. Len(made) : Same(made[j], made[k]) => j = k
  BY <1>1 DEF Distinct
<1>6. \A j \in 1 .. Len(made) : ~Same(made[j], url) /\ ~Same(url, made[j])
  BY DEF Same
<1>7. Distinct(more)
  <2> SUFFICES ASSUME NEW j \in DOMAIN more, NEW k \in DOMAIN more, Same(more[j], more[k])
               PROVE  j = k
    BY DEF Distinct
  <2> QED BY <1>2, <1>3, <1>4, <1>5, <1>6
<1> QED BY <1>1, <1>2, <1>7 DEF more

\* The clients of a batch that chooses right, with a client for gas prices among them
\* or made for its own endpoint, are well chosen.
LEMMA WithoutGasClient ==
  ASSUME NEW acc, Chooses(builder.primary_rpc, Told, acc), NEW i \in 1 .. Len(acc.made)
  PROVE  WellChosen(acc.made, [rpc_client |-> 1, batch_client |-> acc.batch_client,
                               gas_rpc_client |-> i])
<1>1. acc.made \in Seq(Urls) /\ acc.batch_client \in Seq(Nat)
  BY DEF Chooses, Accs
<1>2. i \in Nat
  BY <1>1, LenProperties
<1> DEFINE wal == [rpc_client |-> 1, batch_client |-> acc.batch_client, gas_rpc_client |-> i]
<1>3. wal \in Wallets /\ wal.batch_client = acc.batch_client /\ wal.gas_rpc_client = i
  BY <1>1, <1>2 DEF Wallets
<1> HIDE DEF wal
<1>4. WellChosen(acc.made, wal)
  BY <1>1, <1>3 DEF WellChosen, Chooses
<1> QED BY <1>4 DEF wal

LEMMA WithGasClient ==
  ASSUME NEW acc, Chooses(builder.primary_rpc, Told, acc),
         NEW one \in Seq(Urls), NEW url, Len(one) = 1, one[1] = url,
         \A j \in 1 .. Len(acc.made) : ~Same(acc.made[j], url)
  PROVE  WellChosen(acc.made \o one, [rpc_client |-> 1, batch_client |-> acc.batch_client,
                                      gas_rpc_client |-> Len(acc.made) + 1])
<1> DEFINE made == acc.made
           batch == acc.batch_client
           more == made \o one
           wal == [rpc_client |-> 1, batch_client |-> batch, gas_rpc_client |-> Len(made) + 1]
<1>1. /\ made \in Seq(Urls) /\ batch \in Seq(Nat) /\ Len(made) \in Nat
      /\ Distinct(made) /\ IsInjective(batch) /\ Range(batch) \subseteq 1 .. Len(made)
      /\ Len(made) >= 1 /\ made[1] = builder.primary_rpc
      /\ Reached(made, batch) = Told
      /\ \A j \in 1 .. Len(made) : ~Same(made[j], url)
  BY LenProperties DEF Chooses, Accs
<1> HIDE DEF made, batch
<1>2. /\ more \in Seq(Urls) /\ Len(more) = Len(made) + 1
      /\ \A j \in 1 .. Len(made) : more[j] = made[j]
      /\ Distinct(more)
  BY <1>1, OneMore
<1> HIDE DEF more
<1>3. Reached(more, batch) = Told
  <2>1. \A j \in IF batch = <<>> THEN {1} ELSE Range(batch) : more[j] = made[j]
    BY <1>1, <1>2
  <2>2. Reached(more, batch) = Reached(made, batch)
    BY <2>1 DEF Reached
  <2> QED BY <1>1, <2>2
<1>4. wal \in Wallets /\ wal.batch_client = batch /\ wal.gas_rpc_client = Len(made) + 1
  BY <1>1 DEF Wallets
<1> HIDE DEF wal
<1>5. /\ Range(batch) \subseteq 1 .. Len(more) /\ Len(made) + 1 \in 1 .. Len(more)
      /\ Len(more) >= 1 /\ more[1] = builder.primary_rpc
  BY <1>1, <1>2
<1>6. WellChosen(more, wal)
  BY <1>1, <1>2, <1>3, <1>4, <1>5 DEF WellChosen
<1> QED BY <1>6 DEF more, made, batch, wal

\* What build makes: an endpoint has one client, whichever of the lists and however
\* often it is named.
LEMMA ChosenIsRight ==
  ASSUME builder \in Builders, ~Exclusive
  PROVE  LET chosen == Chosen(<<builder.primary_rpc>>)
         IN  WellChosen(chosen.made, chosen.wallet)
<1> DEFINE p == builder.primary_rpc
           rpcs == builder.broadcast_rpcs
           acc == IF rpcs = <<>> THEN [made |-> <<p>>, batch_client |-> <<>>]
                  ELSE sharing_primary(<<p>>,
                         resolve_broadcast_rpcs(p, rpcs, builder.exclusive_broadcast))
           gas == {client_for(acc.made, acc.batch_client, url) : url \in builder.gas_rpc_url}
           chosen == Chosen(<<p>>)
           wal(i) == [rpc_client |-> 1, batch_client |-> acc.batch_client, gas_rpc_client |-> i]
<1> SUFFICES WellChosen(chosen.made, chosen.wallet)
  OBVIOUS
<1>1. p \in Urls /\ rpcs \in Seq(Urls) /\ builder.exclusive_broadcast \in BOOLEAN
  BY DEF Builders, Urls
<1>2. Chooses(builder.primary_rpc, Told, acc)
  <2>1. CASE rpcs = <<>>
    <3>1. Told = ToldBy(p, <<>>, FALSE)
      BY <1>1, <2>1 DEF Told, Exclusive
    <3>2. acc = [made |-> <<p>>, batch_client |-> <<>>]
      BY <2>1
    <3> HIDE DEF rpcs, acc
    <3> QED BY <1>1, <3>1, <3>2, OnlyThePrimary
  <2>2. CASE rpcs # <<>>
    <3>1. acc = sharing_primary(<<p>>,
                  resolve_broadcast_rpcs(p, rpcs, builder.exclusive_broadcast))
      BY <2>2
    <3>2. Told = ToldBy(p, rpcs, builder.exclusive_broadcast)
      BY DEF Told
    <3> HIDE DEF rpcs, acc
    <3> QED BY <1>1, <2>2, <3>1, <3>2, SharingChooses
  <2> QED BY <2>1, <2>2
<1>3. /\ chosen.made = IF \E i \in gas : i > Len(acc.made)
                       THEN acc.made \o SetToSeq(builder.gas_rpc_url) ELSE acc.made
      /\ chosen.wallet = wal(IF gas = {} THEN 1 ELSE CHOOSE i \in gas : TRUE)
  BY DEF Chosen
<1>4. builder.gas_rpc_url = {} \/ \E url \in Urls : builder.gas_rpc_url = {url}
  BY DEF Builders, Urls
<1>5. gas = {client_for(acc.made, acc.batch_client, url) : url \in builder.gas_rpc_url}
  OBVIOUS
<1> HIDE DEF p, rpcs, acc, gas, chosen
<1>6. Len(acc.made) \in Nat /\ Len(acc.made) >= 1 /\ 1 \in 1 .. Len(acc.made)
  <2>1. acc.made \in Seq(Urls) /\ Len(acc.made) >= 1
    BY <1>2 DEF Chooses, Accs
  <2> QED BY <2>1, LenProperties
<1>7. CASE builder.gas_rpc_url = {}
  <2>1. gas = {}
    BY <1>5, <1>7
  <2>2. chosen.made = acc.made /\ chosen.wallet = wal(1)
    BY <1>3, <2>1
  <2> QED BY <1>2, <1>6, <2>2, WithoutGasClient
<1>8. CASE builder.gas_rpc_url # {}
  <2>1. PICK url \in Urls : builder.gas_rpc_url = {url}
    BY <1>4, <1>8
  <2> DEFINE i == client_for(acc.made, acc.batch_client, url)
  <2>2. gas = {i}
    BY <1>5, <2>1
  <2>3. \/ i \in 1 .. Len(acc.made)
        \/ /\ i = Len(acc.made) + 1
           /\ \A j \in 1 .. Len(acc.made) : ~Same(acc.made[j], url)
    BY <1>2, ClientFor
  <2> HIDE DEF i, wal
  <2>4. chosen.wallet = wal(i)
    BY <1>3, <2>2
  <2>5. CASE i \in 1 .. Len(acc.made)
    <3>1. chosen.made = acc.made
      BY <1>3, <1>6, <2>2, <2>5
    <3> QED BY <1>2, <2>4, <2>5, <3>1, WithoutGasClient DEF wal
  <2>6. CASE i = Len(acc.made) + 1 /\ \A j \in 1 .. Len(acc.made) : ~Same(acc.made[j], url)
    <3> DEFINE one == SetToSeq(builder.gas_rpc_url)
    <3>1. one \in Seq({url}) /\ Len(one) = 1 /\ one[1] = url
      BY <2>1, SeqOfOne
    <3>2. \E j \in gas : j > Len(acc.made)
      BY <1>6, <2>2, <2>6
    <3>3. chosen.made = acc.made \o one
      BY <1>3, <3>2
    <3> HIDE DEF one
    <3>4. one \in Seq(Urls)
      BY <3>1
    <3>5. WellChosen(acc.made \o one, wal(i))
      BY <1>2, <2>6, <3>1, <3>4, WithGasClient DEF wal
    <3> QED BY <2>4, <3>3, <3>5
  <2> QED BY <2>3, <2>5, <2>6
<1> QED BY <1>7, <1>8
-----------------------------------------------------------------------------
(* The invariant *)

Targets == {normalized_url(url) : url \in Urls}
Ages == Nat \cup {None}
Callers == {Building} \cup 1 .. MaxCalls

PollAnswers == {"failed", "null", "result"}
CallRecords ==
  [op : {"none", "warmup", "send", "read", "wait"},
   at : {"none", "primary", "batch", "sent", "asked", "head", "polling", "done"},
   verdict : {None, "ok", "error", "timeout", "receipt", "dropped"},
   errors : Nat, elapsed : BOOLEAN, sent : Seq(Targets), polls : Seq(PollAnswers)]

TypeInv ==
  /\ builder \in Builders
  /\ wallet \in Wallets
  /\ calls \in [1 .. MaxCalls -> CallRecords]
  /\ clients \in Seq(Urls)
  /\ last_success \in [DOMAIN clients -> Ages]
  /\ heard \in [Targets -> Ages]
  /\ requests \subseteq [call : Callers, client : DOMAIN clients]

\* An endpoint has one client at most, which remembers what was heard of it.
MemoryInv ==
  /\ Distinct(clients)
  /\ \A i \in DOMAIN clients : last_success[i] = heard[Target(i)]
  /\ \A t \in Targets : (\A i \in DOMAIN clients : Target(i) # t) => heard[t] = None

\* A wallet uses the clients made for it, and reaches whom the caller meant.
WalletInv ==
  /\ 1 \in DOMAIN clients
  /\ Range(wallet.batch_client) \subseteq DOMAIN clients
  /\ wallet.gas_rpc_client \in DOMAIN clients
  /\ IsInjective(wallet.batch_client)
  /\ Reached(clients, wallet.batch_client) = meant

\* How far building has come; nothing calls before.
BuildInv ==
  /\ builder.at = "open" => clients = <<>> /\ last_success = <<>>
  /\ builder.at = "fetching" => clients = <<builder.primary_rpc>> /\ ~Exclusive
  /\ builder.at = "built" => WalletInv
  /\ builder.at # "built" => \A n \in 1 .. MaxCalls : calls[n] = NoCall

\* A request is somebody's.
RequestsInv == \A n \in 1 .. MaxCalls : calls[n] = NoCall => Opened(n) = {}

\* The last e polls failed, fewer than it takes; the one before did not.
StreakOf(polls, e) ==
  /\ e < MAX_CONSECUTIVE_RECEIPT_ERRORS
  /\ e <= Len(polls) /\ Len(polls) <= MAX_CONSECUTIVE_RECEIPT_ERRORS
  /\ \A k \in 1 .. Len(polls) : k > Len(polls) - e => polls[k] = "failed"
  /\ e < Len(polls) => polls[Len(polls) - e] = "null"
Streak(c) == c.verdict = None /\ StreakOf(c.polls, c.errors)

\* What ReceiptVerdicts asks of a wait.
Verdict(c) ==
  /\ Failed(c.polls) <=> c.verdict = "error"
  /\ c.verdict = "receipt" <=> c.polls # <<>> /\ Last(c.polls) = "result"

GoodCall(c) ==
  /\ c.op = "send" => IsInjective(c.sent) /\ Range(c.sent) = meant
  /\ c.op = "wait" =>
       \/ c.at = "done" /\ Verdict(c)
       \/ c.at \in {"head", "polling"} /\ Streak(c)
CallsInv == \A n \in 1 .. MaxCalls : GoodCall(calls[n])

IInv == TypeInv /\ MemoryInv /\ BuildInv /\ RequestsInv /\ CallsInv
-----------------------------------------------------------------------------
(* What answers, losses and time do to the memory *)

\* The memory of the clients, without the calls.
RpcInv ==
  /\ clients \in Seq(Urls)
  /\ last_success \in [DOMAIN clients -> Ages]
  /\ heard \in [Targets -> Ages]
  /\ requests \subseteq [call : Callers, client : DOMAIN clients]
  /\ MemoryInv

LEMMA TargetsAre ==
  ASSUME clients \in Seq(Urls), NEW i \in DOMAIN clients
  PROVE  Target(i) \in Targets
<1>1. clients[i] \in Urls
  BY LenProperties, ElementOfSeq
<1> QED BY <1>1 DEF Targets, Target

LEMMA DistinctTargets ==
  ASSUME RpcInv, NEW i \in DOMAIN clients, NEW j \in DOMAIN clients, Target(i) = Target(j)
  PROVE  i = j
BY DEF RpcInv, MemoryInv, Distinct, Same, Target

LEMMA AnswersAreHeard ==
  ASSUME RpcInv, NEW r \in requests, NEW ending \in Endings, request_with_detail(r, ending)
  PROVE  RpcInv' /\ requests' \subseteq requests /\ clients' = clients
<1> DEFINE c == r.client
<1>1. c \in DOMAIN clients /\ Target(c) \in Targets
  BY TargetsAre DEF RpcInv
<1>2. /\ clients' = clients /\ requests' = requests \ {r}
      /\ last_success' = [last_success EXCEPT ![c] = mark(@, ending)]
      /\ heard' = [heard EXCEPT ![Target(c)] =
                     IF ending = "lost" THEN None ELSE IF ending = "result" THEN 0 ELSE @]
  BY DEF request_with_detail
<1> HIDE DEF c
<1>3. \A i : Target(i)' = Target(i)
  BY <1>2 DEF Target
<1>4. /\ \A age \in Ages : mark(age, ending) =
           IF ending = "lost" THEN None ELSE IF ending = "result" THEN 0 ELSE age
      /\ \A age \in Ages : mark(age, ending) \in Ages
  BY DEF mark, Ages, Endings, Answers
<1>5. /\ last_success \in [DOMAIN clients -> Ages] /\ heard \in [Targets -> Ages]
      /\ requests \subseteq [call : Callers, client : DOMAIN clients]
      /\ clients \in Seq(Urls)
      /\ \A i \in DOMAIN clients : last_success[i] = heard[Target(i)]
      /\ \A t \in Targets : (\A i \in DOMAIN clients : Target(i) # t) => heard[t] = None
  BY DEF RpcInv, MemoryInv
<1>6. last_success' \in [DOMAIN clients -> Ages] /\ heard' \in [Targets -> Ages]
  BY <1>1, <1>2, <1>4, <1>5 DEF Ages
<1>7. ASSUME NEW i \in DOMAIN clients PROVE last_success'[i] = heard'[Target(i)]
  <2>1. CASE i = c
    BY <1>1, <1>2, <1>4, <1>5, <2>1
  <2>2. CASE i # c
    <3>1. Target(i) # Target(c)
      BY <1>1, <2>2, DistinctTargets
    <3> QED BY <1>2, <1>5, <2>2, <3>1
  <2> QED BY <2>1, <2>2
<1>8. ASSUME NEW t \in Targets, \A i \in DOMAIN clients : Target(i) # t PROVE heard'[t] = None
  BY <1>1, <1>2, <1>5, <1>8
<1>9. MemoryInv'
  BY <1>2, <1>3, <1>7, <1>8 DEF MemoryInv, RpcInv, Distinct
<1> QED BY <1>2, <1>5, <1>6, <1>9 DEF RpcInv

LEMMA DropsAreHeard ==
  ASSUME RpcInv, NEW n, Drop(n)
  PROVE  RpcInv' /\ requests' = requests \ Opened(n) /\ clients' = clients
<1> DEFINE lost == {r.client : r \in Opened(n)}
           ts == {Target(i) : i \in lost}
<1>1. lost \subseteq DOMAIN clients
  BY DEF Opened, RpcInv
<1>2. /\ clients' = clients /\ requests' = requests \ Opened(n)
      /\ last_success' = [i \in DOMAIN last_success |->
                            IF i \in lost THEN None ELSE last_success[i]]
      /\ heard' = [t \in DOMAIN heard |-> IF t \in ts THEN None ELSE heard[t]]
  BY DEF Drop, mark
<1>3. /\ last_success \in [DOMAIN clients -> Ages] /\ heard \in [Targets -> Ages]
      /\ clients \in Seq(Urls)
      /\ \A i \in DOMAIN clients : last_success[i] = heard[Target(i)]
      /\ \A t \in Targets : (\A i \in DOMAIN clients : Target(i) # t) => heard[t] = None
  BY DEF RpcInv, MemoryInv
<1>4. \A i \in DOMAIN clients : Target(i) \in ts <=> i \in lost
  BY <1>1, DistinctTargets
<1> HIDE DEF lost, ts
<1>5. \A i : Target(i)' = Target(i)
  BY <1>2 DEF Target
<1>6. last_success' \in [DOMAIN clients -> Ages] /\ heard' \in [Targets -> Ages]
  BY <1>2, <1>3 DEF Ages
<1>7. ASSUME NEW i \in DOMAIN clients PROVE last_success'[i] = heard'[Target(i)]
  <2>1. Target(i) \in Targets
    BY <1>3, TargetsAre
  <2> QED BY <1>2, <1>3, <1>4, <2>1
<1>8. ASSUME NEW t \in Targets, \A i \in DOMAIN clients : Target(i) # t PROVE heard'[t] = None
  BY <1>2, <1>3, <1>8
<1>9. MemoryInv'
  BY <1>2, <1>5, <1>7, <1>8 DEF MemoryInv, RpcInv, Distinct
<1> QED BY <1>2, <1>3, <1>6, <1>9 DEF RpcInv

LEMMA AgesAreNats == \A age \in Ages : Older(age) \in Ages
BY DEF Ages, Older

LEMMA TimePassesAlike ==
  ASSUME RpcInv, Tick
  PROVE  RpcInv' /\ UNCHANGED <<clients, requests>>
<1>1. /\ clients' = clients /\ requests' = requests
      /\ last_success' = [i \in DOMAIN last_success |-> Older(last_success[i])]
      /\ heard' = [t \in DOMAIN heard |-> Older(heard[t])]
  BY DEF Tick
<1>2. /\ last_success \in [DOMAIN clients -> Ages] /\ heard \in [Targets -> Ages]
      /\ clients \in Seq(Urls)
      /\ \A i \in DOMAIN clients : last_success[i] = heard[Target(i)]
      /\ \A t \in Targets : (\A i \in DOMAIN clients : Target(i) # t) => heard[t] = None
  BY DEF RpcInv, MemoryInv
<1>3. \A i : Target(i)' = Target(i)
  BY <1>1 DEF Target
<1>4. last_success' \in [DOMAIN clients -> Ages] /\ heard' \in [Targets -> Ages]
  BY <1>1, <1>2, AgesAreNats
<1>5. Older(None) = None
  BY DEF Older
<1>6. ASSUME NEW i \in DOMAIN clients PROVE last_success'[i] = heard'[Target(i)]
  <2>1. Target(i) \in Targets
    BY <1>2, TargetsAre
  <2> QED BY <1>1, <1>2, <2>1
<1>7. ASSUME NEW t \in Targets, \A i \in DOMAIN clients : Target(i) # t PROVE heard'[t] = None
  BY <1>1, <1>2, <1>5, <1>7
<1>8. MemoryInv'
  BY <1>1, <1>3, <1>6, <1>7 DEF MemoryInv, RpcInv, Distinct
<1> QED BY <1>1, <1>2, <1>4, <1>8 DEF RpcInv
-----------------------------------------------------------------------------
(* The record of a call *)

LEMMA StreakIsOpen ==
  ASSUME NEW c \in CallRecords, Streak(c)
  PROVE  Verdict(c)
<1> USE DEF MAX_CONSECUTIVE_RECEIPT_ERRORS
<1>1. c.polls \in Seq(PollAnswers) /\ Len(c.polls) \in Nat /\ c.errors \in Nat /\ c.verdict = None
  BY LenProperties DEF CallRecords, Streak
<1>2. ~Failed(c.polls)
  <2> SUFFICES ASSUME Failed(c.polls) PROVE FALSE
    OBVIOUS
  <2>1. Len(c.polls) = 3 /\ \A k \in 1 .. 3 : c.polls[k] = "failed"
    BY DEF Failed
  <2>2. 3 - c.errors \in 1 .. 3
    BY <1>1, <2>1 DEF Streak, StreakOf
  <2> QED BY <2>1, <2>2, <1>1 DEF Streak, StreakOf
<1>3. ASSUME c.polls # <<>> PROVE Last(c.polls) # "result"
  <2>1. Len(c.polls) >= 1
    BY <1>1, <1>3, EmptySeq
  <2>2. Len(c.polls) \in 1 .. Len(c.polls)
    BY <1>1, <2>1
  <2>3. CASE c.errors = 0
    BY <1>1, <2>1, <2>3 DEF Streak, StreakOf, Last
  <2>4. CASE c.errors > 0
    BY <1>1, <2>2, <2>4 DEF Streak, StreakOf, Last
  <2> QED BY <1>1, <2>3, <2>4
<1> QED BY <1>1, <1>2, <1>3, NoneAssumption DEF Verdict

\* d is c, with these polls, after it returned v.
Returned(c, polls, v, d) ==
  /\ d \in CallRecords /\ d.at = "done" /\ d.verdict = v
  /\ d.polls = polls /\ d.op = c.op /\ d.sent = c.sent
Verdicts == {"ok", "error", "timeout", "receipt", "dropped"}

LEMMA DoneRecord ==
  ASSUME NEW c \in CallRecords, NEW v \in Verdicts
  PROVE  Returned(c, c.polls, v, Done(c, v))
<1> DEFINE d == Done(c, v)
<1>1. d = [c EXCEPT !.at = "done", !.verdict = v, !.errors = 0, !.elapsed = FALSE]
  BY DEF Done
<1>2. d = [op |-> c.op, at |-> "done", verdict |-> v, errors |-> 0, elapsed |-> FALSE,
           sent |-> c.sent, polls |-> c.polls]
  BY <1>1 DEF CallRecords
<1> HIDE DEF d
<1>3. Returned(c, c.polls, v, d)
  BY <1>2 DEF CallRecords, Verdicts, Returned
<1> QED BY <1>3 DEF d

LEMMA PollsRecord ==
  ASSUME NEW c \in CallRecords, NEW polls \in Seq(PollAnswers),
         NEW d, d = [c EXCEPT !.polls = polls]
  PROVE  /\ d \in CallRecords /\ d.polls = polls
         /\ d.op = c.op /\ d.sent = c.sent /\ d.at = c.at /\ d.errors = c.errors
         /\ d.verdict = c.verdict /\ d.elapsed = c.elapsed
BY DEF CallRecords

LEMMA Empties ==
  ASSUME NEW c \in CallRecords, NEW v \in Verdicts, NEW none \in Seq(PollAnswers)
  PROVE  Returned(c, none, v, Done([c EXCEPT !.polls = none], v))
<1> DEFINE e == [c EXCEPT !.polls = none]
<1>1. e \in CallRecords /\ e.polls = none /\ e.op = c.op /\ e.sent = c.sent
  BY PollsRecord
<1> HIDE DEF e
<1>2. Returned(e, none, v, Done(e, v))
  <2>1. Returned(e, e.polls, v, Done(e, v))
    BY <1>1, DoneRecord
  <2> QED BY <1>1, <2>1
<1>3. Returned(c, none, v, Done(e, v))
  BY <1>1, <1>2 DEF Returned
<1> QED BY <1>3 DEF e

LEMMA DoneIsGood ==
  ASSUME NEW c \in CallRecords, NEW v \in Verdicts \ {"receipt"}, c.op = "wait" => v # "error",
         GoodCall(c)
  PROVE  LET d == Done([c EXCEPT !.polls = <<>>], v)
         IN  d \in CallRecords /\ d # NoCall /\ GoodCall(d)
<1> DEFINE none == <<>>
           d == Done([c EXCEPT !.polls = none], v)
<1>1. ~Failed(none)
  <2>1. Len(<<"failed", "failed", "failed">>) = 3 /\ Len(none) = 0
    OBVIOUS
  <2> QED BY <2>1 DEF Failed
<1>2. none = <<>> /\ none \in Seq(PollAnswers)
  OBVIOUS
<1> HIDE DEF none
<1>3. Returned(c, none, v, d)
  BY <1>2, Empties
<1> HIDE DEF d
<1>4. /\ d \in CallRecords /\ d.at = "done" /\ d.verdict = v /\ d.polls = none
      /\ d.op = c.op /\ d.sent = c.sent
  BY <1>3 DEF Returned
<1>5. NoCall.at = "none"
  BY DEF NoCall
<1>6. d.op = "wait" => Verdict(d)
  BY <1>1, <1>2, <1>4 DEF Verdict
<1>7. GoodCall(d)
  BY <1>4, <1>6 DEF GoodCall
<1>8. d \in CallRecords /\ d # NoCall /\ GoodCall(d)
  BY <1>4, <1>5, <1>7
<1> QED BY <1>8 DEF d, none

\* A poll goes on the record of the last three.
Kept(seen) == IF Len(seen) > 3 THEN Tail(seen) ELSE seen

\* kept is what is left of m polls once answer has followed the n in polls.
KeptIs(polls, n, answer, kept, m) ==
  /\ kept \in Seq(PollAnswers) /\ m = Len(kept) /\ m \in Nat
  /\ kept[m] = answer
  /\ n = 3 => m = 3 /\ \A k \in 1 .. 2 : kept[k] = polls[k + 1]
  /\ n # 3 => m = n + 1 /\ \A k \in 1 .. n : kept[k] = polls[k]

LEMMA KeptOf ==
  ASSUME NEW seen \in Seq(PollAnswers), NEW polls, NEW n \in Nat, n <= 3, Len(seen) = n + 1,
         NEW answer, seen[n + 1] = answer, \A k \in 1 .. n : seen[k] = polls[k]
  PROVE  KeptIs(polls, n, answer, Kept(seen), Len(Kept(seen)))
<1> DEFINE tail == Tail(seen)
           m == Len(tail)
           kept == Kept(seen)
<1>1. seen # <<>>
  BY EmptySeq
<1>2. tail \in Seq(PollAnswers) /\ m = n /\ \A i \in 1 .. m : tail[i] = seen[i + 1]
  BY <1>1, HeadTailProperties
<1>3. m = Len(tail)
  OBVIOUS
<1>4. kept = Kept(seen)
  OBVIOUS
<1> HIDE DEF tail, m, kept
<1> SUFFICES KeptIs(polls, n, answer, kept, Len(kept))
  BY <1>4
<1>5. CASE n = 3
  <2>1. kept = tail
    BY <1>4, <1>5 DEF Kept, tail
  <2>2. tail[3] = answer
    <3>1. 3 \in 1 .. m
      BY <1>2, <1>5
    <3> QED BY <1>2, <1>5, <3>1
  <2>3. ASSUME NEW k \in 1 .. 2 PROVE tail[k] = polls[k + 1]
    <3>1. k \in 1 .. m /\ k + 1 \in 1 .. n
      BY <1>2, <1>5
    <3> QED BY <1>2, <3>1
  <2>4. KeptIs(polls, n, answer, tail, m)
    BY <1>2, <1>3, <1>5, <2>2, <2>3 DEF KeptIs
  <2> QED BY <1>3, <2>1, <2>4
<1>6. CASE n # 3
  <2>1. kept = seen
    BY <1>4, <1>6 DEF Kept
  <2> QED BY <1>6, <2>1 DEF KeptIs
<1> QED BY <1>5, <1>6

LEMMA KeptAfter ==
  ASSUME NEW polls \in Seq(PollAnswers), NEW n \in Nat, n = Len(polls), n <= 3,
         NEW answer \in PollAnswers
  PROVE  LET kept == Kept(Append(polls, answer))
         IN  KeptIs(polls, n, answer, kept, Len(kept))
<1> DEFINE seen == Append(polls, answer)
<1>1. /\ seen \in Seq(PollAnswers) /\ Len(seen) = n + 1 /\ seen[n + 1] = answer
      /\ \A k \in 1 .. n : seen[k] = polls[k]
  BY AppendProperties
<1> HIDE DEF seen
<1>2. KeptIs(polls, n, answer, Kept(seen), Len(Kept(seen)))
  BY <1>1, KeptOf
<1> QED BY <1>2 DEF seen

\* The count of failures in a row follows the record.
LEMMA StreakGoesOn ==
  ASSUME NEW polls \in Seq(PollAnswers), NEW n \in Nat, n = Len(polls),
         NEW e \in Nat, StreakOf(polls, e),
         NEW answer, NEW kept, KeptIs(polls, n, answer, kept, Len(kept))
  PROVE  /\ answer = "null" => StreakOf(kept, 0)
         /\ answer = "failed" /\ e + 1 < 3 => StreakOf(kept, e + 1)
         /\ answer = "failed" /\ e + 1 >= 3 => Failed(kept)
<1> DEFINE m == Len(kept)
<1>1. /\ e < 3 /\ e <= n /\ n <= 3
      /\ \A k \in 1 .. n : k > n - e => polls[k] = "failed"
      /\ e < n => polls[n - e] = "null"
  BY DEF StreakOf, MAX_CONSECUTIVE_RECEIPT_ERRORS
<1>2. /\ kept \in Seq(PollAnswers) /\ m = Len(kept) /\ m \in Nat
      /\ kept[m] = answer
      /\ n = 3 => m = 3 /\ \A k \in 1 .. 2 : kept[k] = polls[k + 1]
      /\ n # 3 => m = n + 1 /\ \A k \in 1 .. n : kept[k] = polls[k]
  BY DEF KeptIs
<1>3. ASSUME NEW f, f < 3, f <= m, m <= 3,
             \A k \in 1 .. m : k > m - f => kept[k] = "failed",
             f < m => kept[m - f] = "null"
      PROVE  StreakOf(kept, f)
  BY <1>3 DEF StreakOf, MAX_CONSECUTIVE_RECEIPT_ERRORS
<1> HIDE DEF m
<1>4. m <= 3
  BY <1>1, <1>2
<1>5. ASSUME answer = "null" PROVE StreakOf(kept, 0)
  BY <1>2, <1>3, <1>4, <1>5
<1>6. ASSUME answer = "failed", NEW k \in 1 .. m, k > m - (e + 1)
      PROVE  kept[k] = "failed"
  <2>1. CASE k = m
    BY <1>2, <1>6, <2>1
  <2>2. CASE k # m
    BY <1>1, <1>2, <1>6, <2>2
  <2> QED BY <2>1, <2>2
<1>7. ASSUME answer = "failed", e + 1 < 3 PROVE StreakOf(kept, e + 1)
  <2>1. ASSUME e + 1 < m PROVE kept[m - (e + 1)] = "null"
    BY <1>1, <1>2, <1>7, <2>1
  <2>2. e + 1 <= m
    BY <1>1, <1>2, <1>7
  <2> QED BY <1>3, <1>4, <1>6, <1>7, <2>1, <2>2
<1>8. ASSUME answer = "failed", e + 1 >= 3 PROVE Failed(kept)
  <2>1. m = 3
    BY <1>1, <1>2, <1>8
  <2>2. \A k \in 1 .. m : k > m - (e + 1)
    BY <1>8, <2>1
  <2> DEFINE three == <<"failed", "failed", "failed">>
  <2>3. three \in Seq(PollAnswers) /\ Len(three) = 3 /\ \A k \in 1 .. 3 : three[k] = "failed"
    BY DEF PollAnswers
  <2> HIDE DEF three
  <2>4. \A k \in 1 .. m : kept[k] = three[k]
    BY <1>6, <1>8, <2>1, <2>2, <2>3
  <2>5. kept = three
    BY <1>2, <2>1, <2>3, <2>4, SeqEqual
  <2> QED BY <2>5 DEF Failed, three
<1> QED BY <1>5, <1>7, <1>8

LEMMA KeptEnds ==
  ASSUME NEW polls, NEW n \in Nat, NEW answer, NEW kept, KeptIs(polls, n, answer, kept, Len(kept))
  PROVE  kept \in Seq(PollAnswers) /\ kept # <<>> /\ Last(kept) = answer
         /\ (Failed(kept) => answer = "failed")
<1> DEFINE m == Len(kept)
<1>1. /\ kept \in Seq(PollAnswers) /\ m \in Nat /\ m # 0 /\ kept[m] = answer
      /\ n # 3 => m = n + 1
      /\ n = 3 => m = 3
  BY DEF KeptIs
<1>2. kept # <<>>
  BY <1>1, EmptySeq
<1>3. Last(kept) = answer
  BY <1>1 DEF Last
<1>4. Failed(kept) => answer = "failed"
  BY <1>1 DEF Failed
<1> QED BY <1>1, <1>2, <1>3, <1>4

\* What an answer makes of a poll.
AfterPoll(c, ending) ==
  LET errors == consecutive_errors(c.errors, ending)
      gives_up == errors >= MAX_CONSECUTIVE_RECEIPT_ERRORS
      seen == Append(c.polls, IF ending \in {"error", "lost"} THEN "failed" ELSE ending)
      polled == [c EXCEPT !.polls = IF Len(seen) > 3 THEN Tail(seen) ELSE seen]
  IN  IF ending = "result" THEN Done(polled, "receipt")
      ELSE IF gives_up THEN Done(polled, "error")
      ELSE [polled EXCEPT !.errors = errors, !.at = "head"]

LEMMA PolledIsGood ==
  ASSUME NEW c \in CallRecords, c.op = "wait", Streak(c), NEW ending \in Endings
  PROVE  LET d == AfterPoll(c, ending) IN d \in CallRecords /\ d # NoCall /\ GoodCall(d)
<1> DEFINE d == AfterPoll(c, ending)
           answer == IF ending \in {"error", "lost"} THEN "failed" ELSE ending
           errors == consecutive_errors(c.errors, ending)
           kept == Kept(Append(c.polls, answer))
           polled == [c EXCEPT !.polls = kept]
           n == Len(c.polls)
<1>1. /\ c.polls \in Seq(PollAnswers) /\ c.errors \in Nat /\ n \in Nat /\ n = Len(c.polls)
      /\ n <= 3 /\ StreakOf(c.polls, c.errors) /\ c.verdict = None
  BY LenProperties DEF CallRecords, Streak, StreakOf, MAX_CONSECUTIVE_RECEIPT_ERRORS
<1>2. answer \in PollAnswers
  BY DEF PollAnswers, Endings, Answers
<1>3. d = IF ending = "result" THEN Done(polled, "receipt")
          ELSE IF errors >= 3 THEN Done(polled, "error")
          ELSE [polled EXCEPT !.errors = errors, !.at = "head"]
  BY DEF AfterPoll, Kept, MAX_CONSECUTIVE_RECEIPT_ERRORS
<1>4. errors = IF ending = "null" THEN 0 ELSE c.errors + 1
  BY DEF consecutive_errors
<1>5. /\ ending = "result" => answer = "result"
      /\ ending = "null" => answer = "null"
      /\ ending # "result" /\ ending # "null" => answer = "failed"
  BY DEF Endings, Answers
<1> HIDE DEF answer, n, errors
<1>6. KeptIs(c.polls, n, answer, kept, Len(kept))
  BY <1>1, <1>2, KeptAfter
<1> HIDE DEF kept
<1>7. /\ kept \in Seq(PollAnswers) /\ kept # <<>> /\ Last(kept) = answer
      /\ Failed(kept) => answer = "failed"
  BY <1>1, <1>6, KeptEnds
<1>8. /\ answer = "null" => StreakOf(kept, 0)
      /\ answer = "failed" /\ c.errors + 1 < 3 => StreakOf(kept, c.errors + 1)
      /\ answer = "failed" /\ c.errors + 1 >= 3 => Failed(kept)
  BY <1>1, <1>6, StreakGoesOn
<1>9. /\ polled \in CallRecords /\ polled.polls = kept /\ polled.op = "wait"
      /\ polled.verdict = None
  BY <1>1, <1>7, PollsRecord
<1> HIDE DEF polled
<1>10. NoCall.op = "none"
  BY DEF NoCall
<1>11. ASSUME NEW v \in {"receipt", "error"}, d = Done(polled, v),
              (answer = "failed" /\ Failed(kept) /\ v = "error") \/ (answer = "result" /\ v = "receipt")
       PROVE  d \in CallRecords /\ d # NoCall /\ GoodCall(d)
  <2>1. Returned(polled, kept, v, d)
    <3>1. v \in Verdicts
      BY DEF Verdicts
    <3> QED BY <1>9, <1>11, <3>1, DoneRecord
  <2>2. /\ d \in CallRecords /\ d.op = "wait" /\ d.at = "done" /\ d.verdict = v
        /\ d.polls = kept
    BY <1>9, <2>1 DEF Returned
  <2>3. Verdict(d)
    BY <1>7, <1>11, <2>2 DEF Verdict
  <2> QED BY <1>10, <2>2, <2>3 DEF GoodCall
<1>12. CASE ending = "result"
  BY <1>3, <1>5, <1>11, <1>12
<1>13. CASE ending # "result" /\ errors >= 3
  <2>1. ending # "null"
    BY <1>4, <1>13
  <2>2. answer = "failed" /\ Failed(kept)
    BY <1>4, <1>5, <1>8, <1>13, <2>1
  <2> QED BY <1>3, <1>11, <1>13, <2>2
<1>14. CASE ending # "result" /\ ~(errors >= 3)
  <2>1. errors \in Nat /\ StreakOf(kept, errors)
    BY <1>1, <1>4, <1>5, <1>8, <1>14
  <2>2. d = [polled EXCEPT !.errors = errors, !.at = "head"]
    BY <1>3, <1>14
  <2>3. /\ d \in CallRecords /\ d.op = "wait" /\ d.at = "head" /\ d.errors = errors
        /\ d.polls = kept /\ d.verdict = None
    BY <1>9, <2>1, <2>2 DEF CallRecords
  <2>4. Streak(d)
    BY <2>1, <2>3 DEF Streak
  <2> QED BY <1>10, <2>3, <2>4 DEF GoodCall
<1> QED BY <1>12, <1>13, <1>14
-----------------------------------------------------------------------------
(* A step keeps the invariant *)

LEMMA RpcHolds ==
  ASSUME IInv
  PROVE  RpcInv
BY DEF IInv, TypeInv, RpcInv

\* Who has a call has a wallet.
LEMMA CallsNeedAWallet ==
  ASSUME IInv, NEW n \in 1 .. MaxCalls, calls[n] # NoCall \/ builder.at = "built"
  PROVE  /\ builder.at = "built" /\ calls[n] \in CallRecords /\ GoodCall(calls[n])
         /\ WalletInv /\ wallet.rpc_client = 1 /\ wallet.batch_client \in Seq(Nat)
         /\ RpcInv /\ n \in Callers
<1>1. builder.at = "built"
  BY DEF IInv, BuildInv
<1>2. wallet.rpc_client = 1 /\ wallet.batch_client \in Seq(Nat)
  BY DEF IInv, TypeInv, Wallets
<1> QED BY <1>1, <1>2, RpcHolds DEF IInv, TypeInv, BuildInv, CallsInv, Callers

LEMMA OpensKeep ==
  ASSUME RpcInv, NEW n \in Callers, NEW T, T \subseteq DOMAIN clients, Open(n, T),
         UNCHANGED <<clients, last_success, heard>>
  PROVE  RpcInv' /\ \A m \in 1 .. MaxCalls : m # n => Opened(m)' \subseteq Opened(m)
<1>1. requests' = requests \cup {[call |-> n, client |-> i] : i \in T}
  BY DEF Open
<1>2. requests' \subseteq [call : Callers, client : DOMAIN clients]
  BY <1>1 DEF RpcInv
<1>3. \A m \in 1 .. MaxCalls : m # n => Opened(m)' \subseteq Opened(m)
  BY <1>1 DEF Opened
<1>4. MemoryInv'
  BY DEF RpcInv, MemoryInv, Target, Distinct
<1> QED BY <1>2, <1>3, <1>4 DEF RpcInv

\* A step of call n, which may open requests and end others'.
LEMMA CallMoves ==
  ASSUME IInv, builder.at = "built", NEW n \in 1 .. MaxCalls,
         NEW c \in CallRecords, c # NoCall, GoodCall(c), calls' = [calls EXCEPT ![n] = c],
         UNCHANGED <<builder, wallet, meant, clients>>, RpcInv',
         \A m \in 1 .. MaxCalls : m # n => Opened(m)' \subseteq Opened(m)
  PROVE  IInv'
<1>1. calls \in [1 .. MaxCalls -> CallRecords]
  BY DEF IInv, TypeInv
<1>2. /\ calls' \in [1 .. MaxCalls -> CallRecords] /\ calls'[n] = c
      /\ \A m \in 1 .. MaxCalls : m # n => calls'[m] = calls[m]
  BY <1>1
<1>3. TypeInv' /\ MemoryInv'
  BY <1>2 DEF IInv, TypeInv, RpcInv
<1>4. BuildInv'
  BY DEF IInv, BuildInv, WalletInv, Exclusive
<1>5. RequestsInv'
  <2> SUFFICES ASSUME NEW m \in 1 .. MaxCalls, calls'[m] = NoCall PROVE Opened(m)' = {}
    BY DEF RequestsInv
  <2>1. m # n /\ calls[m] = NoCall
    BY <1>2
  <2>2. Opened(m) = {}
    BY <2>1 DEF IInv, RequestsInv
  <2> QED BY <2>1, <2>2
<1>6. CallsInv'
  <2> SUFFICES ASSUME NEW m \in 1 .. MaxCalls PROVE GoodCall(calls[m])'
    BY DEF CallsInv
  <2>1. CASE m = n
    BY <1>2, <2>1 DEF GoodCall, Verdict, Failed, Streak, StreakOf
  <2>2. CASE m # n
    BY <1>2, <2>2 DEF GoodCall, IInv, CallsInv, Verdict, Failed, Streak, StreakOf
  <2> QED BY <2>1, <2>2
<1> QED BY <1>3, <1>4, <1>5, <1>6 DEF IInv

\* A step that moves no call.
LEMMA CallsStay ==
  ASSUME IInv, UNCHANGED <<builder, wallet, meant, clients, calls>>, RpcInv',
         requests' \subseteq requests
  PROVE  IInv'
<1>1. TypeInv' /\ MemoryInv'
  BY DEF IInv, TypeInv, RpcInv
<1>2. BuildInv'
  <2>1. CASE builder.at = "open"
    <3>1. last_success' = <<>>
      BY <2>1 DEF IInv, BuildInv, RpcInv
    <3> QED BY <2>1, <3>1 DEF IInv, BuildInv
  <2>2. CASE builder.at # "open"
    BY <2>2 DEF IInv, BuildInv, WalletInv, Exclusive
  <2> QED BY <2>1, <2>2
<1>3. RequestsInv'
  BY DEF IInv, RequestsInv, Opened
<1>4. CallsInv'
  BY DEF IInv, CallsInv, GoodCall, Verdict, Failed, Streak, StreakOf
<1> QED BY <1>1, <1>2, <1>3, <1>4 DEF IInv
-----------------------------------------------------------------------------
(* Calls *)

LEMMA CallStarts ==
  ASSUME IInv, NEW n \in 1 .. MaxCalls, Starts(n)
  PROVE  /\ calls[n] = NoCall /\ NoCall \in CallRecords /\ builder.at = "built"
         /\ calls[n].polls = <<>> /\ calls[n].errors = 0 /\ calls[n].verdict = None
         /\ WalletInv /\ wallet.rpc_client = 1 /\ wallet.batch_client \in Seq(Nat)
         /\ RpcInv /\ n \in Callers
BY CallsNeedAWallet DEF Starts, NoCall

\* The clients that see signed bytes are the wallet's, each once, and reach the set.
LEMMA BroadcastersReach ==
  ASSUME RpcInv, WalletInv, wallet.rpc_client = 1, wallet.batch_client \in Seq(Nat),
         NEW sent, sent = [k \in DOMAIN Broadcasters |-> Target(Broadcasters[k])]
  PROVE  /\ Range(Broadcasters) \subseteq DOMAIN clients
         /\ sent \in Seq(Targets) /\ IsInjective(sent) /\ Range(sent) = meant
<1> DEFINE b == Broadcasters
           one == <<1>>
<1>1. /\ b \in Seq(Nat) /\ IsInjective(b)
      /\ Range(b) = IF wallet.batch_client = <<>> THEN {1} ELSE Range(wallet.batch_client)
  <2>1. CASE wallet.batch_client = <<>>
    <3>1. one \in Seq(Nat) /\ IsInjective(one) /\ Range(one) = {1}
      BY DEF IsInjective, Range
    <3>2. b = one
      BY <2>1 DEF Broadcasters
    <3> HIDE DEF one, b
    <3> QED BY <2>1, <3>1, <3>2
  <2>2. CASE wallet.batch_client # <<>>
    <3>1. b = wallet.batch_client
      BY <2>2 DEF Broadcasters
    <3> HIDE DEF b
    <3> QED BY <2>2, <3>1 DEF WalletInv
  <2> QED BY <2>1, <2>2
<1>2. sent = [k \in DOMAIN b |-> Target(b[k])]
  OBVIOUS
<1> HIDE DEF b
<1>3. Range(b) \subseteq DOMAIN clients
  BY <1>1 DEF WalletInv
<1>4. DOMAIN b = 1 .. Len(b) /\ Len(b) \in Nat /\ \A k \in DOMAIN b : b[k] \in Range(b)
  BY <1>1, LenProperties DEF Range
<1>5. \A i \in DOMAIN clients : Target(i) \in Targets
  BY TargetsAre DEF RpcInv
<1>6. sent \in [1 .. Len(b) -> Targets]
  BY <1>2, <1>3, <1>4, <1>5
<1>7. sent \in Seq(Targets)
  BY <1>4, <1>6, IsASeq
<1>8. IsInjective(sent)
  <2> SUFFICES ASSUME NEW j \in DOMAIN b, NEW k \in DOMAIN b, Target(b[j]) = Target(b[k])
               PROVE  j = k
    BY <1>2 DEF IsInjective
  <2>1. b[j] = b[k]
    BY <1>3, <1>4, DistinctTargets
  <2> QED BY <1>1, <2>1 DEF IsInjective
<1>9. Range(sent) = meant
  <2>1. Range(sent) = {Target(i) : i \in Range(b)}
    BY <1>2 DEF Range
  <2>2. meant = {normalized_url(clients[i]) : i \in Range(b)}
    BY <1>1 DEF WalletInv, Reached
  <2> QED BY <2>1, <2>2 DEF Target
<1> QED BY <1>3, <1>7, <1>8, <1>9 DEF b

LEMMA WarmupStarts ==
  ASSUME IInv, NEW n \in 1 .. MaxCalls, warmup_connections(n)
  PROVE  IInv'
<1> DEFINE c == [NoCall EXCEPT !.op = "warmup", !.at = "primary"]
<1>1. /\ c \in CallRecords /\ c # NoCall /\ c.op = "warmup"
      /\ calls' = [calls EXCEPT ![n] = c]
  BY CallStarts DEF warmup_connections, CallRecords, NoCall
<1>2. {i \in {wallet.rpc_client} : probe_due(i)} \subseteq DOMAIN clients
  BY CallStarts DEF warmup_connections, WalletInv
<1> HIDE DEF c
<1>3. RpcInv' /\ \A m \in 1 .. MaxCalls : m # n => Opened(m)' \subseteq Opened(m)
  BY <1>2, CallStarts, OpensKeep DEF warmup_connections
<1>4. GoodCall(c)
  BY <1>1 DEF GoodCall
<1> QED BY <1>1, <1>3, <1>4, CallStarts, CallMoves DEF warmup_connections

LEMMA BatchWarms ==
  ASSUME IInv, NEW n \in 1 .. MaxCalls, WarmupBatch(n)
  PROVE  IInv'
<1> DEFINE c == [calls[n] EXCEPT !.at = "batch"]
<1>1. calls[n].op = "warmup" /\ calls[n] # NoCall
  BY DEF WarmupBatch, At, NoCall
<1>2. /\ builder.at = "built" /\ calls[n] \in CallRecords /\ RpcInv /\ n \in Callers
      /\ Range(wallet.batch_client) \subseteq DOMAIN clients
  BY <1>1, CallsNeedAWallet DEF WalletInv
<1>3. c \in CallRecords /\ c.op = "warmup" /\ c # NoCall
  BY <1>1, <1>2 DEF CallRecords, NoCall
<1>4. calls' = [calls EXCEPT ![n] = c]
  BY DEF WarmupBatch, Goes
<1> HIDE DEF c
<1>5. RpcInv' /\ \A m \in 1 .. MaxCalls : m # n => Opened(m)' \subseteq Opened(m)
  <2>1. {i \in Range(wallet.batch_client) : probe_due(i)} \subseteq DOMAIN clients
    BY <1>2
  <2> QED BY <1>2, <2>1, OpensKeep DEF WarmupBatch
<1>6. GoodCall(c)
  BY <1>3 DEF GoodCall
<1> QED BY <1>2, <1>3, <1>4, <1>5, <1>6, CallMoves DEF WarmupBatch

\* A call returns, with the memory as its last answer left it.
LEMMA Finishes ==
  ASSUME IInv, NEW n \in 1 .. MaxCalls, calls[n] # NoCall,
         NEW v \in Verdicts \ {"receipt"}, calls[n].op = "wait" => v # "error", Returns(n, v),
         UNCHANGED <<builder, wallet, meant, clients>>, RpcInv', requests' \subseteq requests
  PROVE  IInv'
<1> DEFINE c == Done([calls[n] EXCEPT !.polls = <<>>], v)
<1>1. builder.at = "built" /\ calls[n] \in CallRecords /\ GoodCall(calls[n])
  BY CallsNeedAWallet
<1>2. c \in CallRecords /\ c # NoCall /\ GoodCall(c)
  BY <1>1, DoneIsGood
<1>3. calls' = [calls EXCEPT ![n] = c]
  BY DEF Returns
<1> HIDE DEF c
<1>4. \A m \in 1 .. MaxCalls : m # n => Opened(m)' \subseteq Opened(m)
  BY DEF Opened
<1> QED BY <1>1, <1>2, <1>3, <1>4, CallMoves

LEMMA SameMemory ==
  ASSUME IInv, UNCHANGED rpcVars
  PROVE  RpcInv' /\ requests' \subseteq requests
BY RpcHolds DEF rpcVars, RpcInv, MemoryInv, Target, Distinct

LEMMA WarmupEnds ==
  ASSUME IInv, NEW n \in 1 .. MaxCalls, WarmupReturns(n)
  PROVE  IInv'
<1>1. calls[n].op = "warmup" /\ calls[n] # NoCall
  BY DEF WarmupReturns, At, NoCall
<1>2. "ok" \in Verdicts \ {"receipt"} /\ UNCHANGED rpcVars
  BY DEF Verdicts, WarmupReturns, rpcVars
<1> QED BY <1>1, <1>2, SameMemory, Finishes DEF WarmupReturns, rpcVars

LEMMA ProbeAnswered ==
  ASSUME IInv, NEW n \in 1 .. MaxCalls, NEW r \in requests, Probed(n, r)
  PROVE  IInv'
<1>1. PICK ending \in Endings : request_with_detail(r, ending)
  BY DEF Probed
<1>2. RpcInv' /\ requests' \subseteq requests /\ clients' = clients
  BY <1>1, RpcHolds, AnswersAreHeard
<1> QED BY <1>2, CallsStay DEF Probed

LEMMA SendStarts ==
  ASSUME IInv, NEW n \in 1 .. MaxCalls, send(n)
  PROVE  IInv'
<1> DEFINE sent == [k \in DOMAIN Broadcasters |-> Target(Broadcasters[k])]
           c == [NoCall EXCEPT !.op = "send", !.at = "sent", !.sent = sent]
<1>1. /\ calls[n] = NoCall /\ NoCall \in CallRecords /\ builder.at = "built"
      /\ WalletInv /\ wallet.rpc_client = 1 /\ wallet.batch_client \in Seq(Nat)
      /\ RpcInv /\ n \in Callers
  BY CallStarts DEF send
<1>2. calls' = [calls EXCEPT ![n] = c]
  BY <1>1 DEF send
<1>3. /\ Range(Broadcasters) \subseteq DOMAIN clients
      /\ sent \in Seq(Targets) /\ IsInjective(sent) /\ Range(sent) = meant
  BY <1>1, BroadcastersReach
<1> HIDE DEF sent
<1>4. c \in CallRecords /\ c # NoCall /\ c.op = "send" /\ c.sent = sent
  BY <1>1, <1>3 DEF CallRecords, NoCall
<1> HIDE DEF c
<1>5. RpcInv' /\ \A m \in 1 .. MaxCalls : m # n => Opened(m)' \subseteq Opened(m)
  BY <1>1, <1>3, OpensKeep DEF send
<1>6. GoodCall(c)
  BY <1>3, <1>4 DEF GoodCall
<1> QED BY <1>1, <1>2, <1>4, <1>5, <1>6, CallMoves DEF send

LEMMA SendIsAnswered ==
  ASSUME IInv, NEW n \in 1 .. MaxCalls, NEW r \in requests, SendAnswered(n, r)
  PROVE  IInv'
<1>1. calls[n].op = "send" /\ calls[n] # NoCall /\ UNCHANGED <<builder, wallet, meant>>
  BY DEF SendAnswered, NoCall
<1>2. PICK ending \in Endings :
        /\ request_with_detail(r, ending)
        /\ Returns(n, "ok") \/ Returns(n, "error") \/ UNCHANGED calls
  BY DEF SendAnswered
<1>3. RpcInv' /\ requests' \subseteq requests /\ clients' = clients
  BY <1>2, RpcHolds, AnswersAreHeard
<1>4. CASE UNCHANGED calls
  BY <1>1, <1>3, <1>4, CallsStay
<1>5. ASSUME NEW v \in {"ok", "error"}, Returns(n, v) PROVE IInv'
  <2>1. v \in Verdicts \ {"receipt"}
    BY DEF Verdicts
  <2> QED BY <1>1, <1>3, <1>5, <2>1, Finishes
<1> QED BY <1>2, <1>4, <1>5

LEMMA ReadStarts ==
  ASSUME IInv, NEW n \in 1 .. MaxCalls, read(n)
  PROVE  IInv'
<1> DEFINE c == [NoCall EXCEPT !.op = "read", !.at = "asked"]
<1>1. /\ c \in CallRecords /\ c # NoCall /\ c.op = "read"
      /\ calls' = [calls EXCEPT ![n] = c]
  BY CallStarts DEF read, CallRecords, NoCall
<1>2. PICK i \in {wallet.rpc_client, wallet.gas_rpc_client} : Open(n, {i})
  BY DEF read
<1>3. {i} \subseteq DOMAIN clients
  BY <1>2, CallStarts DEF read, WalletInv
<1> HIDE DEF c
<1>4. RpcInv' /\ \A m \in 1 .. MaxCalls : m # n => Opened(m)' \subseteq Opened(m)
  BY <1>2, <1>3, CallStarts, OpensKeep DEF read
<1>5. GoodCall(c)
  BY <1>1 DEF GoodCall
<1> QED BY <1>1, <1>4, <1>5, CallStarts, CallMoves DEF read

LEMMA ReadIsAnswered ==
  ASSUME IInv, NEW n \in 1 .. MaxCalls, NEW r \in requests, ReadAnswered(n, r)
  PROVE  IInv'
<1>1. calls[n].op = "read" /\ calls[n] # NoCall /\ UNCHANGED <<builder, wallet, meant>>
  BY DEF ReadAnswered, At, NoCall
<1>2. PICK ending \in Endings :
        /\ request_with_detail(r, ending)
        /\ Returns(n, "ok") \/ Returns(n, "error")
  BY DEF ReadAnswered
<1>3. RpcInv' /\ requests' \subseteq requests /\ clients' = clients
  BY <1>2, RpcHolds, AnswersAreHeard
<1>4. ASSUME NEW v \in {"ok", "error"}, Returns(n, v) PROVE IInv'
  <2>1. v \in Verdicts \ {"receipt"}
    BY DEF Verdicts
  <2> QED BY <1>1, <1>3, <1>4, <2>1, Finishes
<1> QED BY <1>2, <1>4

LEMMA WaitStarts ==
  ASSUME IInv, NEW n \in 1 .. MaxCalls, wait_for_receipt(n)
  PROVE  IInv'
<1> DEFINE c == [NoCall EXCEPT !.op = "wait", !.at = "head"]
           none == <<>>
<1>1. /\ c \in CallRecords /\ c # NoCall /\ c.op = "wait" /\ c.at = "head"
      /\ c.verdict = None /\ c.errors = 0 /\ c.polls = none
      /\ calls' = [calls EXCEPT ![n] = c]
  BY CallStarts DEF wait_for_receipt, CallRecords, NoCall
<1>2. Len(none) = 0
  OBVIOUS
<1> HIDE DEF c, none
<1>3. StreakOf(none, 0)
  BY <1>2 DEF StreakOf, MAX_CONSECUTIVE_RECEIPT_ERRORS
<1>4. GoodCall(c)
  BY <1>1, <1>3 DEF GoodCall, Streak
<1>5. RpcInv' /\ requests' \subseteq requests /\ UNCHANGED <<builder, wallet, meant, clients>>
  BY SameMemory DEF wait_for_receipt, rpcVars
<1>6. \A m \in 1 .. MaxCalls : m # n => Opened(m)' \subseteq Opened(m)
  BY <1>5 DEF Opened
<1>7. builder.at = "built"
  BY CallStarts DEF wait_for_receipt
<1> QED BY <1>1, <1>4, <1>5, <1>6, <1>7, CallMoves

LEMMA TimeElapses ==
  ASSUME IInv, NEW n \in 1 .. MaxCalls, Elapse(n)
  PROVE  IInv'
<1> DEFINE c == [calls[n] EXCEPT !.elapsed = TRUE]
<1>1. calls[n].op = "wait" /\ calls[n] # NoCall
  BY DEF Elapse, NoCall
<1>2. builder.at = "built" /\ calls[n] \in CallRecords /\ GoodCall(calls[n])
  BY <1>1, CallsNeedAWallet
<1>3. /\ c \in CallRecords /\ c.op = "wait" /\ c.at = calls[n].at /\ c.polls = calls[n].polls
      /\ c.errors = calls[n].errors /\ c.verdict = calls[n].verdict
  BY <1>1, <1>2 DEF CallRecords
<1>4. calls' = [calls EXCEPT ![n] = c]
  BY DEF Elapse
<1> HIDE DEF c
<1>5. GoodCall(c) /\ c # NoCall
  BY <1>1, <1>2, <1>3 DEF GoodCall, Verdict, Streak, NoCall
<1>6. RpcInv' /\ requests' \subseteq requests /\ UNCHANGED <<builder, wallet, meant, clients>>
  BY SameMemory DEF Elapse, rpcVars
<1>7. \A m \in 1 .. MaxCalls : m # n => Opened(m)' \subseteq Opened(m)
  BY <1>6 DEF Opened
<1> QED BY <1>2, <1>3, <1>4, <1>5, <1>6, <1>7, CallMoves

LEMMA WaitGivesUp ==
  ASSUME IInv, NEW n \in 1 .. MaxCalls, WaitTimesOut(n)
  PROVE  IInv'
<1>1. calls[n].op = "wait" /\ calls[n] # NoCall
  BY DEF WaitTimesOut, At, NoCall
<1>2. "timeout" \in Verdicts \ {"receipt"} /\ UNCHANGED rpcVars
  BY DEF Verdicts, WaitTimesOut, rpcVars
<1> QED BY <1>1, <1>2, SameMemory, Finishes DEF WaitTimesOut, rpcVars

LEMMA WaitPolls ==
  ASSUME IInv, NEW n \in 1 .. MaxCalls, Poll(n)
  PROVE  IInv'
<1> DEFINE c == [calls[n] EXCEPT !.at = "polling"]
<1>1. calls[n].op = "wait" /\ calls[n].at = "head" /\ calls[n] # NoCall
  BY DEF Poll, At, NoCall
<1>2. /\ builder.at = "built" /\ calls[n] \in CallRecords /\ RpcInv /\ n \in Callers
      /\ {wallet.rpc_client} \subseteq DOMAIN clients
      /\ GoodCall(calls[n])
  BY <1>1, CallsNeedAWallet DEF WalletInv
<1>3. /\ c \in CallRecords /\ c.op = "wait" /\ c.at = "polling" /\ c.polls = calls[n].polls
      /\ c.errors = calls[n].errors /\ c.verdict = calls[n].verdict
  BY <1>1, <1>2 DEF CallRecords
<1>4. calls' = [calls EXCEPT ![n] = c]
  BY DEF Poll, Goes
<1> HIDE DEF c
<1>5. RpcInv' /\ \A m \in 1 .. MaxCalls : m # n => Opened(m)' \subseteq Opened(m)
  BY <1>2, OpensKeep DEF Poll
<1>6. GoodCall(c) /\ c # NoCall
  BY <1>1, <1>2, <1>3 DEF GoodCall, Streak, NoCall
<1> QED BY <1>2, <1>3, <1>4, <1>5, <1>6, CallMoves DEF Poll

LEMMA PollIsAnswered ==
  ASSUME IInv, NEW n \in 1 .. MaxCalls, NEW r \in requests, Polled(n, r)
  PROVE  IInv'
<1>1. calls[n].op = "wait" /\ calls[n].at = "polling" /\ calls[n] # NoCall
  BY DEF Polled, At, NoCall
<1>2. builder.at = "built" /\ calls[n] \in CallRecords /\ Streak(calls[n])
  BY <1>1, CallsNeedAWallet DEF GoodCall
<1>3. PICK ending \in Endings :
        /\ request_with_detail(r, ending)
        /\ calls' = [calls EXCEPT ![n] = AfterPoll(calls[n], ending)]
  BY DEF Polled, AfterPoll
<1> DEFINE c == AfterPoll(calls[n], ending)
<1>4. c \in CallRecords /\ c # NoCall /\ GoodCall(c)
  BY <1>1, <1>2, PolledIsGood
<1>5. calls' = [calls EXCEPT ![n] = c]
  BY <1>3
<1> HIDE DEF c
<1>6. RpcInv' /\ requests' \subseteq requests /\ clients' = clients
  BY <1>3, RpcHolds, AnswersAreHeard
<1>7. \A m \in 1 .. MaxCalls : m # n => Opened(m)' \subseteq Opened(m)
  BY <1>6 DEF Opened
<1> QED BY <1>2, <1>4, <1>5, <1>6, <1>7, CallMoves DEF Polled

LEMMA CallIsDropped ==
  ASSUME IInv, NEW n \in 1 .. MaxCalls, Abandon(n)
  PROVE  IInv'
<1>1. "dropped" \in Verdicts \ {"receipt"}
  BY DEF Verdicts
<1>2. RpcInv' /\ requests' = requests \ Opened(n) /\ clients' = clients
  BY RpcHolds, DropsAreHeard DEF Abandon
<1>3. requests' \subseteq requests
  BY <1>2
<1> QED BY <1>1, <1>2, <1>3, Finishes DEF Abandon

LEMMA TimePasses ==
  ASSUME IInv, Passes
  PROVE  IInv'
<1>1. RpcInv' /\ UNCHANGED <<clients, requests>>
  BY RpcHolds, TimePassesAlike DEF Passes
<1>2. requests' \subseteq requests
  BY <1>1
<1> QED BY <1>1, <1>2, CallsStay DEF Passes
-----------------------------------------------------------------------------
(* Building *)

\* A step of the builder: nothing calls yet.
LEMMA BuilderMoves ==
  ASSUME IInv, builder.at # "built", UNCHANGED calls,
         builder' \in Builders, wallet' \in Wallets, RpcInv',
         \A m \in 1 .. MaxCalls : Opened(m)' \subseteq Opened(m),
         builder'.at = "open" => clients' = <<>> /\ last_success' = <<>>,
         builder'.at = "fetching" => clients' = <<builder'.primary_rpc>> /\ ~Exclusive',
         builder'.at = "built" => WalletInv'
  PROVE  IInv'
<1>1. calls \in [1 .. MaxCalls -> CallRecords] /\ \A n \in 1 .. MaxCalls : calls[n] = NoCall
  BY DEF IInv, TypeInv, BuildInv
<1>2. TypeInv' /\ MemoryInv'
  BY <1>1 DEF TypeInv, RpcInv
<1>3. BuildInv'
  BY <1>1 DEF BuildInv
<1>4. RequestsInv'
  <2>1. \A m \in 1 .. MaxCalls : Opened(m) = {}
    BY <1>1 DEF IInv, RequestsInv
  <2> QED BY <2>1 DEF RequestsInv
<1>5. CallsInv'
  <2>1. NoCall.op = "none"
    BY DEF NoCall
  <2> QED BY <1>1, <2>1 DEF CallsInv, GoodCall
<1> QED BY <1>2, <1>3, <1>4, <1>5 DEF IInv

\* Before it builds there are no clients, no requests, and nothing was heard.
LEMMA NothingYet ==
  ASSUME IInv, builder.at = "open"
  PROVE  /\ builder \in Builders /\ wallet \in Wallets /\ RpcInv /\ requests = {}
         /\ clients = <<>> /\ last_success = <<>>
         /\ heard \in [Targets -> Ages] /\ \A t \in Targets : heard[t] = None
<1>1. clients = <<>> /\ last_success = <<>>
  BY DEF IInv, BuildInv
<1>2. \A i \in DOMAIN clients : FALSE
  BY <1>1
<1>3. requests = {} /\ \A t \in Targets : heard[t] = None
  BY <1>2 DEF IInv, TypeInv, MemoryInv
<1> QED BY <1>1, <1>3, RpcHolds DEF IInv, TypeInv

LEMMA SetsKeep ==
  ASSUME IInv, NEW new \in Builders, new.at = "open", Set(new)
  PROVE  IInv'
<1>1. builder' \in Builders /\ builder'.at = "open" /\ builder.at = "open"
  BY DEF Set, Builders
<1>2. /\ UNCHANGED rpcVars /\ UNCHANGED <<calls, wallet>>
      /\ clients' = <<>> /\ last_success' = <<>> /\ wallet' \in Wallets
  BY <1>1, NothingYet DEF Set, rpcVars
<1>3. RpcInv' /\ \A m \in 1 .. MaxCalls : Opened(m)' \subseteq Opened(m)
  BY <1>2, SameMemory DEF Opened
<1> QED BY <1>1, <1>2, <1>3, BuilderMoves

LEMMA ListIsSet ==
  ASSUME IInv, NEW list \in BroadcastLists, broadcast_rpcs(list) \/ broadcast_rpcs_exclusive(list)
  PROVE  IInv'
<1>1. builder \in Builders /\ list \in Seq(Urls)
  BY UrlsAssumption DEF IInv, TypeInv
<1>2. ASSUME NEW exclusive \in BOOLEAN,
             Set([builder EXCEPT !.broadcast_rpcs = list, !.exclusive_broadcast = exclusive])
      PROVE  IInv'
  <2> DEFINE new == [builder EXCEPT !.broadcast_rpcs = list, !.exclusive_broadcast = exclusive]
  <2>1. new \in Builders /\ new.at = builder.at /\ Set(new) /\ builder.at = "open"
    BY <1>1, <1>2 DEF Builders, Set
  <2> HIDE DEF new
  <2> QED BY <2>1, SetsKeep
<1> QED BY <1>2 DEF broadcast_rpcs, broadcast_rpcs_exclusive

LEMMA BlinkIsAdded ==
  ASSUME IInv, add_blink_broadcast
  PROVE  IInv'
<1> DEFINE new == [builder EXCEPT !.broadcast_rpcs = Append(@, BlinkUrl)]
           rpcs == Append(builder.broadcast_rpcs, BlinkUrl)
<1>1. builder \in Builders /\ BlinkUrl \in Urls /\ builder.broadcast_rpcs \in Seq(Urls)
  BY DEF IInv, TypeInv, Urls, Builders
<1>2. rpcs \in Seq(Urls)
  BY <1>1, AppendProperties
<1>3. new = [builder EXCEPT !.broadcast_rpcs = rpcs]
  OBVIOUS
<1> HIDE DEF rpcs
<1>4. new \in Builders /\ new.at = builder.at
  BY <1>1, <1>2, <1>3 DEF Builders
<1>5. Set(new) /\ builder.at = "open"
  BY DEF add_blink_broadcast, Set
<1> HIDE DEF new
<1> QED BY <1>4, <1>5, SetsKeep

LEMMA GasIsSet ==
  ASSUME IInv, NEW url \in GasUrls, gas_rpc_url(url)
  PROVE  IInv'
<1> DEFINE new == [builder EXCEPT !.gas_rpc_url = {url}]
<1>1. new \in Builders /\ new.at = builder.at
  BY DEF IInv, TypeInv, Builders
<1>2. Set(new) /\ builder.at = "open"
  BY DEF gas_rpc_url, Set
<1> HIDE DEF new
<1> QED BY <1>1, <1>2, SetsKeep

LEMMA NonceIsSet ==
  ASSUME IInv, initial_nonce
  PROVE  IInv'
<1> DEFINE new == [builder EXCEPT !.initial_nonce = TRUE]
<1>1. new \in Builders /\ new.at = builder.at
  BY DEF IInv, TypeInv, Builders
<1>2. Set(new) /\ builder.at = "open"
  BY DEF initial_nonce, Set
<1> HIDE DEF new
<1> QED BY <1>1, <1>2, SetsKeep

LEMMA BuildConsumes ==
  ASSUME builder \in Builders, NEW to \in {"built", "failed"}, Consumed(to)
  PROVE  builder' \in Builders /\ builder'.at = to /\ meant' = Told
<1> DEFINE none == <<>>
<1>1. none \in Seq(Urls) /\ builder.primary_rpc \in Primaries
  BY DEF Builders
<1>2. builder' = [at |-> to, primary_rpc |-> builder.primary_rpc, broadcast_rpcs |-> none,
                  exclusive_broadcast |-> FALSE, gas_rpc_url |-> {}, initial_nonce |-> FALSE,
                  setters |-> 0]
  BY DEF Consumed, Opening
<1> HIDE DEF none
<1>3. builder' \in Builders /\ builder'.at = to
  BY <1>1, <1>2 DEF Builders
<1>4. meant' = Told
  BY DEF Consumed, Told, ToldBy
<1> QED BY <1>3, <1>4

LEMMA BuildIsRefused ==
  ASSUME IInv, BuildRefuses
  PROVE  IInv'
<1>1. builder' \in Builders /\ builder'.at = "failed" /\ builder.at = "open"
  BY BuildConsumes DEF BuildRefuses, IInv, TypeInv
<1>2. UNCHANGED rpcVars /\ UNCHANGED <<calls, wallet>> /\ wallet' \in Wallets
  BY <1>1, NothingYet DEF BuildRefuses, rpcVars
<1>3. RpcInv' /\ \A m \in 1 .. MaxCalls : Opened(m)' \subseteq Opened(m)
  BY <1>2, SameMemory DEF Opened
<1> QED BY <1>1, <1>2, <1>3, BuilderMoves

LEMMA BuildFails ==
  ASSUME IInv, NEW r \in requests, NonceFails(r)
  PROVE  IInv'
<1>1. builder' \in Builders /\ builder'.at = "failed" /\ builder.at = "fetching"
  BY BuildConsumes DEF NonceFails, IInv, TypeInv
<1>2. PICK ending \in Endings : request_with_detail(r, ending)
  BY DEF NonceFails
<1>3. RpcInv' /\ requests' \subseteq requests
  BY <1>2, RpcHolds, AnswersAreHeard
<1>4. UNCHANGED calls /\ wallet' \in Wallets
  BY DEF NonceFails, IInv, TypeInv
<1>5. \A m \in 1 .. MaxCalls : Opened(m)' \subseteq Opened(m)
  BY <1>3 DEF Opened
<1> QED BY <1>1, <1>3, <1>4, <1>5, BuilderMoves

\* The memory of clients just chosen: the first may have answered already.
LEMMA ChosenRemember ==
  ASSUME NEW made \in Seq(Urls), Len(made) >= 1, Distinct(made),
         NEW first \in {0, None}, NEW t1, t1 = normalized_url(made[1]),
         heard \in [Targets -> Ages],
         clients' = made, DOMAIN last_success' = 1 .. Len(made),
         last_success'[1] = first, \A k \in 2 .. Len(made) : last_success'[k] = None,
         heard' = [heard EXCEPT ![t1] = first], requests' = {},
         \A t \in Targets : t # t1 => heard[t] = None,
         last_success' = [k \in DOMAIN last_success' |-> last_success'[k]]
  PROVE  RpcInv'
<1>1. /\ DOMAIN made = 1 .. Len(made) /\ Len(made) \in Nat
      /\ \A k \in DOMAIN made : made[k] \in Urls
      /\ \A k \in DOMAIN made : k = 1 \/ k \in 2 .. Len(made)
      /\ 1 \in DOMAIN made
  <2>1. DOMAIN made = 1 .. Len(made) /\ Len(made) \in Nat
    BY LenProperties
  <2> QED BY <2>1
<1>2. \A k \in DOMAIN made : normalized_url(made[k]) \in Targets
  BY <1>1 DEF Targets
<1>3. last_success' \in [DOMAIN made -> Ages]
  BY <1>1 DEF Ages
<1>4. /\ heard' \in [Targets -> Ages] /\ t1 \in Targets /\ heard'[t1] = first
      /\ \A t \in Targets : t # t1 => heard'[t] = None
  BY <1>1, <1>2 DEF Ages
<1>5. \A k \in DOMAIN made : (k # 1 => normalized_url(made[k]) # t1)
  BY <1>1 DEF Distinct, Same
<1>6. ASSUME NEW k \in DOMAIN made
      PROVE  last_success'[k] = heard'[normalized_url(made[k])]
  BY <1>1, <1>2, <1>4, <1>5
<1>7. \A t \in Targets : (\A k \in DOMAIN made : normalized_url(made[k]) # t) => heard'[t] = None
  BY <1>1, <1>4
<1>8. MemoryInv'
  BY <1>6, <1>7 DEF MemoryInv, Target
<1> QED BY <1>3, <1>4, <1>8 DEF RpcInv

\* What a well chosen wallet is once it is built.
LEMMA WellBuilt ==
  ASSUME NEW made, NEW chosen, WellChosen(made, chosen),
         clients' = made, wallet' = chosen, meant' = Told
  PROVE  WalletInv' /\ wallet' \in Wallets
<1>1. 1 \in DOMAIN made /\ DOMAIN made = 1 .. Len(made)
  <2>1. DOMAIN made = 1 .. Len(made) /\ Len(made) \in Nat /\ Len(made) >= 1
    BY LenProperties DEF WellChosen
  <2> QED BY <2>1
<1> QED BY <1>1 DEF WellChosen, WalletInv

LEMMA NoncedBuild ==
  ASSUME IInv, build_with_nonce
  PROVE  IInv'
<1> DEFINE chosen == Chosen(<<builder.primary_rpc>>)
           made == chosen.made
           none == [k \in DOMAIN made |-> None]
<1>1. builder.at = "open" /\ ~Exclusive /\ builder \in Builders
  BY NothingYet DEF build_with_nonce
<1>2. WellChosen(made, chosen.wallet)
  BY <1>1, ChosenIsRight
<1>3. builder' \in Builders /\ builder'.at = "built" /\ meant' = Told
  BY <1>1, BuildConsumes DEF build_with_nonce
<1>4. /\ clients' = clients \o made /\ last_success' = last_success \o none
      /\ wallet' = chosen.wallet /\ requests' = {} /\ heard' = heard /\ calls' = calls
  BY <1>1, NothingYet DEF build_with_nonce, Make
<1> HIDE DEF chosen
<1>5. /\ made \in Seq(Urls) /\ Len(made) >= 1 /\ Len(made) \in Nat /\ Distinct(made)
      /\ DOMAIN made = 1 .. Len(made)
  BY <1>2, LenProperties DEF WellChosen
<1> HIDE DEF made
<1>6. none \in Seq({None})
  BY <1>5, IsASeq
<1>7. clients' = made /\ last_success' = none
  BY <1>1, <1>4, <1>5, <1>6, NothingYet, ConcatEmptySeq
<1>8. normalized_url(made[1]) \in Targets
  <2>1. made[1] \in Urls
    BY <1>5
  <2> QED BY <2>1 DEF Targets
<1>9. heard' = [heard EXCEPT ![normalized_url(made[1])] = None]
  BY <1>1, <1>4, <1>8, NothingYet
<1>10. /\ DOMAIN last_success' = 1 .. Len(made) /\ last_success'[1] = None
       /\ \A k \in 2 .. Len(made) : last_success'[k] = None
       /\ last_success' = [k \in DOMAIN last_success' |-> last_success'[k]]
  BY <1>5, <1>7
<1> HIDE DEF none
<1>11. RpcInv'
  BY <1>1, <1>4, <1>5, <1>7, <1>9, <1>10, NothingYet, ChosenRemember
<1>12. WalletInv' /\ wallet' \in Wallets
  BY <1>2, <1>3, <1>4, <1>7, WellBuilt
<1>13. \A m \in 1 .. MaxCalls : Opened(m)' \subseteq Opened(m)
  BY <1>4 DEF Opened
<1> QED BY <1>1, <1>3, <1>4, <1>11, <1>12, <1>13, BuilderMoves

LEMMA FetchingBuild ==
  ASSUME IInv, build
  PROVE  IInv'
<1> DEFINE p == builder.primary_rpc
           made == <<p>>
           none == [k \in DOMAIN made |-> None]
<1>1. builder.at = "open" /\ ~Exclusive /\ builder \in Builders
  BY NothingYet DEF build
<1>2. /\ clients' = clients \o made /\ last_success' = last_success \o none
      /\ requests' = requests \cup {[call |-> Building, client |-> i] : i \in {1}}
      /\ builder' = [builder EXCEPT !.at = "fetching"]
      /\ UNCHANGED <<heard, wallet, calls, meant>>
  BY DEF build, Make, Open
<1>3. p \in Urls
  BY <1>1 DEF Builders, Urls
<1>4. made \in Seq(Urls) /\ Len(made) = 1 /\ DOMAIN made = {1} /\ made[1] = p
  BY <1>3
<1>5. none \in Seq({None}) /\ DOMAIN none = {1} /\ none[1] = None
  BY <1>4
<1> HIDE DEF made, none
<1>6. clients' = made /\ last_success' = none
  BY <1>1, <1>2, <1>4, <1>5, NothingYet, ConcatEmptySeq
<1>7. /\ builder' \in Builders /\ builder'.at = "fetching" /\ builder'.primary_rpc = p
      /\ ~Exclusive'
  BY <1>1, <1>2 DEF Builders, Exclusive
<1>8. last_success' \in [DOMAIN made -> Ages]
  <2>1. none = [k \in DOMAIN none |-> none[k]]
    BY DEF none
  <2> QED BY <1>4, <1>5, <1>6, <2>1 DEF Ages
<1>9. heard' \in [Targets -> Ages] /\ \A t \in Targets : heard'[t] = None
  BY <1>1, <1>2, NothingYet
<1>10. normalized_url(p) \in Targets
  BY <1>3 DEF Targets
<1>11. MemoryInv'
  BY <1>4, <1>5, <1>6, <1>9, <1>10 DEF MemoryInv, Target, Distinct
<1>12. requests' \subseteq [call : Callers, client : DOMAIN made]
  BY <1>1, <1>2, <1>4, NothingYet DEF Callers
<1>13. RpcInv'
  BY <1>4, <1>6, <1>8, <1>9, <1>11, <1>12 DEF RpcInv
<1>14. \A m \in 1 .. MaxCalls : Opened(m)' \subseteq Opened(m)
  BY <1>2 DEF Opened, Building
<1>15. clients' = <<builder'.primary_rpc>>
  BY <1>6, <1>7 DEF made
<1>16. wallet' \in Wallets /\ UNCHANGED calls
  BY <1>1, <1>2, NothingYet
<1> QED BY <1>1, <1>7, <1>13, <1>14, <1>15, <1>16, BuilderMoves

LEMMA BuildFinishes ==
  ASSUME IInv, NEW r \in requests, NonceFetched(r)
  PROVE  IInv'
<1> DEFINE p == builder.primary_rpc
           one == <<p>>
           chosen == Chosen(clients)
           made == chosen.made
           more == SubSeq(made, 2, Len(made))
           first == <<mark(last_success[1], "result")>>
           none == [k \in DOMAIN more |-> None]
<1>1. /\ builder.at = "fetching" /\ ~Exclusive /\ builder \in Builders /\ clients = one
      /\ RpcInv
  BY RpcHolds DEF NonceFetched, IInv, TypeInv, BuildInv
<1>2. WellChosen(made, chosen.wallet)
  BY <1>1, ChosenIsRight
<1>3. builder' \in Builders /\ builder'.at = "built" /\ meant' = Told
  BY <1>1, BuildConsumes DEF NonceFetched
<1>4. /\ clients' = made /\ last_success' = first \o none
      /\ wallet' = chosen.wallet /\ requests' = {}
      /\ heard' = [heard EXCEPT ![Target(1)] = 0] /\ calls' = calls
  BY DEF NonceFetched
<1>5. one \in Seq(Urls) /\ DOMAIN one = {1} /\ one[1] = p
  BY <1>1 DEF RpcInv
<1>6. first \in Seq({0, None}) /\ Len(first) = 1 /\ first[1] = 0
  BY DEF mark
<1> HIDE DEF chosen, one, first
<1>7. /\ made \in Seq(Urls) /\ Len(made) >= 1 /\ Len(made) \in Nat /\ Distinct(made)
      /\ made[1] = p /\ DOMAIN made = 1 .. Len(made)
  BY <1>2, LenProperties DEF WellChosen
<1> HIDE DEF made
<1>8. more \in Seq(Urls) /\ Len(more) = Len(made) - 1 /\ DOMAIN more = 1 .. Len(made) - 1
  <2>1. \A i \in 2 .. Len(made) : made[i] \in Urls
    BY <1>7
  <2>2. more \in Seq(Urls) /\ Len(more) = IF 2 <= Len(made) THEN Len(made) - 2 + 1 ELSE 0
    BY <1>7, <2>1, SubSeqProperties
  <2>3. Len(more) = Len(made) - 1
    BY <1>7, <2>2
  <2> QED BY <2>2, <2>3, LenProperties
<1> HIDE DEF more
<1>9. none \in Seq({0, None}) /\ Len(none) = Len(made) - 1 /\ \A k \in 1 .. Len(made) - 1 : none[k] = None
  <2>1. Len(made) - 1 \in Nat
    BY <1>7
  <2> QED BY <1>8, <2>1
<1> HIDE DEF none
<1>10. /\ last_success' \in Seq({0, None}) /\ Len(last_success') = Len(made)
       /\ \A k \in 1 .. Len(made) : last_success'[k] = IF k <= 1 THEN first[k] ELSE none[k - 1]
  <2> DEFINE S == {0, None}
  <2>0. first \in Seq(S) /\ none \in Seq(S)
    BY <1>6, <1>9
  <2> HIDE DEF S
  <2>1. /\ first \o none \in Seq(S) /\ Len(first \o none) = 1 + (Len(made) - 1)
        /\ \A k \in 1 .. 1 + (Len(made) - 1) :
             (first \o none)[k] = IF k <= 1 THEN first[k] ELSE none[k - 1]
    <3>1. /\ first \o none \in Seq(S) /\ Len(first \o none) = Len(first) + Len(none)
          /\ \A k \in 1 .. Len(first) + Len(none) :
               (first \o none)[k] = IF k <= Len(first) THEN first[k] ELSE none[k - Len(first)]
      BY <2>0, ConcatProperties
    <3> QED BY <1>6, <1>9, <3>1
  <2>2. 1 + (Len(made) - 1) = Len(made)
    BY <1>7
  <2> QED BY <1>4, <2>1, <2>2 DEF S
<1>11. /\ DOMAIN last_success' = 1 .. Len(made) /\ last_success'[1] = 0
       /\ \A k \in 2 .. Len(made) : last_success'[k] = None
       /\ last_success' = [k \in DOMAIN last_success' |-> last_success'[k]]
  <2>1. DOMAIN last_success' = 1 .. Len(made)
    BY <1>10, LenProperties
  <2>2. last_success'[1] = 0
    BY <1>6, <1>7, <1>10
  <2>3. ASSUME NEW k \in 2 .. Len(made) PROVE last_success'[k] = None
    <3>1. k \in 1 .. Len(made) /\ ~(k <= 1) /\ k - 1 \in 1 .. Len(made) - 1
      BY <1>7
    <3> QED BY <1>9, <1>10, <3>1
  <2> QED BY <1>10, <2>1, <2>2, <2>3
<1>12. /\ Target(1) = normalized_url(made[1]) /\ heard \in [Targets -> Ages]
       /\ \A t \in Targets : t # Target(1) => heard[t] = None
  <2>1. Target(1) = normalized_url(p)
    BY <1>1, <1>5 DEF Target
  <2>2. \A i \in DOMAIN clients : i = 1
    BY <1>1, <1>5
  <2> QED BY <1>1, <1>7, <2>1, <2>2 DEF RpcInv, MemoryInv
<1>13. RpcInv'
  BY <1>4, <1>7, <1>11, <1>12, ChosenRemember
<1>14. WalletInv' /\ wallet' \in Wallets
  BY <1>2, <1>3, <1>4, WellBuilt
<1>15. \A m \in 1 .. MaxCalls : Opened(m)' \subseteq Opened(m)
  BY <1>4 DEF Opened
<1> QED BY <1>1, <1>3, <1>4, <1>13, <1>14, <1>15, BuilderMoves
-----------------------------------------------------------------------------
(* The invariant and what follows from it *)

LEMMA Initially == Init => IInv
<1> SUFFICES ASSUME Init PROVE IInv
  OBVIOUS
<1> DEFINE none == <<>>
<1>1. PICK primary \in Primaries : builder = Opening(primary)
  BY DEF Init
<1>2. /\ wallet = NoWallet /\ calls = [n \in 1 .. MaxCalls |-> NoCall] /\ meant = {}
      /\ clients = none /\ last_success = none /\ requests = {}
      /\ heard = [t \in Targets |-> None]
  BY DEF Init, Targets
<1>3. none \in Seq(Urls) /\ none \in Seq(Nat) /\ DOMAIN none = {} /\ none = [i \in {} |-> None]
      /\ none \in Seq(Targets) /\ none \in Seq(PollAnswers)
  OBVIOUS
<1>4. wallet = [rpc_client |-> 1, batch_client |-> none, gas_rpc_client |-> 1]
  BY <1>2 DEF NoWallet
<1>5. builder = [at |-> "open", primary_rpc |-> primary, broadcast_rpcs |-> none,
                 exclusive_broadcast |-> FALSE, gas_rpc_url |-> {}, initial_nonce |-> FALSE,
                 setters |-> 0]
  BY <1>1 DEF Opening
<1>6. NoCall = [op |-> "none", at |-> "none", verdict |-> None, errors |-> 0,
                elapsed |-> FALSE, sent |-> none, polls |-> none]
  BY DEF NoCall
<1>7. clients = <<>> /\ last_success = <<>>
  BY <1>2
<1> HIDE DEF none
<1>8. builder \in Builders /\ builder.at = "open"
  BY <1>3, <1>5 DEF Builders
<1>9. wallet \in Wallets
  BY <1>3, <1>4 DEF Wallets
<1>10. NoCall \in CallRecords /\ NoCall.op = "none"
  BY <1>3, <1>6 DEF CallRecords
<1>11. TypeInv
  BY <1>2, <1>3, <1>8, <1>9, <1>10 DEF TypeInv, Ages
<1>12. MemoryInv
  BY <1>2, <1>3 DEF MemoryInv, Distinct
<1>13. BuildInv
  BY <1>2, <1>7, <1>8 DEF BuildInv
<1>14. RequestsInv /\ CallsInv
  BY <1>2, <1>10 DEF RequestsInv, CallsInv, GoodCall, Opened
<1> QED BY <1>11, <1>12, <1>13, <1>14 DEF IInv

LEMMA StaysInvariant == IInv /\ [Next]_vars => IInv'
<1> SUFFICES ASSUME IInv, [Next]_vars PROVE IInv'
  OBVIOUS
<1>1. CASE UNCHANGED vars
  <2>1. UNCHANGED rpcVars
    BY <1>1 DEF vars, rpcVars
  <2> QED BY <1>1, <2>1, SameMemory, CallsStay DEF vars
<1>2. CASE Builds
  <2>1. CASE \E r \in requests : NonceFetched(r) \/ NonceFails(r)
    BY <2>1, BuildFinishes, BuildFails
  <2>2. CASE BuildRefuses \/ build_with_nonce \/ build
    BY <2>2, BuildIsRefused, NoncedBuild, FetchingBuild
  <2>3. CASE initial_nonce \/ add_blink_broadcast \/ \E url \in GasUrls : gas_rpc_url(url)
    BY <2>3, NonceIsSet, BlinkIsAdded, GasIsSet
  <2>4. CASE \E list \in BroadcastLists : broadcast_rpcs(list) \/ broadcast_rpcs_exclusive(list)
    BY <2>4, ListIsSet
  <2> QED BY <1>2, <2>1, <2>2, <2>3, <2>4 DEF Builds
<1>3. ASSUME NEW n \in 1 .. MaxCalls,
             \/ warmup_connections(n) \/ send(n) \/ read(n) \/ wait_for_receipt(n)
      PROVE  IInv'
  BY <1>3, WarmupStarts, SendStarts, ReadStarts, WaitStarts
<1>4. ASSUME NEW n \in 1 .. MaxCalls, Runs(n) \/ Elapse(n) \/ Abandon(n)
      PROVE  IInv'
  BY <1>4, BatchWarms, WarmupEnds, WaitGivesUp, WaitPolls, TimeElapses, CallIsDropped DEF Runs
<1>5. ASSUME NEW n \in 1 .. MaxCalls, NEW r \in requests, Answered(n, r)
      PROVE  IInv'
  BY <1>5, ProbeAnswered, SendIsAnswered, ReadIsAnswered, PollIsAnswered DEF Answered
<1>6. CASE Passes
  BY <1>6, TimePasses
<1> QED BY <1>1, <1>2, <1>3, <1>4, <1>5, <1>6 DEF Next

\* The inductive invariant.
THEOREM ClientsInvariance == Spec => []IInv
BY Initially, StaysInvariant, PTL DEF Spec

\* Signed bytes go to each endpoint the caller meant, once, and to no other
\* (sharing_primary and resolve_broadcast_rpcs, whatever lists and spellings).
THEOREM BytesReachTheSet == Spec => []SendsReachTheSet
<1>1. IInv => SendsReachTheSet
  BY DEF IInv, CallsInv, GoodCall, SendsReachTheSet
<1> QED BY <1>1, ClientsInvariance, PTL

\* A wait for a receipt fails on the third failure in a row and not before, and
\* has a receipt only from its last poll.
THEOREM WaitsJudgeRightly == Spec => []ReceiptVerdicts
<1>1. IInv => ReceiptVerdicts
  <2> SUFFICES ASSUME IInv, NEW n \in 1 .. MaxCalls, calls[n].op = "wait"
               PROVE  Verdict(calls[n])
    BY DEF ReceiptVerdicts, Verdict
  <2>1. GoodCall(calls[n]) /\ calls[n] \in CallRecords
    BY DEF IInv, CallsInv, TypeInv
  <2> QED BY <2>1, StreakIsOpen DEF GoodCall
<1> QED BY <1>1, ClientsInvariance, PTL
-----------------------------------------------------------------------------
(* Warmup *)

\* The call's place in a warmup is not taken up by this step.
NotProbing(n) == calls'[n].at \in {"primary", "batch"} => calls'[n].at = calls[n].at

LEMMA MovesElsewhere ==
  ASSUME IInv, NEW n \in 1 .. MaxCalls, NEW m \in 1 .. MaxCalls, NEW c,
         calls' = [calls EXCEPT ![m] = c],
         c.at \notin {"primary", "batch"} \/ c.at = calls[m].at
  PROVE  NotProbing(n)
<1>1. calls \in [1 .. MaxCalls -> CallRecords]
  BY DEF IInv, TypeInv
<1> QED BY <1>1 DEF NotProbing

LEMMA ReturnsElsewhere ==
  ASSUME IInv, NEW n \in 1 .. MaxCalls, NEW m \in 1 .. MaxCalls, NEW v \in Verdicts, Returns(m, v)
  PROVE  NotProbing(n)
<1> DEFINE none == <<>>
           c == Done([calls[m] EXCEPT !.polls = none], v)
<1>1. calls' = [calls EXCEPT ![m] = c] /\ none \in Seq(PollAnswers)
  BY DEF Returns
<1> HIDE DEF none
<1>2. Returned(calls[m], none, v, c)
  BY <1>1, Empties DEF IInv, TypeInv
<1> HIDE DEF c
<1>3. c.at = "done"
  BY <1>2 DEF Returned
<1> QED BY <1>1, <1>3, MovesElsewhere

LEMMA PollsElsewhere ==
  ASSUME IInv, NEW n \in 1 .. MaxCalls, NEW m \in 1 .. MaxCalls, NEW r \in requests, Polled(m, r)
  PROVE  NotProbing(n)
<1>1. calls[m].op = "wait" /\ calls[m].at = "polling" /\ calls[m] # NoCall
  BY DEF Polled, At, NoCall
<1>2. builder.at = "built" /\ calls[m] \in CallRecords /\ Streak(calls[m])
  BY <1>1, CallsNeedAWallet DEF GoodCall
<1>3. PICK ending \in Endings : calls' = [calls EXCEPT ![m] = AfterPoll(calls[m], ending)]
  BY DEF Polled, AfterPoll
<1> DEFINE c == AfterPoll(calls[m], ending)
<1>4. c \in CallRecords /\ GoodCall(c)
  BY <1>1, <1>2, PolledIsGood
<1>5. c.op = "wait"
  BY <1>1, <1>2 DEF AfterPoll, Done, CallRecords
<1>6. calls' = [calls EXCEPT ![m] = c]
  BY <1>3
<1> HIDE DEF c
<1>7. c.at \in {"done", "head", "polling"}
  BY <1>4, <1>5 DEF GoodCall
<1> QED BY <1>6, <1>7, MovesElsewhere

LEMMA OnlyWarmupProbes ==
  ASSUME IInv, [Next]_vars, NEW n \in 1 .. MaxCalls
  PROVE  NotProbing(n) \/ warmup_connections(n) \/ WarmupBatch(n)
<1>1. CASE UNCHANGED calls
  BY <1>1 DEF NotProbing
<1>2. CASE Builds
  <2>1. UNCHANGED calls
    BY <1>2 DEF Builds, broadcast_rpcs, broadcast_rpcs_exclusive, add_blink_broadcast,
                gas_rpc_url, initial_nonce, Set, BuildRefuses, build_with_nonce, build,
                NonceFetched, NonceFails
  <2> QED BY <2>1, <1>1
<1>3. ASSUME NEW m \in 1 .. MaxCalls, \E v \in Verdicts : Returns(m, v)
      PROVE  NotProbing(n)
  BY <1>3, ReturnsElsewhere
<1>4. {"ok", "error", "timeout", "dropped"} \subseteq Verdicts
  BY DEF Verdicts
<1>5. calls \in [1 .. MaxCalls -> CallRecords]
  BY DEF IInv, TypeInv
<1>6. ASSUME NEW m \in 1 .. MaxCalls, warmup_connections(m) \/ WarmupBatch(m), m # n
      PROVE  NotProbing(n)
  <2>1. calls'[n] = calls[n]
    BY <1>5, <1>6 DEF warmup_connections, WarmupBatch, Goes
  <2> QED BY <2>1 DEF NotProbing
<1>7. ASSUME NEW m \in 1 .. MaxCalls, send(m) \/ read(m) \/ wait_for_receipt(m)
      PROVE  NotProbing(n)
  <2> DEFINE sent == [k \in DOMAIN Broadcasters |-> Target(Broadcasters[k])]
  <2>1. calls[m] \in CallRecords
    BY <1>5
  <2>2. CASE send(m)
    <3>1. calls' = [calls EXCEPT ![m].op = "send", ![m].at = "sent", ![m].sent = sent]
      BY <2>2 DEF send
    <3> HIDE DEF sent
    <3>2. calls'[m].at = "sent" /\ \A k \in 1 .. MaxCalls : k # m => calls'[k] = calls[k]
      BY <1>5, <2>1, <3>1 DEF CallRecords
    <3> QED BY <3>2 DEF NotProbing
  <2>3. CASE read(m)
    <3>1. calls'[m].at = "asked" /\ \A k \in 1 .. MaxCalls : k # m => calls'[k] = calls[k]
      BY <1>5, <2>1, <2>3 DEF read, CallRecords
    <3> QED BY <3>1 DEF NotProbing
  <2>4. CASE wait_for_receipt(m)
    <3>1. calls'[m].at = "head" /\ \A k \in 1 .. MaxCalls : k # m => calls'[k] = calls[k]
      BY <1>5, <2>1, <2>4 DEF wait_for_receipt, CallRecords
    <3> QED BY <3>1 DEF NotProbing
  <2> QED BY <1>7, <2>2, <2>3, <2>4
<1>8. ASSUME NEW m \in 1 .. MaxCalls, WarmupReturns(m) \/ WaitTimesOut(m) \/ Abandon(m)
      PROVE  NotProbing(n)
  BY <1>3, <1>4, <1>8 DEF WarmupReturns, WaitTimesOut, Abandon
<1>9. ASSUME NEW m \in 1 .. MaxCalls, Poll(m) \/ Elapse(m)
      PROVE  NotProbing(n)
  <2>1. calls[m] \in CallRecords
    BY <1>5
  <2>2. CASE Poll(m)
    <3>1. calls'[m].at = "polling" /\ \A k \in 1 .. MaxCalls : k # m => calls'[k] = calls[k]
      BY <1>5, <2>1, <2>2 DEF Poll, Goes, CallRecords
    <3> QED BY <3>1 DEF NotProbing
  <2>3. CASE Elapse(m)
    <3>1. calls'[m].at = calls[m].at /\ \A k \in 1 .. MaxCalls : k # m => calls'[k] = calls[k]
      BY <1>5, <2>1, <2>3 DEF Elapse, CallRecords
    <3> QED BY <3>1 DEF NotProbing
  <2> QED BY <1>9, <2>2, <2>3
<1>10. ASSUME NEW m \in 1 .. MaxCalls, NEW r \in requests, Answered(m, r)
       PROVE  NotProbing(n)
  <2>1. CASE Probed(m, r)
    BY <2>1 DEF Probed, NotProbing
  <2>2. CASE SendAnswered(m, r)
    <3>1. Returns(m, "ok") \/ Returns(m, "error") \/ UNCHANGED calls
      BY <2>2 DEF SendAnswered
    <3> QED BY <1>3, <1>4, <3>1 DEF NotProbing
  <2>3. CASE ReadAnswered(m, r)
    <3>1. Returns(m, "ok") \/ Returns(m, "error")
      BY <2>3 DEF ReadAnswered
    <3> QED BY <1>3, <1>4, <3>1
  <2>4. CASE Polled(m, r)
    BY <2>4, PollsElsewhere
  <2> QED BY <1>10, <2>1, <2>2, <2>3, <2>4 DEF Answered
<1>11. CASE Passes \/ UNCHANGED vars
  BY <1>1, <1>11 DEF Passes, vars
<1> QED BY <1>2, <1>6, <1>7, <1>8, <1>9, <1>10, <1>11 DEF Next, Runs

\* What the wallet's client remembers is what was heard of its endpoint.
LEMMA DueIffForgotten ==
  ASSUME IInv, NEW i \in DOMAIN clients
  PROVE  probe_due(i) <=> ~Remembers(i)
<1>1. last_success[i] = heard[Target(i)] /\ last_success[i] \in Nat \cup {None}
  BY DEF IInv, TypeInv, MemoryInv, Ages
<1>2. for_url(clients[i]) \in Nat
  BY WindowsAssumption DEF for_url
<1>3. CASE last_success[i] = None
  BY <1>1, <1>3 DEF probe_due, Remembers
<1>4. CASE last_success[i] # None
  <2>1. last_success[i] \in Nat
    BY <1>1, <1>4
  <2>2. last_success[i] >= for_url(clients[i]) <=> ~(last_success[i] < for_url(clients[i]))
    BY <1>2, <2>1
  <2> QED BY <1>1, <1>4, <2>2 DEF probe_due, Remembers
<1> QED BY <1>3, <1>4

\* Of the clients among is, a step that opens the due ones probes the forgotten.
LEMMA ProbesTheForgotten ==
  ASSUME IInv, NEW n \in 1 .. MaxCalls, Opened(n) = {},
         NEW is, is \subseteq DOMAIN clients, Open(n, {i \in is : probe_due(i)}), NEW i \in is
  PROVE  [call |-> n, client |-> i] \in requests' <=> ~Remembers(i)
<1> DEFINE due == {j \in is : probe_due(j)}
<1>1. requests' = requests \cup {[call |-> n, client |-> j] : j \in due}
  BY DEF Open
<1>2. i \in due <=> ~Remembers(i)
  BY DueIffForgotten
<1> HIDE DEF due
<1>3. [call |-> n, client |-> i] \notin requests
  BY DEF Opened
<1> QED BY <1>1, <1>2, <1>3

\* One step of WarmupKnowsTheEndpoint.
WarmupProbes(n) ==
  calls'[n].op = "warmup" /\ calls'[n].at \in {"primary", "batch"}
  /\ calls'[n].at # calls[n].at =>
    \A i \in IF calls'[n].at = "primary" THEN {1} ELSE Range(wallet.batch_client) :
      [call |-> n, client |-> i] \in requests' <=> ~Remembers(i)

LEMMA WarmupStep ==
  ASSUME IInv, [Next]_vars, NEW n \in 1 .. MaxCalls
  PROVE  WarmupProbes(n)
<1>1. calls \in [1 .. MaxCalls -> CallRecords] /\ calls[n] \in CallRecords
  BY DEF IInv, TypeInv
<1>2. CASE NotProbing(n)
  BY <1>2 DEF NotProbing, WarmupProbes
<1>3. CASE warmup_connections(n)
  <2>1. calls'[n].at = "primary"
    BY <1>1, <1>3 DEF warmup_connections, CallRecords
  <2>2. Opened(n) = {} /\ wallet.rpc_client = 1 /\ {1} \subseteq DOMAIN clients
    BY <1>3, CallStarts DEF warmup_connections, WalletInv, IInv, RequestsInv
  <2>3. Open(n, {i \in {1} : probe_due(i)})
    BY <1>3, <2>2 DEF warmup_connections
  <2>4. \A i \in {1} : [call |-> n, client |-> i] \in requests' <=> ~Remembers(i)
    BY <2>2, <2>3, ProbesTheForgotten
  <2> QED BY <2>1, <2>4 DEF WarmupProbes
<1>4. CASE WarmupBatch(n)
  <2>1. calls'[n].at = "batch" /\ calls[n] # NoCall /\ Opened(n) = {}
    BY <1>1, <1>4 DEF WarmupBatch, Goes, At, CallRecords, NoCall
  <2>2. Range(wallet.batch_client) \subseteq DOMAIN clients
    BY <2>1, CallsNeedAWallet DEF WalletInv
  <2>3. Open(n, {i \in Range(wallet.batch_client) : probe_due(i)})
    BY <1>4 DEF WarmupBatch
  <2>4. \A i \in Range(wallet.batch_client) :
          [call |-> n, client |-> i] \in requests' <=> ~Remembers(i)
    BY <2>1, <2>2, <2>3, ProbesTheForgotten
  <2> QED BY <2>1, <2>4 DEF WarmupProbes
<1> QED BY <1>2, <1>3, <1>4, OnlyWarmupProbes

\* Warmup sends nothing to an endpoint that answered within its window and was not
\* lost since, and sends a probe to every other, whichever call and client heard it.
THEOREM WarmupKnows == Spec => WarmupKnowsTheEndpoint
<1>1. IInv /\ [Next]_vars => [\A n \in 1 .. MaxCalls : WarmupProbes(n)]_vars
  BY WarmupStep
<1>2. Spec => [][\A n \in 1 .. MaxCalls : WarmupProbes(n)]_vars
  BY <1>1, ClientsInvariance, PTL DEF Spec
<1> QED BY <1>2 DEF WarmupKnowsTheEndpoint, WarmupProbes
=============================================================================
