------------------------- MODULE TransactionsProofs -------------------------
(* Proofs about Transactions, for all requests, prices, bumps and numbers of   *)
(* cancels: replacements outbid what they are priced over, keep the tip within *)
(* the maximum fee, only what was accepted raises the fees on record, and a    *)
(* node reads from every transaction sent what was signed.                     *)
EXTENDS Transactions, TLAPS, WellFoundedInduction, SequenceTheorems, FiniteSetTheorems

(* Arithmetic of bump_u256 *)

LEMMA MaxIsNat == MaxU256 \in Nat
BY FeeAssumption

LEMMA Products ==
  ASSUME NEW v \in Nat, NEW b \in Nat, b >= RBF_MIN_BUMP_BPS
  PROVE  v * (10000 + b) \in Nat /\ v * (10000 + b) >= v * 11250
<1>1. v * (10000 + b) = v * 11250 + v * (b - 1250)
  BY SMT DEF RBF_MIN_BUMP_BPS
<1>2. v * (b - 1250) >= 0
  BY SMT DEF RBF_MIN_BUMP_BPS
<1> QED BY <1>1, <1>2, SMT

LEMMA ProductsGrow ==
  ASSUME NEW u \in Nat, NEW v \in Nat, NEW c \in Nat, u <= v
  PROVE  u * c \in Nat /\ v * c \in Nat /\ u * c <= v * c
<1>1. v * c = u * c + (v - u) * c
  BY SMT
<1>2. (v - u) * c >= 0
  BY SMT
<1> QED BY <1>1, <1>2, SMT

LEMMA BumpIsNat ==
  ASSUME NEW v \in Nat, NEW b \in Nat
  PROVE  bump_u256(v, b) \in Nat
<1>1. v * (10000 + b) \in Nat BY SMT
<1>2. saturating(v * (10000 + b)) \in Nat BY <1>1, FeeAssumption DEF saturating
<1>3. saturating(saturating(v * (10000 + b)) + (10000 - 1)) \in Nat
  BY <1>2, FeeAssumption DEF saturating
<1> QED BY <1>3 DEF bump_u256

\* A bump of at least RBF_MIN_BUMP_BPS clears the floor of a tenth.
LEMMA BumpClears ==
  ASSUME NEW v \in Nat, NEW b \in Nat, b >= RBF_MIN_BUMP_BPS, Bumpable(v)
  PROVE  Clears(bump_u256(v, b), v)
<1> DEFINE p == v * (10000 + b)
<1>1. p \in Nat /\ p >= v * 11250 BY Products
<1>2. v * 11250 + 9999 <= MaxU256 /\ v > 0
  BY SMT DEF Bumpable, RBF_MIN_BUMP_BPS
<1> HIDE DEF p
<1> DEFINE x == saturating(p)
<1>3. x \in Nat /\ x >= v * 11250
  BY <1>1, <1>2, MaxIsNat DEF saturating
<1> HIDE DEF x
<1> DEFINE s == saturating(x + (10000 - 1))
<1>4. s \in Nat /\ s >= v * 11250 + 9999
  BY <1>2, <1>3, MaxIsNat DEF saturating
<1> HIDE DEF s
<1>5. 10000 * (s \div 10000) >= s - 9999 /\ s \div 10000 \in Nat
  BY <1>4, SMT
<1> DEFINE r == s \div 10000
<1> HIDE DEF r
<1>6. 10000 * r >= v * 11250 /\ r \in Nat BY <1>4, <1>5 DEF r
<1>7. r > v /\ r * 10 >= v * 11 BY <1>2, <1>6, SMT
<1>8. bump_u256(v, b) = r BY DEF bump_u256, r, s, x, p
<1> QED BY <1>7, <1>8 DEF Clears

LEMMA BumpIsMonotone ==
  ASSUME NEW u \in Nat, NEW v \in Nat, NEW b \in Nat, u <= v
  PROVE  bump_u256(u, b) <= bump_u256(v, b)
<1> DEFINE p == u * (10000 + b)
           q == v * (10000 + b)
<1>1. p \in Nat /\ q \in Nat /\ p <= q
  <2>1. 10000 + b \in Nat OBVIOUS
  <2> QED BY <2>1, ProductsGrow
<1> HIDE DEF p, q
<1> DEFINE x == saturating(p)
           y == saturating(q)
<1>2. x \in Nat /\ y \in Nat /\ x <= y
  BY <1>1, MaxIsNat DEF saturating
<1> HIDE DEF x, y
<1> DEFINE s == saturating(x + (10000 - 1))
           t == saturating(y + (10000 - 1))
<1>3. s \in Nat /\ t \in Nat /\ s <= t
  BY <1>2, MaxIsNat DEF saturating
<1> HIDE DEF s, t
<1>4. s \div 10000 <= t \div 10000 BY <1>3, SMT
<1> QED BY <1>4 DEF bump_u256, s, t, x, y, p, q

LEMMA ClearsMore ==
  ASSUME NEW a \in Nat, NEW b \in Nat, NEW v \in Nat, Clears(a, v), a <= b
  PROVE  Clears(b, v)
BY DEF Clears
-----------------------------------------------------------------------------
(* The inductive invariant *)

\* A typed transaction has the fees of its type.
Typed(t) ==
  /\ {"type", "gas_price", "max_fee_per_gas", "max_priority_fee_per_gas"} \subseteq DOMAIN t
  /\ IF t.type = "eip1559"
     THEN t.max_fee_per_gas \in Nat /\ t.max_priority_fee_per_gas \in Nat
     ELSE /\ t.gas_price \in Nat
          /\ t.max_fee_per_gas = None /\ t.max_priority_fee_per_gas = None

\* A context that knows the maximum fee knows the tip, which is within it.
ContextInv(c) ==
  /\ c.gas_price \in FeeOption /\ c.priority_fee \in FeeOption /\ c.max_fee \in FeeOption
  /\ c.priority_fee # None => c.priority_fee <= DefaultMaxFee
  /\ c.max_fee # None => c.priority_fee # None /\ c.priority_fee <= c.max_fee

\* The fees on record are as high as those of every transaction of the record.
RecordInv(rec) ==
  /\ rec.max_fee_seen \in FeeOption /\ rec.max_priority_seen \in FeeOption
  /\ \A t \in rec.hashes :
       /\ Typed(t)
       /\ t.type = "eip1559" =>
            /\ rec.max_fee_seen \in Nat /\ t.max_fee_per_gas <= rec.max_fee_seen
            /\ rec.max_priority_seen \in Nat
            /\ t.max_priority_fee_per_gas <= rec.max_priority_seen

Priced(q) == Unpriced(q) \/ PricedInOrder(q)

SentInv(m) ==
  /\ Typed(m.tx.typed_tx)
  /\ \A t \in m.over : Replaceable(t) => Outbids(m.tx.typed_tx, t)
  /\ Priced(asked) => Valid(m.tx.typed_tx)

IInv ==
  /\ ContextInv(ctx)
  /\ RecordInv(ledger) /\ RecordInv(cancel.read)
  /\ \A tx \in signed :
       Typed(tx.typed_tx) /\ (Priced(asked) => Valid(tx.typed_tx))
  /\ verify.at = "sent" => Typed(verify.tx.typed_tx)
  /\ cancel.at = "sent" => Typed(cancel.tx.typed_tx)
  /\ \A m \in wire : SentInv(m)
  /\ signed = {} =>
       ledger = NoRecord /\ wire = {} /\ cancel.at = "idle" /\ verify.at = "idle"

LEMMA UnwrapIsNat ==
  ASSUME NEW fee \in FeeOption, NEW default \in Nat
  PROVE  unwrap_or(fee, default) \in Nat /\ (fee = None => unwrap_or(fee, default) = default)
BY DEF unwrap_or, FeeOption

\* What a request becomes, with a context or without one.
LEMMA Builds ==
  ASSUME NEW q, q.gas_price \in FeeOption, q.max_fee_per_gas \in FeeOption,
         q.max_priority_fee_per_gas \in FeeOption
  PROVE  /\ Typed(build(q))
         /\ build(q).type = "eip1559" <=> ~Unpriced(q)
         /\ ~Unpriced(q) =>
              /\ build(q).max_fee_per_gas = unwrap_or(q.max_fee_per_gas, DefaultMaxFee)
              /\ build(q).max_priority_fee_per_gas =
                   unwrap_or(q.max_priority_fee_per_gas, DefaultTip)
<1>1. /\ unwrap_or(q.gas_price, DefaultGasPrice) \in Nat
      /\ unwrap_or(q.max_fee_per_gas, DefaultMaxFee) \in Nat
      /\ unwrap_or(q.max_priority_fee_per_gas, DefaultTip) \in Nat
  BY UnwrapIsNat DEF DefaultGasPrice, DefaultMaxFee, DefaultTip, Gwei
<1>2. CASE Unpriced(q)
  BY <1>1, <1>2 DEF build, Typed, Unpriced
<1>3. CASE ~Unpriced(q)
  BY <1>1, <1>3 DEF build, Typed, Unpriced
<1> QED BY <1>2, <1>3

LEMMA RequestsBuild ==
  ASSUME NEW q \in Requests, NEW c, ContextInv(c)
  PROVE  LET t == build(DefaultGas(Preheated(q, c)))
         IN  Typed(t) /\ (Priced(q) => Valid(t))
<1> DEFINE p == DefaultGas(Preheated(q, c))
           t == build(p)
<1> SUFFICES Typed(t) /\ (Priced(q) => Valid(t))
  OBVIOUS
<1>1. /\ q.gas_price \in FeeOption /\ q.max_fee_per_gas \in FeeOption
      /\ q.max_priority_fee_per_gas \in FeeOption
      /\ DOMAIN q = Fields
  BY FeeAssumption
<1>2. /\ p.gas_price = IF q.gas_price = None /\ q.max_fee_per_gas = None
                       THEN c.gas_price ELSE q.gas_price
      /\ p.max_fee_per_gas = unwrap_or(q.max_fee_per_gas, c.max_fee)
      /\ p.max_priority_fee_per_gas =
           unwrap_or(q.max_priority_fee_per_gas, c.priority_fee)
  BY <1>1 DEF DefaultGas, Preheated, Fields
<1>3. /\ p.gas_price \in FeeOption /\ p.max_fee_per_gas \in FeeOption
      /\ p.max_priority_fee_per_gas \in FeeOption
  BY <1>1, <1>2 DEF ContextInv, unwrap_or
<1> HIDE DEF p
<1>4. /\ Typed(t)
      /\ t.type = "eip1559" <=> ~Unpriced(p)
      /\ ~Unpriced(p) =>
           /\ t.max_fee_per_gas = unwrap_or(p.max_fee_per_gas, DefaultMaxFee)
           /\ t.max_priority_fee_per_gas =
                unwrap_or(p.max_priority_fee_per_gas, DefaultTip)
  BY <1>3, Builds
<1> HIDE DEF t
<1>5. CASE Unpriced(p)
  BY <1>4, <1>5 DEF Valid, TipCap, FeeCap, Typed
<1>6. CASE ~Unpriced(p) /\ PricedInOrder(q)
  <2>1. p.max_fee_per_gas = q.max_fee_per_gas
        /\ p.max_priority_fee_per_gas = q.max_priority_fee_per_gas
    BY <1>2, <1>6 DEF PricedInOrder, unwrap_or
  <2>2. q.max_fee_per_gas \in Nat /\ q.max_priority_fee_per_gas \in Nat
    BY <1>1, <1>6 DEF PricedInOrder, FeeOption
  <2> QED
    BY <1>4, <1>6, <2>1, <2>2, FeeAssumption
    DEF Valid, TipCap, FeeCap, PricedInOrder, unwrap_or
<1>7. CASE ~Unpriced(p) /\ Unpriced(q)
  <2>1. p.max_fee_per_gas = c.max_fee /\ p.max_priority_fee_per_gas = c.priority_fee
    BY <1>2, <1>7 DEF Unpriced, unwrap_or
  <2>2. c.priority_fee # None
    BY <1>7, <2>1 DEF Unpriced, ContextInv
  <2>3. t.max_priority_fee_per_gas = c.priority_fee
    BY <1>4, <1>7, <2>1, <2>2 DEF unwrap_or
  <2>4. c.priority_fee <= t.max_fee_per_gas
    BY <1>4, <1>7, <2>1, <2>2 DEF ContextInv, unwrap_or
  <2> QED
    BY <1>4, <1>7, <2>3, <2>4 DEF Valid, TipCap, FeeCap
<1> QED BY <1>4, <1>5, <1>6, <1>7 DEF Priced

LEMMA RecordsKeep ==
  ASSUME NEW rec, NEW t, RecordInv(rec), Typed(t)
  PROVE  RecordInv(record_signed(rec, t))
<1> DEFINE new == record_signed(rec, t)
<1>1. /\ t.max_fee_per_gas \in FeeOption /\ t.max_priority_fee_per_gas \in FeeOption
  BY DEF Typed, FeeOption
<1>2. \A a, b \in FeeOption :
        /\ merge_max(a, b) \in FeeOption
        /\ a \in Nat => merge_max(a, b) \in Nat /\ a <= merge_max(a, b)
        /\ b \in Nat => merge_max(a, b) \in Nat /\ b <= merge_max(a, b)
  BY FeeAssumption DEF merge_max, Highest, FeeOption
<1>3. /\ new.hashes = rec.hashes \cup {t}
      /\ new.max_fee_seen = merge_max(rec.max_fee_seen, t.max_fee_per_gas)
      /\ new.max_priority_seen =
           merge_max(rec.max_priority_seen, t.max_priority_fee_per_gas)
  BY DEF record_signed
<1> HIDE DEF new
<1>4. new.max_fee_seen \in FeeOption /\ new.max_priority_seen \in FeeOption
  BY <1>1, <1>2, <1>3 DEF RecordInv
<1>5. ASSUME NEW u \in new.hashes, u.type = "eip1559"
      PROVE  /\ new.max_fee_seen \in Nat /\ u.max_fee_per_gas <= new.max_fee_seen
             /\ new.max_priority_seen \in Nat
             /\ u.max_priority_fee_per_gas <= new.max_priority_seen
  <2>1. CASE u = t
    BY <1>1, <1>2, <1>3, <1>5, <2>1 DEF RecordInv, Typed
  <2>2. CASE u \in rec.hashes
    <3>1. /\ rec.max_fee_seen \in Nat /\ u.max_fee_per_gas <= rec.max_fee_seen
          /\ rec.max_priority_seen \in Nat
          /\ u.max_priority_fee_per_gas <= rec.max_priority_seen
          /\ u.max_fee_per_gas \in Nat /\ u.max_priority_fee_per_gas \in Nat
      BY <1>5, <2>2 DEF RecordInv, Typed
    <3>2. rec.max_fee_seen <= new.max_fee_seen /\ new.max_fee_seen \in Nat
      BY <1>1, <1>2, <1>3, <3>1 DEF RecordInv
    <3>3. rec.max_priority_seen <= new.max_priority_seen /\ new.max_priority_seen \in Nat
      BY <1>1, <1>2, <1>3, <3>1 DEF RecordInv
    <3> QED BY <3>1, <3>2, <3>3, SMT
  <2> QED BY <1>3, <2>1, <2>2
<1> QED BY <1>3, <1>4, <1>5 DEF RecordInv, new

\* A re-signed transaction outbids the one it replaces, and keeps its order.
LEMMA Rebids ==
  ASSUME NEW t, Typed(t), t.type = "eip1559"
  PROVE  LET b == with_bumped_fees(t, RBF_MIN_BUMP_BPS)
         IN  Typed(b) /\ (Valid(t) => Valid(b)) /\ (Replaceable(t) => Outbids(b, t))
<1> DEFINE b == with_bumped_fees(t, RBF_MIN_BUMP_BPS)
<1> SUFFICES Typed(b) /\ (Valid(t) => Valid(b)) /\ (Replaceable(t) => Outbids(b, t))
  OBVIOUS
<1>1. RBF_MIN_BUMP_BPS \in Nat /\ RBF_MIN_BUMP_BPS >= RBF_MIN_BUMP_BPS
  BY DEF RBF_MIN_BUMP_BPS
<1>2. t.max_fee_per_gas \in Nat /\ t.max_priority_fee_per_gas \in Nat
  BY DEF Typed
<1>3. /\ DOMAIN b = DOMAIN t /\ b.type = "eip1559"
      /\ b.max_fee_per_gas = bump_u256(t.max_fee_per_gas, RBF_MIN_BUMP_BPS)
      /\ b.max_priority_fee_per_gas = bump_u256(t.max_priority_fee_per_gas, RBF_MIN_BUMP_BPS)
  BY DEF with_bumped_fees, Typed
<1> HIDE DEF b
<1>4. Typed(b)
  BY <1>1, <1>2, <1>3, BumpIsNat DEF Typed
<1>5. Valid(t) => Valid(b)
  BY <1>1, <1>2, <1>3, BumpIsMonotone DEF Valid, TipCap, FeeCap
<1>6. Replaceable(t) => Outbids(b, t)
  BY <1>1, <1>2, <1>3, BumpClears DEF Replaceable, Outbids, TipCap, FeeCap
<1> QED BY <1>4, <1>5, <1>6

\* The higher of what the network asks and what is on record, bumped, clears
\* every fee that is no higher than the record's.
LEMMA BasisClears ==
  ASSUME NEW network \in Nat, NEW seen \in Nat, NEW fee \in Nat, fee <= seen,
         NEW bps \in Nat, bps >= RBF_MIN_BUMP_BPS, Bumpable(fee)
  PROVE  Clears(bump_u256(Highest(network, unwrap_or(seen, 0)), bps), fee)
<1> DEFINE basis == Highest(network, unwrap_or(seen, 0))
<1>1. basis \in Nat /\ fee <= basis
  BY FeeAssumption DEF Highest, unwrap_or
<1> HIDE DEF basis
<1>2. Clears(bump_u256(fee, bps), fee)
  BY BumpClears
<1>3. bump_u256(fee, bps) <= bump_u256(basis, bps)
  BY <1>1, BumpIsMonotone
<1>4. bump_u256(fee, bps) \in Nat /\ bump_u256(basis, bps) \in Nat
  BY <1>1, BumpIsNat
<1>5. Clears(bump_u256(basis, bps), fee)
  BY <1>2, <1>3, <1>4, ClearsMore
<1> QED BY <1>5 DEF basis

CancelOf(gas, tip, bps, rec) ==
  build(CancelRequest(compute_cancel_fees(tip, gas, rec.max_priority_seen,
    rec.max_fee_seen, Highest(bps, RBF_MIN_BUMP_BPS))))

LEMMA CancelsOutbid ==
  ASSUME NEW gas \in Nat, NEW tip \in Nat, NEW bps \in Nat, NEW rec, RecordInv(rec)
  PROVE  LET t == CancelOf(gas, tip, bps, rec)
         IN  Typed(t) /\ Valid(t) /\ \A u \in rec.hashes : Replaceable(u) => Outbids(t, u)
<1> DEFINE bump == Highest(bps, RBF_MIN_BUMP_BPS)
           tipBasis == Highest(tip, unwrap_or(rec.max_priority_seen, 0))
           gasBasis == Highest(gas, unwrap_or(rec.max_fee_seen, 0))
           fees == compute_cancel_fees(tip, gas, rec.max_priority_seen, rec.max_fee_seen, bump)
           t == CancelOf(gas, tip, bps, rec)
<1> SUFFICES Typed(t) /\ Valid(t) /\ \A u \in rec.hashes : Replaceable(u) => Outbids(t, u)
  OBVIOUS
<1>1. bump \in Nat /\ bump >= RBF_MIN_BUMP_BPS
  BY DEF Highest, RBF_MIN_BUMP_BPS
<1>2. tipBasis \in Nat /\ gasBasis \in Nat
  BY DEF Highest, RecordInv, unwrap_or, FeeOption
<1>3. /\ fees.tip = bump_u256(tipBasis, bump)
      /\ fees.max_fee = Highest(bump_u256(gasBasis, bump), fees.tip)
  BY DEF compute_cancel_fees
<1>4. t = build(CancelRequest(fees))
  BY DEF CancelOf
<1> HIDE DEF t, fees, bump, tipBasis, gasBasis
<1>5. bump_u256(tipBasis, bump) \in Nat /\ bump_u256(gasBasis, bump) \in Nat
  BY <1>1, <1>2, BumpIsNat
<1>6. /\ fees.tip \in Nat /\ fees.max_fee \in Nat
      /\ fees.tip <= fees.max_fee /\ bump_u256(gasBasis, bump) <= fees.max_fee
  BY <1>3, <1>5 DEF Highest
<1> DEFINE q == CancelRequest(fees)
<1>7. /\ q.gas_price = None /\ q.max_fee_per_gas = fees.max_fee
      /\ q.max_priority_fee_per_gas = fees.tip
  BY DEF CancelRequest, TransactionRequest
<1> HIDE DEF q
<1>8. /\ Typed(t) /\ t.type = "eip1559"
      /\ t.max_fee_per_gas = fees.max_fee /\ t.max_priority_fee_per_gas = fees.tip
  <2>1. /\ q.gas_price \in FeeOption /\ q.max_fee_per_gas \in FeeOption
        /\ q.max_priority_fee_per_gas \in FeeOption
    BY <1>6, <1>7 DEF FeeOption
  <2>2. ~Unpriced(q) /\ fees.max_fee # None /\ fees.tip # None
    BY <1>6, <1>7, FeeAssumption DEF Unpriced
  <2>3. t = build(q)
    BY <1>4 DEF q
  <2> HIDE DEF q
  <2> QED BY <1>7, <2>1, <2>2, <2>3, Builds DEF unwrap_or
<1>9. Valid(t)
  BY <1>6, <1>8 DEF Valid, TipCap, FeeCap
<1>10. ASSUME NEW u \in rec.hashes, Replaceable(u)
       PROVE  Outbids(t, u)
  <2>1. /\ u.type = "eip1559" /\ Bumpable(u.max_fee_per_gas)
        /\ Bumpable(u.max_priority_fee_per_gas)
        /\ u.max_fee_per_gas \in Nat /\ u.max_priority_fee_per_gas \in Nat
    BY <1>10 DEF Replaceable, RecordInv, Typed
  <2>2. /\ rec.max_fee_seen \in Nat /\ u.max_fee_per_gas <= rec.max_fee_seen
        /\ rec.max_priority_seen \in Nat
        /\ u.max_priority_fee_per_gas <= rec.max_priority_seen
    BY <2>1 DEF RecordInv
  <2>3. Clears(bump_u256(gasBasis, bump), u.max_fee_per_gas)
    BY <1>1, <2>1, <2>2, BasisClears DEF gasBasis
  <2>4. Clears(bump_u256(tipBasis, bump), u.max_priority_fee_per_gas)
    BY <1>1, <2>1, <2>2, BasisClears DEF tipBasis
  <2>5. Clears(fees.max_fee, u.max_fee_per_gas)
    BY <1>5, <1>6, <2>1, <2>3, ClearsMore
  <2> QED BY <1>3, <1>8, <2>1, <2>4, <2>5 DEF Outbids, FeeCap, TipCap
<1> QED BY <1>8, <1>9, <1>10
-----------------------------------------------------------------------------
(* Each step keeps the invariant *)

LEMMA SignedIs == ASSUME NEW t PROVE Signed(t).typed_tx = t
BY DEF Signed, sign

LEMMA InitHolds == Init => IInv
<1> SUFFICES ASSUME Init PROVE IInv
  OBVIOUS
<1>1. ContextInv(ctx)
  BY DEF Init, NoPrices, ContextInv, FeeOption
<1>2. RecordInv(NoRecord)
  BY DEF RecordInv, NoRecord, FeeOption
<1> QED BY <1>1, <1>2 DEF Init, IInv, Waiting, Idle

LEMMA Preheats == IInv /\ preheat => IInv'
<1> SUFFICES ASSUME IInv, preheat PROVE IInv'
  OBVIOUS
<1>1. ContextInv(ctx')
  <2> PICK gas \in GasPrices \cup {None}, tip \in Tips \cup {None} :
        ctx' = [gas_price |-> gas, priority_fee |-> tip,
                max_fee |-> IF None \in {gas, tip} THEN None ELSE gas + gas + tip]
    BY DEF preheat
  <2>1. gas \in FeeOption /\ tip \in FeeOption
    BY FeeAssumption DEF FeeOption
  <2>2. tip # None => tip <= DefaultMaxFee
    BY TipAssumption
  <2>3. CASE None \in {gas, tip}
    BY <2>1, <2>2, <2>3 DEF ContextInv, FeeOption
  <2>4. CASE None \notin {gas, tip}
    <3>1. gas \in Nat /\ tip \in Nat /\ tip # None /\ gas + gas + tip \in Nat
          /\ tip <= gas + gas + tip
      BY <2>1, <2>4 DEF FeeOption
    <3> QED BY <2>1, <2>2, <2>4, <3>1 DEF ContextInv, FeeOption
  <2> QED BY <2>3, <2>4
<1> QED BY <1>1 DEF IInv, preheat

LEMMA SignsRequests ==
  ASSUME NEW q \in Requests, NEW c, ContextInv(c), IInv, SignRequest(q, c)
  PROVE  IInv'
<1> DEFINE t == build(DefaultGas(Preheated(q, c)))
<1>1. Typed(t) /\ (Priced(q) => Valid(t))
  BY RequestsBuild
<1>2. /\ signed = {} /\ signed' = {Signed(t)} /\ ledger' = record_signed(ledger, t)
      /\ asked' = q /\ ctx' = NoPrices
      /\ UNCHANGED <<verify, cancel, wire>>
  BY DEF SignRequest
<1> HIDE DEF t
<1>3. Signed(t).typed_tx = t
  BY SignedIs
<1>4. RecordInv(ledger')
  BY <1>1, <1>2, RecordsKeep DEF IInv
<1>5. ContextInv(ctx')
  BY <1>2 DEF NoPrices, ContextInv, FeeOption
<1>6. wire = {} /\ verify.at = "idle" /\ cancel.at = "idle"
  BY <1>2 DEF IInv
<1>7. signed' # {}
  BY <1>2
<1>8. \A tx \in signed' : tx.typed_tx = t
  BY <1>2, <1>3
<1> QED BY <1>1, <1>2, <1>4, <1>5, <1>6, <1>7, <1>8 DEF IInv

LEMMA SendsRequests == IInv /\ SendRequest => IInv'
<1> SUFFICES ASSUME IInv, SendRequest PROVE IInv'
  OBVIOUS
<1> PICK tx \in signed :
      wire' = wire \cup {[tx |-> tx, over |-> {}]}
      /\ ledger' = record_signed(ledger, tx.typed_tx)
  BY DEF SendRequest, Send
<1>1. UNCHANGED <<ctx, asked, signed, verify, cancel>>
  BY DEF SendRequest
<1>2. Typed(tx.typed_tx) /\ (Priced(asked) => Valid(tx.typed_tx))
  BY DEF IInv
<1>3. RecordInv(ledger')
  BY <1>2, RecordsKeep DEF IInv
<1>4. SentInv([tx |-> tx, over |-> {}])
  BY <1>2 DEF SentInv
<1>5. \A m \in wire' : SentInv(m)
  BY <1>4 DEF IInv
<1>6. \A m : SentInv(m) <=> SentInv(m)'
  BY <1>1 DEF SentInv
<1> QED BY <1>1, <1>3, <1>5, <1>6 DEF IInv

LEMMA Resends == IInv /\ Resend => IInv'
<1> SUFFICES ASSUME IInv, Resend PROVE IInv'
  OBVIOUS
<1>1. UNCHANGED <<ctx, asked, signed, ledger, cancel>>
  BY DEF Resend
<1> PICK tx \in signed :
      LET t == tx.typed_tx
          bumped == with_bumped_fees(t, RBF_MIN_BUMP_BPS)
      IN  IF t.type = "eip1559"
          THEN verify' = [at |-> "sent", tx |-> Signed(bumped)] /\ Send(Signed(bumped), {t})
          ELSE verify' = [at |-> "sent", tx |-> tx] /\ Send(tx, {t})
  BY DEF Resend
<1> DEFINE t == tx.typed_tx
           bumped == with_bumped_fees(t, RBF_MIN_BUMP_BPS)
<1>2. Typed(t) /\ (Priced(asked) => Valid(t))
  BY DEF IInv
<1>3. \E new : /\ verify' = [at |-> "sent", tx |-> new]
               /\ wire' = wire \cup {[tx |-> new, over |-> {t}]}
               /\ Typed(new.typed_tx) /\ (Priced(asked) => Valid(new.typed_tx))
               /\ Replaceable(t) => Outbids(new.typed_tx, t)
  <2>1. CASE t.type = "eip1559"
    <3>1. Typed(bumped) /\ (Valid(t) => Valid(bumped))
          /\ (Replaceable(t) => Outbids(bumped, t))
      BY <1>2, <2>1, Rebids
    <3>2. Signed(bumped).typed_tx = bumped
      BY SignedIs
    <3>3. verify' = [at |-> "sent", tx |-> Signed(bumped)]
          /\ wire' = wire \cup {[tx |-> Signed(bumped), over |-> {t}]}
      BY <2>1 DEF Send
    <3> HIDE DEF bumped, t
    <3> QED BY <1>2, <3>1, <3>2, <3>3
  <2>2. CASE t.type # "eip1559"
    <3>1. verify' = [at |-> "sent", tx |-> tx] /\ wire' = wire \cup {[tx |-> tx, over |-> {t}]}
      BY <2>2 DEF Send
    <3>2. ~Replaceable(t)
      BY <2>2 DEF Replaceable
    <3> QED BY <1>2, <3>1, <3>2
  <2> QED BY <2>1, <2>2
<1> PICK new : /\ verify' = [at |-> "sent", tx |-> new]
               /\ wire' = wire \cup {[tx |-> new, over |-> {t}]}
               /\ Typed(new.typed_tx) /\ (Priced(asked) => Valid(new.typed_tx))
               /\ Replaceable(t) => Outbids(new.typed_tx, t)
  BY <1>3
<1>4. SentInv([tx |-> new, over |-> {t}])
  BY DEF SentInv
<1>5. \A m \in wire' : SentInv(m)
  BY <1>4 DEF IInv
<1>6. \A m : SentInv(m) <=> SentInv(m)'
  BY <1>1 DEF SentInv
<1>7. signed' # {} /\ Typed(verify'.tx.typed_tx)
  BY <1>1
<1> QED BY <1>1, <1>5, <1>6, <1>7 DEF IInv

LEMMA Cancels == IInv /\ Cancel => IInv'
<1> SUFFICES ASSUME IInv, Cancel PROVE IInv'
  OBVIOUS
<1>1. UNCHANGED <<ctx, asked, signed, ledger, verify>> /\ cancel.at = "pricing"
  BY DEF Cancel
<1> PICK gas \in GasPrices, tip \in Tips, bps \in BumpBps :
      LET t == CancelOf(gas, tip, bps, cancel.read)
      IN  /\ cancel' = [at |-> "sent", tx |-> Signed(t), read |-> cancel.read]
          /\ wire' = wire \cup {[tx |-> Signed(t), over |-> cancel.read.hashes]}
  BY DEF Cancel, CancelOf, Send
<1> DEFINE t == CancelOf(gas, tip, bps, cancel.read)
<1>2. Typed(t) /\ Valid(t) /\ \A u \in cancel.read.hashes : Replaceable(u) => Outbids(t, u)
  <2>1. gas \in Nat /\ tip \in Nat /\ bps \in Nat /\ RecordInv(cancel.read)
    BY FeeAssumption DEF IInv
  <2> QED BY <2>1, CancelsOutbid
<1> HIDE DEF t
<1>3. Signed(t).typed_tx = t
  BY SignedIs
<1>4. /\ cancel' = [at |-> "sent", tx |-> Signed(t), read |-> cancel.read]
      /\ wire' = wire \cup {[tx |-> Signed(t), over |-> cancel.read.hashes]}
  BY DEF t
<1>5. SentInv([tx |-> Signed(t), over |-> cancel.read.hashes])
  BY <1>2, <1>3 DEF SentInv
<1>6. \A m \in wire' : SentInv(m)
  BY <1>4, <1>5 DEF IInv
<1>7. \A m : SentInv(m) <=> SentInv(m)'
  BY <1>1 DEF SentInv
<1>8. signed' # {} /\ cancel'.read = cancel.read /\ Typed(cancel'.tx.typed_tx)
  BY <1>1, <1>2, <1>3, <1>4 DEF IInv
<1> QED BY <1>1, <1>6, <1>7, <1>8 DEF IInv

LEMMA Answers == IInv /\ (ResendOk \/ ResendFails \/ CancelOk \/ CancelFails) => IInv'
<1> SUFFICES ASSUME IInv, ResendOk \/ ResendFails \/ CancelOk \/ CancelFails
             PROVE  IInv'
  OBVIOUS
<1>1. UNCHANGED <<ctx, asked, signed, wire>>
  BY DEF ResendOk, ResendFails, CancelOk, CancelFails
<1>2. \A m : SentInv(m) <=> SentInv(m)'
  BY <1>1 DEF SentInv
<1>3. signed # {}
  BY DEF IInv, ResendOk, ResendFails, CancelOk, CancelFails
<1>4. RecordInv(NoRecord)
  BY DEF RecordInv, NoRecord, FeeOption
<1>5. CASE ResendOk \/ ResendFails
  <2>1. RecordInv(ledger')
    BY <1>5, RecordsKeep DEF IInv, ResendOk, ResendFails
  <2>2. verify'.at = "idle" /\ UNCHANGED cancel
    BY <1>5 DEF ResendOk, ResendFails, Idle
  <2> QED BY <1>1, <1>2, <1>3, <2>1, <2>2 DEF IInv
<1>6. CASE CancelOk \/ CancelFails
  <2>1. RecordInv(ledger')
    BY <1>6, RecordsKeep DEF IInv, CancelOk, CancelFails
  <2>2. cancel'.at = "idle" /\ RecordInv(cancel'.read) /\ UNCHANGED verify
    BY <1>4, <1>6 DEF CancelOk, CancelFails, Waiting
  <2> QED BY <1>1, <1>2, <1>3, <2>1, <2>2 DEF IInv
<1> QED BY <1>5, <1>6

LEMMA Others ==
  IInv /\ (Gate \/ PriceFails \/ Evict \/ (\E m \in wire : Arrive(m)) \/ UNCHANGED vars)
    => IInv'
<1> SUFFICES ASSUME IInv, Gate \/ PriceFails \/ Evict \/ (\E m \in wire : Arrive(m))
                            \/ UNCHANGED vars
             PROVE  IInv'
  OBVIOUS
<1>1. UNCHANGED <<ctx, asked, signed, ledger, verify, wire>>
  BY DEF Gate, PriceFails, Evict, Arrive, vars
<1>2. \A m : SentInv(m) <=> SentInv(m)'
  BY <1>1 DEF SentInv
<1>3. RecordInv(NoRecord)
  BY DEF RecordInv, NoRecord, FeeOption
<1>4. CASE Gate
  <2>1. cancel'.at = "pricing" /\ cancel'.read = ledger /\ ledger.hashes # {}
    BY <1>4 DEF Gate
  <2>2. signed # {}
    BY <2>1 DEF IInv, NoRecord
  <2> QED BY <1>1, <1>2, <2>1, <2>2 DEF IInv
<1>5. CASE PriceFails
  BY <1>1, <1>2, <1>3, <1>5 DEF IInv, PriceFails, Waiting
<1>6. CASE Evict \/ (\E m \in wire : Arrive(m)) \/ UNCHANGED vars
  <2>1. UNCHANGED cancel
    BY <1>6 DEF Evict, Arrive, vars
  <2> QED BY <1>1, <1>2, <2>1 DEF IInv
<1> QED BY <1>4, <1>5, <1>6

LEMMA Inductive == IInv /\ [Next /\ scalars' = scalars]_vars => IInv'
<1> SUFFICES ASSUME IInv, [Next /\ scalars' = scalars]_vars PROVE IInv'
  OBVIOUS
<1>1. ASSUME NEW q \in Requests, SignRequest(q, NoPrices) \/ SignRequest(q, ctx)
      PROVE  IInv'
  <2>1. ContextInv(NoPrices)
    BY DEF NoPrices, ContextInv, FeeOption
  <2>2. ContextInv(ctx)
    BY DEF IInv
  <2> QED BY <1>1, <2>1, <2>2, SignsRequests
<1> QED
  BY <1>1, Preheats, SendsRequests, Resends, Cancels, Answers, Others DEF Next

LEMMA Invariant == Spec => []IInv
<1> QED BY InitHolds, Inductive, PTL DEF Spec
-----------------------------------------------------------------------------
(* Theorems *)

\* src/wallet.rs, verify_broadcast and replace_stalled_nonce: whatever the prices,
\* the bumps and the fees of the record, a replacement bids a tenth more on both
\* fees than each transaction it is priced over.
THEOREM ReplacementsAlwaysOutbid == Spec => []ReplacementsOutbid
<1>1. IInv => ReplacementsOutbid
  BY DEF IInv, SentInv, ReplacementsOutbid
<1> QED BY <1>1, Invariant, PTL

\* src/transaction.rs, build, with_bumped_fees; src/wallet.rs, compute_cancel_fees:
\* a request priced in order, or not priced, is never sent with a tip above its
\* maximum fee, nor is a replacement.
THEOREM PricesAreAlwaysValid == Spec => []PricesAreValid
<1>1. IInv => PricesAreValid
  BY DEF IInv, SentInv, PricesAreValid, Priced
<1> QED BY <1>1, Invariant, PTL

\* src/wallet.rs, the ledger contract of replace_stalled_nonce: a replacement that
\* no pool took leaves no trace in the fees the next cancel is priced over.
THEOREM BasisIsAlwaysBacked == Spec => []BasisIsBacked
<1>1. \A rec, t : /\ record_signed(rec, t).max_fee_seen \in {rec.max_fee_seen, t.max_fee_per_gas}
                  /\ record_signed(rec, t).max_priority_seen \in
                       {rec.max_priority_seen, t.max_priority_fee_per_gas}
  BY DEF record_signed, merge_max, Highest
<1>2. Init => BasisIsBacked
  BY DEF Init, BasisIsBacked, NoRecord
<1>3. ASSUME BasisIsBacked, [Next /\ scalars' = scalars]_vars
      PROVE  BasisIsBacked'
  <2> DEFINE backed == taken \cup {tx.typed_tx : tx \in signed}
  <2>1. /\ ledger.max_fee_seen \in {None} \cup {t.max_fee_per_gas : t \in backed}
        /\ ledger.max_priority_seen \in {None} \cup {t.max_priority_fee_per_gas : t \in backed}
    BY <1>3 DEF BasisIsBacked
  <2>2. backed \subseteq backed'
    BY <1>3 DEF Next, preheat, SignRequest, SendRequest, Resend, ResendOk, ResendFails,
                Gate, PriceFails, Cancel, CancelOk, CancelFails, Arrive, Evict, vars
  <2>3. ledger' = ledger \/ \E t \in backed' : ledger' = record_signed(ledger, t)
    <3>1. ASSUME NEW q \in Requests, NEW c, SignRequest(q, c)
          PROVE  \E t \in backed' : ledger' = record_signed(ledger, t)
      <4> DEFINE t == build(DefaultGas(Preheated(q, c)))
      <4>1. signed' = {Signed(t)} /\ ledger' = record_signed(ledger, t)
        BY <3>1 DEF SignRequest
      <4>2. Signed(t).typed_tx = t
        BY SignedIs
      <4> HIDE DEF t
      <4> QED BY <4>1, <4>2
    <3>2. CASE SendRequest
      BY <3>2 DEF SendRequest
    <3>3. CASE ResendOk \/ CancelOk
      BY <3>3 DEF ResendOk, CancelOk
    <3> QED
      BY <1>3, <3>1, <3>2, <3>3 DEF Next, preheat, Resend, ResendFails, Gate, PriceFails,
                Cancel, CancelFails, Arrive, Evict, vars
  <2>4. CASE ledger' = ledger
    BY <2>1, <2>2, <2>4 DEF BasisIsBacked
  <2>5. ASSUME NEW t \in backed', ledger' = record_signed(ledger, t)
        PROVE  BasisIsBacked'
    <3>1. /\ ledger'.max_fee_seen \in {ledger.max_fee_seen, t.max_fee_per_gas}
          /\ ledger'.max_priority_seen \in {ledger.max_priority_seen, t.max_priority_fee_per_gas}
      BY <1>1, <2>5
    <3> QED BY <2>1, <2>2, <2>5, <3>1 DEF BasisIsBacked
  <2> QED BY <2>3, <2>4, <2>5
<1> QED BY <1>2, <1>3, PTL DEF Spec
-----------------------------------------------------------------------------
(* Sums *)

\* G gives every set of positions in 1 .. n the sum of f over it.
IsSum(f, n, G) ==
  /\ G \in [SUBSET (1 .. n) -> Nat] /\ G[{}] = 0
  /\ \A s \in SUBSET (1 .. n) : \A x \in s : G[s] = f[x] + G[s \ {x}]

\* The function that SumOf defines by recursion, over the positions in I.
Adds(f, I, G) ==
  G = [s \in SUBSET I |-> IF s = {} THEN 0
                          ELSE LET x == CHOOSE y \in s : TRUE IN f[x] + G[s \ {x}]]
Sum(f, I) == CHOOSE G : Adds(f, I, G)

LEMMA SumOfIsRecursive ==
  ASSUME NEW f
  PROVE  SumOf(f) = Sum(f, DOMAIN f)[DOMAIN f]
BY DEF SumOf, FoldFunction, FoldFunctionOnSet, MapThenFoldSet, Sum, Adds

\* The naturals are well ordered, which is induction without a predicate to give.
LEMMA LeastNat ==
  ASSUME NEW S \in SUBSET Nat, S # {}
  PROVE  \E m \in S : \A k \in S : m <= k
<1> DEFINE R == {ss \in Nat \X Nat : ss[1] < ss[2]}
<1>1. IsWellFoundedOn(R, Nat)
  BY NatLessThanWellFounded DEF OpToRel
<1> HIDE DEF R
<1>2. PICK m \in S : \A k \in S : <<k, m>> \notin R
  BY <1>1, WFMin, Zenon
<1>3. \A k \in S : m <= k
  <2> SUFFICES ASSUME NEW k \in S PROVE m <= k
    OBVIOUS
  <2>1. ~(k < m)
    BY <1>2 DEF R
  <2> QED BY <2>1
<1> QED BY <1>3

LEMMA OneMoreSum ==
  ASSUME NEW f, NEW n \in Nat, \A i \in 1 .. n + 1 : f[i] \in Nat, NEW G, IsSum(f, n, G)
  PROVE  \E H : IsSum(f, n + 1, H)
<1> DEFINE m == n + 1
           H == [s \in SUBSET (1 .. m) |-> IF m \in s THEN f[m] + G[s \ {m}] ELSE G[s]]
<1>1. /\ \A s \in SUBSET (1 .. m) : s \ {m} \in SUBSET (1 .. n)
      /\ \A s \in SUBSET (1 .. m) : m \notin s => s \in SUBSET (1 .. n)
      /\ {} \in SUBSET (1 .. n) /\ {} \in SUBSET (1 .. m)
      /\ m \notin 1 .. n
  OBVIOUS
<1>2. f[m] \in Nat /\ \A i \in 1 .. m : f[i] \in Nat
  OBVIOUS
<1> HIDE DEF m
<1>3. /\ G \in [SUBSET (1 .. n) -> Nat] /\ G[{}] = 0
      /\ \A s \in SUBSET (1 .. n) : \A x \in s : G[s] = f[x] + G[s \ {x}]
  BY DEF IsSum
<1>4. H \in [SUBSET (1 .. m) -> Nat] /\ H[{}] = 0
  BY <1>1, <1>2, <1>3
<1>5. \A s \in SUBSET (1 .. m) : H[s] = IF m \in s THEN f[m] + G[s \ {m}] ELSE G[s]
  OBVIOUS
<1> HIDE DEF H
<1>6. ASSUME NEW s \in SUBSET (1 .. m), NEW x \in s
      PROVE  H[s] = f[x] + H[s \ {x}]
  <2> DEFINE t == s \ {x}
  <2>1. t \in SUBSET (1 .. m)
    OBVIOUS
  <2>2. CASE x = m
    <3>1. H[t] = G[t]
      BY <1>5, <2>1, <2>2
    <3> QED BY <1>5, <2>2, <3>1
  <2>3. CASE x # m /\ m \in s
    <3> DEFINE u == s \ {m}
    <3>1. u \in SUBSET (1 .. n) /\ x \in u /\ u \ {x} = t \ {m}
      BY <1>1, <2>3
    <3>2. G[u] = f[x] + G[u \ {x}] /\ G[u \ {x}] \in Nat /\ G[u] \in Nat
      BY <1>1, <1>3, <2>1, <3>1
    <3>3. H[s] = f[m] + G[u] /\ H[t] = f[m] + G[t \ {m}]
      BY <1>5, <2>1, <2>3
    <3>4. f[x] \in Nat
      BY <1>2
    <3> QED BY <1>2, <3>1, <3>2, <3>3, <3>4
  <2>4. CASE m \notin s
    BY <1>1, <1>3, <1>5, <2>1, <2>4
  <2> QED BY <2>2, <2>3, <2>4
<1> QED BY <1>4, <1>6 DEF IsSum, m

LEMMA SumExists ==
  ASSUME NEW f, NEW n \in Nat, \A i \in 1 .. n : f[i] \in Nat
  PROVE  \E G : IsSum(f, n, G)
<1> DEFINE Bad == {k \in 0 .. n : ~\E G : IsSum(f, k, G)}
<1> SUFFICES Bad = {}
  OBVIOUS
<1>1. Bad \in SUBSET Nat
  OBVIOUS
<1>2. 0 \notin Bad
  <2> DEFINE G == [s \in SUBSET (1 .. 0) |-> 0]
  <2>1. IsSum(f, 0, G)
    BY DEF IsSum
  <2> QED BY <2>1
<1>3. ASSUME NEW k \in 0 .. n, k # 0, k - 1 \notin Bad PROVE k \notin Bad
  <2>1. k - 1 \in 0 .. n /\ k - 1 \in Nat /\ (k - 1) + 1 = k
    BY <1>3
  <2>2. PICK G : IsSum(f, k - 1, G)
    BY <1>3, <2>1
  <2>3. \A i \in 1 .. (k - 1) + 1 : f[i] \in Nat
    BY <2>1
  <2>4. \E H : IsSum(f, (k - 1) + 1, H)
    BY <2>1, <2>2, <2>3, OneMoreSum
  <2> QED BY <2>1, <2>4
<1>4. Bad \subseteq 0 .. n
  OBVIOUS
<1> HIDE DEF Bad
<1>5. ASSUME Bad # {} PROVE FALSE
  <2>1. PICK k \in Bad : \A j \in Bad : k <= j
    BY <1>1, <1>5, LeastNat
  <2>2. k \in 0 .. n /\ k # 0 /\ k - 1 \notin Bad
    BY <1>2, <1>4, <2>1
  <2> QED BY <1>3, <2>1, <2>2
<1> QED BY <1>5

\* In whichever order the recursion takes the positions, it comes to the same.
LEMMA SumIsUnique ==
  ASSUME NEW f, NEW n \in Nat, NEW G, IsSum(f, n, G)
  PROVE  Sum(f, 1 .. n) = G
<1> DEFINE I == 1 .. n
           S == Sum(f, I)
<1>1. /\ G \in [SUBSET I -> Nat] /\ G[{}] = 0
      /\ \A s \in SUBSET I : \A x \in s : G[s] = f[x] + G[s \ {x}]
  BY DEF IsSum
<1>2. IsFiniteSet(I)
  BY FS_Interval
<1> HIDE DEF I
<1>3. Adds(f, I, G)
  <2> DEFINE H == [s \in SUBSET I |-> IF s = {} THEN 0
                     ELSE LET x == CHOOSE y \in s : TRUE IN f[x] + G[s \ {x}]]
  <2>1. ASSUME NEW s \in SUBSET I PROVE G[s] = H[s]
    <3>1. CASE s = {}
      BY <1>1, <3>1
    <3>2. CASE s # {}
      <4>1. (CHOOSE y \in s : TRUE) \in s
        BY <3>2
      <4> QED BY <1>1, <3>2, <4>1
    <3> QED BY <3>1, <3>2
  <2>2. G = [s \in SUBSET I |-> G[s]] /\ H = [s \in SUBSET I |-> H[s]]
    BY <1>1
  <2>3. G = H
    BY <2>1, <2>2
  <2> QED BY <2>3 DEF Adds
<1>4. Adds(f, I, S)
  BY <1>3 DEF Sum
<1> HIDE DEF S
<1>5. /\ S = [s \in SUBSET I |-> S[s]]
      /\ S[{}] = 0
      /\ \A s \in SUBSET I : s # {} => \E x \in s : S[s] = f[x] + S[s \ {x}]
  <2>1. \A s \in SUBSET I :
          S[s] = IF s = {} THEN 0 ELSE LET x == CHOOSE y \in s : TRUE IN f[x] + S[s \ {x}]
    BY <1>4 DEF Adds
  <2>2. S[{}] = 0
    BY <2>1
  <2>3. ASSUME NEW s \in SUBSET I, s # {} PROVE \E x \in s : S[s] = f[x] + S[s \ {x}]
    <3>1. (CHOOSE y \in s : TRUE) \in s
      BY <2>3
    <3> QED BY <2>1, <2>3, <3>1
  <2>4. S = [s \in SUBSET I |-> S[s]]
    BY <1>4 DEF Adds
  <2> QED BY <2>2, <2>3, <2>4
<1> DEFINE Bad == {k \in Nat : \E s \in SUBSET I : Cardinality(s) = k /\ S[s] # G[s]}
<1>6. \A s \in SUBSET I : IsFiniteSet(s) /\ Cardinality(s) \in Nat
  BY <1>2, FS_Subset, FS_CardinalityType
<1>7. Bad = {}
  <2> SUFFICES ASSUME Bad # {} PROVE FALSE
    OBVIOUS
  <2>1. PICK k \in Bad : \A j \in Bad : k <= j
    BY LeastNat
  <2>2. PICK s \in SUBSET I : Cardinality(s) = k /\ S[s] # G[s]
    BY <2>1
  <2>3. s # {}
    BY <1>1, <1>5, <2>2
  <2>4. PICK x \in s : S[s] = f[x] + S[s \ {x}]
    BY <1>5, <2>3
  <2>5. G[s] = f[x] + G[s \ {x}]
    BY <1>1
  <2>6. S[s \ {x}] # G[s \ {x}] /\ s \ {x} \in SUBSET I
    BY <2>2, <2>4, <2>5
  <2>7. Cardinality(s \ {x}) = k - 1 /\ Cardinality(s \ {x}) \in Nat
    BY <1>6, <2>2, <2>6, FS_RemoveElement
  <2>8. k - 1 \in Bad /\ k \in Nat
    BY <2>1, <2>6, <2>7
  <2> HIDE DEF Bad
  <2>9. k <= k - 1
    BY <2>1, <2>8
  <2> QED BY <2>8, <2>9
<1>8. \A s \in SUBSET I : S[s] = G[s]
  BY <1>6, <1>7
<1>9. S = G
  BY <1>1, <1>5, <1>8
<1> QED BY <1>9 DEF S, I

\* The sum of a sequence, term by term: P[k] is that of the first k.
Sums(f, n, P) ==
  P \in [0 .. n -> Nat] /\ P[0] = 0 /\ \A k \in 1 .. n : P[k] = P[k - 1] + f[k]

LEMMA SumOfIs ==
  ASSUME NEW f, NEW n \in Nat, DOMAIN f = 1 .. n, \A i \in 1 .. n : f[i] \in Nat
  PROVE  SumOf(f) \in Nat /\ \E P : Sums(f, n, P) /\ SumOf(f) = P[n]
<1>1. PICK G : IsSum(f, n, G)
  BY SumExists
<1>2. SumOf(f) = G[1 .. n]
  BY <1>1, SumOfIsRecursive, SumIsUnique
<1>3. /\ G \in [SUBSET (1 .. n) -> Nat] /\ G[{}] = 0
      /\ \A s \in SUBSET (1 .. n) : \A x \in s : G[s] = f[x] + G[s \ {x}]
  BY <1>1 DEF IsSum
<1> DEFINE P == [k \in 0 .. n |-> G[1 .. k]]
<1>4. \A k \in 0 .. n : 1 .. k \in SUBSET (1 .. n)
  OBVIOUS
<1>5. P \in [0 .. n -> Nat]
  BY <1>3, <1>4
<1>6. P[0] = 0
  <2>1. 1 .. 0 = {} /\ 0 \in 0 .. n
    OBVIOUS
  <2> QED BY <1>3, <2>1
<1>7. ASSUME NEW k \in 1 .. n PROVE P[k] = P[k - 1] + f[k]
  <2>1. k \in 0 .. n /\ k - 1 \in 0 .. n /\ k \in 1 .. k /\ (1 .. k) \ {k} = 1 .. k - 1
    OBVIOUS
  <2> DEFINE s == 1 .. k
  <2>4. s \in SUBSET (1 .. n) /\ k \in s /\ s \ {k} = 1 .. k - 1
    BY <1>4, <2>1
  <2> HIDE DEF s
  <2>5. G[s] = f[k] + G[s \ {k}]
    BY <1>3, <2>4
  <2>2. G[1 .. k] = f[k] + G[1 .. k - 1]
    BY <2>4, <2>5 DEF s
  <2>3. f[k] \in Nat /\ P[k] = G[1 .. k] /\ P[k - 1] = G[1 .. k - 1] /\ P[k - 1] \in Nat
    BY <1>5, <2>1
  <2> QED BY <2>2, <2>3
<1>8. P[n] = G[1 .. n] /\ P[n] \in Nat
  BY <1>5
<1>9. Sums(f, n, P)
  BY <1>5, <1>6, <1>7 DEF Sums
<1> QED BY <1>2, <1>8, <1>9
-----------------------------------------------------------------------------
(* Tuples put together *)

LEMMA Domains ==
  ASSUME NEW S, NEW s \in Seq(S)
  PROVE  DOMAIN s = 1 .. Len(s)
OBVIOUS

Six(s, a1, a2, b1, b2, b3, b4) ==
  /\ Len(s) = 6 /\ DOMAIN s = 1 .. 6 /\ \E S : s \in Seq(S)
  /\ s[1] = a1 /\ s[2] = a2
  /\ s[3] = b1 /\ s[4] = b2 /\ s[5] = b3 /\ s[6] = b4

LEMMA Joins24 ==
  ASSUME NEW a1, NEW a2, NEW b1, NEW b2, NEW b3, NEW b4
  PROVE  \A s : s = <<a1, a2>> \o <<b1, b2, b3, b4>> =>
           Six(s, a1, a2, b1, b2, b3, b4)
<1> DEFINE S == {a1, a2, b1, b2, b3, b4}
           p == <<a1, a2>>
           q == <<b1, b2, b3, b4>>
<1>1. p \in Seq(S) /\ Len(p) = 2 /\ p[1] = a1 /\ p[2] = a2
  OBVIOUS
<1>2. q \in Seq(S) /\ Len(q) = 4 /\ q[1] = b1 /\ q[2] = b2 /\ q[3] = b3 /\ q[4] = b4
  OBVIOUS
<1> HIDE DEF S, p, q
<1>3. ASSUME NEW s, s = p \o q
      PROVE  Six(s, a1, a2, b1, b2, b3, b4)
  <2>1. /\ s \in Seq(S) /\ Len(s) = Len(p) + Len(q)
        /\ \A i \in 1 .. Len(p) + Len(q) :
             s[i] = IF i <= Len(p) THEN p[i] ELSE q[i - Len(p)]
    BY <1>1, <1>2, <1>3, ConcatProperties
  <2>2. Len(s) = 6 /\ \A i \in 1 .. 6 : s[i] = IF i <= 2 THEN p[i] ELSE q[i - 2]
    BY <1>1, <1>2, <2>1
  <2>3. s[1] = p[1] /\ s[2] = p[2] /\ s[3] = q[1] /\ s[4] = q[2] /\ s[5] = q[3] /\ s[6] = q[4]
    BY <2>2
  <2>4. \E X : s \in Seq(X)
    BY <2>1
  <2>5. DOMAIN s = 1 .. 6
    BY <2>1, <2>2, Domains, Zenon
  <2> QED BY <1>1, <1>2, <2>2, <2>3, <2>4, <2>5, Zenon DEF Six
<1> QED BY <1>3, Zenon DEF p, q

Eight(s, a1, a2, a3, b1, b2, b3, b4, c) ==
  /\ Len(s) = 8 /\ DOMAIN s = 1 .. 8 /\ \E S : s \in Seq(S)
  /\ s[1] = a1 /\ s[2] = a2 /\ s[3] = a3
  /\ s[4] = b1 /\ s[5] = b2 /\ s[6] = b3 /\ s[7] = b4 /\ s[8] = c

LEMMA Joins34 ==
  ASSUME NEW a1, NEW a2, NEW a3, NEW b1, NEW b2, NEW b3, NEW b4, NEW c
  PROVE  \A s : s = <<a1, a2, a3>> \o <<b1, b2, b3, b4>> \o <<c>> =>
           Eight(s, a1, a2, a3, b1, b2, b3, b4, c)
<1> DEFINE S == {a1, a2, a3, b1, b2, b3, b4, c}
           p == <<a1, a2, a3>>
           q == <<b1, b2, b3, b4>>
           l == <<c>>
<1>1. p \in Seq(S) /\ Len(p) = 3 /\ p[1] = a1 /\ p[2] = a2 /\ p[3] = a3
  OBVIOUS
<1>2. q \in Seq(S) /\ Len(q) = 4 /\ q[1] = b1 /\ q[2] = b2 /\ q[3] = b3 /\ q[4] = b4
  OBVIOUS
<1>3. l \in Seq(S) /\ Len(l) = 1 /\ l[1] = c
  OBVIOUS
<1> HIDE DEF S, p, q, l
<1>4. ASSUME NEW r, r = p \o q, NEW s, s = r \o l
      PROVE  Eight(s, a1, a2, a3, b1, b2, b3, b4, c)
  <2>1. /\ r \in Seq(S) /\ Len(r) = Len(p) + Len(q)
        /\ \A i \in 1 .. Len(p) + Len(q) :
             r[i] = IF i <= Len(p) THEN p[i] ELSE q[i - Len(p)]
    BY <1>1, <1>2, <1>4, ConcatProperties
  <2>2. l \in Seq(S) /\ r \in Seq(S)
    BY <1>3, <2>1
  <2>3. /\ r \o l \in Seq(S) /\ Len(r \o l) = Len(r) + Len(l)
        /\ \A i \in 1 .. Len(r) + Len(l) :
             (r \o l)[i] = IF i <= Len(r) THEN r[i] ELSE l[i - Len(r)]
    BY ONLY <2>2, ConcatProperties
  <2>4. /\ s \in Seq(S) /\ Len(s) = Len(r) + Len(l)
        /\ \A i \in 1 .. Len(r) + Len(l) :
             s[i] = IF i <= Len(r) THEN r[i] ELSE l[i - Len(r)]
    BY <2>3, <1>4, Zenon
  <2>5. Len(r) = 7 /\ \A i \in 1 .. 7 : r[i] = IF i <= 3 THEN p[i] ELSE q[i - 3]
    BY <1>1, <1>2, <2>1
  <2>6. Len(s) = 8 /\ \A i \in 1 .. 8 : s[i] = IF i <= 7 THEN r[i] ELSE l[i - 7]
    BY <1>3, <2>4, <2>5
  <2>7. /\ r[1] = p[1] /\ r[2] = p[2] /\ r[3] = p[3] /\ r[4] = q[1]
        /\ r[5] = q[2] /\ r[6] = q[3] /\ r[7] = q[4]
    BY <2>5
  <2>8. /\ s[1] = r[1] /\ s[2] = r[2] /\ s[3] = r[3] /\ s[4] = r[4]
        /\ s[5] = r[5] /\ s[6] = r[6] /\ s[7] = r[7] /\ s[8] = l[1]
    BY <2>6
  <2>9. \E X : s \in Seq(X)
    BY <2>4
  <2>10. DOMAIN s = 1 .. 8
    BY <2>4, <2>6, Domains, Zenon
  <2> QED BY <1>1, <1>2, <1>3, <2>6, <2>7, <2>8, <2>9, <2>10, Zenon DEF Eight
<1> QED BY <1>4, Zenon DEF p, q, l

Nine(s, a1, a2, a3, a4, b1, b2, b3, b4, c) ==
  /\ Len(s) = 9 /\ DOMAIN s = 1 .. 9 /\ \E S : s \in Seq(S)
  /\ s[1] = a1 /\ s[2] = a2 /\ s[3] = a3 /\ s[4] = a4
  /\ s[5] = b1 /\ s[6] = b2 /\ s[7] = b3 /\ s[8] = b4 /\ s[9] = c

LEMMA Joins44 ==
  ASSUME NEW a1, NEW a2, NEW a3, NEW a4, NEW b1, NEW b2, NEW b3, NEW b4, NEW c
  PROVE  \A s : s = <<a1, a2, a3, a4>> \o <<b1, b2, b3, b4>> \o <<c>> =>
           Nine(s, a1, a2, a3, a4, b1, b2, b3, b4, c)
<1> DEFINE S == {a1, a2, a3, a4, b1, b2, b3, b4, c}
           p == <<a1, a2, a3, a4>>
           q == <<b1, b2, b3, b4>>
           l == <<c>>
<1>1. p \in Seq(S) /\ Len(p) = 4 /\ p[1] = a1 /\ p[2] = a2 /\ p[3] = a3 /\ p[4] = a4
  OBVIOUS
<1>2. q \in Seq(S) /\ Len(q) = 4 /\ q[1] = b1 /\ q[2] = b2 /\ q[3] = b3 /\ q[4] = b4
  OBVIOUS
<1>3. l \in Seq(S) /\ Len(l) = 1 /\ l[1] = c
  OBVIOUS
<1> HIDE DEF S, p, q, l
<1>4. ASSUME NEW r, r = p \o q, NEW s, s = r \o l
      PROVE  Nine(s, a1, a2, a3, a4, b1, b2, b3, b4, c)
  <2>1. /\ r \in Seq(S) /\ Len(r) = Len(p) + Len(q)
        /\ \A i \in 1 .. Len(p) + Len(q) :
             r[i] = IF i <= Len(p) THEN p[i] ELSE q[i - Len(p)]
    BY <1>1, <1>2, <1>4, ConcatProperties
  <2>2. l \in Seq(S) /\ r \in Seq(S)
    BY <1>3, <2>1
  <2>3. /\ r \o l \in Seq(S) /\ Len(r \o l) = Len(r) + Len(l)
        /\ \A i \in 1 .. Len(r) + Len(l) :
             (r \o l)[i] = IF i <= Len(r) THEN r[i] ELSE l[i - Len(r)]
    BY ONLY <2>2, ConcatProperties
  <2>4. /\ s \in Seq(S) /\ Len(s) = Len(r) + Len(l)
        /\ \A i \in 1 .. Len(r) + Len(l) :
             s[i] = IF i <= Len(r) THEN r[i] ELSE l[i - Len(r)]
    BY <2>3, <1>4, Zenon
  <2>5. Len(r) = 8 /\ \A i \in 1 .. 8 : r[i] = IF i <= 4 THEN p[i] ELSE q[i - 4]
    BY <1>1, <1>2, <2>1
  <2>6. Len(s) = 9 /\ \A i \in 1 .. 9 : s[i] = IF i <= 8 THEN r[i] ELSE l[i - 8]
    BY <1>3, <2>4, <2>5
  <2>7. /\ r[1] = p[1] /\ r[2] = p[2] /\ r[3] = p[3] /\ r[4] = p[4]
        /\ r[5] = q[1] /\ r[6] = q[2] /\ r[7] = q[3] /\ r[8] = q[4]
    BY <2>5
  <2>8. /\ s[1] = r[1] /\ s[2] = r[2] /\ s[3] = r[3] /\ s[4] = r[4]
        /\ s[5] = r[5] /\ s[6] = r[6] /\ s[7] = r[7] /\ s[8] = r[8]
        /\ s[9] = l[1]
    BY <2>6
  <2>9. \E X : s \in Seq(X)
    BY <2>4
  <2>10. DOMAIN s = 1 .. 9
    BY <2>4, <2>6, Domains, Zenon
  <2> QED BY <1>1, <1>2, <1>3, <2>6, <2>7, <2>8, <2>9, <2>10, Zenon DEF Nine
<1> QED BY <1>4, Zenon DEF p, q, l

\* Three items more, which are the last three.
LEMMA Joins3 ==
  ASSUME NEW S, NEW s \in Seq(S), NEW x, NEW y, NEW z, NEW w, w = s \o <<x, y, z>>,
         NEW n \in Nat, Len(s) = n
  PROVE  /\ Len(w) = n + 3 /\ DOMAIN w = 1 .. n + 3
         /\ \A i \in 1 .. n : w[i] = s[i]
         /\ w[n + 1] = x /\ w[n + 2] = y /\ w[n + 3] = z
         /\ SubSeq(w, 1, n) = s
<1> DEFINE T == S \cup {x, y, z}
           l == <<x, y, z>>
<1>1. l \in Seq(T) /\ Len(l) = 3 /\ l[1] = x /\ l[2] = y /\ l[3] = z
  OBVIOUS
<1>2. w = s \o l
  OBVIOUS
<1>3. S \subseteq T
  OBVIOUS
<1> HIDE DEF T, l
<1>4. s \in Seq(T)
  BY <1>3
<1>5. /\ w \in Seq(T) /\ Len(w) = Len(s) + Len(l)
      /\ \A i \in 1 .. Len(s) + Len(l) : w[i] = IF i <= Len(s) THEN s[i] ELSE l[i - Len(s)]
  BY <1>1, <1>2, <1>4, ConcatProperties
<1>6. Len(w) = n + 3 /\ \A i \in 1 .. n + 3 : w[i] = IF i <= n THEN s[i] ELSE l[i - n]
  BY <1>1, <1>5
<1>7. DOMAIN w = 1 .. n + 3
  BY <1>5, <1>6
<1>8. \A i \in 1 .. n : w[i] = s[i]
  BY <1>6
<1>9. w[n + 1] = x /\ w[n + 2] = y /\ w[n + 3] = z
  <2>1. n + 1 \in 1 .. n + 3 /\ n + 2 \in 1 .. n + 3 /\ n + 3 \in 1 .. n + 3
    OBVIOUS
  <2>2. ~(n + 1 <= n) /\ ~(n + 2 <= n) /\ ~(n + 3 <= n)
    OBVIOUS
  <2>3. (n + 1) - n = 1 /\ (n + 2) - n = 2 /\ (n + 3) - n = 3
    OBVIOUS
  <2> QED BY <1>1, <1>6, <2>1, <2>2, <2>3
<1>10. SubSeq(w, 1, n) = s
  <2> DEFINE u == SubSeq(w, 1, n)
  <2>0. n <= Len(w) + 1 /\ 1 \in 1 .. Len(w) + 1 /\ n \in 0 .. Len(w)
    BY <1>6
  <2>1. u \in Seq(T) /\ Len(u) = n /\ \A i \in 1 .. n : u[i] = w[i]
    <3>1. u = [i \in 1 .. n |-> w[i]]
      BY <1>5, <2>0
    <3>2. \A i \in 1 .. n : w[i] \in T
      BY <1>5, <1>6
    <3> QED BY <3>1, <3>2
  <2> HIDE DEF u
  <2>2. \A i \in 1 .. n : u[i] = s[i]
    BY <1>8, <2>1
  <2>3. u = s
    BY <1>4, <2>1, <2>2, SeqEqual
  <2> QED BY <2>3 DEF u
<1> QED BY <1>6, <1>7, <1>8, <1>9, <1>10
-----------------------------------------------------------------------------
(* The fields *)

LEMMA Numbers == 0 # 1 /\ 0 # 2 /\ 1 # 0 /\ 1 # 2 /\ 2 # 0 /\ 2 # 1
OBVIOUS

\* What the EIP of a type calls its fields, one by one.
LEMMA NamesAre ==
  /\ Six(EipFields(0), "nonce", "gas_price", "gas_limit", "to", "value", "data")
  /\ Eight(EipFields(1), "chain_id", "nonce", "gas_price", "gas_limit", "to", "value", "data",
           "access_list")
  /\ Nine(EipFields(2), "chain_id", "nonce", "max_priority_fee_per_gas", "max_fee_per_gas",
          "gas_limit", "to", "value", "data", "access_list")
<1>1. EipFields(0) = <<"nonce", "gas_price">> \o <<"gas_limit", "to", "value", "data">>
  BY Numbers, Zenon DEF EipFields
<1>2. EipFields(1) = <<"chain_id", "nonce", "gas_price">>
                       \o <<"gas_limit", "to", "value", "data">> \o <<"access_list">>
  BY Numbers, Zenon DEF EipFields
<1>3. EipFields(2) = <<"chain_id", "nonce", "max_priority_fee_per_gas", "max_fee_per_gas">>
                       \o <<"gas_limit", "to", "value", "data">> \o <<"access_list">>
  BY Numbers, Zenon DEF EipFields
<1>4. Six(EipFields(0), "nonce", "gas_price", "gas_limit", "to", "value", "data")
  BY <1>1, Joins24, Zenon
<1>5. Eight(EipFields(1), "chain_id", "nonce", "gas_price", "gas_limit", "to", "value", "data",
            "access_list")
  BY <1>2, Joins34, Zenon
<1>6. Nine(EipFields(2), "chain_id", "nonce", "max_priority_fee_per_gas", "max_fee_per_gas",
           "gas_limit", "to", "value", "data", "access_list")
  BY <1>3, Joins44, Zenon
<1> QED BY <1>4, <1>5, <1>6

\* What the encoder of a type writes, one by one.
LEMMA ItemsAre ==
  ASSUME NEW t
  PROVE  /\ t.type = "legacy" =>
              Six(encode_fields(t), Num(t.nonce), Num(t.gas_price),
                  Num(t.gas_limit), encode_to(t.to), Num(t.value), Data(t.data))
         /\ t.type = "eip2930" =>
              Eight(encode_fields(t), Num(t.chain_id), Num(t.nonce), Num(t.gas_price),
                    Num(t.gas_limit), encode_to(t.to), Num(t.value), Data(t.data),
                    encode_access_list(t.access_list))
         /\ t.type = "eip1559" =>
              Nine(encode_fields(t), Num(t.chain_id), Num(t.nonce),
                   Num(t.max_priority_fee_per_gas), Num(t.max_fee_per_gas),
                   Num(t.gas_limit), encode_to(t.to), Num(t.value), Data(t.data),
                   encode_access_list(t.access_list))
<1>0. /\ "legacy" # "eip2930" /\ "legacy" # "eip1559" /\ "eip2930" # "eip1559"
  OBVIOUS
<1>1. ASSUME t.type = "legacy"
      PROVE  encode_fields(t) = <<Num(t.nonce), Num(t.gas_price)>>
               \o <<Num(t.gas_limit), encode_to(t.to), Num(t.value), Data(t.data)>>
  BY <1>0, <1>1, Zenon DEF encode_fields, CallFields
<1>2. ASSUME t.type = "eip2930"
      PROVE  encode_fields(t) = <<Num(t.chain_id), Num(t.nonce), Num(t.gas_price)>>
               \o <<Num(t.gas_limit), encode_to(t.to), Num(t.value), Data(t.data)>>
               \o <<encode_access_list(t.access_list)>>
  BY <1>0, <1>2, Zenon DEF encode_fields, CallFields
<1>3. ASSUME t.type = "eip1559"
      PROVE  encode_fields(t) = <<Num(t.chain_id), Num(t.nonce),
                                  Num(t.max_priority_fee_per_gas), Num(t.max_fee_per_gas)>>
               \o <<Num(t.gas_limit), encode_to(t.to), Num(t.value), Data(t.data)>>
               \o <<encode_access_list(t.access_list)>>
  BY <1>0, <1>3, Zenon DEF encode_fields, CallFields
<1>4. ASSUME t.type = "legacy"
      PROVE  Six(encode_fields(t), Num(t.nonce), Num(t.gas_price),
                 Num(t.gas_limit), encode_to(t.to), Num(t.value), Data(t.data))
  BY <1>1, <1>4, Joins24, Zenon
<1>5. ASSUME t.type = "eip2930"
      PROVE  Eight(encode_fields(t), Num(t.chain_id), Num(t.nonce), Num(t.gas_price),
                   Num(t.gas_limit), encode_to(t.to), Num(t.value), Data(t.data),
                   encode_access_list(t.access_list))
  BY <1>2, <1>5, Joins34, Zenon
<1>6. ASSUME t.type = "eip1559"
      PROVE  Nine(encode_fields(t), Num(t.chain_id), Num(t.nonce),
                  Num(t.max_priority_fee_per_gas), Num(t.max_fee_per_gas),
                  Num(t.gas_limit), encode_to(t.to), Num(t.value), Data(t.data),
                  encode_access_list(t.access_list))
  BY <1>3, <1>6, Joins44, Zenon
<1> QED BY <1>4, <1>5, <1>6, Zenon

\* A typed transaction that can be written: the fees and the access list are those
\* of its type, and there is a recipient or none.
Encodable(t) ==
  /\ t.type \in Types
  /\ DOMAIN t = {"type", "chain_id", "nonce", "gas_price", "max_priority_fee_per_gas",
                 "max_fee_per_gas", "gas_limit", "to", "value", "data", "access_list"}
  /\ t.chain_id \in Nat
  /\ t.to # ""
  /\ t.type = "eip1559" => t.gas_price = None
  /\ t.type # "eip1559" => t.max_priority_fee_per_gas = None /\ t.max_fee_per_gas = None
  /\ IF t.type = "legacy" THEN t.access_list = None ELSE t.access_list \in Seq(Nat)

NamesOf(type) ==
  CASE type = "legacy" -> {"nonce", "gas_price", "gas_limit", "to", "value", "data"}
    [] type = "eip2930" -> {"chain_id", "nonce", "gas_price", "gas_limit", "to", "value",
                            "data", "access_list"}
    [] type = "eip1559" -> {"chain_id", "nonce", "max_priority_fee_per_gas",
                            "max_fee_per_gas", "gas_limit", "to", "value", "data",
                            "access_list"}

\* The item of a field.
ItemOf(t, f) ==
  CASE f = "to" -> encode_to(t.to)
    [] f = "data" -> Data(t.data)
    [] f = "access_list" -> encode_access_list(t.access_list)
    [] OTHER -> Num(t[f])

\* Items s are those of the names, which are all different, in their order.
Match(s, names, n, t) ==
  /\ n \in Nat /\ Len(s) = n /\ Len(names) = n /\ DOMAIN names = 1 .. n
  /\ \E S : s \in Seq(S)
  /\ \A i \in 1 .. n : s[i] = ItemOf(t, names[i])
  /\ \A i, j \in 1 .. n : names[i] = names[j] => i = j
  /\ Range(names) = NamesOf(t.type)

LEMMA ItemOfIs ==
  ASSUME NEW t
  PROVE  /\ ItemOf(t, "to") = encode_to(t.to) /\ ItemOf(t, "data") = Data(t.data)
         /\ ItemOf(t, "access_list") = encode_access_list(t.access_list)
         /\ \A f : f \notin {"to", "data", "access_list"} => ItemOf(t, f) = Num(t[f])
BY DEF ItemOf

LEMMA SixMatch ==
  ASSUME NEW t, t.type = "legacy"
  PROVE  Match(encode_fields(t), EipFields(0), 6, t)
<1> DEFINE s == encode_fields(t)
           names == EipFields(0)
<1>1. Six(names, "nonce", "gas_price", "gas_limit", "to", "value", "data")
  BY NamesAre
<1>2. Six(s, Num(t.nonce), Num(t.gas_price),
          Num(t.gas_limit), encode_to(t.to), Num(t.value), Data(t.data))
  BY ItemsAre
<1> HIDE DEF s, names
<1>3. /\ Len(s) = 6 /\ Len(names) = 6 /\ DOMAIN names = 1 .. 6 /\ \E S : s \in Seq(S)
  BY <1>1, <1>2, Zenon DEF Six
<1>4. /\ names[1] = "nonce" /\ names[2] = "gas_price" /\ names[3] = "gas_limit"
      /\ names[4] = "to" /\ names[5] = "value" /\ names[6] = "data"
  BY <1>1, Zenon DEF Six
<1>5. /\ s[1] = Num(t["nonce"]) /\ s[2] = Num(t["gas_price"]) /\ s[3] = Num(t["gas_limit"])
      /\ s[4] = encode_to(t.to) /\ s[5] = Num(t["value"]) /\ s[6] = Data(t.data)
  BY <1>2, Zenon DEF Six
<1>6. \A i \in 1 .. 6 : i = 1 \/ i = 2 \/ i = 3 \/ i = 4 \/ i = 5 \/ i = 6
  OBVIOUS
<1>7. \A i \in 1 .. 6 : s[i] = ItemOf(t, names[i])
  BY <1>4, <1>5, <1>6, ItemOfIs
<1>8. \A i, j \in 1 .. 6 : names[i] = names[j] => i = j
  BY <1>4, <1>6
<1>9. Range(names) = {"nonce", "gas_price", "gas_limit", "to", "value", "data"}
  BY <1>3, <1>4, <1>6 DEF Range
<1>10. NamesOf(t.type) = {"nonce", "gas_price", "gas_limit", "to", "value", "data"}
  BY DEF NamesOf
<1> QED BY <1>3, <1>7, <1>8, <1>9, <1>10 DEF s, names, Match

LEMMA EightMatch ==
  ASSUME NEW t, t.type = "eip2930"
  PROVE  Match(encode_fields(t), EipFields(1), 8, t)
<1> DEFINE s == encode_fields(t)
           names == EipFields(1)
<1>1. Eight(names, "chain_id", "nonce", "gas_price", "gas_limit", "to", "value", "data",
           "access_list")
  BY NamesAre
<1>2. Eight(s, Num(t.chain_id), Num(t.nonce), Num(t.gas_price), Num(t.gas_limit),
           encode_to(t.to), Num(t.value), Data(t.data),
           encode_access_list(t.access_list))
  BY ItemsAre
<1> HIDE DEF s, names
<1>3. /\ Len(s) = 8 /\ Len(names) = 8 /\ DOMAIN names = 1 .. 8 /\ \E S : s \in Seq(S)
  BY <1>1, <1>2, Zenon DEF Eight
<1>4. /\ names[1] = "chain_id" /\ names[2] = "nonce" /\ names[3] = "gas_price"
      /\ names[4] = "gas_limit" /\ names[5] = "to" /\ names[6] = "value"
      /\ names[7] = "data" /\ names[8] = "access_list"
  BY <1>1, Zenon DEF Eight
<1>5. /\ s[1] = Num(t["chain_id"]) /\ s[2] = Num(t["nonce"]) /\ s[3] = Num(t["gas_price"])
      /\ s[4] = Num(t["gas_limit"]) /\ s[5] = encode_to(t.to) /\ s[6] = Num(t["value"])
      /\ s[7] = Data(t.data) /\ s[8] = encode_access_list(t.access_list)
  BY <1>2, Zenon DEF Eight
<1>6. \A i \in 1 .. 8 :
        i = 1 \/ i = 2 \/ i = 3 \/ i = 4 \/ i = 5 \/ i = 6 \/ i = 7 \/ i = 8
  OBVIOUS
<1>7. \A i \in 1 .. 8 : s[i] = ItemOf(t, names[i])
  BY <1>4, <1>5, <1>6, ItemOfIs
<1>8. \A i, j \in 1 .. 8 : names[i] = names[j] => i = j
  BY <1>4, <1>6
<1>9. Range(names) = {"chain_id", "nonce", "gas_price", "gas_limit", "to", "value",
                      "data", "access_list"}
  BY <1>3, <1>4, <1>6 DEF Range
<1>10. NamesOf(t.type) = {"chain_id", "nonce", "gas_price", "gas_limit", "to",
                          "value", "data", "access_list"}
  BY DEF NamesOf
<1> QED BY <1>3, <1>7, <1>8, <1>9, <1>10 DEF s, names, Match

LEMMA NineMatch ==
  ASSUME NEW t, t.type = "eip1559"
  PROVE  Match(encode_fields(t), EipFields(2), 9, t)
<1> DEFINE s == encode_fields(t)
           names == EipFields(2)
<1>1. Nine(names, "chain_id", "nonce", "max_priority_fee_per_gas", "max_fee_per_gas",
          "gas_limit", "to", "value", "data", "access_list")
  BY NamesAre
<1>2. Nine(s, Num(t.chain_id), Num(t.nonce), Num(t.max_priority_fee_per_gas),
          Num(t.max_fee_per_gas), Num(t.gas_limit), encode_to(t.to), Num(t.value),
          Data(t.data), encode_access_list(t.access_list))
  BY ItemsAre
<1> HIDE DEF s, names
<1>3. /\ Len(s) = 9 /\ Len(names) = 9 /\ DOMAIN names = 1 .. 9 /\ \E S : s \in Seq(S)
  BY <1>1, <1>2, Zenon DEF Nine
<1>4. /\ names[1] = "chain_id" /\ names[2] = "nonce" /\ names[3] = "max_priority_fee_per_gas"
      /\ names[4] = "max_fee_per_gas" /\ names[5] = "gas_limit" /\ names[6] = "to"
      /\ names[7] = "value" /\ names[8] = "data" /\ names[9] = "access_list"
  BY <1>1, Zenon DEF Nine
<1>5. /\ s[1] = Num(t["chain_id"]) /\ s[2] = Num(t["nonce"])
      /\ s[3] = Num(t["max_priority_fee_per_gas"])
      /\ s[4] = Num(t["max_fee_per_gas"]) /\ s[5] = Num(t["gas_limit"]) /\ s[6] = encode_to(t.to)
      /\ s[7] = Num(t["value"]) /\ s[8] = Data(t.data) /\ s[9] = encode_access_list(t.access_list)
  BY <1>2, Zenon DEF Nine
<1>6. \A i \in 1 .. 9 :
        i = 1 \/ i = 2 \/ i = 3 \/ i = 4 \/ i = 5 \/ i = 6 \/ i = 7 \/ i = 8 \/
        i = 9
  OBVIOUS
<1>7. \A i \in 1 .. 9 : s[i] = ItemOf(t, names[i])
  BY <1>4, <1>5, <1>6, ItemOfIs
<1>8. \A i, j \in 1 .. 9 : names[i] = names[j] => i = j
  BY <1>4, <1>6
<1>9. Range(names) = {"chain_id", "nonce", "max_priority_fee_per_gas",
                      "max_fee_per_gas", "gas_limit", "to", "value", "data",
                      "access_list"}
  BY <1>3, <1>4, <1>6 DEF Range
<1>10. NamesOf(t.type) = {"chain_id", "nonce", "max_priority_fee_per_gas",
                          "max_fee_per_gas", "gas_limit", "to", "value", "data",
                          "access_list"}
  BY DEF NamesOf
<1> QED BY <1>3, <1>7, <1>8, <1>9, <1>10 DEF s, names, Match
-----------------------------------------------------------------------------
(* Sizes *)

LEMMA NumIs ==
  ASSUME NEW n
  PROVE  /\ NumLength(n) \in Nat
         /\ Num(n)[1] = "number" /\ Num(n)[2] = n /\ Num(n)[3] = NumLength(n)
BY DEF NumLength, Num

LEMMA DataIs ==
  ASSUME NEW d
  PROVE  /\ DataLength(d) \in Nat
         /\ Data(d)[1] = "data" /\ Data(d)[2] = d /\ Data(d)[3] = DataLength(d)
BY DEF DataLength, Data

LEMMA ToIs ==
  ASSUME NEW to
  PROVE  /\ to_length(to) \in Nat
         /\ encode_to(to)[1] = "to" /\ encode_to(to)[3] = to_length(to)
         /\ to = None => encode_to(to)[2] = ""
         /\ to # None => encode_to(to)[2] = to
BY DEF to_length, encode_to, AddressLength

LEMMA LengthsAreNat ==
  ASSUME NEW n \in Nat
  PROVE  /\ length_of_length(n) \in Nat /\ storage_len(n) \in Nat /\ list_len(n) \in Nat
         /\ item_length(n) = list_len(n) + length_of_length(list_len(n))
         /\ item_length(n) \in Nat
         /\ list_len(n) = 21 + length_of_length(33 * n) + 33 * n
<1>1. /\ \A k \in Nat : length_of_length(k) \in Nat
  BY DEF length_of_length
<1>2. storage_len(n) = 33 * n /\ 33 * n \in Nat
  BY DEF storage_len
<1>3. list_len(n) = 21 + length_of_length(33 * n) + 33 * n
  BY <1>2 DEF list_len, AddressLength
<1> DEFINE l == list_len(n)
<1>4. l \in Nat
  BY <1>1, <1>2, <1>3
<1> HIDE DEF l
<1>5. item_length(n) = length_of_length(l) + l
  BY DEF item_length, l
<1>6. length_of_length(l) \in Nat
  BY <1>1, <1>4
<1> QED BY <1>1, <1>2, <1>3, <1>4, <1>5, <1>6 DEF l

\* What an access list declares is what its entries come to.
LEMMA AccessListIs ==
  ASSUME NEW list \in Seq(Nat)
  PROVE  /\ access_list_length(list) \in Nat
         /\ encode_access_list(list)[1] = "list"
         /\ encode_access_list(list)[3] = access_list_length(list)
         /\ encode_access_list(list)[2].declares =
              SumOf(Each(LAMBDA e : e.declares + length_of_length(e.declares),
                         encode_access_list(list)[2].items))
         /\ Each(LAMBDA e : e.keys, encode_access_list(list)[2].items) = list
         /\ \A e \in Range(encode_access_list(list)[2].items) :
              e.declares = LET keys == 33 * e.keys IN 21 + length_of_length(keys) + keys
<1> DEFINE n == Len(list)
           sizes == [i \in 1 .. n |-> item_length(list[i])]
           items == [i \in 1 .. n |-> [declares |-> list_len(list[i]), keys |-> list[i]]]
           all == encode_access_list(list)
<1>1. n \in Nat /\ DOMAIN list = 1 .. n /\ \A i \in 1 .. n : list[i] \in Nat
  OBVIOUS
<1>2. list = [i \in 1 .. n |-> list[i]]
  OBVIOUS
<1> HIDE DEF n
<1>3. Each(item_length, list) = sizes /\ Each(encode_item, list) = items
  BY <1>1 DEF Each, encode_item
<1>4. /\ all[1] = "list" /\ all[3] = access_list_length(list)
      /\ all[2].declares = inner_len(list) /\ all[2].items = items
  BY <1>3 DEF encode_access_list, access_list_length
<1>5. inner_len(list) = SumOf(sizes)
  BY <1>3 DEF inner_len
<1>6. DOMAIN sizes = 1 .. n /\ \A i \in 1 .. n : sizes[i] \in Nat
  BY <1>1, LengthsAreNat
<1>7. Each(LAMBDA e : e.declares + length_of_length(e.declares), items) = sizes
  <2>1. \A i \in 1 .. n : items[i].declares + length_of_length(items[i].declares) = sizes[i]
    BY <1>1, LengthsAreNat
  <2> QED BY <2>1 DEF Each
<1>8. Each(LAMBDA e : e.keys, items) = list
  BY <1>2 DEF Each
<1>9. \A e \in Range(items) :
        e.declares = LET keys == 33 * e.keys IN 21 + length_of_length(keys) + keys
  <2> SUFFICES ASSUME NEW i \in 1 .. n
               PROVE  items[i].declares = 21 + length_of_length(33 * items[i].keys)
                                            + 33 * items[i].keys
    BY DEF Range
  <2>1. items[i].declares = list_len(list[i]) /\ items[i].keys = list[i] /\ list[i] \in Nat
    BY <1>1
  <2> HIDE DEF items
  <2> QED BY <2>1, LengthsAreNat
<1> HIDE DEF sizes, items, all
<1>10. SumOf(sizes) \in Nat
  BY <1>1, <1>6, SumOfIs
<1>11. access_list_length(list) \in Nat
  <2>1. inner_len(list) \in Nat
    BY <1>5, <1>10
  <2>2. length_of_length(inner_len(list)) \in Nat
    BY <2>1, LengthsAreNat
  <2> QED BY <2>1, <2>2 DEF access_list_length
<1> QED BY <1>4, <1>5, <1>7, <1>8, <1>9, <1>11 DEF all

\* The size of the item of a field.
SizeOf(t, f) == ItemOf(t, f)[3]

\* The sizes of the fields come to what the length function of the type counts.
LEMMA FieldsAddUp ==
  ASSUME NEW t, Encodable(t), NEW m \in Nat, NEW n \in Nat, n = Len(encode_fields(t)), n <= m,
         NEW f, \A i \in 1 .. n : f[i] = encode_fields(t)[i][3], NEW P, Sums(f, m, P)
  PROVE  P[n] = rlp_list_len(t) /\ rlp_list_len(t) \in Nat
<1> DEFINE s == encode_fields(t)
           call == NumLength(t.gas_limit) + to_length(t.to) + NumLength(t.value)
                     + DataLength(t.data)
<1>0. P[0] = 0 /\ \A k \in 1 .. m : P[k] = P[k - 1] + f[k]
  BY DEF Sums
<1>1. CallLength(t) = call
  BY DEF CallLength
<1>2. /\ \A v : NumLength(v) \in Nat /\ Num(v)[3] = NumLength(v)
      /\ to_length(t.to) \in Nat /\ encode_to(t.to)[3] = to_length(t.to)
      /\ DataLength(t.data) \in Nat /\ Data(t.data)[3] = DataLength(t.data)
  BY NumIs, ToIs, DataIs
<1>3. t.type \in Types
  BY DEF Encodable
<1>4. CASE t.type = "legacy"
  <2>1. Six(s, Num(t.nonce), Num(t.gas_price),
            Num(t.gas_limit), encode_to(t.to), Num(t.value), Data(t.data))
    BY <1>4, ItemsAre
  <2> HIDE DEF s
  <2>2. n = 6
    BY <2>1 DEF Six, s
  <2>3. /\ f[1] = NumLength(t.nonce) /\ f[2] = NumLength(t.gas_price)
        /\ f[3] = NumLength(t.gas_limit) /\ f[4] = to_length(t.to)
        /\ f[5] = NumLength(t.value) /\ f[6] = DataLength(t.data)
    BY <1>2, <2>1, <2>2 DEF Six, s
  <2>4. /\ P[1] = P[0] + f[1] /\ P[2] = P[1] + f[2] /\ P[3] = P[2] + f[3]
        /\ P[4] = P[3] + f[4] /\ P[5] = P[4] + f[5] /\ P[6] = P[5] + f[6]
    BY <1>0, <2>2
  <2>5. rlp_list_len(t) = NumLength(t.nonce) + NumLength(t.gas_price) + CallLength(t)
    BY <1>4 DEF rlp_list_len
  <2> QED BY <1>0, <1>1, <1>2, <2>2, <2>3, <2>4, <2>5
<1>5. CASE t.type = "eip2930"
  <2>0. /\ access_list_length(t.access_list) \in Nat
        /\ encode_access_list(t.access_list)[3] = access_list_length(t.access_list)
    BY <1>5, AccessListIs DEF Encodable
  <2>1. Eight(s, Num(t.chain_id), Num(t.nonce), Num(t.gas_price), Num(t.gas_limit),
             encode_to(t.to), Num(t.value), Data(t.data),
             encode_access_list(t.access_list))
    BY <1>5, ItemsAre
  <2> HIDE DEF s
  <2>2. n = 8
    BY <2>1 DEF Eight, s
  <2>3. /\ s[1] = Num(t.chain_id) /\ s[2] = Num(t.nonce) /\ s[3] = Num(t.gas_price)
        /\ s[4] = Num(t.gas_limit) /\ s[5] = encode_to(t.to) /\ s[6] = Num(t.value)
        /\ s[7] = Data(t.data) /\ s[8] = encode_access_list(t.access_list)
    BY <2>1, Zenon DEF Eight
  <2>4. /\ f[1] = s[1][3] /\ f[2] = s[2][3] /\ f[3] = s[3][3]
        /\ f[4] = s[4][3] /\ f[5] = s[5][3] /\ f[6] = s[6][3]
        /\ f[7] = s[7][3] /\ f[8] = s[8][3]
    BY <2>2 DEF s
  <2>5. /\ f[1] = NumLength(t.chain_id) /\ f[2] = NumLength(t.nonce)
        /\ f[3] = NumLength(t.gas_price) /\ f[4] = NumLength(t.gas_limit)
        /\ f[5] = to_length(t.to) /\ f[6] = NumLength(t.value)
        /\ f[7] = DataLength(t.data) /\ f[8] = access_list_length(t.access_list)
    BY <1>2, <2>0, <2>3, <2>4
  <2>6. /\ P[1] = P[0] + f[1] /\ P[2] = P[1] + f[2] /\ P[3] = P[2] + f[3]
        /\ P[4] = P[3] + f[4] /\ P[5] = P[4] + f[5] /\ P[6] = P[5] + f[6]
        /\ P[7] = P[6] + f[7] /\ P[8] = P[7] + f[8]
    BY <1>0, <2>2
  <2>7. rlp_list_len(t) = NumLength(t.chain_id) + NumLength(t.nonce)
                            + NumLength(t.gas_price)
                            + CallLength(t) + access_list_length(t.access_list)
    BY <1>5 DEF rlp_list_len
  <2> QED BY <1>0, <1>1, <1>2, <2>0, <2>2, <2>5, <2>6, <2>7
<1>6. CASE t.type = "eip1559"
  <2>0. /\ access_list_length(t.access_list) \in Nat
        /\ encode_access_list(t.access_list)[3] = access_list_length(t.access_list)
    BY <1>6, AccessListIs DEF Encodable
  <2>1. Nine(s, Num(t.chain_id), Num(t.nonce), Num(t.max_priority_fee_per_gas),
            Num(t.max_fee_per_gas), Num(t.gas_limit), encode_to(t.to), Num(t.value),
            Data(t.data), encode_access_list(t.access_list))
    BY <1>6, ItemsAre
  <2> HIDE DEF s
  <2>2. n = 9
    BY <2>1 DEF Nine, s
  <2>3. /\ s[1] = Num(t.chain_id) /\ s[2] = Num(t.nonce)
        /\ s[3] = Num(t.max_priority_fee_per_gas)
        /\ s[4] = Num(t.max_fee_per_gas) /\ s[5] = Num(t.gas_limit) /\ s[6] = encode_to(t.to)
        /\ s[7] = Num(t.value) /\ s[8] = Data(t.data) /\ s[9] = encode_access_list(t.access_list)
    BY <2>1, Zenon DEF Nine
  <2>4. /\ f[1] = s[1][3] /\ f[2] = s[2][3] /\ f[3] = s[3][3]
        /\ f[4] = s[4][3] /\ f[5] = s[5][3] /\ f[6] = s[6][3]
        /\ f[7] = s[7][3] /\ f[8] = s[8][3] /\ f[9] = s[9][3]
    BY <2>2 DEF s
  <2>5. /\ f[1] = NumLength(t.chain_id) /\ f[2] = NumLength(t.nonce)
        /\ f[3] = NumLength(t.max_priority_fee_per_gas) /\ f[4] = NumLength(t.max_fee_per_gas)
        /\ f[5] = NumLength(t.gas_limit) /\ f[6] = to_length(t.to)
        /\ f[7] = NumLength(t.value) /\ f[8] = DataLength(t.data)
        /\ f[9] = access_list_length(t.access_list)
    BY <1>2, <2>0, <2>3, <2>4
  <2>6. /\ P[1] = P[0] + f[1] /\ P[2] = P[1] + f[2] /\ P[3] = P[2] + f[3]
        /\ P[4] = P[3] + f[4] /\ P[5] = P[4] + f[5] /\ P[6] = P[5] + f[6]
        /\ P[7] = P[6] + f[7] /\ P[8] = P[7] + f[8] /\ P[9] = P[8] + f[9]
    BY <1>0, <2>2
  <2>7. rlp_list_len(t) = NumLength(t.chain_id) + NumLength(t.nonce)
                            + NumLength(t.max_priority_fee_per_gas) + NumLength(t.max_fee_per_gas)
                            + CallLength(t) + access_list_length(t.access_list)
    BY <1>6 DEF rlp_list_len
  <2> QED BY <1>0, <1>1, <1>2, <2>0, <2>2, <2>5, <2>6, <2>7
<1> QED BY <1>3, <1>4, <1>5, <1>6 DEF Types
-----------------------------------------------------------------------------
(* Items *)

\* What a node asks of an item.
ItemOk(item) ==
  /\ item[1] = "scalar" => item[2].zeros = 0
  /\ item[1] = "list" =>
       /\ item[2].declares =
            SumOf(Each(LAMBDA e : e.declares + length_of_length(e.declares), item[2].items))
       /\ \A e \in Range(item[2].items) :
            e.declares = LET keys == 33 * e.keys IN 21 + length_of_length(keys) + keys

LEMMA PlainItems ==
  ASSUME NEW item, item[1] # "scalar", item[1] # "list"
  PROVE  ItemOk(item)
BY Zenon DEF ItemOk

LEMMA PrefixIs ==
  ASSUME NEW t, t.type \in Types
  PROVE  /\ prefix(t) \in {0, 1, 2}
         /\ t.type = "legacy" <=> prefix(t) = 0
         /\ t.type = "eip2930" <=> prefix(t) = 1
         /\ t.type = "eip1559" <=> prefix(t) = 2
BY DEF prefix, Types

LEMMA FieldsMatch ==
  ASSUME NEW t, t.type \in Types
  PROVE  \E n \in Nat : /\ Match(encode_fields(t), EipFields(prefix(t)), n, t)
                        /\ t.type = "legacy" => n = 6
<1>1. CASE t.type = "legacy"
  BY <1>1, PrefixIs, SixMatch
<1>2. CASE t.type = "eip2930"
  BY <1>2, PrefixIs, EightMatch
<1>3. CASE t.type = "eip1559"
  BY <1>3, PrefixIs, NineMatch
<1> QED BY <1>1, <1>2, <1>3 DEF Types

LEMMA FieldItems ==
  ASSUME NEW t, Encodable(t), NEW f \in NamesOf(t.type)
  PROVE  ItemOk(ItemOf(t, f)) /\ ItemOf(t, f)[3] \in Nat
<1> DEFINE it == ItemOf(t, f)
<1>1. CASE f = "to"
  <2>0. it = encode_to(t.to)
    BY <1>1, ItemOfIs
  <2>1. it[1] = "to" /\ it[3] \in Nat
    BY <2>0, ToIs
  <2> HIDE DEF it
  <2>2. ItemOk(it)
    BY <2>1, PlainItems
  <2> QED BY <2>1, <2>2 DEF it
<1>2. CASE f = "data"
  <2>1. it[1] = "data" /\ it[3] \in Nat
    BY <1>2, ItemOfIs, DataIs
  <2> HIDE DEF it
  <2>2. ItemOk(it)
    BY <2>1, PlainItems
  <2> QED BY <2>1, <2>2 DEF it
<1>3. CASE f = "access_list"
  <2>1. t.type # "legacy"
    BY <1>3 DEF NamesOf
  <2>2. t.access_list \in Seq(Nat)
    BY <2>1 DEF Encodable
  <2> DEFINE item == encode_access_list(t.access_list)
  <2>3. /\ item[1] = "list" /\ item[3] \in Nat
        /\ item[2].declares =
             SumOf(Each(LAMBDA e : e.declares + length_of_length(e.declares), item[2].items))
        /\ \A e \in Range(item[2].items) :
             e.declares = LET keys == 33 * e.keys IN 21 + length_of_length(keys) + keys
    BY <2>2, AccessListIs
  <2>4. ItemOf(t, f) = item
    BY <1>3, ItemOfIs
  <2> HIDE DEF item
  <2>5. ItemOk(item)
    BY <2>3, Zenon DEF ItemOk
  <2> QED BY <2>3, <2>4, <2>5
<1>4. CASE f \notin {"to", "data", "access_list"}
  <2>1. it[1] = "number" /\ it[3] \in Nat
    BY <1>4, ItemOfIs, NumIs
  <2> HIDE DEF it
  <2>2. ItemOk(it)
    BY <2>1, PlainItems
  <2> QED BY <2>1, <2>2 DEF it
<1> QED BY <1>1, <1>2, <1>3, <1>4

LEMMA ScalarIs ==
  ASSUME NEW of, NEW rec_id, NEW zeros \in 0 .. 32
  PROVE  LET x == Scalar(of, rec_id, zeros)
             item == encode_signature_scalar(x)
         IN  /\ signature_scalar_length(x) \in Nat /\ item[3] = signature_scalar_length(x)
             /\ item[1] = "scalar"
             /\ item[2].of = of /\ item[2].rec_id = rec_id /\ item[2].zeros = 0
<1> DEFINE x == Scalar(of, rec_id, zeros)
           b == canonical_signature_scalar_bytes(x)
           item == encode_signature_scalar(x)
<1>1. /\ DOMAIN x = {"of", "rec_id", "zeros", "length"}
      /\ x.of = of /\ x.rec_id = rec_id /\ x.zeros = zeros /\ x.length = 32
  BY DEF Scalar
<1>2. item = <<"scalar", b, ScalarLength(b)>> /\ signature_scalar_length(x) = ScalarLength(b)
  BY DEF encode_signature_scalar, signature_scalar_length
<1> HIDE DEF x, item
<1>3. b.of = x.of /\ b.rec_id = x.rec_id /\ b.zeros = 0 /\ b.length = x.length - x.zeros
  BY <1>1 DEF canonical_signature_scalar_bytes
<1> HIDE DEF b
<1>4. /\ b.of = of /\ b.rec_id = rec_id /\ b.zeros = 0
      /\ ScalarLength(b) = 32 - zeros + 1
  BY <1>1, <1>3 DEF ScalarLength
<1>5. ScalarLength(b) \in Nat
  BY <1>4
<1>6. item[1] = "scalar" /\ item[2] = b /\ item[3] = ScalarLength(b)
  BY <1>2
<1> QED BY <1>2, <1>4, <1>5, <1>6 DEF x, item

\* The fields alone, and with three items more: lengths add up.
LEMMA ListsAddUp ==
  ASSUME NEW t, Encodable(t), NEW x, NEW y, NEW z,
         x[3] \in Nat, y[3] \in Nat, z[3] \in Nat
  PROVE  /\ rlp_list_len(t) \in Nat
         /\ SumOf(Each(LAMBDA item : item[3], encode_fields(t))) = rlp_list_len(t)
         /\ SumOf(Each(LAMBDA item : item[3], encode_fields(t) \o <<x, y, z>>)) =
              rlp_list_len(t) + x[3] + y[3] + z[3]
<1> DEFINE s == encode_fields(t)
           names == EipFields(prefix(t))
           w == s \o <<x, y, z>>
           total == rlp_list_len(t)
           f == [i \in DOMAIN s |-> s[i][3]]
           g == [i \in DOMAIN w |-> w[i][3]]
<1>1. PICK n \in Nat : Match(s, names, n, t)
  BY FieldsMatch DEF Encodable
<1>2. /\ Len(s) = n /\ DOMAIN s = 1 .. n /\ DOMAIN names = 1 .. n
      /\ \E S : s \in Seq(S)
      /\ \A i \in 1 .. n : s[i] = ItemOf(t, names[i])
      /\ \A i \in 1 .. n : names[i] \in NamesOf(t.type)
  <2> HIDE DEF s, names
  <2>1. /\ Len(s) = n /\ DOMAIN names = 1 .. n /\ \E S : s \in Seq(S)
        /\ \A i \in 1 .. n : s[i] = ItemOf(t, names[i])
        /\ Range(names) = NamesOf(t.type)
    BY <1>1, Zenon DEF Match
  <2>2. PICK S : s \in Seq(S)
    BY <2>1
  <2>3. DOMAIN s = 1 .. Len(s)
    BY <2>2, Domains
  <2>4. \A i \in 1 .. n : names[i] \in NamesOf(t.type)
    BY <2>1 DEF Range
  <2> QED BY <2>1, <2>3, <2>4
<1>3. /\ Len(w) = n + 3 /\ DOMAIN w = 1 .. n + 3
      /\ \A i \in 1 .. n : w[i] = s[i]
      /\ w[n + 1] = x /\ w[n + 2] = y /\ w[n + 3] = z
  <2> HIDE DEF s
  <2>1. PICK S : s \in Seq(S)
    BY <1>2
  <2> QED BY <1>2, <2>1, Joins3
<1> HIDE DEF s, names, w, f, g, total
<1>4. \A i \in 1 .. n : s[i][3] \in Nat
  BY <1>2, FieldItems
<1>5. DOMAIN f = 1 .. n /\ \A i \in 1 .. n : f[i] = s[i][3]
  BY <1>2 DEF f
<1>6. /\ DOMAIN g = 1 .. n + 3 /\ \A i \in 1 .. n : g[i] = s[i][3]
      /\ g[n + 1] = x[3] /\ g[n + 2] = y[3] /\ g[n + 3] = z[3]
  <2>1. /\ \A i \in 1 .. n : i \in 1 .. n + 3
        /\ n + 1 \in 1 .. n + 3 /\ n + 2 \in 1 .. n + 3 /\ n + 3 \in 1 .. n + 3
    OBVIOUS
  <2> QED BY <1>3, <2>1 DEF g
<1>7. total \in Nat /\ SumOf(f) = total
  <2>1. PICK P : Sums(f, n, P) /\ SumOf(f) = P[n]
    BY <1>4, <1>5, SumOfIs
  <2> QED BY <1>2, <1>5, <2>1, FieldsAddUp DEF s, total
<1>8. SumOf(g) = total + x[3] + y[3] + z[3]
  <2>1. \A i \in 1 .. n + 3 : g[i] \in Nat
    <3>1. \A i \in 1 .. n + 3 : i \in 1 .. n \/ i = n + 1 \/ i = n + 2 \/ i = n + 3
      OBVIOUS
    <3> QED BY <1>4, <1>6, <3>1
  <2>2. PICK P : Sums(g, n + 3, P) /\ SumOf(g) = P[n + 3]
    BY <1>6, <2>1, SumOfIs
  <2>3. P[n] = total
    BY <1>2, <1>6, <2>2, FieldsAddUp DEF s, total
  <2>4. /\ P[n + 1] = P[n] + g[n + 1] /\ P[n + 2] = P[n + 1] + g[n + 2]
        /\ P[n + 3] = P[n + 2] + g[n + 3]
    <3>1. \A k \in 1 .. n + 3 : P[k] = P[k - 1] + g[k]
      BY <2>2 DEF Sums
    <3>2. /\ n + 1 \in 1 .. n + 3 /\ n + 2 \in 1 .. n + 3 /\ n + 3 \in 1 .. n + 3
          /\ (n + 1) - 1 = n /\ (n + 2) - 1 = n + 1 /\ (n + 3) - 1 = n + 2
      OBVIOUS
    <3> QED BY <3>1, <3>2
  <2> QED BY <1>6, <1>7, <2>2, <2>3, <2>4
<1>9. f = Each(LAMBDA item : item[3], s) /\ g = Each(LAMBDA item : item[3], w)
  BY DEF f, g, Each
<1> QED BY <1>7, <1>8, <1>9 DEF s, w, total
-----------------------------------------------------------------------------
(* What a node reads *)

\* A scalar of the signature of t.
SignatureItem(item, t, rec_id) ==
  /\ item[1] = "scalar"
  /\ item[2].of = <<encode_signing_fields(t)>>
  /\ item[2].rec_id = rec_id
  /\ item[2].zeros = 0

\* The bytes b of t have its n fields, the parity and the scalars.
Bytes(b, t, n, rec_id, v) ==
  /\ n \in Nat /\ Match(encode_fields(t), EipFields(prefix(t)), n, t)
  /\ t.type = "legacy" => n = 6
  /\ b.prefix = prefix(t)
  /\ Len(b.items) = n + 3 /\ DOMAIN b.items = 1 .. n + 3
  /\ \A i \in 1 .. n : b.items[i] = encode_fields(t)[i]
  /\ b.items[n + 1] = Num(v)
  /\ SignatureItem(b.items[n + 2], t, rec_id)
  /\ SignatureItem(b.items[n + 3], t, rec_id)
  /\ SubSeq(b.items, 1, n) = encode_fields(t)
  /\ Sized(b)
  /\ t.type = "legacy" => v = rec_id + 35 + t.chain_id * 2
  /\ t.type # "legacy" => v = rec_id

Sign(t, rec_id, zeros) == sign(t, <<encode_signing_fields(t)>>, rec_id, zeros)

LEMMA SignWritesBytes ==
  ASSUME NEW t, Encodable(t), NEW rec_id, NEW zeros \in 0 .. 32
  PROVE  \E n, v : Bytes(Sign(t, rec_id, zeros).encoded, t, n, rec_id, v)
<1> DEFINE h == <<encode_signing_fields(t)>>
           sig == IF t.type = "legacy" THEN sign_hash(h, t.chain_id, rec_id, zeros)
                  ELSE sign_hash_typed(h, rec_id, zeros)
           b == encode_signed(t, sig)
           x == encode_signature_scalar(sig.r)
           y == encode_signature_scalar(sig.s)
           s == encode_fields(t)
<1>1. Sign(t, rec_id, zeros).encoded = b
  BY DEF Sign, sign
<1>2. /\ sig.r = Scalar(h, rec_id, zeros) /\ sig.s = Scalar(h, rec_id, 0)
      /\ t.type = "legacy" => sig.v = rec_id + 35 + t.chain_id * 2
      /\ t.type # "legacy" => sig.v = rec_id
  <2>1. CASE t.type = "legacy"
    BY <2>1 DEF sign_hash
  <2>2. CASE t.type # "legacy"
    BY <2>2 DEF sign_hash_typed
  <2> QED BY <2>1, <2>2
<1> HIDE DEF sig
<1>3. /\ b.prefix = prefix(t) /\ b.items = s \o <<Num(sig.v), x, y>>
      /\ b.declares = rlp_list_len(t) + NumLength(sig.v)
                        + signature_scalar_length(sig.r) + signature_scalar_length(sig.s)
  BY DEF encode_signed
<1> HIDE DEF b, h
<1>4. /\ SignatureItem(x, t, rec_id) /\ SignatureItem(y, t, rec_id)
      /\ x[3] = signature_scalar_length(sig.r) /\ y[3] = signature_scalar_length(sig.s)
      /\ x[3] \in Nat /\ y[3] \in Nat
  <2>1. 0 \in 0 .. 32
    OBVIOUS
  <2>2. /\ x[1] = "scalar" /\ x[2].of = h /\ x[2].rec_id = rec_id /\ x[2].zeros = 0
        /\ x[3] = signature_scalar_length(sig.r) /\ x[3] \in Nat
    BY <1>2, ScalarIs
  <2>3. /\ y[1] = "scalar" /\ y[2].of = h /\ y[2].rec_id = rec_id /\ y[2].zeros = 0
        /\ y[3] = signature_scalar_length(sig.s) /\ y[3] \in Nat
    BY <1>2, <2>1, ScalarIs
  <2> HIDE DEF x, y
  <2> QED BY <2>2, <2>3, Zenon DEF SignatureItem, h
<1> HIDE DEF x, y, s
<1>5. PICK n \in Nat : /\ Match(s, EipFields(prefix(t)), n, t)
                       /\ t.type = "legacy" => n = 6
  BY FieldsMatch DEF Encodable, s
<1>6. Len(s) = n /\ \E S : s \in Seq(S)
  BY <1>5, Zenon DEF Match
<1>7. /\ Len(b.items) = n + 3 /\ DOMAIN b.items = 1 .. n + 3
      /\ \A i \in 1 .. n : b.items[i] = s[i]
      /\ b.items[n + 1] = Num(sig.v) /\ b.items[n + 2] = x /\ b.items[n + 3] = y
      /\ SubSeq(b.items, 1, n) = s
  <2>1. PICK S : s \in Seq(S)
    BY <1>6
  <2> DEFINE z == Num(sig.v)
             w == s \o <<z, x, y>>
  <2> HIDE DEF z
  <2>2. /\ Len(w) = n + 3 /\ DOMAIN w = 1 .. n + 3
        /\ \A i \in 1 .. n : w[i] = s[i]
        /\ w[n + 1] = z /\ w[n + 2] = x /\ w[n + 3] = y
        /\ SubSeq(w, 1, n) = s
    BY <1>6, <2>1, Joins3
  <2>3. b.items = w
    BY <1>3, Zenon DEF z
  <2> HIDE DEF w
  <2> QED BY <2>2, <2>3, Zenon DEF z
<1>8. Sized(b)
  <2>1. Num(sig.v)[3] = NumLength(sig.v) /\ NumLength(sig.v) \in Nat
    BY NumIs
  <2>2. SumOf(Each(LAMBDA item : item[3], s \o <<Num(sig.v), x, y>>)) =
          rlp_list_len(t) + Num(sig.v)[3] + x[3] + y[3]
    BY <1>4, <2>1, ListsAddUp DEF s
  <2> QED BY <1>3, <1>4, <2>1, <2>2, Zenon DEF Sized
<1>9. Bytes(b, t, n, rec_id, sig.v)
  BY <1>2, <1>3, <1>4, <1>5, <1>7, <1>8, Zenon DEF Bytes, s
<1> QED BY <1>1, <1>9

\* A field of the type is read from its own item.
LEMMA FieldIsItem ==
  ASSUME NEW b, NEW t, NEW n, NEW rec_id, NEW v, Bytes(b, t, n, rec_id, v),
         NEW f \in NamesOf(t.type)
  PROVE  LET value == ItemOf(t, f)[2]
         IN  Field(b, f) = CASE f = "to" /\ value = "" -> None
                             [] f = "access_list" -> Each(LAMBDA e : e.keys, value.items)
                             [] OTHER -> value
<1> DEFINE names == EipFields(b.prefix)
           k == CHOOSE i \in DOMAIN names : names[i] = f
           s == encode_fields(t)
<1>1. /\ b.prefix = prefix(t) /\ Match(s, EipFields(prefix(t)), n, t)
      /\ \A i \in 1 .. n : b.items[i] = s[i]
  BY Zenon DEF Bytes
<1>2. /\ DOMAIN names = 1 .. n /\ \A i \in 1 .. n : s[i] = ItemOf(t, names[i])
      /\ Range(names) = NamesOf(t.type)
  BY <1>1, Zenon DEF Match
<1>3. f \in Range(names)
  BY <1>2
<1> HIDE DEF names, s
<1>4. k \in DOMAIN names /\ names[k] = f
  BY <1>3 DEF Range
<1>5. b.items[k][2] = ItemOf(t, f)[2]
  BY <1>1, <1>2, <1>4
<1>6. Field(b, f) = LET value == b.items[k][2]
                    IN  CASE f = "to" /\ value = "" -> None
                          [] f = "access_list" -> Each(LAMBDA e : e.keys, value.items)
                          [] OTHER -> value
  BY <1>3, Zenon DEF Field, names
<1> HIDE DEF k
<1> QED BY <1>5, <1>6, Zenon

LEMMA ChainIsRead ==
  ASSUME NEW b, NEW t, Encodable(t), NEW n, NEW rec_id \in {0, 1}, NEW v,
         Bytes(b, t, n, rec_id, v), t.type = "legacy"
  PROVE  /\ (b.items[7][2] - 35) \div 2 = t.chain_id
         /\ (v - 35) % 2 = rec_id
<1>1. n = 6 /\ b.items[n + 1] = Num(v) /\ v = rec_id + 35 + t.chain_id * 2
  BY Zenon DEF Bytes
<1>2. b.items[7][2] = v
  <2>1. n + 1 = 7
    BY <1>1
  <2> QED BY <1>1, <2>1, NumIs
<1> DEFINE c == t.chain_id
<1>3. c \in Nat
  BY DEF Encodable
<1> HIDE DEF c
<1>4. v - 35 = rec_id + c * 2 /\ rec_id \in 0 .. 1
  BY <1>1, <1>3 DEF c
<1>5. (v - 35) \div 2 = c /\ (v - 35) % 2 = rec_id
  BY <1>3, <1>4
<1> QED BY <1>2, <1>5 DEF c

\* Every field is read as it was signed.
LEMMA FieldsAreRead ==
  ASSUME NEW b, NEW t, Encodable(t), NEW n, NEW rec_id \in {0, 1}, NEW v,
         Bytes(b, t, n, rec_id, v), NEW f \in DOMAIN t \ {"type"}
  PROVE  Field(b, f) = t[f]
<1> DEFINE value == ItemOf(t, f)[2]
<1>0. ASSUME f \in NamesOf(t.type), f # "access_list"
      PROVE  Field(b, f) = IF f = "to" /\ value = "" THEN None ELSE value
  <2>1. Field(b, f) = CASE f = "to" /\ value = "" -> None
                        [] f = "access_list" -> Each(LAMBDA e : e.keys, value.items)
                        [] OTHER -> value
    BY <1>0, FieldIsItem
  <2> HIDE DEF value
  <2> QED BY <1>0, <2>1, Zenon
<1>1. CASE f \in NamesOf(t.type) /\ f \notin {"to", "data", "access_list"}
  <2>1. ItemOf(t, f) = Num(t[f])
    BY <1>1, ItemOfIs
  <2>2. value = t[f]
    BY <2>1, NumIs
  <2> HIDE DEF value
  <2> QED BY <1>0, <1>1, <2>2
<1>2. CASE f \in NamesOf(t.type) /\ f = "data"
  <2>1. ItemOf(t, f) = Data(t.data)
    BY <1>2, ItemOfIs
  <2>2. value = t.data
    BY <2>1, DataIs
  <2> HIDE DEF value
  <2> QED BY <1>0, <1>2, <2>2
<1>3. CASE f \in NamesOf(t.type) /\ f = "to"
  <2>1. ItemOf(t, f) = encode_to(t.to)
    BY <1>3, ItemOfIs
  <2>2. /\ t.to = None => value = ""
        /\ t.to # None => value = t.to
    BY <2>1, ToIs
  <2>3. t.to # ""
    BY DEF Encodable
  <2> HIDE DEF value
  <2> QED BY <1>0, <1>3, <2>2, <2>3
<1> HIDE DEF value
<1>4. CASE f \in NamesOf(t.type) /\ f = "access_list"
  <2>1. t.access_list \in Seq(Nat)
    <3>1. t.type # "legacy"
      BY <1>4 DEF NamesOf
    <3> QED BY <3>1 DEF Encodable
  <2>2. ItemOf(t, f) = encode_access_list(t.access_list)
    BY <1>4, ItemOfIs
  <2>3. Field(b, f) = Each(LAMBDA e : e.keys, ItemOf(t, f)[2].items)
    BY <1>4, FieldIsItem
  <2> QED BY <1>4, <2>1, <2>2, <2>3, AccessListIs
<1>5. CASE f \notin NamesOf(t.type)
  <2>1. /\ b.prefix = prefix(t) /\ Match(encode_fields(t), EipFields(prefix(t)), n, t)
    BY Zenon DEF Bytes
  <2>2. f \notin Range(EipFields(b.prefix))
    BY <1>5, <2>1, Zenon DEF Match
  <2>3. Field(b, f) = IF f = "chain_id" THEN (b.items[7][2] - 35) \div 2 ELSE None
    BY <2>2, Zenon DEF Field
  <2>4. CASE t.type = "legacy"
    <3>1. f \in {"chain_id", "max_priority_fee_per_gas", "max_fee_per_gas", "access_list"}
      BY <1>5, <2>4 DEF NamesOf, Encodable
    <3> QED BY <2>3, <2>4, <3>1, ChainIsRead DEF Encodable
  <2>5. CASE t.type = "eip2930"
    <3>1. f \in {"max_priority_fee_per_gas", "max_fee_per_gas"}
      BY <1>5, <2>5 DEF NamesOf, Encodable
    <3> QED BY <2>3, <2>5, <3>1 DEF Encodable
  <2>6. CASE t.type = "eip1559"
    <3>1. f = "gas_price"
      BY <1>5, <2>6 DEF NamesOf, Encodable
    <3> QED BY <2>3, <2>6, <3>1 DEF Encodable
  <2> QED BY <2>4, <2>5, <2>6 DEF Encodable, Types
<1> QED BY <1>1, <1>2, <1>3, <1>4, <1>5

LEMMA ItemsAreOk ==
  ASSUME NEW b, NEW t, Encodable(t), NEW n, NEW rec_id, NEW v, Bytes(b, t, n, rec_id, v)
  PROVE  \A i \in DOMAIN b.items : ItemOk(b.items[i])
<1> DEFINE s == encode_fields(t)
           names == EipFields(prefix(t))
<1>1. /\ n \in Nat /\ Match(s, names, n, t) /\ DOMAIN b.items = 1 .. n + 3
      /\ \A i \in 1 .. n : b.items[i] = s[i]
      /\ b.items[n + 1] = Num(v)
      /\ SignatureItem(b.items[n + 2], t, rec_id) /\ SignatureItem(b.items[n + 3], t, rec_id)
  BY Zenon DEF Bytes
<1>2. /\ DOMAIN names = 1 .. n /\ \A i \in 1 .. n : s[i] = ItemOf(t, names[i])
      /\ Range(names) = NamesOf(t.type)
  BY <1>1, Zenon DEF Match
<1> HIDE DEF s, names
<1>3. \A i \in 1 .. n : ItemOk(b.items[i])
  <2>1. \A i \in 1 .. n : names[i] \in NamesOf(t.type)
    BY <1>2 DEF Range
  <2> QED BY <1>1, <1>2, <2>1, FieldItems, Zenon
<1>4. ItemOk(b.items[n + 1])
  <2>1. Num(v)[1] = "number"
    BY NumIs
  <2>2. Num(v)[1] # "scalar" /\ Num(v)[1] # "list"
    BY <2>1
  <2> QED BY <1>1, <2>2, PlainItems, Zenon
<1>5. \A item : SignatureItem(item, t, rec_id) => ItemOk(item)
  <2>1. "scalar" # "list"
    OBVIOUS
  <2> QED BY <2>1, Zenon DEF SignatureItem, ItemOk
<1>6. \A i \in 1 .. n + 3 : i \in 1 .. n \/ i = n + 1 \/ i = n + 2 \/ i = n + 3
  BY <1>1
<1> QED BY <1>1, <1>3, <1>4, <1>5, <1>6, Zenon

\* The node finds what the signature is of.
LEMMA SigningItemsAre ==
  ASSUME NEW b, NEW t, Encodable(t), NEW n, NEW rec_id \in {0, 1}, NEW v,
         Bytes(b, t, n, rec_id, v)
  PROVE  /\ encode_signing_fields(t).prefix = b.prefix
         /\ encode_signing_fields(t).items = SigningItems(b)
         /\ Sized(encode_signing_fields(t))
<1> DEFINE s == encode_fields(t)
           u == encode_signing_fields(t)
           last == SubSeq(b.items, 1, Len(b.items) - 3)
           chain == Num(t.chain_id)
<1>1. /\ n \in Nat /\ b.prefix = prefix(t) /\ Len(b.items) = n + 3
      /\ SubSeq(b.items, 1, n) = s
  BY Zenon DEF Bytes
<1>2. last = s
  <2>1. (n + 3) - 3 = n
    BY <1>1
  <2> QED BY <1>1, <2>1, Zenon
<1>3. t.type \in Types
  BY DEF Encodable
<1>4. chain[3] = NumLength(t.chain_id) /\ NumLength(t.chain_id) \in Nat
  BY NumIs
<1>5. Zero[3] = 1 /\ Zero = Num(0)
  BY DEF Zero, Num, NumLength
<1>6. /\ rlp_list_len(t) \in Nat
      /\ SumOf(Each(LAMBDA item : item[3], s)) = rlp_list_len(t)
      /\ SumOf(Each(LAMBDA item : item[3], s \o <<chain, Zero, Zero>>)) =
           rlp_list_len(t) + NumLength(t.chain_id) + 1 + 1
  <2>1. chain[3] \in Nat /\ Zero[3] \in Nat
    BY <1>4, <1>5
  <2> HIDE DEF chain
  <2>2. /\ rlp_list_len(t) \in Nat
        /\ SumOf(Each(LAMBDA item : item[3], s)) = rlp_list_len(t)
        /\ SumOf(Each(LAMBDA item : item[3], s \o <<chain, Zero, Zero>>)) =
             rlp_list_len(t) + chain[3] + Zero[3] + Zero[3]
    BY <2>1, ListsAddUp
  <2> QED BY <1>4, <1>5, <2>2, Zenon
<1>7. CASE t.type = "legacy"
  <2>1. /\ u.prefix = prefix(t) /\ u.items = s \o <<chain, Zero, Zero>>
        /\ u.declares = rlp_list_len(t) + NumLength(t.chain_id) + 1 + 1
    BY <1>7 DEF encode_signing_fields
  <2>2. b.prefix = 0
    BY <1>1, <1>3, <1>7, PrefixIs
  <2>3. Field(b, "chain_id") = t.chain_id
    <3>1. "chain_id" \in DOMAIN t \ {"type"}
      BY DEF Encodable
    <3> QED BY <3>1, FieldsAreRead
  <2> HIDE DEF u
  <2>4. SigningItems(b) = last \o <<Num(Field(b, "chain_id")), Num(0), Num(0)>>
    BY <2>2, Zenon DEF SigningItems
  <2>5. u.items = SigningItems(b)
    BY <1>2, <1>5, <2>1, <2>3, <2>4, Zenon
  <2>6. Sized(u)
    BY <1>6, <2>1, Zenon DEF Sized
  <2> QED BY <1>1, <2>1, <2>5, <2>6, Zenon DEF u
<1>8. CASE t.type # "legacy"
  <2>1. u.prefix = prefix(t) /\ u.items = s /\ u.declares = rlp_list_len(t)
    BY <1>8 DEF encode_signing_fields
  <2>2. b.prefix # 0
    BY <1>1, <1>3, <1>8, PrefixIs
  <2> HIDE DEF u
  <2>3. SigningItems(b) = last
    BY <2>2, Zenon DEF SigningItems
  <2>4. Sized(u)
    BY <1>6, <2>1, Zenon DEF Sized
  <2> QED BY <1>1, <1>2, <2>1, <2>3, <2>4, Zenon DEF u
<1> QED BY <1>7, <1>8

LEMMA NodesRead ==
  ASSUME NEW b, NEW t, Encodable(t), NEW n, NEW rec_id \in {0, 1}, NEW v,
         Bytes(b, t, n, rec_id, v)
  PROVE  Reads(b, t)
<1> DEFINE sc(i) == b.items[Len(b.items) - 2 + i][2]
           u == encode_signing_fields(t)
<1>1. /\ n \in Nat /\ Match(encode_fields(t), EipFields(prefix(t)), n, t)
      /\ b.prefix = prefix(t) /\ Len(b.items) = n + 3 /\ Sized(b)
      /\ b.items[n + 1] = Num(v)
      /\ SignatureItem(b.items[n + 2], t, rec_id) /\ SignatureItem(b.items[n + 3], t, rec_id)
      /\ t.type # "legacy" => v = rec_id
  BY Zenon DEF Bytes
<1>2. Len(EipFields(b.prefix)) = n
  BY <1>1, Zenon DEF Match
<1>3. \A i \in DOMAIN b.items : ItemOk(b.items[i])
  BY ItemsAreOk
<1>4. WellFormed(b)
  BY <1>1, <1>2, <1>3, Zenon DEF WellFormed, ItemOk
<1>5. \A f \in DOMAIN t \ {"type"} : Field(b, f) = t[f]
  BY FieldsAreRead
<1>6. /\ u.prefix = b.prefix /\ u.items = SigningItems(b) /\ Sized(u)
  BY SigningItemsAre
<1>7. (n + 3) - 2 = n + 1 /\ (n + 3) - 2 + 1 = n + 2 /\ (n + 3) - 2 + 2 = n + 3
  BY <1>1
<1>8. Parity(b) = rec_id
  <2>1. b.items[Len(b.items) - 2][2] = v
    BY <1>1, <1>7, NumIs
  <2>2. Parity(b) = IF b.prefix = 0 THEN (v - 35) % 2 ELSE v
    BY <2>1, Zenon DEF Parity
  <2>3. t.type \in Types
    BY DEF Encodable
  <2>4. CASE t.type = "legacy"
    <3>1. b.prefix = 0
      BY <1>1, <2>3, <2>4, PrefixIs
    <3>2. (v - 35) % 2 = rec_id
      BY <2>4, ChainIsRead
    <3> QED BY <2>2, <3>1, <3>2, Zenon
  <2>5. CASE t.type # "legacy"
    BY <1>1, <2>2, <2>3, <2>5, PrefixIs
  <2> QED BY <2>4, <2>5
<1>9. ASSUME NEW i \in {1, 2}
      PROVE  /\ sc(i).rec_id = Parity(b) /\ Len(sc(i).of) = 1
             /\ sc(i).of[1].prefix = b.prefix
             /\ sc(i).of[1].items = SigningItems(b)
             /\ Sized(sc(i).of[1])
  <2>1. SignatureItem(b.items[Len(b.items) - 2 + i], t, rec_id)
    BY <1>1, <1>7
  <2>2. sc(i).rec_id = rec_id /\ sc(i).of = <<u>>
    BY <2>1, Zenon DEF SignatureItem
  <2> HIDE DEF u
  <2>3. Len(<<u>>) = 1 /\ <<u>>[1] = u
    OBVIOUS
  <2> QED BY <1>6, <1>8, <2>2, <2>3, Zenon
<1> QED BY <1>1, <1>4, <1>5, <1>9, Zenon DEF Reads
-----------------------------------------------------------------------------
(* What is signed and sent can be read *)

\* A transaction is signed as it is encoded, whatever the buffer held before.
Written(tx) ==
  Encodable(tx.typed_tx) /\ tx = Sign(tx.typed_tx, scalars.rec_id, scalars.zeros)

EncodingInv ==
  /\ scalars \in Scalars
  /\ \A tx \in signed : Written(tx)
  /\ \A m \in wire : Written(m.tx)

LEMMA SignedIsWritten ==
  ASSUME NEW t, Encodable(t)
  PROVE  Written(Signed(t))
<1>1. Signed(t) = Sign(t, scalars.rec_id, scalars.zeros)
  BY DEF Signed, Sign, signing_buffer
<1>2. Sign(t, scalars.rec_id, scalars.zeros).typed_tx = t
  BY DEF Sign, sign
<1> QED BY <1>1, <1>2 DEF Written

LEMMA NoEntries == <<>> \in Seq(Nat)
BY EmptySeq

\* build gives what it makes of a request the fields of its type.
LEMMA BuildsEncodable ==
  ASSUME NEW q, q.to # "", q.access_list = None \/ q.access_list \in Seq(Nat)
  PROVE  Encodable(build(q))
<1> DEFINE t == build(q)
           dynamic == q.max_fee_per_gas # None \/ q.max_priority_fee_per_gas # None
           empty == <<>>
           list == unwrap_or(q.access_list, empty)
<1>1. /\ DOMAIN t = {"type", "chain_id", "nonce", "gas_price", "max_priority_fee_per_gas",
                     "max_fee_per_gas", "gas_limit", "to", "value", "data", "access_list"}
      /\ t.chain_id = ChainId /\ t.to = q.to
  BY DEF build
<1>2. list \in Seq(Nat)
  <2>1. empty \in Seq(Nat)
    BY NoEntries, Zenon
  <2> HIDE DEF empty
  <2> QED BY <2>1 DEF unwrap_or
<1> HIDE DEF list
<1>3. CASE dynamic
  <2>1. t.type = "eip1559" /\ t.gas_price = None /\ t.access_list = list
    BY <1>3 DEF build, list
  <2> QED BY <1>1, <1>2, <2>1, EncodingAssumption DEF Encodable, Types
<1>4. CASE ~dynamic /\ q.access_list # None
  <2>1. /\ t.type = "eip2930" /\ t.access_list = list
        /\ t.max_priority_fee_per_gas = None /\ t.max_fee_per_gas = None
    BY <1>4 DEF build, list
  <2> QED BY <1>1, <1>2, <2>1, EncodingAssumption DEF Encodable, Types
<1>5. CASE ~dynamic /\ q.access_list = None
  <2>1. /\ t.type = "legacy" /\ t.access_list = None
        /\ t.max_priority_fee_per_gas = None /\ t.max_fee_per_gas = None
    BY <1>5 DEF build
  <2> QED BY <1>1, <2>1, EncodingAssumption DEF Encodable, Types
<1> QED BY <1>3, <1>4, <1>5

LEMMA BumpsEncodable ==
  ASSUME NEW t, Encodable(t), t.type = "eip1559", NEW bps
  PROVE  Encodable(with_bumped_fees(t, bps))
<1> DEFINE u == with_bumped_fees(t, bps)
<1>1. /\ DOMAIN u = DOMAIN t
      /\ \A f \in DOMAIN t \ {"max_priority_fee_per_gas", "max_fee_per_gas"} : u[f] = t[f]
  BY DEF with_bumped_fees
<1>2. /\ u.type = t.type /\ u.chain_id = t.chain_id /\ u.to = t.to
      /\ u.gas_price = t.gas_price /\ u.access_list = t.access_list
  BY <1>1 DEF Encodable
<1> HIDE DEF u
<1>3. Encodable(u)
  BY <1>1, <1>2 DEF Encodable
<1> QED BY <1>3 DEF u

LEMMA EncodingHolds ==
  ASSUME EncodingInv, [Next /\ scalars' = scalars]_vars
  PROVE  EncodingInv'
<1>1. scalars' = scalars
  BY DEF vars
<1>2. \A tx : Written(tx)' <=> Written(tx)
  BY <1>1 DEF Written
<1>3. ASSUME \A tx \in signed' : tx \in signed \/ Written(tx),
             \A m \in wire' : m \in wire \/ m.tx \in signed \/ Written(m.tx)
      PROVE  EncodingInv'
  BY <1>1, <1>2, <1>3 DEF EncodingInv
<1>4. ASSUME NEW q \in Requests, NEW c, SignRequest(q, c)
      PROVE  EncodingInv'
  <2> DEFINE r == DefaultGas(Preheated(q, c))
  <2>1. r.to = q.to /\ r.access_list = q.access_list
    BY FeeAssumption DEF DefaultGas, Preheated, Fields
  <2>2. Written(Signed(build(r)))
    <3> HIDE DEF r
    <3> QED BY <2>1, BuildsEncodable, SignedIsWritten, EncodingAssumption
  <2>3. signed' = {Signed(build(r))} /\ wire' = wire
    BY <1>4 DEF SignRequest
  <2> HIDE DEF r
  <2> QED BY <1>3, <2>2, <2>3
<1>5. CASE SendRequest
  BY <1>3, <1>5 DEF SendRequest, Send
<1>6. CASE Resend
  <2>1. PICK tx \in signed :
          LET t == tx.typed_tx
              bumped == with_bumped_fees(t, RBF_MIN_BUMP_BPS)
          IN  IF t.type = "eip1559" THEN Send(Signed(bumped), {t}) ELSE Send(tx, {t})
    BY <1>6 DEF Resend
  <2>2. signed' = signed
    BY <1>6 DEF Resend
  <2> DEFINE t == tx.typed_tx
             bumped == with_bumped_fees(t, RBF_MIN_BUMP_BPS)
  <2>3. CASE t.type = "eip1559"
    <3>1. Encodable(t)
      BY DEF EncodingInv, Written
    <3>2. Written(Signed(bumped))
      BY <2>3, <3>1, BumpsEncodable, SignedIsWritten
    <3>3. wire' = wire \cup {[tx |-> Signed(bumped), over |-> {t}]}
      BY <2>1, <2>3 DEF Send
    <3> HIDE DEF bumped, t
    <3> QED BY <1>3, <2>2, <3>2, <3>3
  <2>4. CASE t.type # "eip1559"
    BY <1>3, <2>1, <2>2, <2>4 DEF Send
  <2> QED BY <2>3, <2>4
<1>7. CASE Cancel
  <2>1. PICK fees : LET t == build(CancelRequest(fees))
                    IN  Send(Signed(t), cancel.read.hashes)
    BY <1>7 DEF Cancel
  <2>2. CancelRequest(fees).to = "self" /\ CancelRequest(fees).access_list = None
    BY DEF CancelRequest, TransactionRequest
  <2>3. Written(Signed(build(CancelRequest(fees))))
    BY <2>2, BuildsEncodable, SignedIsWritten
  <2>4. signed' = signed
    BY <1>7 DEF Cancel
  <2> QED BY <1>3, <2>1, <2>3, <2>4 DEF Send
<1>8. ASSUME UNCHANGED <<signed, wire>>
      PROVE  EncodingInv'
  BY <1>3, <1>8
<1>9. CASE \/ preheat \/ ResendOk \/ ResendFails \/ Gate \/ PriceFails \/ CancelOk \/ CancelFails
           \/ (\E m \in wire : Arrive(m)) \/ Evict \/ UNCHANGED vars
  BY <1>8, <1>9 DEF preheat, ResendOk, ResendFails, Gate, PriceFails, CancelOk, CancelFails,
            Arrive, Evict, vars
<1> QED BY <1>4, <1>5, <1>6, <1>7, <1>9 DEF Next

\* src/transaction.rs, sign and the encoders of the three types; src/wallet.rs, what
\* it sends: whatever the type, the fees, the recipient, the access list, the chain,
\* the parity and the leading zeros of a scalar, and whatever the buffer of the
\* thread held, a node reads from the bytes the transaction that was signed, and
\* recovers the wallet's address.
THEOREM NodesAlwaysRead == Spec => []NodeReadsWhatWasSigned
<1>1. Init => EncodingInv
  BY DEF Init, EncodingInv
<1>2. EncodingInv /\ [Next /\ scalars' = scalars]_vars => EncodingInv'
  BY EncodingHolds
<1>3. EncodingInv => NodeReadsWhatWasSigned
  <2> SUFFICES ASSUME EncodingInv, NEW m \in wire
               PROVE  Reads(m.tx.encoded, m.tx.typed_tx)
    BY DEF NodeReadsWhatWasSigned
  <2> DEFINE t == m.tx.typed_tx
             b == m.tx.encoded
  <2>1. Written(m.tx) /\ scalars \in Scalars
    BY DEF EncodingInv
  <2>2. scalars.rec_id \in {0, 1} /\ scalars.zeros \in 0 .. 32
    BY <2>1, EncodingAssumption
  <2>3. Encodable(t) /\ b = Sign(t, scalars.rec_id, scalars.zeros).encoded
    BY <2>1 DEF Written
  <2> HIDE DEF t, b
  <2>4. PICK n, v : Bytes(b, t, n, scalars.rec_id, v)
    BY <2>2, <2>3, SignWritesBytes
  <2>5. Reads(b, t)
    BY <2>2, <2>3, <2>4, NodesRead
  <2> QED BY <2>5 DEF t, b
<1> QED BY <1>1, <1>2, <1>3, PTL DEF Spec
=============================================================================
