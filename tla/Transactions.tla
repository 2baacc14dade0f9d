---------------------------- MODULE Transactions ----------------------------
(* The transactions the wallet signs at one nonce, and what they bid: the      *)
(* request with or without a preheated context (src/wallet.rs), its typed form *)
(* and its bytes (src/transaction.rs), the bumped re-send of verify_broadcast  *)
(* and the cancel of replace_stalled_nonce, against a pool that takes a        *)
(* replacement only if it bids a tenth more on both fees.  Fees count in gwei. *)
EXTENDS TxEncoding

CONSTANTS
  Requests,         \* what callers of sign, send and send_with_preheat may ask for
  GasPrices, Tips,  \* what endpoints may answer
  BumpBps,          \* what callers pass as tip_bump_bps
  Scalars,          \* what signing may come to: the parity, and leading zeros of r
  ChainId, Nonce,
  DefaultGasLimit,
  MaxCancels,       \* bound on calls of replace_stalled_nonce
  MaxU256

RBF_MIN_BUMP_BPS == 1250
Gwei == 1
DefaultTip == 1 * Gwei
DefaultMaxFee == 100 * Gwei
DefaultGasPrice == 50 * Gwei

FeeOption == Nat \cup {None}
Fields == {"to", "value", "data", "gas_limit", "gas_price", "max_fee_per_gas",
           "max_priority_fee_per_gas", "access_list"}

ASSUME FeeAssumption ==
  /\ GasPrices \subseteq Nat
  /\ Tips \subseteq Nat
  /\ BumpBps \subseteq Nat
  /\ MaxU256 \in Nat
  /\ None \notin Nat
  /\ \A q \in Requests :
       /\ DOMAIN q = Fields
       /\ {q.gas_price, q.max_fee_per_gas, q.max_priority_fee_per_gas} \subseteq FeeOption

\* A context that knows the tip alone leaves the maximum fee to build.
ASSUME TipAssumption == \A tip \in Tips : tip <= DefaultMaxFee

\* On the wire "" stands for no recipient; an access list is given by the number of
\* keys of each entry; a scalar has 32 bytes, and signer.rs asserts its parity.
ASSUME EncodingAssumption ==
  /\ ChainId \in Nat
  /\ Scalars \subseteq [rec_id : {0, 1}, zeros : 0 .. 32]
  /\ \A q \in Requests :
       q.to # "" /\ (q.access_list = None \/ q.access_list \in Seq(Nat))

VARIABLES
  ctx,       \* prices of the PreheatedContext
  asked,     \* the request signed, or None
  signed,    \* its Transaction: none yet, or one
  ledger,    \* InflightNonceRecord of the nonce: hashes, highest fees
  verify,    \* verify_broadcast: where it is, and the Transaction it sends
  cancel,    \* replace_stalled_nonce: likewise, and the record it has read
  calls,     \* calls of replace_stalled_nonce so far
  ENCODE_BUF,
  wire,      \* transactions sent and, of each, those it is priced over
  pool,      \* the typed transaction pooled at the nonce, or None
  taken,     \* typed transactions a pool has ever taken
  scalars    \* what a behaviour's hashes lead to when signed; it never changes

vars == <<ctx, asked, signed, ledger, verify, cancel, calls, ENCODE_BUF, wire, pool, taken,
          scalars>>
-----------------------------------------------------------------------------
(* Fees *)

Highest(a, b) == IF a > b THEN a ELSE b
unwrap_or(fee, default) == IF fee = None THEN default ELSE fee
saturating(n) == IF n > MaxU256 THEN MaxU256 ELSE n

bump_u256(v, bump_bps) ==
  saturating(saturating(v * (10000 + bump_bps)) + (10000 - 1)) \div 10000

with_bumped_fees(t, bump_bps) ==
  [t EXCEPT !.max_priority_fee_per_gas = bump_u256(@, bump_bps),
            !.max_fee_per_gas = bump_u256(@, bump_bps)]

\* Mutant: the maximum fee does not follow the tip.
compute_cancel_fees_apart(network_tip, network_gas, stranded_tip, stranded_max_fee, bump_bps) ==
  [tip |-> bump_u256(Highest(network_tip, unwrap_or(stranded_tip, 0)), bump_bps),
   max_fee |-> bump_u256(Highest(network_gas, unwrap_or(stranded_max_fee, 0)), bump_bps)]

compute_cancel_fees(network_tip, network_gas, stranded_tip, stranded_max_fee, bump_bps) ==
  LET tip_basis == Highest(network_tip, unwrap_or(stranded_tip, 0))
      gas_basis == Highest(network_gas, unwrap_or(stranded_max_fee, 0))
      tip == bump_u256(tip_basis, bump_bps)
  IN  [tip |-> tip, max_fee |-> Highest(bump_u256(gas_basis, bump_bps), tip)]

\* Mutant: the last signature counts.
merge_last(seen, fee) == IF fee = None THEN seen ELSE fee

\* record_signed keeps every hash and the highest of each fee.
merge_max(seen, fee) ==
  IF fee = None THEN seen ELSE IF seen = None THEN fee ELSE Highest(seen, fee)
record_signed(rec, t) ==
  [hashes |-> rec.hashes \cup {t},
   max_fee_seen |-> merge_max(rec.max_fee_seen, t.max_fee_per_gas),
   max_priority_seen |-> merge_max(rec.max_priority_seen, t.max_priority_fee_per_gas)]
-----------------------------------------------------------------------------
(* Requests *)

TransactionRequest ==
  [to |-> None, value |-> 0, data |-> "", gas_limit |-> 0, gas_price |-> None,
   max_fee_per_gas |-> None, max_priority_fee_per_gas |-> None, access_list |-> None]

\* What the convenience calls of the wallet ask for.
send_eth(to, value, gas_price) ==
  [TransactionRequest EXCEPT !.to = to, !.value = value, !.gas_limit = 21000,
                             !.gas_price = gas_price]
send_contract_call(to, data, gas_limit, value, gas_price) ==
  [TransactionRequest EXCEPT !.to = to, !.data = data, !.gas_limit = gas_limit,
                             !.value = value, !.gas_price = gas_price]
send_contract_call_eip1559(to, data, gas_limit, value, max_fee, tip) ==
  [TransactionRequest EXCEPT !.to = to, !.data = data, !.gas_limit = gas_limit,
                             !.value = value, !.max_fee_per_gas = max_fee,
                             !.max_priority_fee_per_gas = tip]
send_optimistic_liquidation(to, data, gas_limit, gas_price) ==
  [TransactionRequest EXCEPT !.to = to, !.data = data, !.gas_limit = gas_limit,
                             !.gas_price = gas_price]

\* The rest of build: a fee of EIP-1559 decides for it, then an access list.
build(q) ==
  LET type == IF q.max_fee_per_gas # None \/ q.max_priority_fee_per_gas # None
              THEN "eip1559"
              ELSE IF q.access_list # None THEN "eip2930" ELSE "legacy"
      dynamic == type = "eip1559"
  IN  [type |-> type, chain_id |-> ChainId, nonce |-> Nonce,
       gas_price |-> IF dynamic THEN None ELSE unwrap_or(q.gas_price, DefaultGasPrice),
       max_priority_fee_per_gas |->
         IF dynamic THEN unwrap_or(q.max_priority_fee_per_gas, DefaultTip) ELSE None,
       max_fee_per_gas |->
         IF dynamic THEN unwrap_or(q.max_fee_per_gas, DefaultMaxFee) ELSE None,
       gas_limit |-> q.gas_limit, to |-> q.to, value |-> q.value, data |-> q.data,
       access_list |->
         IF type = "legacy" THEN None ELSE unwrap_or(q.access_list, <<>>)]

DefaultGas(q) == [q EXCEPT !.gas_limit = IF @ = 0 THEN DefaultGasLimit ELSE @]

\* sign_with_preheat fills in what the request leaves open.
Preheated(q, c) ==
  [q EXCEPT
     !.gas_price = IF @ = None /\ q.max_fee_per_gas = None THEN c.gas_price ELSE @,
     !.max_fee_per_gas = unwrap_or(@, c.max_fee),
     !.max_priority_fee_per_gas = unwrap_or(@, c.priority_fee)]
-----------------------------------------------------------------------------
(* The pool, by geth's rules *)

FeeCap(t) == IF t.type = "eip1559" THEN t.max_fee_per_gas ELSE t.gas_price
TipCap(t) == IF t.type = "eip1559" THEN t.max_priority_fee_per_gas ELSE t.gas_price

Valid(t) == TipCap(t) <= FeeCap(t)
Clears(new, old) == new > old /\ new * 10 >= old * 11
Outbids(t, u) == Clears(FeeCap(t), FeeCap(u)) /\ Clears(TipCap(t), TipCap(u))
Accepts(t) == Valid(t) /\ (pool # None => Outbids(t, pool))

Send(t, over) == wire' = wire \cup {[tx |-> t, over |-> over]}
-----------------------------------------------------------------------------
(* The wallet *)

NoPrices == [gas_price |-> None, priority_fee |-> None, max_fee |-> None]
Idle == [at |-> "idle", tx |-> None]
NoRecord == [hashes |-> {}, max_fee_seen |-> None, max_priority_seen |-> None]
Waiting == [at |-> "idle", tx |-> None, read |-> NoRecord]

Init ==
  /\ ctx = NoPrices
  /\ asked = None
  /\ signed = {}
  /\ ledger = NoRecord
  /\ verify = Idle
  /\ cancel = Waiting
  /\ calls = 0
  /\ ENCODE_BUF = <<>>
  /\ wire = {}
  /\ pool = None
  /\ taken = {}
  /\ scalars \in Scalars

\* Either price may fail to be fetched; the maximum fee needs both.
preheat ==
  /\ signed = {}
  /\ \E gas \in GasPrices \cup {None}, tip \in Tips \cup {None} :
       ctx' = [gas_price |-> gas, priority_fee |-> tip,
               max_fee |-> IF None \in {gas, tip} THEN None ELSE gas + gas + tip]
  /\ UNCHANGED <<asked, signed, ledger, verify, cancel, calls, ENCODE_BUF, wire, pool, taken>>

\* Transaction::sign: the buffer of the thread is overwritten and its hash signed.
Signed(t) ==
  sign(t, signing_buffer(ENCODE_BUF, t), scalars.rec_id, scalars.zeros)
Encodes(t) == ENCODE_BUF' = signing_buffer(ENCODE_BUF, t)

\* sign and sign_with_nonce, and sign_with_preheat for a context.
SignRequest(q, c) ==
  /\ signed = {}
  /\ LET t == build(DefaultGas(Preheated(q, c)))
     IN  /\ signed' = {Signed(t)}
         /\ Encodes(t)
         /\ ledger' = record_signed(ledger, t)
  /\ asked' = q
  /\ ctx' = NoPrices
  /\ UNCHANGED <<verify, cancel, calls, wire, pool, taken>>

\* send_signed, send_with_preheat: the bytes go out as they were recorded.
SendRequest ==
  /\ \E tx \in signed :
       /\ Send(tx, {})
       /\ ledger' = record_signed(ledger, tx.typed_tx)
  /\ UNCHANGED <<ctx, asked, signed, verify, cancel, calls, ENCODE_BUF, pool, taken>>

\* verify_broadcast has not seen the transaction, which an endpoint may have all
\* the same: re-sign it with higher fees, or send it again if it has no such fees.
Resend ==
  /\ verify.at = "idle"
  /\ \E tx \in signed :
       LET t == tx.typed_tx
           bumped == with_bumped_fees(t, RBF_MIN_BUMP_BPS)
       IN  IF t.type = "eip1559"
           THEN /\ Encodes(bumped)
                /\ verify' = [at |-> "sent", tx |-> Signed(bumped)]
                /\ Send(Signed(bumped), {t})
           ELSE /\ verify' = [at |-> "sent", tx |-> tx]
                /\ Send(tx, {t})
                /\ UNCHANGED ENCODE_BUF
  /\ UNCHANGED <<ctx, asked, signed, ledger, cancel, calls, pool, taken>>

\* Only an accepted re-send is recorded; an error says nothing.
ResendOk ==
  /\ verify.at = "sent"
  /\ verify.tx.typed_tx \in taken
  /\ verify' = Idle
  /\ ledger' = record_signed(ledger, verify.tx.typed_tx)
  /\ UNCHANGED <<ctx, asked, signed, cancel, calls, ENCODE_BUF, wire, pool, taken>>

ResendFails ==
  /\ verify.at = "sent"
  /\ verify' = Idle
  /\ UNCHANGED <<ctx, asked, signed, ledger, cancel, calls, ENCODE_BUF, wire, pool, taken>>

\* replace_stalled_nonce takes the record of the head, then waits for two prices.
Gate ==
  /\ cancel.at = "idle" /\ calls < MaxCancels
  /\ ledger.hashes # {}
  /\ cancel' = [at |-> "pricing", tx |-> None, read |-> ledger]
  /\ calls' = calls + 1
  /\ UNCHANGED <<ctx, asked, signed, ledger, verify, ENCODE_BUF, wire, pool, taken>>

PriceFails ==
  /\ cancel.at = "pricing"
  /\ cancel' = Waiting
  /\ UNCHANGED <<ctx, asked, signed, ledger, verify, calls, ENCODE_BUF, wire, pool, taken>>

CancelRequest(fees) ==
  [TransactionRequest EXCEPT !.to = "self", !.gas_limit = 21000,
     !.max_priority_fee_per_gas = fees.tip, !.max_fee_per_gas = fees.max_fee]

\* Mutant: recorded when signed.
Cancel_recorded ==
  /\ cancel.at = "pricing"
  /\ \E network_gas \in GasPrices, network_tip \in Tips, tip_bump_bps \in BumpBps :
       LET t == build(CancelRequest(compute_cancel_fees(network_tip, network_gas,
                  cancel.read.max_priority_seen, cancel.read.max_fee_seen,
                  Highest(tip_bump_bps, RBF_MIN_BUMP_BPS))))
       IN  /\ Encodes(t)
           /\ cancel' = [at |-> "sent", tx |-> Signed(t), read |-> cancel.read]
           /\ Send(Signed(t), cancel.read.hashes)
           /\ ledger' = record_signed(ledger, t)
  /\ UNCHANGED <<ctx, asked, signed, verify, calls, pool, taken>>

\* Signed without being recorded, and sent.
Cancel ==
  /\ cancel.at = "pricing"
  /\ \E network_gas \in GasPrices, network_tip \in Tips, tip_bump_bps \in BumpBps :
       LET fees == compute_cancel_fees(network_tip, network_gas,
                     cancel.read.max_priority_seen, cancel.read.max_fee_seen,
                     Highest(tip_bump_bps, RBF_MIN_BUMP_BPS))
           t == build(CancelRequest(fees))
       IN  /\ Encodes(t)
           /\ cancel' = [at |-> "sent", tx |-> Signed(t), read |-> cancel.read]
           /\ Send(Signed(t), cancel.read.hashes)
  /\ UNCHANGED <<ctx, asked, signed, ledger, verify, calls, pool, taken>>

CancelOk ==
  /\ cancel.at = "sent"
  /\ cancel.tx.typed_tx \in taken
  /\ cancel' = Waiting
  /\ ledger' = record_signed(ledger, cancel.tx.typed_tx)
  /\ UNCHANGED <<ctx, asked, signed, verify, calls, ENCODE_BUF, wire, pool, taken>>

CancelFails ==
  /\ cancel.at = "sent"
  /\ cancel' = Waiting
  /\ UNCHANGED <<ctx, asked, signed, ledger, verify, calls, ENCODE_BUF, wire, pool, taken>>
-----------------------------------------------------------------------------
(* The network *)

\* Bytes reach a pool late, through several endpoints, or never.  That the pool
\* can read them is NodeReadsWhatWasSigned.
Arrive(m) ==
  /\ Accepts(m.tx.typed_tx)
  /\ pool' = m.tx.typed_tx
  /\ taken' = taken \cup {m.tx.typed_tx}
  /\ UNCHANGED <<ctx, asked, signed, ledger, verify, cancel, calls, ENCODE_BUF, wire>>

Evict ==
  /\ pool # None
  /\ pool' = None
  /\ UNCHANGED <<ctx, asked, signed, ledger, verify, cancel, calls, ENCODE_BUF, wire, taken>>

Next ==
  \/ preheat
  \/ \E q \in Requests : SignRequest(q, NoPrices) \/ SignRequest(q, ctx)
  \/ SendRequest
  \/ Resend \/ ResendOk \/ ResendFails
  \/ Gate \/ PriceFails \/ Cancel \/ CancelOk \/ CancelFails
  \/ \E m \in wire : Arrive(m)
  \/ Evict

Spec == Init /\ [][Next /\ scalars' = scalars]_vars
-----------------------------------------------------------------------------
(* Properties *)

\* Everything the wallet sends is read by a node as what was signed, and as
\* signed by the wallet: whatever the type, chain, parity, fees and leading zeros.
NodeReadsWhatWasSigned == \A m \in wire : Reads(m.tx.encoded, m.tx.typed_tx)

\* A request that names no fee of EIP-1559, or both and in order, becomes a
\* transaction whose tip is within its maximum fee; so does every replacement.
Unpriced(q) == q.max_fee_per_gas = None /\ q.max_priority_fee_per_gas = None
PricedInOrder(q) ==
  /\ None \notin {q.max_fee_per_gas, q.max_priority_fee_per_gas}
  /\ q.max_priority_fee_per_gas <= q.max_fee_per_gas
PricesAreValid ==
  signed # {} /\ (Unpriced(asked) \/ PricedInOrder(asked))
    => \A m \in wire : Valid(m.tx.typed_tx)

\* A re-send outbids the transaction it re-sends and a cancel every transaction
\* the record of its nonce knew, whichever of them a pool turns out to hold.  Only
\* fees of EIP-1559 are known; zero times any factor is zero; U256 saturates.
Bumpable(fee) == fee > 0 /\ fee * (10000 + RBF_MIN_BUMP_BPS) + 9999 <= MaxU256
Replaceable(t) ==
  t.type = "eip1559" /\ Bumpable(t.max_fee_per_gas) /\ Bumpable(t.max_priority_fee_per_gas)
ReplacementsOutbid ==
  \A m \in wire : \A t \in m.over : Replaceable(t) => Outbids(m.tx.typed_tx, t)

\* wallet.rs:1991: "a failed broadcast can't pollute `max_fee_seen` and
\* over-escalate the next retry".  The fees on record are those of the request or
\* of a replacement that a pool has taken.
BasisIsBacked ==
  LET backed == taken \cup {tx.typed_tx : tx \in signed}
  IN  /\ ledger.max_fee_seen \in {None} \cup {t.max_fee_per_gas : t \in backed}
      /\ ledger.max_priority_seen \in
           {None} \cup {t.max_priority_fee_per_gas : t \in backed}

\* wallet.rs:1894: "so the cancel out-bids an over-paid stranded liquidation tx".
\* A cancel outbids what a pool holds and the record of its nonce knew of.
CancelOutbids ==
  \A m \in wire :
    m.tx.typed_tx.to = "self" /\ pool \in m.over => Outbids(m.tx.typed_tx, pool)
=============================================================================
