----------------------------- MODULE TxEncoding -----------------------------
(* src/transaction.rs, src/signer.rs: what a typed transaction is encoded as,   *)
(* what is hashed and signed, and the signed bytes.  An RLP item is             *)
(* <<kind, meaning, size>> and a list is a type prefix, the payload length its  *)
(* header declares, and its items; the hash of a buffer is its content.  The    *)
(* source writes an encoder and a length function for every part; so do these   *)
(* definitions.  A node, which is not the library's, reads the bytes by the EIP.*)
EXTENDS Integers, Sequences, Functions

CONSTANTS None

Types == {"legacy", "eip2930", "eip1559"}
-----------------------------------------------------------------------------
(* Items, as alloy_rlp writes them *)

length_of_length(n) == IF n <= 55 THEN 1 ELSE 2

\* A number below 128 is its own encoding; a longer one has a header.
NumLength(n) ==
  IF n < 128 THEN 1 ELSE IF n < 256 THEN 2 ELSE IF n < 65536 THEN 3 ELSE 4

DataLength(d) == IF d = "" THEN 1 ELSE 5
AddressLength == 21
Num(n) == <<"number", n, NumLength(n)>>
Zero == Num(0)
Data(d) == <<"data", d, DataLength(d)>>

encode_to(to) ==
  IF to = None THEN <<"to", "", 1>> ELSE <<"to", to, AddressLength>>
to_length(to) == IF to = None THEN 1 ELSE AddressLength

\* An access list item is its number of storage keys, of 33 bytes each.
storage_len(keys) == 33 * keys
list_len(keys) ==
  AddressLength + length_of_length(storage_len(keys)) + storage_len(keys)
item_length(keys) == length_of_length(list_len(keys)) + list_len(keys)

SumOf(seq) == FoldFunction(+, 0, seq)
Each(op(_), seq) == [i \in DOMAIN seq |-> op(seq[i])]

encode_item(keys) == [declares |-> list_len(keys), keys |-> keys]
inner_len(list) == SumOf(Each(item_length, list))
encode_access_list(list) ==
  <<"list", [declares |-> inner_len(list), items |-> Each(encode_item, list)],
    length_of_length(inner_len(list)) + inner_len(list)>>
access_list_length(list) == length_of_length(inner_len(list)) + inner_len(list)

\* r and s are 32 bytes, the first `zeros' of them zero; `of' is what was signed.
canonical_signature_scalar_bytes(x) == [x EXCEPT !.zeros = 0, !.length = @ - x.zeros]
ScalarLength(x) == x.length + 1
encode_signature_scalar(x) ==
  LET bytes == canonical_signature_scalar_bytes(x)
  IN  <<"scalar", bytes, ScalarLength(bytes)>>
signature_scalar_length(x) == ScalarLength(canonical_signature_scalar_bytes(x))
-----------------------------------------------------------------------------
(* The three transaction types *)

prefix(tx) == CASE tx.type = "legacy" -> 0
                [] tx.type = "eip2930" -> 1
                [] tx.type = "eip1559" -> 2

\* What the three types have in common, in the order all of them write it.
CallFields(tx) == <<Num(tx.gas_limit), encode_to(tx.to), Num(tx.value), Data(tx.data)>>
CallLength(tx) ==
  NumLength(tx.gas_limit) + to_length(tx.to) + NumLength(tx.value) + DataLength(tx.data)

encode_fields(tx) ==
  CASE tx.type = "legacy" ->
         <<Num(tx.nonce), Num(tx.gas_price)>> \o CallFields(tx)
    [] tx.type = "eip2930" ->
         <<Num(tx.chain_id), Num(tx.nonce), Num(tx.gas_price)>> \o CallFields(tx)
           \o <<encode_access_list(tx.access_list)>>
    [] tx.type = "eip1559" ->
         <<Num(tx.chain_id), Num(tx.nonce), Num(tx.max_priority_fee_per_gas),
           Num(tx.max_fee_per_gas)>> \o CallFields(tx)
           \o <<encode_access_list(tx.access_list)>>

rlp_list_len(tx) ==
  CASE tx.type = "legacy" ->
         NumLength(tx.nonce) + NumLength(tx.gas_price) + CallLength(tx)
    [] tx.type = "eip2930" ->
         NumLength(tx.chain_id) + NumLength(tx.nonce) + NumLength(tx.gas_price)
           + CallLength(tx) + access_list_length(tx.access_list)
    [] tx.type = "eip1559" ->
         NumLength(tx.chain_id) + NumLength(tx.nonce)
           + NumLength(tx.max_priority_fee_per_gas) + NumLength(tx.max_fee_per_gas)
           + CallLength(tx) + access_list_length(tx.access_list)

\* EIP-155: a legacy transaction signs its chain and two zeros as well.
encode_signing_fields(tx) ==
  IF tx.type = "legacy"
  THEN [prefix |-> prefix(tx),
        declares |-> rlp_list_len(tx) + NumLength(tx.chain_id) + 1 + 1,
        items |-> encode_fields(tx) \o <<Num(tx.chain_id), Zero, Zero>>]
  ELSE [prefix |-> prefix(tx), declares |-> rlp_list_len(tx),
        items |-> encode_fields(tx)]

\* Mutant: the buffer is not cleared.
signing_buffer_uncleared(buf, tx) == Append(buf, encode_signing_fields(tx))

\* ENCODE_BUF of the thread is cleared and written; the hash is of all it holds.
signing_buffer(buf, tx) == <<encode_signing_fields(tx)>>

encode_signed(tx, sig) ==
  [prefix |-> prefix(tx),
   declares |-> rlp_list_len(tx) + NumLength(sig.v)
                  + signature_scalar_length(sig.r) + signature_scalar_length(sig.s),
   items |-> encode_fields(tx)
               \o <<Num(sig.v), encode_signature_scalar(sig.r),
                    encode_signature_scalar(sig.s)>>]
-----------------------------------------------------------------------------
(* FastSigner.  Which parity and scalars a hash leads to nobody can predict.    *)

Scalar(hash, rec_id, zeros) ==
  [of |-> hash, rec_id |-> rec_id, zeros |-> zeros, length |-> 32]
sign_hash_typed(hash, rec_id, zeros) ==
  [r |-> Scalar(hash, rec_id, zeros), s |-> Scalar(hash, rec_id, 0), v |-> rec_id]
sign_hash(hash, chain_id, rec_id, zeros) ==
  [r |-> Scalar(hash, rec_id, zeros), s |-> Scalar(hash, rec_id, 0),
   v |-> rec_id + 35 + chain_id * 2]

\* Transaction::sign, given what is in the buffer once the hash is computed.
sign(tx, buf, rec_id, zeros) ==
  LET sig == IF tx.type = "legacy"
             THEN sign_hash(buf, tx.chain_id, rec_id, zeros)
             ELSE sign_hash_typed(buf, rec_id, zeros)
  IN  [typed_tx |-> tx, encoded |-> encode_signed(tx, sig)]
-----------------------------------------------------------------------------
(* What a node makes of the bytes (EIP-155, EIP-2718, EIP-2930, EIP-1559)       *)

EipFields(type) ==
  LET call == <<"gas_limit", "to", "value", "data">>
  IN  CASE type = 0 -> <<"nonce", "gas_price">> \o call
        [] type = 1 -> <<"chain_id", "nonce", "gas_price">> \o call \o <<"access_list">>
        [] type = 2 -> <<"chain_id", "nonce", "max_priority_fee_per_gas",
                         "max_fee_per_gas">> \o call \o <<"access_list">>

Sized(list) == list.declares = SumOf(Each(LAMBDA item : item[3], list.items))

\* Lengths add up, inside an access list too, and no number has leading zeros.
WellFormed(bytes) ==
  /\ Sized(bytes)
  /\ Len(bytes.items) = Len(EipFields(bytes.prefix)) + 3
  /\ \A i \in DOMAIN bytes.items :
       LET item == bytes.items[i]
       IN  /\ item[1] = "scalar" => item[2].zeros = 0
           /\ item[1] = "list" =>
                /\ item[2].declares = SumOf(Each(
                     LAMBDA e : e.declares + length_of_length(e.declares), item[2].items))
                /\ \A e \in Range(item[2].items) :
                     e.declares = LET keys == 33 * e.keys
                                  IN  21 + length_of_length(keys) + keys

Parity(bytes) ==
  LET v == bytes.items[Len(bytes.items) - 2][2]
  IN  IF bytes.prefix = 0 THEN (v - 35) % 2 ELSE v

\* The value of field f of a transaction read from the bytes.
Field(bytes, f) ==
  LET names == EipFields(bytes.prefix)
      value == bytes.items[CHOOSE i \in DOMAIN names : names[i] = f][2]
  IN  IF f \in Range(names)
      THEN CASE f = "to" /\ value = "" -> None
             [] f = "access_list" -> Each(LAMBDA e : e.keys, value.items)
             [] OTHER -> value
      ELSE IF f = "chain_id" THEN (bytes.items[7][2] - 35) \div 2 ELSE None

\* What the signature has to be of: the fields read, in the order of the EIP.
SigningItems(bytes) ==
  LET fields == SubSeq(bytes.items, 1, Len(bytes.items) - 3)
  IN  IF bytes.prefix = 0
      THEN fields \o <<Num(Field(bytes, "chain_id")), Num(0), Num(0)>>
      ELSE fields

\* The node reads tx, and recovers the signer's address from the signature.
Reads(bytes, tx) ==
  /\ WellFormed(bytes)
  /\ bytes.prefix = prefix(tx)
  /\ \A f \in DOMAIN tx \ {"type"} : Field(bytes, f) = tx[f]
  /\ \A i \in {1, 2} :
       LET scalar == bytes.items[Len(bytes.items) - 2 + i][2]
       IN  /\ scalar.rec_id = Parity(bytes)
           /\ Len(scalar.of) = 1
           /\ scalar.of[1].prefix = bytes.prefix
           /\ scalar.of[1].items = SigningItems(bytes)
           /\ Sized(scalar.of[1])
=============================================================================
