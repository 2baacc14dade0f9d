--------------------------- MODULE MCTransactions ---------------------------
(* Small instances of Transactions for TLC. *)
EXTENDS Transactions

MCGasPrices == {8}
MCTips == {0, 12}
MCBumpBps == {0}
MCScalars == {[rec_id |-> 0, zeros |-> 0], [rec_id |-> 1, zeros |-> 1]}

\* The convenience calls, and requests that callers of sign may build: a contract
\* creation, access lists, fees out of order.
MCRequests ==
  {send_eth("recipient", 1, 8),
   send_contract_call_eip1559("recipient", "call", 300000, 1, 30, 4),
   send_contract_call_eip1559("recipient", "call", 100, 0, 200, 0),
   [TransactionRequest EXCEPT !.data = "call"],
   [TransactionRequest EXCEPT !.to = "recipient", !.access_list = <<0, 2>>],
   [TransactionRequest EXCEPT !.access_list = <<1>>, !.max_fee_per_gas = 3,
                              !.max_priority_fee_per_gas = 4]}

MCLegacyRequests ==
  {send_optimistic_liquidation("recipient", "call", 150, 20),
   send_contract_call("recipient", "call", 150, 0, 20)}
=============================================================================
