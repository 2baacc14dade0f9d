--------------------------- MODULE MCWalletClients --------------------------
(* Two endpoints: a node behind http, in two spellings, and Blink's.           *)
EXTENDS WalletClients

Node == [spelling |-> 1, target |-> "node", https |-> FALSE]
NodeAgain == [spelling |-> 2, target |-> "node", https |-> FALSE]
Blink == [spelling |-> 1, target |-> "blink", https |-> TRUE]
BlinkAgain == [spelling |-> 2, target |-> "blink", https |-> TRUE]

MCPrimaries == {Node}
MCGasUrls == {NodeAgain, BlinkAgain}
MCBroadcastLists == {<<>>, <<BlinkAgain, NodeAgain, Blink>>}
=============================================================================
