------------------------------ MODULE NoncePool ------------------------------
(***************************************************************************)
(* What the nonce tracker of src/src/nonce.rs promises its callers: a pool *)
(* of nonces, each with at most one owner.  A nonce is free unless a task  *)
(* owns it or it is gone: spent on a transaction, or passed by the chain.  *)
(* Every step is atomic; there is no counter, no set of gaps, no mutex.    *)
(***************************************************************************)
EXTENDS Naturals

CONSTANTS Tasks, InitNonce

VARIABLES
  owned,   \* owned[t]: the nonces task t owns, at most one
  gone     \* the nonces nobody will be given again

vars == <<owned, gone>>

Owners(n) == {t \in Tasks : n \in owned[t]}
Free(n) == n \notin gone /\ Owners(n) = {}

Init ==
  /\ owned = [t \in Tasks |-> {}]
  /\ gone = 0 .. InitNonce - 1

\* A task is given a free nonce, and becomes its only owner.
Take(t) ==
  /\ owned[t] = {}
  /\ \E n \in owned'[t] : Free(n) /\ owned' = [owned EXCEPT ![t] = {n}]
  /\ gone' = gone

\* A task gives its nonce up: it is free again, or gone.
Yield(t) ==
  /\ owned[t] # {}
  /\ owned' = [owned EXCEPT ![t] = {}]
  /\ gone' \in {gone, gone \cup owned[t]}

\* The chain passes nonces: they are gone, but no owner loses its nonce.
Pass ==
  /\ owned' = owned
  /\ gone \subseteq gone'
  /\ \A n \in gone' \ gone : Owners(n) = {}

\* A proven stall: nonces that were gone are free again, while nobody owns one.
Rewind ==
  /\ \A t \in Tasks : owned[t] = {}
  /\ owned' = owned
  /\ gone' \subseteq gone

Next ==
  \/ \E t \in Tasks : Take(t) \/ Yield(t)
  \/ Pass
  \/ Rewind

Spec == Init /\ [][Next]_vars
=============================================================================
