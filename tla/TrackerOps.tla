----------------------------- MODULE TrackerOps -----------------------------
(***************************************************************************)
(* The operations of NonceTracker (src/src/nonce.rs) as functions of its   *)
(* state: what each does when no other call overlaps it.  The modules that *)
(* compose the tracker with the wallet use these; NonceTracker has the     *)
(* steps of each call, and TrackerSequential ties the two together.        *)
(*                                                                         *)
(* A tracker is a record of current, synced_nonce and gaps; gap_count is   *)
(* the size of gaps and pending_count decides nothing.                     *)
(***************************************************************************)
EXTENDS Naturals, FiniteSetsExt

new(initial_nonce) ==
  [current |-> initial_nonce, synced |-> initial_nonce, gaps |-> {}]

\* effective_next_nonce: what the next reserve hands out.
next_nonce(tr) == Min(tr.gaps \cup {tr.current})

reserve(tr) ==
  IF tr.gaps = {} THEN [tr EXCEPT !.current = @ + 1]
  ELSE [tr EXCEPT !.gaps = @ \ {Min(@)}]

\* recycle_nonce of the topmost nonce, and collapse_top_gaps below it.
recycle_top(tr, n) ==
  LET top == Min({k \in tr.synced .. n : k .. n - 1 \subseteq tr.gaps})
  IN  [tr EXCEPT !.current = top, !.gaps = @ \ (top .. n)]

recycle(tr, n) ==
  IF n < tr.synced THEN tr
  ELSE IF tr.current = n + 1 THEN recycle_top(tr, n)
  ELSE IF n < tr.current THEN [tr EXCEPT !.gaps = @ \cup {n}]
  ELSE tr

forward(tr, chain_nonce) ==
  [current |-> Max({tr.current, chain_nonce}),
   synced  |-> Max({tr.synced, chain_nonce}),
   gaps    |-> {g \in tr.gaps : g >= chain_nonce}]

rewind(tr, chain_nonce) ==
  IF chain_nonce >= tr.current THEN tr ELSE new(chain_nonce)
=============================================================================
