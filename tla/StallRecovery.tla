---------------------------- MODULE StallRecovery ----------------------------
(***************************************************************************)
(* How FastWallet gets a stuck account moving again (src/src/wallet.rs):   *)
(* replace_stalled_nonce cancels the head of line, verify_broadcast sends  *)
(* a vanished transaction again with a higher fee, and recover_stalled     *)
(* rewinds the tracker.  All three run while requests use the wallet.      *)
(*                                                                         *)
(* A rescuer is one call of the first two; the transaction it signs goes   *)
(* by its name.  It may be called again once the network has no trace of   *)
(* that transaction.  tip and max_fee are bumped alike: a fee is a number, *)
(* and a bump adds one to it.                                              *)
(***************************************************************************)
EXTENDS Wallet

CONSTANTS
  Rescues,        \* what rescuers do: "cancel", "resend"
  ReplaceWindow,  \* STALL_REPLACE_WINDOW
  MinHeadAge,     \* STALL_REPLACE_MIN_HEAD_AGE
  NetworkFees,    \* what get_priority_fee and get_gas_price may say
  MaxFee          \* bound: no replacement pays more

ASSUME RescuesAreRescues == Rescues \subseteq {"cancel", "resend"}
ASSUME WindowsAreTimed ==
  {ReplaceWindow, MinHeadAge} \subseteq 0 .. MaxAge /\ MaxFee \in Nat
ASSUME NetworkFeesAreNats == NetworkFees \subseteq Nat

VARIABLES
  last  \* last_stall_replace: the nonce replaced last, and when

stallVars == <<vars, last>>

StallInit ==
  /\ Init
  /\ last = [nonce |-> None, at |-> 0]

RecentlyReplaced(n) == last.nonce = n /\ now - last.at < ReplaceWindow
-----------------------------------------------------------------------------
(* replace_stalled_nonce.  Every network call it awaits ends a step. *)

\* Whoever polls the chain passes what it saw; a recent replacement of that
\* nonce makes the call a no-op.
ReplaceStalled(x, chain_next) ==
  /\ At(x, "new") /\ "cancel" \in Rescues
  /\ ~RecentlyReplaced(chain_next)
  /\ got' = [got EXCEPT ![x] = chain_next]
  /\ Goto(x, "confirm")
  /\ UNCHANGED <<tr, records, nonce, fee, ctx, unmarked, network, blurred, last>>

\* Mutant: the chain is not asked again.
ConfirmLatest_blindly(x) ==
  /\ At(x, "confirm")
  /\ Goto(x, "gate")
  /\ UNCHANGED <<tr, records, nonce, fee, ctx, got, unmarked, network, blurred, last>>

\* get_nonce_latest: NotStalled, or an error, unless the chain still waits there.
ConfirmLatest(x) ==
  /\ At(x, "confirm")
  /\ \/ latest = got[x] /\ Goto(x, "gate")
     \/ Goto(x, "new")
  /\ UNCHANGED <<tr, records, nonce, fee, ctx, got, unmarked, network, blurred, last>>

\* Mutant: the cancel is priced from the network alone.
Gate_no_basis(x) ==
  /\ At(x, "gate")
  /\ records' = prune_consumed(records, got[x])
  /\ IF lowest_unresolved(records', got[x]) = {got[x]}
          /\ now - records[got[x]].first_seen >= MinHeadAge
     THEN fee' = [fee EXCEPT ![x] = 0] /\ Goto(x, "fees")
     ELSE fee' = fee /\ Goto(x, "new")
  /\ UNCHANGED <<tr, nonce, ctx, got, unmarked, network, blurred, last>>

\* The head of line itself must be unresolved, and old enough: NoCandidate and
\* NotStalled otherwise.  fee[x] keeps the fee basis until the cancel is signed.
Gate(x) ==
  /\ At(x, "gate")
  /\ records' = prune_consumed(records, got[x])
  /\ IF lowest_unresolved(records', got[x]) = {got[x]}
          /\ now - records[got[x]].first_seen >= MinHeadAge
     THEN fee' = [fee EXCEPT ![x] = records[got[x]].fee] /\ Goto(x, "fees")
     ELSE fee' = fee /\ Goto(x, "new")
  /\ UNCHANGED <<tr, nonce, ctx, got, unmarked, network, blurred, last>>

\* The network's fees could not be read, or current is not above the head:
\* RaceAborted.
AbortCancel(x) ==
  /\ At(x, "fees")
  /\ fee' = [fee EXCEPT ![x] = 0] /\ Goto(x, "new")
  /\ UNCHANGED <<tr, records, nonce, ctx, got, unmarked, network, blurred, last>>

\* Sign a transaction at n for fee f without recording it, and send it.
SendReplacement(x, n, f) ==
  /\ f <= MaxFee
  /\ nonce' = [nonce EXCEPT ![x] = n]
  /\ fee' = [fee EXCEPT ![x] = f]
  /\ wire' = wire \cup {x}
  /\ UNCHANGED <<tr, records, ctx, got, unmarked, pool, mined, blurred, last>>

\* The guard on current, compute_cancel_fees, and the broadcast: no await between.
Cancel(x) ==
  /\ At(x, "fees") /\ tr.current > got[x]
  /\ \E network_gas \in NetworkFees :
       SendReplacement(x, got[x], Larger(network_gas, fee[x]) + 1)
  /\ Goto(x, "cancelling")
-----------------------------------------------------------------------------
(* verify_broadcast, and how both end *)

\* The transaction was not seen within max_wait; a failed lookup counts as not
\* seen.  bumped_resign signs it again for more.
Resend(x) ==
  /\ At(x, "new") /\ "resend" \in Rescues
  /\ \E r \in Requests : At(r, "sent") /\ SendReplacement(x, nonce[r], fee[r] + 1)
  /\ Goto(x, "resending")

\* An endpoint accepted it.
ReplacementOk(x) ==
  /\ pc[x] \in {"cancelling", "resending"} /\ Enters(x)
  /\ Goto(x, IF At(x, "cancelling") THEN "cancelled" ELSE "resent")
  /\ UNCHANGED <<tr, records, nonce, fee, ctx, got, unmarked, blurred, last>>

\* Any error leaves the nonce to the chain and the ledger as it was.  The bytes
\* may be live all the same.
ReplacementFails(x) ==
  /\ pc[x] \in {"cancelling", "resending"}
  /\ wire' \in {wire, wire \ {x}}
  /\ Goto(x, "done")
  /\ UNCHANGED <<tr, records, nonce, fee, ctx, got, unmarked, pool, mined, blurred, last>>

\* record_signed, only now.
RecordReplacement(x) ==
  /\ pc[x] \in {"cancelled", "resent"}
  /\ records' = record_signed(records, nonce[x], x, fee[x], now)
  /\ Goto(x, IF At(x, "cancelled") THEN "recorded" ELSE "rerecorded")
  /\ UNCHANGED <<tr, nonce, fee, ctx, got, unmarked, network, blurred, last>>

\* mark_rebroadcast_accepted, and last_stall_replace for a cancel.
MarkReplacement(x) ==
  /\ pc[x] \in {"recorded", "rerecorded"}
  /\ records' = mark_rebroadcast_accepted(records, nonce[x], x, now)
  /\ last' = IF At(x, "recorded") THEN [nonce |-> nonce[x], at |-> now] ELSE last
  /\ Goto(x, "done")
  /\ UNCHANGED <<tr, nonce, fee, ctx, got, unmarked, network, blurred>>

\* The next call by the same name.
CallAgain(x) ==
  /\ At(x, "done") /\ ~Live(x)
  /\ nonce' = [nonce EXCEPT ![x] = None] /\ fee' = [fee EXCEPT ![x] = 0]
  /\ got' = [got EXCEPT ![x] = 0]
  /\ Goto(x, "new")
  /\ UNCHANGED <<tr, records, ctx, unmarked, network, blurred, last>>
-----------------------------------------------------------------------------
(* recover_stalled, time, and the whole *)

\* The caller has proved that nothing is reserved, held or live at or above the
\* chain's nonce, and no call on the wallet is half-way.  The ledger is left.
recover_stalled ==
  /\ \A x \in Senders : Live(x) => x \in mined
  /\ \A p \in Processes : pc[p] \in {"new", "sent", "done"}
  /\ unmarked = {}
  /\ latest < tr.current
  /\ tr' = rewind(tr, latest)
  /\ UNCHANGED <<records, calls, network, blurred, last>>

Older(t) == IF t = 0 THEN 0 ELSE t - 1

\* Time passes: every stored timestamp is one tick older.
Tick ==
  /\ records' = [n \in DOMAIN records |->
                   [records[n] EXCEPT !.first_seen = Older(@)]]
  /\ last' = [last EXCEPT !.at = Older(@)]
  /\ UNCHANGED <<tr, calls, network, blurred>>

Rescue(x) ==
  \/ \E chain_next \in {latest, pending} : ReplaceStalled(x, chain_next)
  \/ ConfirmLatest(x)
  \/ Gate(x)
  \/ AbortCancel(x)
  \/ Cancel(x)
  \/ Resend(x)
  \/ ReplacementOk(x)
  \/ ReplacementFails(x)
  \/ RecordReplacement(x)
  \/ MarkReplacement(x)
  \/ CallAgain(x)

\* A pool keeps a replacement, which bids above the market, until it is mined
\* or outbid; it may evict what requests sent.
StallNetwork ==
  \E x \in Senders : Arrive(x) \/ Lose(x) \/ Mine(x) \/ (x \in Requests /\ Evict(x))

WalletStep ==
  \/ \E r \in Requests : Request(r)
  \/ \E n \in unmarked : ReleasePreheatMark(n)
  \/ \E s \in Syncers : Syncer(s)
  \/ \E p \in Processes : Sync(p)
  \/ StallNetwork

StallNext ==
  \/ WalletStep /\ last' = last
  \/ \E x \in Rescuers : Rescue(x)
  \/ recover_stalled
  \/ Tick

StallSpec == StallInit /\ [][StallNext]_stallVars

\* Time passes; every call goes on, and the caller calls again, with what the
\* chain says now and not always with something older; of the endpoints' answers
\* not every one is an error; and the chain mines what its pools hold.
StallFairness ==
  /\ WF_stallVars(Tick)
  /\ \A x \in Rescuers :
       /\ WF_stallVars(Rescue(x))
       /\ SF_stallVars(ReplaceStalled(x, latest))
       /\ SF_stallVars(ConfirmLatest(x) /\ Goto(x, "gate"))
       /\ SF_stallVars(Cancel(x))
       /\ SF_stallVars(ReplacementOk(x))
       /\ WF_stallVars((Arrive(x) \/ Lose(x) \/ Mine(x)) /\ last' = last)

FairStallSpec == StallSpec /\ StallFairness
-----------------------------------------------------------------------------
(* Properties *)

\* A cancel never jumps the line: whatever moved while it waited for the chain,
\* the ledger and the fees, it is only ever signed for a nonce the chain has
\* reached, so it never strands above the head as one more transaction.
CancelsAtTheHead ==
  \A x \in Rescuers : pc[x] \in {"cancelling", "cancelled", "recorded"}
    => nonce[x] <= latest

\* The fee basis that passes the gate covers what a pool holds of a request at
\* the head, except where the ledger had lost that fee: a health check with the
\* pending tag drops the record of a pooled transaction.  (A transaction sent
\* between the gate and the cancel is not covered.)
BasisCoversTheHead ==
  [][\A x \in Rescuers, y \in pool \cap Requests :
       At(x, "gate") /\ At(x, "fees")' /\ nonce[y] = got[x]
         => fee'[x] >= fee[y] \/ nonce[y] \in blurred]_stallVars

\* wallet.rs:1974: "current > chain_next proves auto-sign cannot produce it".
\* While a cancel may still reach a pool or is in one, no request can be given
\* its nonce.
CancelIsNotHandedOut ==
  \A x \in Rescuers :
    x \in wire \cup pool => nonce[x] < tr.current /\ nonce[x] \notin tr.gaps

\* The chain waits for n, no request has it in hand, and it cannot be handed
\* out.  Its transaction was never sent, is on the wire, or sits in a pool, which
\* need not ever mine it.
Stuck(n) ==
  /\ latest = n /\ n < tr.current /\ n \notin tr.gaps
  /\ \A r \in Requests : Holds(r) => nonce[r] # n

UsedUp == \A x \in Rescuers : x \in mined \/ (x \in pool /\ nonce[x] # latest)

\* The queue behind a stuck nonce unblocks: a caller that keeps calling
\* replace_stalled_nonce gets the chain past every stuck head, whether its
\* transaction has vanished or is pooled at a fee nobody mines, however many
\* replacements fail or are lost on the way.  What excuses it: recover_stalled has
\* rewound to n, the ledger has lost n, or the model is out of rescuers (one
\* stands for one transaction that a pool takes).
HeadUnblocks ==
  \A n \in ChainStart .. ChainStart + Cardinality(Requests) - 1 :
    Stuck(n) ~> latest > n \/ n >= tr.current \/ n \in blurred \/ UsedUp
=============================================================================
