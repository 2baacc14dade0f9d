---------------------------- MODULE SendOutcome ----------------------------
(***************************************************************************)
(* What the wallet may conclude from one broadcast of signed bytes: the    *)
(* promise behind is_definitive_precheck_rejection (src/src/wallet.rs),    *)
(* which decides whether a nonce is given back.  EndpointBroadcast         *)
(* implements it; the replies of module Wallet are the ones it allows.     *)
(***************************************************************************)

VARIABLES
  reply,  \* what the sender was told: "none", "ok", "definitive", "ambiguous"
  whereabouts   \* of the bytes: "wire", "reached" a pool, or "nowhere"

Init == reply = "none" /\ whereabouts = "wire"

\* Some endpoint takes the bytes, also after an ambiguous reply.
Reach == whereabouts = "wire" /\ whereabouts' = "reached" /\ UNCHANGED reply

\* No endpoint has them and none can get them any more.
Vanish == whereabouts = "wire" /\ whereabouts' = "nowhere" /\ UNCHANGED reply

ReplyOk ==
  reply = "none" /\ whereabouts = "reached" /\ reply' = "ok" /\ UNCHANGED whereabouts

ReplyDefinitive ==
  /\ reply = "none" /\ whereabouts = "nowhere"
  /\ reply' = "definitive" /\ UNCHANGED whereabouts

ReplyAmbiguous ==
  reply = "none" /\ reply' = "ambiguous" /\ UNCHANGED whereabouts

Next == Reach \/ Vanish \/ ReplyOk \/ ReplyDefinitive \/ ReplyAmbiguous

Spec == Init /\ [][Next]_<<reply, whereabouts>>
=============================================================================
