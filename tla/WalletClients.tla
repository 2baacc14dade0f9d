--------------------------- MODULE WalletClients ----------------------------
(* The RPC clients of one wallet: how the builder chooses them (src/wallet.rs,  *)
(* src/rpc/batch.rs), and the calls that share them: warmup_connections, sends, *)
(* reads, and the wait for a receipt (src/rpc/reads.rs).                        *)
EXTENDS RpcClient

CONSTANTS
  Primaries, GasUrls,  \* URLs given to the builder
  BroadcastLists,      \* lists of URLs
  BlinkUrl,            \* the endpoint of Blink Labs
  MaxBuilderCalls,     \* bound on the builder's setters
  MaxCalls             \* bound on calls of the wallet

VARIABLES
  builder,  \* FastWalletBuilder, and how far building has come
  wallet,   \* clients of the wallet: rpc_client, batch_client (<<>>: none), gas_rpc_client
  calls,    \* calls of the wallet, in the order they start
  meant     \* for the properties: the endpoints that are to see signed bytes

vars == <<clients, last_success, requests, heard, builder, wallet, calls, meant>>

Urls == Primaries \cup GasUrls \cup {BlinkUrl} \cup UNION {Range(list) : list \in BroadcastLists}

\* Lists are sequences, and None is no verdict.
ASSUME UrlsAssumption == \A list \in BroadcastLists : list \in Seq(Urls)
ASSUME NoneAssumption == None \notin {"receipt", "error"}

MAX_CONSECUTIVE_RECEIPT_ERRORS == 3

Opening(primary) ==
  [at |-> "open", primary_rpc |-> primary, broadcast_rpcs |-> <<>>,
   exclusive_broadcast |-> FALSE, gas_rpc_url |-> {}, initial_nonce |-> FALSE, setters |-> 0]
NoWallet == [rpc_client |-> 1, batch_client |-> <<>>, gas_rpc_client |-> 1]
NoCall == [op |-> "none", at |-> "none", verdict |-> None, errors |-> 0, elapsed |-> FALSE,
           sent |-> <<>>, polls |-> <<>>]
Building == 0

Init ==
  /\ \E primary \in Primaries : builder = Opening(primary)
  /\ wallet = NoWallet
  /\ calls = [n \in 1 .. MaxCalls |-> NoCall]
  /\ meant = {}
  /\ clients = <<>>
  /\ last_success = <<>>
  /\ requests = {}
  /\ heard = [t \in {normalized_url(url) : url \in Urls} |-> None]
-----------------------------------------------------------------------------
(* FastWalletBuilder *)

Set(new) ==
  /\ builder.at = "open" /\ builder.setters < MaxBuilderCalls
  /\ builder' = [new EXCEPT !.setters = @ + 1]
  /\ UNCHANGED <<clients, last_success, requests, heard, wallet, calls, meant>>

broadcast_rpcs(rpcs) ==
  Set([builder EXCEPT !.broadcast_rpcs = rpcs, !.exclusive_broadcast = FALSE])
broadcast_rpcs_exclusive(rpcs) ==
  Set([builder EXCEPT !.broadcast_rpcs = rpcs, !.exclusive_broadcast = TRUE])
add_blink_broadcast == Set([builder EXCEPT !.broadcast_rpcs = Append(@, BlinkUrl)])
gas_rpc_url(url) == Set([builder EXCEPT !.gas_rpc_url = {url}])
initial_nonce == ~builder.initial_nonce /\ Set([builder EXCEPT !.initial_nonce = TRUE])

resolve_broadcast_rpcs(primary_rpc, rpcs, exclusive) ==
  IF exclusive THEN rpcs ELSE <<primary_rpc>> \o rpcs

\* Mutant: the primary's client is not looked for.
sharing_nothing(made, urls) ==
  LET fresh == {k \in DOMAIN urls : \A j \in 1 .. k - 1 :
                  normalized_url(urls[j]) # normalized_url(urls[k])}
      ks == SetToSortSeq(fresh, <)
  IN  [made |-> made \o [k \in DOMAIN ks |-> urls[ks[k]]],
       batch_client |-> [k \in DOMAIN ks |-> Len(made) + k]]

\* One client for each endpoint of urls, the primary's own (the first made) among
\* them, in the order first seen.
sharing_primary(made, urls) ==
  LET next(acc, url) ==
        LET same(i) == normalized_url(acc.made[i]) = normalized_url(url)
        IN  IF \E i \in Range(acc.batch_client) : same(i) THEN acc
            ELSE IF same(1) THEN [acc EXCEPT !.batch_client = Append(@, 1)]
            ELSE [made |-> Append(acc.made, url),
                  batch_client |-> Append(acc.batch_client, Len(acc.made) + 1)]
  IN  FoldLeft(next, [made |-> made, batch_client |-> <<>>], urls)

\* The wallet's client for url, or one more.
client_for(made, batch, url) ==
  LET same == {i \in {1} \cup Range(batch) : normalized_url(made[i]) = normalized_url(url)}
  IN  IF same = {} THEN Len(made) + 1 ELSE CHOOSE i \in same : TRUE

\* What build makes of the clients once the nonce is known.
Chosen(made) ==
  LET batch == IF builder.broadcast_rpcs = <<>> THEN [made |-> made, batch_client |-> <<>>]
               ELSE sharing_primary(made, resolve_broadcast_rpcs(builder.primary_rpc,
                      builder.broadcast_rpcs, builder.exclusive_broadcast))
      gas == {client_for(batch.made, batch.batch_client, url) : url \in builder.gas_rpc_url}
  IN  [made |-> IF \E i \in gas : i > Len(batch.made)
                THEN batch.made \o SetToSeq(builder.gas_rpc_url) ELSE batch.made,
       wallet |-> [rpc_client |-> 1, batch_client |-> batch.batch_client,
                   gas_rpc_client |-> IF gas = {} THEN 1 ELSE CHOOSE i \in gas : TRUE]]

\* Building takes the builder, and what it was told is what the caller means.
Consumed(to) ==
  /\ builder' = [Opening(builder.primary_rpc) EXCEPT !.at = to]
  /\ meant' = {normalized_url(url) : url \in Range(builder.broadcast_rpcs)}
                \cup (IF builder.exclusive_broadcast THEN {}
                      ELSE {normalized_url(builder.primary_rpc)})

\* Mutant: as before 2026-07-17, when nothing was checked.
Exclusive_overlooked == FALSE

\* An exclusive list needs an endpoint; the check comes first.
Exclusive == builder.exclusive_broadcast /\ builder.broadcast_rpcs = <<>>
BuildRefuses ==
  /\ builder.at = "open"
  /\ Exclusive
  /\ Consumed("failed")
  /\ UNCHANGED <<clients, last_success, requests, heard, wallet, calls>>

\* build with a nonce set, and build_with_nonce: no request.
build_with_nonce ==
  /\ builder.at = "open"
  /\ ~Exclusive
  /\ LET chosen == Chosen(<<builder.primary_rpc>>)
     IN  Make(chosen.made) /\ wallet' = chosen.wallet
  /\ Consumed("built")
  /\ UNCHANGED <<requests, heard, calls>>

\* build without one, new and with_multiple_rpcs: the primary is asked for it first.
build ==
  /\ builder.at = "open" /\ ~builder.initial_nonce
  /\ ~Exclusive
  /\ Make(<<builder.primary_rpc>>)
  /\ Open(Building, {1})
  /\ builder' = [builder EXCEPT !.at = "fetching"]
  /\ UNCHANGED <<heard, wallet, calls, meant>>

NonceFetched(r) ==
  /\ builder.at = "fetching"
  /\ r.call = Building /\ r \in requests
  /\ requests' = {}
  /\ LET chosen == Chosen(clients)
         more == SubSeq(chosen.made, 2, Len(chosen.made))
     IN  /\ clients' = chosen.made
         /\ last_success' = <<mark(last_success[1], "result")>> \o [k \in DOMAIN more |-> None]
         /\ wallet' = chosen.wallet
  /\ heard' = [heard EXCEPT ![Target(1)] = 0]
  /\ Consumed("built")
  /\ UNCHANGED calls

NonceFails(r) ==
  /\ builder.at = "fetching"
  /\ r.call = Building
  /\ \E ending \in Endings \ {"result"} : request_with_detail(r, ending)
  /\ Consumed("failed")
  /\ UNCHANGED <<wallet, calls>>
-----------------------------------------------------------------------------
(* Calls of the wallet *)

At(n, op, at) == calls[n].op = op /\ calls[n].at = at

\* Calls are numbered as they start, whichever tasks make them.
Starts(n) ==
  /\ builder.at = "built"
  /\ calls[n] = NoCall
  /\ \A m \in 1 .. n - 1 : calls[m] # NoCall

Goes(n, to) == calls' = [calls EXCEPT ![n].at = to]
Done(call, verdict) ==
  [call EXCEPT !.at = "done", !.verdict = verdict, !.errors = 0, !.elapsed = FALSE]
Returns(n, verdict) == calls' = [calls EXCEPT ![n] = Done([@ EXCEPT !.polls = <<>>], verdict)]

\* warmup_connections: the primary, then the batch, all of it at once.
warmup_connections(n) ==
  /\ Starts(n)
  /\ calls' = [calls EXCEPT ![n].op = "warmup", ![n].at = "primary"]
  /\ Open(n, {i \in {wallet.rpc_client} : probe_due(i)})
  /\ UNCHANGED <<clients, last_success, heard, builder, wallet, meant>>

WarmupBatch(n) ==
  /\ At(n, "warmup", "primary") /\ Opened(n) = {}
  /\ Goes(n, "batch")
  /\ Open(n, {i \in Range(wallet.batch_client) : probe_due(i)})
  /\ UNCHANGED <<clients, last_success, heard, builder, wallet, meant>>

WarmupReturns(n) ==
  /\ At(n, "warmup", "batch") /\ Opened(n) = {}
  /\ Returns(n, "ok")
  /\ UNCHANGED <<clients, last_success, requests, heard, builder, wallet, meant>>

Probed(n, r) ==
  /\ calls[n].op = "warmup" /\ r.call = n
  /\ \E ending \in Endings : request_with_detail(r, ending)
  /\ UNCHANGED <<builder, wallet, calls, meant>>

\* Signed bytes go to every client of the batch, or to the primary if there is none.
Broadcasters ==
  IF wallet.batch_client = <<>> THEN <<wallet.rpc_client>> ELSE wallet.batch_client
send(n) ==
  /\ Starts(n)
  /\ calls' = [calls EXCEPT ![n].op = "send", ![n].at = "sent",
                            ![n].sent = [k \in DOMAIN Broadcasters |-> Target(Broadcasters[k])]]
  /\ Open(n, Range(Broadcasters))
  /\ UNCHANGED <<clients, last_success, heard, builder, wallet, meant>>

\* The first acceptance returns, an empty answer among them, and the others go on
\* without their call; the last failure returns.
SendAnswered(n, r) ==
  /\ calls[n].op = "send" /\ r.call = n
  /\ \E ending \in Endings :
       /\ request_with_detail(r, ending)
       /\ IF calls[n].at = "sent" /\ ending \in {"result", "null"} THEN Returns(n, "ok")
          ELSE IF calls[n].at = "sent" /\ Opened(n) = {r} THEN Returns(n, "error")
          ELSE UNCHANGED calls
  /\ UNCHANGED <<builder, wallet, meant>>

\* Gas prices come from the gas client, balances and nonces from the primary.
read(n) ==
  /\ Starts(n)
  /\ calls' = [calls EXCEPT ![n].op = "read", ![n].at = "asked"]
  /\ \E i \in {wallet.rpc_client, wallet.gas_rpc_client} : Open(n, {i})
  /\ UNCHANGED <<clients, last_success, heard, builder, wallet, meant>>

ReadAnswered(n, r) ==
  /\ At(n, "read", "asked") /\ r.call = n
  /\ \E ending \in Endings :
       /\ request_with_detail(r, ending)
       /\ Returns(n, IF ending = "result" THEN "ok" ELSE "error")
  /\ UNCHANGED <<builder, wallet, meant>>

wait_for_receipt(n) ==
  /\ Starts(n)
  /\ calls' = [calls EXCEPT ![n].op = "wait", ![n].at = "head"]
  /\ UNCHANGED <<clients, last_success, requests, heard, builder, wallet, meant>>

Elapse(n) ==
  /\ calls[n].op = "wait" /\ calls[n].at # "done" /\ ~calls[n].elapsed
  /\ calls' = [calls EXCEPT ![n].elapsed = TRUE]
  /\ UNCHANGED <<clients, last_success, requests, heard, builder, wallet, meant>>

WaitTimesOut(n) ==
  /\ At(n, "wait", "head") /\ calls[n].elapsed
  /\ Returns(n, "timeout")
  /\ UNCHANGED <<clients, last_success, requests, heard, builder, wallet, meant>>

\* Mutant: the timeout is not looked at between polls.
Poll_untimed(n) ==
  /\ At(n, "wait", "head")
  /\ Goes(n, "polling")
  /\ Open(n, {wallet.rpc_client})
  /\ UNCHANGED <<clients, last_success, heard, builder, wallet, meant>>

Poll(n) ==
  /\ At(n, "wait", "head") /\ ~calls[n].elapsed
  /\ Goes(n, "polling")
  /\ Open(n, {wallet.rpc_client})
  /\ UNCHANGED <<clients, last_success, heard, builder, wallet, meant>>

\* Mutant: an empty answer leaves the count alone.
errors_after_any(errors, ending) == IF ending = "null" THEN errors ELSE errors + 1

consecutive_errors(errors, ending) == IF ending = "null" THEN 0 ELSE errors + 1

\* No receipt yet is the empty answer, and starts the count of errors again.
Polled(n, r) ==
  /\ At(n, "wait", "polling") /\ r.call = n
  /\ \E ending \in Endings :
       LET errors == consecutive_errors(calls[n].errors, ending)
           gives_up == errors >= MAX_CONSECUTIVE_RECEIPT_ERRORS
           seen == Append(calls[n].polls, IF ending \in {"error", "lost"} THEN "failed" ELSE ending)
           polled == [calls[n] EXCEPT
                        !.polls = IF Len(seen) > 3 THEN Tail(seen) ELSE seen]
       IN  /\ request_with_detail(r, ending)
           /\ calls' = [calls EXCEPT ![n] =
                IF ending = "result" THEN Done(polled, "receipt")
                ELSE IF gives_up THEN Done(polled, "error")
                ELSE [polled EXCEPT !.errors = errors, !.at = "head"]]
  /\ UNCHANGED <<builder, wallet, meant>>

\* A caller drops the call: a lost race, a timeout of its own.
Abandon(n) ==
  /\ calls[n] # NoCall /\ calls[n].at # "done"
  /\ Drop(n)
  /\ Returns(n, "dropped")
  /\ UNCHANGED <<builder, wallet, meant>>

Passes == Tick /\ UNCHANGED <<builder, wallet, calls, meant>>
-----------------------------------------------------------------------------
Builds ==
  \/ \E list \in BroadcastLists : broadcast_rpcs(list) \/ broadcast_rpcs_exclusive(list)
  \/ add_blink_broadcast
  \/ \E url \in GasUrls : gas_rpc_url(url)
  \/ initial_nonce
  \/ BuildRefuses \/ build_with_nonce \/ build
  \/ \E r \in requests : NonceFetched(r) \/ NonceFails(r)

\* What the tasks of call n do, and the answers they wait for.
Runs(n) ==
  \/ WarmupBatch(n) \/ WarmupReturns(n)
  \/ WaitTimesOut(n) \/ Poll(n)
Answered(n, r) == Probed(n, r) \/ SendAnswered(n, r) \/ ReadAnswered(n, r) \/ Polled(n, r)

Next ==
  \/ Builds
  \/ \E n \in 1 .. MaxCalls :
       \/ warmup_connections(n) \/ send(n) \/ read(n) \/ wait_for_receipt(n)
       \/ Runs(n) \/ Elapse(n) \/ Abandon(n)
       \/ \E r \in requests : Answered(n, r)
  \/ Passes

Spec == Init /\ [][Next]_vars

\* Tasks run, time passes for a wait, and every request has a timeout.
FairSpec ==
  /\ Spec
  /\ WF_vars(\E r \in requests : NonceFetched(r) \/ NonceFails(r))
  /\ \A n \in 1 .. MaxCalls :
       /\ WF_vars(Runs(n))
       /\ WF_vars(Elapse(n))
       /\ WF_vars(\E r \in requests : Answered(n, r))
-----------------------------------------------------------------------------
(* Properties *)

\* The bytes of a send go to each endpoint that the builder was given for it, once,
\* and to no other: to the primary only if the list is not exclusive, however the
\* setters were called and the URLs were spelled.
SendsReachTheSet ==
  \A n \in 1 .. MaxCalls : calls[n].op = "send" =>
    /\ IsInjective(calls[n].sent)
    /\ Range(calls[n].sent) = meant

\* client.rs:51: "Sends nothing while this endpoint answered within the warmup
\* window" and was not lost since; and only then.  Any of the wallet's calls may
\* have heard the answer or had the loss, on any of its clients.
WarmupKnowsTheEndpoint ==
  [][\A n \in 1 .. MaxCalls :
       calls'[n].op = "warmup" /\ calls'[n].at \in {"primary", "batch"}
       /\ calls'[n].at # calls[n].at =>
         \A i \in IF calls'[n].at = "primary" THEN {1} ELSE Range(wallet.batch_client) :
           [call |-> n, client |-> i] \in requests' <=> ~Remembers(i)]_vars

\* reads.rs:104: a wait fails on the third poll in a row that failed, not before
\* and not later, and returns a receipt only if the last poll had one.
Failed(polls) == polls = <<"failed", "failed", "failed">>
ReceiptVerdicts ==
  \A n \in 1 .. MaxCalls : calls[n].op = "wait" =>
    /\ Failed(calls[n].polls) <=> calls[n].verdict = "error"
    /\ calls[n].verdict = "receipt" <=> calls[n].polls # <<>> /\ Last(calls[n].polls) = "result"

\* Every call returns, a wait for a receipt that never comes too.
CallsReturn ==
  \A n \in 1 .. MaxCalls : calls[n] # NoCall ~> calls[n].at = "done"
=============================================================================
