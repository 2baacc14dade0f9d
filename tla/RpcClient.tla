----------------------------- MODULE RpcClient ------------------------------
(* src/rpc/client.rs, src/rpc/request.rs, src/warm.rs: the HTTP clients of a    *)
(* wallet, one connection pool each, the requests open on them, and what each   *)
(* client remembers of its endpoint, by which warmup decides whether to probe.  *)
(* Time counts in ticks.                                                        *)
EXTENDS Integers, Sequences, SequencesExt

CONSTANTS
  HTTPS_WARMUP_WINDOW, HTTP_WARMUP_WINDOW,  \* in ticks
  None

\* Windows are times.
ASSUME WindowsAssumption == {HTTPS_WARMUP_WINDOW, HTTP_WARMUP_WINDOW} \subseteq Nat

Longest == Max({HTTPS_WARMUP_WINDOW, HTTP_WARMUP_WINDOW})

VARIABLES
  clients,       \* the URL of every RpcClient made, in the order they are made
  last_success,  \* of each: ticks since the last clean answer, None if lost
  requests,      \* open requests: the call that waits for it, and the client
  heard          \* for the properties: the same memory, kept for each endpoint

rpcVars == <<clients, last_success, requests, heard>>

\* A URL is a spelling of the target a request parses it to.
normalized_url(url) == url.target

for_url(url) == IF url.https THEN HTTPS_WARMUP_WINDOW ELSE HTTP_WARMUP_WINDOW

\* A probe is due on first use, after a loss, or once the window lapses.
probe_due(i) == last_success[i] = None \/ last_success[i] >= for_url(clients[i])

Target(i) == normalized_url(clients[i])
Remembers(i) == heard[Target(i)] # None /\ heard[Target(i)] < for_url(clients[i])

\* Clients for more URLs: nothing is known of their connections.
Make(urls) ==
  /\ clients' = clients \o urls
  /\ last_success' = last_success \o [k \in DOMAIN urls |-> None]

Open(call, targets) == requests' = requests \cup {[call |-> call, client |-> i] : i \in targets}
Opened(call) == {r \in requests : r.call = call}

\* How a request ends: the whole answer arrives, with a result, with none, or with
\* an error of JSON-RPC; or it is lost: refused, timed out, cut short, redirected,
\* or dropped with its future.
Answers == {"result", "null", "error"}
Endings == Answers \cup {"lost"}

\* The guard marks the loss, unless disarmed by a whole answer.
mark(memory, ending) ==
  CASE ending = "result" -> 0
    [] ending = "lost" -> None
    [] OTHER -> memory

request_with_detail(r, ending) ==
  /\ r \in requests
  /\ requests' = requests \ {r}
  /\ last_success' = [last_success EXCEPT ![r.client] = mark(@, ending)]
  /\ heard' = [heard EXCEPT ![Target(r.client)] =
                 IF ending = "lost" THEN None ELSE IF ending = "result" THEN 0 ELSE @]
  /\ UNCHANGED clients

\* A call is dropped, and its requests with it.
Drop(call) ==
  LET lost == {r.client : r \in Opened(call)}
  IN  /\ requests' = requests \ Opened(call)
      /\ last_success' = [i \in DOMAIN last_success |->
                            IF i \in lost THEN mark(last_success[i], "lost")
                            ELSE last_success[i]]
      /\ heard' = [t \in DOMAIN heard |->
                     IF t \in {Target(i) : i \in lost} THEN None ELSE heard[t]]
      /\ UNCHANGED clients

Older(age) == IF age = None \/ age = Longest THEN age ELSE age + 1
Tick ==
  /\ last_success' = [i \in DOMAIN last_success |-> Older(last_success[i])]
  /\ heard' = [t \in DOMAIN heard |-> Older(heard[t])]
  /\ UNCHANGED <<clients, requests>>
=============================================================================
