----------------------------- MODULE OAuthFlow ------------------------------
(***************************************************************************)
(* The task accounts.add_oauth spawns: LoopbackListener::await_callback    *)
(* and handle_one (oauth/loopback.rs), then exchange_code (oauth/mod.rs)   *)
(* and the userinfo request (ipc_handler.rs).  The listener's port is open *)
(* to every local process: besides the browser's callback it meets         *)
(* preconnects, probes, aborted connections and peers that say nothing.    *)
(*                                                                         *)
(* A request is abstracted to what handle_one looks at: whether it carries *)
(* the state nonce of this flow, a code, and an error parameter.           *)
(***************************************************************************)
EXTENDS Naturals, Sequences

CONSTANT Peers   \* connections made to the listener's port

\* what handle_one looks for in a request: this flow's state, a code, an error
Field == {"state", "code", "error"}

VARIABLES
  pc,        \* where the task stands
  late,      \* the deadline has passed
  backlog,   \* connections the kernel holds for accept
  link,      \* link[p]: p's connection: not made, open, with a request (none
             \* of the fields: closed or garbage), or reset
  query,     \* query[p]: the fields in p's request
  cur,       \* the connection handle_one serves
  answered,  \* peers that got a response, and whether it was 200 OK
  captured   \* the peer whose code the flow goes on with

vars == <<pc, late, backlog, link, query, cur, answered, captured>>

None == "none"
Ended == {"tokens", "no_refresh", "timeout", "declined", "io_error", "http_error"}

TypeOK ==
  /\ pc \in {"loop", "accept", "read", "exchange", "userinfo"} \cup Ended
  /\ late \in BOOLEAN
  /\ backlog \in Seq(Peers)
  /\ link \in [Peers -> {"away", "open", "sent", "reset"}]
  /\ query \in [Peers -> SUBSET Field]
  /\ cur \in Peers \cup {None}
  /\ answered \in [Peers -> {None, "200", "400"}]
  /\ captured \in Peers \cup {None}

\* begin_authorization: a fresh nonce and verifier, a listener on a free port
Init ==
  /\ pc = "loop"
  /\ late = FALSE
  /\ backlog = <<>>
  /\ link = [p \in Peers |-> "away"]
  /\ query = [p \in Peers |-> {}]
  /\ cur = None
  /\ answered = [p \in Peers |-> None]
  /\ captured = None

-----------------------------------------------------------------------------
(* The peers and the clock. *)

\* a peer connects while the listener is open
Connect(p) ==
  /\ link[p] = "away"
  /\ pc \in {"loop", "accept", "read"}
  /\ backlog' = Append(backlog, p)
  /\ link' = [link EXCEPT ![p] = "open"]
  /\ UNCHANGED <<pc, late, query, cur, answered, captured>>

\* a connected peer sends its request, or closes
Send(p, q) ==
  /\ link[p] = "open"
  /\ link' = [link EXCEPT ![p] = "sent"]
  /\ query' = [query EXCEPT ![p] = q]
  /\ UNCHANGED <<pc, late, backlog, cur, answered, captured>>

\* a connection is aborted before its request was read
Abort(p) ==
  /\ link[p] = "open"
  /\ link' = [link EXCEPT ![p] = "reset"]
  /\ UNCHANGED <<pc, late, backlog, query, cur, answered, captured>>

Deadline ==
  /\ ~late
  /\ late' = TRUE
  /\ UNCHANGED <<pc, backlog, link, query, cur, answered, captured>>

-----------------------------------------------------------------------------
(* The task. *)

Goto(label) == pc' = label

\* await_callback: the top of the loop
CheckDeadline ==
  /\ pc = "loop"
  /\ Goto(IF late THEN "timeout" ELSE "accept")
  /\ UNCHANGED <<late, backlog, link, query, cur, answered, captured>>

\* await_callback: listener.accept(), polled before its timeout
Accept ==
  /\ pc = "accept"
  /\ backlog # <<>>
  /\ cur' = Head(backlog)
  /\ backlog' = Tail(backlog)
  /\ Goto("read")
  /\ UNCHANGED <<late, link, query, answered, captured>>

\* Mutant: the wait for a connection has no timeout.
MutantAcceptTimesOut == FALSE /\ UNCHANGED vars

\* await_callback: nobody connects before the deadline
AcceptTimesOut ==
  /\ pc = "accept"
  /\ backlog = <<>>
  /\ late
  /\ Goto("timeout")
  /\ UNCHANGED <<late, backlog, link, query, cur, answered, captured>>

\* await_callback: accept itself fails
AcceptFails ==
  /\ pc = "accept"
  /\ Goto("io_error")
  /\ UNCHANGED <<late, backlog, link, query, cur, answered, captured>>

\* handle_one: the read fails, which await_callback takes for its own failure
ReadFails ==
  /\ pc = "read"
  /\ link[cur] = "reset"
  /\ Goto("io_error")
  /\ UNCHANGED <<late, backlog, link, query, cur, answered, captured>>

\* handle_one: the callback this flow waits for
Genuine(p) == {"state", "code"} \subseteq query[p] /\ "error" \notin query[p]

\* Mutant: the state only decides how the answer is worded.
MutantHandleOne ==
  /\ pc = "read"
  /\ link[cur] = "sent"
  /\ answered' = [answered EXCEPT ![cur] = IF Genuine(cur) THEN "200" ELSE "400"]
  /\ captured' = IF "code" \in query[cur] THEN cur ELSE captured
  /\ Goto(CASE "error" \in query[cur] -> "declined"
            [] "code" \in query[cur] -> "exchange"
            [] OTHER -> "loop")
  /\ UNCHANGED <<late, backlog, link, query, cur>>

\* handle_one: what one read of up to 4096 bytes returns is taken for the whole
\* request; parse its first line, answer, and go on.  An error parameter decides
\* before the state does.
HandleOne ==
  /\ pc = "read"
  /\ link[cur] = "sent"
  /\ answered' = [answered EXCEPT ![cur] = IF Genuine(cur) THEN "200" ELSE "400"]
  /\ captured' = IF Genuine(cur) THEN cur ELSE captured
  /\ Goto(CASE "error" \in query[cur] -> "declined"
            [] Genuine(cur) -> "exchange"
            [] OTHER -> "loop")
  /\ UNCHANGED <<late, backlog, link, query, cur>>

\* exchange_code: POST the code; no connection or an error status ends it
Exchange ==
  /\ pc = "exchange"
  /\ Goto("userinfo") \/ Goto("http_error")
  /\ UNCHANGED <<late, backlog, link, query, cur, answered, captured>>

\* the userinfo request; the tokens may come without a refresh token
UserInfo ==
  /\ pc = "userinfo"
  /\ Goto("tokens") \/ Goto("no_refresh") \/ Goto("http_error")
  /\ UNCHANGED <<late, backlog, link, query, cur, answered, captured>>

Speak(p) == Abort(p) \/ \E q \in SUBSET Field : Send(p, q)

Task ==
  \/ CheckDeadline \/ Accept \/ AcceptTimesOut \/ ReadFails \/ HandleOne
  \/ Exchange \/ UserInfo

Next ==
  \/ Task \/ AcceptFails \/ Deadline
  \/ \E p \in Peers : Connect(p) \/ Speak(p)

Spec == Init /\ [][Next]_vars

-----------------------------------------------------------------------------
(* Properties. *)

(***************************************************************************)
(* The flow exchanges a code only if it came with the nonce this flow put  *)
(* in the authorization URL, and never turns such a callback away: a       *)
(* genuine callback that was answered is the one the flow went on with.    *)
(***************************************************************************)
CallbackGenuine ==
  /\ pc \in {"exchange", "userinfo", "tokens", "no_refresh"} =>
       captured # None /\ Genuine(captured)
  /\ \A p \in Peers :
       answered[p] # None /\ Genuine(p) => captured = p /\ answered[p] = "200"
=============================================================================
