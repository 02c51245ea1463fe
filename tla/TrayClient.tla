----------------------------- MODULE TrayClient -----------------------------
(***************************************************************************)
(* The macOS tray's IpcClient (tray-app/MailMCP/IPC/IpcClient.swift): one  *)
(* actor that several view models call, a reader task per connection, and  *)
(* a daemon that answers each connection's requests in turn, exits and     *)
(* starts again.                                                           *)
(*                                                                         *)
(* An actor runs one piece of code at a time, up to the next suspension:   *)
(* a call connects and writes in one piece (Call), its child task parks in *)
(* another (Await), and the reader delivers in between (RouteFrame,        *)
(* FailOnEof).  disconnect, which only tests call, is left out, and so are *)
(* notifications (TrayApprovals has them).                                 *)
(***************************************************************************)
EXTENDS Naturals, Sequences

CONSTANTS
  Callers,    \* tasks of the tray that call the daemon
  MaxConns,   \* bound: connections made
  MaxCalls,   \* bound: calls made
  MaxExits    \* bound: exits of the daemon

Conns == 1 .. MaxConns

VARIABLES
  fd,        \* the connection in use, 0 for none
  isClosed,  \* isClosed
  nextId,    \* nextId
  call,      \* call[c]: the call of c
  pending,   \* callers with a continuation in `pending'
  early,     \* earlyResponses: frames nobody waited for yet
  reader,    \* reader[k]: the reader task of a connection
  up, down,  \* frames on their way to the daemon and back
  open,      \* connections that the daemon has open
  daemon,    \* TRUE while the daemon runs
  calls, exits

actor == <<fd, isClosed, nextId, call, pending, early>>
wire == <<reader, up, down, open, daemon, exits>>
vars == <<actor, wire, calls>>

\* A request and its response: its id, and which call of the tray it is.
Frame == [id : Nat, serial : Nat]
Idle == [step |-> "idle", id |-> 0, serial |-> 0, conn |-> 0, timedOut |-> FALSE,
         got |-> [id |-> 0, serial |-> 0]]
Running == {"written", "parked"}

Init ==
  /\ fd = 0 /\ isClosed = FALSE /\ nextId = 1
  /\ call = [c \in Callers |-> Idle] /\ pending = {} /\ early = {}
  /\ reader = [k \in Conns |-> "none"]
  /\ up = [k \in Conns |-> <<>>] /\ down = [k \in Conns |-> <<>>]
  /\ open = {} /\ daemon = TRUE /\ calls = 0 /\ exits = 0
------------------------------------------------------------------------------
(***************************************************************************)
(* call: connect, take an id, write.                                       *)
(***************************************************************************)
Connected == fd # 0 /\ ~isClosed

\* The connection that connect() leaves in fd, 0 when it throws.
Used ==
  IF Connected THEN fd
  ELSE IF daemon /\ \E k \in Conns : reader[k] = "none"
       THEN CHOOSE k \in Conns : reader[k] = "none" /\ \A j \in 1 .. k - 1 : reader[j] # "none"
       ELSE 0

Reconnect(k) ==
  IF Connected THEN UNCHANGED <<fd, isClosed, reader, open>>
  ELSE /\ fd' = k /\ isClosed' = FALSE
       /\ reader' = [reader EXCEPT ![k] = "reading"] /\ open' = open \union {k}

Written(id) ==
  [Idle EXCEPT !.step = "written", !.id = id, !.serial = calls + 1, !.conn = Used]

Start(c) ==
  /\ call[c].step \notin Running /\ calls < MaxCalls /\ calls' = calls + 1

Call(c) ==
  /\ Start(c) /\ Used # 0 /\ (Connected => Used \in open)
  /\ Reconnect(Used)
  /\ call' = [call EXCEPT ![c] = Written(nextId)] /\ nextId' = nextId + 1
  /\ up' = [up EXCEPT ![Used] = Append(@, [id |-> nextId, serial |-> calls + 1])]
  /\ UNCHANGED <<pending, early, down, daemon, exits>>

\* connect() throws, or write fails because the daemon has closed its end; fd
\* and isClosed are left to the reader.  The error return of write is taken as
\* writeFrame takes it: that SIGPIPE, whose default action would end the tray, is
\* ignored is assumed (nothing in the sources sets SO_NOSIGPIPE).
CallFails(c) ==
  /\ Start(c) /\ (Connected \/ Used = 0) /\ Used \notin open
  /\ call' = [call EXCEPT ![c] = [Idle EXCEPT !.step = "failed"]]
  /\ nextId' = nextId + (IF Used = 0 THEN 0 ELSE 1)
  /\ UNCHANGED <<fd, isClosed, pending, early, wire>>
------------------------------------------------------------------------------
(***************************************************************************)
(* awaitResponse and the timer, the two children of call's task group.     *)
(***************************************************************************)
\* The group ends when both children have: the timer is cancelled by the
\* answer, but the continuation does not notice the timer.
Return(k, step, frame) ==
  [k EXCEPT !.step = IF k.timedOut THEN "timeout" ELSE step, !.got = frame]

NoFrame == [id |-> 0, serial |-> 0]

Await(c) ==
  /\ call[c].step = "written"
  /\ LET mine == {f \in early : f.id = call[c].id} IN
       \/ /\ isClosed /\ call' = [call EXCEPT ![c] = Return(@, "failed", NoFrame)]
          /\ UNCHANGED <<pending, early>>
       \/ /\ ~isClosed
          /\ \E f \in mine : /\ call' = [call EXCEPT ![c] = Return(@, "ok", f)]
                             /\ early' = early \ {f}
          /\ UNCHANGED pending
       \/ /\ ~isClosed /\ mine = {}
          /\ call' = [call EXCEPT ![c].step = "parked"] /\ pending' = pending \union {c}
          /\ UNCHANGED early
  /\ UNCHANGED <<fd, isClosed, nextId, wire, calls>>

Timeout(c) ==
  /\ call[c].step \in Running /\ ~call[c].timedOut
  /\ call' = [call EXCEPT ![c].timedOut = TRUE]
  /\ UNCHANGED <<fd, isClosed, nextId, pending, early, wire, calls>>
------------------------------------------------------------------------------
(***************************************************************************)
(* readLoop.                                                               *)
(***************************************************************************)
Take(k) == reader[k] = "reading" /\ down[k] # <<>> /\ down' = [down EXCEPT ![k] = Tail(@)]

MutantRouteFrame(k) ==   \* a frame nobody waits for is dropped
  /\ Take(k)
  /\ LET f == Head(down[k]) to == {c \in pending : call[c].id = f.id} IN
       /\ call' = [c \in Callers |-> IF c \in to THEN Return(call[c], "ok", f) ELSE call[c]]
       /\ pending' = pending \ to
  /\ UNCHANGED <<fd, isClosed, nextId, early, reader, up, open, daemon, exits, calls>>

RouteFrame(k) ==
  /\ Take(k)
  /\ LET f == Head(down[k]) to == {c \in pending : call[c].id = f.id} IN
       /\ call' = [c \in Callers |-> IF c \in to THEN Return(call[c], "ok", f) ELSE call[c]]
       /\ pending' = pending \ to
       /\ early' = IF to = {} THEN early \union {f} ELSE early
  /\ UNCHANGED <<fd, isClosed, nextId, reader, up, open, daemon, exits, calls>>

\* read returns 0: the connection in use is closed, whichever it is.
FailOnEof(k) ==
  /\ reader[k] = "reading" /\ down[k] = <<>> /\ k \notin open
  /\ reader' = [reader EXCEPT ![k] = "done"]
  /\ IF isClosed THEN UNCHANGED <<fd, isClosed, call, pending>>
     ELSE /\ isClosed' = TRUE /\ fd' = 0
          /\ call' = [c \in Callers |->
                IF c \in pending THEN Return(call[c], "failed", NoFrame) ELSE call[c]]
          /\ pending' = {}
  /\ UNCHANGED <<nextId, early, up, down, open, daemon, exits, calls>>
------------------------------------------------------------------------------
(***************************************************************************)
(* The daemon: serve_conn answers a connection's requests one by one.      *)
(***************************************************************************)
Answer(k) ==
  /\ k \in open /\ up[k] # <<>>
  /\ up' = [up EXCEPT ![k] = Tail(@)]
  /\ down' = [down EXCEPT ![k] = Append(@, Head(up[k]))]
  /\ UNCHANGED <<actor, reader, open, daemon, exits, calls>>

Exit ==
  /\ daemon /\ exits < MaxExits /\ exits' = exits + 1
  /\ daemon' = FALSE /\ open' = {}
  /\ UNCHANGED <<actor, reader, up, down, calls>>

Restart == ~daemon /\ daemon' = TRUE /\ UNCHANGED <<actor, reader, up, down, open, exits, calls>>

Next ==
  \/ \E c \in Callers : Call(c) \/ CallFails(c) \/ Await(c) \/ Timeout(c)
  \/ \E k \in Conns : RouteFrame(k) \/ FailOnEof(k) \/ Answer(k)
  \/ Exit \/ Restart

Spec == Init /\ [][Next]_vars

\* The Swift runtime runs every task that can run, the timer fires, and the
\* daemon answers what it has read, or it has exited.
Fairness ==
  /\ \A c \in Callers : WF_vars(Await(c)) /\ WF_vars(Timeout(c))
  /\ \A k \in Conns : WF_vars(RouteFrame(k)) /\ WF_vars(FailOnEof(k)) /\ WF_vars(Answer(k))

LiveSpec == Spec /\ Fairness
------------------------------------------------------------------------------
(***************************************************************************)
(* Properties.                                                             *)
(***************************************************************************)
CallState ==
  [step : Running \union {"idle", "ok", "failed", "timeout"}, id : Nat, serial : Nat,
   conn : {0} \union Conns, timedOut : BOOLEAN, got : Frame]

ActorOK ==
  /\ fd \in 0 .. MaxConns /\ isClosed \in BOOLEAN /\ nextId \in 1 .. MaxCalls + 1
  /\ call \in [Callers -> CallState]
  /\ pending = {c \in Callers : call[c].step = "parked"} /\ early \subseteq Frame

WireOK ==
  /\ reader \in [Conns -> {"none", "reading", "done"}]
  /\ up \in [Conns -> Seq(Frame)] /\ down \in [Conns -> Seq(Frame)]
  /\ open \subseteq Conns /\ daemon \in BOOLEAN /\ exits \in 0 .. MaxExits

TypeOK == ActorOK /\ WireOK /\ calls \in 0 .. MaxCalls

\* A call that returns a response returns the one to its own request, however
\* many connections its id and the stashed responses have outlived (call,
\* routeFrame, awaitResponse: earlyResponses is never cleared).
AnswerIsMine ==
  \A c \in Callers : call[c].step = "ok" => call[c].got.serial = call[c].serial

Waits(c) == call[c].step \in Running

\* A call that parked although its own connection had ended, because another
\* call had connected again: failOnEof has been, and no answer will come.
Stranded(c) == call[c].step = "parked" /\ fd \notin {0, call[c].conn}

Returned(c) == ~Waits(c) \/ Stranded(c)

\* A call returns, on whichever connection it was written: its answer may come
\* before or after it parks, the connection may end before or after (call,
\* awaitResponse, failOnEof).  The calls that do not are the stranded ones.
EveryCallReturns == \A c \in Callers : Waits(c) ~> Returned(c)
==============================================================================
