-------------------------- MODULE IpcNotifications --------------------------
(***************************************************************************)
(* How the daemon tells its IPC clients what happened.  ApprovalQueue and  *)
(* the request handlers publish on bounded broadcast channels; a forwarder *)
(* task of main() moves approval events to the notification channel; every *)
(* connection (serve_conn in mail-mcp-core/src/ipc/server.rs) answers its  *)
(* requests one at a time and, from its first `subscribe` on, has a        *)
(* fan-out task that writes notifications to the same socket under a       *)
(* mutex.  A receiver that falls more than a channel's capacity behind     *)
(* gets Lagged from recv(), which ends its `while let Ok` loop.            *)
(***************************************************************************)
EXTENDS Integers, Sequences

CONSTANTS
  Conns,            \* connections clients may open
  ApprovalMethods,  \* the notifications the forwarder makes
  HandlerMethods,   \* the notifications request handlers send themselves
  Kinds,            \* the kinds of request clients send
  Filters,          \* the event lists clients subscribe to
  Readers,          \* connections whose client keeps reading
  Cap,              \* capacity of both broadcast channels (64)
  Buf,              \* chunks a socket buffers before a write blocks
  MaxEvents,        \* bound on approval events
  MaxRequests       \* bound on requests per connection

Method == {"approval.requested", "approval.resolved", "account.added",
           "account.removed", "mcp.paused_changed"}

ASSUME MethodsKnown ==
  /\ ApprovalMethods \subseteq {"approval.requested", "approval.resolved"}
  /\ HandlerMethods \subseteq {"account.added", "account.removed"}

ASSUME FiltersKnown == Filters \subseteq SUBSET Method

ASSUME SizesNatural ==
  Cap \in Nat \ {0} /\ Buf \in Nat \ {0} /\ MaxEvents \in Nat /\ MaxRequests \in Nat \ {0}

VARIABLES
  events,   \* ApprovalQueue::events: every event broadcast so far
  fwd,      \* the forwarder: its state and the next event it will receive
  sent,     \* notif_tx: every notification broadcast so far
  paused,   \* mcp_paused
  step,     \* step[c]: where serve_conn of c stands
  req,      \* req[c]: the request it is serving
  served,   \* served[c]: requests read so far
  asked,    \* asked[c]: every event list c subscribed to
  filter,   \* filter[c]: `subscribed`
  spawned,  \* spawned[c]: fan-out tasks started; > 0 is fanout_started
  fan,      \* fan[t]: fan-out task t: its state, its first and its next receipt
  holder,   \* holder[c]: who holds the writer mutex
  open,     \* open[c]: the client has not closed its end
  wire,     \* wire[c]: chunks written to the socket
  read      \* read[c]: how many of them the client has read

busVars == <<events, fwd, sent, paused>>
connVars == <<step, req, served, asked, filter, spawned>>
taskVars == <<fan, holder>>
sockVars == <<open, wire, read>>
vars == <<busVars, connVars, taskVars, sockVars>>

\* fan-out tasks, by connection and order of spawning
Tasks == Conns \X (1 .. MaxRequests)

Nobody == -1
Main == 0     \* serve_conn itself; n > 0 is the fan-out task <<c, n>>

Request ==
  [kind : {"subscribe"}, events : Filters]
    \cup [kind : {"pause"}, flag : BOOLEAN]
    \cup [kind : {"call", "malformed"}]

NoRequest == [kind |-> "none"]

\* a chunk of wire[c]: the body of a notification (its place in sent), the
\* body of a response (0), or the newline that ends either
Newline == -1

BusOK ==
  /\ events \in Seq(ApprovalMethods)
  /\ fwd \in [state : {"recv", "send", "ended"}, next : Nat \ {0}]
  /\ sent \in Seq(Method)
  /\ paused \in BOOLEAN

ConnsOK ==
  /\ step \in [Conns -> {"off", "read", "filter", "arm", "handle", "notify",
                         "reply", "body", "newline", "closed"}]
  /\ req \in [Conns -> Request \cup {NoRequest}]
  /\ served \in [Conns -> 0 .. MaxRequests]
  /\ asked \in [Conns -> SUBSET Filters]
  /\ filter \in [Conns -> SUBSET Method]
  /\ spawned \in [Conns -> 0 .. MaxRequests]

TasksOK ==
  /\ fan \in [Tasks -> [state : {"none", "recv", "check", "lock", "body",
                                 "newline", "ended"},
                        start : Nat \ {0}, next : Nat \ {0}]]
  /\ holder \in [Conns -> Nobody .. MaxRequests]

SocketsOK ==
  /\ open \in [Conns -> BOOLEAN]
  /\ wire \in [Conns -> Seq(Int)]
  /\ read \in [Conns -> Nat]

(***************************************************************************)
(* The state stays within the types of the channels, the connections,      *)
(* their fan-out tasks and their sockets.                                  *)
(***************************************************************************)
TypeOK == BusOK /\ ConnsOK /\ TasksOK /\ SocketsOK

Init ==
  /\ events = <<>>
  /\ fwd = [state |-> "recv", next |-> 1]
  /\ sent = <<>>
  /\ paused = FALSE
  /\ step = [c \in Conns |-> "off"]
  /\ req = [c \in Conns |-> NoRequest]
  /\ served = [c \in Conns |-> 0]
  /\ asked = [c \in Conns |-> {}]
  /\ filter = [c \in Conns |-> {}]
  /\ spawned = [c \in Conns |-> 0]
  /\ fan = [t \in Tasks |-> [state |-> "none", start |-> 1, next |-> 1]]
  /\ holder = [c \in Conns |-> Nobody]
  /\ open = [c \in Conns |-> FALSE]
  /\ wire = [c \in Conns |-> <<>>]
  /\ read = [c \in Conns |-> 0]

-----------------------------------------------------------------------------
(* The channels. *)

\* a receiver whose next receipt is n has missed some of the len sent
Lagged(n, len) == len - (n - 1) > Cap

\* broadcast::Sender::send on notif_tx
Broadcast(m) == sent' = Append(sent, m)

\* enqueue and decide broadcast an ApprovalEvent
Emit(m) ==
  /\ Len(events) < MaxEvents
  /\ events' = Append(events, m)
  /\ UNCHANGED <<fwd, sent, paused, connVars, taskVars, sockVars>>

\* main(), the forwarder: approval_events.recv()
FwdRecv ==
  /\ fwd.state = "recv"
  /\ fwd.next <= Len(events)
  /\ fwd' = IF Lagged(fwd.next, Len(events))
              THEN [fwd EXCEPT !.state = "ended"]
              ELSE [state |-> "send", next |-> fwd.next + 1]
  /\ UNCHANGED <<events, sent, paused, connVars, taskVars, sockVars>>

\* main(), the forwarder: notif_for_approvals.send(n)
FwdSend ==
  /\ fwd.state = "send"
  /\ Broadcast(events[fwd.next - 1])
  /\ fwd' = [fwd EXCEPT !.state = "recv"]
  /\ UNCHANGED <<events, paused, connVars, taskVars, sockVars>>

-----------------------------------------------------------------------------
(* serve_conn. *)

\* Mutant: the fan-out task is armed when the connection is accepted.
MutantAccept(c) ==
  /\ step[c] = "off"
  /\ step' = [step EXCEPT ![c] = "read"]
  /\ open' = [open EXCEPT ![c] = TRUE]
  /\ spawned' = [spawned EXCEPT ![c] = 1]
  /\ fan' = [fan EXCEPT ![<<c, 1>>] = [state |-> "recv", start |-> Len(sent) + 1,
                                       next |-> Len(sent) + 1]]
  /\ UNCHANGED <<busVars, req, served, asked, filter, holder, wire, read>>

\* bind_and_serve: accept, then spawn serve_conn
Accept(c) ==
  /\ step[c] = "off"
  /\ step' = [step EXCEPT ![c] = "read"]
  /\ open' = [open EXCEPT ![c] = TRUE]
  /\ UNCHANGED <<busVars, req, served, asked, filter, spawned, taskVars, wire, read>>

\* read_line returns a request; lines the client wrote before it closed its
\* end are still read
ReadLine(c, r) ==
  /\ step[c] = "read"
  /\ served[c] < MaxRequests
  /\ served' = [served EXCEPT ![c] = @ + 1]
  /\ req' = [req EXCEPT ![c] = r]
  /\ step' = [step EXCEPT ![c] = CASE r.kind = "subscribe" -> "filter"
                                   [] r.kind = "malformed" -> "reply"
                                   [] OTHER -> "handle"]
  /\ asked' = [asked EXCEPT ![c] =
                 IF r.kind = "subscribe" THEN @ \cup {r.events} ELSE @]
  /\ UNCHANGED <<busVars, filter, spawned, taskVars, sockVars>>

\* read_line returns 0: the client closed its end
Eof(c) ==
  /\ step[c] = "read"
  /\ ~open[c]
  /\ step' = [step EXCEPT ![c] = "closed"]
  /\ UNCHANGED <<busVars, req, served, asked, filter, spawned, taskVars, sockVars>>

\* subscribe: replace the filter
SetFilter(c) ==
  /\ step[c] = "filter"
  /\ filter' = [filter EXCEPT ![c] = req[c].events]
  /\ step' = [step EXCEPT ![c] = "arm"]
  /\ UNCHANGED <<busVars, req, served, asked, spawned, taskVars, sockVars>>

\* Mutant: every subscribe spawns a fan-out task.
MutantArm(c) ==
  /\ step[c] = "arm"
  /\ step' = [step EXCEPT ![c] = "reply"]
  /\ spawned' = [spawned EXCEPT ![c] = @ + 1]
  /\ fan' = [fan EXCEPT ![<<c, spawned[c] + 1>>] =
               [state |-> "recv", start |-> Len(sent) + 1, next |-> Len(sent) + 1]]
  /\ UNCHANGED <<busVars, req, served, asked, filter, holder, sockVars>>

\* subscribe: the first one spawns the fan-out task
Arm(c) ==
  /\ step[c] = "arm"
  /\ step' = [step EXCEPT ![c] = "reply"]
  /\ \/ /\ spawned[c] = 0
        /\ spawned' = [spawned EXCEPT ![c] = 1]
        /\ fan' = [fan EXCEPT ![<<c, 1>>] =
                     [state |-> "recv", start |-> Len(sent) + 1, next |-> Len(sent) + 1]]
     \/ spawned[c] > 0 /\ UNCHANGED <<spawned, fan>>
  /\ UNCHANGED <<busVars, req, served, asked, filter, holder, sockVars>>

\* handler.handle for a request other than mcp.pause: it may notify
Handle(c) ==
  /\ step[c] = "handle"
  /\ req[c].kind = "call"
  /\ step' = [step EXCEPT ![c] = "reply"]
  /\ UNCHANGED sent \/ \E m \in HandlerMethods : Broadcast(m)
  /\ UNCHANGED <<events, fwd, paused, req, served, asked, filter, spawned,
                 taskVars, sockVars>>

\* mcp.pause: store the flag
StorePaused(c) ==
  /\ step[c] = "handle"
  /\ req[c].kind = "pause"
  /\ paused' = req[c].flag
  /\ step' = [step EXCEPT ![c] = "notify"]
  /\ UNCHANGED <<events, fwd, sent, req, served, asked, filter, spawned,
                 taskVars, sockVars>>

\* mcp.pause: notify
NotifyPaused(c) ==
  /\ step[c] = "notify"
  /\ Broadcast("mcp.paused_changed")
  /\ step' = [step EXCEPT ![c] = "reply"]
  /\ UNCHANGED <<events, fwd, paused, req, served, asked, filter, spawned,
                 taskVars, sockVars>>

\* Mutant: the response is written without taking the writer mutex.
MutantLockReply(c) ==
  /\ step[c] = "reply"
  /\ step' = [step EXCEPT ![c] = "body"]
  /\ UNCHANGED <<busVars, req, served, asked, filter, spawned, taskVars, sockVars>>

\* writer.lock() for the response
LockReply(c) ==
  /\ step[c] = "reply"
  /\ holder[c] = Nobody
  /\ holder' = [holder EXCEPT ![c] = Main]
  /\ step' = [step EXCEPT ![c] = "body"]
  /\ UNCHANGED <<busVars, req, served, asked, filter, spawned, fan, sockVars>>

\* the socket's buffer takes another chunk
Room(c) == Len(wire[c]) - read[c] < Buf

\* write_all of the response, then of the newline: each waits while the buffer
\* is full and fails once the client has closed its end, which ends serve_conn;
\* only the answer to a malformed line ignores the failure and reads on
WriteReply(c) ==
  /\ step[c] \in {"body", "newline"}
  /\ \/ /\ ~open[c]
        /\ step' = [step EXCEPT ![c] = IF req[c].kind = "malformed" THEN "read" ELSE "closed"]
        /\ holder' = [holder EXCEPT ![c] = Nobody]
        /\ UNCHANGED wire
     \/ /\ open[c] /\ Room(c)
        /\ \/ /\ step[c] = "body"
              /\ wire' = [wire EXCEPT ![c] = Append(@, 0)]
              /\ step' = [step EXCEPT ![c] = "newline"]
              /\ UNCHANGED holder
           \/ /\ step[c] = "newline"
              /\ wire' = [wire EXCEPT ![c] = Append(@, Newline)]
              /\ step' = [step EXCEPT ![c] = "read"]
              /\ holder' = [holder EXCEPT ![c] = Nobody]
  /\ UNCHANGED <<busVars, req, served, asked, filter, spawned, fan, open, read>>

-----------------------------------------------------------------------------
(* The fan-out task t = <<c, n>>. *)

FanGoto(t, s) == fan' = [fan EXCEPT ![t].state = s]

\* Mutant: a receiver that lagged skips to the oldest notification kept.
MutantFanRecv(t) ==
  /\ fan[t].state = "recv"
  /\ fan[t].next <= Len(sent)
  /\ IF Lagged(fan[t].next, Len(sent))
       THEN fan' = [fan EXCEPT ![t].next = Len(sent) - Cap + 1]
       ELSE fan' = [fan EXCEPT ![t].state = "check", ![t].next = @ + 1]
  /\ UNCHANGED <<busVars, connVars, holder, sockVars>>

\* notifications.recv()
FanRecv(t) ==
  /\ fan[t].state = "recv"
  /\ fan[t].next <= Len(sent)
  /\ IF Lagged(fan[t].next, Len(sent))
       THEN FanGoto(t, "ended")
       ELSE fan' = [fan EXCEPT ![t].state = "check", ![t].next = @ + 1]
  /\ UNCHANGED <<busVars, connVars, holder, sockVars>>

\* is the notification's method in the connection's filter?
FanCheck(t) ==
  /\ fan[t].state = "check"
  /\ FanGoto(t, IF sent[fan[t].next - 1] \in filter[t[1]] THEN "lock" ELSE "recv")
  /\ UNCHANGED <<busVars, connVars, holder, sockVars>>

\* writer_for_notif.lock()
FanLock(t) ==
  /\ fan[t].state = "lock"
  /\ holder[t[1]] = Nobody
  /\ holder' = [holder EXCEPT ![t[1]] = t[2]]
  /\ FanGoto(t, "body")
  /\ UNCHANGED <<busVars, connVars, sockVars>>

\* Mutant: the mutex guard is kept across the loop.
MutantFanWrite(t) ==
  LET c == t[1] IN
  /\ fan[t].state \in {"body", "newline"}
  /\ open[c] /\ Room(c)
  /\ \/ /\ fan[t].state = "body"
        /\ wire' = [wire EXCEPT ![c] = Append(@, fan[t].next - 1)]
        /\ FanGoto(t, "newline")
     \/ /\ fan[t].state = "newline"
        /\ wire' = [wire EXCEPT ![c] = Append(@, Newline)]
        /\ FanGoto(t, "recv")
  /\ UNCHANGED <<busVars, connVars, holder, open, read>>

\* write_all of the frame, then of the newline; an error ends the task
FanWrite(t) ==
  LET c == t[1] IN
  /\ fan[t].state \in {"body", "newline"}
  /\ \/ /\ ~open[c]
        /\ FanGoto(t, "ended")
        /\ holder' = [holder EXCEPT ![c] = Nobody]
        /\ UNCHANGED wire
     \/ /\ open[c] /\ Room(c)
        /\ \/ /\ fan[t].state = "body"
              /\ wire' = [wire EXCEPT ![c] = Append(@, fan[t].next - 1)]
              /\ FanGoto(t, "newline")
              /\ UNCHANGED holder
           \/ /\ fan[t].state = "newline"
              /\ wire' = [wire EXCEPT ![c] = Append(@, Newline)]
              /\ FanGoto(t, "recv")
              /\ holder' = [holder EXCEPT ![c] = Nobody]
  /\ UNCHANGED <<busVars, connVars, open, read>>

-----------------------------------------------------------------------------
(* The client. *)

ClientRead(c) ==
  /\ open[c]
  /\ read[c] < Len(wire[c])
  /\ read' = [read EXCEPT ![c] = @ + 1]
  /\ UNCHANGED <<busVars, connVars, taskVars, open, wire>>

ClientClose(c) ==
  /\ open[c]
  /\ open' = [open EXCEPT ![c] = FALSE]
  /\ UNCHANGED <<busVars, connVars, taskVars, wire, read>>

-----------------------------------------------------------------------------
\* what serve_conn does by itself once it has a request, the mutex aside
ServeStep(c) ==
  \/ Eof(c) \/ SetFilter(c) \/ Arm(c) \/ Handle(c) \/ StorePaused(c)
  \/ NotifyPaused(c) \/ WriteReply(c)

FanStep(t) == FanRecv(t) \/ FanCheck(t) \/ FanWrite(t)

Next ==
  \/ \E m \in ApprovalMethods : Emit(m)
  \/ FwdRecv \/ FwdSend
  \/ \E c \in Conns : \/ Accept(c) \/ LockReply(c) \/ ServeStep(c)
                      \/ ClientRead(c) \/ ClientClose(c)
                      \/ \E r \in Request : r.kind \in Kinds /\ ReadLine(c, r)
  \/ \E t \in Tasks : FanLock(t) \/ FanStep(t)

Spec == Init /\ [][Next]_vars

(***************************************************************************)
(* tokio runs every ready task, and its mutex hands the lock to waiters in *)
(* order, so a waiter for a lock that keeps being released gets it.  Of    *)
(* the clients only Readers keep reading; nobody has to send requests.     *)
(* The properties are about Readers and need no fairness of other          *)
(* connections, so none is assumed.                                        *)
(***************************************************************************)
Fairness ==
  /\ WF_vars(FwdRecv \/ FwdSend)
  /\ \A c \in Readers :
       /\ WF_vars(ServeStep(c)) /\ SF_vars(LockReply(c))
       /\ \A n \in 1 .. MaxRequests :
            WF_vars(FanStep(<<c, n>>)) /\ SF_vars(FanLock(<<c, n>>))
       /\ WF_vars(ClientRead(c))

FairSpec == Spec /\ Fairness

-----------------------------------------------------------------------------
(* Properties. *)

(***************************************************************************)
(* Notifications and responses share a socket and never interleave: every  *)
(* body on the wire is followed by its own newline, although each is       *)
(* written by two write_all calls of two tasks.                            *)
(***************************************************************************)
FramesWhole ==
  \A c \in Conns : \A k \in DOMAIN wire[c] :
    wire[c][k] = Newline <=> k % 2 = 0

(***************************************************************************)
(* A client sees the notifications in the order they were broadcast, each  *)
(* at most once, whatever it re-subscribes to.                             *)
(***************************************************************************)
InOrderOnce ==
  \A c \in Conns : \A j, k \in DOMAIN wire[c] :
    j < k /\ wire[c][j] > 0 /\ wire[c][k] > 0 => wire[c][j] < wire[c][k]

Delivered(c, i) == \E k \in DOMAIN wire[c] : wire[c][k] = i

Wanted(c, i) == i <= Len(sent) /\ \A f \in asked[c] : sent[i] \in f

(***************************************************************************)
(* Forward-only without gaps (issue #6): of the notifications broadcast    *)
(* since the fan-out task was armed, those it has passed and every filter  *)
(* the client asked for admits are on the wire, or the one in its hand     *)
(* still will be; nothing broadcast earlier, and nothing no filter asked   *)
(* for, is.                                                                *)
(***************************************************************************)
ForwardWithoutGaps ==
  \A t \in Tasks : LET c == t[1] IN
    fan[t].state \notin {"none", "ended"} =>
      /\ \A i \in fan[t].start .. fan[t].next - 1 :
           Wanted(c, i) => \/ Delivered(c, i)
                           \/ i = fan[t].next - 1 /\ fan[t].state # "recv"
      /\ t[2] = 1 => \A k \in DOMAIN wire[c] : wire[c][k] > 0 =>
           wire[c][k] >= fan[t].start /\ \E f \in asked[c] : sent[wire[c][k]] \in f

(***************************************************************************)
(* A reading client gets every notification broadcast after its            *)
(* subscription that its filters admit, unless its own fan-out task lagged *)
(* or it closed; another client that stops reading does not hold it up.    *)
(***************************************************************************)
DeliveredUnlessLagged ==
  \A c \in Readers : \A i \in 1 .. MaxEvents :
    (/\ fan[<<c, 1>>].state \notin {"none", "ended"}
     /\ i >= fan[<<c, 1>>].start /\ i <= Len(sent))
      ~> \/ Delivered(c, i) \/ ~Wanted(c, i)
         \/ fan[<<c, 1>>].state = "ended" \/ ~open[c]

(***************************************************************************)
(* Every request of a reading client is answered, however busy its fan-out *)
(* task keeps the socket.                                                  *)
(***************************************************************************)
RequestsAnswered ==
  \A c \in Readers : step[c] \notin {"off", "read", "closed"} ~> step[c] \in {"read", "closed"}
=============================================================================
