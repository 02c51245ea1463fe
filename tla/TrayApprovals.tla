---------------------------- MODULE TrayApprovals ----------------------------
(***************************************************************************)
(* How pending approvals reach the user of the macOS tray.  The daemon     *)
(* keeps the queue (permissions/approvals.rs) and one filter per           *)
(* connection (ipc/server.rs); in the tray, several view models subscribe  *)
(* through one IpcClient: StatusViewModel counts approvals and polls,      *)
(* ApprovalCoordinator shows a modal for each, AccountsViewModel and the   *)
(* sign-in wizard want account events only.  The view models live on the   *)
(* main actor, which an open modal keeps; IpcClient is an actor of its own.*)
(*                                                                         *)
(* `bus' stands for the daemon's broadcast channels, which keep the order  *)
(* of events; a receiver that lags behind is the subject of                *)
(* IpcNotifications.  Requests of one connection are served in turn.       *)
(***************************************************************************)
EXTENDS Naturals, Sequences, FiniteSets, SequencesExt

CONSTANTS
  Subs,        \* the subscribers of the tray that run
  Refreshers,  \* tasks that run StatusViewModel.refresh: "loop", "notes", "user"
  Approvals,   \* approvals the MCP side asks for, each once
  MaxUpsets,   \* bound: account and pause events and restarts of the daemon
  None

\* The events each subscriber asks for.
Wants(s) ==
  CASE s = "status" -> {"requested", "resolved", "account"}
    [] s = "coordinator" -> {"requested"}
    [] OTHER -> {"account"}

\* The subscribers whose notifications are followed.  AccountsViewModel answers
\* every one of its own with an accounts.list, on which nothing here depends.
Readers == Subs \ {"accounts"}

VARIABLES
  queue,    \* approvals pending in the daemon
  born,     \* approvals asked for so far
  todo,     \* events that enqueue and decide are about to broadcast
  bus,      \* events broadcast and not yet seen by the fan-out task
  filter,   \* the connection's filter, {} before the first subscribe
  up, down, \* frames to the daemon and back
  sub,      \* sub[s]: how far a subscription has come
  inbox,    \* inbox[s]: notifications in a stream's buffer
  count,    \* pendingApprovalCount
  poll,     \* poll[r]: how far a refresh has come, and the length it got
  modal,    \* the approval in the coordinator's modal, and if it is decided
  shown,    \* approvals that had a modal
  covered,  \* approvals asked for while the coordinator had its stream
  dropped,  \* approvals whose request the connection's filter held back
  changes, exits

daemonVars == <<queue, born, todo, bus, filter, covered, dropped, changes>>
clientVars == <<sub, inbox, count, poll, modal, shown>>
vars == <<daemonVars, up, down, clientVars, exits>>

NoModal == [approval |-> None, decided |-> FALSE]
NoPoll == [state |-> "idle", n |-> 0]

Init ==
  /\ queue = {} /\ born = {} /\ todo = {} /\ bus = <<>> /\ filter = {}
  /\ up = <<>> /\ down = <<>> /\ changes = 0 /\ exits = 0
  /\ covered = {} /\ dropped = {}
  /\ sub = [s \in Subs |-> "new"] /\ inbox = [s \in Readers |-> <<>>]
  /\ count = 0 /\ poll = [r \in Refreshers |-> NoPoll] /\ modal = NoModal /\ shown = {}
------------------------------------------------------------------------------
(***************************************************************************)
(* The daemon.                                                             *)
(***************************************************************************)
\* enqueue: the entry first, the event after the lock is released.
Enqueue(a) ==
  /\ a \notin born /\ born' = born \union {a}
  /\ queue' = queue \union {a} /\ todo' = todo \union {<<"requested", a>>}
  /\ covered' = IF sub["coordinator"] = "streaming" THEN covered \union {a} ELSE covered
  /\ UNCHANGED <<bus, filter, dropped, changes, up, down, clientVars, exits>>

\* The request among the events that the connection does not get.
HeldBack(e) == IF e[1] = "requested" THEN {e[2]} ELSE {}

\* events.send: lost on a connection that has not subscribed yet.
Announce(e) ==
  /\ e \in todo /\ todo' = todo \ {e}
  /\ bus' = IF filter = {} THEN bus ELSE Append(bus, e)
  /\ dropped' = IF filter = {} THEN dropped \union HeldBack(e) ELSE dropped
  /\ UNCHANGED <<queue, born, filter, covered, changes, up, down, clientVars, exits>>

\* account.added, account.removed, mcp.paused_changed; of the subscribers only
\* StatusViewModel is followed on these.
Change ==
  /\ "status" \in Subs /\ changes + exits < MaxUpsets /\ changes' = changes + 1
  /\ bus' = IF filter = {} THEN bus ELSE Append(bus, <<"account", None>>)
  /\ UNCHANGED <<queue, born, todo, filter, covered, dropped, up, down, clientVars, exits>>

\* await_outcome's timer removes the entry and tells nobody.
Expire(a) ==
  /\ a \in queue /\ <<"requested", a>> \notin todo
  /\ queue' = queue \ {a}
  /\ UNCHANGED <<born, todo, bus, filter, covered, dropped, changes, up, down, clientVars, exits>>

Decided(a) ==
  IF a \in queue THEN queue' = queue \ {a} /\ todo' = todo \union {<<"resolved", a>>}
  ELSE UNCHANGED <<queue, todo>>

\* decide from another connection: the admin CLI.
DecideElsewhere(a) ==
  /\ a \in queue /\ Decided(a)
  /\ UNCHANGED <<born, bus, filter, covered, dropped, changes, up, down, clientVars, exits>>

\* serve_conn: the next request.  subscribe replaces the filter.
Serve ==
  /\ up # <<>> /\ up' = Tail(up)
  /\ LET r == Head(up) IN
       \/ /\ r.kind = "subscribe" /\ filter' = Wants(r.arg)
          /\ down' = Append(down, [kind |-> "ack", arg |-> r.arg])
          /\ UNCHANGED <<queue, todo>>
       \/ /\ r.kind = "status"
          /\ down' = Append(down, [kind |-> "status", arg |-> r.arg])
          /\ UNCHANGED <<queue, todo, filter>>
       \/ /\ r.kind = "list"
          /\ down' = Append(down, [kind |-> "list", arg |-> r.arg, n |-> Cardinality(queue)])
          /\ UNCHANGED <<queue, todo, filter>>
       \/ /\ r.kind = "decide" /\ Decided(r.arg)
          /\ down' = Append(down, [kind |-> "decided", arg |-> r.arg])
          /\ UNCHANGED filter
  /\ UNCHANGED <<born, bus, covered, dropped, changes, clientVars, exits>>

FanOut ==
  /\ bus # <<>> /\ bus' = Tail(bus)
  /\ LET e == Head(bus) IN
       \/ /\ e[1] \in filter /\ down' = Append(down, [kind |-> "note", arg |-> e])
          /\ UNCHANGED dropped
       \/ /\ e[1] \notin filter /\ dropped' = dropped \union HeldBack(e)
          /\ UNCHANGED down
  /\ UNCHANGED <<queue, born, todo, filter, covered, changes, up, clientVars, exits>>
------------------------------------------------------------------------------
(***************************************************************************)
(* The tray.                                                               *)
(***************************************************************************)
\* alert.runModal() keeps the main actor until a button is pressed.
MainFree == modal = NoModal \/ modal.decided

Ask(kind, arg) == up' = Append(up, [kind |-> kind, arg |-> arg])

Subscribe(s) ==
  /\ MainFree
  /\ sub[s] = "new" /\ sub' = [sub EXCEPT ![s] = "asked"] /\ Ask("subscribe", s)
  /\ UNCHANGED <<daemonVars, down, inbox, count, poll, modal, shown, exits>>

\* refresh calls status, and with the answer approvals.list.
RefreshBegins(r) ==
  /\ poll[r].state = "idle" /\ poll' = [poll EXCEPT ![r].state = "status"]
  /\ Ask("status", r)

\* pollLoop every 30 seconds; maybeOpenWizard and togglePause when they like.
Refresh(r) ==
  /\ r \in Refreshers \ {"notes"} /\ MainFree /\ RefreshBegins(r)
  /\ UNCHANGED <<daemonVars, down, sub, inbox, count, modal, shown, exits>>

RefreshList(r) ==
  /\ MainFree /\ poll[r].state = "on" /\ poll' = [poll EXCEPT ![r].state = "list"]
  /\ Ask("list", r)
  /\ UNCHANGED <<daemonVars, down, sub, inbox, count, modal, shown, exits>>

\* routeFrame: a response resumes its caller, a notification goes to every
\* stream registered so far.
Route ==
  /\ down # <<>> /\ down' = Tail(down)
  /\ LET f == Head(down) IN
       \/ /\ f.kind = "ack" /\ sub' = [sub EXCEPT ![f.arg] = "acked"]
          /\ UNCHANGED <<inbox, poll, modal>>
       \/ /\ f.kind = "status" /\ poll' = [poll EXCEPT ![f.arg].state = "on"]
          /\ UNCHANGED <<sub, inbox, modal>>
       \/ /\ f.kind = "list" /\ poll' = [poll EXCEPT ![f.arg] = [state |-> "got", n |-> f.n]]
          /\ UNCHANGED <<sub, inbox, modal>>
       \/ /\ f.kind = "decided" /\ modal' = NoModal
          /\ UNCHANGED <<sub, inbox, poll>>
       \/ /\ f.kind = "note"
          /\ inbox' = [s \in DOMAIN inbox |->
                         IF sub[s] = "streaming" THEN Append(inbox[s], f.arg) ELSE inbox[s]]
          /\ UNCHANGED <<sub, poll, modal>>
  /\ UNCHANGED <<daemonVars, up, count, shown, exits>>

\* registerNotificationStream, in a task of its own.
Register(s) ==
  /\ sub[s] = "acked" /\ sub' = [sub EXCEPT ![s] = "streaming"]
  /\ UNCHANGED <<daemonVars, up, down, inbox, count, poll, modal, shown, exits>>

MutantRefreshed(r) ==   \* the poll never lowers the count
  /\ MainFree /\ poll[r].state = "got"
  /\ count' = IF poll[r].n > count THEN poll[r].n ELSE count
  /\ poll' = [poll EXCEPT ![r] = NoPoll]
  /\ UNCHANGED <<daemonVars, up, down, sub, inbox, modal, shown, exits>>

\* The length of the list becomes the count.
Refreshed(r) ==
  /\ MainFree /\ poll[r].state = "got"
  /\ count' = poll[r].n /\ poll' = [poll EXCEPT ![r] = NoPoll]
  /\ UNCHANGED <<daemonVars, up, down, sub, inbox, modal, shown, exits>>

Receive(s) == s \in DOMAIN inbox /\ inbox[s] # <<>> /\ inbox' = [inbox EXCEPT ![s] = Tail(@)]

\* StatusViewModel.notificationLoop; on an account or pause event it awaits a
\* refresh of its own before it takes the next note.
StatusNote ==
  /\ MainFree /\ Receive("status") /\ poll["notes"].state = "idle"
  /\ LET e == Head(inbox["status"])[1] IN
       \/ e = "requested" /\ count' = count + 1 /\ UNCHANGED <<up, poll>>
       \/ /\ e = "resolved" /\ UNCHANGED <<up, poll>>
          /\ count' = IF count > 0 THEN count - 1 ELSE 0
       \/ e = "account" /\ RefreshBegins("notes") /\ UNCHANGED count
  /\ UNCHANGED <<daemonVars, down, sub, modal, shown, exits>>

MutantPresent ==   \* a request that comes while a modal is up is dropped
  /\ Receive("coordinator")
  /\ LET n == Head(inbox["coordinator"]) IN
       IF n[1] = "requested" /\ modal = NoModal
       THEN modal' = [approval |-> n[2], decided |-> FALSE] /\ shown' = shown \union {n[2]}
       ELSE UNCHANGED <<modal, shown>>
  /\ UNCHANGED <<daemonVars, up, down, sub, count, poll, exits>>

\* ApprovalCoordinator.run: the next request, one modal at a time.
Present ==
  /\ modal = NoModal /\ Receive("coordinator")
  /\ LET n == Head(inbox["coordinator"]) IN
       IF n[1] = "requested"
       THEN modal' = [approval |-> n[2], decided |-> FALSE] /\ shown' = shown \union {n[2]}
       ELSE UNCHANGED <<modal, shown>>
  /\ UNCHANGED <<daemonVars, up, down, sub, count, poll, exits>>

\* present: the user presses a button, and the coordinator waits for the answer.
UserDecides ==
  /\ ~MainFree /\ Ask("decide", modal.approval)
  /\ modal' = [modal EXCEPT !.decided = TRUE]
  /\ UNCHANGED <<daemonVars, down, sub, inbox, count, poll, shown, exits>>

\* What becomes of a poll and of a subscription when their connection ends: a
\* call that waits fails, or, if it parks only after another call has connected
\* again, waits for ever (awaitResponse; a subscription that waits for ever is as
\* good as ended); a stream is finished, but one that registers only then is
\* kept on the new connection, to which nobody subscribed.
PollEnds(p) ==
  IF p.state \in {"status", "list"} THEN {NoPoll, [state |-> "stuck", n |-> 0]} ELSE {p}
SubEnds(s) ==
  CASE s = "new" -> {"new"} [] s = "acked" -> {"acked", "ended"} [] OTHER -> {"ended"}

\* The daemon ends and another one starts; the next call of the tray connects
\* to it.  Nobody subscribes again.
Restart ==
  /\ changes + exits < MaxUpsets /\ exits' = exits + 1
  /\ queue' = {} /\ todo' = {} /\ bus' = <<>> /\ filter' = {}
  /\ up' = <<>> /\ down' = <<>>
  /\ \E f \in [Subs -> {"new", "acked", "ended"}] :
       (\A s \in Subs : f[s] \in SubEnds(sub[s])) /\ sub' = f
  /\ \E f \in [Refreshers -> {NoPoll, [state |-> "stuck", n |-> 0]} \union {poll[r] : r \in Refreshers}] :
       (\A r \in Refreshers : f[r] \in PollEnds(poll[r])) /\ poll' = f
  /\ modal' \in IF modal.decided THEN {modal, NoModal} ELSE {modal}
  /\ UNCHANGED <<born, covered, dropped, changes, inbox, count, shown>>

Next ==
  \/ \E a \in Approvals : Enqueue(a) \/ Expire(a) \/ DecideElsewhere(a)
  \/ \E e \in {"requested", "resolved"} \X Approvals : Announce(e)
  \/ Change \/ Serve \/ FanOut \/ Route \/ StatusNote \/ Present \/ UserDecides \/ Restart
  \/ \E r \in Refreshers : Refresh(r) \/ RefreshList(r) \/ Refreshed(r)
  \/ \E s \in Subs : Subscribe(s) \/ Register(s)

Spec == Init /\ [][Next]_vars
------------------------------------------------------------------------------
(***************************************************************************)
(* Properties.                                                             *)
(***************************************************************************)
TypeOK ==
  /\ queue \subseteq born /\ born \subseteq Approvals
  /\ filter \subseteq {"requested", "resolved", "account"}
  /\ \A s \in Subs : sub[s] \in {"new", "asked", "acked", "streaming", "ended"}
  /\ count \in 0 .. 2 * Cardinality(Approvals)
  /\ \A r \in Refreshers : poll[r].state \in {"idle", "status", "on", "list", "got", "stuck"}
  /\ modal.approval \in Approvals \union {None} /\ shown \subseteq born

\* Where the request for an approval is, between the daemon and the user.
UnderWay(a) ==
  \/ <<"requested", a>> \in todo \union ToSet(bus)
  \/ \E f \in ToSet(down) : f.kind = "note" /\ f.arg = <<"requested", a>>
  \/ <<"requested", a>> \in ToSet(inbox["coordinator"])
  \/ a \in shown

\* "Subscribes to approval.requested notifications and presents a modal NSAlert
\* for each" (ApprovalCoordinator.swift:4): an approval that is pending and was
\* asked for while the coordinator had its stream has been shown or is on its
\* way to be.  It does not hold: the daemon keeps one filter per connection, and
\* AccountsViewModel replaces it with one that has account events only.
EachIsUnderWay == \A a \in queue \intersect covered : UnderWay(a)

\* The coordinator's filter is gone: the daemon has restarted, or a subscriber that
\* does not want approval.requested has subscribed on the same connection.
Displaced ==
  exits > 0 \/ \E s \in DOMAIN sub : "requested" \notin Wants(s) /\ sub[s] # "new"

Accounted(a) == UnderWay(a) \/ (a \in dropped /\ Displaced)

\* What does hold: the request reaches the coordinator, also while another modal
\* keeps the main actor, and the one way to lose it is at the connection's filter
\* after another subscriber or a restart has taken that away (serve_conn).
PendingIsUnderWay == \A a \in queue \intersect covered : Accounted(a)

\* Whatever was lost, overtaken or counted twice, the poll brings the count right
\* in the end (refresh, notificationLoop), unless a modal stays open for ever and
\* the main actor with it, or the poll is parked for ever after a reconnect
\* (IpcClient.swift:197).
PollStuck == "loop" \in DOMAIN poll /\ poll["loop"].state = "stuck"
CountConverges == <>[](count = Cardinality(queue)) \/ <>[]~MainFree \/ <>[]PollStuck
==============================================================================
