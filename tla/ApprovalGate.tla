---------------------------- MODULE ApprovalGate ----------------------------
(***************************************************************************)
(* The gate every MCP tool call passes before it may touch a mailbox:      *)
(* handle_post and dispatch (mail-mcp-daemon/src/mcp), enforce,            *)
(* SessionTrust and ApprovalQueue (mail-mcp-core/src/permissions), with    *)
(* the IPC requests that change what the gate reads: permissions.set,      *)
(* mcp.pause, accounts.remove and approvals.decide (ipc_handler.rs).       *)
(*                                                                         *)
(* A call is one HTTP request; its handler is a future that other tasks    *)
(* overtake at every await, and, on the multi-threaded runtime, between    *)
(* two statements too.  One action is one stretch of a handler in which it *)
(* touches shared state once.                                              *)
(***************************************************************************)
CONSTANTS
  Calls,     \* tool calls; an ApprovalId is fresh per enqueue and a call
             \* enqueues at most once, so a call names its own approval too
  Deciders,  \* IPC connections that may run approvals.decide (tray, admin)
  Accounts,  \* accounts present when the daemon starts, each with its
             \* refresh token in the keychain
  Tools,     \* the tools the calls may name
  Policies   \* the policies the user sets

\* permissions::Category
Category == {"read", "modify", "trash", "draft", "send"}

\* permissions::Policy
Policy == {"allow", "confirm", "session", "draftify", "block"}

\* permissions::default_policy
DefaultPolicy ==
  [read |-> "allow", modify |-> "allow", trash |-> "confirm",
   draft |-> "allow", send |-> "draftify"]

\* mcp::tools::tools(): the category a tool declares
CategoryOf ==
  [list_accounts |-> "read", search |-> "read", get_thread |-> "read",
   get_message |-> "read", list_folders |-> "read", list_labels |-> "read",
   list_drafts |-> "read", mark_read |-> "modify", star |-> "modify",
   label |-> "modify", move_to |-> "modify", archive |-> "modify",
   trash |-> "trash", untrash |-> "trash",
   create_draft |-> "draft", update_draft |-> "draft",
   send_message |-> "send", send_draft |-> "send"]

ASSUME ToolsKnown == Tools \subseteq DOMAIN CategoryOf

ASSUME PoliciesKnown == Policies \subseteq Policy

VARIABLES
  args,      \* args[c]: the account and the tool call c names
  pc,        \* pc[c]: where the handler of c stands
  snap,      \* snap[c]: the policy read for c; "unread" before that
  chan,      \* chan[c]: the oneshot channel of c's approval and what came of it
  effect,    \* effect[c]: what the provider was asked to do for c
  reply,     \* reply[c]: the answer of c
  pending,   \* Inner.pending: approvals waiting for a decision
  announced, \* approvals whose Requested event was broadcast
  resolved,  \* approvals whose Resolved event was broadcast
  trust,     \* SessionTrust: trusted (account, category) pairs
  verdict,   \* verdict[c]: the decision the queue accepted for c
  task,      \* task[d]: the decide request connection d is running
  paused,    \* mcp_paused
  policy,    \* policy[a][k]: what the user chose last
  row,       \* accounts with a row in the accounts table
  removing,  \* accounts whose accounts.remove has deleted the row only
  providers  \* ProviderRegistry

callVars == <<pc, snap, chan, effect, reply>>
queueVars == <<pending, announced, resolved, trust, verdict, task>>
adminVars == <<paused, policy, row, removing, providers>>
vars == <<args, callVars, queueVars, adminVars>>

CatOf(c) == CategoryOf[args[c].tool]

\* Permissions::for_account: the stored row, or the default where there is
\* none.  ON DELETE CASCADE drops an account's permissions with its row.
ForAccount(a, k) == IF a \in row THEN policy[a][k] ELSE DefaultPolicy[k]

Idle == [step |-> "idle"]

Decision == {"approve", "reject"}

\* Mutant: the decision's wire name is sent instead of the outcome.
MutantOutcome(v) == v

Outcome(v) == IF v = "approve" THEN "approved" ELSE "rejected"

CallsOK ==
  /\ args \in [Calls -> [account : Accounts, tool : Tools]]
  /\ pc \in [Calls -> {"new", "resolve", "perms", "enforce", "ask",
                       "announce", "await", "expired", "act", "draft",
                       "provider", "done", "gone", "past"}]
  /\ snap \in [Calls -> Policy \cup {"unread"}]
  /\ chan \in [Calls -> {"none", "empty", "approved", "rejected",
                         "timeout", "closed"}]
  /\ effect \in [Calls -> {"none", "executed", "drafted"}]
  /\ reply \in [Calls -> {"none", "ok", "draft_created", "send_held",
                          "paused", "not_found", "blocked", "error"}]

QueueOK ==
  /\ pending \subseteq Calls
  /\ announced \subseteq Calls
  /\ resolved \subseteq Calls
  /\ trust \subseteq Accounts \X Category
  /\ verdict \in [Calls -> Decision \cup {"none"}]
  /\ task \in [Deciders -> {Idle} \cup
                 [step : {"send", "publish"}, id : Calls, decision : Decision]]

AdminOK ==
  /\ paused \in BOOLEAN
  /\ policy \in [Accounts -> [Category -> Policy]]
  /\ row \subseteq Accounts
  /\ removing \subseteq Accounts
  /\ providers \subseteq Accounts

(***************************************************************************)
(* The state stays within the types the gate's structures declare.         *)
(***************************************************************************)
TypeOK == CallsOK /\ QueueOK /\ AdminOK

-----------------------------------------------------------------------------
(***************************************************************************)
(* The daemon has just started: main() hydrated a provider for every       *)
(* stored account, nothing is pending and mcp_paused is false.  The        *)
(* policies are those the accounts were created with or earlier runs left. *)
(***************************************************************************)
Init ==
  /\ args \in [Calls -> [account : Accounts, tool : Tools]]
  /\ pc = [c \in Calls |-> "new"]
  /\ snap = [c \in Calls |-> "unread"]
  /\ chan = [c \in Calls |-> "none"]
  /\ effect = [c \in Calls |-> "none"]
  /\ reply = [c \in Calls |-> "none"]
  /\ pending = {}
  /\ announced = {}
  /\ resolved = {}
  /\ trust = {}
  /\ verdict = [c \in Calls |-> "none"]
  /\ task = [d \in Deciders |-> Idle]
  /\ paused = FALSE
  /\ policy = [a \in Accounts |-> DefaultPolicy]
  /\ row = Accounts
  /\ removing = {}
  /\ providers = Accounts

-----------------------------------------------------------------------------
(* The handler of a call. *)

Goto(c, label) == pc' = [pc EXCEPT ![c] = label]

Answer(c, r) ==
  /\ Goto(c, "done")
  /\ reply' = [reply EXCEPT ![c] = r]

\* handle_post answers without dispatch: a missing bearer token, an unknown
\* tool or method
Refuse(c) ==
  /\ pc[c] = "new"
  /\ Answer(c, "error")
  /\ UNCHANGED <<args, snap, chan, effect, queueVars, adminVars>>

\* handle_post, tools/call list_accounts
ListAll(c) ==
  /\ pc[c] = "new"
  /\ args[c].tool = "list_accounts"
  /\ Answer(c, "ok")
  /\ UNCHANGED <<args, snap, chan, effect, queueVars, adminVars>>

\* dispatch: the mcp_paused check, then parse_account_id, which may fail
Dispatch(c) ==
  /\ pc[c] = "new"
  /\ args[c].tool # "list_accounts"
  /\ \/ paused /\ Answer(c, "paused")
     \/ ~paused /\ Goto(c, "resolve") /\ UNCHANGED reply
     \/ ~paused /\ Answer(c, "error")
  /\ UNCHANGED <<args, snap, chan, effect, queueVars, adminVars>>

\* dispatch: ctx.providers.get(account_id)
GetProvider(c) ==
  /\ pc[c] = "resolve"
  /\ \/ args[c].account \in providers /\ Goto(c, "perms") /\ UNCHANGED reply
     \/ args[c].account \notin providers /\ Answer(c, "not_found")
  /\ UNCHANGED <<args, snap, chan, effect, queueVars, adminVars>>

\* dispatch: Permissions::for_account; a storage error ends the call
ReadPerms(c) ==
  /\ pc[c] = "perms"
  /\ \/ /\ snap' = [snap EXCEPT ![c] = ForAccount(args[c].account, CatOf(c))]
        /\ Goto(c, "enforce")
        /\ UNCHANGED reply
     \/ Answer(c, "error") /\ UNCHANGED snap
  /\ UNCHANGED <<args, chan, effect, queueVars, adminVars>>

\* Mutant: trust granted for one category covers every category.
MutantIsTrusted(c) == \E k \in Category : <<args[c].account, k>> \in trust

IsTrusted(c) == <<args[c].account, CatOf(c)>> \in trust

\* enforce: what the policy says before anyone is asked
Enforce(c) ==
  /\ pc[c] = "enforce"
  /\ LET p == snap[c] IN
       \/ /\ p = "allow" \/ (p = "session" /\ IsTrusted(c))
          /\ Goto(c, "act") /\ UNCHANGED reply
       \/ /\ p = "block"
          /\ Answer(c, "blocked")
       \/ /\ p = "draftify" /\ CatOf(c) = "send"
          /\ Goto(c, "draft") /\ UNCHANGED reply
       \/ /\ \/ p = "confirm"
             \/ p = "draftify" /\ CatOf(c) # "send"
             \/ p = "session" /\ ~IsTrusted(c)
          /\ Goto(c, "ask") /\ UNCHANGED reply
  /\ UNCHANGED <<args, snap, chan, effect, queueVars, adminVars>>

\* ApprovalQueue::enqueue: insert under the lock
Enqueue(c) ==
  /\ pc[c] = "ask"
  /\ Goto(c, "announce")
  /\ chan' = [chan EXCEPT ![c] = "empty"]
  /\ pending' = pending \cup {c}
  /\ UNCHANGED <<args, snap, effect, reply, announced, resolved, trust,
                 verdict, task, adminVars>>

\* ApprovalQueue::enqueue: broadcast Requested after the lock is released
Announce(c) ==
  /\ pc[c] = "announce"
  /\ Goto(c, "await")
  /\ announced' = announced \cup {c}
  /\ UNCHANGED <<args, snap, chan, effect, reply, pending, resolved, trust,
                 verdict, task, adminVars>>

\* Mutant: any approval, not only one under Session, earns session trust.
MutantReceive(c) ==
  /\ pc[c] = "await"
  /\ \/ /\ chan[c] = "approved"
        /\ trust' = trust \cup {<<args[c].account, CatOf(c)>>}
        /\ Goto(c, "act") /\ UNCHANGED reply
     \/ /\ chan[c] = "rejected"
        /\ Answer(c, "blocked") /\ UNCHANGED trust
  /\ UNCHANGED <<args, snap, chan, effect, pending, announced, resolved,
                 verdict, task, adminVars>>

\* await_outcome and ask_confirm: a decision arrived; enforce then records
\* the trust a Session approval earns.
Receive(c) ==
  /\ pc[c] = "await"
  /\ \/ /\ chan[c] = "approved"
        /\ trust' = IF snap[c] = "session"
                      THEN trust \cup {<<args[c].account, CatOf(c)>>}
                      ELSE trust
        /\ Goto(c, "act") /\ UNCHANGED reply
     \/ /\ chan[c] = "rejected"
        /\ Answer(c, "blocked") /\ UNCHANGED trust
  /\ UNCHANGED <<args, snap, chan, effect, pending, announced, resolved,
                 verdict, task, adminVars>>

\* Mutant: the approval is awaited without a timeout.
MutantExpire(c) == FALSE

\* await_outcome: the timer fires on an empty channel; the receiver is dropped
Expire(c) ==
  /\ pc[c] = "await"
  /\ chan[c] = "empty"
  /\ Goto(c, "expired")
  /\ chan' = [chan EXCEPT ![c] = "timeout"]
  /\ UNCHANGED <<args, snap, effect, reply, queueVars, adminVars>>

\* Mutant: the timeout leaves the entry in the queue.
MutantCleanUp(c) ==
  /\ pc[c] = "expired"
  /\ Answer(c, "blocked")
  /\ UNCHANGED <<args, snap, chan, effect, queueVars, adminVars>>

\* Mutant: a timeout lets the call proceed.
MutantCleanUpProceeds(c) ==
  /\ pc[c] = "expired"
  /\ pending' = pending \ {c}
  /\ Goto(c, "act")
  /\ UNCHANGED <<args, snap, chan, effect, reply, announced, resolved, trust,
                 verdict, task, adminVars>>

\* await_outcome: remove the entry, if it is still there, and block the call
CleanUp(c) ==
  /\ pc[c] = "expired"
  /\ pending' = pending \ {c}
  /\ Answer(c, "blocked")
  /\ UNCHANGED <<args, snap, chan, effect, announced, resolved, trust,
                 verdict, task, adminVars>>

\* dispatch, Proceed: execute parses the arguments and calls the provider
Execute(c) ==
  /\ pc[c] = "act"
  /\ \/ /\ effect' = [effect EXCEPT ![c] = "executed"]
        /\ Goto(c, "provider") /\ UNCHANGED reply
     \/ Answer(c, "error") /\ UNCHANGED effect
  /\ UNCHANGED <<args, snap, chan, queueVars, adminVars>>

\* dispatch, ConvertToDraft: send_draft is held, send_message becomes a draft
ConvertToDraft(c) ==
  /\ pc[c] = "draft"
  /\ \/ /\ args[c].tool = "send_draft"
        /\ Answer(c, "send_held") /\ UNCHANGED effect
     \/ /\ args[c].tool # "send_draft"
        /\ \/ /\ effect' = [effect EXCEPT ![c] = "drafted"]
              /\ Goto(c, "provider") /\ UNCHANGED reply
           \/ Answer(c, "error") /\ UNCHANGED effect
  /\ UNCHANGED <<args, snap, chan, queueVars, adminVars>>

\* Mutant: a downgraded send is reported like a send.
MutantRespond(c) ==
  /\ pc[c] = "provider"
  /\ Answer(c, "error") \/ Answer(c, "ok")
  /\ UNCHANGED <<args, snap, chan, effect, queueVars, adminVars>>

\* the provider's answer, or its error, becomes the reply
Respond(c) ==
  /\ pc[c] = "provider"
  /\ \/ Answer(c, "error")
     \/ Answer(c, IF effect[c] = "drafted" THEN "draft_created" ELSE "ok")
  /\ UNCHANGED <<args, snap, chan, effect, queueVars, adminVars>>

\* The HTTP client closes its connection: the server drops the handler's
\* future at the await where it stands.  Nothing runs on its behalf any more,
\* the timer of await_outcome included.
Disconnect(c) ==
  /\ pc[c] \in {"resolve", "perms", "ask", "await", "expired", "provider"}
  /\ Goto(c, "gone")
  /\ chan' = [chan EXCEPT ![c] = IF @ = "empty" THEN "closed" ELSE @]
  /\ UNCHANGED <<args, snap, effect, reply, queueVars, adminVars>>

-----------------------------------------------------------------------------
(* approvals.decide on connection d: ApprovalQueue::decide. *)

\* take the entry under the lock; an id that is not pending is NotFound,
\* which changes nothing
Take(d, c, v) ==
  /\ task[d] = Idle
  /\ c \in pending
  /\ pending' = pending \ {c}
  /\ verdict' = [verdict EXCEPT ![c] = v]
  /\ task' = [task EXCEPT ![d] = [step |-> "send", id |-> c, decision |-> v]]
  /\ UNCHANGED <<args, callVars, announced, resolved, trust, adminVars>>

\* tx.send(outcome), lost when the receiver has been dropped
Send(d) ==
  /\ task[d].step = "send"
  /\ chan' = [chan EXCEPT ![task[d].id] =
                 IF @ = "empty" THEN Outcome(task[d].decision) ELSE @]
  /\ task' = [task EXCEPT ![d].step = "publish"]
  /\ UNCHANGED <<args, pc, snap, effect, reply, pending, announced, resolved,
                 trust, verdict, adminVars>>

\* broadcast Resolved and answer Ok
Publish(d) ==
  /\ task[d].step = "publish"
  /\ resolved' = resolved \cup {task[d].id}
  /\ task' = [task EXCEPT ![d] = Idle]
  /\ UNCHANGED <<args, callVars, pending, announced, trust, verdict, adminVars>>

-----------------------------------------------------------------------------
(* The other IPC requests, and the daemon's restart. *)

\* permissions.set: the foreign key refuses an account without a row
SetPolicy(a, k, p) ==
  /\ a \in row
  /\ policy' = [policy EXCEPT ![a][k] = p]
  /\ UNCHANGED <<args, callVars, queueVars, paused, row, removing, providers>>

\* mcp.pause
SetPaused(b) ==
  /\ paused' = b
  /\ UNCHANGED <<args, callVars, queueVars, policy, row, removing, providers>>

\* accounts.remove, first part: delete the row, and its permissions with it
DeleteRow(a) ==
  /\ a \in row
  /\ row' = row \ {a}
  /\ removing' = removing \cup {a}
  /\ UNCHANGED <<args, callVars, queueVars, paused, policy, providers>>

\* Mutant: accounts.remove forgets the provider registry.
MutantDeregister(a) ==
  /\ a \in removing
  /\ removing' = removing \ {a}
  /\ UNCHANGED <<args, callVars, queueVars, paused, policy, row, providers>>

\* accounts.remove, last part: forget the provider
Deregister(a) ==
  /\ a \in removing
  /\ removing' = removing \ {a}
  /\ providers' = providers \ {a}
  /\ UNCHANGED <<args, callVars, queueVars, paused, policy, row>>

\* The daemon dies and is started again: main() builds an empty queue, no
\* session trust, mcp_paused = false, and hydrates the stored accounts.
Restart ==
  /\ pc' = [c \in Calls |-> IF pc[c] = "new" THEN "new" ELSE "past"]
  /\ chan' = [c \in Calls |-> IF chan[c] = "empty" THEN "closed" ELSE chan[c]]
  /\ pending' = {}
  /\ trust' = {}
  /\ task' = [d \in Deciders |-> Idle]
  /\ paused' = FALSE
  /\ removing' = {}
  /\ providers' = row
  /\ UNCHANGED <<args, snap, effect, reply, announced, resolved, verdict,
                 policy, row>>

\* the steps a handler takes by itself
Step(c) ==
  \/ Dispatch(c) \/ GetProvider(c) \/ ReadPerms(c) \/ Enforce(c)
  \/ Enqueue(c) \/ Announce(c) \/ Receive(c) \/ Expire(c) \/ CleanUp(c)
  \/ Execute(c) \/ ConvertToDraft(c)

Next ==
  \/ \E c \in Calls : \/ Refuse(c) \/ ListAll(c) \/ Step(c)
                      \/ Respond(c) \/ Disconnect(c)
  \/ \E d \in Deciders : \/ \E c \in Calls, v \in Decision : Take(d, c, v)
                         \/ Send(d) \/ Publish(d)
  \/ \E a \in Accounts : \/ DeleteRow(a) \/ Deregister(a)
                         \/ \E t \in Tools, p \in Policies :
                              SetPolicy(a, CategoryOf[t], p)
  \/ \E b \in BOOLEAN : SetPaused(b)
  \/ Restart

Spec == Init /\ [][Next]_vars

(***************************************************************************)
(* tokio runs every task that is ready and every timer fires, so a handler *)
(* that can step does, and a decide request runs to its end.  Nothing      *)
(* makes users decide, clients connect or mail providers answer.           *)
(***************************************************************************)
Fairness ==
  /\ \A c \in Calls : WF_vars(pc[c] # "new" /\ Step(c))
  /\ \A d \in Deciders : WF_vars(Send(d) \/ Publish(d))
  /\ \A a \in Accounts : WF_vars(Deregister(a))

FairSpec == Spec /\ Fairness

-----------------------------------------------------------------------------
(* Properties. *)

\* A call of the same account and category that was asked about under Session
\* and approved by the user.
Earned(c, b) ==
  /\ verdict[b] = "approve"
  /\ snap[b] = "session"
  /\ args[b].account = args[c].account
  /\ CatOf(b) = CatOf(c)

(***************************************************************************)
(* dispatch reaches the provider for a call only with consent.  A call     *)
(* that went through the approval queue needs the user's approval of that  *)
(* very call, received before it timed out; one that did not needs policy  *)
(* Allow, or Session with trust some approved call of the same account and *)
(* category earned.  A send is turned into a draft only under Draftify.    *)
(***************************************************************************)
EffectNeedsConsent ==
  \A c \in Calls :
    /\ effect[c] = "executed" /\ chan[c] # "none" =>
         chan[c] = "approved" /\ verdict[c] = "approve"
    /\ effect[c] = "executed" /\ chan[c] = "none" =>
         snap[c] = "allow" \/ (snap[c] = "session" /\ \E b \in Calls : Earned(c, b))
    /\ effect[c] = "drafted" =>
         snap[c] = "draftify" /\ args[c].tool = "send_message" /\ chan[c] = "none"

(***************************************************************************)
(* The MCP host is never misled: "ok" means the provider was asked to do   *)
(* what the tool says, "draft_created" that it was asked for a draft, and  *)
(* a call answered paused, not found, blocked or held left no trace.       *)
(***************************************************************************)
ReplyTruthful ==
  \A c \in Calls :
    /\ reply[c] = "ok" => effect[c] = "executed" \/ args[c].tool = "list_accounts"
    /\ reply[c] = "draft_created" => effect[c] = "drafted"
    /\ reply[c] \in {"paused", "not_found", "blocked", "send_held"} => effect[c] = "none"

(***************************************************************************)
(* SessionTrust holds a pair only if, in this lifetime of the daemon, the  *)
(* user approved a call of that account and category under Session.        *)
(***************************************************************************)
TrustEarned ==
  \A t \in trust : \E b \in Calls :
    /\ verdict[b] = "approve" /\ snap[b] = "session" /\ pc[b] # "past"
    /\ t = <<args[b].account, CatOf(b)>>

(***************************************************************************)
(* A call waiting on an empty channel has a sender: its entry is in the    *)
(* queue, or a decide request holds it and has yet to send.  So the        *)
(* "approval channel dropped" error of await_outcome is never raised.      *)
(***************************************************************************)
SenderAlive ==
  \A c \in Calls :
    pc[c] \in {"announce", "await"} /\ chan[c] = "empty" =>
      \/ c \in pending
      \/ \E d \in Deciders : task[d].step = "send" /\ task[d].id = c

(***************************************************************************)
(* A call that was answered has no entry left in the queue: approvals.list *)
(* never shows the user a question nobody is waiting on any more, except   *)
(* one whose client disconnected.                                          *)
(***************************************************************************)
AnsweredLeavesNoEntry ==
  \A c \in pending : pc[c] \in {"announce", "await", "expired", "gone"}

(***************************************************************************)
(* When two connections decide the same approval, the first to take the    *)
(* entry wins: a decision the queue accepted is never replaced, and the    *)
(* outcome a call received is never overwritten.                           *)
(***************************************************************************)
DecisionFinal ==
  [][\A c \in Calls :
       /\ verdict[c] # "none" => verdict'[c] = verdict[c]
       /\ chan[c] \notin {"none", "empty"} => chan'[c] = chan[c]]_vars

(* The gate implements Consent. *)
Asking(c) ==
  CASE chan[c] = "none" -> "unasked"
    [] chan[c] \in {"empty", "approved", "rejected"} -> "waiting"
    [] OTHER -> "lapsed"

Abstract == INSTANCE Consent WITH asking <- [c \in Calls |-> Asking(c)]

(***************************************************************************)
(* Every step of the queue, the handlers and the decide requests is a step *)
(* of Consent or leaves its state alone.                                   *)
(***************************************************************************)
ImplementsConsent == Abstract!Spec

(***************************************************************************)
(* A call dispatch admitted is answered, reaches its mail provider, or     *)
(* ends with its client or the daemon; no interleaving of decide requests, *)
(* timers and policy changes leaves it waiting for ever, although users    *)
(* need not decide.                                                        *)
(***************************************************************************)
EveryCallSettles ==
  \A c \in Calls :
    pc[c] = "resolve" ~> pc[c] \in {"provider", "done", "gone", "past"}

(***************************************************************************)
(* Once accounts.remove has deleted the row, the provider becomes          *)
(* unreachable for good, also when the daemon dies between the two.        *)
(***************************************************************************)
RemovalCompletes ==
  \A a \in Accounts : a \notin row ~> [](a \notin providers)

-----------------------------------------------------------------------------
(* What documents and comments say and the code does not do. *)

\* docs/threat-model.md: "Approvals time out after 5 minutes (default), at
\* which point the action is rejected automatically."
ApprovalsExpire == \A c \in Calls : c \in pending ~> c \notin pending
=============================================================================
