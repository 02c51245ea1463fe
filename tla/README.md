# A verification project for mail-mcp

mail-mcp is a daemon that gives AI hosts access to a user's mail over MCP. A
tool call of the host passes a permission gate; depending on the account's
policy it is executed, blocked, turned into a draft, or held until the user
approves it in a tray application or with the admin CLI, which talk to the
daemon over a local IPC socket.

This directory models that system in TLA+, checks the models with TLC and
proves theorems about them with TLAPS. `PROJECT.json` holds the machine-readable
side: the source lines every definition models, the runs, the mutants, the
findings, the hazards and the theorems.

Paths below are relative to `src/`; `core/` is `crates/mail-mcp-core/src/` and
`daemon/` is `crates/mail-mcp-daemon/src/`.

## The system: inventory

| Component | State | Operations | Meets |
|---|---|---|---|
| MCP HTTP server, `daemon/mcp/server.rs` | bearer token | `handle_post`: initialize, ping, tools/list, tools/call | calls dispatch |
| Dispatch, `daemon/mcp/dispatch.rs` | `ProviderRegistry`, `mcp_paused` | `dispatch`, `execute`, `convert_send_to_draft` | gate, providers |
| Permission gate, `core/permissions/` | `permissions` table, `SessionTrust` | `enforce`, `for_account`, `set` | approval queue |
| Approval queue, `core/permissions/approvals.rs` | pending entries with oneshot senders, event channel | `enqueue`, `decide`, `list`, `await_outcome` (timer) | handlers, IPC, forwarder |
| IPC server, `core/ipc/server.rs` | per connection: filter, fan-out task, writer mutex | `serve_conn`, `subscribe` | handlers, clients |
| IPC handlers, `daemon/ipc_handler.rs` | pending OAuth challenges | accounts.*, permissions.*, approvals.*, mcp.pause, settings.* | all of the above |
| Event forwarder, `daemon/main.rs` | receiver of approval events | approval event to notification | queue, IPC server |
| Accounts, storage, secrets, `core/{accounts,storage,secrets}.rs` | SQLite rows, keychain entries | create, list, delete, app state, set, get, purge | handlers |
| OAuth, `core/oauth/` | PKCE challenge, loopback listener | begin, await callback, exchange, refresh | handlers, token refresh |
| Token refresh, `core/providers/gmail/client.rs` | tokens in memory | `ensure_fresh`, `send` with one retry, rotation callback | OAuth, secrets |
| Providers, `core/providers/{gmail,m365}/` | none (remote mailbox) | search, labels, triage, trash, compose | token refresh |
| Message cache, `core/cache.rs` | LRU with TTL | put, get, invalidate | no caller yet |
| Daemon lifecycle, `daemon/{main,lifecycle}.rs` | pid lock, endpoint.json, socket | start, restart, shutdown | everything |
| stdio shim, `crates/mail-mcp-stdio` | none | one HTTP request per line | MCP server |
| Admin CLI, `crates/mail-mcp-admin` | none | one IPC request per run | IPC server |
| Trays (macOS, Linux, Windows) | request table, subscription, view models | call, subscribe, reconnect, decide | IPC server |

What is hard in it:

* *Concurrency.* Every HTTP request and every IPC connection is a task of a
  multi-threaded runtime. A gate decision is spread over many awaits: the pause
  flag, the provider, the policies, the session trust, the queue, the user.
* *Timeouts against answers.* An approval's timer races the decision; the entry
  is removed, the outcome sent and the event broadcast in three steps.
* *Dropped futures.* When an HTTP client disconnects, its handler ends at the
  await where it stands and its timer with it.
* *Bounded broadcast.* Notifications travel through channels of 64; a receiver
  that falls behind is told once, and the loops treat that as the end.
* *One socket, two writers.* Responses and notifications share a connection.
* *Restarts.* Queue, trust and pause flag live in memory, policies and accounts
  in SQLite, tokens in the keychain; pid file, endpoint.json and socket outlive
  the process they belong to.
* *Tokens that rotate.* Calls of one account refresh at once, and each answer may
  replace the refresh token in memory, in the keychain and at the provider.
* *Several requests per operation.* Batches, label and send are sequences of HTTP
  requests of which any may fail, before or after it took effect, while other
  calls and other mail clients work on the same mailbox.
* *A local port and a local pipe.* Anybody may connect to the loopback listener;
  tray tasks share one connection and survive, or do not, its end.

What makes the parts correct: no mailbox is touched without the consent the
policy demands; trust goes back to an approval; a decision counts once; every
call ends; replies say what was done; frames and notifications arrive whole, in
order, once and without gaps; a slow client harms only itself; a request is
carried out at most once and the next one still has a token; an account is
complete or absent; only the browser's own callback completes a sign-in; one
daemon serves and can be found; a batch says what it changed; a tray call returns,
with its own answer. The hazards in `PROJECT.json` list where each can go wrong,
line by line.

## The modules

| Module | Role |
|---|---|
| `Consent` | abstract specification of the gate: ask, decide, lapse, act |
| `ApprovalGate` | the gate: handlers, queue, timers, deciders, administration, restart |
| `ApprovalGate_proofs` | TLAPS proofs about `ApprovalGate` |
| `IpcNotifications` | broadcast channels, forwarder, connections, fan-out tasks |
| `IpcNotifications_proofs` | TLAPS proofs about `IpcNotifications` |
| `TokenRefresh` | `AuthClient`: refresh, send, retry, rotation callback, keychain, restart |
| `TokenRefresh_proofs` | TLAPS proofs about `TokenRefresh` |
| `AccountLifecycle` | add, complete, cancel, remove over four stores; crash and hydrate |
| `OAuthFlow` | the loopback listener and the token exchange, with any local peers |
| `SignIn` | `AccountLifecycle` composed with `OAuthFlow`: one sign-in from end to end |
| `SignIn_proofs` | TLAPS proofs about `AccountLifecycle`, `OAuthFlow` and their composition |
| `DaemonLifecycle` | daemon processes over pid lock, endpoint.json and socket; launchers, shim, CLI |
| `DaemonLifecycle_proofs` | TLAPS proofs about `DaemonLifecycle` |
| `Mailbox` | abstract specification of a mailbox: what `MailProvider` promises |
| `GmailProvider` | Gmail tools, request by request, implementing `Mailbox` |
| `GraphProvider` | Microsoft 365 tools that change the mailbox, against `Mailbox` |
| `Providers` | `GmailProvider` and `GraphProvider` side by side |
| `Providers_proofs` | TLAPS proofs about both, and that they implement `Mailbox` |
| `GraphSearch` | Microsoft 365 search, paging, threads and listings |
| `MessageCache` | the LRU cache with time to live |
| `MessageParse` | Gmail's walk over MIME parts and its address headers |
| `Reads` | `MessageCache`, `GraphSearch` and `MessageParse` side by side |
| `Reads_proofs` | TLAPS proofs about the cache, the paging and the walk |
| `TrayClient` | macOS `IpcClient`: calls, parking, timeouts, reconnects |
| `TrayApprovals` | from the daemon's queue through one connection to the tray's modal and count |
| `PipeClient` | Windows `IpcClient`: one StreamWriter, many threads, one pipe |
| `Trays` | `TrayClient`, `PipeClient` and `TrayApprovals` side by side |
| `Trays_proofs` | TLAPS proofs about both clients and the approvals in the tray |
| `MCApprovalGate`, `MCIpcNotifications`, `MCTokenRefresh`, `MCDaemonLifecycle`, `MCProviders`, `MCReads` | their component, with symmetry sets for TLC |

### ApprovalGate

A call is one HTTP request. `pc[c]` is the place of its handler: `new` (arrived),
`resolve` (passed the pause check), `perms` (provider found), `enforce` (policy
read), `ask` / `announce` / `await` / `expired` (in `ask_confirm`), `act` or
`draft` (about to call the provider), `provider` (waiting for it), `done`, `gone`
(client disconnected), `past` (handled by an earlier life of the daemon). One
action is a stretch of the code that touches shared state once:

* `Refuse`, `ListAll`, `Dispatch`: `handle_post` and the head of `dispatch`;
* `GetProvider`, `ReadPerms`: the registry and `Permissions::for_account`;
* `Enforce`: the match on the policy, with `SessionTrust::is_trusted`;
* `Enqueue`, `Announce`: `ApprovalQueue::enqueue`, whose event is sent after the
  lock is released;
* `Receive`, `Expire`, `CleanUp`: `await_outcome` and what `enforce` does with it;
* `Execute`, `ConvertToDraft`, `Respond`: the provider call and its answer; bad
  arguments and provider errors are alternatives of these actions;
* `Disconnect`: the server drops the handler's future (external: axum);
* `Take`, `Send`, `Publish`: the three parts of `ApprovalQueue::decide`, run by an
  IPC connection; `decide` on an id that is not pending changes nothing;
* `SetPolicy`, `SetPaused`, `DeleteRow`, `Deregister`: the IPC requests that change
  what the gate reads. `accounts.remove` is two actions, since calls run between
  the deletion of the row (and, by cascade, its permissions) and of the provider;
* `Restart`: the process dies anywhere and `main` starts again.

Abstracted: mail content and arguments, identifiers (a call names its approval:
a `Ulid` per `enqueue`, at most one `enqueue` per call), wording of errors. New
accounts do not appear while calls run; that is the subject of
`AccountLifecycle`. `Accounts` have their refresh token stored, so a restart
hydrates them all. `initialize`, `ping`, `tools/list`, a missing token and unknown
tools are `Refuse`: they answer and change nothing.

`Consent` keeps of all that three functions, `asking`, `verdict` and `effect`; the
refinement mapping reads `asking` off the oneshot channel (`Asking`).

### IpcNotifications

`events` and `sent` are what was ever broadcast on the two channels; a receiver
is a cursor, and `Lagged` says when it has fallen more than `Cap` behind.
`step[c]` is the place of `serve_conn`: reading, replacing the filter, arming the
fan-out task, handling, notifying, and replying in two writes under the mutex.
`fan[<<c, n>>]` is the n-th fan-out task of connection `c` (the code spawns one; the
index lets a model with a second one be stated). `wire[c]` holds the chunks written:
a notification's place in `sent`, 0 for a response, -1 for the newline. A socket
holds `Buf` unread chunks before writes block; a client reads or closes as it
likes.

Handlers other than `mcp.pause` are `Handle`: they may broadcast one notification.
`mcp.pause` is two actions, store and notify. `asked[c]` is a history variable for
the properties: every filter the client asked for.

### TokenRefresh

One account's `AuthClient`, shared by its tool calls. `pc[c]` follows `send`:
`check`, `take`, `post`, `store` and `persist` are `ensure_fresh`, whose three
critical sections are separate actions because the tokens mutex is never held
across an await; then `bearer`, `request`, and `force` after a 401. The n-th answer
of the token endpoint carries access token n and, when it rotates, refresh token
n. The provider may expire or invalidate access tokens, leave out, repeat or rotate
refresh tokens, revoke the replaced one, and lose an answer after acting on it.
`Drop` is a disconnected HTTP client; `Restart` starts again from the keychain. Three
history variables mark what `ensure_fresh` does not guard against: `missed` (two
refreshes overlapped, or a keychain write failed), `lost` (a rotated token never
reached the client or the keychain) and `stale` (an answer that repeats the refresh
token it was asked with was stored over a newer one).

### AccountLifecycle

`req[k]` is the request a connection serves; `complete_oauth` is `join`, `create`,
`defaults`, `secret`, `register`, `get`, and `remove` is `DeleteRow`, `purge`, `drop`.
The four stores (`row` and `perms` in SQLite, `secret` in the keychain, `providers`
in memory) change one at a time, so refreshes, other connections and crashes come
in between. `Hydrate` and `HydrateFails` are the start of the daemon. `overlapped`
is a history variable: accounts removed while they were being added.

### OAuthFlow

`await_callback` loops over `backlog`; `handle_one` reads one connection. A request is
the set of things `handle_one` looks for: this flow's state, a code, an error. Peers
connect, send any such request, close, reset or say nothing.

### SignIn

The task that `add_oauth` spawns is the one `OAuthFlow` describes. `SignIn` extends
`AccountLifecycle`, instantiates `OAuthFlow`, lets the task and its peers step while
the flow runs (`While`), and hands the task's outcome to the flow (`TaskEnds`), so
that an account can be traced back to the callback it was made from.

### DaemonLifecycle

`pc[p]` follows `main` from opening `daemon.pid` to running, and the two halves of
`PidLock`'s drop; `ipc[p]` follows the task that binds the socket. The pid file is an
inode with a lock and a name, since the code locks the first and removes the
second. `Os` chooses how sockets and launchers behave, `Ends` which ways to end are
possible: killed, signalled, failing to start, failing to accept. The launcher, the
stdio shim and the admin CLI are the users of what the daemon leaves on disk.

A tool call is two steps: `ShimPost`, where `check_auth` and `dispatch` admit it (the
only look at `mcp_paused`), and `CallEnds`, up to minutes later. `raced` is a history
variable: a process took the lock of the pid file between the unlock and the
`remove_file` of another's `PidLock`, or had the file open and took it after. `Signal`
takes the abort of the IPC task as immediate and leaves open whether the HTTP server
still answers until the process is gone.

### Mailbox, GmailProvider, GraphProvider, GraphSearch

`Mailbox` says that each step changes one property of one message, or one draft,
or sends once. `GmailProvider` maps its label sets to that view through `View`
(`decode`'s flags, labels and `primary_folder`); every request of Gmail is one
action and may fail before or after it took effect. `GraphProvider` does the same
with categories, of which `label` replaces the whole list by a GET and a PATCH, and
sends by creating a draft first. `GraphSearch` fixes a mailbox and checks what the
reads return: `Object` and `Name` keep Graph's ids and names apart. A page of a search is
the set of messages that stand for its conversations; within a page their order is
left out.

### MessageCache

`entry` is the cache, `used` the order of use in which the `lru` crate (external)
evicts; `latest` and `answer` are history variables.

### MessageParse

A message is the sequence of its parts in the order `walk_parts` visits them, a
header a sequence of tokens. `Write` puts one address after the other into a header,
bare or with a name of some shape, and `ParseHeader` takes it apart again: `Pieces` is
`split(',')`, `ParseAddress` finds the last `<` and trims the quotes of the name.

### TrayClient, TrayApprovals, PipeClient

`TrayClient` is the macOS actor: an action is a piece of code between two
suspensions. A request's id and the call it belongs to (`serial`) are kept apart, so
that a mismatch can be seen. `TrayApprovals` composes the approval queue, the
connection's one filter, the fan-out and the tray's subscribers. The view models live
on the main actor, which `runModal` keeps while a modal is open (`MainFree`); the
client is an actor of its own and goes on. `refresh` asks for the status and then for
the list, and runs in several tasks (`Refreshers`): `pollLoop`, `notificationLoop` on
an account or pause event, and the menu. `Restart` ends the connection under whatever
is in flight: a call that waits fails or, if it parks only after another call has
connected again, is stuck for good, and a stream that registers only then stays on a
connection nobody subscribed on. `covered` (asked for while the coordinator had its
stream) and `dropped` (held back by the filter) are history variables. `Trays`
instantiates it twice: `Modals` is the coordinator beside `AccountsViewModel`, whose
filter leaves approvals out, `Menu` the coordinator beside `StatusViewModel` with the
polls of `pollLoop` and `notificationLoop`; the menu's own refreshes, which are the
same action, would multiply the states and add no kind of step. `PipeClient` is the Windows client, where tasks run
on several threads: `Overlap` is what two threads do to one `StreamWriter`.

## The runs

Bounds are in the `.cfg` files. Two calls are what it takes for one call's trust, queue entry or removal
to meet another's; two deciders for opposite decisions on one entry; two categories
to tell trust apart; one account is enough because every shared structure is keyed
by it or independent of it. The other modules follow the same rule: two callers,
connections, messages or drafts for one to get in the way of the other; three
processes for `OneDaemon`, because a race for the lock needs one that leaves, one
that waits and one that arrives, and two ports, so that two daemons can listen at
once if the lock lets them; two local peers so that a spurious one comes before or
after the callback; four keys in a cache for two; two connections and two exits of
the daemon, so that an answer can outlive its connection. Three answers of the token
endpoint allow a refresh, a second one that overtakes it, and one after a restart.

| Run | Shows |
|---|---|
| `gate_safety` | types, `EffectNeedsConsent`, `TrustEarned`, `AnsweredLeavesNoEntry` with two concurrent calls of two categories under Allow, Session and the defaults (Confirm, Draftify) |
| `gate_decisions` | all five policies against list_accounts, send_message and send_draft, two connections deciding while the timer fires: `ReplyTruthful`, the refinement `ImplementsConsent`, and under fairness `EveryCallSettles`, `RemovalCompletes` |
| `gate_leak` | that `ApprovalsExpire` does not hold (see below) |
| `ipc_frames` | one connection, two requests of every kind, three approval events, channel of two: `FramesWhole`, `InOrderOnce`, `ForwardWithoutGaps` |
| `ipc_liveness` | a reading client beside one that never reads: `DeliveredUnlessLagged`, `RequestsAnswered` |
| `signin` | one sign-in, two clients that complete, cancel and remove it, two local peers, crashes, refreshes: `ReportedIsUsable`, `RemovedUnreachable`, `ServedSurvivesRestart`, `CallbackGenuine`, and under fairness `RequestsEnd` |
| `refresh` | two calls refresh, retry and rotate at once, with a token endpoint that leaves out, repeats or rotates the refresh token, and restarts: `AtMostOnce`, `BearerUsable`, `MemoryTokenGood`, `KeychainCurrent` |
| `daemon` | three daemons on Linux with every way to end, ids and ports reused: `OneDaemon`, `ServingIsFound`, `PausedUntilResumed` |
| `providers` | Gmail (beside another mail client) and Microsoft 365, two tool calls of every kind at once: `BatchOutcome`, `SendOutcome`, `ListComplete`, the refinement `ImplementsMailbox` |
| `reads` | the cache: `KeptWhileRecent`, `NeverStale`; every mailbox of four messages: `PagingCovers`; every message of up to three parts: `PartsSound`; every header of up to five addresses: `AddressesWhole` |
| `trays` | both clients over two connections and a daemon that exits, the modals, and the menu: `AnswerIsMine`, `PendingIsUnderWay`, and under fairness `EveryCallReturns`, `CountConverges` |
| `trays_filter` | that `EachIsUnderWay` does not hold (see below) |

`Providers`, `Reads` and `Trays` check several modules that do not interact. A
variable that never changes (`provider`, `part`) says which of them a behaviour is
about; the next-state relation is the disjunction of theirs, each guarded by it, and
the variables of the others keep their initial values. A property of such a run is
the conjunction of the modules' properties of that name.

Some properties hold only with an exemption that the code makes necessary. Each is
stated in the formula, as exactly as the state allows, and the comment at the property
says what it is:

* `DeliveredUnlessLagged` leaves out a task that has lagged.
* `KeychainCurrent` holds unless two refreshes overlapped or a write failed (`missed`),
  `MemoryTokenGood` unless a rotated token was lost or a repeated one put back (`lost`,
  `stale`).
* `ReportedIsUsable` is about accounts that were reported; `RemovedUnreachable` leaves out
  an account that was removed while it was being added.
* `RequestsEnd` leaves out a request that waits for `handle_one`, for ever, while that
  reads from a connection that stays open and silent (`HeldBySilence`).
* `OneDaemon`, `ServingIsFound` and `PausedUntilResumed` hold until a process takes the
  lock inside another's drop (`raced`). The last one is about admission at a paused daemon
  that is at work: a call it admitted earlier still executes, and a daemon that takes its
  place is not paused.
* Graph's part of `ImplementsMailbox` holds while no label call is about to write back
  categories that have changed; `SendOutcome` allows the draft a failed send leaves.
* `AddressesWhole` is about names without a comma; `PartsSound` says that what is listed as
  an attachment is one, not that every attachment is listed; `PagingCovers` allows a
  conversation on two pages.
* `EveryCallReturns` leaves out, on macOS, a call that is parked although its connection
  is no longer the one in use (`Stranded`); on Windows it holds while the daemon runs and
  no two threads write at the same moment.
* `PendingIsUnderWay` leaves out a request that the filter held back after a restart, or
  after a subscriber that does not want approvals, replaced it (`Displaced`, `dropped`).
* `CountConverges` leaves out a modal that stays open for ever and a poll that a
  reconnect has parked for ever.

What happens otherwise is in the next section.

A module of a component with state of its own states its type invariant as `TypeOK`. `gate_safety` checks the core's; the
ones of `ApprovalGate`, `IpcNotifications`, `DaemonLifecycle`, `TokenRefresh`,
`AccountLifecycle`, `OAuthFlow` and `MessageCache` are proved; the others held when TLC
was run with them on the same instances and are not among the properties kept, nor are `SenderAlive`, `DecisionFinal`, `Bounded` and
`EndpointWhole`, which are proved.

Deadlock checking is off where the system may really come to rest: a daemon whose
clients ask nothing more, daemons that have all ended, a message that is decoded,
providers and trays whose calls are all made. In the gate a user may always change a
setting, in a sign-in the daemon may always crash and start again, and in the token
client tokens may always expire, so it is on there.

Each property of a passing run has a mutant, an operator named `Mutant...` placed
before the definition it would replace: the same action with one plausible mistake
(a guard dropped, a lock not taken, an entry not removed). With it in place TLC
finds the property violated.

### Where the code and its documents disagree

`gate_leak` and `trays_filter` check sentences of the documents and comments that the
code does not keep.

`ApprovalsExpire`: "Approvals time out after 5 minutes (default), at which point the
action is rejected automatically" (`docs/threat-model.md:99`). The timer lives in the
HTTP handler's future; when the client leaves, the entry stays pending for good.
Deciding it later has no effect on any mailbox, which `EffectNeedsConsent` covers.

`EachIsUnderWay`: "Subscribes to approval.requested notifications and presents a modal
NSAlert for each" (`tray-app/MailMCP/Approvals/ApprovalCoordinator.swift:4`). All view
models share one connection, and the daemon keeps one filter per connection. On every
launch `MenuBarController` starts `AccountsViewModel`, which subscribes to account events
only; when its request is served after the coordinator's, approvals asked for from then
on are not forwarded and no modal is shown. `PendingIsUnderWay` says what is left: that is
the one way to lose a request.

The models also contain the behaviours below. They were met while modelling, no run of
their own is kept for them, and the exemptions above leave them out where a property would meet them.

The gate and the notifications:

* "decision applied to that single call"
  (`docs/superpowers/specs/2026-05-01-mail-mcp-design.md:278`): a timer that fires
  between the removal of the entry and the send blocks the call although `decide`
  answers Ok and broadcasts approval.
* "refuses tool calls until resumed" (`crates/mail-mcp-admin/src/main.rs:30`):
  `list_accounts` is answered before `dispatch` reads the flag, a call that was admitted
  before the pause executes after it, and the flag does not survive a restart.
* "demote to `block` to disable entirely" (`docs/threat-model.md:95`): between the
  deletion of an account's row and of its provider, a call reads the default policies.
* "events fired AFTER subscribe are reliably delivered" (`core/ipc/server.rs:127`): one
  `Lagged` ends the fan-out task, or the forwarder, for good.
* The tray "stays current via the daemon's notification channel"
  (`docs/superpowers/specs/2026-05-01-v0.1b-macos-tray-design.md:36`): two connections'
  `mcp.pause` requests may notify in the opposite order of their stores.

Token refresh, accounts, sign-in:

* The rotation callback runs after the tokens lock was released, not under it as
  `client.rs:202` says, so of two rotations the older may be the last one written to
  the keychain; an answer that repeats the refresh token, stored after one that
  rotated it, puts the revoked token back in memory.
* Once `complete_oauth` has taken the challenge, `cancel_oauth` answers Ok and stops
  nothing. A half-added account is listed as Ok. A late rotation writes a removed
  account's token back to the keychain. One unreadable keychain entry keeps the
  daemon from starting.
* "Loops accepting connections until one carries a matching `state` value, or the
  overall `timeout` elapses" (`core/oauth/loopback.rs:140`): a silent peer holds the
  sign-in past its deadline; a reset, or an `error` without
  this flow's state, ends it.

Processes and files:

* "prevents two simultaneous instances"
  (`docs/superpowers/specs/2026-05-01-v0.1b-macos-tray-design.md:185`): `PidLock`'s drop
  unlocks before it removes the path, so two daemons may hold locks on two inodes.
* endpoint.json and the socket file outlive their daemon, and the launchers on Linux
  and macOS take them for a sign of life (`tray-app-linux/src/daemon_launcher.c:75`).
* The stdio shim reads endpoint.json once: after a restart of the daemon it posts to the
  old port with the old token, which no later daemon accepts.
* After an error from `accept` a daemon serves MCP on, deaf to the trays and the CLI.

Providers and parsing:

* A Gmail message moved to TRASH that carries SENT is shown in SENT.
* On Microsoft 365 two label calls lose one another's category; a conversation is
  shown twice across pages; a long thread is cut; the label of a search is dropped;
  ids of folders and labels do not agree between listings and messages.
* An attached text file disappears when it is the first of its type; a comma in a
  quoted name cuts an address in two.

Trays:

* On macOS a call that parks after a reconnect is never resumed, and the timeout does
  not end a parked call; when it is the poll, the menu's count stays as it is. A restart,
  or the gap between acknowledgement and registration, keeps approvals from the user.
  While a modal is open nothing on the main actor runs, so the count misses what times
  out until the modal is closed and the next poll has come.
* On Windows the end of the pipe fails no call, calls at the same time throw, and one
  frame that is neither response nor notification ends the read loop.

Also seen: `RawBody.attachment_id` has no serde rename, so Gmail's
`attachmentId` is never read and attachments have an empty id
(`core/providers/gmail/parse.rs:98`); the threat model's table of defaults (modify and send
confirmed) is not `default_policy` (allow and draftify); Draftify "emits a
notification" (`docs/threat-model.md:97`), which no code does; the design answers a
draftified `send_draft` with `draft_created`, the code with `send_held`; the macOS
design closes a modal on `approval.resolved`, which `ApprovalCoordinator` does not
subscribe to.

## Fairness

`ApprovalGate`: weak fairness of a handler's own steps once it was admitted, of the
two ends of a decide request and of the second half of `accounts.remove`: tokio
polls every ready task and its timers fire. No fairness of users, clients, mail
providers, policy changes, disconnects or restarts.

`IpcNotifications`: weak fairness of the forwarder and, for the connections in
`Readers`, of `serve_conn`, the fan-out task and the client's reading; strong
fairness of taking the writer mutex, since tokio's mutex serves waiters in order.
Nothing is assumed of other connections, so the run also shows that they cannot
hold a reader up.

`SignIn`: weak fairness of the handlers and of the task: tokio runs what is ready, the
deadline passes, and an exchange over HTTP ends with an answer or an error. Nothing makes
a local peer that connected send, close or die: `handle_one` reads without a timeout,
and `RequestsEnd` says what that comes to. Nobody is made to sign in, cancel, remove or
call.

`Trays`: the runtimes run every task, timers fire, the poll recurs every 30 seconds,
and the daemon answers what it has read unless it exits. What runs on the main actor is
enabled only while no modal keeps it. Nobody is made to decide, and no approval to
expire. The poll is fair only in behaviours about the menu; the
clients' fair actions are disabled in their initial states, so their fairness holds
of itself where they are not the subject.

The other runs check safety only.

## The proofs

`ApprovalGate_proofs` proves for every value of the constants, assuming only that
tools and policies are ones the code knows (`ToolsKnown`, `PoliciesKnown`):

| Theorem | Statement |
|---|---|
| `TypeCorrect` | `Spec => []TypeOK` |
| `Invariance` | `Spec => []IInv`, the inductive invariant |
| `Consented` | `Spec => []EffectNeedsConsent` |
| `TrustIsEarned` | `Spec => []TrustEarned` |
| `NoEntryLeft` | `Spec => []AnsweredLeavesNoEntry` |
| `NoDroppedSender` | `Spec => []SenderAlive` |
| `DecisionIsFinal` | `Spec => DecisionFinal` |
| `Refinement` | `Spec => ImplementsConsent` |
| `RepliesTrue` | `Spec => []ReplyTruthful` |
| `ActsOnce` | `Spec => AnswerIsLast`: a call acts at most once, is answered at most once, and does nothing after its answer |
| `NoStageRepeated` | `Spec => HandlersAdvance`: a handler only moves to later stages |
| `NoneStuck` | `Spec => []NoHandlerStuck`: an admitted handler that has not come to its provider or its end has a step of its own, or waits for a channel that is open or the timer |
| `RemovalHolds` | `Spec => []RemovalUnderWay /\ RemovedForGood`: without a row, an account has a provider only until `accounts.remove` deregisters it, and never again |

`EffectNeedsConsent` is not inductive: that an executing call was approved depends
on what is in its channel, which depends on what a decide request carries, which
depends on what the queue handed out. `IInv` follows that chain:

* `ChannelAfterAsk`: a call that has not been enqueued has no channel;
* `PendingUndecided`: an entry still in the queue is undecided, its channel has
  delivered nothing, and its handler is still waiting or gone;
* `TaskCarriesVerdict`: a decide request about to send carries the verdict recorded
  for its call;
* `VerdictDelivered`: only calls that asked are decided, and an approval in a
  channel is the recorded verdict;
* `ActLicensed`: a handler about to call the provider holds a licence: an approval
  of this call, or, unasked, policy Allow or trust earned under Session; one about to
  draft is a send under Draftify;
* `EffectLate`: no effect before the provider was called.

Trust is the one place where one call's state justifies another's: `TrustEarned`
keeps the witness (an approved call of the same account and category, read under
Session, in this lifetime), and `EarnedStable` shows that no step spoils a witness.
The refinement maps each action to `Ask`, `Decide`, `Lapse`, `Act` or a stutter;
`Restart` is a `Lapse` of all waiting calls at once, or a stutter when none waits.
`ReplyTruthful` needs, besides, that replies come last (`RepliesLast`): a handler that
can still act has not answered. The last four say what the liveness properties
`EveryCallSettles` and `RemovalCompletes` rest on besides fairness: with `NoneStuck` a
handler can go on, and with `NoStageRepeated` it cannot go on for ever.

`IpcNotifications_proofs` proves, assuming that methods and filters are ones the code
knows and that capacities and the request bound are positive (`MethodsKnown`,
`FiltersKnown`, `SizesNatural`):

| Theorem | Statement |
|---|---|
| `TypeCorrect` | `Spec => []TypeOK` |
| `FramesNeverInterleave` | `Spec => []FramesWhole` |
| `NotificationsInOrder` | `Spec => []InOrderOnce` |
| `NoGaps` | `Spec => []ForwardWithoutGaps` |
| `EachRequestAnsweredOnce` | `Spec => []OneResponsePerRequest`: while its client's end is open, a connection has written as many responses as it has read requests, but for the one in hand; after that never more |
| `NoConnectionStuck` | `Spec => []NobodyWaitsInVain`: `serve_conn` can go on, or whoever has the mutex can, or the client has something to read |

Types need two facts besides (`TInv`): `serve_conn` acts on the request it read, and
the forwarder sends an event it received. `FramesWhole` rests on `WInv`: whoever is
between `lock()` and the end of its newline holds the mutex (`MutexHeld`), a
connection has at most one fan-out task and none before it is served
(`TasksSpawned`), and a wire that can still be written to has an even number of
chunks unless the holder owes the newline (`Parity`; a write that fails leaves an odd
wire, but only once the client has closed). `InOrderOnce` rests on `Ahead`: the
receipt in the fan-out task's hand is later than every notification on the wire,
which needs `TasksSpawned` again.

`ForwardWithoutGaps` needs `GapInv`: the filter in force was asked for (`FilterAsked`),
what a task has passed lies within what was sent (`Sound`), and each receipt it has
passed is on the wire, unwanted, or in its hand (`Covers`). `OneResponsePerRequest`
counts the responses on the wire (`Answers`) against the steps at which one is owed
(`Owing`); `NobodyWaitsInVain` follows from `MutexHeld`: a mutex that is taken is held by
a task that is about to write.

`DaemonLifecycle_proofs` has two parts, both for any number of processes, any operating
system, any ways to end and any reuse of process ids. `GInv` shows `TypeCorrect` and
`EndpointNeverPartial` (`EndpointWhole`). Besides the properties it says that a process
that has not opened the pid file has no inode (`Unopened`), that live processes have
different ids (`PidsApart`), that what is about to be renamed is whole (`Renames`) and
that only a process that runs has an IPC server (`IpcServed`). `RInv` shows `LockExcludes`
(`OneDaemon`) and `ServingDaemonFound` (`ServingIsFound`): until the race that `raced`
records, everybody in line for the lock or past it has open the inode that the path
names (`OneFile`), one process at a time is between the lock and the end of its drop
(`Alone`), the lock is held by it (`Locked`), a socket in the way of `bind` has been
removed or is served (`SockKept`), and whoever runs is found (`Found`). That a process is
turned away, killed or stopped anywhere keeps this; only an unlock that somebody else's
lock follows before the `remove_file` does not. `PauseHolds` proves `PausedUntilResumed`
from the same invariant: a paused daemon at work is the one daemon at work, and it
admits nothing. `ProcsFinite` and `PortsSome` are assumed so that there is always an inode
and a port to get.

`TokenRefresh_proofs` proves, for any callers, answers and number of issued tokens
(`AnswersKnown`, `RevokesKnown`, `MaxIssuedNat`):

| Theorem | Statement |
|---|---|
| `TypeCorrect` | `Spec => []TypeOK` |
| `SentAtMostOnce` | `Spec => []AtMostOnce` |
| `BearerAlwaysUsable` | `Spec => []BearerUsable` |
| `KeychainStaysCurrent` | `Spec => []KeychainCurrent` |
| `MemoryTokenStaysGood` | `Spec => []MemoryTokenGood` |

That a retry differs from what was rejected is not inductive: another call may store
its answer between the rejection and the retry. It holds because a token that is about
to be stored has been seen by nobody (`Unseen`), which rests on tokens being issued in
order (`Issued`). `Current` says that without an overlap or a failed write at most one
call refreshes and the keychain lags behind memory only between its store and its
callback. `MemoryTokenStaysGood` needs the same of refresh tokens (`RefreshUnseen`): a new
one that waits to be stored is known to nobody else and accepted. An endpoint that
repeats the token is included; the exemption `stale` is what it costs.

`SignIn_proofs` proves first that the composition with the listener and the exchange
implements `AccountLifecycle` (`SignInImplementsAccounts`: `SignInSpec => Spec`), then
`AccountTypes`, `ReportedStaysUsable` (`ReportedIsUsable`), `RemovedStaysUnreachable`
(`RemovedUnreachable`) and `ServedIsStored` (`ServedSurvivesRestart`) of `Spec`, for any
flows and connections, and `CallbackAlwaysGenuine` (`CallbackGenuine`) of the
composition, for any local peers. `OneFlow` bounds the composition, where one listener is
spelled out; no proof uses it. `AInv`: a challenge that is still pending has touched no store and is in
nobody's hands (`Challenges`); at most one connection adds an account, and at each stage
the stores before it are filled, or the account was deleted meanwhile (`AddInOrder`);
what is deleted has no row, and unless the two overlapped nobody adds it any more
(`Deletion`). Exactly this breaks without the exemption in `RemovedUnreachable`. `TInv`
adds that the listener has captured nothing while it listens and answers only peers that
have sent (`Listening`), and that no store is touched before the exchange has succeeded
(`Stored`). `PeersNamed` keeps the name for "nobody" out of the peers.

Three more theorems are what `RequestsEnd` rests on besides fairness. `NoRequestStranded`
(`NobodyStranded`): a request is served by a running daemon, and one that waits in
`complete_oauth` waits for a task that has ended or runs and reads, if it reads, from a
connection that somebody has made. `RequestsGoForward` (`RequestsAdvance`): a request
only goes from one of its steps to a later one. `ListenerGoesForward`
(`ListenerAdvances`): `handle_one` answers a connection once, and `await_callback` comes
round again only after it has answered a new one, so its rounds are counted by the
connections. The invariant is `Queued`: what waits in the backlog, or is being read, is
connected, has not been answered and is there once.

`Providers_proofs` proves `BatchesStopAtFailure` (`BatchOutcome`), `SendsOnce`
(`SendOutcome`), `ListsAreComplete` (`ListComplete`) and the refinement
`ProvidersImplementMailbox` (`ImplementsMailbox`), for any finite sets of messages and
drafts (`MsgsFinite`, `DraftIdsFinite`) and any callers, contents and labels that are
none of Gmail's own (`LabelsApart`, `StartsKnown`, `FoldersKnown`, `NoneApart`). `Batch`
ties the number of changed messages to the position of the loop, `OneEffect` does it for
a call that composes, `Collected` says that what a listing has fetched is a prefix of
what it listed, and `Accounted` that as many sends have happened as drafts of
`send_message` are gone; `GmailArgs` and `GraphArgs` are what the requests take from
their arguments. In the refinement every request is one step of `Mailbox` or a stutter:
Gmail's label changes are read through `View`, Graph's label calls write back
what they read, which is a step of `Mailbox` as long as it is not stale.

`Trays_proofs` proves `AnswersAreMine` (`AnswerIsMine`) and `PendingStaysUnderWay`
(`PendingIsUnderWay`), for any callers, connections, approvals and restarts. `MacInv` and
`WinInv` say of every frame that is queued, on a wire or stashed that its id was handed
out already and, if it is the id of a running call, that it belongs to that call
(`MacGenuine`, `WinGenuine`); ids are never used twice, so connections that are gone do
no harm. `TrayInv`: the coordinator's subscription is asked for once and acknowledged
once (`Once`), the filter lets approvals through from then on unless somebody has displaced
it (`Filtered`), and an approval is covered only while the coordinator has its stream
(`Streaming`), so that one that is pending is announced, on a queue, on the wire, in the
stream or shown, or was held back by a filter that had been displaced. It is
proved for both instances of `TrayApprovals`, the menu's and the modals'.

`NoneForgotten` (`NoCallForgotten`) is what `EveryCallReturns` rests on besides fairness,
in the cases that property is about: on macOS, over any number of connections, for the
calls whose connection is in use or has just ended, on Windows while the daemon runs and
no line was damaged. It assumes that `None` is no
caller and that a connection can be made (`CallersNamed`, `ConnsSome`). On macOS the
request or the answer of a call that waits is on the connection or stashed, or the
connection has ended (`MacHeld`), one connection is read at a time, the one in use, as
long as there is something to read on it (`MacUse`), and a parked call is registered and not left behind by a close
(`MacParked`). On Windows the lines in the buffer and on the pipe have different ids,
each of which is registered, also after the call that wrote it has thrown (`WinQueue`),
so the read loop never meets a line that nobody waits for and is never faulted; a call
without its answer is registered and, once written, its line is there, and after its own
flush not in the buffer any more (`WinCallHeld`), although any other call's flush may have
taken it along.

`Reads_proofs` has four parts. About the cache it assumes a positive capacity, a
natural time to live, finitely many keys and a `None` that is no value (`CapacityPos`,
`TtlNat`, `KeysFinite`, `NoneNoValue`), and proves `TypeCorrect`, `CacheBounded`
(`Bounded`), `KeepsRecent` (`KeptWhileRecent`) and `AnswersCurrent` (`NeverStale`). The
inductive invariant: no two keys share their last use and none lies ahead (`Stamped`);
what is cached is the last put (`Agrees`); a key that was put and is no longer cached
has been displaced by as many later used keys as the cache holds (`Displaced`), which is
what `KeptWhileRecent` comes to; and the cache fits (`Fits`). That a full cache has a
least recently used entry is well-foundedness of the stamps; counting the keys used
since is `FiniteSetTheorems`. `ReadsKeepCache` carries this over to `ReadsSpec`, the
specification the run checks.

About the search it proves `PagesCoverSearch` (`PagingCovers`) for mailboxes and pages
of any size (`NNat`, `PageSizePos`). `Ranked` shows that Graph's order gives each message
a place (the number of newer ones, an injection into an interval of the same size), so
"the first n messages" means something; `CursorSeen` is the invariant: a cursor that
skips n messages comes after pages that have shown the conversations of the first n,
and no cursor after a page means that all of them have been shown.

About the walk it proves `WalkFindsParts` (`PartsSound`) for messages of any number of
parts: after k parts each body is the first of the first k that is of its type and
decodes (`BodyFound`), so a later part cannot replace it and an undecodable one cannot
block it, and the attachments come from the first k in order (`Attached`, `Increasing`).

About the headers it proves `HeadersComeBack` (`AddressesWhole`) for headers of any number
of addresses. The invariant `HInv` is about the text so far: its commas cut it into
exactly the addresses that were written (`SplitAs`), which the next address extends by
one piece, since no name has a comma inside; and each of the three remaining shapes is
parsed back into its address and name.

Only model-checked: the liveness properties (`EveryCallSettles`, `RemovalCompletes`,
`DeliveredUnlessLagged`, `RequestsAnswered`, `RequestsEnd`, `EveryCallReturns`,
`CountConverges`), since temporal proofs under fairness are beyond the prover; theorems
above say what holds of most of them without fairness. The properties of `gate_leak` and
`trays_filter` are refuted, not proved. Every other property of a run is a theorem.

## Not modelled

* Paths, logging, error texts, file permissions, views and layout of the trays: no
  control state.
* MIME building, dates, base64, character sets and provider JSON beyond what
  `MessageParse`, `View` and `Decode` take from it: strings without control state.
* The TLS and HTTP layers, SQLite, the OS keychain, the `lru` crate, `StreamWriter`,
  Gmail and Graph themselves: external, modelled by what the code relies on. That
  Graph gives a message a new id when it moves is left out; that it accepts
  well-known folder names in `$filter` is assumed.
* Gmail's `get_thread`, `get_message`, `list_folders` and `list_labels`: single reads
  without effect.
* Code without a caller: `M365Provider` is not built by the daemon and `MessageCache`
  is not used by it, so they are modelled on their own; `IpcClient.disconnect` of the
  macOS tray and the Linux tray's `ipc_client.c` are called by tests only and are not
  modelled.
* The text of the stdio shim's frames, the command line of the admin CLI, the
  settings and wizard windows. The wizard's subscription (`account.added` only) displaces
  the coordinator's filter as `AccountsViewModel`'s does.
* Abstractions that make a step larger than the code's: `handle_one`'s one read of 4096
  bytes is taken as the whole request; the five rows of default permissions are inserted
  in one action; `list_drafts` lists the drafts of one page, which is all the code asks
  for; moves go to the five folders `tools.rs` names; a write of the macOS client to a
  closed socket returns an error, which assumes that SIGPIPE is ignored.

## Plan

Modelled and checked: everything above; proved: every safety property of the runs, and
what the liveness properties rest on besides fairness. What is left: the type
invariants that only TLC has checked (`GraphSearch`, `TrayClient`,
`PipeClient`, `TrayApprovals`, `GmailProvider`, `GraphProvider`) where the
invariants above do not already contain them.

Not in the plan, for want of code: IMAP, calendar, rules and real-time events, which
the design documents describe and no source implements yet.
