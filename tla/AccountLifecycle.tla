-------------------------- MODULE AccountLifecycle --------------------------
(***************************************************************************)
(* An account's life in the daemon: accounts.add_oauth, complete_oauth,    *)
(* cancel_oauth and remove (ipc_handler.rs), the accounts and permissions  *)
(* tables, the keychain, the provider registry, and hydrate_providers when *)
(* the daemon starts.  The four stores are written one after the other,    *)
(* with an await or a blocking call between them: other connections, the   *)
(* rotation callback of a refresh under way and a crash come in between.   *)
(*                                                                         *)
(* A connection serves one request at a time.  A challenge leads to at     *)
(* most one account, so a challenge also names the account it leads to.    *)
(***************************************************************************)
CONSTANTS
  Flows,  \* OAuth challenges, and the accounts they create
  Conns   \* IPC connections

VARIABLES
  up,         \* the daemon is running
  pending,    \* pending_oauth: challenges nobody has completed or cancelled
  flow,       \* flow[x]: the spawned task that awaits the browser
  row,        \* accounts with a row in the accounts table
  perms,      \* accounts with their rows in the permissions table
  secret,     \* accounts with a refresh token in the keychain
  providers,  \* ProviderRegistry
  inflight,   \* accounts whose client refreshes its token and will rotate it
  req,        \* req[k]: the request connection k is serving
  onboarding, \* app_state "onboarding_complete"
  reported,   \* accounts complete_oauth answered with, and AccountAdded told
  deleted,    \* accounts whose row accounts.remove has deleted
  removed,    \* accounts accounts.remove has finished with
  overlapped  \* accounts removed while complete_oauth was still adding them

storeVars == <<row, perms, secret, providers>>
pastVars == <<reported, deleted, removed, overlapped>>
vars == <<up, pending, flow, storeVars, inflight, req, onboarding, pastVars>>

Idle == [op |-> "idle"]

Adding == {"join", "create", "defaults", "secret", "register", "get"}
Removing == {"purge", "drop"}

TypeOK ==
  /\ up \in BOOLEAN
  /\ pending \subseteq Flows
  /\ flow \in [Flows -> {"none", "running", "tokens", "no_refresh", "failed", "gone"}]
  /\ row \subseteq Flows
  /\ perms \subseteq row
  /\ secret \subseteq Flows
  /\ providers \subseteq Flows
  /\ inflight \subseteq Flows
  /\ req \in [Conns -> {Idle} \cup [op : Adding \cup Removing, id : Flows]]
  /\ onboarding \in BOOLEAN
  /\ \A past \in {reported, deleted, removed, overlapped} :
       past \subseteq Flows

Init ==
  /\ up = TRUE
  /\ pending = {}
  /\ flow = [x \in Flows |-> "none"]
  /\ row = {} /\ perms = {} /\ secret = {} /\ providers = {}
  /\ inflight = {}
  /\ req = [k \in Conns |-> Idle]
  /\ onboarding = FALSE
  /\ reported = {} /\ deleted = {} /\ removed = {}
  /\ overlapped = {}

-----------------------------------------------------------------------------
(* Adding an account. *)

\* Connection k is at step `op` of a request about x.
At(k, op, x) == up /\ req[k] = [op |-> op, id |-> x]

Continue(k, op, x) == req' = [req EXCEPT ![k] = [op |-> op, id |-> x]]

Finish(k) == req' = [req EXCEPT ![k] = Idle]

\* add_oauth: begin_authorization, spawn the task, remember the challenge; a
\* request it refuses changes nothing
AddOauth(k, x) ==
  /\ up /\ req[k] = Idle
  /\ flow[x] = "none"
  /\ flow' = [flow EXCEPT ![x] = "running"]
  /\ pending' = pending \cup {x}
  /\ UNCHANGED <<up, storeVars, inflight, req, onboarding, pastVars>>

\* the spawned task: complete_authorization and the userinfo request succeed,
\* with or without a refresh token, or fail, at the latest at the deadline
FlowEnds(x, result) ==
  /\ up
  /\ flow[x] = "running"
  /\ flow' = [flow EXCEPT ![x] = result]
  /\ UNCHANGED <<up, pending, storeVars, inflight, req, onboarding, pastVars>>

\* complete_oauth: take the challenge; an unknown one is NotFound
TakeChallenge(k, x) ==
  /\ up /\ req[k] = Idle
  /\ x \in pending
  /\ pending' = pending \ {x}
  /\ Continue(k, "join", x)
  /\ UNCHANGED <<up, flow, storeVars, inflight, onboarding, pastVars>>

\* complete_oauth: pending.join.await, and the error of the task
Join(k, x) ==
  /\ At(k, "join", x)
  /\ flow[x] # "running"
  /\ IF flow[x] \in {"tokens", "no_refresh"} THEN Continue(k, "create", x) ELSE Finish(k)
  /\ UNCHANGED <<up, pending, flow, storeVars, inflight, onboarding, pastVars>>

\* complete_oauth: AccountStore::create; a storage error ends the request
CreateRow(k, x) ==
  /\ At(k, "create", x)
  /\ \/ row' = row \cup {x} /\ Continue(k, "defaults", x)
     \/ Finish(k) /\ UNCHANGED row
  /\ UNCHANGED <<up, pending, flow, perms, secret, providers, inflight,
                 onboarding, pastVars>>

\* complete_oauth: Permissions::install_defaults; the foreign key refuses an
\* account whose row has been deleted.  The five inserts are one step: the rows
\* a crash or a failure between them leaves out read as the default they would hold.
InstallDefaults(k, x) ==
  /\ At(k, "defaults", x)
  /\ \/ x \in row /\ perms' = perms \cup {x} /\ Continue(k, "secret", x)
     \/ Finish(k) /\ UNCHANGED perms
  /\ UNCHANGED <<up, pending, flow, row, secret, providers, inflight,
                 onboarding, pastVars>>

\* Mutant: a keychain failure is only logged.
MutantSetSecret(k, x) ==
  /\ At(k, "secret", x)
  /\ \/ secret' = secret \cup {x}
     \/ UNCHANGED secret
  /\ Continue(k, "register", x)
  /\ UNCHANGED <<up, pending, flow, row, perms, providers, inflight,
                 onboarding, pastVars>>

\* complete_oauth: secrets.set; without a refresh token, or when the keychain
\* fails, the request ends with an error and the row stays
SetSecret(k, x) ==
  /\ At(k, "secret", x)
  /\ \/ /\ flow[x] = "tokens"
        /\ secret' = secret \cup {x}
        /\ Continue(k, "register", x)
     \/ Finish(k) /\ UNCHANGED secret
  /\ UNCHANGED <<up, pending, flow, row, perms, providers, inflight,
                 onboarding, pastVars>>

\* complete_oauth: providers.insert
Register(k, x) ==
  /\ At(k, "register", x)
  /\ providers' = providers \cup {x}
  /\ Continue(k, "get", x)
  /\ UNCHANGED <<up, pending, flow, row, perms, secret, inflight, onboarding,
                 pastVars>>

\* complete_oauth: AccountStore::get, then AccountAdded and the answer; an
\* account that has vanished, or a storage error, ends with an error
GetAccount(k, x) ==
  /\ At(k, "get", x)
  /\ \/ x \in row /\ reported' = reported \cup {x}
     \/ UNCHANGED reported
  /\ Finish(k)
  /\ UNCHANGED <<up, pending, flow, storeVars, inflight, onboarding,
                 deleted, removed, overlapped>>

\* cancel_oauth: forget the challenge and abort its task; Ok in any case
Cancel(k, x) ==
  /\ up /\ req[k] = Idle
  /\ flow[x] # "none"
  /\ pending' = pending \ {x}
  /\ flow' = [flow EXCEPT ![x] =
                IF x \in pending /\ @ = "running" THEN "gone" ELSE @]
  /\ UNCHANGED <<up, storeVars, inflight, req, onboarding, reported, deleted,
                 removed, overlapped>>

-----------------------------------------------------------------------------
(* Removing an account, refreshing its token, settings and restarts. *)

\* remove_account: AccountStore::delete, permissions cascade; NotFound
\* without a row
DeleteRow(k, a) ==
  /\ up /\ req[k] = Idle
  /\ a \in row
  /\ row' = row \ {a}
  /\ perms' = perms \ {a}
  /\ deleted' = deleted \cup {a}
  /\ overlapped' = IF \E j \in Conns : req[j] # Idle /\ req[j].op \in Adding /\ req[j].id = a
                   THEN overlapped \cup {a} ELSE overlapped
  /\ Continue(k, "purge", a)
  /\ UNCHANGED <<up, pending, flow, secret, providers, inflight, onboarding,
                 reported, removed>>

\* remove_account: secrets.purge, whose failures are ignored
Purge(k, a) ==
  /\ At(k, "purge", a)
  /\ secret' = secret \ {a} \/ UNCHANGED secret
  /\ Continue(k, "drop", a)
  /\ UNCHANGED <<up, pending, flow, row, perms, providers, inflight,
                 onboarding, reported, deleted, removed, overlapped>>

\* Mutant: the provider is dropped for accounts whose secret is gone only.
MutantDropProvider(k, a) ==
  /\ At(k, "drop", a)
  /\ providers' = IF a \in secret THEN providers ELSE providers \ {a}
  /\ removed' = removed \cup {a}
  /\ Finish(k)
  /\ UNCHANGED <<up, pending, flow, row, perms, secret, inflight, onboarding,
                 reported, deleted, overlapped>>

\* remove_account: providers.remove, AccountRemoved, the answer
DropProvider(k, a) ==
  /\ At(k, "drop", a)
  /\ providers' = providers \ {a}
  /\ removed' = removed \cup {a}
  /\ Finish(k)
  /\ UNCHANGED <<up, pending, flow, row, perms, secret, inflight, onboarding,
                 reported, deleted, overlapped>>

\* a tool call holds the account's client and refreshes its token
BeginRefresh(a) ==
  /\ up
  /\ a \in providers
  /\ inflight' = inflight \cup {a}
  /\ UNCHANGED <<up, pending, flow, storeVars, req, onboarding, reported, deleted,
                 removed, overlapped>>

\* the refresh ends: a rotated token goes to the keychain, whoever has
\* removed the account meanwhile
EndRefresh(a) ==
  /\ up
  /\ a \in inflight
  /\ inflight' = inflight \ {a}
  /\ secret' = secret \cup {a} \/ UNCHANGED secret
  /\ UNCHANGED <<up, pending, flow, row, perms, providers, req, onboarding,
                 pastVars>>

\* settings.set_onboarding_complete
SetOnboarding(k, b) ==
  /\ up /\ req[k] = Idle
  /\ onboarding' = b
  /\ UNCHANGED <<up, pending, flow, storeVars, inflight, req, pastVars>>

\* the daemon dies where it stands: what is in memory is gone
Crash ==
  /\ up
  /\ up' = FALSE
  /\ pending' = {}
  /\ flow' = [x \in Flows |-> IF flow[x] = "none" THEN "none" ELSE "gone"]
  /\ providers' = {}
  /\ inflight' = {}
  /\ req' = [k \in Conns |-> Idle]
  /\ UNCHANGED <<row, perms, secret, onboarding, pastVars>>

\* Mutant: start-up leaves the registry empty.
MutantHydrate ==
  /\ ~up
  /\ up' = TRUE
  /\ providers' = {}
  /\ UNCHANGED <<pending, flow, row, perms, secret, inflight, req, onboarding,
                 pastVars>>

\* main: Storage::open and hydrate_providers; an account without a refresh
\* token gets no provider
Hydrate ==
  /\ ~up
  /\ up' = TRUE
  /\ providers' = row \cap secret
  /\ UNCHANGED <<pending, flow, row, perms, secret, inflight, req, onboarding,
                 pastVars>>

\* main: the keychain refuses an account's token; hydrate_providers and main
\* return the error, and the daemon stays down
HydrateFails ==
  /\ ~up
  /\ row # {}
  /\ UNCHANGED vars

\* the steps a request takes once it has begun
Step(k, x) ==
  \/ Join(k, x) \/ CreateRow(k, x) \/ InstallDefaults(k, x) \/ SetSecret(k, x)
  \/ Register(k, x) \/ GetAccount(k, x) \/ Purge(k, x) \/ DropProvider(k, x)

\* Everything but the end of a flow's task.
Handlers ==
  \/ \E k \in Conns, x \in Flows :
       \/ AddOauth(k, x) \/ TakeChallenge(k, x) \/ Cancel(k, x)
       \/ DeleteRow(k, x) \/ Step(k, x)
  \/ \E k \in Conns, b \in BOOLEAN : SetOnboarding(k, b)
  \/ \E x \in Flows : BeginRefresh(x) \/ EndRefresh(x)
  \/ Crash \/ Hydrate \/ HydrateFails

Next ==
  \/ Handlers
  \/ \E x \in Flows, result \in {"tokens", "no_refresh", "failed"} : FlowEnds(x, result)

Spec == Init /\ [][Next]_vars

-----------------------------------------------------------------------------
(* Properties. *)

(***************************************************************************)
(* An account complete_oauth answered with is complete until someone       *)
(* removes it: its row, permissions and refresh token are stored and, while *)
(* the daemon runs, its provider is registered, also after crashes at any  *)
(* step of any request.                                                    *)
(***************************************************************************)
ReportedIsUsable ==
  \A x \in reported \ deleted :
    x \in row /\ x \in perms /\ x \in secret /\ (up => x \in providers)

(***************************************************************************)
(* Once accounts.remove has answered, no tool call reaches the account     *)
(* again, whatever is left in the keychain and however often the daemon    *)
(* restarts; the exception is an account removed while complete_oauth was  *)
(* still adding it.                                                        *)
(***************************************************************************)
RemovedUnreachable == (removed \ overlapped) \cap providers = {}

(***************************************************************************)
(* A daemon that serves an account can serve it after a restart too: its   *)
(* row and its refresh token are stored, unless a remove has begun.        *)
(***************************************************************************)
ServedSurvivesRestart == providers \subseteq (row \cap secret) \cup deleted
=============================================================================
