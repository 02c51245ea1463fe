------------------------------- MODULE SignIn -------------------------------
(***************************************************************************)
(* AccountLifecycle with the task that OAuthFlow describes: the account's  *)
(* flow ends when its listener, the code exchange and the userinfo request *)
(* have, and as they have.  add_oauth spawns the task, cancel_oauth aborts *)
(* it, a crash takes it along, and complete_oauth waits for it on the      *)
(* connection's only request loop.  The browser and other local processes  *)
(* reach the listener only while the task runs.                            *)
(***************************************************************************)
EXTENDS AccountLifecycle, FiniteSets

CONSTANT Peers   \* connections made to the listener's port

\* The task of one flow is modelled.
ASSUME OneFlow == Cardinality(Flows) = 1

VARIABLES pc, late, backlog, link, query, cur, answered, captured

taskVars == <<pc, late, backlog, link, query, cur, answered, captured>>
allVars == <<vars, taskVars>>

Task == INSTANCE OAuthFlow

\* The value for "no peer" is not a peer.
ASSUME PeersNamed == Task!None \notin Peers

SignInInit == Init /\ Task!Init

\* A step of the task, of a peer or of the clock while the flow runs.
While(A) ==
  /\ up /\ \E x \in Flows : flow[x] = "running"
  /\ A
  /\ UNCHANGED vars

\* complete_authorization and the userinfo request have returned.
TaskEnds(x) ==
  /\ pc \in Task!Ended
  /\ FlowEnds(x, IF pc \in {"tokens", "no_refresh"} THEN pc ELSE "failed")
  /\ UNCHANGED taskVars

SignInNext ==
  \/ Handlers /\ UNCHANGED taskVars
  \/ While(Task!Next)
  \/ \E x \in Flows : TaskEnds(x)

(***************************************************************************)
(* tokio runs the handlers and the task, time passes, and an exchange over *)
(* HTTP ends.  Nothing makes a peer that has connected send, close or die. *)
(***************************************************************************)
Fairness ==
  /\ \A k \in Conns : WF_allVars((\E x \in Flows : Step(k, x)) /\ UNCHANGED taskVars)
  /\ \A x \in Flows : WF_allVars(TaskEnds(x))
  /\ WF_allVars(While(Task!Task)) /\ WF_allVars(While(Task!Deadline))

SignInSpec == SignInInit /\ [][SignInNext]_allVars /\ Fairness
-----------------------------------------------------------------------------
(***************************************************************************)
(* A code is exchanged only if it came with the nonce that this flow put   *)
(* in the authorization URL, such a callback is never turned away, and an  *)
(* account is created from nothing else (handle_one, complete_oauth).      *)
(***************************************************************************)
CallbackGenuine ==
  /\ Task!CallbackGenuine
  /\ row \cup secret \cup providers # {} => captured # Task!None /\ Task!Genuine(captured)

\* handle_one reads, without a deadline, from a connection that has said nothing.
HeldBySilence ==
  /\ pc = "read" /\ link[cur] = "open"
  /\ up /\ \E x \in Flows : flow[x] = "running"

(***************************************************************************)
(* A connection that waits in complete_oauth, with every request behind    *)
(* it, is released: no interleaving of cancel, remove, the clock and the   *)
(* browser's answer leaves it waiting for a task that will not end.  The   *)
(* exception is a peer that connects to the listener and says nothing: the *)
(* deadline does not reach handle_one's read (loopback.rs:188), so the     *)
(* loop outlives the overall `timeout` that loopback.rs:140 promises, for  *)
(* as long as that one connection stays open and silent.                   *)
(***************************************************************************)
RequestsEnd ==
  \A k \in Conns :
    req[k] # Idle ~> (req[k] = Idle \/ [](req[k].op = "join" /\ HeldBySilence))
=============================================================================
