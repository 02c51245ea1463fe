------------------------------ MODULE Consent -------------------------------
(***************************************************************************)
(* What the approval gate promises, without queue, channels, timers or     *)
(* policies: a call may act on a mailbox at once, or it may first ask the  *)
(* user.  A call that has asked acts only on an approval that reached it   *)
(* while it was still waiting; the user's decision on it is taken once and *)
(* never changes; a call that stopped waiting (it timed out, its client    *)
(* left, the daemon stopped) never acts, whatever the user says later.     *)
(***************************************************************************)
CONSTANT Calls

VARIABLES
  asking,   \* asking[c]: "unasked", "waiting" or "lapsed"
  verdict,  \* verdict[c]: the user's decision, "none" before it
  effect    \* effect[c]: what was done to the mailbox for c

vars == <<asking, verdict, effect>>

Init ==
  /\ asking = [c \in Calls |-> "unasked"]
  /\ verdict = [c \in Calls |-> "none"]
  /\ effect = [c \in Calls |-> "none"]

Ask(c) ==
  /\ asking[c] = "unasked"
  /\ effect[c] = "none"
  /\ asking' = [asking EXCEPT ![c] = "waiting"]
  /\ UNCHANGED <<verdict, effect>>

\* The user may still answer a call that has lapsed: it is too late then.
Decide(c, v) ==
  /\ asking[c] # "unasked"
  /\ verdict[c] = "none"
  /\ verdict' = [verdict EXCEPT ![c] = v]
  /\ UNCHANGED <<asking, effect>>

\* A daemon that stops takes every waiting call with it.
Lapse(S) ==
  /\ S # {}
  /\ \A c \in S : asking[c] = "waiting"
  /\ asking' = [c \in Calls |-> IF c \in S THEN "lapsed" ELSE asking[c]]
  /\ UNCHANGED <<verdict, effect>>

Act(c, e) ==
  /\ effect[c] = "none"
  /\ \/ asking[c] = "unasked"
     \/ asking[c] = "waiting" /\ verdict[c] = "approve"
  /\ effect' = [effect EXCEPT ![c] = e]
  /\ UNCHANGED <<asking, verdict>>

Next ==
  \/ \E c \in Calls : Ask(c)
  \/ \E c \in Calls, v \in {"approve", "reject"} : Decide(c, v)
  \/ \E S \in SUBSET Calls : Lapse(S)
  \/ \E c \in Calls, e \in {"executed", "drafted"} : Act(c, e)

Spec == Init /\ [][Next]_vars
=============================================================================
