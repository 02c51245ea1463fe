------------------------ MODULE ApprovalGate_proofs -------------------------
(***************************************************************************)
(* Proofs about ApprovalGate, for any calls, connections, accounts, tools  *)
(* and policies.                                                           *)
(***************************************************************************)
EXTENDS ApprovalGate, Naturals, TLAPS

(***************************************************************************)
(* Every tool of mcp::tools has one of the five categories.                *)
(***************************************************************************)
LEMMA CategoryTyped ==
  ASSUME NEW t \in Tools
  PROVE  /\ CategoryOf[t] \in Category
         /\ CategoryOf[t] = "send" /\ t # "send_draft" => t = "send_message"
<1>1. t \in DOMAIN CategoryOf
  BY ToolsKnown
<1> QED
  BY <1>1 DEF CategoryOf, Category

(***************************************************************************)
(* default_policy gives every category a policy.                           *)
(***************************************************************************)
LEMMA DefaultTyped == DefaultPolicy \in [Category -> Policy]
BY DEF DefaultPolicy, Category, Policy

(***************************************************************************)
(* The category of a call's tool is a Category.                            *)
(***************************************************************************)
LEMMA CatOfTyped ==
  ASSUME CallsOK, NEW c \in Calls
  PROVE  /\ args[c].account \in Accounts
         /\ args[c].tool \in Tools
         /\ CatOf(c) \in Category
<1>1. args[c].account \in Accounts /\ args[c].tool \in Tools
  BY DEF CallsOK
<1> QED
  BY <1>1, CategoryTyped DEF CatOf

(***************************************************************************)
(* A part of the state that a step leaves alone keeps its types.           *)
(***************************************************************************)
LEMMA FrameTypes ==
  /\ CallsOK /\ UNCHANGED <<args, callVars>> => CallsOK'
  /\ QueueOK /\ UNCHANGED queueVars => QueueOK'
  /\ AdminOK /\ UNCHANGED adminVars => AdminOK'
<1>1. CallsOK /\ UNCHANGED <<args, callVars>> => CallsOK'
  BY DEF CallsOK, callVars
<1>2. QueueOK /\ UNCHANGED queueVars => QueueOK'
  BY DEF QueueOK, queueVars
<1>3. AdminOK /\ UNCHANGED adminVars => AdminOK'
  BY DEF AdminOK, adminVars
<1> QED
  BY <1>1, <1>2, <1>3

(***************************************************************************)
(* Type correctness: no handler, decide request or IPC request leaves the  *)
(* state the gate declares.                                                *)
(***************************************************************************)
THEOREM TypeCorrect == Spec => []TypeOK
<1>1. Init => TypeOK
  <2> SUFFICES ASSUME Init PROVE TypeOK
    OBVIOUS
  <2>1. CallsOK
    BY DEF Init, CallsOK
  <2>2. QueueOK
    BY DEF Init, QueueOK
  <2>3. paused \in BOOLEAN
    BY DEF Init
  <2>4. AdminOK
    BY <2>3, DefaultTyped DEF Init, AdminOK
  <2> QED
    BY <2>1, <2>2, <2>4 DEF TypeOK
<1>2. TypeOK /\ [Next]_vars => TypeOK'
  <2> SUFFICES ASSUME CallsOK, QueueOK, AdminOK, [Next]_vars
               PROVE  TypeOK'
    BY DEF TypeOK
  <2> USE DEF TypeOK
  (* Steps of a handler that change nothing but the call. *)
  <2>1. ASSUME NEW c \in Calls,
               \/ Refuse(c) \/ ListAll(c) \/ Dispatch(c) \/ GetProvider(c)
               \/ Enforce(c) \/ Execute(c) \/ ConvertToDraft(c)
               \/ Respond(c) \/ Disconnect(c) \/ Expire(c)
        PROVE  TypeOK'
    <3>1. UNCHANGED <<queueVars, adminVars>>
      BY <2>1 DEF Refuse, ListAll, Dispatch, GetProvider, Enforce, Execute,
                  ConvertToDraft, Respond, Disconnect, Expire
    <3>2. CASE Refuse(c) \/ ListAll(c) \/ Dispatch(c) \/ GetProvider(c) \/ Enforce(c)
      <4>1. CallsOK'
        BY <3>2 DEF CallsOK, Refuse, ListAll, Dispatch, GetProvider, Enforce,
                    Goto, Answer
      <4> QED
        BY <4>1, <3>1, FrameTypes
    <3>3. CASE Execute(c) \/ ConvertToDraft(c) \/ Respond(c)
      <4>1. CallsOK'
        BY <3>3 DEF CallsOK, Execute, ConvertToDraft, Respond, Goto, Answer
      <4> QED
        BY <4>1, <3>1, FrameTypes
    <3>4. CASE Disconnect(c) \/ Expire(c)
      <4>1. CallsOK'
        BY <3>4 DEF CallsOK, Disconnect, Expire, Goto
      <4> QED
        BY <4>1, <3>1, FrameTypes
    <3> QED
      BY <2>1, <3>2, <3>3, <3>4
  <2>2. ASSUME NEW c \in Calls, ReadPerms(c)
        PROVE  TypeOK'
    <3>1. ForAccount(args[c].account, CatOf(c)) \in Policy
      BY CatOfTyped, DefaultTyped DEF ForAccount, AdminOK
    <3>2. CallsOK'
      BY <2>2, <3>1 DEF CallsOK, ReadPerms, Goto, Answer
    <3>3. UNCHANGED <<queueVars, adminVars>>
      BY <2>2 DEF ReadPerms
    <3> QED
      BY <3>2, <3>3, FrameTypes
  (* Steps of a handler that reach the queue. *)
  <2>3. ASSUME NEW c \in Calls,
               Enqueue(c) \/ Announce(c) \/ Receive(c) \/ CleanUp(c)
        PROVE  TypeOK'
    <3>1. CallsOK'
      BY <2>3 DEF CallsOK, Enqueue, Announce, Receive, CleanUp, Goto, Answer
    <3>2. QueueOK'
      BY <2>3, CatOfTyped DEF QueueOK, Enqueue, Announce, Receive, CleanUp
    <3>3. UNCHANGED adminVars
      BY <2>3 DEF Enqueue, Announce, Receive, CleanUp
    <3> QED
      BY <3>1, <3>2, <3>3, FrameTypes
  <2>4. ASSUME NEW d \in Deciders, NEW c \in Calls, NEW v \in Decision, Take(d, c, v)
        PROVE  TypeOK'
    <3>1. QueueOK'
      BY <2>4 DEF QueueOK, Take
    <3> QED
      BY <2>4, <3>1, FrameTypes DEF Take
  <2>5. ASSUME NEW d \in Deciders, Send(d)
        PROVE  TypeOK'
    <3>1. task[d] \in [step : {"send", "publish"}, id : Calls, decision : Decision]
      BY <2>5 DEF Send, QueueOK, Idle
    <3>2. CallsOK'
      BY <2>5, <3>1 DEF Send, CallsOK, Outcome
    <3>3. QueueOK'
      BY <2>5, <3>1 DEF Send, QueueOK
    <3> QED
      BY <2>5, <3>2, <3>3, FrameTypes DEF Send
  <2>6. ASSUME NEW d \in Deciders, Publish(d)
        PROVE  TypeOK'
    <3>1. task[d] \in [step : {"send", "publish"}, id : Calls, decision : Decision]
      BY <2>6 DEF Publish, QueueOK, Idle
    <3>2. QueueOK'
      BY <2>6, <3>1 DEF Publish, QueueOK
    <3> QED
      BY <2>6, <3>2, FrameTypes DEF Publish
  (* The other IPC requests, and the restart. *)
  <2>7. ASSUME NEW a \in Accounts, DeleteRow(a) \/ Deregister(a)
        PROVE  TypeOK'
    <3>1. AdminOK'
      BY <2>7 DEF AdminOK, DeleteRow, Deregister
    <3> QED
      BY <2>7, <3>1, FrameTypes DEF DeleteRow, Deregister
  <2>8. ASSUME NEW a \in Accounts, NEW t \in Tools, NEW p \in Policies,
               SetPolicy(a, CategoryOf[t], p)
        PROVE  TypeOK'
    <3>1. AdminOK'
      BY <2>8, CategoryTyped, PoliciesKnown DEF AdminOK, SetPolicy
    <3> QED
      BY <2>8, <3>1, FrameTypes DEF SetPolicy
  <2>9. ASSUME NEW b \in BOOLEAN, SetPaused(b)
        PROVE  TypeOK'
    <3>1. AdminOK'
      BY <2>9 DEF AdminOK, SetPaused
    <3> QED
      BY <2>9, <3>1, FrameTypes DEF SetPaused
  <2>10. CASE Restart
    <3>1. CallsOK'
      BY <2>10 DEF CallsOK, Restart
    <3>2. QueueOK'
      BY <2>10 DEF QueueOK, Restart
    <3>3. paused' \in BOOLEAN
      BY <2>10 DEF Restart
    <3>4. AdminOK'
      BY <2>10, <3>3 DEF AdminOK, Restart
    <3> QED
      BY <3>1, <3>2, <3>4
  <2>11. CASE UNCHANGED vars
    BY <2>11, FrameTypes DEF vars
  <2> QED
    BY <2>1, <2>2, <2>3, <2>4, <2>5, <2>6, <2>7, <2>8, <2>9, <2>10, <2>11
       DEF Next, Step
<1> QED
  BY <1>1, <1>2, PTL DEF Spec

-----------------------------------------------------------------------------
(***************************************************************************)
(* The inductive invariant.  EffectNeedsConsent looks at calls whose       *)
(* effect has happened; to carry it through the steps we must know what    *)
(* the queue, the channels, the decide requests in flight and the trust    *)
(* table guarantee before that.                                            *)
(***************************************************************************)

\* A call has no channel until it has been enqueued.
ChannelAfterAsk ==
  \A c \in Calls :
    pc[c] \in {"new", "resolve", "perms", "enforce", "ask", "draft"} =>
      chan[c] = "none"

\* An entry of the queue is undecided and its channel has delivered nothing.
PendingUndecided ==
  \A c \in pending :
    /\ chan[c] \in {"empty", "timeout", "closed"}
    /\ verdict[c] = "none"
    /\ pc[c] \in {"announce", "await", "expired", "gone"}

\* Only calls that asked are decided, and what arrives is what was decided.
VerdictDelivered ==
  \A c \in Calls :
    /\ verdict[c] # "none" => chan[c] # "none"
    /\ chan[c] = "approved" => verdict[c] = "approve"

\* A decide request in flight carries the accepted decision.
TaskCarriesVerdict ==
  \A d \in Deciders :
    task[d].step = "send" => verdict[task[d].id] = task[d].decision

\* Reason enough for c to reach the provider.
Licensed(c) ==
  /\ chan[c] # "none" => chan[c] = "approved"
  /\ chan[c] = "none" =>
       snap[c] = "allow" \/ (snap[c] = "session" /\ \E b \in Calls : Earned(c, b))

\* A call about to act is licensed; one about to draft is a send under Draftify.
ActLicensed ==
  \A c \in Calls :
    /\ pc[c] = "act" => Licensed(c)
    /\ pc[c] = "draft" => snap[c] = "draftify" /\ CatOf(c) = "send"

\* Nothing is done to a mailbox before the provider is called.
EffectLate ==
  \A c \in Calls :
    effect[c] # "none" => pc[c] \in {"provider", "done", "gone", "past"}

\* What the queue and its channels guarantee, and what rests on it.
QueueInv ==
  /\ ChannelAfterAsk /\ PendingUndecided /\ VerdictDelivered
  /\ TaskCarriesVerdict /\ EffectLate

LicenseInv == ActLicensed /\ TrustEarned /\ EffectNeedsConsent

IInv == QueueInv /\ LicenseInv

(***************************************************************************)
(* Once a call has been decided, a step changes neither its policy nor its *)
(* decision: what it earned stays earned.                                  *)
(***************************************************************************)
LEMMA EarnedStable ==
  ASSUME TypeOK, QueueInv, [Next]_vars, NEW b \in Calls, verdict[b] # "none"
  PROVE  args' = args /\ snap'[b] = snap[b] /\ verdict'[b] = verdict[b]
<1> USE DEF callVars, queueVars, adminVars, TypeOK, CallsOK, QueueOK
<1>1. b \notin pending /\ pc[b] # "perms"
  BY DEF QueueInv, PendingUndecided, VerdictDelivered, ChannelAfterAsk
<1>2. ASSUME NEW c \in Calls,
             \/ Refuse(c) \/ ListAll(c) \/ Dispatch(c) \/ GetProvider(c)
             \/ Enforce(c) \/ Enqueue(c) \/ Announce(c) \/ Receive(c)
             \/ Expire(c) \/ CleanUp(c) \/ Execute(c) \/ ConvertToDraft(c)
             \/ Respond(c) \/ Disconnect(c)
      PROVE  UNCHANGED <<args, snap, verdict>>
  BY <1>2 DEF Refuse, ListAll, Dispatch, GetProvider, Enforce, Enqueue,
              Announce, Receive, Expire, CleanUp, Execute, ConvertToDraft,
              Respond, Disconnect
<1>3. ASSUME NEW c \in Calls, ReadPerms(c)
      PROVE  args' = args /\ snap'[b] = snap[b] /\ verdict'[b] = verdict[b]
  BY <1>1, <1>3 DEF ReadPerms
<1>4. ASSUME NEW d \in Deciders, NEW c \in Calls, NEW v \in Decision, Take(d, c, v)
      PROVE  args' = args /\ snap'[b] = snap[b] /\ verdict'[b] = verdict[b]
  BY <1>1, <1>4 DEF Take
<1>5. ASSUME NEW d \in Deciders, Send(d) \/ Publish(d)
      PROVE  UNCHANGED <<args, snap, verdict>>
  BY <1>5 DEF Send, Publish
<1>6. ASSUME NEW a \in Accounts,
             \/ DeleteRow(a) \/ Deregister(a)
             \/ \E t \in Tools, p \in Policies : SetPolicy(a, CategoryOf[t], p)
      PROVE  UNCHANGED <<args, snap, verdict>>
  BY <1>6 DEF DeleteRow, Deregister, SetPolicy
<1>7. ASSUME NEW x \in BOOLEAN, SetPaused(x)
      PROVE  UNCHANGED <<args, snap, verdict>>
  BY <1>7 DEF SetPaused
<1>8. CASE Restart
  BY <1>8 DEF Restart
<1>9. CASE UNCHANGED vars
  BY <1>9 DEF vars
<1> QED
  BY <1>2, <1>3, <1>4, <1>5, <1>6, <1>7, <1>8, <1>9 DEF Next, Step

(***************************************************************************)
(* What the queue, its channels and the decide requests guarantee each     *)
(* other is preserved by every step.                                       *)
(***************************************************************************)
LEMMA QueueInvInductive ==
  ASSUME TypeOK, QueueInv, [Next]_vars
  PROVE  QueueInv'
<1> USE DEF TypeOK, CallsOK, QueueOK, callVars, queueVars, adminVars,
            QueueInv, ChannelAfterAsk, PendingUndecided, VerdictDelivered,
            TaskCarriesVerdict, EffectLate
(* Steps of a handler outside the queue. *)
<1>1. ASSUME NEW c \in Calls,
             \/ Refuse(c) \/ ListAll(c) \/ Dispatch(c) \/ GetProvider(c)
             \/ ReadPerms(c) \/ Enforce(c)
      PROVE  QueueInv'
  <2>1. UNCHANGED <<chan, effect, queueVars>>
    BY <1>1 DEF Refuse, ListAll, Dispatch, GetProvider, ReadPerms, Enforce
  <2>2. pc[c] \in {"new", "resolve", "perms", "enforce"} /\ chan[c] = "none"
    BY <1>1 DEF Refuse, ListAll, Dispatch, GetProvider, ReadPerms, Enforce
  <2>3. \E l \in {"resolve", "perms", "enforce", "act", "draft", "ask", "done"} :
          Goto(c, l)
    BY <1>1 DEF Refuse, ListAll, Dispatch, GetProvider, ReadPerms, Enforce, Answer
  <2> QED
    BY <2>1, <2>2, <2>3 DEF Goto
<1>2. ASSUME NEW c \in Calls, Execute(c) \/ ConvertToDraft(c) \/ Respond(c)
      PROVE  QueueInv'
  <2>1. UNCHANGED <<chan, queueVars>>
    BY <1>2 DEF Execute, ConvertToDraft, Respond
  <2>2. /\ pc[c] \in {"act", "draft", "provider"}
        /\ Goto(c, "provider") \/ Goto(c, "done")
    BY <1>2 DEF Execute, ConvertToDraft, Respond, Answer
  <2>3. \A b \in Calls \ {c} : effect'[b] = effect[b]
    BY <1>2 DEF Execute, ConvertToDraft, Respond
  <2>4. EffectLate'
    BY <2>2, <2>3 DEF Goto
  <2>5. ChannelAfterAsk' /\ PendingUndecided'
    BY <2>1, <2>2 DEF Goto
  <2>6. VerdictDelivered' /\ TaskCarriesVerdict'
    BY <2>1
  <2> QED
    BY <2>4, <2>5, <2>6
(* Steps of a handler at the queue. *)
<1>3. ASSUME NEW c \in Calls, Enqueue(c)
      PROVE  QueueInv'
  <2>1. ChannelAfterAsk'
    BY <1>3 DEF Enqueue, Goto
  <2>2. PendingUndecided'
    BY <1>3 DEF Enqueue, Goto
  <2>3. VerdictDelivered'
    BY <1>3 DEF Enqueue, Goto
  <2>4. TaskCarriesVerdict'
    BY <1>3 DEF Enqueue, Goto
  <2>5. EffectLate'
    BY <1>3 DEF Enqueue, Goto
  <2> QED
    BY <2>1, <2>2, <2>3, <2>4, <2>5
<1>4. ASSUME NEW c \in Calls, Announce(c)
      PROVE  QueueInv'
  <2>1. ChannelAfterAsk'
    BY <1>4 DEF Announce, Goto
  <2>2. PendingUndecided'
    BY <1>4 DEF Announce, Goto
  <2>3. VerdictDelivered'
    BY <1>4 DEF Announce, Goto
  <2>4. TaskCarriesVerdict'
    BY <1>4 DEF Announce, Goto
  <2>5. EffectLate'
    BY <1>4 DEF Announce, Goto
  <2> QED
    BY <2>1, <2>2, <2>3, <2>4, <2>5
<1>5. ASSUME NEW c \in Calls, Receive(c)
      PROVE  QueueInv'
  <2>1. ChannelAfterAsk'
    BY <1>5 DEF Receive, Answer, Goto
  <2>2. PendingUndecided'
    BY <1>5 DEF Receive, Answer, Goto
  <2>3. VerdictDelivered'
    BY <1>5 DEF Receive, Answer, Goto
  <2>4. TaskCarriesVerdict'
    BY <1>5 DEF Receive, Answer, Goto
  <2>5. EffectLate'
    BY <1>5 DEF Receive, Answer, Goto
  <2> QED
    BY <2>1, <2>2, <2>3, <2>4, <2>5
<1>6. ASSUME NEW c \in Calls, Expire(c)
      PROVE  QueueInv'
  <2>1. ChannelAfterAsk'
    BY <1>6 DEF Expire, Goto
  <2>2. PendingUndecided'
    BY <1>6 DEF Expire, Goto
  <2>3. VerdictDelivered'
    BY <1>6 DEF Expire, Goto
  <2>4. TaskCarriesVerdict'
    BY <1>6 DEF Expire, Goto
  <2>5. EffectLate'
    BY <1>6 DEF Expire, Goto
  <2> QED
    BY <2>1, <2>2, <2>3, <2>4, <2>5
<1>7. ASSUME NEW c \in Calls, CleanUp(c)
      PROVE  QueueInv'
  BY <1>7 DEF CleanUp, Answer, Goto
<1>8. ASSUME NEW c \in Calls, Disconnect(c)
       PROVE  QueueInv'
  BY <1>8 DEF Disconnect, Goto
<1>9. ASSUME NEW d \in Deciders, NEW c \in Calls, NEW v \in Decision, Take(d, c, v)
       PROVE  QueueInv'
  <2>1. ChannelAfterAsk'
    BY <1>9 DEF Take, Decision, Idle
  <2>2. PendingUndecided'
    BY <1>9 DEF Take, Decision, Idle
  <2>3. VerdictDelivered'
    BY <1>9 DEF Take, Decision, Idle
  <2>4. TaskCarriesVerdict'
    BY <1>9 DEF Take, Decision, Idle
  <2>5. EffectLate'
    BY <1>9 DEF Take, Decision, Idle
  <2> QED
    BY <2>1, <2>2, <2>3, <2>4, <2>5
<1>10. ASSUME NEW d \in Deciders, Send(d)
       PROVE  QueueInv'
  <2>1. ChannelAfterAsk'
    BY <1>10 DEF Send, Idle, Outcome, Decision
  <2>2. PendingUndecided'
    BY <1>10 DEF Send, Idle, Outcome, Decision
  <2>3. VerdictDelivered'
    BY <1>10 DEF Send, Idle, Outcome, Decision
  <2>4. TaskCarriesVerdict'
    BY <1>10 DEF Send, Idle, Outcome, Decision
  <2>5. EffectLate'
    BY <1>10 DEF Send, Idle, Outcome, Decision
  <2> QED
    BY <2>1, <2>2, <2>3, <2>4, <2>5
<1>11. ASSUME NEW d \in Deciders, Publish(d)
       PROVE  QueueInv'
  BY <1>11 DEF Publish, Idle
<1>12. ASSUME NEW a \in Accounts,
             \/ DeleteRow(a) \/ Deregister(a)
             \/ \E t \in Tools, p \in Policies : SetPolicy(a, CategoryOf[t], p)
       PROVE  QueueInv'
  BY <1>12 DEF DeleteRow, Deregister, SetPolicy
<1>13. ASSUME NEW x \in BOOLEAN, SetPaused(x)
       PROVE  QueueInv'
  BY <1>13 DEF SetPaused
<1>14. CASE Restart
  BY <1>14 DEF Restart, Idle
<1>15. CASE UNCHANGED vars
  BY <1>15 DEF vars
<1> QED
  BY <1>1, <1>2, <1>3, <1>4, <1>5, <1>6, <1>7, <1>8, <1>9, <1>10,
     <1>11, <1>12, <1>13, <1>14, <1>15
     DEF Next, Step

(***************************************************************************)
(* What Earned(c, b) rests on stays as it is, so it still holds after the  *)
(* step.                                                                   *)
(***************************************************************************)
LEMMA EarnedKept ==
  ASSUME TypeOK, QueueInv, [Next]_vars,
         NEW c \in Calls, \E b \in Calls : Earned(c, b)
  PROVE  \E b \in Calls : Earned(c, b)'
<1> PICK b \in Calls : Earned(c, b)
  OBVIOUS
<1>1. verdict[b] # "none"
  BY DEF Earned
<1>2. args' = args /\ snap'[b] = snap[b] /\ verdict'[b] = verdict[b]
  BY <1>1, EarnedStable
<1>3. Earned(c, b)'
  BY <1>2 DEF Earned, CatOf
<1> QED
  BY <1>3

(***************************************************************************)
(* A trusted pair of a call is one that some approved call earned.         *)
(***************************************************************************)
LEMMA TrustedEarned ==
  ASSUME TypeOK, TrustEarned, NEW c \in Calls, IsTrusted(c)
  PROVE  \E b \in Calls : Earned(c, b)
<1> PICK b \in Calls : /\ verdict[b] = "approve" /\ snap[b] = "session"
                       /\ <<args[c].account, CatOf(c)>> = <<args[b].account, CatOf(b)>>
  BY DEF TrustEarned, IsTrusted
<1> QED
  BY DEF Earned

(***************************************************************************)
(* Session trust is earned: a restart forgets it, every other step keeps   *)
(* the calls that earned it, and only an approval under Session adds to it.*)
(***************************************************************************)
LEMMA TrustInductive ==
  ASSUME TypeOK, IInv, [Next]_vars
  PROVE  TrustEarned'
<1> DEFINE Origin(b) == <<args[b].account, CatOf(b)>>
           Won(b) == verdict[b] = "approve" /\ snap[b] = "session" /\ pc[b] # "past"
<1> USE DEF callVars, queueVars, adminVars
<1>1. CASE Restart
  BY <1>1 DEF Restart, TrustEarned
<1>2. CASE ~Restart
  <2>1. \A b \in Calls : pc[b] # "past" => pc'[b] # "past"
    BY <1>2 DEF Next, Step, Refuse, ListAll, Dispatch, GetProvider,
       ReadPerms, Enforce, Enqueue, Announce, Receive, Expire, CleanUp, Execute,
       ConvertToDraft, Respond, Disconnect, Take, Send, Publish, DeleteRow,
       Deregister, SetPolicy, SetPaused, vars, Goto, Answer, TypeOK, CallsOK
  <2>2. ASSUME NEW b \in Calls, Won(b)
        PROVE  Won(b)' /\ Origin(b)' = Origin(b)
    <3>1. args' = args /\ snap'[b] = snap[b] /\ verdict'[b] = verdict[b]
      BY <2>2, EarnedStable DEF IInv
    <3> QED
      BY <2>1, <2>2, <3>1 DEF CatOf
  <2>3. ASSUME NEW t \in trust'
        PROVE  \E b \in Calls : Won(b) /\ t = Origin(b)
    <3>1. CASE t \in trust
      BY <3>1 DEF IInv, LicenseInv, TrustEarned
    <3>2. CASE t \notin trust
      <4>1. PICK c \in Calls : Receive(c)
        BY <1>2, <2>3, <3>2 DEF Next, Step, Refuse, ListAll, Dispatch, GetProvider,
           ReadPerms, Enforce, Enqueue, Announce, Expire, CleanUp, Execute,
           ConvertToDraft, Respond, Disconnect, Take, Send, Publish, DeleteRow,
           Deregister, SetPolicy, SetPaused, vars
      <4>2. chan[c] = "approved" /\ snap[c] = "session" /\ pc[c] = "await" /\ t = Origin(c)
        BY <2>3, <3>2, <4>1 DEF Receive
      <4>3. verdict[c] = "approve"
        BY <4>2 DEF IInv, QueueInv, VerdictDelivered
      <4> QED
        BY <4>2, <4>3
    <3> QED
      BY <3>1, <3>2
  <2>4. \A t \in trust' : \E b \in Calls : Won(b)' /\ t = Origin(b)'
    BY <2>2, <2>3
  <2> QED
    BY <2>4 DEF TrustEarned
<1> QED
  BY <1>1, <1>2

(***************************************************************************)
(* A call keeps its licence until it acts, and acts only with one: every   *)
(* step keeps ActLicensed and EffectNeedsConsent.                          *)
(***************************************************************************)
LEMMA LicenseInductive ==
  ASSUME TypeOK, IInv, [Next]_vars
  PROVE  ActLicensed' /\ EffectNeedsConsent'
<1> USE DEF callVars, queueVars, adminVars
<1> DEFINE Good(c) ==
      /\ pc[c] = "act" => Licensed(c)
      /\ pc[c] = "draft" => snap[c] = "draftify" /\ CatOf(c) = "send"
      /\ effect[c] = "executed" => Licensed(c)
      /\ effect[c] = "drafted" =>
           snap[c] = "draftify" /\ args[c].tool = "send_message" /\ chan[c] = "none"
<1>1. \A c \in Calls : Good(c)
  BY DEF IInv, LicenseInv, ActLicensed, EffectNeedsConsent, Licensed
<1>2. args' = args
  BY DEF Next, Step, Refuse, ListAll, Dispatch, GetProvider, ReadPerms, Enforce,
     Enqueue, Announce, Receive, Expire, CleanUp, Execute, ConvertToDraft, Respond,
     Disconnect, Take, Send, Publish, DeleteRow, Deregister, SetPolicy, SetPaused,
     Restart, vars
<1>3. ASSUME NEW c \in Calls, snap'[c] = snap[c],
             chan'[c] = chan[c], Licensed(c)
      PROVE  Licensed(c)'
  <2>1. (\E b \in Calls : Earned(c, b)) => \E b \in Calls : Earned(c, b)'
    BY EarnedKept DEF IInv
  <2> QED
    BY <1>3, <2>1 DEF Licensed
(* A call that the step does not bring to act or draft. *)
<1>4. ASSUME NEW c \in Calls, snap'[c] = snap[c],
             chan'[c] = chan[c] \/ chan[c] = "empty",
             effect'[c] = effect[c],
             pc'[c] \in {"act", "draft"} => pc'[c] = pc[c]
      PROVE  Good(c)'
  <2>1. CASE chan[c] = "empty"
    <3>1. pc[c] \notin {"act", "draft"} /\ effect[c] \notin {"executed", "drafted"}
      BY <1>1, <2>1 DEF Licensed, IInv, QueueInv, ChannelAfterAsk
    <3> QED
      BY <1>4, <3>1
  <2>2. CASE chan'[c] = chan[c]
    BY <1>1, <1>2, <1>3, <1>4, <2>2 DEF CatOf
  <2> QED
    BY <1>4, <2>1, <2>2
<1>5. ASSUME NEW c \in Calls, effect'[c] = "none", pc'[c] \notin {"act", "draft"}
      PROVE  Good(c)'
  BY <1>5
<1> SUFFICES \A c \in Calls : Good(c)'
  <2> SUFFICES ASSUME \A c \in Calls : Good(c)'
               PROVE  ActLicensed' /\ EffectNeedsConsent'
    OBVIOUS
  <2>1. (VerdictDelivered)'
    BY QueueInvInductive DEF IInv, QueueInv
  <2> QED
    BY <2>1 DEF ActLicensed, EffectNeedsConsent, Licensed, VerdictDelivered
<1> HIDE DEF Good
(* Steps of a handler before it may act: nothing has been done for it yet. *)
<1>6. ASSUME NEW c \in Calls,
             \/ Refuse(c) \/ ListAll(c) \/ Dispatch(c) \/ GetProvider(c)
             \/ ReadPerms(c) \/ Enqueue(c) \/ Announce(c) \/ Expire(c) \/ CleanUp(c)
      PROVE  \A b \in Calls : Good(b)'
  <2> USE DEF Refuse, ListAll, Dispatch, GetProvider, ReadPerms, Enqueue,
              Announce, Expire, CleanUp, Goto, Answer, TypeOK, CallsOK
  <2>1. Good(c)'
    <3>1. effect'[c] = "none"
      BY <1>6 DEF IInv, QueueInv, EffectLate
    <3>2. pc'[c] \notin {"act", "draft"}
      BY <1>6
    <3> QED
      BY <1>5, <3>1, <3>2
  <2>2. ASSUME NEW b \in Calls, b # c
        PROVE  Good(b)'
    <3>1. snap'[b] = snap[b] /\ chan'[b] = chan[b] /\ effect'[b] = effect[b]
          /\ pc'[b] = pc[b]
      BY <1>6, <2>2
    <3> QED
      BY <1>4, <3>1
  <2> QED
    BY <2>1, <2>2
<1>7. ASSUME NEW c \in Calls, Enforce(c)
      PROVE  \A b \in Calls : Good(b)'
  <2> USE DEF Enforce, Goto, Answer, TypeOK, CallsOK
  <2>1. Good(c)'
    <3>1. effect'[c] = "none" /\ chan'[c] = chan[c] /\ chan[c] = "none" /\ snap'[c] = snap[c]
      BY <1>7 DEF IInv, QueueInv, EffectLate, ChannelAfterAsk
    <3>2. CASE pc'[c] = "act"
      <4>1. snap[c] = "allow" \/ (snap[c] = "session" /\ IsTrusted(c))
        BY <1>7, <3>2
      <4>2. Licensed(c)
        BY <3>1, <4>1, TrustedEarned DEF Licensed, IInv, LicenseInv
      <4> QED
        BY <1>3, <3>1, <3>2, <4>2 DEF Good
    <3>3. CASE pc'[c] = "draft"
      <4>1. snap[c] = "draftify" /\ CatOf(c) = "send"
        BY <1>7, <3>3
      <4> QED
        BY <1>2, <3>1, <3>3, <4>1 DEF Good, CatOf
    <3> QED
      BY <1>5, <3>1, <3>2, <3>3
  <2>2. ASSUME NEW b \in Calls, b # c
        PROVE  Good(b)'
    BY <1>4, <1>7, <2>2
  <2> QED
    BY <2>1, <2>2
<1>8. ASSUME NEW c \in Calls, Receive(c)
      PROVE  \A b \in Calls : Good(b)'
  <2> USE DEF Receive, Goto, Answer, TypeOK, CallsOK
  <2>1. Good(c)'
    <3>1. effect'[c] = "none"
      BY <1>8 DEF IInv, QueueInv, EffectLate
    <3>2. pc'[c] \in {"act", "done"} /\ (pc'[c] = "act" => chan'[c] = "approved")
      BY <1>8
    <3> QED
      BY <3>1, <3>2 DEF Good, Licensed
  <2>2. ASSUME NEW b \in Calls, b # c
        PROVE  Good(b)'
    BY <1>4, <1>8, <2>2
  <2> QED
    BY <2>1, <2>2
(* Steps that act. *)
<1>9. ASSUME NEW c \in Calls, Execute(c)
      PROVE  \A b \in Calls : Good(b)'
  <2> USE DEF Execute, Goto, Answer, TypeOK, CallsOK
  <2>1. Good(c)'
    <3>1. Licensed(c)' /\ effect[c] = "none"
      BY <1>1, <1>3, <1>9 DEF Good, IInv, QueueInv, EffectLate
    <3>2. effect'[c] \in {"none", "executed"} /\ pc'[c] \notin {"act", "draft"}
      BY <1>9, <3>1
    <3> QED
      BY <3>1, <3>2 DEF Good
  <2>2. ASSUME NEW b \in Calls, b # c
        PROVE  Good(b)'
    BY <1>4, <1>9, <2>2
  <2> QED
    BY <2>1, <2>2
<1>10. ASSUME NEW c \in Calls, ConvertToDraft(c)
       PROVE  \A b \in Calls : Good(b)'
  <2> USE DEF ConvertToDraft, Goto, Answer, TypeOK, CallsOK
  <2>1. Good(c)'
    <3>1. snap[c] = "draftify" /\ CatOf(c) = "send" /\ effect[c] = "none" /\ chan[c] = "none"
      BY <1>1, <1>10 DEF Good, IInv, QueueInv, EffectLate, ChannelAfterAsk
    <3>2. effect'[c] # "none" => effect'[c] = "drafted" /\ args[c].tool = "send_message"
      BY <1>10, <3>1, CatOfTyped, CategoryTyped DEF CatOf
    <3>3. pc'[c] \notin {"act", "draft"} /\ snap'[c] = snap[c] /\ chan'[c] = chan[c]
      BY <1>10
    <3> QED
      BY <1>2, <3>1, <3>2, <3>3 DEF Good
  <2>2. ASSUME NEW b \in Calls, b # c
        PROVE  Good(b)'
    BY <1>4, <1>10, <2>2
  <2> QED
    BY <2>1, <2>2
(* Steps after it, and steps of the other actors. *)
<1>11. ASSUME NEW c \in Calls, Respond(c) \/ Disconnect(c)
       PROVE  \A b \in Calls : Good(b)'
  BY <1>4, <1>11 DEF Respond, Disconnect, Goto, Answer, TypeOK, CallsOK
<1>12. ASSUME NEW d \in Deciders,
              \/ Send(d) \/ Publish(d)
              \/ \E c \in Calls, v \in Decision : Take(d, c, v)
       PROVE  \A b \in Calls : Good(b)'
  BY <1>4, <1>12 DEF Take, Send, Publish, TypeOK, CallsOK
<1>13. ASSUME NEW a \in Accounts,
             \/ DeleteRow(a) \/ Deregister(a)
             \/ \E t \in Tools, p \in Policies : SetPolicy(a, CategoryOf[t], p)
       PROVE  \A b \in Calls : Good(b)'
  BY <1>4, <1>13 DEF DeleteRow, Deregister, SetPolicy
<1>14. ASSUME NEW x \in BOOLEAN, SetPaused(x)
       PROVE  \A b \in Calls : Good(b)'
  BY <1>4, <1>14 DEF SetPaused
<1>15. CASE Restart
  BY <1>4, <1>15 DEF Restart, TypeOK, CallsOK
<1>16. CASE UNCHANGED vars
  BY <1>4, <1>16 DEF vars
<1> QED
  BY <1>6, <1>7, <1>8, <1>9, <1>10, <1>11, <1>12, <1>13, <1>14, <1>15, <1>16
     DEF Next, Step

(***************************************************************************)
(* The inductive invariant holds in every state the gate can reach.        *)
(***************************************************************************)
THEOREM Invariance == Spec => []IInv
<1>1. Init => IInv
  BY DEF Init, IInv, QueueInv, LicenseInv, ChannelAfterAsk, PendingUndecided,
     VerdictDelivered, TaskCarriesVerdict, EffectLate, ActLicensed, TrustEarned,
     EffectNeedsConsent, Idle
<1>2. TypeOK /\ IInv /\ [Next]_vars => IInv'
  BY QueueInvInductive, TrustInductive, LicenseInductive DEF IInv, LicenseInv
<1> QED
  BY <1>1, <1>2, TypeCorrect, PTL DEF Spec

(***************************************************************************)
(* Consent: whatever the interleaving of calls, decisions, timeouts,       *)
(* policy changes, removals, disconnects and restarts, dispatch reaches a  *)
(* provider only with the consent EffectNeedsConsent describes.            *)
(***************************************************************************)
THEOREM Consented == Spec => []EffectNeedsConsent
BY Invariance, PTL DEF IInv, LicenseInv

(***************************************************************************)
(* Session trust is held only where an approval under Session earned it in *)
(* this lifetime of the daemon.                                            *)
(***************************************************************************)
THEOREM TrustIsEarned == Spec => []TrustEarned
BY Invariance, PTL DEF IInv, LicenseInv

(***************************************************************************)
(* An answered call leaves no entry in the approval queue.                 *)
(***************************************************************************)
THEOREM NoEntryLeft == Spec => []AnsweredLeavesNoEntry
<1>1. IInv => AnsweredLeavesNoEntry
  BY DEF IInv, QueueInv, PendingUndecided, AnsweredLeavesNoEntry
<1> QED
  BY <1>1, Invariance, PTL

(***************************************************************************)
(* decide accepts one decision per approval, and no outcome a call has     *)
(* received, nor its timeout, is overwritten.                              *)
(***************************************************************************)
THEOREM DecisionIsFinal == Spec => DecisionFinal
<1> DEFINE Keeps == \A c \in Calls :
             /\ verdict[c] # "none" => verdict'[c] = verdict[c]
             /\ chan[c] \notin {"none", "empty"} => chan'[c] = chan[c]
<1>1. TypeOK /\ IInv /\ [Next]_vars => [Keeps]_vars
  <2> SUFFICES ASSUME TypeOK, IInv, [Next]_vars, NEW c \in Calls
               PROVE  /\ verdict[c] # "none" => verdict'[c] = verdict[c]
                      /\ chan[c] \notin {"none", "empty"} => chan'[c] = chan[c]
    OBVIOUS
  <2>1. verdict[c] # "none" => verdict'[c] = verdict[c]
    BY EarnedStable DEF IInv
  <2>2. chan[c] \notin {"none", "empty"} => chan'[c] = chan[c]
    <3>1. pc[c] = "ask" => chan[c] = "none"
      BY DEF IInv, QueueInv, ChannelAfterAsk
    <3> QED
      BY <3>1 DEF Next, Step, Refuse, ListAll, Dispatch, GetProvider, ReadPerms,
         Enforce, Enqueue, Announce, Receive, Expire, CleanUp, Execute,
         ConvertToDraft, Respond, Disconnect, Take, Send, Publish, DeleteRow,
         Deregister, SetPolicy, SetPaused, Restart, vars, callVars, queueVars,
         adminVars, TypeOK, CallsOK
  <2> QED
    BY <2>1, <2>2
<1> QED
  BY <1>1, TypeCorrect, Invariance, PTL DEF Spec, DecisionFinal

(***************************************************************************)
(* Whoever waits on an empty channel can still be answered: await_outcome  *)
(* never meets a dropped sender.                                           *)
(***************************************************************************)
THEOREM NoDroppedSender == Spec => []SenderAlive
<1>1. Init => SenderAlive
  BY DEF Init, SenderAlive
<1>2. TypeOK /\ SenderAlive /\ [Next]_vars => SenderAlive'
  <2> SUFFICES ASSUME TypeOK, SenderAlive, [Next]_vars, NEW b \in Calls,
                      pc'[b] \in {"announce", "await"}, chan'[b] = "empty"
               PROVE  \/ b \in pending'
                      \/ \E d \in Deciders : task'[d].step = "send" /\ task'[d].id = b
    BY DEF SenderAlive
  <2> DEFINE Waits == pc[b] \in {"announce", "await"} /\ chan[b] = "empty"
             Served == \/ b \in pending
                       \/ \E d \in Deciders : task[d].step = "send" /\ task[d].id = b
  <2>1. Waits => Served
    BY DEF SenderAlive
  <2> USE DEF callVars, queueVars, adminVars, TypeOK, CallsOK, QueueOK
  <2>2. ASSUME NEW c \in Calls,
               \/ Refuse(c) \/ ListAll(c) \/ Dispatch(c) \/ GetProvider(c)
               \/ ReadPerms(c) \/ Enforce(c) \/ Execute(c) \/ ConvertToDraft(c)
               \/ Respond(c) \/ Disconnect(c) \/ Expire(c) \/ Announce(c)
               \/ Receive(c)
        PROVE  Served'
    <3>1. UNCHANGED <<pending, task>>
      BY <2>2 DEF Refuse, ListAll, Dispatch, GetProvider, ReadPerms, Enforce,
         Execute, ConvertToDraft, Respond, Disconnect, Expire, Announce, Receive
    <3>2. Waits
      BY <2>2 DEF Refuse, ListAll, Dispatch, GetProvider, ReadPerms, Enforce,
         Execute, ConvertToDraft, Respond, Disconnect, Expire, Announce, Receive,
         Goto, Answer
    <3> QED
      BY <2>1, <3>1, <3>2
  <2>3. ASSUME NEW c \in Calls, Enqueue(c)
        PROVE  Served'
    BY <2>1, <2>3 DEF Enqueue, Goto
  <2>4. ASSUME NEW c \in Calls, CleanUp(c)
        PROVE  Served'
    BY <2>1, <2>4 DEF CleanUp, Answer, Goto
  <2>5. ASSUME NEW d \in Deciders, NEW c \in Calls, NEW v \in Decision, Take(d, c, v)
        PROVE  Served'
    <3>1. Waits
      BY <2>5 DEF Take
    <3>2. CASE b \in pending
      BY <2>5, <3>2 DEF Take
    <3>3. ASSUME NEW e \in Deciders, task[e].step = "send", task[e].id = b
          PROVE  Served'
      <4>1. e # d
        BY <2>5, <3>3 DEF Take, Idle
      <4> QED
        BY <2>5, <3>3, <4>1 DEF Take
    <3> QED
      BY <2>1, <3>1, <3>2, <3>3
  <2>6. ASSUME NEW d \in Deciders, Send(d)
        PROVE  Served'
    <3>1. task[d].id \in Calls
      BY <2>6 DEF Send, Idle
    <3>2. Waits /\ b # task[d].id
      BY <2>6, <3>1 DEF Send, Outcome
    <3>3. ASSUME NEW e \in Deciders, task[e].step = "send", task[e].id = b
          PROVE  Served'
      BY <2>6, <3>2, <3>3 DEF Send
    <3> QED
      BY <2>1, <2>6, <3>2, <3>3 DEF Send
  <2>7. ASSUME NEW d \in Deciders, Publish(d)
        PROVE  Served'
    <3>1. Waits
      BY <2>7 DEF Publish
    <3>2. ASSUME NEW e \in Deciders, task[e].step = "send", task[e].id = b
          PROVE  Served'
      BY <2>7, <3>2 DEF Publish
    <3> QED
      BY <2>1, <2>7, <3>1, <3>2 DEF Publish
  <2>8. ASSUME NEW a \in Accounts,
             \/ DeleteRow(a) \/ Deregister(a)
             \/ \E t \in Tools, p \in Policies : SetPolicy(a, CategoryOf[t], p)
        PROVE  Served'
    BY <2>1, <2>8 DEF DeleteRow, Deregister, SetPolicy
  <2>9. ASSUME NEW x \in BOOLEAN, SetPaused(x)
        PROVE  Served'
    BY <2>1, <2>9 DEF SetPaused
  <2>10. CASE Restart
    BY <2>10 DEF Restart
  <2>11. CASE UNCHANGED vars
    BY <2>1, <2>11 DEF vars
  <2> QED
    BY <2>2, <2>3, <2>4, <2>5, <2>6, <2>7, <2>8, <2>9, <2>10, <2>11 DEF Next, Step
<1> QED
  BY <1>1, <1>2, TypeCorrect, PTL DEF Spec

(***************************************************************************)
(* Refinement: the queue with its lock, channels, timers and two-step      *)
(* decisions implements Consent.                                           *)
(***************************************************************************)
THEOREM Refinement == Spec => ImplementsConsent
<1>1. Init => Abstract!Init
  BY DEF Init, Abstract!Init, Asking
<1>2. TypeOK /\ IInv /\ [Next]_vars => [Abstract!Next]_(Abstract!vars)
  <2> SUFFICES ASSUME TypeOK, IInv, [Next]_vars
               PROVE  [Abstract!Next]_(Abstract!vars)
    OBVIOUS
  <2> USE DEF callVars, queueVars, adminVars, TypeOK, CallsOK, QueueOK
  <2> DEFINE asking == [c \in Calls |-> Asking(c)]
  (* Steps Consent does not see. *)
  <2>1. ASSUME UNCHANGED <<chan, verdict, effect>>
        PROVE  UNCHANGED Abstract!vars
    BY <2>1 DEF Abstract!vars, Asking
  <2>2. ASSUME NEW c \in Calls,
               \/ Refuse(c) \/ ListAll(c) \/ Dispatch(c) \/ GetProvider(c)
               \/ ReadPerms(c) \/ Enforce(c) \/ Respond(c) \/ Announce(c)
               \/ Receive(c) \/ CleanUp(c)
        PROVE  UNCHANGED Abstract!vars
    BY <2>1, <2>2 DEF Refuse, ListAll, Dispatch, GetProvider, ReadPerms, Enforce,
                      Respond, Announce, Receive, CleanUp
  <2>3. ASSUME NEW a \in Accounts,
             \/ DeleteRow(a) \/ Deregister(a)
             \/ \E t \in Tools, p \in Policies : SetPolicy(a, CategoryOf[t], p)
        PROVE  UNCHANGED Abstract!vars
    BY <2>1, <2>3 DEF DeleteRow, Deregister, SetPolicy
  <2>4. ASSUME NEW x \in BOOLEAN, SetPaused(x)
        PROVE  UNCHANGED Abstract!vars
    BY <2>1, <2>4 DEF SetPaused
  <2>5. ASSUME NEW d \in Deciders, Publish(d)
        PROVE  UNCHANGED Abstract!vars
    BY <2>1, <2>5 DEF Publish
  (* A value sent into the channel leaves the call waiting. *)
  <2>6. ASSUME NEW d \in Deciders, Send(d)
        PROVE  UNCHANGED Abstract!vars
    <3>1. asking' = asking
      BY <2>6 DEF Send, Asking, Outcome
    <3> QED
      BY <2>6, <3>1 DEF Send, Abstract!vars
  (* Steps of Consent. *)
  <2>7. ASSUME NEW c \in Calls, Enqueue(c)
        PROVE  Abstract!Ask(c)
    <3>1. chan[c] = "none" /\ effect[c] = "none"
      BY <2>7 DEF Enqueue, IInv, QueueInv, ChannelAfterAsk, EffectLate
    <3>2. asking' = [asking EXCEPT ![c] = "waiting"]
      BY <2>7, <3>1 DEF Enqueue, Asking
    <3> QED
      BY <2>7, <3>1, <3>2 DEF Enqueue, Abstract!Ask, Asking
  <2>8. ASSUME NEW d \in Deciders, NEW c \in Calls, NEW v \in Decision, Take(d, c, v)
        PROVE  Abstract!Decide(c, v)
    <3>1. chan[c] # "none" /\ verdict[c] = "none"
      BY <2>8 DEF Take, IInv, QueueInv, PendingUndecided
    <3>2. asking[c] # "unasked" /\ asking' = asking
      BY <2>8, <3>1 DEF Take, Asking
    <3> QED
      BY <2>8, <3>1, <3>2 DEF Take, Abstract!Decide
  <2>9. ASSUME NEW c \in Calls, Execute(c) \/ ConvertToDraft(c)
        PROVE  \/ UNCHANGED Abstract!vars
               \/ \E e \in {"executed", "drafted"} : Abstract!Act(c, e)
    <3>1. effect[c] = "none"
      BY <2>9 DEF Execute, ConvertToDraft, IInv, QueueInv, EffectLate
    <3>2. chan[c] = "none" \/ (chan[c] = "approved" /\ verdict[c] = "approve")
      BY <2>9 DEF Execute, ConvertToDraft, IInv, QueueInv, LicenseInv, ActLicensed,
                  Licensed, ChannelAfterAsk, VerdictDelivered
    <3>3. asking[c] = "unasked" \/ (asking[c] = "waiting" /\ verdict[c] = "approve")
      BY <3>2 DEF Asking
    <3>4. asking' = asking /\ verdict' = verdict
      BY <2>9 DEF Execute, ConvertToDraft, Asking
    <3>5. \/ effect' = effect
          \/ effect' = [effect EXCEPT ![c] = "executed"]
          \/ effect' = [effect EXCEPT ![c] = "drafted"]
      BY <2>9 DEF Execute, ConvertToDraft
    <3> QED
      BY <3>1, <3>3, <3>4, <3>5 DEF Abstract!Act, Abstract!vars
  <2>10. ASSUME NEW S \in SUBSET Calls, \A c \in S : chan[c] = "empty",
                \A c \in Calls : IF c \in S THEN chan'[c] \in {"timeout", "closed"}
                                           ELSE chan'[c] = chan[c],
                UNCHANGED <<verdict, effect>>
         PROVE  UNCHANGED Abstract!vars \/ Abstract!Lapse(S)
    <3>1. asking' = [c \in Calls |-> IF c \in S THEN "lapsed" ELSE asking[c]]
      BY <2>10 DEF Asking
    <3>2. \A c \in S : asking[c] = "waiting"
      BY <2>10 DEF Asking
    <3>3. CASE S = {}
      BY <2>10, <3>1, <3>3 DEF Abstract!vars
    <3>4. CASE S # {}
      BY <2>10, <3>1, <3>2, <3>4 DEF Abstract!Lapse
    <3> QED
      BY <3>3, <3>4
  <2>11. ASSUME NEW c \in Calls, Expire(c) \/ Disconnect(c)
         PROVE  \E S \in SUBSET Calls : UNCHANGED Abstract!vars \/ Abstract!Lapse(S)
    <3> DEFINE S == {b \in {c} : chan[b] = "empty"}
    <3>1. UNCHANGED <<verdict, effect>> /\ \A b \in Calls :
            IF b \in S THEN chan'[b] \in {"timeout", "closed"} ELSE chan'[b] = chan[b]
      BY <2>11 DEF Expire, Disconnect
    <3>2. UNCHANGED Abstract!vars \/ Abstract!Lapse(S)
      BY <2>10, <3>1
    <3> QED
      BY <3>2
  <2>12. CASE Restart
    <3> DEFINE S == {b \in Calls : chan[b] = "empty"}
    <3>1. UNCHANGED <<verdict, effect>> /\ \A b \in Calls :
            IF b \in S THEN chan'[b] \in {"timeout", "closed"} ELSE chan'[b] = chan[b]
      BY <2>12 DEF Restart
    <3>2. UNCHANGED Abstract!vars \/ Abstract!Lapse(S)
      BY <2>10, <3>1
    <3> QED
      BY <3>2 DEF Abstract!Next
  <2>13. CASE UNCHANGED vars
    BY <2>1, <2>13 DEF vars
  <2> QED
    BY <2>2, <2>3, <2>4, <2>5, <2>6, <2>7, <2>8, <2>9, <2>11, <2>12, <2>13
       DEF Next, Step, Abstract!Next, Decision
<1> QED
  BY <1>1, <1>2, TypeCorrect, Invariance, PTL DEF Spec, ImplementsConsent, Abstract!Spec

-----------------------------------------------------------------------------
(***************************************************************************)
(* What the replies say.                                                   *)
(***************************************************************************)
\* A reply ends the handler, and a handler that waits for the provider has
\* asked it for something.
RepliesLast ==
  \A c \in Calls :
    /\ reply[c] # "none" => pc[c] \in {"done", "past"}
    /\ pc[c] = "provider" => effect[c] # "none"

\* No step spoils a reply that was true, and no handler replies what is not.
LEMMA ReplyInductive ==
  TypeOK /\ IInv /\ RepliesLast /\ ReplyTruthful /\ [Next]_vars
    => RepliesLast' /\ ReplyTruthful'
<1> SUFFICES ASSUME TypeOK, IInv, RepliesLast, ReplyTruthful, [Next]_vars
             PROVE  RepliesLast' /\ ReplyTruthful'
  OBVIOUS
<1>1. CallsOK /\ EffectLate
  BY DEF TypeOK, IInv, QueueInv
<1> USE DEF CallsOK
<1>2. ASSUME NEW c \in Calls,
             Refuse(c) \/ ListAll(c) \/ Dispatch(c) \/ GetProvider(c) \/ ReadPerms(c) \/ Enforce(c)
      PROVE  RepliesLast' /\ ReplyTruthful'
  <2>1. effect[c] = "none" /\ effect' = effect /\ args' = args
    BY <1>1, <1>2 DEF EffectLate, Refuse, ListAll, Dispatch, GetProvider, ReadPerms, Enforce
  <2>2. \A b \in Calls : b # c => reply'[b] = reply[b] /\ pc'[b] = pc[b]
    BY <1>1, <1>2 DEF Refuse, ListAll, Dispatch, GetProvider, ReadPerms, Enforce, Answer, Goto
  <2>3. /\ pc'[c] # "provider"
        /\ \/ reply'[c] = "none"
           \/ /\ pc'[c] = "done"
              /\ \/ reply'[c] \in {"paused", "not_found", "blocked", "error"}
                 \/ reply'[c] = "ok" /\ args[c].tool = "list_accounts"
    BY <1>1, <1>2 DEF Refuse, ListAll, Dispatch, GetProvider, ReadPerms, Enforce, Answer, Goto, RepliesLast
  <2>4. RepliesLast'
    BY <1>1, <2>1, <2>2, <2>3 DEF RepliesLast
  <2>5. ReplyTruthful'
    BY <1>1, <2>1, <2>2, <2>3 DEF ReplyTruthful
  <2> QED
    BY <2>4, <2>5
<1>3. ASSUME NEW c \in Calls,
             Enqueue(c) \/ Announce(c) \/ Receive(c) \/ Expire(c) \/ CleanUp(c) \/ Disconnect(c)
      PROVE  RepliesLast' /\ ReplyTruthful'
  <2>1. /\ effect' = effect /\ args' = args
        /\ pc[c] \notin {"provider", "done", "gone", "past"} => effect[c] = "none"
    BY <1>1, <1>3 DEF EffectLate, Enqueue, Announce, Receive, Expire, CleanUp, Disconnect
  <2>2. \A b \in Calls : b # c => reply'[b] = reply[b] /\ pc'[b] = pc[b]
    BY <1>1, <1>3 DEF Enqueue, Announce, Receive, Expire, CleanUp, Disconnect, Answer, Goto
  <2>3. /\ pc'[c] # "provider" /\ reply[c] = "none"
        /\ \/ reply'[c] = "none"
           \/ pc'[c] = "done" /\ reply'[c] = "blocked" /\ effect[c] = "none"
    BY <1>1, <1>3, <2>1 DEF Enqueue, Announce, Receive, Expire, CleanUp, Disconnect, Answer, Goto, RepliesLast
  <2>4. RepliesLast'
    BY <1>1, <2>1, <2>2, <2>3 DEF RepliesLast
  <2>5. ReplyTruthful'
    BY <1>1, <2>1, <2>2, <2>3 DEF ReplyTruthful
  <2> QED
    BY <2>4, <2>5
<1>4. ASSUME NEW c \in Calls, Execute(c) \/ ConvertToDraft(c)
      PROVE  RepliesLast' /\ ReplyTruthful'
  <2>1. effect[c] = "none" /\ reply[c] = "none" /\ args' = args
    BY <1>1, <1>4 DEF EffectLate, RepliesLast, Execute, ConvertToDraft
  <2>2. \A b \in Calls : b # c => reply'[b] = reply[b] /\ pc'[b] = pc[b] /\ effect'[b] = effect[b]
    BY <1>1, <1>4 DEF Execute, ConvertToDraft, Answer, Goto
  <2>3. \/ reply'[c] = "none" /\ pc'[c] = "provider" /\ effect'[c] # "none"
        \/ reply'[c] = "error" /\ pc'[c] = "done" /\ effect'[c] = "none"
        \/ reply'[c] = "send_held" /\ pc'[c] = "done" /\ effect'[c] = "none"
    BY <1>1, <1>4, <2>1 DEF Execute, ConvertToDraft, Answer, Goto
  <2>4. RepliesLast'
    BY <1>1, <2>1, <2>2, <2>3 DEF RepliesLast
  <2>5. ReplyTruthful'
    BY <1>1, <2>1, <2>2, <2>3 DEF ReplyTruthful
  <2> QED
    BY <2>4, <2>5
<1>5. ASSUME NEW c \in Calls, Respond(c)
      PROVE  RepliesLast' /\ ReplyTruthful'
  <2>1. effect[c] \in {"executed", "drafted"} /\ effect' = effect /\ args' = args
    BY <1>1, <1>5 DEF RepliesLast, Respond
  <2>2. \A b \in Calls : b # c => reply'[b] = reply[b] /\ pc'[b] = pc[b]
    BY <1>1, <1>5 DEF Respond, Answer, Goto
  <2>3. /\ pc'[c] = "done"
        /\ \/ reply'[c] = "error"
           \/ reply'[c] = "draft_created" /\ effect[c] = "drafted"
           \/ reply'[c] = "ok" /\ effect[c] = "executed"
    BY <1>1, <1>5, <2>1 DEF Respond, Answer, Goto
  <2>4. RepliesLast'
    BY <1>1, <2>1, <2>2, <2>3 DEF RepliesLast
  <2>5. ReplyTruthful'
    BY <1>1, <2>1, <2>2, <2>3 DEF ReplyTruthful
  <2> QED
    BY <2>4, <2>5
<1>6. CASE UNCHANGED <<args, pc, effect, reply>>
  BY <1>6 DEF RepliesLast, ReplyTruthful
<1>7. CASE Restart
  BY <1>1, <1>7 DEF Restart, RepliesLast, ReplyTruthful
<1>8. ASSUME NEW d \in Deciders,
             Send(d) \/ Publish(d) \/ \E c \in Calls, v \in Decision : Take(d, c, v)
      PROVE  UNCHANGED <<args, pc, effect, reply>>
  BY <1>8 DEF Send, Publish, Take, callVars
<1>9. ASSUME \/ UNCHANGED vars
             \/ \E a \in Accounts : \/ DeleteRow(a) \/ Deregister(a)
                                    \/ \E t \in Tools, p \in Policies : SetPolicy(a, CategoryOf[t], p)
             \/ \E b \in BOOLEAN : SetPaused(b)
      PROVE  UNCHANGED <<args, pc, effect, reply>>
  BY <1>9 DEF vars, callVars, DeleteRow, Deregister, SetPolicy, SetPaused
<1> QED
  BY <1>2, <1>3, <1>4, <1>5, <1>6, <1>7, <1>8, <1>9 DEF Next, Step

\* The reply to the MCP host says what was done: ok, draft_created and send_held
\* of dispatch are true, and a refused call left no trace.
THEOREM RepliesTrue == Spec => []ReplyTruthful
<1>1. Init => RepliesLast /\ ReplyTruthful
  BY DEF Init, RepliesLast, ReplyTruthful
<1> QED
  BY <1>1, ReplyInductive, TypeCorrect, Invariance, PTL DEF Spec
-----------------------------------------------------------------------------
(***************************************************************************)
(* What a handler does, it does once.                                      *)
(***************************************************************************)
\* The provider is asked at most once for a call, the call is answered at most
\* once, and after the answer nothing is done on its behalf any more: execute and
\* ConvertToDraft of dispatch are reached once, by no retry, late decision or
\* restart a second time.
AnswerIsLast ==
  [][\A c \in Calls :
       /\ effect[c] # "none" => effect'[c] = effect[c]
       /\ reply[c] # "none" => reply'[c] = reply[c] /\ effect'[c] = effect[c]]_vars

\* Only Execute and ConvertToDraft touch an effect, only answers touch a reply, and
\* both are out of reach of a call that has one.
THEOREM ActsOnce == Spec => AnswerIsLast
<1> DEFINE Keeps(c) == /\ effect[c] # "none" => effect'[c] = effect[c]
                       /\ reply[c] # "none" => reply'[c] = reply[c] /\ effect'[c] = effect[c]
<1>1. TypeOK /\ IInv /\ RepliesLast /\ [Next]_vars => [\A c \in Calls : Keeps(c)]_vars
  <2> SUFFICES ASSUME TypeOK, IInv, RepliesLast, [Next]_vars, NEW c \in Calls
               PROVE  Keeps(c)
    OBVIOUS
  <2>1. /\ effect[c] # "none" => pc[c] \in {"provider", "done", "gone", "past"}
        /\ reply[c] # "none" => pc[c] \in {"done", "past"}
    BY DEF IInv, QueueInv, EffectLate, RepliesLast
  <2> QED
    BY <2>1 DEF Next, Step, Refuse, ListAll, Dispatch, GetProvider, ReadPerms,
       Enforce, Enqueue, Announce, Receive, Expire, CleanUp, Execute,
       ConvertToDraft, Respond, Disconnect, Take, Send, Publish, DeleteRow,
       Deregister, SetPolicy, SetPaused, Restart, Answer, Goto, vars, callVars,
       queueVars, adminVars, TypeOK, CallsOK
<1>2. Init => RepliesLast /\ ReplyTruthful
  BY DEF Init, RepliesLast, ReplyTruthful
<1> QED
  BY <1>1, <1>2, ReplyInductive, TypeCorrect, Invariance, PTL DEF Spec, AnswerIsLast
-----------------------------------------------------------------------------
(***************************************************************************)
(* No handler is stuck: the part of EveryCallSettles that is not about     *)
(* fairness.                                                               *)
(***************************************************************************)
\* How far a handler has come.
Stage ==
  [new |-> 0, resolve |-> 1, perms |-> 2, enforce |-> 3, ask |-> 4, announce |-> 5,
   await |-> 6, expired |-> 7, act |-> 8, draft |-> 8, provider |-> 9, done |-> 10,
   gone |-> 10, past |-> 11]

\* A handler of handle_post and dispatch only moves forward, whoever else runs
\* meanwhile: no decision, policy change or restart makes it repeat a stage, so it
\* takes at most as many steps as there are stages.
HandlersAdvance ==
  [][\A c \in Calls : pc'[c] # pc[c] => Stage[pc[c]] < Stage[pc'[c]]]_vars

\* Whatever stands between two stages leads on to a later one.
THEOREM NoStageRepeated == Spec => HandlersAdvance
<1> DEFINE On(c) == pc'[c] # pc[c] => Stage[pc[c]] < Stage[pc'[c]]
<1>1. TypeOK /\ [Next]_vars => [\A c \in Calls : On(c)]_vars
  <2> SUFFICES ASSUME TypeOK, [Next]_vars, NEW c \in Calls
               PROVE  On(c)
    OBVIOUS
  <2>1. pc \in [Calls -> {"new", "resolve", "perms", "enforce", "ask", "announce",
                          "await", "expired", "act", "draft", "provider", "done",
                          "gone", "past"}]
    BY DEF TypeOK, CallsOK
  <2>2. ASSUME NEW b \in Calls,
               \/ Refuse(b) \/ ListAll(b) \/ Dispatch(b) \/ GetProvider(b)
               \/ ReadPerms(b) \/ Enforce(b) \/ Enqueue(b) \/ Announce(b)
        PROVE  On(c)
    BY <2>1, <2>2 DEF Refuse, ListAll, Dispatch, GetProvider, ReadPerms, Enforce,
       Enqueue, Announce, Answer, Goto, Stage
  <2>3. ASSUME NEW b \in Calls,
               \/ Receive(b) \/ Expire(b) \/ CleanUp(b) \/ Execute(b)
               \/ ConvertToDraft(b) \/ Respond(b)
        PROVE  On(c)
    BY <2>1, <2>3 DEF Receive, Expire, CleanUp, Execute, ConvertToDraft, Respond,
       Answer, Goto, Stage
  <2>4. ASSUME NEW b \in Calls, Disconnect(b)
        PROVE  On(c)
    BY <2>1, <2>4 DEF Disconnect, Goto, Stage
  <2>5. CASE Restart
    BY <2>1, <2>5 DEF Restart, Stage
  <2>6. CASE UNCHANGED pc
    BY <2>6
  <2>7. ASSUME \/ \E d \in Deciders : \/ \E b \in Calls, v \in Decision : Take(d, b, v)
                                      \/ Send(d) \/ Publish(d)
               \/ \E a \in Accounts : \/ DeleteRow(a) \/ Deregister(a)
                                      \/ \E t \in Tools, p \in Policies :
                                           SetPolicy(a, CategoryOf[t], p)
               \/ \E b \in BOOLEAN : SetPaused(b)
               \/ UNCHANGED vars
        PROVE  UNCHANGED pc
    BY <2>7 DEF Take, Send, Publish, DeleteRow, Deregister, SetPolicy, SetPaused,
       vars, callVars
  <2> QED
    BY <2>2, <2>3, <2>4, <2>5, <2>6, <2>7 DEF Next, Step
<1> QED
  BY <1>1, TypeCorrect, PTL DEF Spec, HandlersAdvance

\* The guard of one of the handler's own steps holds for c.
Ready(c) ==
  \/ pc[c] \in {"resolve", "perms", "ask", "announce", "expired", "act", "draft"}
  \/ pc[c] = "enforce" /\ snap[c] \in Policy
  \/ pc[c] = "await" /\ chan[c] \in {"empty", "approved", "rejected"}

\* A call that dispatch has admitted and that has not come to its provider or its
\* end can go on: the policy enforce looks at was read, and the channel that
\* await_outcome waits on has neither been closed nor timed out, so there is an
\* outcome to receive or a timer that can still fire.
NoHandlerStuck ==
  \A c \in Calls :
    pc[c] \in {"new", "provider", "done", "gone", "past"} \/ Ready(c)

\* What makes it inductive: a policy has been read before enforce, and the channel
\* of a call on its way to await_outcome is open or holds a decision.
Awaited ==
  \A c \in Calls :
    /\ pc[c] = "enforce" => snap[c] \in Policy
    /\ pc[c] \in {"announce", "await"} => chan[c] \in {"empty", "approved", "rejected"}

\* Steps of other handlers, of decide requests and of the daemon leave the channel
\* of a waiting call open or decided.
THEOREM NoneStuck == Spec => []NoHandlerStuck
<1>1. Init => Awaited
  BY DEF Init, Awaited
<1>2. TypeOK /\ Awaited /\ [Next]_vars => Awaited'
  <2> SUFFICES ASSUME TypeOK, Awaited, [Next]_vars, NEW c \in Calls
               PROVE  /\ pc'[c] = "enforce" => snap'[c] \in Policy
                      /\ pc'[c] \in {"announce", "await"} =>
                           chan'[c] \in {"empty", "approved", "rejected"}
    BY DEF Awaited
  <2>1. /\ pc[c] = "enforce" => snap[c] \in Policy
        /\ pc[c] \in {"announce", "await"} => chan[c] \in {"empty", "approved", "rejected"}
    BY DEF Awaited
  <2>2. pc'[c] = "enforce" => snap'[c] \in Policy
    <3>1. \A b \in Calls : ForAccount(args[b].account, CatOf(b)) \in Policy
      BY CatOfTyped, DefaultTyped DEF ForAccount, TypeOK, CallsOK, AdminOK
    <3> QED
      BY <2>1, <3>1 DEF Next, Step, Refuse, ListAll, Dispatch, GetProvider, ReadPerms,
         Enforce, Enqueue, Announce, Receive, Expire, CleanUp, Execute,
         ConvertToDraft, Respond, Disconnect, Take, Send, Publish, DeleteRow,
         Deregister, SetPolicy, SetPaused, Restart, Answer, Goto, vars, callVars,
         queueVars, adminVars, TypeOK, CallsOK
  <2>3. pc'[c] \in {"announce", "await"} => chan'[c] \in {"empty", "approved", "rejected"}
    BY <2>1 DEF Next, Step, Refuse, ListAll, Dispatch, GetProvider, ReadPerms,
       Enforce, Enqueue, Announce, Receive, Expire, CleanUp, Execute,
       ConvertToDraft, Respond, Disconnect, Take, Send, Publish, DeleteRow,
       Deregister, SetPolicy, SetPaused, Restart, Answer, Goto, Outcome, vars,
       callVars, queueVars, adminVars, TypeOK, CallsOK
  <2> QED
    BY <2>2, <2>3
<1>3. TypeOK /\ Awaited => NoHandlerStuck
  BY DEF TypeOK, CallsOK, Awaited, NoHandlerStuck, Ready
<1> QED
  BY <1>1, <1>2, <1>3, TypeCorrect, PTL DEF Spec

\* The part of RemovalCompletes that is not about fairness.  A tool call finds the
\* provider of an account without a row only while accounts.remove has yet to
\* deregister it, also when the daemon died in between and hydrated again.
RemovalUnderWay == providers \subseteq row \cup removing /\ row \cap removing = {}

\* And an account that has neither row nor provider never gets one back.
RemovedForGood ==
  [][\A a \in Accounts : a \notin row \cup providers => a \notin row' \cup providers']_vars

\* accounts.remove forgets an account for good (remove_account, hydrate_providers).
THEOREM RemovalHolds == Spec => []RemovalUnderWay /\ RemovedForGood
<1> DEFINE Same == UNCHANGED <<row, removing, providers>>
           Kept == \A a \in Accounts : a \notin row \cup providers => a \notin row' \cup providers'
<1>1. Init => RemovalUnderWay
  BY DEF Init, RemovalUnderWay
<1>2. RemovalUnderWay /\ [Next]_vars => RemovalUnderWay' /\ Kept
  <2> SUFFICES ASSUME RemovalUnderWay, [Next]_vars PROVE RemovalUnderWay' /\ Kept
    OBVIOUS
  <2>1. Same => RemovalUnderWay' /\ Kept
    BY DEF RemovalUnderWay
  <2>2. ASSUME NEW a \in Accounts, DeleteRow(a) PROVE RemovalUnderWay' /\ Kept
    BY <2>2 DEF DeleteRow, RemovalUnderWay
  <2>3. ASSUME NEW a \in Accounts, Deregister(a) PROVE RemovalUnderWay' /\ Kept
    BY <2>3 DEF Deregister, RemovalUnderWay
  <2>4. CASE Restart
    BY <2>4 DEF Restart, RemovalUnderWay
  <2>5. ASSUME NEW c \in Calls, \/ Refuse(c) \/ ListAll(c) \/ Step(c)
                                \/ Respond(c) \/ Disconnect(c)
        PROVE  Same
    BY <2>5 DEF Step, Refuse, ListAll, Dispatch, GetProvider, ReadPerms, Enforce, Enqueue,
       Announce, Receive, Expire, CleanUp, Execute, ConvertToDraft, Respond, Disconnect,
       adminVars
  <2>6. ASSUME NEW d \in Deciders, \/ \E c \in Calls, v \in Decision : Take(d, c, v)
                                   \/ Send(d) \/ Publish(d)
        PROVE  Same
    BY <2>6 DEF Take, Send, Publish, adminVars
  <2>7. ASSUME \/ \E a, k, p : SetPolicy(a, k, p)
               \/ \E b \in BOOLEAN : SetPaused(b)
               \/ UNCHANGED vars
        PROVE  Same
    BY <2>7 DEF SetPolicy, SetPaused, vars, adminVars
  <2> HIDE DEF Same, Kept
  <2> QED
    BY <2>1, <2>2, <2>3, <2>4, <2>5, <2>6, <2>7 DEF Next
<1> QED
  BY <1>1, <1>2, PTL DEF Spec, RemovedForGood
=============================================================================
