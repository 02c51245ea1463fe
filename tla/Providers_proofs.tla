-------------------------- MODULE Providers_proofs --------------------------
(***************************************************************************)
(* Proofs about GmailProvider and GraphProvider, for any finite sets of    *)
(* messages and drafts, any contents, labels, callers and number of calls. *)
(***************************************************************************)
EXTENDS Providers, Naturals, Sequences, FiniteSetTheorems, SequenceTheorems, TLAPS

Item == Msgs \union DraftIds

AnyArg ==
  UserLabels \union Folders \union Labels \union Moves \union Contents
    \union DraftIds \union (DraftIds \X Contents) \union {None}

CallType ==
  [tool : Triage \union Compose \union Reads \union {None}, arg : AnyArg,
   on : BOOLEAN, ids : Seq(Item), n : Nat, result : {"running", "ok", "error"}]

\* What both providers keep: the calls, the drafts and what went out.
Common ==
  /\ call \in [Callers -> CallType] /\ done \in [Callers -> Nat]
  /\ drafts \in [DraftIds -> Contents \union {None}]
  /\ sent \in [Contents -> Nat]

\* A batch that runs has a next message, and has changed those before it.
Batch ==
  \A c \in Callers : call[c].tool \in Triage =>
    /\ call[c].ids \in Seq(Msgs)
    /\ call[c].result = "running" => call[c].n < Len(call[c].ids) /\ done[c] = call[c].n
    /\ call[c].result = "ok" => call[c].n = Len(call[c].ids) /\ done[c] = call[c].n
    /\ done[c] \in {call[c].n, call[c].n + 1}

\* One effect ends a tool that composes.
OneEffect ==
  \A c \in Callers : call[c].tool \in Compose =>
    /\ done[c] <= 1
    /\ call[c].result = "running" => done[c] = 0
    /\ call[c].result = "ok" => done[c] = 1

\* A read has collected what it listed, up to the entry it fetches next.
Collected ==
  /\ out \in [Callers -> Seq(Item)]
  /\ \A c \in Callers : call[c].tool \in Reads =>
       /\ call[c].result = "running" /\ call[c].n = 0 => out[c] = <<>>
       /\ call[c].result = "running" /\ call[c].n > 0 =>
            /\ Len(out[c]) = call[c].n - 1 /\ Len(out[c]) <= Len(call[c].ids)
            /\ \A i \in 1 .. Len(out[c]) : out[c][i] = call[c].ids[i]
       /\ call[c].result = "ok" => out[c] = call[c].ids

GmailArgs ==
  \A c \in Callers : call[c].tool # None => call[c].arg \in Gmail!Args(call[c].tool)

GmailInv ==
  /\ Common /\ Batch /\ OneEffect /\ Collected /\ GmailArgs
  /\ labelIds \in [Msgs -> SUBSET (Gmail!System \union UserLabels)]

GraphArgs ==
  \A c \in Callers : call[c].tool # None => call[c].arg \in Graph!Args(call[c].tool)

\* The drafts that a send_message created and that are gone.
Gone == {d \in DraftIds : drafts[d] = None /\ \E c \in Callers : made[c] = d}

Accounted ==
  /\ made \in [Callers -> DraftIds \union {None}]
  /\ IsFiniteSet(Graph!Sendings) /\ Cardinality(Gone) <= Cardinality(Graph!Sendings)

Seen == {Graph!Unread} \union SUBSET Labels

Mail == [read : BOOLEAN, flag : Graph!Flags, categories : SUBSET Labels,
         folder : Graph!WellKnown]

GraphInv ==
  /\ Common /\ Batch /\ OneEffect /\ GraphArgs /\ Accounted
  /\ seen \in [Callers -> Seen] /\ mail \in [Msgs -> Mail]
------------------------------------------------------------------------------
(***************************************************************************)
(* Lists of messages and arguments.                                        *)
(***************************************************************************)
\* The modules count alike.
LEMMA SameCardinality ==
  \A S : Gmail!Cardinality(S) = Cardinality(S) /\ Graph!Cardinality(S) = Cardinality(S)
  BY DEF Cardinality, Gmail!Cardinality, Graph!Cardinality

\* A batch names at least one message.
LEMMA BatchesAreSeqs ==
  /\ \A s \in Gmail!Batches : s \in Seq(Msgs) /\ s \in Seq(Item) /\ Len(s) > 0
  /\ Graph!Batches = Gmail!Batches
<1>1. ASSUME NEW m \in Msgs PROVE <<m>> \in Seq(Msgs) /\ <<m>> \in Seq(Item) /\ Len(<<m>>) > 0
  BY DEF Item
<1>2. ASSUME NEW s \in Msgs \X Msgs PROVE s \in Seq(Msgs) /\ s \in Seq(Item) /\ Len(s) > 0
  <2>1. PICK a \in Msgs, b \in Msgs : s = <<a, b>>
    OBVIOUS
  <2> QED
    BY <2>1 DEF Item
<1>3. Graph!Batches = Gmail!Batches
  BY DEF Graph!Batches, Gmail!Batches
<1> QED
  BY <1>1, <1>2, <1>3 DEF Gmail!Batches

\* The arguments of every tool are arguments.
LEMMA ArgsAreArgs ==
  \A t \in Triage \union Compose \union Reads :
    Gmail!Args(t) \subseteq AnyArg /\ Graph!Args(t) \subseteq AnyArg
<1> SUFFICES ASSUME NEW t \in Triage \union Compose \union Reads
             PROVE  Gmail!Args(t) \subseteq AnyArg /\ Graph!Args(t) \subseteq AnyArg
  OBVIOUS
<1>1. CASE t = "label"
  BY <1>1 DEF AnyArg, Gmail!Args, Graph!Args
<1>2. CASE t = "move_to"
  BY <1>2 DEF AnyArg, Gmail!Args, Graph!Args
<1>3. CASE t \in {"create_draft", "send_message"}
  BY <1>3 DEF AnyArg, Gmail!Args, Graph!Args
<1>4. CASE t = "send_draft"
  BY <1>4 DEF AnyArg, Gmail!Args, Graph!Args
<1>5. CASE t = "update_draft"
  BY <1>5 DEF AnyArg, Gmail!Args, Graph!Args
<1>6. CASE t \notin {"label", "move_to", "create_draft", "send_message", "send_draft", "update_draft"}
  BY <1>6 DEF AnyArg, Gmail!Args, Graph!Args
<1> QED
  BY <1>1, <1>2, <1>3, <1>4, <1>5, <1>6
------------------------------------------------------------------------------
(***************************************************************************)
(* The steps that both providers take alike.                               *)
(***************************************************************************)
\* A new call is registered.
LEMMA BeginStep ==
  ASSUME Common, Batch, OneEffect, NEW c \in Callers,
         NEW t \in Triage \union Compose \union Reads, NEW a \in AnyArg, NEW on \in BOOLEAN,
         NEW ids \in (IF t \in Triage THEN Gmail!Batches ELSE {<<>>}),
         call' = [call EXCEPT ![c] = [tool |-> t, arg |-> a, on |-> on, ids |-> ids,
                                      n |-> 0, result |-> "running"]],
         done' = [done EXCEPT ![c] = 0], UNCHANGED <<drafts, sent>>
  PROVE  Common' /\ Batch' /\ OneEffect'
<1>1. ids \in Seq(Item) /\ (t \in Triage => ids \in Seq(Msgs) /\ Len(ids) > 0)
  BY BatchesAreSeqs, EmptySeq
<1>2. [tool |-> t, arg |-> a, on |-> on, ids |-> ids, n |-> 0, result |-> "running"]
        \in CallType
  BY <1>1 DEF CallType
<1>3. Common'
  BY <1>2 DEF Common
<1>4. Batch'
  BY <1>1 DEF Common, Batch
<1>5. OneEffect'
  BY DEF Common, OneEffect
<1> QED
  BY <1>3, <1>4, <1>5

\* A request fails and ends the call.
LEMMA FailStep ==
  ASSUME Common, Batch, OneEffect, NEW c \in Callers, call[c].result = "running",
         call' = [call EXCEPT ![c].result = "error"], UNCHANGED <<drafts, sent, done>>
  PROVE  Common' /\ Batch' /\ OneEffect'
<1>1. Common'
  BY DEF Common, CallType
<1>2. Batch'
  BY DEF Common, CallType, Batch
<1>3. OneEffect'
  BY DEF Common, CallType, OneEffect
<1> QED
  BY <1>1, <1>2, <1>3

\* One message of a batch is changed, answered or not.
LEMMA BatchStep ==
  ASSUME Common, Batch, OneEffect, NEW c \in Callers,
         call[c].result = "running", call[c].tool \in Triage,
         \/ call' = [call EXCEPT ![c].n = @ + 1,
                       ![c].result = IF call[c].n + 1 = Len(call[c].ids)
                                     THEN "ok" ELSE "running"]
         \/ call' = [call EXCEPT ![c].result = "error"],
         done' = [done EXCEPT ![c] = @ + 1], UNCHANGED <<drafts, sent>>
  PROVE  Common' /\ Batch' /\ OneEffect'
<1>1. Common'
  <2>1. CASE call' = [call EXCEPT ![c].result = "error"]
    <3>1. call' \in [Callers -> CallType]
      BY <2>1 DEF Common, CallType
    <3> QED
      BY <3>1 DEF Common
  <2>2. CASE call' = [call EXCEPT ![c].n = @ + 1,
                        ![c].result = IF call[c].n + 1 = Len(call[c].ids)
                                      THEN "ok" ELSE "running"]
    <3>1. [call[c] EXCEPT !.n = @ + 1,
             !.result = IF call[c].n + 1 = Len(call[c].ids) THEN "ok" ELSE "running"]
            \in CallType
      <4>1. ASSUME NEW k \in CallType, NEW r \in {"running", "ok", "error"}
            PROVE  [k EXCEPT !.n = @ + 1, !.result = r] \in CallType
        <5>1. k.n + 1 \in Nat
          BY DEF CallType
        <5>2. [k EXCEPT !.n = @ + 1] \in CallType
          BY <5>1 DEF CallType
        <5> QED
          BY <5>2 DEF CallType
      <4>2. call[c] \in CallType
        BY DEF Common
      <4> QED
        BY <4>1, <4>2
    <3>2. call' = [call EXCEPT ![c] =
             [call[c] EXCEPT !.n = @ + 1,
                !.result = IF call[c].n + 1 = Len(call[c].ids) THEN "ok" ELSE "running"]]
      BY <2>2 DEF Common, CallType
    <3>3. call' \in [Callers -> CallType]
      BY <3>1, <3>2 DEF Common
    <3> QED
      BY <3>3 DEF Common
  <2> QED
    BY <2>1, <2>2
<1>2. Batch'
  <2> SUFFICES ASSUME NEW d \in Callers, call'[d].tool \in Triage
               PROVE  /\ call'[d].ids \in Seq(Msgs)
                      /\ call'[d].result = "running" =>
                           call'[d].n < Len(call'[d].ids) /\ done'[d] = call'[d].n
                      /\ call'[d].result = "ok" =>
                           call'[d].n = Len(call'[d].ids) /\ done'[d] = call'[d].n
                      /\ done'[d] \in {call'[d].n, call'[d].n + 1}
    BY DEF Batch
  <2>1. CASE d # c
    BY <2>1 DEF Common, CallType, Batch
  <2>2. CASE d = c
    <3>1. call[c].n \in Nat /\ call[c].ids \in Seq(Msgs) /\ Len(call[c].ids) \in Nat
      BY DEF Common, CallType, Batch
    <3>2. call'[c].ids = call[c].ids /\ done'[c] = call[c].n + 1
      BY DEF Common, CallType, Batch
    <3>3. CASE call' = [call EXCEPT ![c].result = "error"]
      BY <2>2, <3>1, <3>2, <3>3 DEF Common, CallType
    <3>4. CASE call' = [call EXCEPT ![c].n = @ + 1,
                          ![c].result = IF call[c].n + 1 = Len(call[c].ids)
                                        THEN "ok" ELSE "running"]
      <4>1. call'[c].n = call[c].n + 1
        BY <3>4 DEF Common, CallType
      <4>2. call'[c].result = IF call[c].n + 1 = Len(call[c].ids) THEN "ok" ELSE "running"
        BY <3>4 DEF Common, CallType
      <4>3. call[c].n < Len(call[c].ids)
        BY DEF Batch
      <4> QED
        BY <2>2, <3>1, <3>2, <4>1, <4>2, <4>3
    <3> QED
      BY <3>3, <3>4
  <2> QED
    BY <2>1, <2>2
<1>3. OneEffect'
  BY DEF Common, CallType, OneEffect, Triage, Compose
<1> QED
  BY <1>1, <1>2, <1>3

\* A draft or a message takes effect, answered or not.
LEMMA ComposeStep ==
  ASSUME Common, Batch, OneEffect, NEW c \in Callers, NEW r \in {"ok", "error"},
         call[c].result = "running", call[c].tool \in Compose,
         call' = [call EXCEPT ![c].result = r],
         done' = [done EXCEPT ![c] = @ + 1],
         drafts' \in [DraftIds -> Contents \union {None}], sent' \in [Contents -> Nat]
  PROVE  Common' /\ Batch' /\ OneEffect'
<1>1. Common'
  <2>1. call' \in [Callers -> CallType]
    BY DEF Common, CallType
  <2> QED
    BY <2>1 DEF Common
<1>2. Batch'
  BY DEF Common, CallType, Batch, Triage, Compose
<1>3. OneEffect'
  BY DEF Common, CallType, OneEffect
<1> QED
  BY <1>1, <1>2, <1>3

\* Going on with a batch keeps the call's tool and arguments, and other calls.
LEMMA AdvanceKeeps ==
  ASSUME Common, NEW c \in Callers,
         \/ call' = [call EXCEPT ![c].n = @ + 1,
                       ![c].result = IF call[c].n + 1 = Len(call[c].ids)
                                     THEN "ok" ELSE "running"]
         \/ call' = [call EXCEPT ![c].result = "error"]
  PROVE  \A d \in Callers :
           /\ call'[d].tool = call[d].tool /\ call'[d].arg = call[d].arg
           /\ d # c => call'[d] = call[d]
<1> SUFFICES ASSUME NEW d \in Callers
             PROVE  /\ call'[d].tool = call[d].tool /\ call'[d].arg = call[d].arg
                    /\ d # c => call'[d] = call[d]
  OBVIOUS
<1>1. CASE d # c
  BY <1>1 DEF Common, CallType
<1>2. CASE d = c /\ call' = [call EXCEPT ![c].result = "error"]
  BY <1>2 DEF Common, CallType
<1>3. CASE d = c /\ call' = [call EXCEPT ![c].n = @ + 1,
                       ![c].result = IF call[c].n + 1 = Len(call[c].ids)
                                     THEN "ok" ELSE "running"]
  BY <1>3 DEF Common, CallType
<1> QED
  BY <1>1, <1>2, <1>3
------------------------------------------------------------------------------
(***************************************************************************)
(* GmailProvider.                                                          *)
(***************************************************************************)
\* A step that keeps the tools and their arguments keeps GmailArgs.
LEMMA GmailArgsKept ==
  ASSUME GmailArgs,
         \A d \in Callers : call'[d].tool = call[d].tool /\ call'[d].arg = call[d].arg
  PROVE  GmailArgs'
<1> SUFFICES ASSUME NEW d \in Callers, call'[d].tool # None
             PROVE  call'[d].arg \in Gmail!Args(call'[d].tool)
  BY DEF GmailArgs, Gmail!Args
<1> QED
  BY DEF GmailArgs

\* A step that keeps the reads keeps what they have collected.
LEMMA CollectedKept ==
  ASSUME Collected, out' = out,
         \A d \in Callers : call'[d].tool \in Reads => call'[d] = call[d]
  PROVE  Collected'
  BY DEF Collected

\* A triage tool adds labels that there are.
LEMMA ModifyAdds ==
  ASSUME NEW t \in Triage, NEW a \in Gmail!Args(t), NEW on \in BOOLEAN
  PROVE  Gmail!Modify(t, a, on).add \subseteq Gmail!System \union UserLabels
<1>1. CASE t = "mark_read"
  BY <1>1 DEF Gmail!Modify, Gmail!Toggle, Gmail!System
<1>2. CASE t = "star"
  BY <1>2 DEF Gmail!Modify, Gmail!Toggle, Gmail!System
<1>3. CASE t = "label"
  <2>1. a \in UserLabels
    BY <1>3 DEF Gmail!Args
  <2> QED
    BY <1>3, <2>1 DEF Gmail!Modify, Gmail!Toggle
<1>4. CASE t = "move_to"
  <2>1. a \in Folders
    BY <1>4 DEF Gmail!Args
  <2> QED
    BY <1>4, <2>1, FoldersKnown DEF Gmail!Modify, Gmail!MoveTo, Gmail!System
<1>5. CASE t = "archive"
  BY <1>5 DEF Gmail!Modify, Gmail!Toggle
<1>6. CASE t \in {"trash", "untrash"}
  BY <1>6 DEF Gmail!Modify, Gmail!Trash, Gmail!System
<1> QED
  BY <1>1, <1>2, <1>3, <1>4, <1>5, <1>6 DEF Triage

\* Changing one message keeps the labels typed.
LEMMA ChangedTyped ==
  ASSUME labelIds \in [Msgs -> SUBSET (Gmail!System \union UserLabels)],
         NEW m, NEW t \in Triage, NEW a \in Gmail!Args(t), NEW on \in BOOLEAN,
         labelIds' = [labelIds EXCEPT ![m] = Gmail!Changed(@, Gmail!Modify(t, a, on))]
  PROVE  labelIds' \in [Msgs -> SUBSET (Gmail!System \union UserLabels)]
<1>1. \A ids \in SUBSET (Gmail!System \union UserLabels) :
        Gmail!Changed(ids, Gmail!Modify(t, a, on)) \in SUBSET (Gmail!System \union UserLabels)
  BY ModifyAdds DEF Gmail!Changed
<1> QED
  BY <1>1

\* dispatch's execute.
LEMMA GmailBegin ==
  ASSUME GmailInv, NEW c \in Callers, NEW t \in Triage \union Compose \union Reads,
         Gmail!Begin(c, t)
  PROVE  GmailInv'
<1>1. PICK a \in Gmail!Args(t), on \in BOOLEAN,
           ids \in (IF t \in Triage THEN Gmail!Batches ELSE {<<>>}) :
        call' = [call EXCEPT ![c] = [tool |-> t, arg |-> a, on |-> on, ids |-> ids,
                                     n |-> 0, result |-> "running"]]
  BY DEF Gmail!Begin, Gmail!Triage, Triage
<1>2. /\ done' = [done EXCEPT ![c] = 0] /\ out' = [out EXCEPT ![c] = <<>>]
      /\ UNCHANGED <<labelIds, drafts, sent>>
  BY DEF Gmail!Begin, Gmail!mailVars
<1>3. a \in AnyArg
  BY ArgsAreArgs
<1>4. Common' /\ Batch' /\ OneEffect'
  BY <1>1, <1>2, <1>3, BeginStep DEF GmailInv
<1>5. Collected'
  BY <1>1, <1>2, EmptySeq DEF GmailInv, Common, Collected
<1>6. GmailArgs'
  <2> SUFFICES ASSUME NEW d \in Callers, call'[d].tool # None
               PROVE  call'[d].arg \in Gmail!Args(call'[d].tool)
    BY DEF GmailArgs, Gmail!Args
  <2>1. CASE d = c
    BY <1>1, <2>1 DEF GmailInv, Common
  <2>2. CASE d # c
    BY <1>1, <2>2 DEF GmailInv, Common, GmailArgs
  <2> QED
    BY <2>1, <2>2
<1> QED
  BY <1>2, <1>4, <1>5, <1>6 DEF GmailInv

\* The early return of every tool.
LEMMA GmailFail ==
  ASSUME GmailInv, NEW c \in Callers, Gmail!Fail(c)
  PROVE  GmailInv'
<1>1. /\ call[c].result = "running" /\ call' = [call EXCEPT ![c].result = "error"]
      /\ UNCHANGED <<labelIds, drafts, sent, done, out>>
  BY DEF Gmail!Fail, Gmail!Finish, Gmail!mailVars
<1>2. Common' /\ Batch' /\ OneEffect'
  BY <1>1, FailStep DEF GmailInv
<1>3. Collected'
  BY <1>1 DEF GmailInv, Common, CallType, Collected
<1>4. GmailArgs'
  BY <1>1, GmailArgsKept DEF GmailInv, Common, CallType
<1> QED
  BY <1>1, <1>2, <1>3, <1>4 DEF GmailInv

\* modify_all, trash_impl, untrash_impl.
LEMMA GmailModifyOne ==
  ASSUME GmailInv, NEW c \in Callers, Gmail!ModifyOne(c)
  PROVE  GmailInv'
<1>1. call[c].result = "running" /\ call[c].tool \in Triage
  BY DEF Gmail!ModifyOne, Gmail!Running, Gmail!Triage, Triage
<1>2. \/ call' = [call EXCEPT ![c].n = @ + 1,
                    ![c].result = IF call[c].n + 1 = Len(call[c].ids)
                                  THEN "ok" ELSE "running"]
      \/ call' = [call EXCEPT ![c].result = "error"]
  BY DEF Gmail!ModifyOne, Gmail!Finish
<1>3. done' = [done EXCEPT ![c] = @ + 1] /\ UNCHANGED <<drafts, sent, out>>
  BY DEF Gmail!ModifyOne, Gmail!Count
<1>4. Common' /\ Batch' /\ OneEffect'
  BY <1>1, <1>2, <1>3, BatchStep DEF GmailInv
<1>5. \A d \in Callers : call'[d].tool = call[d].tool /\ call'[d].arg = call[d].arg
  BY <1>2, AdvanceKeeps DEF GmailInv
<1>6. Collected'
  <2>1. \A d \in Callers : call'[d].tool \in Reads => call'[d] = call[d]
    BY <1>1, <1>2, <1>5 DEF GmailInv, Common, CallType, Triage, Reads
  <2> QED
    BY <1>3, <2>1, CollectedKept DEF GmailInv
<1>7. GmailArgs'
  BY <1>5, GmailArgsKept DEF GmailInv
<1>8. labelIds' \in [Msgs -> SUBSET (Gmail!System \union UserLabels)]
  <2>1. call[c].tool # None
    BY <1>1, NoneApart
  <2>2. call[c].arg \in Gmail!Args(call[c].tool) /\ call[c].on \in BOOLEAN
    BY <2>1 DEF GmailInv, GmailArgs, Common, CallType
  <2>3. labelIds' = [labelIds EXCEPT ![call[c].ids[call[c].n + 1]] =
          Gmail!Changed(@, Gmail!Modify(call[c].tool, call[c].arg, call[c].on))]
    BY DEF Gmail!ModifyOne
  <2> QED
    BY <1>1, <2>2, <2>3, ChangedTyped DEF GmailInv
<1> QED
  BY <1>4, <1>6, <1>7, <1>8 DEF GmailInv

\* The list of a read: search_impl and list_drafts_impl take alike whatever is
\* there, S.
LEMMA GmailRead ==
  ASSUME GmailInv, NEW c \in Callers, call[c].result = "running", call[c].tool \in Reads,
         NEW S \in SUBSET Item, IsFiniteSet(S), Gmail!Read(c, S)
  PROVE  GmailInv'
<1>1. UNCHANGED <<labelIds, drafts, sent, done>>
  BY DEF Gmail!Read, Gmail!mailVars
<1>2. /\ call[c] \in CallType /\ out[c] \in Seq(Item) /\ call[c].ids \in Seq(Item)
      /\ call[c].n \in Nat /\ Len(call[c].ids) \in Nat
  BY DEF GmailInv, Common, CallType, Collected
<1>3. ASSUME NEW k, call' = [call EXCEPT ![c] = k], k \in CallType,
             k.tool = call[c].tool, k.arg = call[c].arg,
             NEW o \in Seq(Item), out' = [out EXCEPT ![c] = o],
             k.result = "running" /\ k.n = 0 => o = <<>>,
             k.result = "running" /\ k.n > 0 =>
               /\ Len(o) = k.n - 1 /\ Len(o) <= Len(k.ids)
               /\ \A i \in 1 .. Len(o) : o[i] = k.ids[i],
             k.result = "ok" => o = k.ids
      PROVE  GmailInv'
  <2>1. call'[c] = k /\ out'[c] = o /\ \A d \in Callers \ {c} : call'[d] = call[d] /\ out'[d] = out[d]
    BY <1>3 DEF GmailInv, Common, Collected
  <2>2. Common'
    BY <1>1, <1>3 DEF GmailInv, Common
  <2>3. Batch'
    BY <1>1, <1>3, <2>1 DEF GmailInv, Batch, Triage, Reads
  <2>4. OneEffect'
    BY <1>1, <1>3, <2>1 DEF GmailInv, OneEffect, Compose, Reads
  <2>5. Collected'
    <3>1. out' \in [Callers -> Seq(Item)]
      BY <1>3 DEF GmailInv, Collected
    <3> QED
      BY <1>3, <2>1, <3>1 DEF GmailInv, Collected
  <2>6. GmailArgs'
    BY <1>3, <2>1, GmailArgsKept DEF GmailInv
  <2> QED
    BY <1>1, <2>2, <2>3, <2>4, <2>5, <2>6 DEF GmailInv
<1>4. out = [out EXCEPT ![c] = out[c]]
  BY DEF GmailInv, Collected
<1>5. CASE Gmail!List(c, S)
  <2>1. PICK s \in [1 .. Cardinality(S) -> S] :
          /\ \A i, j \in DOMAIN s : s[i] = s[j] => i = j
          /\ call' = [call EXCEPT ![c].ids = s, ![c].n = 1]
    BY <1>5, SameCardinality DEF Gmail!List
  <2>2. s \in Seq(Item) /\ Len(s) \in Nat
    BY FS_CardinalityType
  <2> DEFINE k == [call[c] EXCEPT !.ids = s, !.n = 1]
  <2>3. k \in CallType
    BY <1>2, <2>2 DEF CallType
  <2>4. call' = [call EXCEPT ![c] = k]
    BY <2>1 DEF GmailInv, Common
  <2>5. k.tool = call[c].tool /\ k.arg = call[c].arg /\ k.result = "running" /\ k.n = 1 /\ k.ids = s
    BY <1>2 DEF CallType
  <2>6. out' = [out EXCEPT ![c] = <<>>] /\ out[c] = <<>>
    BY <1>4, <1>5 DEF Gmail!List, GmailInv, Collected
  <2>7. <<>> \in Seq(Item) /\ Len(<<>>) = 0
    BY EmptySeq
  <2> HIDE DEF k
  <2>8. /\ k.result = "running" /\ k.n = 0 => <<>> = <<>>
        /\ k.result = "running" /\ k.n > 0 =>
             /\ Len(<<>>) = k.n - 1 /\ Len(<<>>) <= Len(k.ids)
             /\ \A i \in 1 .. Len(<<>>) : <<>>[i] = k.ids[i]
        /\ k.result = "ok" => <<>> = k.ids
    BY <2>2, <2>5, <2>7
  <2> QED
    BY <1>3, <2>3, <2>4, <2>5, <2>6, <2>7, <2>8
<1>6. CASE Gmail!Fetch(c, S)
  <2> DEFINE e == call[c].ids[call[c].n]
             k == [call[c] EXCEPT !.n = @ + 1]
             o == Append(out[c], e)
  <2>1. /\ call[c].n \in 1 .. Len(call[c].ids) /\ e \in Item
        /\ call' = [call EXCEPT ![c].n = @ + 1] /\ out' = [out EXCEPT ![c] = o]
    BY <1>6 DEF Gmail!Fetch, GmailInv, Collected
  <2>2. k \in CallType
    BY <1>2 DEF CallType
  <2>3. call' = [call EXCEPT ![c] = k]
    BY <2>1 DEF GmailInv, Common
  <2>4. k.tool = call[c].tool /\ k.arg = call[c].arg /\ k.result = "running"
        /\ k.n = call[c].n + 1 /\ k.ids = call[c].ids
    BY <1>2 DEF CallType
  <2>5. /\ Len(out[c]) = call[c].n - 1
        /\ \A i \in 1 .. Len(out[c]) : out[c][i] = call[c].ids[i]
    BY <1>2, <2>1 DEF GmailInv, Collected
  <2>6. /\ o \in Seq(Item) /\ Len(o) = Len(out[c]) + 1
        /\ o[Len(out[c]) + 1] = e
        /\ \A i \in 1 .. Len(out[c]) : o[i] = out[c][i]
    BY <1>2, <2>1
  <2>7. Len(o) = k.n - 1 /\ Len(o) <= Len(k.ids) /\ k.n > 0
    BY <1>2, <2>1, <2>4, <2>5, <2>6
  <2>8. \A i \in 1 .. Len(o) : o[i] = k.ids[i]
    <3> SUFFICES ASSUME NEW i \in 1 .. Len(o) PROVE o[i] = k.ids[i]
      OBVIOUS
    <3>1. CASE i = Len(out[c]) + 1
      BY <1>2, <2>1, <2>4, <2>5, <2>6, <3>1
    <3>2. CASE i \in 1 .. Len(out[c])
      BY <2>4, <2>5, <2>6, <3>2
    <3> HIDE DEF o
    <3> QED
      BY <1>2, <2>1, <2>5, <2>6, <3>1, <3>2
  <2> HIDE DEF k, o
  <2>9. /\ k.result = "running" /\ k.n = 0 => o = <<>>
        /\ k.result = "running" /\ k.n > 0 =>
             /\ Len(o) = k.n - 1 /\ Len(o) <= Len(k.ids)
             /\ \A i \in 1 .. Len(o) : o[i] = k.ids[i]
        /\ k.result = "ok" => o = k.ids
    BY <2>4, <2>7, <2>8
  <2> QED
    BY <1>3, <2>1, <2>2, <2>3, <2>4, <2>6, <2>9
<1>7. CASE Gmail!Listed(c)
  <2> DEFINE k == [call[c] EXCEPT !.result = "ok"]
  <2>1. call[c].n = Len(call[c].ids) + 1 /\ call' = [call EXCEPT ![c].result = "ok"]
        /\ out' = [out EXCEPT ![c] = out[c]]
    BY <1>4, <1>7 DEF Gmail!Listed, Gmail!Finish
  <2>2. k \in CallType
    BY <1>2 DEF CallType
  <2>3. call' = [call EXCEPT ![c] = k]
    BY <2>1 DEF GmailInv, Common
  <2>4. k.tool = call[c].tool /\ k.arg = call[c].arg /\ k.result = "ok" /\ k.ids = call[c].ids
    BY <1>2 DEF CallType
  <2>5. /\ Len(out[c]) = Len(call[c].ids)
        /\ \A i \in 1 .. Len(out[c]) : out[c][i] = call[c].ids[i]
    BY <1>2, <2>1 DEF GmailInv, Collected
  <2>6. out[c] = call[c].ids
    BY <1>2, <2>5, SeqEqual
  <2> HIDE DEF k
  <2> QED
    BY <1>2, <1>3, <2>1, <2>2, <2>3, <2>4, <2>6
<1> QED
  BY <1>5, <1>6, <1>7 DEF Gmail!Read

\* compose.rs of Gmail, once the drafts and the count of sends are typed.
LEMMA GmailComposed ==
  ASSUME GmailInv, NEW c \in Callers, call[c].result = "running", call[c].tool \in Compose,
         Gmail!Answered(c), Gmail!Count(c), UNCHANGED <<labelIds, out>>,
         drafts' \in [DraftIds -> Contents \union {None}], sent' \in [Contents -> Nat]
  PROVE  GmailInv'
<1>1. PICK r \in {"ok", "error"} : call' = [call EXCEPT ![c].result = r]
  BY DEF Gmail!Answered, Gmail!Finish
<1>2. done' = [done EXCEPT ![c] = @ + 1]
  BY DEF Gmail!Count
<1>3. Common' /\ Batch' /\ OneEffect'
  BY <1>1, <1>2, ComposeStep DEF GmailInv
<1>4. \A d \in Callers : /\ call'[d].tool = call[d].tool /\ call'[d].arg = call[d].arg
                         /\ d # c => call'[d] = call[d]
  BY <1>1 DEF GmailInv, Common, CallType
<1>5. Collected'
  <2>1. \A d \in Callers : call'[d].tool \in Reads => call'[d] = call[d]
    BY <1>4 DEF Compose, Reads
  <2> QED
    BY <2>1, CollectedKept DEF GmailInv
<1>6. GmailArgs'
  BY <1>4, GmailArgsKept DEF GmailInv
<1> QED
  BY <1>3, <1>5, <1>6 DEF GmailInv

\* The arguments of the compose tools.
LEMMA GmailComposeArgs ==
  ASSUME GmailInv, NEW c \in Callers
  PROVE  /\ call[c].tool \in {"create_draft", "send_message"} => call[c].arg \in Contents
         /\ call[c].tool = "send_draft" => call[c].arg \in DraftIds
         /\ call[c].tool = "update_draft" => call[c].arg \in DraftIds \X Contents
<1>1. call[c].tool \in Compose => call[c].tool # None
  BY NoneApart
<1>2. call[c].tool \in Compose => call[c].arg \in Gmail!Args(call[c].tool)
  BY <1>1 DEF GmailInv, GmailArgs
<1>3. CASE call[c].tool \in {"create_draft", "send_message"}
  BY <1>2, <1>3 DEF Compose, Gmail!Args
<1>4. CASE call[c].tool = "send_draft"
  BY <1>2, <1>4 DEF Compose, Gmail!Args
<1>5. CASE call[c].tool = "update_draft"
  BY <1>2, <1>5 DEF Compose, Gmail!Args
<1> QED
  BY <1>3, <1>4, <1>5

\* The other mail client changes none of the calls.
LEMMA GmailOther ==
  ASSUME GmailInv, UNCHANGED <<call, done, out>>,
         drafts' \in [DraftIds -> Contents \union {None}], sent' \in [Contents -> Nat],
         labelIds' \in [Msgs -> SUBSET (Gmail!System \union UserLabels)]
  PROVE  GmailInv'
<1>1. Common' /\ Batch' /\ OneEffect' /\ Collected'
  BY DEF GmailInv, Common, Batch, OneEffect, Collected
<1>2. GmailArgs'
  BY GmailArgsKept DEF GmailInv
<1> QED
  BY <1>1, <1>2 DEF GmailInv

\* Every step of the Gmail provider keeps its invariant.
LEMMA GmailStep == GmailInv /\ Gmail!Next => GmailInv'
<1> SUFFICES ASSUME GmailInv, Gmail!Next PROVE GmailInv'
  OBVIOUS
<1>0. drafts \in [DraftIds -> Contents \union {None}] /\ sent \in [Contents -> Nat]
  BY DEF GmailInv, Common
<1>1. ASSUME NEW c \in Callers, NEW t \in Triage \union Compose \union Reads, Gmail!Begin(c, t)
      PROVE  GmailInv'
  BY <1>1, GmailBegin
<1>2. ASSUME NEW c \in Callers, Gmail!Fail(c) PROVE GmailInv'
  BY <1>2, GmailFail
<1>3. ASSUME NEW c \in Callers, Gmail!ModifyOne(c) PROVE GmailInv'
  BY <1>3, GmailModifyOne
<1>4. ASSUME NEW c \in Callers, Gmail!Search(c) PROVE GmailInv'
  <2>1. Msgs \ gone \in SUBSET Item /\ IsFiniteSet(Msgs \ gone)
    BY MsgsFinite, FS_Subset DEF Item
  <2>2. call[c].result = "running" /\ call[c].tool \in Reads
    BY <1>4 DEF Gmail!Search, Gmail!Running, Reads
  <2> QED
    BY <1>4, <2>1, <2>2, GmailRead DEF Gmail!Search
<1>5. ASSUME NEW c \in Callers, Gmail!ListDrafts(c) PROVE GmailInv'
  <2> DEFINE S == {d \in DraftIds : drafts[d] # None}
  <2>1. S \in SUBSET Item /\ IsFiniteSet(S)
    BY DraftIdsFinite, FS_Subset DEF Item
  <2>2. call[c].result = "running" /\ call[c].tool \in Reads
    BY <1>5 DEF Gmail!ListDrafts, Gmail!Running, Reads
  <2>3. Gmail!Read(c, S)
    BY <1>5 DEF Gmail!ListDrafts
  <2> HIDE DEF S
  <2> QED
    BY <2>1, <2>2, <2>3, GmailRead
<1>6. ASSUME NEW c \in Callers, Gmail!CreateDraft(c) PROVE GmailInv'
  <2>1. /\ call[c].result = "running" /\ call[c].tool = "create_draft"
        /\ Gmail!Answered(c) /\ Gmail!Count(c) /\ UNCHANGED <<labelIds, sent, out>>
    BY <1>6 DEF Gmail!CreateDraft, Gmail!Running
  <2>2. drafts' \in [DraftIds -> Contents \union {None}]
    BY <1>0, <1>6, <2>1, GmailComposeArgs DEF Gmail!CreateDraft
  <2> QED
    BY <1>0, <2>1, <2>2, GmailComposed DEF Compose
<1>7. ASSUME NEW c \in Callers, Gmail!UpdateDraft(c) PROVE GmailInv'
  <2>1. /\ call[c].result = "running" /\ call[c].tool = "update_draft"
        /\ Gmail!Answered(c) /\ Gmail!Count(c) /\ UNCHANGED <<labelIds, sent, out>>
    BY <1>7 DEF Gmail!UpdateDraft, Gmail!Running
  <2>2. drafts' \in [DraftIds -> Contents \union {None}]
    BY <1>0, <1>7, <2>1, GmailComposeArgs DEF Gmail!UpdateDraft
  <2> QED
    BY <1>0, <2>1, <2>2, GmailComposed DEF Compose
<1>8. ASSUME NEW c \in Callers, Gmail!SendDraft(c) PROVE GmailInv'
  <2>1. /\ call[c].result = "running" /\ call[c].tool = "send_draft"
        /\ Gmail!Answered(c) /\ Gmail!Count(c) /\ UNCHANGED <<labelIds, out>>
    BY <1>8 DEF Gmail!SendDraft, Gmail!Running
  <2>2. drafts' \in [DraftIds -> Contents \union {None}] /\ sent' \in [Contents -> Nat]
    BY <1>0, <1>8, <2>1, GmailComposeArgs DEF Gmail!SendDraft
  <2> QED
    BY <2>1, <2>2, GmailComposed DEF Compose
<1>9. ASSUME NEW c \in Callers, Gmail!SendMessage(c) PROVE GmailInv'
  <2>1. /\ call[c].result = "running" /\ call[c].tool = "send_message"
        /\ Gmail!Answered(c) /\ Gmail!Count(c) /\ UNCHANGED <<labelIds, drafts, out>>
    BY <1>9 DEF Gmail!SendMessage, Gmail!Running
  <2>2. sent' \in [Contents -> Nat]
    BY <1>0, <1>9, <2>1, GmailComposeArgs DEF Gmail!SendMessage
  <2> QED
    BY <1>0, <2>1, <2>2, GmailComposed DEF Compose
<1>10. ASSUME NEW m \in Msgs, Gmail!OtherModify(m) PROVE GmailInv'
  <2>1. PICK t \in Triage, on \in BOOLEAN : \E a \in Gmail!Args(t) :
          labelIds' = [labelIds EXCEPT ![m] = Gmail!Changed(@, Gmail!Modify(t, a, on))]
    BY <1>10 DEF Gmail!OtherModify, Gmail!Triage, Triage
  <2>2. labelIds' \in [Msgs -> SUBSET (Gmail!System \union UserLabels)]
    BY <2>1, ChangedTyped DEF GmailInv
  <2> QED
    BY <1>0, <1>10, <2>2, GmailOther DEF Gmail!OtherModify
<1>11. ASSUME NEW m \in Msgs, Gmail!OtherDelete(m) PROVE GmailInv'
  BY <1>0, <1>11, GmailOther DEF Gmail!OtherDelete, GmailInv
<1>12. ASSUME NEW d \in DraftIds, Gmail!OtherSend(d) PROVE GmailInv'
  <2>1. drafts' \in [DraftIds -> Contents \union {None}] /\ sent' \in [Contents -> Nat]
    BY <1>0, <1>12 DEF Gmail!OtherSend
  <2> QED
    BY <1>12, <2>1, GmailOther DEF Gmail!OtherSend, GmailInv
<1> QED
  BY <1>1, <1>2, <1>3, <1>4, <1>5, <1>6, <1>7, <1>8, <1>9, <1>10, <1>11, <1>12 DEF
     Gmail!Next

------------------------------------------------------------------------------
(***************************************************************************)
(* GraphProvider.                                                          *)
(***************************************************************************)
\* A step that keeps the tools and their arguments keeps GraphArgs.
LEMMA GraphArgsKept ==
  ASSUME GraphArgs,
         \A d \in Callers : call'[d].tool = call[d].tool /\ call'[d].arg = call[d].arg
  PROVE  GraphArgs'
<1> SUFFICES ASSUME NEW d \in Callers, call'[d].tool # None
             PROVE  call'[d].arg \in Graph!Args(call'[d].tool)
  BY DEF GraphArgs, Graph!Args
<1> QED
  BY DEF GraphArgs

\* The arguments of the tools that have some.
LEMMA GraphToolArgs ==
  ASSUME GraphInv, NEW c \in Callers
  PROVE  /\ call[c].tool = "label" => call[c].arg \in Labels
         /\ call[c].tool = "move_to" => call[c].arg \in Moves
         /\ call[c].tool \in {"create_draft", "send_message"} => call[c].arg \in Contents
         /\ call[c].tool = "send_draft" => call[c].arg \in DraftIds
         /\ call[c].tool = "update_draft" => call[c].arg \in DraftIds \X Contents
<1>1. call[c].tool \in Triage \union Compose => call[c].tool # None
  BY NoneApart
<1>2. call[c].tool \in Triage \union Compose => call[c].arg \in Graph!Args(call[c].tool)
  BY <1>1 DEF GraphInv, GraphArgs
<1>3. CASE call[c].tool = "label"
  BY <1>2, <1>3 DEF Triage, Graph!Args
<1>4. CASE call[c].tool = "move_to"
  BY <1>2, <1>4 DEF Triage, Graph!Args
<1>5. CASE call[c].tool \in {"create_draft", "send_message"}
  BY <1>2, <1>5 DEF Compose, Graph!Args
<1>6. CASE call[c].tool = "send_draft"
  BY <1>2, <1>6 DEF Compose, Graph!Args
<1>7. CASE call[c].tool = "update_draft"
  BY <1>2, <1>7 DEF Compose, Graph!Args
<1> QED
  BY <1>3, <1>4, <1>5, <1>6, <1>7

\* A send adds one to the sends so far.
LEMMA OneMoreSending ==
  ASSUME sent \in [Contents -> Nat], NEW x \in Contents,
         sent' = [sent EXCEPT ![x] = @ + 1], IsFiniteSet(Graph!Sendings)
  PROVE  /\ IsFiniteSet(Graph!Sendings')
         /\ Cardinality(Graph!Sendings') = Cardinality(Graph!Sendings) + 1
<1> DEFINE new == <<x, sent[x] + 1>>
<1>1. new \notin Graph!Sendings
  BY DEF Graph!Sendings
<1>2. Graph!Sendings' = Graph!Sendings \union {new}
  <2>1. ASSUME NEW y \in Contents, NEW i \in 1 .. sent'[y]
        PROVE  <<y, i>> \in Graph!Sendings \union {new}
    <3>1. CASE i \in 1 .. sent[y]
      BY <3>1 DEF Graph!Sendings
    <3>2. CASE i \notin 1 .. sent[y]
      <4>1. y = x /\ i = sent[x] + 1
        BY <3>2
      <4> QED
        BY <4>1
    <3> QED
      BY <3>1, <3>2
  <2>2. ASSUME NEW y \in Contents, NEW i \in 1 .. sent[y]
        PROVE  <<y, i>> \in Graph!Sendings'
    <3>1. i \in 1 .. sent'[y]
      BY <2>2
    <3> QED
      BY <3>1 DEF Graph!Sendings
  <2>3. new \in Graph!Sendings'
    <3>1. sent[x] + 1 \in 1 .. sent'[x]
      OBVIOUS
    <3> QED
      BY <3>1 DEF Graph!Sendings
  <2>4. Graph!Sendings' \subseteq Graph!Sendings \union {new}
    BY <2>1 DEF Graph!Sendings
  <2>5. Graph!Sendings \subseteq Graph!Sendings'
    BY <2>2 DEF Graph!Sendings
  <2> QED
    BY <2>3, <2>4, <2>5
<1> HIDE DEF new
<1> QED
  BY <1>1, <1>2, FS_AddElement

\* Drafts that are not sent are not gone.
LEMMA NoneGone ==
  ASSUME Accounted, UNCHANGED sent, made' \in [Callers -> DraftIds \union {None}],
         Gone' \subseteq Gone
  PROVE  Accounted'
<1>1. Graph!Sendings' = Graph!Sendings
  BY DEF Graph!Sendings
<1>2. IsFiniteSet(Gone)
  BY DraftIdsFinite, FS_Subset DEF Gone
<1>3. /\ Cardinality(Gone') <= Cardinality(Gone)
      /\ Cardinality(Gone) \in Nat /\ Cardinality(Gone') \in Nat
  BY <1>2, FS_Subset, FS_CardinalityType
<1>4. Cardinality(Graph!Sendings) \in Nat
  BY FS_CardinalityType DEF Accounted
<1> QED
  BY <1>1, <1>3, <1>4 DEF Accounted

\* With a send goes at most one draft.
LEMMA OneGone ==
  ASSUME Accounted, sent \in [Contents -> Nat], NEW x \in Contents,
         sent' = [sent EXCEPT ![x] = @ + 1], UNCHANGED made,
         NEW d, Gone' \subseteq Gone \union {d}
  PROVE  Accounted'
<1>1. /\ IsFiniteSet(Graph!Sendings')
      /\ Cardinality(Graph!Sendings') = Cardinality(Graph!Sendings) + 1
      /\ Cardinality(Graph!Sendings) \in Nat
  BY OneMoreSending, FS_CardinalityType DEF Accounted
<1>2. IsFiniteSet(Gone) /\ Cardinality(Gone) \in Nat
  BY DraftIdsFinite, FS_Subset, FS_CardinalityType DEF Gone
<1>3. /\ IsFiniteSet(Gone \union {d}) /\ Cardinality(Gone \union {d}) \in Nat
      /\ Cardinality(Gone \union {d}) <= Cardinality(Gone) + 1
  <2>1. CASE d \in Gone
    <3>1. Gone \union {d} = Gone
      BY <2>1
    <3> QED
      BY <1>2, <3>1
  <2>2. CASE d \notin Gone
    BY <1>2, <2>2, FS_AddElement
  <2> QED
    BY <2>1, <2>2
<1>4. Cardinality(Gone') <= Cardinality(Gone \union {d}) /\ Cardinality(Gone') \in Nat
  BY <1>3, FS_Subset, FS_CardinalityType
<1>5. Cardinality(Gone') <= Cardinality(Graph!Sendings')
  BY <1>1, <1>2, <1>3, <1>4 DEF Accounted
<1> QED
  BY <1>1, <1>5 DEF Accounted

\* dispatch's execute.
LEMMA GraphBegin ==
  ASSUME GraphInv, NEW c \in Callers, NEW t \in Triage \union Compose, Graph!Begin(c, t)
  PROVE  GraphInv'
<1>1. PICK a \in Graph!Args(t), on \in BOOLEAN,
           ids \in (IF t \in Triage THEN Gmail!Batches ELSE {<<>>}) :
        call' = [call EXCEPT ![c] = [tool |-> t, arg |-> a, on |-> on, ids |-> ids,
                                     n |-> 0, result |-> "running"]]
  BY BatchesAreSeqs DEF Graph!Begin, Graph!Triage, Triage
<1>2. /\ done' = [done EXCEPT ![c] = 0] /\ made' = [made EXCEPT ![c] = None]
      /\ seen' = [seen EXCEPT ![c] = Graph!Unread] /\ UNCHANGED <<mail, drafts, sent>>
  BY DEF Graph!Begin
<1>3. a \in AnyArg
  BY ArgsAreArgs
<1>4. Common' /\ Batch' /\ OneEffect'
  BY <1>1, <1>2, <1>3, BeginStep DEF GraphInv
<1>5. GraphArgs'
  <2> SUFFICES ASSUME NEW d \in Callers, call'[d].tool # None
               PROVE  call'[d].arg \in Graph!Args(call'[d].tool)
    BY DEF GraphArgs, Graph!Args
  <2>1. CASE d = c
    BY <1>1, <2>1 DEF GraphInv, Common
  <2>2. CASE d # c
    BY <1>1, <2>2 DEF GraphInv, Common, GraphArgs
  <2> QED
    BY <2>1, <2>2
<1>6. Accounted'
  <2>1. made' \in [Callers -> DraftIds \union {None}]
    BY <1>2 DEF GraphInv, Accounted
  <2>2. Gone' \subseteq Gone
    BY <1>2, NoneApart DEF GraphInv, Accounted, Gone
  <2> QED
    BY <1>2, <2>1, <2>2, NoneGone DEF GraphInv
<1>7. seen' \in [Callers -> Seen]
  BY <1>2 DEF GraphInv, Seen
<1> QED
  BY <1>2, <1>4, <1>5, <1>6, <1>7 DEF GraphInv

\* The early return of every tool.
LEMMA GraphFail ==
  ASSUME GraphInv, NEW c \in Callers, Graph!Fail(c)
  PROVE  GraphInv'
<1>1. /\ call[c].result = "running" /\ call' = [call EXCEPT ![c].result = "error"]
      /\ UNCHANGED <<mail, drafts, sent, seen, made, done>>
  BY DEF Graph!Fail, Graph!Finish
<1>2. Common' /\ Batch' /\ OneEffect'
  BY <1>1, FailStep DEF GraphInv
<1>3. GraphArgs'
  BY <1>1, GraphArgsKept DEF GraphInv, Common, CallType
<1>4. Accounted'
  BY <1>1, NoneGone DEF GraphInv, Accounted, Gone
<1> QED
  BY <1>1, <1>2, <1>3, <1>4 DEF GraphInv

\* patch_one and move_one, once the mail is typed.
LEMMA GraphPatch ==
  ASSUME GraphInv, NEW c \in Callers, call[c].result = "running", call[c].tool \in Triage,
         Graph!Advance(c), Graph!Count(c), UNCHANGED <<drafts, sent, made>>,
         seen' \in [Callers -> Seen], mail' \in [Msgs -> Mail]
  PROVE  GraphInv'
<1>1. \/ call' = [call EXCEPT ![c].n = @ + 1,
                    ![c].result = IF call[c].n + 1 = Len(call[c].ids)
                                  THEN "ok" ELSE "running"]
      \/ call' = [call EXCEPT ![c].result = "error"]
  BY DEF Graph!Advance, Graph!Finish
<1>2. done' = [done EXCEPT ![c] = @ + 1]
  BY DEF Graph!Count
<1>3. Common' /\ Batch' /\ OneEffect'
  BY <1>1, <1>2, BatchStep DEF GraphInv
<1>4. GraphArgs'
  <2>1. \A d \in Callers : call'[d].tool = call[d].tool /\ call'[d].arg = call[d].arg
    BY <1>1, AdvanceKeeps DEF GraphInv
  <2> QED
    BY <2>1, GraphArgsKept DEF GraphInv
<1>5. Accounted'
  BY NoneGone DEF GraphInv, Accounted, Gone
<1> QED
  BY <1>3, <1>4, <1>5 DEF GraphInv

\* compose.rs of Microsoft 365, once the drafts and the sends are accounted for.
LEMMA GraphComposed ==
  ASSUME GraphInv, NEW c \in Callers, call[c].result = "running", call[c].tool \in Compose,
         Graph!Answered(c), Graph!Count(c), UNCHANGED <<mail, seen>>,
         drafts' \in [DraftIds -> Contents \union {None}], sent' \in [Contents -> Nat],
         Accounted'
  PROVE  GraphInv'
<1>1. PICK r \in {"ok", "error"} : call' = [call EXCEPT ![c].result = r]
  BY DEF Graph!Answered, Graph!Finish
<1>2. done' = [done EXCEPT ![c] = @ + 1]
  BY DEF Graph!Count
<1>3. Common' /\ Batch' /\ OneEffect'
  BY <1>1, <1>2, ComposeStep DEF GraphInv
<1>4. GraphArgs'
  <2>1. \A d \in Callers : call'[d].tool = call[d].tool /\ call'[d].arg = call[d].arg
    BY <1>1 DEF GraphInv, Common, CallType
  <2> QED
    BY <2>1, GraphArgsKept DEF GraphInv
<1> QED
  BY <1>3, <1>4 DEF GraphInv

\* The message a batch is about to change.
LEMMA NextMessage ==
  ASSUME Common, Batch, NEW c \in Callers, call[c].result = "running",
         call[c].tool \in Triage
  PROVE  call[c].ids[call[c].n + 1] \in Msgs
<1>1. call[c].ids \in Seq(Msgs) /\ call[c].n \in Nat /\ call[c].n < Len(call[c].ids)
  BY DEF Common, CallType, Batch
<1> QED
  BY <1>1

\* Every step of the Microsoft 365 provider keeps its invariant.
LEMMA GraphStep == GraphInv /\ Graph!Next => GraphInv'
<1> SUFFICES ASSUME GraphInv, Graph!Next PROVE GraphInv'
  OBVIOUS
<1>0. /\ drafts \in [DraftIds -> Contents \union {None}] /\ sent \in [Contents -> Nat]
      /\ mail \in [Msgs -> Mail] /\ seen \in [Callers -> Seen]
  BY DEF GraphInv, Common
<1>1. ASSUME NEW c \in Callers, NEW t \in Triage \union Compose, Graph!Begin(c, t)
      PROVE  GraphInv'
  BY <1>1, GraphBegin
<1>2. ASSUME NEW c \in Callers, Graph!Fail(c) PROVE GraphInv'
  BY <1>2, GraphFail
<1>3. ASSUME NEW c \in Callers, Graph!MarkRead(c) PROVE GraphInv'
  <2>1. /\ call[c].result = "running" /\ call[c].tool = "mark_read" /\ UNCHANGED seen
        /\ Graph!Patch(c, "read", call[c].on)
    BY <1>3 DEF Graph!MarkRead, Graph!Running
  <2>2. call[c].on \in BOOLEAN
    BY DEF GraphInv, Common, CallType
  <2>3. mail' \in [Msgs -> Mail]
    BY <1>0, <2>1, <2>2 DEF Graph!Patch, Mail
  <2> QED
    BY <1>0, <2>1, <2>3, GraphPatch DEF Graph!Patch, Triage
<1>4. ASSUME NEW c \in Callers, Graph!Star(c) PROVE GraphInv'
  <2>1. /\ call[c].result = "running" /\ call[c].tool = "star" /\ UNCHANGED seen
        /\ Graph!Patch(c, "flag", IF call[c].on THEN "flagged" ELSE "notFlagged")
    BY <1>4 DEF Graph!Star, Graph!Running
  <2>2. mail' \in [Msgs -> Mail]
    BY <1>0, <2>1 DEF Graph!Patch, Graph!Flags, Mail
  <2> QED
    BY <1>0, <2>1, <2>2, GraphPatch DEF Graph!Patch, Triage
<1>5. ASSUME NEW c \in Callers, Graph!LabelGet(c) PROVE GraphInv'
  <2>1. /\ call[c].result = "running" /\ call[c].tool = "label"
        /\ seen' = [seen EXCEPT ![c] = mail[call[c].ids[call[c].n + 1]].categories]
        /\ UNCHANGED <<mail, drafts, sent, call, made, done>>
    BY <1>5 DEF Graph!LabelGet, Graph!Running, Graph!This
  <2>2. call[c].ids[call[c].n + 1] \in Msgs
    BY <2>1, NextMessage DEF GraphInv, Triage
  <2>3. seen' \in [Callers -> Seen]
    BY <1>0, <2>1, <2>2 DEF Mail, Seen
  <2>4. Accounted'
    BY <2>1, NoneGone DEF GraphInv, Accounted, Gone
  <2>5. Common' /\ Batch' /\ OneEffect'
    BY <2>1 DEF GraphInv, Common, Batch, OneEffect
  <2>6. GraphArgs'
    BY <2>1, GraphArgsKept DEF GraphInv
  <2> QED
    BY <1>0, <2>1, <2>3, <2>4, <2>5, <2>6 DEF GraphInv
<1>6. ASSUME NEW c \in Callers, Graph!LabelPatch(c) PROVE GraphInv'
  <2> DEFINE v == (seen[c] \ {call[c].arg}) \union (IF call[c].on THEN {call[c].arg} ELSE {})
  <2>1. /\ call[c].result = "running" /\ call[c].tool = "label" /\ seen[c] # Graph!Unread
        /\ seen' = [seen EXCEPT ![c] = Graph!Unread] /\ Graph!Patch(c, "categories", v)
    BY <1>6 DEF Graph!LabelPatch, Graph!Running
  <2>2. v \in SUBSET Labels
    BY <1>0, <2>1, GraphToolArgs DEF Seen
  <2>3. mail' \in [Msgs -> Mail]
    <3> HIDE DEF v
    <3> QED
      BY <1>0, <2>1, <2>2 DEF Graph!Patch, Mail
  <2>4. seen' \in [Callers -> Seen]
    BY <1>0, <2>1 DEF Seen
  <2> QED
    BY <1>0, <2>1, <2>3, <2>4, GraphPatch DEF Graph!Patch, Triage
<1>7. ASSUME NEW c \in Callers, Graph!Move(c) PROVE GraphInv'
  <2>1. /\ call[c].result = "running" /\ UNCHANGED seen
        /\ call[c].tool \in {"move_to", "archive", "trash", "untrash"}
        /\ Graph!Patch(c, "folder", Graph!Destination(call[c]))
    BY <1>7 DEF Graph!Move, Graph!Running
  <2>2. Graph!Destination(call[c]) \in Graph!WellKnown
    BY <2>1, GraphToolArgs, FoldersKnown DEF Graph!Destination, Graph!WellKnown
  <2>3. mail' \in [Msgs -> Mail]
    BY <1>0, <2>1, <2>2 DEF Graph!Patch, Mail
  <2> QED
    BY <1>0, <2>1, <2>3, GraphPatch DEF Graph!Patch, Triage
<1>8. ASSUME NEW c \in Callers, Graph!CreateDraft(c) PROVE GraphInv'
  <2>1. /\ call[c].result = "running" /\ call[c].tool = "create_draft"
        /\ Graph!Answered(c) /\ Graph!Count(c) /\ UNCHANGED <<mail, sent, seen, made>>
    BY <1>8 DEF Graph!CreateDraft, Graph!Running
  <2>2. PICK d \in DraftIds : drafts' = [drafts EXCEPT ![d] = call[c].arg]
    BY <1>8 DEF Graph!CreateDraft, Graph!NewDraft
  <2>3. call[c].arg \in Contents /\ call[c].arg # None
    BY <2>1, GraphToolArgs, NoneApart
  <2>4. drafts' \in [DraftIds -> Contents \union {None}]
    BY <1>0, <2>2, <2>3
  <2>5. Accounted'
    BY <1>0, <2>1, <2>2, <2>3, NoneGone DEF GraphInv, Accounted, Gone
  <2> QED
    BY <1>0, <2>1, <2>4, <2>5, GraphComposed DEF Compose
<1>9. ASSUME NEW c \in Callers, Graph!UpdateDraft(c) PROVE GraphInv'
  <2>1. /\ call[c].result = "running" /\ call[c].tool = "update_draft"
        /\ Graph!Answered(c) /\ Graph!Count(c) /\ UNCHANGED <<mail, sent, seen, made>>
        /\ drafts' = [drafts EXCEPT ![call[c].arg[1]] = call[c].arg[2]]
    BY <1>9 DEF Graph!UpdateDraft, Graph!Running
  <2>2. call[c].arg[1] \in DraftIds /\ call[c].arg[2] \in Contents /\ call[c].arg[2] # None
    BY <2>1, GraphToolArgs, NoneApart
  <2>3. drafts' \in [DraftIds -> Contents \union {None}]
    BY <1>0, <2>1, <2>2
  <2>4. Accounted'
    BY <1>0, <2>1, <2>2, NoneGone DEF GraphInv, Accounted, Gone
  <2> QED
    BY <1>0, <2>1, <2>3, <2>4, GraphComposed DEF Compose
<1>10. ASSUME NEW c \in Callers, Graph!SendCreate(c) PROVE GraphInv'
  <2>1. /\ call[c].result = "running" /\ call[c].tool = "send_message"
        /\ UNCHANGED <<mail, sent, seen, done>>
        /\ UNCHANGED call \/ call' = [call EXCEPT ![c].result = "error"]
    BY <1>10 DEF Graph!SendCreate, Graph!Running, Graph!Finish
  <2>2. PICK d \in DraftIds : /\ drafts' = [drafts EXCEPT ![d] = call[c].arg]
                              /\ made' = [made EXCEPT ![c] = d]
    BY <1>10 DEF Graph!SendCreate, Graph!NewDraft
  <2>3. call[c].arg \in Contents /\ call[c].arg # None
    BY <2>1, GraphToolArgs, NoneApart
  <2>4. drafts' \in [DraftIds -> Contents \union {None}]
    BY <1>0, <2>2, <2>3
  <2>5. Accounted'
    <3>1. made' \in [Callers -> DraftIds \union {None}]
      BY <2>2 DEF GraphInv, Accounted
    <3>2. Gone' \subseteq Gone
      BY <1>0, <2>2, <2>3 DEF GraphInv, Accounted, Gone
    <3> QED
      BY <2>1, <3>1, <3>2, NoneGone DEF GraphInv
  <2>6. \A e \in Callers : /\ call'[e].tool = call[e].tool /\ call'[e].arg = call[e].arg
                           /\ call'[e].n = call[e].n /\ call'[e].ids = call[e].ids
                           /\ call'[e].result \in {call[e].result, "error"}
    <3>1. CASE UNCHANGED call
      BY <3>1
    <3>2. CASE call' = [call EXCEPT ![c].result = "error"]
      BY <3>2 DEF GraphInv, Common, CallType
    <3> QED
      BY <2>1, <3>1, <3>2
  <2>7. call' \in [Callers -> CallType]
    <3>1. call \in [Callers -> CallType]
      BY DEF GraphInv, Common
    <3>2. CASE UNCHANGED call
      BY <3>1, <3>2
    <3>3. CASE call' = [call EXCEPT ![c].result = "error"]
      BY <3>1, <3>3 DEF CallType
    <3> QED
      BY <2>1, <3>2, <3>3
  <2>8. Common' /\ Batch' /\ OneEffect'
    <3>1. Common'
      BY <2>1, <2>4, <2>7 DEF GraphInv, Common
    <3>2. done' = done
      BY <2>1
    <3>3. Batch'
      BY <2>6, <3>2 DEF GraphInv, Batch
    <3>4. OneEffect'
      BY <2>6, <3>2 DEF GraphInv, OneEffect
    <3> QED
      BY <3>1, <3>3, <3>4
  <2>9. GraphArgs'
    BY <2>6, GraphArgsKept DEF GraphInv
  <2> QED
    BY <1>0, <2>1, <2>5, <2>8, <2>9 DEF GraphInv
<1>11. ASSUME NEW c \in Callers, Graph!Send(c) PROVE GraphInv'
  <2> DEFINE d == Graph!Sending(c)
  <2>1. /\ call[c].result = "running" /\ call[c].tool \in Compose
        /\ d \in DraftIds
    BY <1>11, GraphToolArgs DEF Graph!Send, Graph!Sending, Graph!Running, Compose,
       GraphInv, Accounted
  <2>2. /\ drafts[d] # None /\ sent' = [sent EXCEPT ![drafts[d]] = @ + 1]
        /\ drafts' = [drafts EXCEPT ![d] = None] /\ UNCHANGED <<mail, seen, made>>
        /\ Graph!Answered(c) /\ Graph!Count(c)
    BY <1>11 DEF Graph!Send
  <2> HIDE DEF d
  <2>3. drafts[d] \in Contents
    BY <1>0, <2>1, <2>2
  <2>4. drafts' \in [DraftIds -> Contents \union {None}] /\ sent' \in [Contents -> Nat]
    BY <1>0, <2>1, <2>2, <2>3
  <2>5. Gone' \subseteq Gone \union {d}
    BY <1>0, <2>2 DEF Gone
  <2>6. Accounted'
    BY <1>0, <2>2, <2>3, <2>5, OneGone DEF GraphInv
  <2> QED
    BY <2>1, <2>2, <2>4, <2>6, GraphComposed
<1> QED
  BY <1>1, <1>2, <1>3, <1>4, <1>5, <1>6, <1>7, <1>8, <1>9, <1>10, <1>11 DEF
     Graph!Next

------------------------------------------------------------------------------
(***************************************************************************)
(* The outcomes.                                                           *)
(***************************************************************************)
PInv ==
  \/ provider = "gmail" /\ GmailInv
  \/ provider = "m365" /\ GraphInv

\* Both invariants hold at the start.
LEMMA InitPInv == Init => PInv
<1> SUFFICES ASSUME Init PROVE PInv
  OBVIOUS
<1>1. Gmail!Idle \in CallType /\ Graph!Idle = Gmail!Idle
  BY EmptySeq DEF CallType, AnyArg, Gmail!Idle, Graph!Idle
<1>2. ASSUME call = [c \in Callers |-> Gmail!Idle], done = [c \in Callers |-> 0],
             drafts = [d \in DraftIds |-> None], sent = [x \in Contents |-> 0]
      PROVE  Common /\ Batch /\ OneEffect /\ GmailArgs /\ GraphArgs
  <2>1. Common
    BY <1>1, <1>2 DEF Common
  <2>2. \A c \in Callers : call[c].tool = None
    BY <1>2 DEF Gmail!Idle
  <2>3. Batch /\ OneEffect
    BY <2>2, NoneApart DEF Batch, OneEffect
  <2>4. GmailArgs /\ GraphArgs
    BY <2>2 DEF GmailArgs, GraphArgs
  <2> QED
    BY <2>1, <2>3, <2>4
<1>3. CASE provider = "gmail" /\ Gmail!Init
  <2>1. Common /\ Batch /\ OneEffect /\ GmailArgs
    BY <1>2, <1>3 DEF Gmail!Init
  <2>2. Collected
    BY <1>3, EmptySeq DEF Gmail!Init, Gmail!Idle, Collected
  <2>3. labelIds \in [Msgs -> SUBSET (Gmail!System \union UserLabels)]
    BY <1>3, StartsKnown DEF Gmail!Init
  <2> QED
    BY <1>3, <2>1, <2>2, <2>3 DEF PInv, GmailInv
<1>4. CASE provider = "m365" /\ Graph!Init
  <2>1. Common /\ Batch /\ OneEffect /\ GraphArgs
    BY <1>1, <1>2, <1>4 DEF Graph!Init
  <2>2. Graph!Sendings = {} /\ Gone = {}
    BY <1>4, NoneApart DEF Graph!Init, Graph!Sendings, Gone
  <2>3. Accounted
    BY <1>4, <2>2, FS_EmptySet DEF Graph!Init, Accounted
  <2>4. seen \in [Callers -> Seen]
    BY <1>4 DEF Graph!Init, Seen
  <2>5. mail \in [Msgs -> Mail]
    <3>1. \A f \in Graph!Flags :
            [read |-> FALSE, flag |-> f, categories |-> {}, folder |-> "inbox"] \in Mail
      BY DEF Mail, Graph!WellKnown
    <3> QED
      BY <1>4, <3>1 DEF Graph!Init
  <2> QED
    BY <1>4, <2>1, <2>3, <2>4, <2>5 DEF PInv, GraphInv
<1> QED
  BY <1>3, <1>4 DEF Init

\* The inductive invariant.
LEMMA Invariant == Spec => []PInv
<1>1. PInv /\ [Next]_vars => PInv'
  <2> SUFFICES ASSUME PInv, [Next]_vars PROVE PInv'
    OBVIOUS
  <2>1. CASE provider = "gmail" /\ Gmail!Next /\ UNCHANGED <<provider, mail, seen, made>>
    BY <2>1, GmailStep DEF PInv
  <2>2. CASE provider = "m365" /\ Graph!Next /\ UNCHANGED <<provider, labelIds, gone, out>>
    BY <2>2, GraphStep DEF PInv
  <2>3. CASE UNCHANGED vars
    <3>1. UNCHANGED <<provider, labelIds, gone, out, mail, seen, made, drafts, sent,
                      call, done, started>>
      BY <2>3 DEF vars, gmailVars, graphVars
    <3>2. Common => Common'
      BY <3>1 DEF Common
    <3>3. (Batch => Batch') /\ (OneEffect => OneEffect') /\ (Collected => Collected')
      BY <3>1 DEF Batch, OneEffect, Collected
    <3>4. (GmailArgs => GmailArgs') /\ (GraphArgs => GraphArgs')
      BY <3>1, GmailArgsKept, GraphArgsKept
    <3>5. Accounted => Accounted'
      BY <3>1, NoneGone DEF Accounted, Gone
    <3> QED
      BY <3>1, <3>2, <3>3, <3>4, <3>5 DEF PInv, GmailInv, GraphInv
  <2> QED
    BY <2>1, <2>2, <2>3 DEF Next
<1> QED
  BY InitPInv, <1>1, PTL DEF Spec

(***************************************************************************)
(* A batch stops at its first failure: a call that succeeded changed every *)
(* message of its list, one that failed none after the failing one.        *)
(***************************************************************************)
THEOREM BatchesStopAtFailure == Spec => []BatchOutcome
<1>1. PInv => BatchOutcome
  <2>1. Common /\ Batch => Gmail!BatchOutcome /\ Graph!BatchOutcome
    <3> SUFFICES ASSUME Common, Batch, NEW c \in Callers, call[c].tool \in Triage
                 PROVE  /\ done[c] \in {call[c].n, call[c].n + 1}
                        /\ done[c] = call[c].n + 1 => call[c].result = "error"
                        /\ call[c].result = "ok" => done[c] = Len(call[c].ids)
      BY DEF Gmail!BatchOutcome, Graph!BatchOutcome, Gmail!Triage, Graph!Triage,
         Triage
    <3>1. call[c].n \in Nat /\ call[c].result \in {"running", "ok", "error"}
      BY DEF Common, CallType
    <3> QED
      BY <3>1 DEF Batch
  <2> QED
    BY <2>1 DEF PInv, GmailInv, GraphInv, BatchOutcome
<1> QED
  BY Invariant, <1>1, PTL

(***************************************************************************)
(* A send tool that succeeds sent once and one that fails at most once, and *)
(* no draft that send_message of Microsoft 365 created is gone unsent.     *)
(***************************************************************************)
THEOREM SendsOnce == Spec => []SendOutcome
<1>1. PInv => SendOutcome
  <2>1. GmailInv => Gmail!SendOutcome
    BY DEF GmailInv, OneEffect, Compose, Gmail!SendOutcome, Gmail!Compose,
       Gmail!Sends
  <2>2. GraphInv => Graph!SendOutcome
    <3> SUFFICES ASSUME GraphInv PROVE Graph!SendOutcome
      OBVIOUS
    <3>1. Cardinality(Gone) <= Cardinality(Graph!Sendings)
      BY DEF GraphInv, Accounted
    <3>2. Graph!Cardinality(Gone) <= Graph!Cardinality(Graph!Sendings)
      BY <3>1, SameCardinality
    <3>3. \A c \in Callers :
            /\ call[c].tool \in Graph!Compose => done[c] <= 1
            /\ call[c].tool \in Graph!Sends /\ call[c].result = "ok" => done[c] = 1
      BY DEF GraphInv, OneEffect, Compose, Graph!Compose, Graph!Sends
    <3> QED
      BY <3>2, <3>3 DEF Gone, Graph!SendOutcome
  <2> QED
    BY <2>1, <2>2 DEF PInv, SendOutcome
<1> QED
  BY Invariant, <1>1, PTL

(***************************************************************************)
(* A search or a list of drafts of Gmail that succeeds has fetched every   *)
(* entry it listed, in order.                                              *)
(***************************************************************************)
THEOREM ListsAreComplete == Spec => []ListComplete
<1>1. PInv => ListComplete
  BY DEF PInv, GmailInv, Collected, Reads, ListComplete, Gmail!ListComplete,
     Gmail!Reads
<1> QED
  BY Invariant, <1>1, PTL
------------------------------------------------------------------------------
(***************************************************************************)
(* The abstract mailbox.                                                   *)
(***************************************************************************)
\* The folder depends on the folder labels only, and is one of them or none.
LEMMA FolderOf ==
  /\ \A a, b : (\A f \in {"INBOX", "SENT", "TRASH", "DRAFT", "SPAM"} : f \in a <=> f \in b)
                 => Gmail!PrimaryFolder(a) = Gmail!PrimaryFolder(b)
  /\ \A a : Gmail!PrimaryFolder(a) \in {"INBOX", "SENT", "TRASH", "DRAFT", "SPAM", None}
<1> DEFINE order == <<"INBOX", "SENT", "TRASH", "DRAFT", "SPAM">>
           hits(a) == {i \in DOMAIN order : order[i] \in a}
<1>1. DOMAIN order = 1 .. 5
  OBVIOUS
<1>2. \A i \in 1 .. 5 : order[i] \in {"INBOX", "SENT", "TRASH", "DRAFT", "SPAM"}
  OBVIOUS
<1>3. \A a : Gmail!PrimaryFolder(a) =
               IF hits(a) = {} THEN None
               ELSE order[CHOOSE i \in hits(a) : \A j \in hits(a) : i <= j]
  BY DEF Gmail!PrimaryFolder, Gmail!FirstOf
<1>4. ASSUME NEW a, NEW b,
             \A f \in {"INBOX", "SENT", "TRASH", "DRAFT", "SPAM"} : f \in a <=> f \in b
      PROVE  Gmail!PrimaryFolder(a) = Gmail!PrimaryFolder(b)
  <2>1. hits(a) = hits(b)
    BY <1>1, <1>2, <1>4
  <2> QED
    BY <1>3, <2>1
<1>5. ASSUME NEW a
      PROVE  Gmail!PrimaryFolder(a) \in {"INBOX", "SENT", "TRASH", "DRAFT", "SPAM", None}
  <2> DEFINE H == hits(a)
  <2>1. CASE H = {}
    BY <1>3, <2>1
  <2>2. CASE H # {}
    <3>1. H \subseteq 1 .. 5
      BY <1>1
    <3> HIDE DEF H, hits, order
    <3>2. \E i \in H : \A j \in H : i <= j
      <4>1. CASE 1 \in H
        BY <3>1, <4>1
      <4>2. CASE 1 \notin H /\ 2 \in H
        BY <3>1, <4>2
      <4>3. CASE 1 \notin H /\ 2 \notin H /\ 3 \in H
        BY <3>1, <4>3
      <4>4. CASE 1 \notin H /\ 2 \notin H /\ 3 \notin H /\ 4 \in H
        BY <3>1, <4>4
      <4>5. CASE 1 \notin H /\ 2 \notin H /\ 3 \notin H /\ 4 \notin H
        <5>1. \A i \in H : i = 5
          BY <3>1, <4>5
        <5> QED
          BY <2>2, <5>1
      <4> QED
        BY <4>1, <4>2, <4>3, <4>4, <4>5
    <3>3. (CHOOSE i \in H : \A j \in H : i <= j) \in 1 .. 5
      BY <3>1, <3>2
    <3>4. Gmail!PrimaryFolder(a) = order[CHOOSE i \in H : \A j \in H : i <= j]
      BY <1>3, <2>2 DEF H
    <3> QED
      BY <1>2, <3>3, <3>4
  <2> QED
    BY <2>1, <2>2
<1> QED
  BY <1>4, <1>5

\* A message becomes another in one property at most: a flag, one label, or the
\* folder.
OneChange(old, new, labels, folders) ==
  \/ \E b \in BOOLEAN : new = [old EXCEPT !.read = b]
  \/ \E b \in BOOLEAN : new = [old EXCEPT !.starred = b]
  \/ \E l \in labels : new = [old EXCEPT !.labels = @ \union {l}]
  \/ \E l \in labels : new = [old EXCEPT !.labels = @ \ {l}]
  \/ \E f \in folders : new = [old EXCEPT !.folder = f]

\* Where Gmail can say that a message is: PrimaryFolder's five, or nowhere.
GmailFolders == {"INBOX", "SENT", "TRASH", "DRAFT", "SPAM"} \union {None}

\* What changing a message's labels changes of what the caller sees of it.
LEMMA OneProperty ==
  ASSUME NEW ids \in SUBSET (Gmail!System \union UserLabels), NEW t \in Triage,
         NEW a \in Gmail!Args(t), NEW on \in BOOLEAN
  PROVE  OneChange(Gmail!View(ids), Gmail!View(Gmail!Changed(ids, Gmail!Modify(t, a, on))),
                   UserLabels, GmailFolders)
<1> DEFINE next == Gmail!Changed(ids, Gmail!Modify(t, a, on))
<1>1. CASE t = "mark_read"
  <2>1. next = IF on THEN ids \ {"UNREAD"} ELSE ids \union {"UNREAD"}
    BY <1>1 DEF Gmail!Changed, Gmail!Modify, Gmail!Toggle
  <2>2. Gmail!PrimaryFolder(next) = Gmail!PrimaryFolder(ids)
    <3> HIDE DEF next
    <3> QED
      BY <2>1, FolderOf
  <2>3. next \ Gmail!System = ids \ Gmail!System
    BY <2>1 DEF Gmail!System
  <2>4. /\ "UNREAD" \notin next <=> on
        /\ "STARRED" \in next <=> "STARRED" \in ids
    BY <2>1
  <2>5. Gmail!View(next) = [Gmail!View(ids) EXCEPT !.read = on]
    <3> HIDE DEF next
    <3> QED
      BY <2>2, <2>3, <2>4 DEF Gmail!View
  <2> QED
    BY <2>5 DEF OneChange
<1>2. CASE t = "star"
  <2>1. next = IF on THEN ids \union {"STARRED"} ELSE ids \ {"STARRED"}
    BY <1>2 DEF Gmail!Changed, Gmail!Modify, Gmail!Toggle
  <2>2. Gmail!PrimaryFolder(next) = Gmail!PrimaryFolder(ids)
    <3> HIDE DEF next
    <3> QED
      BY <2>1, FolderOf
  <2>3. next \ Gmail!System = ids \ Gmail!System
    BY <2>1 DEF Gmail!System
  <2>4. /\ "STARRED" \in next <=> on
        /\ "UNREAD" \in next <=> "UNREAD" \in ids
    BY <2>1
  <2>5. Gmail!View(next) = [Gmail!View(ids) EXCEPT !.starred = on]
    <3> HIDE DEF next
    <3> QED
      BY <2>2, <2>3, <2>4 DEF Gmail!View
  <2> QED
    BY <2>5 DEF OneChange
<1>3. CASE t = "label"
  <2>0. a \in UserLabels /\ a \notin Gmail!System
    BY <1>3, LabelsApart DEF Gmail!Args
  <2>1. next = IF on THEN ids \union {a} ELSE ids \ {a}
    BY <1>3 DEF Gmail!Changed, Gmail!Modify, Gmail!Toggle
  <2>2. Gmail!PrimaryFolder(next) = Gmail!PrimaryFolder(ids)
    <3>1. \A f \in {"INBOX", "SENT", "TRASH", "DRAFT", "SPAM"} : f \in next <=> f \in ids
      BY <2>0, <2>1 DEF Gmail!System
    <3> HIDE DEF next
    <3> QED
      BY <3>1, FolderOf
  <2>3. next \ Gmail!System = IF on THEN (ids \ Gmail!System) \union {a}
                              ELSE (ids \ Gmail!System) \ {a}
    BY <2>0, <2>1
  <2>4. /\ "STARRED" \in next <=> "STARRED" \in ids
        /\ "UNREAD" \in next <=> "UNREAD" \in ids
    BY <2>0, <2>1 DEF Gmail!System
  <2>5. Gmail!View(next) = IF on THEN [Gmail!View(ids) EXCEPT !.labels = @ \union {a}]
                           ELSE [Gmail!View(ids) EXCEPT !.labels = @ \ {a}]
    <3> HIDE DEF next
    <3> QED
      BY <2>2, <2>3, <2>4 DEF Gmail!View
  <2> QED
    BY <2>0, <2>5 DEF OneChange
<1>4. CASE t \in {"move_to", "archive", "trash", "untrash"}
  <2>1. \A x : x \notin {"INBOX", "SENT", "TRASH", "DRAFT", "SPAM"} => (x \in next <=> x \in ids)
    <3>1. t = "move_to" => a \in Folders
      BY DEF Gmail!Args
    <3>2. CASE t = "move_to"
      BY <3>1, <3>2, FoldersKnown DEF Gmail!Changed, Gmail!Modify, Gmail!MoveTo
    <3>3. CASE t = "archive"
      BY <3>3 DEF Gmail!Changed, Gmail!Modify, Gmail!Toggle
    <3>4. CASE t \in {"trash", "untrash"}
      BY <3>4 DEF Gmail!Changed, Gmail!Modify, Gmail!Trash
    <3> QED
      BY <1>4, <3>2, <3>3, <3>4
  <2> HIDE DEF next
  <2>2. next \ Gmail!System = ids \ Gmail!System
    BY <2>1 DEF Gmail!System
  <2>3. /\ "STARRED" \in next <=> "STARRED" \in ids
        /\ "UNREAD" \in next <=> "UNREAD" \in ids
    BY <2>1
  <2>4. Gmail!View(next) = [Gmail!View(ids) EXCEPT !.folder = Gmail!PrimaryFolder(next)]
    BY <2>2, <2>3 DEF Gmail!View
  <2>5. Gmail!PrimaryFolder(next) \in GmailFolders
    BY FolderOf DEF GmailFolders
  <2> QED
    BY <2>4, <2>5 DEF next, OneChange
<1> QED
  BY <1>1, <1>2, <1>3, <1>4 DEF Triage

\* Nothing the callers see changes.
LEMMA GmailStutters == UNCHANGED <<labelIds, drafts, sent>> => Gmail!Mbox!Step
  BY DEF Gmail!Mbox!Step, Gmail!View

\* One message changes.
LEMMA GmailChanges ==
  ASSUME labelIds \in [Msgs -> SUBSET (Gmail!System \union UserLabels)],
         NEW m \in Msgs, NEW t \in Triage, NEW a \in Gmail!Args(t), NEW on \in BOOLEAN,
         labelIds' = [labelIds EXCEPT ![m] = Gmail!Changed(@, Gmail!Modify(t, a, on))],
         UNCHANGED <<drafts, sent>>
  PROVE  Gmail!Mbox!Step
<1> DEFINE old == Gmail!View(labelIds[m])
           new == Gmail!View(labelIds'[m])
           msg == [k \in Msgs |-> Gmail!View(labelIds[k])]
<1>1. OneChange(old, new, UserLabels, GmailFolders)
  <2>1. labelIds'[m] = Gmail!Changed(labelIds[m], Gmail!Modify(t, a, on))
    OBVIOUS
  <2>2. labelIds[m] \in SUBSET (Gmail!System \union UserLabels)
    OBVIOUS
  <2>3. OneChange(Gmail!View(labelIds[m]),
                  Gmail!View(Gmail!Changed(labelIds[m], Gmail!Modify(t, a, on))),
                  UserLabels, GmailFolders)
    BY <2>2, OneProperty
  <2> QED
    BY <2>1, <2>3
<1>2. msg' = [msg EXCEPT ![m] = new]
  OBVIOUS
<1>3. old = msg[m]
  OBVIOUS
<1>4. DOMAIN old = {"read", "starred", "labels", "folder"}
  BY DEF Gmail!View
<1> HIDE DEF old, new, msg
<1>5. CASE \E b \in BOOLEAN : new = [old EXCEPT !.read = b]
  <2>1. PICK b \in BOOLEAN : new = [old EXCEPT !.read = b]
    BY <1>5
  <2>2. msg' = [msg EXCEPT ![m]["read"] = b]
    BY <1>2, <1>3, <2>1
  <2> QED
    BY <2>2 DEF msg, Gmail!Mbox!Step, Gmail!Mbox!Next, Gmail!Mbox!MarkRead,
       Gmail!Mbox!Set
<1>6. CASE \E b \in BOOLEAN : new = [old EXCEPT !.starred = b]
  <2>1. PICK b \in BOOLEAN : new = [old EXCEPT !.starred = b]
    BY <1>6
  <2>2. msg' = [msg EXCEPT ![m]["starred"] = b]
    BY <1>2, <1>3, <2>1
  <2> QED
    BY <2>2 DEF msg, Gmail!Mbox!Step, Gmail!Mbox!Next, Gmail!Mbox!Star,
       Gmail!Mbox!Set
<1>7. CASE \E l \in UserLabels : new = [old EXCEPT !.labels = @ \union {l}]
  <2>1. PICK l \in UserLabels : new = [old EXCEPT !.labels = @ \union {l}]
    BY <1>7
  <2>2. msg' = [msg EXCEPT ![m]["labels"] = msg[m].labels \union {l}]
    BY <1>2, <1>3, <2>1
  <2> QED
    BY <2>2 DEF msg, Gmail!Mbox!Step, Gmail!Mbox!Next, Gmail!Mbox!Label,
       Gmail!Mbox!Set
<1>8. CASE \E l \in UserLabels : new = [old EXCEPT !.labels = @ \ {l}]
  <2>1. PICK l \in UserLabels : new = [old EXCEPT !.labels = @ \ {l}]
    BY <1>8
  <2>2. msg' = [msg EXCEPT ![m]["labels"] = msg[m].labels \ {l}]
    BY <1>2, <1>3, <2>1
  <2> QED
    BY <2>2 DEF msg, Gmail!Mbox!Step, Gmail!Mbox!Next, Gmail!Mbox!Label,
       Gmail!Mbox!Set
<1>9. CASE \E f \in GmailFolders : new = [old EXCEPT !.folder = f]
  <2>1. PICK f \in {"INBOX", "SENT", "TRASH", "DRAFT", "SPAM"} \union {None} :
          new = [old EXCEPT !.folder = f]
    BY <1>9 DEF GmailFolders
  <2>2. msg' = [msg EXCEPT ![m]["folder"] = f]
    BY <1>2, <1>3, <2>1
  <2> QED
    BY <2>2 DEF msg, Gmail!Mbox!Step, Gmail!Mbox!Next, Gmail!Mbox!Refile,
       Gmail!Mbox!Set
<1> QED
  BY <1>1, <1>5, <1>6, <1>7, <1>8, <1>9 DEF OneChange

\* Every step of the Gmail provider is a step of the mailbox.
LEMMA GmailRefines == GmailInv /\ Gmail!Next => Gmail!Mbox!Step
<1> SUFFICES ASSUME GmailInv, Gmail!Next PROVE Gmail!Mbox!Step
  OBVIOUS
<1>0. labelIds \in [Msgs -> SUBSET (Gmail!System \union UserLabels)]
  BY DEF GmailInv
<1>1. ASSUME NEW c \in Callers, NEW t \in Triage \union Compose \union Reads, Gmail!Begin(c, t)
      PROVE  Gmail!Mbox!Step
  BY <1>1, GmailStutters DEF Gmail!Begin, Gmail!mailVars
<1>2. ASSUME NEW c \in Callers, Gmail!Fail(c) \/ Gmail!Search(c) \/ Gmail!ListDrafts(c)
      PROVE  Gmail!Mbox!Step
  BY <1>2, GmailStutters DEF Gmail!Fail, Gmail!Search, Gmail!ListDrafts,
     Gmail!Read, Gmail!mailVars
<1>3. ASSUME NEW c \in Callers, Gmail!ModifyOne(c) PROVE Gmail!Mbox!Step
  <2>1. call[c].result = "running" /\ call[c].tool \in Triage
    BY <1>3 DEF Gmail!ModifyOne, Gmail!Running, Gmail!Triage, Triage
  <2>2. call[c].ids[call[c].n + 1] \in Msgs
    BY <2>1, NextMessage DEF GmailInv
  <2>3. call[c].arg \in Gmail!Args(call[c].tool) /\ call[c].on \in BOOLEAN
    BY <2>1, NoneApart DEF GmailInv, GmailArgs, Common, CallType
  <2>4. /\ labelIds' = [labelIds EXCEPT ![call[c].ids[call[c].n + 1]] =
             Gmail!Changed(@, Gmail!Modify(call[c].tool, call[c].arg, call[c].on))]
        /\ UNCHANGED <<drafts, sent>>
    BY <1>3 DEF Gmail!ModifyOne
  <2> QED
    BY <1>0, <2>1, <2>2, <2>3, <2>4, GmailChanges
<1>4. ASSUME NEW c \in Callers, Gmail!CreateDraft(c) PROVE Gmail!Mbox!Step
  <2>1. call[c].arg \in Contents
    BY <1>4, GmailComposeArgs DEF Gmail!CreateDraft, Gmail!Running
  <2>2. PICK d \in DraftIds : drafts[d] = None /\ drafts' = [drafts EXCEPT ![d] = call[c].arg]
    BY <1>4 DEF Gmail!CreateDraft
  <2>3. Gmail!Mbox!CreateDraft(d, call[c].arg)
    BY <1>4, <2>2 DEF Gmail!CreateDraft, Gmail!Mbox!CreateDraft, Gmail!View
  <2> QED
    BY <2>1, <2>3 DEF Gmail!Mbox!Step, Gmail!Mbox!Next
<1>5. ASSUME NEW c \in Callers, Gmail!UpdateDraft(c) PROVE Gmail!Mbox!Step
  <2>1. call[c].arg[1] \in DraftIds /\ call[c].arg[2] \in Contents
    BY <1>5, GmailComposeArgs DEF Gmail!UpdateDraft, Gmail!Running
  <2>2. Gmail!Mbox!UpdateDraft(call[c].arg[1], call[c].arg[2])
    BY <1>5 DEF Gmail!UpdateDraft, Gmail!Mbox!UpdateDraft, Gmail!View
  <2> QED
    BY <2>1, <2>2 DEF Gmail!Mbox!Step, Gmail!Mbox!Next
<1>6. ASSUME NEW c \in Callers, Gmail!SendDraft(c) PROVE Gmail!Mbox!Step
  <2>1. call[c].arg \in DraftIds
    BY <1>6, GmailComposeArgs DEF Gmail!SendDraft, Gmail!Running
  <2>2. Gmail!Mbox!SendDraft(call[c].arg)
    BY <1>6 DEF Gmail!SendDraft, Gmail!Mbox!SendDraft, Gmail!View
  <2> QED
    BY <2>1, <2>2 DEF Gmail!Mbox!Step, Gmail!Mbox!Next
<1>7. ASSUME NEW c \in Callers, Gmail!SendMessage(c) PROVE Gmail!Mbox!Step
  <2>1. call[c].arg \in Contents
    BY <1>7, GmailComposeArgs DEF Gmail!SendMessage, Gmail!Running
  <2>2. Gmail!Mbox!SendMessage(call[c].arg)
    BY <1>7 DEF Gmail!SendMessage, Gmail!Mbox!SendMessage, Gmail!View
  <2> QED
    BY <2>1, <2>2 DEF Gmail!Mbox!Step, Gmail!Mbox!Next
<1>8. ASSUME NEW m \in Msgs, Gmail!OtherModify(m) PROVE Gmail!Mbox!Step
  <2>1. PICK t \in Triage, on \in BOOLEAN : \E a \in Gmail!Args(t) :
          labelIds' = [labelIds EXCEPT ![m] = Gmail!Changed(@, Gmail!Modify(t, a, on))]
    BY <1>8 DEF Gmail!OtherModify, Gmail!Triage, Triage
  <2>2. UNCHANGED <<drafts, sent>>
    BY <1>8 DEF Gmail!OtherModify
  <2> QED
    BY <1>0, <2>1, <2>2, GmailChanges
<1>9. ASSUME NEW m \in Msgs, Gmail!OtherDelete(m) PROVE Gmail!Mbox!Step
  BY <1>9, GmailStutters DEF Gmail!OtherDelete
<1>10. ASSUME NEW d \in DraftIds, Gmail!OtherSend(d) PROVE Gmail!Mbox!Step
  <2>1. Gmail!Mbox!SendDraft(d)
    BY <1>10 DEF Gmail!OtherSend, Gmail!Mbox!SendDraft, Gmail!View
  <2> QED
    BY <2>1 DEF Gmail!Mbox!Step, Gmail!Mbox!Next
<1> QED
  BY <1>1, <1>2, <1>3, <1>4, <1>5, <1>6, <1>7, <1>8, <1>9, <1>10 DEF Gmail!Next

\* Nothing the callers see changes.
LEMMA GraphStutters == UNCHANGED <<mail, drafts, sent>> => Graph!Mbox!Step
  BY DEF Graph!Mbox!Step, Graph!View

\* Every step of the Microsoft 365 provider is a step of the mailbox, as long as
\* no label call writes back categories that have changed since it read them.
LEMMA GraphRefines ==
  GraphInv /\ Graph!NoStaleLabel /\ Graph!Next => Graph!Mbox!Step
<1> SUFFICES ASSUME GraphInv, Graph!NoStaleLabel, Graph!Next PROVE Graph!Mbox!Step
  OBVIOUS
<1> DEFINE msg == [k \in Msgs |-> Graph!View(mail[k])]
<1>0. mail \in [Msgs -> Mail]
  BY DEF GraphInv
<1>1. ASSUME NEW m \in Msgs PROVE msg[m] = Graph!View(mail[m])
  OBVIOUS
<1>2. ASSUME NEW c \in Callers, call[c].result = "running", call[c].tool \in Triage
      PROVE  Graph!This(c) \in Msgs
  BY <1>2, NextMessage DEF GraphInv, Graph!This
<1>3. ASSUME NEW c \in Callers, NEW t \in Triage \union Compose, Graph!Begin(c, t)
      PROVE  Graph!Mbox!Step
  BY <1>3, GraphStutters DEF Graph!Begin
<1>4. ASSUME NEW c \in Callers, Graph!Fail(c) \/ Graph!LabelGet(c) PROVE Graph!Mbox!Step
  BY <1>4, GraphStutters DEF Graph!Fail, Graph!LabelGet
<1>5. ASSUME NEW c \in Callers, Graph!MarkRead(c) PROVE Graph!Mbox!Step
  <2> DEFINE m == Graph!This(c)
             r == [mail[m] EXCEPT !.read = call[c].on]
  <2>1. /\ m \in Msgs /\ call[c].on \in BOOLEAN
        /\ mail' = [mail EXCEPT ![m]["read"] = call[c].on] /\ UNCHANGED <<drafts, sent>>
    BY <1>2, <1>5 DEF Graph!MarkRead, Graph!Running, Graph!Patch, Triage,
       GraphInv, Common,
                      CallType
  <2> HIDE DEF m
  <2>2. mail' = [mail EXCEPT ![m] = r]
    BY <1>0, <2>1
  <2>3. Graph!View(r) = [Graph!View(mail[m]) EXCEPT !["read"] = call[c].on]
    BY <1>0, <2>1 DEF Graph!View, Mail
  <2>4. msg' = [msg EXCEPT ![m]["read"] = call[c].on]
    <3>1. msg' = [msg EXCEPT ![m] = Graph!View(r)]
      <4> HIDE DEF r
      <4> QED
        BY <1>0, <2>1, <2>2
    <3> HIDE DEF r, msg
    <3> QED
      BY <1>1, <2>1, <2>3, <3>1
  <2> QED
    BY <2>1, <2>4 DEF Graph!Mbox!Step, Graph!Mbox!Next, Graph!Mbox!MarkRead,
       Graph!Mbox!Set
<1>6. ASSUME NEW c \in Callers, Graph!Star(c) PROVE Graph!Mbox!Step
  <2> DEFINE m == Graph!This(c)
             v == IF call[c].on THEN "flagged" ELSE "notFlagged"
             r == [mail[m] EXCEPT !.flag = v]
  <2>1. /\ m \in Msgs /\ call[c].on \in BOOLEAN
        /\ mail' = [mail EXCEPT ![m]["flag"] = v] /\ UNCHANGED <<drafts, sent>>
    BY <1>2, <1>6 DEF Graph!Star, Graph!Running, Graph!Patch, Triage, GraphInv,
       Common,
                      CallType
  <2>2. v \in {"flagged", "complete"} <=> call[c].on
    OBVIOUS
  <2> HIDE DEF m, v
  <2>3. mail' = [mail EXCEPT ![m] = r]
    BY <1>0, <2>1
  <2>4. Graph!View(r) = [Graph!View(mail[m]) EXCEPT !["starred"] = call[c].on]
    BY <1>0, <2>1, <2>2 DEF Graph!View, Mail
  <2>5. msg' = [msg EXCEPT ![m]["starred"] = call[c].on]
    <3>1. msg' = [msg EXCEPT ![m] = Graph!View(r)]
      <4> HIDE DEF r
      <4> QED
        BY <1>0, <2>1, <2>3
    <3> HIDE DEF r, msg
    <3> QED
      BY <1>1, <2>1, <2>4, <3>1
  <2> QED
    BY <2>1, <2>5 DEF Graph!Mbox!Step, Graph!Mbox!Next, Graph!Mbox!Star,
       Graph!Mbox!Set
<1>7. ASSUME NEW c \in Callers, Graph!LabelPatch(c) PROVE Graph!Mbox!Step
  <2> DEFINE m == Graph!This(c)
             v == (seen[c] \ {call[c].arg}) \union (IF call[c].on THEN {call[c].arg} ELSE {})
             r == [mail[m] EXCEPT !.categories = v]
  <2>1. /\ m \in Msgs /\ call[c].on \in BOOLEAN /\ call[c].arg \in Labels
        /\ mail' = [mail EXCEPT ![m]["categories"] = v] /\ UNCHANGED <<drafts, sent>>
    BY <1>2, <1>7, GraphToolArgs DEF Graph!LabelPatch, Graph!Running, Graph!Patch,
       Triage,
                      GraphInv, Common, CallType
  <2>2. seen[c] = mail[m].categories
    BY <1>7 DEF Graph!LabelPatch, Graph!NoStaleLabel
  <2>3. v = IF call[c].on THEN mail[m].categories \union {call[c].arg}
            ELSE mail[m].categories \ {call[c].arg}
    BY <2>1, <2>2
  <2> HIDE DEF m, v
  <2>4. mail' = [mail EXCEPT ![m] = r]
    BY <1>0, <2>1
  <2>5. Graph!View(r) = [Graph!View(mail[m]) EXCEPT !["labels"] = v]
    BY <1>0, <2>1 DEF Graph!View, Mail
  <2>6. msg' = [msg EXCEPT ![m]["labels"] = v]
    <3>1. msg' = [msg EXCEPT ![m] = Graph!View(r)]
      <4> HIDE DEF r
      <4> QED
        BY <1>0, <2>1, <2>4
    <3> HIDE DEF r, msg
    <3> QED
      BY <1>1, <2>1, <2>5, <3>1
  <2>7. msg[m].labels = mail[m].categories
    BY <2>1 DEF Graph!View
  <2>8. \/ msg' = [msg EXCEPT ![m]["labels"] = msg[m].labels \union {call[c].arg}]
        \/ msg' = [msg EXCEPT ![m]["labels"] = msg[m].labels \ {call[c].arg}]
    <3> HIDE DEF msg
    <3> QED
      BY <2>1, <2>3, <2>6, <2>7
  <2> QED
    BY <2>1, <2>8 DEF Graph!Mbox!Step, Graph!Mbox!Next, Graph!Mbox!Label,
       Graph!Mbox!Set
<1>8. ASSUME NEW c \in Callers, Graph!Move(c) PROVE Graph!Mbox!Step
  <2> DEFINE m == Graph!This(c)
             v == Graph!Destination(call[c])
             r == [mail[m] EXCEPT !.folder = v]
  <2>1. /\ m \in Msgs /\ mail' = [mail EXCEPT ![m]["folder"] = v] /\ UNCHANGED <<drafts, sent>>
    BY <1>2, <1>8 DEF Graph!Move, Graph!Running, Graph!Patch, Triage
  <2>2. v \in Graph!WellKnown
    BY <1>8, GraphToolArgs, FoldersKnown
       DEF Graph!Move, Graph!Running, Graph!Destination, Graph!WellKnown
  <2> HIDE DEF m, v
  <2>3. mail' = [mail EXCEPT ![m] = r]
    BY <1>0, <2>1
  <2>4. Graph!View(r) = [Graph!View(mail[m]) EXCEPT !["folder"] = v]
    BY <1>0, <2>1 DEF Graph!View, Mail
  <2>5. msg' = [msg EXCEPT ![m]["folder"] = v]
    <3>1. msg' = [msg EXCEPT ![m] = Graph!View(r)]
      <4> HIDE DEF r
      <4> QED
        BY <1>0, <2>1, <2>3
    <3> HIDE DEF r, msg
    <3> QED
      BY <1>1, <2>1, <2>4, <3>1
  <2> QED
    BY <2>1, <2>2, <2>5
       DEF Graph!Mbox!Step, Graph!Mbox!Next, Graph!Mbox!Refile, Graph!Mbox!Set
<1>9. ASSUME NEW c \in Callers, Graph!CreateDraft(c) \/ Graph!SendCreate(c)
      PROVE  Graph!Mbox!Step
  <2>1. call[c].arg \in Contents /\ UNCHANGED <<mail, sent>>
    BY <1>9, GraphToolArgs DEF Graph!CreateDraft, Graph!SendCreate, Graph!Running
  <2>2. PICK d \in DraftIds : Graph!NewDraft(d, call[c].arg)
    BY <1>9 DEF Graph!CreateDraft, Graph!SendCreate
  <2>3. Graph!Mbox!CreateDraft(d, call[c].arg)
    BY <2>1, <2>2 DEF Graph!NewDraft, Graph!Mbox!CreateDraft, Graph!View
  <2> QED
    BY <2>1, <2>3 DEF Graph!Mbox!Step, Graph!Mbox!Next
<1>10. ASSUME NEW c \in Callers, Graph!UpdateDraft(c) PROVE Graph!Mbox!Step
  <2>1. call[c].arg[1] \in DraftIds /\ call[c].arg[2] \in Contents
    BY <1>10, GraphToolArgs DEF Graph!UpdateDraft, Graph!Running
  <2>2. Graph!Mbox!UpdateDraft(call[c].arg[1], call[c].arg[2])
    BY <1>10 DEF Graph!UpdateDraft, Graph!Mbox!UpdateDraft, Graph!View
  <2> QED
    BY <2>1, <2>2 DEF Graph!Mbox!Step, Graph!Mbox!Next
<1>11. ASSUME NEW c \in Callers, Graph!Send(c) PROVE Graph!Mbox!Step
  <2>1. Graph!Sending(c) \in DraftIds
    BY <1>11, GraphToolArgs DEF Graph!Send, Graph!Sending, Graph!Running,
       GraphInv, Accounted
  <2>2. Graph!Mbox!SendDraft(Graph!Sending(c))
    BY <1>11 DEF Graph!Send, Graph!Mbox!SendDraft, Graph!View
  <2> QED
    BY <2>1, <2>2 DEF Graph!Mbox!Step, Graph!Mbox!Next
<1> QED
  BY <1>3, <1>4, <1>5, <1>6, <1>7, <1>8, <1>9, <1>10, <1>11 DEF Graph!Next

\* A mailbox of either kind is one at the start.
LEMMA MailboxInit ==
  Init => IF provider = "gmail" THEN Gmail!Mbox!Init ELSE Graph!Mbox!Init
<1> SUFFICES ASSUME Init
             PROVE  IF provider = "gmail" THEN Gmail!Mbox!Init ELSE Graph!Mbox!Init
  OBVIOUS
<1>1. CASE provider = "gmail" /\ Gmail!Init
  <2>1. \A m \in Msgs : labelIds[m] \in SUBSET (Gmail!System \union UserLabels)
    BY <1>1, StartsKnown DEF Gmail!Init
  <2>2. ASSUME NEW m \in Msgs
        PROVE  Gmail!View(labelIds[m]) \in
                 [read : BOOLEAN, starred : BOOLEAN, labels : SUBSET UserLabels,
                  folder : {"INBOX", "SENT", "TRASH", "DRAFT", "SPAM"} \union {None}]
    <3>1. Gmail!PrimaryFolder(labelIds[m]) \in
            {"INBOX", "SENT", "TRASH", "DRAFT", "SPAM"} \union {None}
      BY FolderOf
    <3>2. labelIds[m] \ Gmail!System \in SUBSET UserLabels
      BY <2>1
    <3> QED
      BY <3>1, <3>2 DEF Gmail!View
  <2> QED
    BY <1>1, <2>2 DEF Gmail!Init, Gmail!Mbox!Init
<1>2. CASE provider = "m365" /\ Graph!Init
  <2>1. \A m \in Msgs : Graph!View(mail[m]) \in
          [read : BOOLEAN, starred : BOOLEAN, labels : SUBSET Labels,
           folder : Graph!WellKnown \union {None}]
    <3> SUFFICES ASSUME NEW m \in Msgs
                 PROVE  Graph!View(mail[m]) \in
                          [read : BOOLEAN, starred : BOOLEAN, labels : SUBSET Labels,
                           folder : Graph!WellKnown \union {None}]
      OBVIOUS
    <3>1. PICK f \in Graph!Flags :
            mail[m] = [read |-> FALSE, flag |-> f, categories |-> {}, folder |-> "inbox"]
      BY <1>2 DEF Graph!Init
    <3>2. "inbox" \in Graph!WellKnown
      BY DEF Graph!WellKnown
    <3>3. mail[m].read = FALSE /\ mail[m].categories = {} /\ mail[m].folder = "inbox"
      BY <3>1
    <3>4. (mail[m].flag \in {"flagged", "complete"}) \in BOOLEAN
      OBVIOUS
    <3> QED
      BY <3>2, <3>3, <3>4 DEF Graph!View
  <2> QED
    BY <1>2, <2>1 DEF Graph!Init, Graph!Mbox!Init
<1> QED
  BY <1>1, <1>2 DEF Init

(***************************************************************************)
(* Both providers implement the abstract mailbox, for every number of      *)
(* messages, labels, callers and calls: each request of gmail/triage.rs,   *)
(* gmail/trash.rs, m365/triage.rs and the compose.rs of both changes one   *)
(* property of one message, one draft, or sends one message.  For          *)
(* Microsoft 365, except where a label call writes stale categories back.  *)
(***************************************************************************)
THEOREM ProvidersImplementMailbox == Spec => ImplementsMailbox
<1> DEFINE Mapped == IF provider = "gmail" THEN Gmail!Mbox!Step
                     ELSE Graph!NoStaleLabel => Graph!Mbox!Step
<1>1. PInv /\ [Next]_vars => [Mapped]_vars
  <2> SUFFICES ASSUME PInv, Next PROVE Mapped
    OBVIOUS
  <2>1. CASE provider = "gmail" /\ Gmail!Next
    BY <2>1, GmailRefines DEF PInv
  <2>2. CASE provider = "m365" /\ Graph!Next
    BY <2>2, GraphRefines DEF PInv
  <2> QED
    BY <2>1, <2>2 DEF Next
<1> QED
  BY MailboxInit, Invariant, <1>1, PTL DEF Spec, ImplementsMailbox
=============================================================================
