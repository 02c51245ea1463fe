---------------------------- MODULE GraphProvider ----------------------------
(***************************************************************************)
(* M365Provider (providers/m365): the tools that change a mailbox.         *)
(* triage.rs works a list of messages off one at a time, with one PATCH or *)
(* move each; label takes two requests, because Graph only replaces the    *)
(* whole category list.  compose.rs sends by creating a draft and then     *)
(* sending it.                                                             *)
(*                                                                         *)
(* Graph itself is external: it carries out one request at a time.  A      *)
(* request may fail before Graph carried it out or after.                  *)
(***************************************************************************)
EXTENDS Naturals, Sequences, FiniteSets

CONSTANTS
  Msgs,       \* messages
  Labels,     \* category names
  Moves,      \* folder ids that callers pass to move_to
  Tools,      \* tools that callers call
  DraftIds,   \* ids Graph gives to drafts
  Contents,   \* what a message or draft says
  Callers,    \* tool calls at a time
  MaxCalls,   \* bound: tool calls started
  None

WellKnown == {"inbox", "archive", "deleteditems", "junkemail"}
Triage == {"mark_read", "star", "label", "move_to", "archive", "trash", "untrash"}
Sends == {"send_message", "send_draft"}
Compose == Sends \union {"create_draft", "update_draft"}

VARIABLES
  mail,     \* mail[m]: isRead, flagStatus, categories and folder
  drafts,   \* drafts[d]: the content of a draft, None when there is none
  sent,     \* sent[x]: how often content x went out
  call,     \* call[c]: the tool call of caller c
  seen,     \* seen[c]: the categories that c has read, None before that
  made,     \* made[c]: the draft that c's send_message has created
  done,     \* done[c]: changes and sends of this call that took effect
  started   \* tool calls started

vars == <<mail, drafts, sent, call, seen, made, done, started>>

\* The sends so far: the i-th time that content x went out.
Sendings == UNION {{x} \X (1 .. sent[x]) : x \in Contents}

Flags == {"notFlagged", "flagged", "complete"}

TypeOK ==
  /\ mail \in [Msgs -> [read : BOOLEAN, flag : Flags,
                        categories : SUBSET Labels, folder : WellKnown]]
  /\ drafts \in [DraftIds -> Contents \union {None}]
  /\ \A x \in Contents : sent[x] \in Nat
  /\ \A c \in Callers : /\ call[c].tool \in Tools \union {None}
                        /\ call[c].result \in {"running", "ok", "error"}
                        /\ seen[c] \in {{None}} \union SUBSET Labels
                        /\ made[c] \in DraftIds \union {None}
                        /\ done[c] \in 0 .. 2
------------------------------------------------------------------------------
Idle == [tool |-> None, arg |-> None, on |-> TRUE, ids |-> <<>>, n |-> 0,
         result |-> "ok"]
Unread == {None}   \* the value of seen[c] before the GET

Args(t) ==
  CASE t = "label" -> Labels
    [] t = "move_to" -> Moves
    [] t \in {"create_draft", "send_message"} -> Contents
    [] t = "send_draft" -> DraftIds
    [] t = "update_draft" -> DraftIds \X Contents
    [] OTHER -> {None}

Batches == {<<m>> : m \in Msgs} \union (Msgs \X Msgs)

Init ==
  /\ mail \in [Msgs -> {[read |-> FALSE, flag |-> f, categories |-> {},
                         folder |-> "inbox"] : f \in Flags}]
  /\ drafts = [d \in DraftIds |-> None] /\ sent = [x \in Contents |-> 0]
  /\ call = [c \in Callers |-> Idle]
  /\ seen = [c \in Callers |-> Unread] /\ made = [c \in Callers |-> None]
  /\ done = [c \in Callers |-> 0] /\ started = 0

Begin(c, t) ==
  /\ call[c].result # "running" /\ started < MaxCalls
  /\ started' = started + 1
  /\ \E a \in Args(t),
        on \in (IF t \in {"mark_read", "star", "label"} THEN BOOLEAN ELSE {TRUE}),
        ids \in (IF t \in Triage THEN Batches ELSE {<<>>}) :
       call' = [call EXCEPT ![c] = [tool |-> t, arg |-> a, on |-> on,
                                    ids |-> ids, n |-> 0, result |-> "running"]]
  /\ seen' = [seen EXCEPT ![c] = Unread] /\ made' = [made EXCEPT ![c] = None]
  /\ done' = [done EXCEPT ![c] = 0]
  /\ UNCHANGED <<mail, drafts, sent>>

Running(c, tools) == call[c].result = "running" /\ call[c].tool \in tools
Finish(c, r) == call' = [call EXCEPT ![c].result = r]
Count(c) == done' = [done EXCEPT ![c] = @ + 1]

MutantFail(c) ==   \* the loop goes on with the next message
  /\ call[c].result = "running"
  /\ call' = [call EXCEPT ![c].n = @ + 1,
                ![c].result = IF call[c].n + 1 < Len(call[c].ids)
                              THEN "running" ELSE "ok"]
  /\ UNCHANGED <<mail, drafts, sent, seen, made, done, started>>

\* A request fails without effect: error_for_status()? or send()? ends the
\* call where it stands.
Fail(c) ==
  /\ call[c].result = "running" /\ Finish(c, "error")
  /\ UNCHANGED <<mail, drafts, sent, seen, made, done, started>>
------------------------------------------------------------------------------
(***************************************************************************)
(* triage.rs.                                                              *)
(***************************************************************************)
This(c) == call[c].ids[call[c].n + 1]

\* The answer to the last request for a message: the loop goes on, or the
\* answer is lost and the call ends.
Advance(c) ==
  \/ call' = [call EXCEPT ![c].n = @ + 1,
                ![c].result = IF call[c].n + 1 = Len(call[c].ids)
                              THEN "ok" ELSE "running"]
  \/ Finish(c, "error")

\* patch_one and move_one: one field of one message.
Patch(c, field, v) ==
  /\ mail' = [mail EXCEPT ![This(c)][field] = v]
  /\ Advance(c) /\ Count(c)
  /\ UNCHANGED <<drafts, sent, made, started>>

MarkRead(c) ==
  Running(c, {"mark_read"}) /\ Patch(c, "read", call[c].on) /\ UNCHANGED seen

Star(c) ==
  /\ Running(c, {"star"})
  /\ Patch(c, "flag", IF call[c].on THEN "flagged" ELSE "notFlagged")
  /\ UNCHANGED seen

\* label_impl: GET the categories, ...
LabelGet(c) ==
  /\ Running(c, {"label"}) /\ seen[c] = Unread
  /\ seen' = [seen EXCEPT ![c] = mail[This(c)].categories]
  /\ UNCHANGED <<mail, drafts, sent, call, made, done, started>>

MutantLabelPatch(c) ==   \* the PATCH carries the one label only
  /\ Running(c, {"label"}) /\ seen[c] # Unread
  /\ Patch(c, "categories", IF call[c].on THEN {call[c].arg} ELSE {})
  /\ seen' = [seen EXCEPT ![c] = Unread]

\* ... then PATCH the list that was read, with the one label in or out.
LabelPatch(c) ==
  /\ Running(c, {"label"}) /\ seen[c] # Unread
  /\ Patch(c, "categories", (seen[c] \ {call[c].arg}) \union
                               (IF call[c].on THEN {call[c].arg} ELSE {}))
  /\ seen' = [seen EXCEPT ![c] = Unread]

Destination(k) ==
  CASE k.tool = "move_to" -> k.arg
    [] k.tool = "archive" -> "archive"
    [] k.tool = "trash" -> "deleteditems"
    [] OTHER -> "inbox"

Move(c) ==
  /\ Running(c, {"move_to", "archive", "trash", "untrash"})
  /\ Patch(c, "folder", Destination(call[c])) /\ UNCHANGED seen
------------------------------------------------------------------------------
(***************************************************************************)
(* compose.rs.                                                             *)
(***************************************************************************)
Answered(c) == \E r \in {"ok", "error"} : Finish(c, r)

NewDraft(d, x) == drafts[d] = None /\ drafts' = [drafts EXCEPT ![d] = x]

CreateDraft(c) ==
  /\ Running(c, {"create_draft"})
  /\ \E d \in DraftIds : NewDraft(d, call[c].arg)
  /\ Answered(c) /\ Count(c) /\ UNCHANGED <<mail, sent, seen, made, started>>

UpdateDraft(c) ==
  /\ Running(c, {"update_draft"}) /\ drafts[call[c].arg[1]] # None
  /\ drafts' = [drafts EXCEPT ![call[c].arg[1]] = call[c].arg[2]]
  /\ Answered(c) /\ Count(c) /\ UNCHANGED <<mail, sent, seen, made, started>>

\* send_message_impl: create_draft_impl; when its answer is lost the draft
\* stays and the call fails, and so it does when the send fails.
SendCreate(c) ==
  /\ Running(c, {"send_message"}) /\ made[c] = None
  /\ \E d \in DraftIds : /\ NewDraft(d, call[c].arg)
                         /\ made' = [made EXCEPT ![c] = d]
  /\ UNCHANGED call \/ Finish(c, "error")
  /\ UNCHANGED <<mail, sent, seen, done, started>>

\* Which draft the call is about to send, None when it is not at that point.
Sending(c) ==
  IF Running(c, {"send_draft"}) THEN call[c].arg
  ELSE IF Running(c, {"send_message"}) THEN made[c] ELSE None

MutantSend(c) ==   \* posted again when the answer is lost, the draft kept
  /\ Sending(c) # None /\ drafts[Sending(c)] # None /\ done[c] < 2
  /\ sent' = [sent EXCEPT ![drafts[Sending(c)]] = @ + 1]
  /\ UNCHANGED call \/ Finish(c, "ok")
  /\ Count(c) /\ UNCHANGED <<mail, drafts, seen, made, started>>

\* send_draft_impl: 202, and the draft is on its way.
Send(c) ==
  /\ Sending(c) # None /\ drafts[Sending(c)] # None
  /\ sent' = [sent EXCEPT ![drafts[Sending(c)]] = @ + 1]
  /\ drafts' = [drafts EXCEPT ![Sending(c)] = None]
  /\ Answered(c) /\ Count(c) /\ UNCHANGED <<mail, seen, made, started>>

Next ==
  \E c \in Callers :
    \/ \E t \in Tools : Begin(c, t)
    \/ Fail(c) \/ MarkRead(c) \/ Star(c) \/ LabelGet(c) \/ LabelPatch(c) \/ Move(c)
    \/ CreateDraft(c) \/ UpdateDraft(c) \/ SendCreate(c) \/ Send(c)

Spec == Init /\ [][Next]_vars
------------------------------------------------------------------------------
(***************************************************************************)
(* Properties.                                                             *)
(***************************************************************************)
\* As in GmailProvider: a batch stops at its first failure, a call that
\* succeeded changed every message of its list, one that failed none after
\* the failing one (the loops of triage.rs).
BatchOutcome ==
  \A c \in Callers : call[c].tool \in Triage =>
    /\ done[c] \in {call[c].n, call[c].n + 1}
    /\ done[c] = call[c].n + 1 => call[c].result = "error"
    /\ call[c].result = "ok" => done[c] = Len(call[c].ids)

\* A send tool that succeeds sent once, one that fails at most once, although
\* send_message takes two requests; and the draft that a send_message created
\* is there until it is sent, by this call or by a send_draft that found it:
\* there are at least as many sends as such drafts that are gone
\* (send_message_impl, send_draft_impl).
SendOutcome ==
  /\ \A c \in Callers :
       /\ call[c].tool \in Compose => done[c] <= 1
       /\ call[c].tool \in Sends /\ call[c].result = "ok" => done[c] = 1
  /\ Cardinality({d \in DraftIds : drafts[d] = None /\ \E c \in Callers : made[c] = d})
       <= Cardinality(Sendings)

\* decode: a message counts as starred when flagged or complete.
View(r) ==
  [read |-> r.read, starred |-> r.flag \in {"flagged", "complete"},
   labels |-> r.categories, folder |-> r.folder]

Mbox == INSTANCE Mailbox WITH
  msg <- [m \in Msgs |-> View(mail[m])], Folders <- WellKnown

NoStaleLabel ==
  \A c \in Callers :
    Running(c, {"label"}) /\ seen[c] # Unread => seen[c] = mail[This(c)].categories

\* The provider implements the abstract mailbox, with calls interleaved at every
\* request, as long as no label call is about to write categories back that
\* another call has changed since it read them.
ImplementsMailbox == Mbox!Init /\ [][NoStaleLabel => Mbox!Step]_vars
==============================================================================
