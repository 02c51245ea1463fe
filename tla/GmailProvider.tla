---------------------------- MODULE GmailProvider ----------------------------
(***************************************************************************)
(* GmailProvider (providers/gmail): tool calls that each take several      *)
(* requests to Gmail, running at once and beside the user's other mail     *)
(* clients.  triage.rs and trash.rs work a list of messages off one        *)
(* request at a time; messages.rs and compose.rs list threads or drafts    *)
(* and then fetch each one; compose.rs creates, updates and sends.         *)
(*                                                                         *)
(* Gmail itself is external.  It keeps a set of label ids per message;     *)
(* parse.rs computes flags, labels and folder from that set (View).  A     *)
(* request may fail before Gmail carried it out or after.                  *)
(***************************************************************************)
EXTENDS Naturals, Sequences, FiniteSets

CONSTANTS
  Msgs,        \* messages; each is its own thread
  UserLabels,  \* labels the user made
  Folders,     \* folder ids that callers pass to move_to
  Starts,      \* label sets a message may have at first
  Tools,       \* tools that callers call
  DraftIds,    \* ids Gmail gives to drafts
  Contents,    \* what a message or draft says
  Callers,     \* tool calls at a time
  OtherClient, \* what the user does in another mail client meanwhile
  MaxCalls,    \* bound: tool calls started
  None

System == {"INBOX", "SENT", "TRASH", "DRAFT", "SPAM", "STARRED", "UNREAD"}
Triage == {"mark_read", "star", "label", "move_to", "archive", "trash", "untrash"}
Reads == {"search", "list_drafts"}
Sends == {"send_message", "send_draft"}
Compose == Sends \union {"create_draft", "update_draft"}

VARIABLES
  labelIds,  \* labelIds[m]: Gmail's labels of a message
  gone,      \* messages deleted for good
  drafts,    \* drafts[d]: the content of a draft, None when there is none
  sent,      \* sent[x]: how often content x went out
  call,      \* call[c]: the tool call of caller c
  done,      \* done[c]: requests of this call that Gmail carried out
  out,       \* out[c]: what a read has collected so far
  started    \* tool calls started

mailVars == <<labelIds, gone, drafts, sent>>
vars == <<mailVars, call, done, out, started>>
------------------------------------------------------------------------------
(***************************************************************************)
(* decode: the flags, labels and folder of a message.                      *)
(***************************************************************************)
FirstOf(order, ids) ==
  LET hits == {i \in DOMAIN order : order[i] \in ids} IN
  IF hits = {} THEN None ELSE order[CHOOSE i \in hits : \A j \in hits : i <= j]

\* primary_folder: the first of these that the message carries.
PrimaryFolder(ids) == FirstOf(<<"INBOX", "SENT", "TRASH", "DRAFT", "SPAM">>, ids)

View(ids) ==
  [read |-> "UNREAD" \notin ids, starred |-> "STARRED" \in ids,
   labels |-> ids \ System, folder |-> PrimaryFolder(ids)]
------------------------------------------------------------------------------
(***************************************************************************)
(* ModifyRequest: what each triage tool adds and removes.                  *)
(***************************************************************************)
Toggle(l, on) ==
  [add |-> IF on THEN {l} ELSE {}, remove |-> IF on THEN {} ELSE {l}]

\* move_to: away from every folder label but the target, which is added.
MoveTo(f) == [add |-> {f}, remove |-> {"INBOX", "SPAM", "TRASH"} \ {f}]

\* trash_impl and untrash_impl post to endpoints of their own: Gmail takes a
\* trashed message out of the inbox.
Trash(on) ==
  [add |-> IF on THEN {"TRASH"} ELSE {}, remove |-> IF on THEN {"INBOX"} ELSE {"TRASH"}]

\* The request for tool t.
Modify(t, arg, on) ==
  CASE t = "mark_read" -> Toggle("UNREAD", ~on)
    [] t = "star" -> Toggle("STARRED", on)
    [] t = "label" -> Toggle(arg, on)
    [] t = "move_to" -> MoveTo(arg)
    [] t = "archive" -> Toggle("INBOX", FALSE)
    [] OTHER -> Trash(t = "trash")

\* messages.modify: adds and removes, and touches no other label.
Changed(ids, r) == (ids \ r.remove) \union r.add
------------------------------------------------------------------------------
Idle == [tool |-> None, arg |-> None, on |-> TRUE, ids |-> <<>>, n |-> 0,
         result |-> "ok"]

Args(t) ==
  CASE t = "label" -> UserLabels
    [] t = "move_to" -> Folders
    [] t \in {"create_draft", "send_message"} -> Contents
    [] t = "send_draft" -> DraftIds
    [] t = "update_draft" -> DraftIds \X Contents
    [] OTHER -> {None}

Batches == {<<m>> : m \in Msgs} \union (Msgs \X Msgs)

Init ==
  /\ labelIds \in [Msgs -> Starts] /\ gone = {}
  /\ drafts = [d \in DraftIds |-> None] /\ sent = [x \in Contents |-> 0]
  /\ call = [c \in Callers |-> Idle]
  /\ done = [c \in Callers |-> 0] /\ out = [c \in Callers |-> <<>>]
  /\ started = 0

\* dispatch's execute calls the provider.  A read first gets the list of
\* threads or drafts, in one request.
Begin(c, t) ==
  /\ call[c].result # "running" /\ started < MaxCalls
  /\ started' = started + 1
  /\ \E a \in Args(t),
        on \in (IF t \in {"mark_read", "star", "label"} THEN BOOLEAN ELSE {TRUE}),
        ids \in (IF t \in Triage THEN Batches ELSE {<<>>}) :
       call' = [call EXCEPT ![c] = [tool |-> t, arg |-> a, on |-> on,
                                    ids |-> ids, n |-> 0, result |-> "running"]]
  /\ done' = [done EXCEPT ![c] = 0] /\ out' = [out EXCEPT ![c] = <<>>]
  /\ UNCHANGED mailVars

Running(c, tools) == call[c].result = "running" /\ call[c].tool \in tools
Finish(c, r) == call' = [call EXCEPT ![c].result = r]
Count(c) == done' = [done EXCEPT ![c] = @ + 1]

\* A request fails without effect, at the network or at Gmail:
\* error_for_status()? or send()? ends the call where it stands.
Fail(c) ==
  /\ call[c].result = "running" /\ Finish(c, "error")
  /\ UNCHANGED <<mailVars, done, out, started>>

\* modify_all, trash_impl, untrash_impl: the request for the next message.
\* The answer may be lost: then the call ends although Gmail did it.
ModifyOne(c) ==
  /\ Running(c, Triage)
  /\ LET k == call[c] m == k.ids[k.n + 1] IN
       /\ m \notin gone
       /\ labelIds' = [labelIds EXCEPT ![m] = Changed(@, Modify(k.tool, k.arg, k.on))]
       /\ \/ call' = [call EXCEPT ![c].n = @ + 1,
                        ![c].result = IF k.n + 1 = Len(k.ids) THEN "ok" ELSE "running"]
          \/ Finish(c, "error")
  /\ Count(c) /\ UNCHANGED <<gone, drafts, sent, out, started>>

\* The list of the entries there are, in one request (of drafts the first page only:
\* DraftListResp has no nextPageToken), ...
List(c, S) ==
  /\ call[c].n = 0
  /\ \E s \in [1 .. Cardinality(S) -> S] :
       /\ \A i, j \in DOMAIN s : s[i] = s[j] => i = j
       /\ call' = [call EXCEPT ![c].ids = s, ![c].n = 1]
  /\ UNCHANGED out

MutantFetch(c, S) ==   \* an entry that is gone is skipped
  /\ call[c].n \in 1 .. Len(call[c].ids)
  /\ LET e == call[c].ids[call[c].n] IN
       out' = IF e \in S THEN [out EXCEPT ![c] = Append(@, e)] ELSE out
  /\ call' = [call EXCEPT ![c].n = @ + 1]

\* ... then each entry by a request of its own, 404 once it is gone (Fail), ...
Fetch(c, S) ==
  /\ call[c].n \in 1 .. Len(call[c].ids)
  /\ LET e == call[c].ids[call[c].n] IN
       e \in S /\ out' = [out EXCEPT ![c] = Append(@, e)]
  /\ call' = [call EXCEPT ![c].n = @ + 1]

\* ... and the result.
Listed(c) == call[c].n = Len(call[c].ids) + 1 /\ Finish(c, "ok") /\ UNCHANGED out

Read(c, S) ==
  /\ List(c, S) \/ Fetch(c, S) \/ Listed(c)
  /\ UNCHANGED <<mailVars, done, started>>

Search(c) == Running(c, {"search"}) /\ Read(c, Msgs \ gone)
ListDrafts(c) ==
  Running(c, {"list_drafts"}) /\ Read(c, {d \in DraftIds : drafts[d] # None})
------------------------------------------------------------------------------
(***************************************************************************)
(* compose.rs: one request each, answered or not.                          *)
(***************************************************************************)
Answered(c) == \E r \in {"ok", "error"} : Finish(c, r)

CreateDraft(c) ==
  /\ Running(c, {"create_draft"})
  /\ \E d \in DraftIds : /\ drafts[d] = None
                         /\ drafts' = [drafts EXCEPT ![d] = call[c].arg]
  /\ Answered(c) /\ Count(c) /\ UNCHANGED <<labelIds, gone, sent, out, started>>

UpdateDraft(c) ==
  /\ Running(c, {"update_draft"})
  /\ drafts[call[c].arg[1]] # None
  /\ drafts' = [drafts EXCEPT ![call[c].arg[1]] = call[c].arg[2]]
  /\ Answered(c) /\ Count(c) /\ UNCHANGED <<labelIds, gone, sent, out, started>>

SendDraft(c) ==
  /\ Running(c, {"send_draft"}) /\ drafts[call[c].arg] # None
  /\ sent' = [sent EXCEPT ![drafts[call[c].arg]] = @ + 1]
  /\ drafts' = [drafts EXCEPT ![call[c].arg] = None]
  /\ Answered(c) /\ Count(c) /\ UNCHANGED <<labelIds, gone, out, started>>

SendMessage(c) ==
  /\ Running(c, {"send_message"})
  /\ sent' = [sent EXCEPT ![call[c].arg] = @ + 1]
  /\ Answered(c) /\ Count(c) /\ UNCHANGED <<labelIds, gone, drafts, out, started>>
------------------------------------------------------------------------------
(***************************************************************************)
(* The user's other mail client: the same changes, and deletions.          *)
(***************************************************************************)
OtherModify(m) ==
  /\ m \notin gone
  /\ \E t \in Triage \intersect OtherClient, on \in BOOLEAN : \E a \in Args(t) :
       labelIds' = [labelIds EXCEPT ![m] = Changed(@, Modify(t, a, on))]
  /\ UNCHANGED <<gone, drafts, sent, call, done, out, started>>

OtherDelete(m) ==
  /\ "delete" \in OtherClient /\ m \notin gone /\ gone' = gone \union {m}
  /\ UNCHANGED <<labelIds, drafts, sent, call, done, out, started>>

OtherSend(d) ==
  /\ "send" \in OtherClient /\ drafts[d] # None
  /\ sent' = [sent EXCEPT ![drafts[d]] = @ + 1]
  /\ drafts' = [drafts EXCEPT ![d] = None]
  /\ UNCHANGED <<labelIds, gone, call, done, out, started>>

Next ==
  \/ \E c \in Callers :
       \/ \E t \in Tools : Begin(c, t)
       \/ Fail(c) \/ ModifyOne(c) \/ Search(c) \/ ListDrafts(c)
       \/ CreateDraft(c) \/ UpdateDraft(c) \/ SendDraft(c) \/ SendMessage(c)
  \/ \E m \in Msgs : OtherModify(m) \/ OtherDelete(m)
  \/ \E d \in DraftIds : OtherSend(d)

Spec == Init /\ [][Next]_vars
------------------------------------------------------------------------------
(***************************************************************************)
(* Properties.                                                             *)
(***************************************************************************)
TypeOK ==
  /\ labelIds \in [Msgs -> SUBSET (System \union UserLabels)]
  /\ gone \subseteq Msgs
  /\ drafts \in [DraftIds -> Contents \union {None}]
  /\ \A x \in Contents : sent[x] \in Nat
  /\ \A c \in Callers : /\ call[c].tool \in Tools \union {None}
                        /\ call[c].result \in {"running", "ok", "error"}
                        /\ done[c] \in 0 .. 2
  /\ \A m \in Msgs : View(labelIds[m]).folder
                       \in {"INBOX", "SENT", "TRASH", "DRAFT", "SPAM", None}

\* A batch is worked off in order and stops at its first failure: a call that
\* succeeded changed every message of its list, and one that failed changed
\* those before the failure, the failing one perhaps, and none after it
\* (modify_all; the loops of trash_impl and untrash_impl).
BatchOutcome ==
  \A c \in Callers : call[c].tool \in Triage =>
    /\ done[c] \in {call[c].n, call[c].n + 1}
    /\ done[c] = call[c].n + 1 => call[c].result = "error"
    /\ call[c].result = "ok" => done[c] = Len(call[c].ids)

\* A send tool sends once when it succeeds and at most once when it fails, and
\* nothing but a send tool sends (compose.rs).
SendOutcome ==
  \A c \in Callers :
    /\ call[c].tool \in Compose => done[c] <= 1
    /\ call[c].tool \in Sends /\ call[c].result = "ok" => done[c] = 1

\* A search or a list of drafts that succeeds leaves out nothing of what it
\* listed, however many threads vanish between the list and the fetches
\* (search_impl, list_drafts_impl).
ListComplete ==
  \A c \in Callers : call[c].tool \in Reads /\ call[c].result = "ok"
                       => out[c] = call[c].ids

Mbox == INSTANCE Mailbox WITH
  msg <- [m \in Msgs |-> View(labelIds[m])],
  Labels <- UserLabels,
  Folders <- {"INBOX", "SENT", "TRASH", "DRAFT", "SPAM"}

\* The provider implements the abstract mailbox: with calls and other clients
\* interleaved at every request, no step loses a label or touches a second
\* property of a message.
ImplementsMailbox == Mbox!Init /\ [][Mbox!Step]_vars
==============================================================================
