----------------------------- MODULE Providers ------------------------------
(***************************************************************************)
(* Both mail providers side by side: `provider' is the kind of the account *)
(* that a behaviour is about.  The variables that only the other provider  *)
(* has keep the value None.                                                *)
(***************************************************************************)
EXTENDS FiniteSets

CONSTANTS
  Msgs, DraftIds, Contents, Callers, MaxCalls, None,   \* of both
  UserLabels, Folders, Starts, OtherClient,            \* of GmailProvider
  Labels, Moves                                        \* of GraphProvider

VARIABLES provider, labelIds, gone, out, mail, seen, made, drafts, sent, call,
          done, started

gmailVars == <<labelIds, gone, out>>
graphVars == <<mail, seen, made>>
vars == <<provider, gmailVars, graphVars, drafts, sent, call, done, started>>

Triage == {"mark_read", "star", "label", "move_to", "archive", "trash", "untrash"}
Compose == {"create_draft", "update_draft", "send_draft", "send_message"}
Reads == {"search", "list_drafts"}

Gmail == INSTANCE GmailProvider WITH Tools <- Triage \union Compose \union Reads

Graph == INSTANCE GraphProvider WITH Tools <- Triage \union Compose

ASSUME MsgsFinite == IsFiniteSet(Msgs)
ASSUME DraftIdsFinite == IsFiniteSet(DraftIds)
\* "Nothing" is neither a tool nor a draft, a content or a folder.
ASSUME NoneApart ==
  None \notin Triage \union Compose \union Reads \union DraftIds \union Contents
\* Labels the user made are not Gmail's own, a message has labels there are, and
\* callers move messages to folders: on Gmail the five that list_folders' own
\* description names (tools.rs:98), although it returns every system label.
ASSUME LabelsApart == UserLabels \intersect Gmail!System = {}
ASSUME StartsKnown == Starts \subseteq SUBSET (Gmail!System \union UserLabels)
ASSUME FoldersKnown ==
  Folders \subseteq {"INBOX", "SENT", "TRASH", "DRAFT", "SPAM"} /\ Moves \subseteq Graph!WellKnown

Init ==
  \/ provider = "gmail" /\ Gmail!Init /\ mail = None /\ seen = None /\ made = None
  \/ provider = "m365" /\ Graph!Init /\ labelIds = None /\ gone = None /\ out = None

Next ==
  \/ provider = "gmail" /\ Gmail!Next /\ UNCHANGED <<provider, mail, seen, made>>
  \/ provider = "m365" /\ Graph!Next /\ UNCHANGED <<provider, labelIds, gone, out>>

Spec == Init /\ [][Next]_vars
----------------------------------------------------------------------------
\* A batch is worked off in order and stops at its first failure: a call that
\* succeeded changed every message of its list, and one that failed changed
\* those before the failure, the failing one perhaps, and none after it (the
\* loops of gmail/triage.rs, gmail/trash.rs and m365/triage.rs).
BatchOutcome == IF provider = "gmail" THEN Gmail!BatchOutcome ELSE Graph!BatchOutcome

\* A send tool that succeeds sent once, one that fails at most once, although
\* with Microsoft 365 it takes two requests and leaves a draft in between
\* (compose.rs of both).
SendOutcome == IF provider = "gmail" THEN Gmail!SendOutcome ELSE Graph!SendOutcome

\* A search or a list of drafts of Gmail that succeeds leaves out nothing of
\* what it listed, whatever vanishes between the list and the fetches
\* (search_impl, list_drafts_impl).
ListComplete == provider = "gmail" => Gmail!ListComplete

\* Both providers implement the abstract mailbox, with calls and other clients
\* interleaved at every request: no step loses a label or touches a second
\* property of a message.  For Microsoft 365, as long as no label call is about
\* to write categories back that have changed since it read them.
ImplementsMailbox ==
  /\ IF provider = "gmail" THEN Gmail!Mbox!Init ELSE Graph!Mbox!Init
  /\ [][IF provider = "gmail" THEN Gmail!Mbox!Step
        ELSE Graph!NoStaleLabel => Graph!Mbox!Step]_vars
=============================================================================
