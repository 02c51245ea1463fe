------------------------------- MODULE Mailbox -------------------------------
(***************************************************************************)
(* What the MailProvider trait (providers/trait.rs) promises of a mailbox, *)
(* seen as its Message type shows it: whatever runs at the same time, each *)
(* step changes one property of one message, or one draft, or sends one    *)
(* message, and leaves all the rest alone.  GmailProvider and              *)
(* GraphProvider implement it.                                             *)
(***************************************************************************)
EXTENDS Naturals

CONSTANTS Msgs, Labels, Folders, DraftIds, Contents, None

VARIABLES
  msg,     \* msg[m]: flags, labels and folder of a message
  drafts,  \* drafts[d]: the content of a draft, None when there is none
  sent     \* sent[x]: how often content x went out

Set(m, field, v) ==
  msg' = [msg EXCEPT ![m][field] = v] /\ UNCHANGED <<drafts, sent>>

MarkRead(m) == \E b \in BOOLEAN : Set(m, "read", b)
Star(m) == \E b \in BOOLEAN : Set(m, "starred", b)

\* A label is an additive tag: the other labels stay.
Label(m) ==
  \E l \in Labels :
    \/ Set(m, "labels", msg[m].labels \union {l})
    \/ Set(m, "labels", msg[m].labels \ {l})

\* move_to, archive, trash, untrash.
Refile(m) == \E f \in Folders \union {None} : Set(m, "folder", f)

CreateDraft(d, x) ==
  /\ drafts[d] = None /\ drafts' = [drafts EXCEPT ![d] = x]
  /\ UNCHANGED <<msg, sent>>

UpdateDraft(d, x) ==
  /\ drafts[d] # None /\ drafts' = [drafts EXCEPT ![d] = x]
  /\ UNCHANGED <<msg, sent>>

SendDraft(d) ==
  /\ drafts[d] # None /\ drafts' = [drafts EXCEPT ![d] = None]
  /\ sent' = [sent EXCEPT ![drafts[d]] = @ + 1]
  /\ UNCHANGED msg

SendMessage(x) ==
  sent' = [sent EXCEPT ![x] = @ + 1] /\ UNCHANGED <<msg, drafts>>

Init ==
  /\ msg \in [Msgs -> [read : BOOLEAN, starred : BOOLEAN,
                       labels : SUBSET Labels, folder : Folders \union {None}]]
  /\ drafts = [d \in DraftIds |-> None]
  /\ sent = [x \in Contents |-> 0]

Next ==
  \/ \E m \in Msgs : MarkRead(m) \/ Star(m) \/ Label(m) \/ Refile(m)
  \/ \E d \in DraftIds, x \in Contents : CreateDraft(d, x) \/ UpdateDraft(d, x)
  \/ \E d \in DraftIds : SendDraft(d)
  \/ \E x \in Contents : SendMessage(x)

Step == [Next]_<<msg, drafts, sent>>

Spec == Init /\ [][Step]_<<msg, drafts, sent>>
==============================================================================
