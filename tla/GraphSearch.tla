----------------------------- MODULE GraphSearch -----------------------------
(***************************************************************************)
(* The reads of M365Provider (providers/m365: messages.rs, folders.rs,     *)
(* parse.rs, list_drafts of compose.rs) against a mailbox at rest: a       *)
(* client pages through a search, opens threads and messages, and lists    *)
(* folders, categories and drafts.                                         *)
(*                                                                         *)
(* Graph is external: it filters, orders and cuts a list as the URL says,  *)
(* and hands out the URL of the next page.  A folder and a category have   *)
(* an object id next to their name; a message names its folder by id and   *)
(* its categories by name.                                                 *)
(***************************************************************************)
EXTENDS Naturals, Sequences, FiniteSets, SequencesExt

CONSTANTS
  N,           \* messages 1 .. N, a larger number is a newer message
  Convs,       \* conversations
  Categories,  \* names of the master categories
  Folders,     \* well-known names of the folders in the mailbox
  PageSize,    \* bound for q.limit, 25 when the caller gives none
  ThreadTop,   \* the $top of get_thread, 200
  DraftTop,    \* the $top of list_drafts, 50
  None

Msgs == 1 .. N
Object(f) == <<"object", f>>   \* the object id of a folder or category
Name(f) == <<"name", f>>       \* its name, used as an id

VARIABLES
  conv, cats, parent, draft,  \* the mailbox: conversation, categories and
                              \* folder of a message; whether it is a draft
  query,    \* what the client searches for
  cursor,   \* next_cursor of the last page, None when there is none
  pages,    \* the pages the client got, each the messages its summaries show
  thread,   \* the thread the client opened, and its messages
  shown,    \* the message the client opened
  listed    \* what the last listing returned

mailVars == <<conv, cats, parent, draft>>
vars == <<mailVars, query, cursor, pages, thread, shown, listed>>

Query == [label : Categories \union {None}, folder : Folders \union {None}]
------------------------------------------------------------------------------
(***************************************************************************)
(* Graph.                                                                  *)
(***************************************************************************)
Newer(m, S) == {n \in S : n > m}
Newest(S) ==
  [i \in 1 .. Cardinality(S) |-> CHOOSE m \in S : Cardinality(Newer(m, S)) = i - 1]
Oldest(S) == Reverse(Newest(S))
Top(s, k) == SubSeq(s, 1, IF Len(s) < k THEN Len(s) ELSE k)

\* A page of /me/messages, newest first, and its @odata.nextLink.  Graph is taken
\* to resolve a well-known folder name in the $filter on parentFolderId.
ServePage(url) ==
  LET all == Newest({m \in Msgs :
               url.folder # None => parent[m] = Object(url.folder)})
      rest == SubSeq(all, url.skip + 1, Len(all))
  IN [value |-> Top(rest, PageSize),
      next |-> IF Len(rest) > PageSize
               THEN {[url EXCEPT !.skip = @ + PageSize]} ELSE {}]
------------------------------------------------------------------------------
(***************************************************************************)
(* messages.rs.                                                            *)
(***************************************************************************)
\* build_search_url: a cursor is used as it is; the folder becomes a filter,
\* the label nothing.
BuildSearchUrl(q, cur) ==
  IF cur # {} THEN CHOOSE u \in cur : TRUE ELSE [folder |-> q.folder, skip |-> 0]

\* The loop of search_impl: the first message of each conversation.
Summaries(value) ==
  {value[i] : i \in {j \in DOMAIN value :
                       \A k \in 1 .. j - 1 : conv[value[k]] # conv[value[j]]}}

MutantNextCursor(resp) ==   \* a page that is not full is taken for the last
  IF Cardinality(Summaries(resp.value)) < PageSize THEN {} ELSE resp.next

NextCursor(resp) == resp.next

Page(q, cur) ==
  LET resp == ServePage(BuildSearchUrl(q, cur)) IN
  /\ pages' = Append(IF cur = {} THEN <<>> ELSE pages, Summaries(resp.value))
  /\ cursor' = NextCursor(resp)
  /\ UNCHANGED <<mailVars, thread, shown, listed>>

Search(q) == pages = <<>> /\ query' = q /\ Page(q, {})
NextPage == cursor # {} /\ Page(query, cursor) /\ UNCHANGED query

\* get_thread_impl: one request, oldest first.
GetThread(t) ==
  /\ thread' = [id |-> t,
                messages |-> Top(Oldest({m \in Msgs : conv[m] = t}), ThreadTop)]
  /\ UNCHANGED <<mailVars, query, cursor, pages, shown, listed>>

\* decode: what the caller sees of a message.
Decode(m) ==
  [id |-> m, thread_id |-> conv[m], labels |-> {Name(k) : k \in cats[m]},
   folder |-> parent[m], draft |-> draft[m]]

GetMessage(m) ==
  /\ shown' = {Decode(m)}
  /\ UNCHANGED <<mailVars, query, cursor, pages, thread, listed>>
------------------------------------------------------------------------------
(***************************************************************************)
(* folders.rs and list_drafts_impl.                                        *)
(***************************************************************************)
WellKnown == {"inbox", "sentitems", "deleteditems", "drafts", "junkemail", "archive"}

ListFolders ==
  /\ listed' = [what |-> "folders", 
                ids |-> {Name(f) : f \in Folders \intersect WellKnown}]
  /\ UNCHANGED <<mailVars, query, cursor, pages, thread, shown>>

ListLabels ==
  /\ listed' = [what |-> "labels", ids |-> {Object(k) : k \in Categories}]
  /\ UNCHANGED <<mailVars, query, cursor, pages, thread, shown>>

InDrafts == {m \in Msgs : parent[m] = Object("drafts")}

\* What the loop keeps of a page of the drafts folder.
Kept(s) == SelectSeq(s, LAMBDA m : draft[m])

ListDrafts ==
  /\ listed' = [what |-> "drafts",
                ids |-> ToSet(Kept(Top(Newest(InDrafts), DraftTop)))]
  /\ UNCHANGED <<mailVars, query, cursor, pages, thread, shown>>
------------------------------------------------------------------------------
Init ==
  /\ conv \in [Msgs -> Convs]
  /\ cats \in [Msgs -> SUBSET Categories]
  /\ parent \in [Msgs -> {Object(f) : f \in Folders}]
  /\ draft \in [Msgs -> BOOLEAN]
  /\ \A m \in Msgs : draft[m] => parent[m] = Object("drafts")
  /\ query = [label |-> None, folder |-> None] /\ cursor = {} /\ pages = <<>>
  /\ thread = [id |-> None, messages |-> <<>>] /\ shown = {}
  /\ listed = [what |-> None, ids |-> {}]

Next ==
  \/ \E q \in Query : Search(q)
  \/ NextPage
  \/ \E t \in Convs : GetThread(t)
  \/ \E m \in Msgs : GetMessage(m)
  \/ ListFolders \/ ListLabels \/ ListDrafts

Spec == Init /\ [][Next]_vars
------------------------------------------------------------------------------
(***************************************************************************)
(* Properties.                                                             *)
(***************************************************************************)
TypeOK ==
  /\ query \in Query
  /\ \A u \in cursor : u.folder \in Folders \union {None} /\ u.skip \in 1 .. N
  /\ pages \in Seq(SUBSET Msgs) /\ thread.messages \in Seq(Msgs)
  /\ listed.what = "drafts" => \A m \in listed.ids : draft[m]

Matches == {m \in Msgs : query.folder # None => parent[m] = Object(query.folder)}
Surfaced == UNION {pages[i] : i \in DOMAIN pages}

\* A page shows no conversation twice, and a client that follows next_cursor to
\* the end has been shown every conversation that has a matching message, for
\* every mailbox and page size, although pages are cut by message (search_impl).
PagingCovers ==
  /\ \A k \in DOMAIN pages : \A m, n \in pages[k] : conv[m] = conv[n] => m = n
  /\ pages # <<>> /\ cursor = {} =>
       \A m \in Matches : \E k \in Surfaced : conv[k] = conv[m]
==============================================================================
