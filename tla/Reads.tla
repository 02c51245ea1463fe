-------------------------------- MODULE Reads --------------------------------
(***************************************************************************)
(* What reads rest on, side by side.  A behaviour is about one part of it, *)
(* which `part' names: the message cache (whose module this one extends),  *)
(* paging through a search of a Microsoft 365 mailbox, decoding the parts  *)
(* of a Gmail message, or decoding an address header.  The cache keeps its *)
(* initial state in the other parts; the variables of the rest are then    *)
(* None.                                                                   *)
(***************************************************************************)
EXTENDS MessageCache

CONSTANTS
  N, Convs, Folders, PageSize, ThreadTop, DraftTop,  \* of GraphSearch
  MaxParts, MaxAddrs                                 \* of MessageParse

ASSUME NNat == N \in Nat
ASSUME PageSizePos == PageSize \in Nat \ {0}
ASSUME MaxPartsNat == MaxParts \in Nat
ASSUME NoneNoPart == None \notin Nat

VARIABLES
  part,
  conv, cats, parent, draft, query, cursor, pages, thread, shown, listed,
  parts, at, body_text, body_html, attachments, header, text, emails

searchVars == <<conv, cats, parent, draft, query, cursor, pages, thread, shown, listed>>
parseVars == <<parts, at, body_text, body_html, attachments, header, text, emails>>
allVars == <<part, vars, searchVars, parseVars>>

Search == INSTANCE GraphSearch WITH Categories <- {}

\* A message without address headers, and the headers without a message.
Walk == INSTANCE MessageParse WITH MaxAddrs <- 0
Header == INSTANCE MessageParse WITH MaxParts <- 0

NoSearch ==
  /\ conv = None /\ cats = None /\ parent = None /\ draft = None /\ query = None
  /\ cursor = None /\ pages = None /\ thread = None /\ shown = None /\ listed = None

NoParse ==
  /\ parts = None /\ at = None /\ body_text = None /\ body_html = None
  /\ attachments = None /\ header = None /\ text = None /\ emails = None

ReadsInit ==
  /\ Init
  /\ \/ part = "cache" /\ NoSearch /\ NoParse
     \/ part = "search" /\ Search!Init /\ NoParse
     \/ part = "walk" /\ Walk!Init /\ NoSearch
     \/ part = "header" /\ Header!Init /\ NoSearch

ReadsNext ==
  \/ part = "cache" /\ Next /\ UNCHANGED <<part, searchVars, parseVars>>
  \/ part = "search" /\ Search!Next /\ UNCHANGED <<part, vars, parseVars>>
  \/ part = "walk" /\ Walk!Next /\ UNCHANGED <<part, vars, searchVars>>
  \/ part = "header" /\ Header!Next /\ UNCHANGED <<part, vars, searchVars>>

ReadsSpec == ReadsInit /\ [][ReadsNext]_allVars
------------------------------------------------------------------------------
\* No page of a search shows a conversation twice, and a client that follows
\* next_cursor to the end has been shown every conversation that has a matching
\* message, although pages are cut by message and shown by conversation
\* (search_impl).
PagingCovers == part = "search" => Search!PagingCovers

\* The bodies of a message are the first parts of their types that decode, and
\* its attachments are among its other parts with a filename and a body, each at
\* most once and in the order of the message; not every such part is one, since
\* walk_parts takes the first text part for the body (decode_body).
PartsSound == part = "walk" => Walk!PartsSound

\* A header comes back as the addresses and names it was written from, unless a
\* quoted name holds a comma (parse_address_list, parse_address).
AddressesWhole == part = "header" => Header!AddressesWhole
==============================================================================
