---------------------------- MODULE MessageParse ----------------------------
(***************************************************************************)
(* What Gmail's decode (providers/gmail/parse.rs) makes of the parts and   *)
(* the address headers of a message.                                       *)
(*                                                                         *)
(* walk_parts visits the tree of parts top down and left to right and      *)
(* carries its results along, so a message is the sequence of its parts in *)
(* that order.  A header is a sequence of tokens: what separates, and      *)
(* names and addresses as a whole.                                         *)
(***************************************************************************)
EXTENDS Naturals, Sequences, FiniteSets, SequencesExt

CONSTANTS
  MaxParts,   \* bound: parts of a message
  MaxAddrs,   \* bound: addresses of a header
  None

Upto(S, n) == UNION {[1 .. k -> S] : k \in 0 .. n}

\* mimeType, whether there is a filename, and the body: none, data that
\* decodes, data that does not, or an attachmentId instead of data.
Parts == [mime : {"text/plain", "text/html", "other"}, filename : BOOLEAN,
          body : {"none", "data", "garbled", "attachmentId"}]

\* How an address is written: without a display name, or with one that is a
\* word, a word in quotes, or in quotes with a comma inside.
Names == {"bare", "word", "quoted", "comma"}

VARIABLES
  parts,               \* the message
  at,                  \* parts visited
  body_text, body_html,\* the parts taken as body, None if there is none yet
  attachments,         \* the parts listed as attachments
  header,              \* the shapes of the addresses of a header
  text,                \* the header as it is written, a sequence of tokens
  emails               \* what parse_address_list returned

vars == <<parts, at, body_text, body_html, attachments, header, text, emails>>

Init ==
  /\ parts \in Upto(Parts, MaxParts) /\ at = 0
  /\ body_text = None /\ body_html = None /\ attachments = <<>>
  /\ header = <<>> /\ text = <<>> /\ emails = <<>>
------------------------------------------------------------------------------
(***************************************************************************)
(* walk_parts.                                                             *)
(***************************************************************************)
\* decode_body: base64 and UTF-8 have to decode.
DecodeBody(i) == IF parts[i].body = "data" THEN i ELSE None

MutantListed(p) == p.filename   \* the body is not looked at

Listed(p) == p.filename /\ p.body # "none"

Visit ==
  /\ at < Len(parts) /\ at' = at + 1
  /\ LET i == at + 1  p == parts[i] IN
       \/ /\ p.mime = "text/plain" /\ body_text = None
          /\ body_text' = DecodeBody(i) /\ UNCHANGED <<body_html, attachments>>
       \/ /\ p.mime = "text/html" /\ body_html = None
          /\ body_html' = DecodeBody(i) /\ UNCHANGED <<body_text, attachments>>
       \/ /\ ~(p.mime = "text/plain" /\ body_text = None)
          /\ ~(p.mime = "text/html" /\ body_html = None)
          /\ attachments' = IF Listed(p) THEN Append(attachments, i) ELSE attachments
          /\ UNCHANGED <<body_text, body_html>>
  /\ UNCHANGED <<parts, header, text, emails>>
------------------------------------------------------------------------------
(***************************************************************************)
(* parse_address_list.                                                     *)
(***************************************************************************)
\* How the k-th address is written: tokens, and k for the address itself.
Written(shape, k) ==
  CASE shape = "bare" -> <<<<"email", k>>>>
    [] shape = "word" -> <<<<"word", k>>, <<"<", 0>>, <<"email", k>>, <<">", 0>>>>
    [] shape = "quoted" -> <<<<"quote", 0>>, <<"word", k>>, <<"quote", 0>>,
                             <<"<", 0>>, <<"email", k>>, <<">", 0>>>>
    [] OTHER -> <<<<"quote", 0>>, <<"word", k>>, <<",", 0>>, <<"word", k>>,
                  <<"quote", 0>>, <<"<", 0>>, <<"email", k>>, <<">", 0>>>>

\* Whoever wrote the message has put another address into the header.
Write(shape) ==
  /\ emails = <<>> /\ Len(header) < MaxAddrs
  /\ header' = Append(header, shape)
  /\ text' = (IF header = <<>> THEN <<>> ELSE Append(text, <<",", 0>>))
              \o Written(shape, Len(header) + 1)
  /\ UNCHANGED <<parts, at, body_text, body_html, attachments, emails>>

\* split(','): the stretches between commas, the empty ones too.
Cuts(s) == {0, Len(s) + 1} \union {i \in DOMAIN s : s[i][1] = ","}
Cut(s, i) == CHOOSE c \in Cuts(s) : Cardinality({d \in Cuts(s) : d < c}) = i - 1
Pieces(s) ==
  [i \in 1 .. Cardinality(Cuts(s)) - 1 |-> SubSeq(s, Cut(s, i) + 1, Cut(s, i + 1) - 1)]

\* trim_matches('"'): without the quotes at both ends, None if nothing is left.
Unquoted(p) ==
  LET kept == {i \in DOMAIN p : p[i][1] # "quote"} IN
  IF kept = {} THEN None ELSE SubSeq(p, Min(kept), Max(kept))

\* rfind('<'), 0 if there is none, and the > that come after it.
LastOpen(p) ==
  LET opens == {i \in DOMAIN p : p[i][1] = "<"} IN IF opens = {} THEN 0 ELSE Max(opens)
Closes(p) == {i \in DOMAIN p : i > LastOpen(p) /\ p[i][1] = ">"}

\* parse_address: the address between the last < and the > after it and the name
\* before it, or all of it an address.
ParseAddress(p) ==
  IF LastOpen(p) = 0 \/ Closes(p) = {} THEN [email |-> p, name |-> None]
  ELSE [email |-> SubSeq(p, LastOpen(p) + 1, Min(Closes(p)) - 1),
        name |-> Unquoted(SubSeq(p, 1, LastOpen(p) - 1))]

MutantParseAddressList(s) == <<ParseAddress(s)>>   \* only one address

ParseAddressList(s) == [i \in DOMAIN Pieces(s) |-> ParseAddress(Pieces(s)[i])]

\* headers.get("to").map(parse_address_list)
ParseHeader ==
  /\ header # <<>> /\ emails = <<>>
  /\ emails' = ParseAddressList(text)
  /\ UNCHANGED <<parts, at, body_text, body_html, attachments, header, text>>

Next == Visit \/ (\E shape \in Names : Write(shape)) \/ ParseHeader

Spec == Init /\ [][Next]_vars
------------------------------------------------------------------------------
(***************************************************************************)
(* Properties.                                                             *)
(***************************************************************************)
Done == at = Len(parts)

\* The first part of the message that is of this type and decodes.
FirstBody(mime) ==
  LET good == {i \in DOMAIN parts : parts[i].mime = mime /\ parts[i].body = "data"} IN
  IF good = {} THEN None ELSE CHOOSE i \in good : \A j \in good : i <= j

\* The bodies are the first parts of their types that decode, although the walk
\* decides part by part and a part that does not decode stays in its way.  The
\* attachments are parts with a filename and a body, each at most once and in the
\* order of the message, and none is a body as well (walk_parts, decode_body).
PartsSound ==
  /\ Done => body_text = FirstBody("text/plain") /\ body_html = FirstBody("text/html")
  /\ \A i, j \in DOMAIN attachments : i < j => attachments[i] < attachments[j]
  /\ \A i \in DOMAIN attachments :
       LET k == attachments[i] IN
       parts[k].filename /\ parts[k].body # "none" /\ k \notin {body_text, body_html}

\* The k-th address of a header, and the name written with it.
Meant(shape, k) ==
  [email |-> <<<<"email", k>>>>, name |-> IF shape = "bare" THEN None ELSE <<<<"word", k>>>>]

\* 'Very small "Display Name <email>" parser' (parse.rs:200): a header comes back
\* as the addresses and names it was written from, unless a quoted name holds a
\* comma, which parse_address_list takes for a separator.
AddressesWhole ==
  emails # <<>> /\ "comma" \notin ToSet(header) =>
    emails = [k \in DOMAIN header |-> Meant(header[k], k)]
==============================================================================
