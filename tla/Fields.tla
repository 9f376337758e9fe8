------------------------------- MODULE Fields -------------------------------
(***************************************************************************)
(* Header fields and what the proxy reads off them and does to them: the   *)
(* framing (http-message/src/header.rs, framing.rs), the persistence of a  *)
(* connection, the hop-by-hop fields (proxy/src/lib.rs), and the writing   *)
(* of a head (frontend/src/writer.rs, backend/src/writer.rs).              *)
(*                                                                         *)
(* A name stands for all its spellings.  A value is the sequence of the    *)
(* comma-separated elements of its list, without the white space around    *)
(* them; "" is an empty element, and the only one of an empty value.        *)
(***************************************************************************)
EXTENDS Naturals, Sequences

CONSTANTS
  FieldSet,  \* the fields a peer may send
  Lengths    \* the elements that are a length of 64 bits; any other element of a
             \* Content-Length is malformed, empty or too large

\* What a body may be framed as, besides a length.
Framings == {"none", "chunked", "eof"}
\* Other words that stand where a framing does.
Words == {"error", "keep", "nothing"}

\* A field has a name and a value of at least one element.
IsField(f) == DOMAIN f = {"name", "value"} /\ 1 \in DOMAIN f.value

ASSUME FieldAssumption ==
  /\ \A f \in FieldSet : IsField(f)
  /\ Lengths \cap (Framings \cup Words) = {}

\* Nor is the empty element a length: it does not parse as a u64.
ASSUME LengthAssumption == "" \notin Lengths

-----------------------------------------------------------------------------
(* Headers: a vector of fields in which a removed field leaves a hole, so  *)
(* that a field keeps its place, and the order of the rest is theirs.      *)

Headers(S) == {[n |-> Len(s), at |-> s] : s \in S}
NoHeaders == [n |-> 0, at |-> <<>>]

IsHeaders(h) == /\ DOMAIN h = {"n", "at"}
                /\ h.n \in Nat
                /\ DOMAIN h.at \subseteq 1..h.n
                /\ \A i \in DOMAIN h.at : IsField(h.at[i])

Named(h, name) == {i \in DOMAIN h.at : h.at[i].name = name}

Push(h, field) ==
  [n |-> h.n + 1,
   at |-> [i \in DOMAIN h.at \cup {h.n + 1} |-> IF i = h.n + 1 THEN field ELSE h.at[i]]]

\* retain and remove: only the fields at the places S stay.
Keep(h, S) == [n |-> h.n, at |-> [i \in DOMAIN h.at \cap S |-> h.at[i]]]

\* The elements of all the lists of that name.
Elements(h, name) == UNION {{h.at[i].value[k] : k \in DOMAIN h.at[i].value} : i \in Named(h, name)}

-----------------------------------------------------------------------------
(* Framing *)

\* One element is "chunked", and there is no other but empty ones.
SoleChunked(value) ==
  \E k \in DOMAIN value :
    /\ value[k] = "chunked"
    /\ \A j \in DOMAIN value \ {k} : value[j] = ""

\* Any number of Content-Length fields and elements, if all are the same length.
LengthsValid(h) == Elements(h, "content-length") \subseteq Lengths
LengthsEqual(h) == \A a, b \in Elements(h, "content-length") : a = b
LengthsAgree(h) ==
  /\ Elements(h, "content-length") \subseteq Lengths
  /\ \A a, b \in Elements(h, "content-length") : a = b

\* At most one Transfer-Encoding field, with no coding but one chunked.
CodingIsChunked(h) ==
  /\ \A i, j \in Named(h, "transfer-encoding") : i = j
  /\ \A i \in Named(h, "transfer-encoding") : SoleChunked(h.at[i].value)

\* "none", "chunked", the length, or "error".
Framing(h) ==
  LET length == Named(h, "content-length") # {}
      coding == Named(h, "transfer-encoding") # {}
  IN IF ~LengthsAgree(h) \/ ~CodingIsChunked(h) \/ (length /\ coding) THEN "error"
     ELSE IF coding THEN "chunked"
     ELSE IF length THEN CHOOSE l \in Elements(h, "content-length") : TRUE
     ELSE "none"

-----------------------------------------------------------------------------
(* The Connection field *)

\* "@" is an element that holds a character no token may have.
TokensParse(h) == "@" \notin Elements(h, "connection")
Tokens(h) == Elements(h, "connection") \ {""}

Persistent(h, http10) ==
  /\ "close" \notin Tokens(h)
  /\ http10 => "keep-alive" \in Tokens(h)

HopByHop == {"connection", "keep-alive", "proxy-authenticate", "proxy-authorization",
             "te", "transfer-encoding", "upgrade"}

StripStandard(h, tokens) == Keep(h, {i \in DOMAIN h.at : h.at[i].name \notin HopByHop})
StripHopByHop(h, tokens) ==
  Keep(h, {i \in DOMAIN h.at : h.at[i].name \notin HopByHop \cup tokens})

-----------------------------------------------------------------------------
(* Trailers *)

ForbiddenTrailers == {
  "content-length", "host", "cache-control", "expect", "max-forwards", "if-match",
  "if-none-match", "if-modified-since", "if-unmodified-since", "if-range", "range",
  "authorization", "www-authenticate", "set-cookie", "cookie", "age", "expires", "date", "vary",
  "location", "content-encoding", "content-type", "content-range", "content-location", "trailer"}

\* The tokens of the head's Connection field play no part.
SanitizeScoped(h) == Keep(h, {i \in DOMAIN h.at : h.at[i].name \notin HopByHop})
SanitizeForbidden(h) == Keep(h, {i \in DOMAIN h.at : h.at[i].name \notin ForbiddenTrailers})
SanitizeTrailers(h) ==
  Keep(h, {i \in DOMAIN h.at : h.at[i].name \notin HopByHop \cup ForbiddenTrailers})

-----------------------------------------------------------------------------
(* The fields the proxy adds, and the head it writes. *)

Via == [name |-> "via", value |-> <<"proxy">>]
Date == [name |-> "date", value |-> <<"now">>]

Dated(h) == IF Named(h, "date") # {} THEN h ELSE Push(h, Date)

FramingNames == {"content-length", "transfer-encoding"}

FramingField(w) ==
  IF w = "chunked" THEN [name |-> "transfer-encoding", value |-> <<"chunked">>]
  ELSE [name |-> "content-length", value |-> <<w>>]

\* w is how the body will be written; "keep" stands for a bodyless message that
\* keeps its framing fields.
WrittenAfter(h, w) == IF w \in {"keep", "none", "eof"} THEN h ELSE Push(h, FramingField(w))
Written(h, w) ==
  LET bare == Keep(h, {i \in DOMAIN h.at : h.at[i].name \notin FramingNames})
  IN IF w = "keep" THEN h
     ELSE IF w \in {"none", "eof"} THEN bare
     ELSE Push(bare, FramingField(w))

-----------------------------------------------------------------------------
(* What a recipient and a reviewer ask of two heads. *)

\* Everything a peer could take for the framing, read piece by piece.
Readings(h) == (Elements(h, "content-length") \cup Elements(h, "transfer-encoding")) \ {""}

\* The framing fields of h say w and nothing else.
Says(h, w) ==
  LET fields == {i \in DOMAIN h.at : h.at[i].name \in FramingNames} IN
  IF w \in {"none", "eof"} THEN fields = {}
  ELSE \E i \in fields : fields = {i} /\ h.at[i] = FramingField(w)

\* Which fields of the received head stop here.
Scoped(received) == HopByHop \cup Tokens(received)

\* The places of a sent head that the proxy or its caller filled.
Added(received, sent) == {i \in DOMAIN sent.at : i > received.n}

NoneScoped(received, sent) ==
  \A i \in DOMAIN sent.at \ Added(received, sent) : sent.at[i].name \notin Scoped(received)

AllKept(received, sent, but) ==
  \A i \in DOMAIN received.at :
    received.at[i].name \notin Scoped(received) \cup but
      => i \in DOMAIN sent.at /\ sent.at[i] = received.at[i]

AddedOnce(received, sent, field) ==
  \E i \in Added(received, sent) :
    {j \in Added(received, sent) : sent.at[j].name = field.name} = {i} /\ sent.at[i] = field

\* What a recipient that folds trailers into the head has of the two.
Fold(h, trailers) ==
  [n |-> h.n + trailers.n,
   at |-> [i \in DOMAIN h.at \cup {h.n + j : j \in DOMAIN trailers.at} |->
             IF i \in DOMAIN h.at THEN h.at[i] ELSE trailers.at[i - h.n]]]

\* Folding changes nothing that was decided when the head was read: how the body ends,
\* whether the connection goes on, which host is meant, when the message was made.
FoldsInto(h, trailers, w) ==
  LET folded == Fold(h, trailers) IN
  /\ Says(h, w) => Says(folded, w)
  /\ Tokens(folded) = Tokens(h)
  /\ Named(folded, "host") = Named(h, "host")
  /\ Named(folded, "date") = Named(h, "date")
=============================================================================
