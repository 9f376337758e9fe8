----------------------------- MODULE RequestHead -----------------------------
(***************************************************************************)
(* The head of a request on its way through the proxy: FrontendReader::read *)
(* judges and frames it, FrontendProxyRequest::from_request rewrites it,   *)
(* into_backend_request adds the proxy's fields and forward writes it to a *)
(* backend.  Between these calls the caller holds the head and may add     *)
(* fields of its own (req_mut).                                            *)
(***************************************************************************)
EXTENDS Fields

CONSTANTS
  Heads,     \* the headers a client may send
  Edits,     \* the fields a caller may add
  MaxEdits,  \* how many of them
  Sections   \* the trailer sections that may follow a chunked body

\* What a caller adds is its own field or a framing field, not a Connection field
\* or a second Host.
ASSUME RequestAssumption ==
  /\ \A h \in Heads \cup Sections : IsHeaders(h)
  /\ Edits \subseteq {f \in FieldSet : f.name \notin {"connection", "host", "via"}}
  /\ MaxEdits \in Nat

VARIABLES
  http10, method, target, received,  \* the request as the client sent it
  head,    \* the headers of the Request the caller holds
  body,    \* the framing of the FrontendBodyReader
  reuse,   \* its `recyclable'
  sent,    \* the headers written to the backend
  edits,   \* fields the caller has added
  section, trailers,  \* the trailers received after the body, and those sent on
  pc       \* which of the library's types the caller holds, see Stages

message == <<http10, method, target, received>>
tail == <<section, trailers>>
vars == <<message, head, body, reuse, sent, edits, tail, pc>>

\* "refused" stands for CONNECT, TRACE and OPTIONS.
Methods == {"plain", "refused"}
\* "other": asterisk-form, authority-form, or malformed.
Targets == {"origin", "absolute", "other"}
\* "head": FrontendReader; "request": FrontendRequest; "proxied": FrontendProxyRequest;
\* "backend": BackendProxyRequest; "sent": BackendProxyResponseReader; "ended": its body
\* is finished too; "unreadable": FrontendError; "refused": FrontendRequestError.
Stages == {"head", "request", "proxied", "backend", "sent", "ended", "unreadable", "refused"}

TypeOK ==
  /\ http10 \in BOOLEAN /\ method \in Methods /\ target \in Targets
  /\ IsHeaders(received) /\ IsHeaders(head) /\ IsHeaders(sent)
  /\ IsHeaders(section) /\ IsHeaders(trailers)
  /\ body \in {"none", "chunked"} \cup Lengths
  /\ reuse \in BOOLEAN /\ edits \in 0..MaxEdits /\ pc \in Stages

Init ==
  /\ http10 \in BOOLEAN /\ method \in Methods /\ target \in Targets /\ received \in Heads
  /\ head = NoHeaders /\ sent = NoHeaders
  /\ body = "none" /\ reuse = FALSE /\ edits = 0
  /\ section = NoHeaders /\ trailers = NoHeaders
  /\ pc = "head"

-----------------------------------------------------------------------------

\* FrontendReader::read refuses what has no framing it can be sure of.
Readable ==
  /\ ~(http10 /\ Named(received, "transfer-encoding") # {})
  /\ TokensParse(received)
  /\ Framing(received) # "error"

ReadRequest ==
  /\ pc = "head" /\ Readable
  /\ pc' = "request"
  /\ head' = received
  /\ body' = Framing(received)
  /\ reuse' = Persistent(received, http10)
  /\ UNCHANGED <<message, sent, edits, tail>>

ReadFails ==
  /\ pc = "head" /\ ~Readable
  /\ pc' = "unreadable"
  /\ UNCHANGED <<message, head, body, reuse, sent, edits, tail>>

OneHost(h) == \A i, j \in Named(h, "host") : i = j

Acceptable ==
  /\ TokensParse(head)
  /\ method # "refused"
  /\ OneHost(head)
  /\ Named(head, "host") = {} => http10
  /\ target # "other"

\* The authority of an absolute target replaces every Host.
Authority == [name |-> "host", value |-> <<"authority">>]

NormalizeAlways(h) == Push(Keep(h, DOMAIN h.at \ Named(h, "host")), Authority)
Normalize(h) ==
  IF target = "absolute" THEN Push(Keep(h, DOMAIN h.at \ Named(h, "host")), Authority) ELSE h

FromRequest ==
  /\ pc = "request" /\ Acceptable
  /\ pc' = "proxied"
  /\ head' = StripHopByHop(Normalize(head), Tokens(head))
  /\ UNCHANGED <<message, body, reuse, sent, edits, tail>>

FromRequestFails ==
  /\ pc = "request" /\ ~Acceptable
  /\ pc' = "refused"
  /\ UNCHANGED <<message, head, body, reuse, sent, edits, tail>>

IntoBackendRequest ==
  /\ pc = "proxied"
  /\ pc' = "backend"
  /\ head' = Push(head, Via)
  /\ UNCHANGED <<message, body, reuse, sent, edits, tail>>

\* A write that fails gives the request back as it was (BackendRequestError), so
\* it is no step of this module.
Forward ==
  /\ pc = "backend"
  /\ pc' = "sent"
  /\ sent' = Written(head, body)
  /\ UNCHANGED <<message, head, body, reuse, edits, tail>>

\* finish() of the request's forwarder, once a chunked body is through: the trailers
\* follow the last chunk.
EndBody ==
  /\ pc = "sent" /\ body = "chunked"
  /\ pc' = "ended"
  /\ section' \in Sections
  /\ trailers' = SanitizeTrailers(section')
  /\ UNCHANGED <<message, head, body, reuse, sent, edits>>

CallerEdits ==
  /\ pc \in {"request", "proxied", "backend"} /\ edits < MaxEdits
  /\ \E f \in Edits : head' = Push(head, f)
  /\ edits' = edits + 1
  /\ UNCHANGED <<message, body, reuse, sent, pc, tail>>

Terminated == pc \in {"sent", "ended", "unreadable", "refused"} /\ UNCHANGED vars

Next == \/ ReadRequest \/ ReadFails \/ FromRequest \/ FromRequestFails
        \/ IntoBackendRequest \/ Forward \/ EndBody \/ CallerEdits \/ Terminated

Spec == Init /\ [][Next]_vars

-----------------------------------------------------------------------------
(* Properties *)

\* A request that is accepted can be read in one way only: no field or element of
\* it, taken by itself, suggests another framing than the one its body is read with
\* ("disagreement leaves the framing ambiguous and must be rejected").
OneReading ==
  pc \notin {"head", "unreadable"} =>
    /\ Readings(received) = IF body = "none" THEN {} ELSE {body}
    /\ http10 => body # "chunked"

\* The head the backend gets frames the body exactly as the body is written,
\* whatever framing fields the client sent or the caller has added since.
BackendAgrees == pc = "sent" => Says(sent, body)

\* No field that is meant for this connection only goes on to the backend.
ScopedStays == pc = "sent" => NoneScoped(received, sent)

\* Every other field does, as it was and where it was, and the proxy's own Via gets
\* there, once, even if the client declared Via hop-by-hop.  An absolute target's
\* authority takes the place of Host, and an HTTP/1.1 request that does not declare
\* Host hop-by-hop goes on with one.
RestGoesOn ==
  pc = "sent" =>
    /\ AllKept(received, sent, FramingNames \cup IF target = "absolute" THEN {"host"} ELSE {})
    /\ AddedOnce(received, sent, Via)
    /\ "host" \notin Tokens(received) =>
         /\ OneHost(sent)
         /\ Named(sent, "host") = {} => http10 /\ target = "origin"
         /\ target = "absolute" => AddedOnce(received, sent, Authority)

\* "an origin that folds trailers into headers must not be handed
\* framing/routing/auth fields this way" (body/request.rs): it still has the framing,
\* the persistence and the Host the head was forwarded with.
FoldingIsHarmless == pc = "ended" => FoldsInto(sent, trailers, body)

\* "absolute-form is rewritten to origin-form, with all existing `Host` headers
\* replaced by a single one derived from the authority" (request_target.rs).
HostReplaced ==
  (pc = "sent" /\ target = "absolute") => AddedOnce(received, sent, Authority)
=============================================================================
