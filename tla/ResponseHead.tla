---------------------------- MODULE ResponseHead ----------------------------
(***************************************************************************)
(* The heads of the responses to one request on their way through the      *)
(* proxy: BackendReader::read judges each and chooses the reader of its    *)
(* body, NormalizedResponseStream strips it, and it is written to the      *)
(* client by forward_informational_response, after which the next is read, *)
(* or by forward_response_head, which chooses the writer of the body.      *)
(***************************************************************************)
EXTENDS Fields

CONSTANTS
  Heads,     \* the headers an origin may send
  Edits,     \* the fields a caller may add
  MaxEdits,  \* how many of them
  Sections   \* the trailer sections that may follow a chunked body

ASSUME ResponseAssumption ==
  /\ \A h \in Heads \cup Sections : IsHeaders(h)
  /\ Edits \subseteq {f \in FieldSet : f.name \notin {"connection", "via", "date"}}
  /\ MaxEdits \in Nat

VARIABLES
  isHead, client10,        \* ClientOptions: a HEAD request, an HTTP/1.0 client
  code, http10, received,  \* the response the origin sent last
  head,    \* the headers of the Response the caller holds
  body,    \* which BackendBodyReader came with it, and its length
  reuse,   \* its `recyclable'
  writer,  \* how the head was written, see Written; "nothing" if it was not
  sent,    \* the headers written to the client
  edits,   \* fields the caller has added
  section, trailers,  \* the trailers received after the body, and those sent on
  pc       \* which of the library's types the caller holds, see Stages

client == <<isHead, client10>>
message == <<code, http10, received>>
tail == <<section, trailers>>
vars == <<client, message, head, body, reuse, writer, sent, edits, tail, pc>>

\* 103 stands for every interim status that is forwarded, 200 for every other.
Codes == {101, 102, 103, 200, 204, 304}
Interim == {101, 102, 103}
Unsupported == {101, 102}

\* "await": the response's head is awaited; "info", "final": an informational or final
\* response is in hand; "informed": its informational response is written or
\* dropped; "sent": ProxyBodyExchanger; "ended": the body is
\* finished; "failed": an error, after which no response of
\* the origin goes on.
Stages == {"await", "info", "informed", "final", "sent", "ended", "failed"}

TypeOK ==
  /\ isHead \in BOOLEAN /\ client10 \in BOOLEAN /\ http10 \in BOOLEAN /\ code \in Codes
  /\ IsHeaders(received) /\ IsHeaders(head) /\ IsHeaders(sent)
  /\ IsHeaders(section) /\ IsHeaders(trailers)
  /\ body \in Framings \cup Lengths
  /\ writer \in Framings \cup {"keep", "nothing"} \cup Lengths
  /\ reuse \in BOOLEAN /\ edits \in 0..MaxEdits /\ pc \in Stages

Init ==
  /\ isHead \in BOOLEAN /\ client10 \in BOOLEAN
  /\ code = 200 /\ http10 = FALSE /\ received = NoHeaders
  /\ head = NoHeaders /\ body = "none" /\ reuse = FALSE
  /\ writer = "nothing" /\ sent = NoHeaders
  /\ edits = 0
  /\ section = NoHeaders /\ trailers = NoHeaders
  /\ pc = "await"

-----------------------------------------------------------------------------

\* An interim response or a 204 with framing fields, HTTP/1.0 with a
\* Transfer-Encoding, and what has no framing to be sure of, are refused.
Welcome(c, v10, h) ==
  /\ Framing(h) # "error"
  /\ c \in Interim \cup {204} => Framing(h) = "none"
  /\ ~(v10 /\ Named(h, "transfer-encoding") # {})
  /\ c \notin Unsupported
  /\ TokensParse(h)

\* allow_body is false for a HEAD request.
BodyReader(c, h) ==
  IF isHead \/ c \in Interim \cup {204, 304} THEN "none"
  ELSE IF Framing(h) = "none" THEN "eof"
  ELSE Framing(h)

\* read(), then NormalizedResponseStream::new.
ReadResponse ==
  /\ pc = "await"
  /\ \E c \in Codes, v10 \in BOOLEAN, h \in Heads :
       /\ code' = c /\ http10' = v10 /\ received' = h
       /\ IF ~Welcome(c, v10, h)
          THEN pc' = "failed" /\ UNCHANGED <<head, body, reuse>>
          ELSE /\ head' = StripHopByHop(h, Tokens(h))
               /\ IF c \in Interim
                  THEN pc' = "info" /\ UNCHANGED <<body, reuse>>
                  ELSE /\ pc' = "final"
                       /\ body' = BodyReader(c, h)
                       /\ reuse' = (Persistent(h, v10) /\ body' # "eof")
  /\ UNCHANGED <<client, writer, sent, edits, tail>>

\* send_informational, for a client that knows of interim responses.
ForwardInfo ==
  /\ pc = "info"
  /\ pc' = "informed"
  /\ IF client10
     THEN UNCHANGED <<writer, sent>>
     ELSE writer' = "none" /\ sent' = Written(Push(head, Via), "none")
  /\ UNCHANGED <<client, message, head, body, reuse, edits, tail>>

\* The next read starts afresh.
AwaitNext ==
  /\ pc = "informed"
  /\ pc' = "await"
  /\ code' = 200 /\ http10' = FALSE /\ received' = NoHeaders
  /\ head' = NoHeaders /\ body' = "none" /\ reuse' = FALSE
  /\ writer' = "nothing" /\ sent' = NoHeaders
  /\ UNCHANGED <<client, edits, tail>>

\* An HTTP/1.0 client gets chunks as a body that ends with the connection; so does
\* a body that had no length, while other clients get that one in chunks.
WriterForAll == IF body = "eof" THEN "chunked" ELSE body
Writer ==
  IF body \in {"chunked", "eof"} THEN IF client10 THEN "eof" ELSE "chunked"
  ELSE IF body = "none" THEN IF isHead \/ code = 304 THEN "keep" ELSE "none"
  ELSE body

\* send_as_eof, send_as_chunked, send_as_content_length, send_as_bodyless_keep_framing
\* or send_as_no_content.
ForwardHeadUndated ==
  /\ pc = "final"
  /\ pc' = "sent"
  /\ writer' = Writer
  /\ sent' = Written(Push(IF Named(received, "date") = {} THEN Dated(head) ELSE head, Via), Writer)
  /\ UNCHANGED <<client, message, head, body, reuse, edits, tail>>
ForwardHead ==
  /\ pc = "final"
  /\ pc' = "sent"
  /\ writer' = Writer
  /\ sent' = Written(Dated(Push(head, Via)), Writer)
  /\ UNCHANGED <<client, message, head, body, reuse, edits, tail>>

\* finish() of the response's forwarder, once a chunked body is through: the trailers
\* go on only to a client that gets chunks too.
EndBody ==
  /\ pc = "sent" /\ body = "chunked"
  /\ pc' = "ended"
  /\ section' \in Sections
  /\ trailers' = IF writer = "chunked" THEN SanitizeTrailers(section') ELSE NoHeaders
  /\ UNCHANGED <<client, message, head, body, reuse, writer, sent, edits>>

\* Nothing is left to answer with when the client's connection fails.
WriteFails ==
  /\ pc \in {"info", "final"} /\ (pc = "info" => ~client10)
  /\ pc' = "failed"
  /\ UNCHANGED <<client, message, head, body, reuse, writer, sent, edits, tail>>

CallerEdits ==
  /\ pc \in {"info", "final"} /\ edits < MaxEdits
  /\ \E f \in Edits : head' = Push(head, f)
  /\ edits' = edits + 1
  /\ UNCHANGED <<client, message, body, reuse, writer, sent, pc, tail>>

Terminated == pc \in {"sent", "ended", "failed"} /\ UNCHANGED vars

Next == \/ ReadResponse \/ ForwardInfo \/ AwaitNext \/ ForwardHead \/ EndBody \/ WriteFails
        \/ CallerEdits \/ Terminated

Spec == Init /\ [][Next]_vars

-----------------------------------------------------------------------------
(* Properties *)

\* How a client finds the end of the response (RFC 9112, section 6.3): by the request
\* and the status, then by the fields.
ClientReading ==
  IF isHead \/ code \in Interim \cup {204, 304} THEN {"none", "keep"}
  ELSE {w \in Framings \cup Lengths : w # "none" /\ Says(sent, w)}

\* The client looks for the end of the response where the proxy puts it, an HTTP/1.0
\* client is never sent chunks, and interim responses and 204s are sent without framing
\* fields ("must not carry framing headers"): on a 204 to a HEAD only the caller can
\* have put one.  A body goes to the client if and only if one comes from the origin, and
\* with the length it comes with.
ClientAgrees ==
  /\ writer # "nothing" =>
       /\ writer \in ClientReading
       /\ client10 => writer # "chunked"
       /\ code \in Interim \cup {204} =>
            \A i \in DOMAIN sent.at :
              sent.at[i].name \in FramingNames => i \in Added(received, sent) /\ isHead
  /\ pc = "sent" => /\ body = "none" <=> writer \in {"none", "keep"}
                    /\ body \in Lengths \/ writer \in Lengths => body = writer

\* No field meant for the backend's connection only goes on to the client; every other
\* does, Content-Length included where no body follows.  The proxy's Via is added once,
\* and every final response carries a Date, the origin's own if that one is not
\* hop-by-hop.
RightFieldsGoOn ==
  /\ writer # "nothing" =>
       /\ NoneScoped(received, sent)
       /\ AllKept(received, sent, IF writer = "keep" THEN {} ELSE FramingNames)
       /\ AddedOnce(received, sent, Via)
  /\ pc = "sent" => \/ AddedOnce(received, sent, Date)
                    \/ /\ Named(sent, "date") # {}
                       /\ Named(sent, "date") \cap Added(received, sent) = {}

\* "a client that folds trailers into headers must not be handed framing/routing/auth
\* fields this way" (body/response.rs).
FoldingIsHarmless == pc = "ended" => FoldsInto(sent, trailers, writer)

\* "HEAD responses and 304 Not Modified carry framing headers that describe the
\* representation, not an actual body; those must be forwarded" (proxy/src/lib.rs).
RepresentationGoesOn ==
  (pc = "sent" /\ writer = "keep") =>
    \A i \in DOMAIN received.at :
      received.at[i].name \in FramingNames => i \in DOMAIN sent.at
=============================================================================
