---------------------------- MODULE MessageReader ----------------------------
(***************************************************************************)
(* Reading a connection's messages: FrontendReader and BackendReader, the  *)
(* four body readers, and the BytesReader buffer under them.  The peer     *)
(* sends messages one after the other, without waiting; the transport cuts *)
(* them wherever it likes, so a read may bring half a line, or the end of  *)
(* one message and the start of the next.                                  *)
(*                                                                         *)
(* Lines (a head, a chunk-size line, a trailer section) are a few abstract *)
(* bytes, of which only the last matters.  One action is one turn of the   *)
(* loop of a poll_read; a poll that finds nothing to read answers Pending  *)
(* and changes nothing, so a call that is cancelled and made again is an   *)
(* ordinary interleaving.  drain() is a caller that reads to the end.      *)
(***************************************************************************)
EXTENDS Naturals, Sequences

CONSTANTS
  Framings,  \* what heads announce: subset of {"none", "cl", "te", "eof"}
  MaxBody,   \* longest body
  Longest,   \* longest line the peer sends
  NetMax,    \* bytes sent but not consumed: socket buffers, and the reader's
  MaxHead,   \* max_head_length, which limits the trailers too
  MaxLine,   \* max_chunk_header_length
  FillLen,   \* IO_FILL_LEN
  MaxRead    \* largest max_len of a read

ASSUME ReaderAssumption ==
  /\ Framings \subseteq {"none", "cl", "te", "eof"}
  /\ MaxBody \in Nat
  /\ {Longest, NetMax, MaxHead, MaxLine, FillLen, MaxRead} \subseteq Nat \ {0}

VARIABLES
  at, msg, sent, left, col, junked, closed,  \* the peer, see below
  net,        \* bytes sent and not consumed
  filled,     \* how many of them are in the buffer: `position'
  rd,         \* where the reader is, see Readers
  remaining,  \* bytes left of the body, or of the chunk
  head,       \* the head last parsed
  body,       \* the bytes read() has answered since
  told,       \* read() has answered None
  err         \* the error last answered

peer == <<at, msg, sent, left, col, junked>>
reader == <<rd, remaining, head, body, told, err>>
vars == <<peer, closed, net, filled, reader>>

\* len is the length of the whole body; only a "cl" head tells it to the reader.
Messages == [f: Framings, len: 0..MaxBody, keep: BOOLEAN]

NoMessage == [f |-> "none", len |-> 0, keep |-> TRUE]

Lines == {"head", "size", "trailer"}

\* A byte: what it is part of; is it the first or the last of its line; its index
\* in the body, or the size that the chunk-size line says; the message of a head.
Byte(k, first, last, n, m) ==
  [k |-> k, first |-> first, last |-> last, n |-> n, m |-> m]

Bytes == [k: Lines \cup {"data", "cr", "lf", "junk"}, first: BOOLEAN,
          last: BOOLEAN, n: 0..MaxBody, m: Messages \cup {NoMessage}]

\* "failed": a chunked reader without its `inner'; "dropped": no reader is left.
Readers == Lines \cup {"none", "cl", "eof", "data", "cr", "lf", "done", "failed",
                       "dropped"}

Errors == {"none", "Invalid", "TooLong", "UnexpectedEOF", "FirstReadEOF", "Io"}

TypeOK ==
  /\ at \in Lines \cup {"data", "cr", "lf", "shut"}
  /\ {msg, head} \subseteq Messages \cup {NoMessage}
  /\ sent \in 0..MaxBody /\ left \in 0..MaxBody /\ col \in 0..Longest
  /\ {junked, closed, told} \subseteq BOOLEAN
  /\ net \in Seq(Bytes) /\ Len(net) <= NetMax
  /\ filled \in 0..Len(net)
  /\ rd \in Readers /\ remaining \in 0..MaxBody
  /\ body \in Seq(Bytes)
  /\ err \in Errors

Init ==
  /\ at = "head" /\ msg = NoMessage /\ sent = 0 /\ left = 0 /\ col = 0
  /\ junked = FALSE /\ closed = FALSE
  /\ net = <<>> /\ filled = 0
  /\ rd = "head" /\ remaining = 0 /\ head = NoMessage /\ body = <<>>
  /\ told = FALSE /\ err = "none"

-----------------------------------------------------------------------------
(* The peer: at is what it sends next, msg the message it is sending, of   *)
(* whose body it has sent `sent' bytes; left is what is due of the body or *)
(* of the chunk, col how much of the line it has sent.                     *)

Sends(b) == ~closed /\ Len(net) < NetMax /\ net' = Append(net, b)

\* The message is over: the next one starts, unless the last head said "close".
Over(m) == IF m.keep THEN "head" ELSE "shut"

\* A byte that is not the last of its line.
SendPiece ==
  /\ at \in Lines /\ col < Longest - 1
  /\ Sends(Byte(at, col = 0, FALSE, 0, NoMessage))
  /\ col' = col + 1
  /\ UNCHANGED <<at, msg, sent, left, junked, closed, filled, reader>>

SendHead ==
  /\ at = "head"
  /\ \E m \in Messages :
       /\ m.f = "none" => m.len = 0
       /\ Sends(Byte("head", col = 0, TRUE, 0, m))
       /\ msg' = m /\ left' = m.len
       /\ at' = IF m.f = "te" THEN "size"
                ELSE IF m.len > 0 THEN "data"
                ELSE IF m.f = "eof" THEN "shut" ELSE Over(m)
  /\ sent' = 0 /\ col' = 0
  /\ UNCHANGED <<junked, closed, filled, reader>>

\* The body is cut into chunks in any way; size 0 is the last chunk's.
SendSize ==
  /\ at = "size"
  /\ \E n \in 0..(msg.len - sent) :
       /\ n = 0 => sent = msg.len
       /\ Sends(Byte("size", col = 0, TRUE, n, NoMessage))
       /\ left' = n
       /\ at' = IF n = 0 THEN "trailer" ELSE "data"
  /\ col' = 0
  /\ UNCHANGED <<msg, sent, junked, closed, filled, reader>>

SendData ==
  /\ at = "data"
  /\ Sends(Byte("data", FALSE, FALSE, sent + 1, NoMessage))
  /\ sent' = sent + 1 /\ left' = left - 1
  /\ at' = IF left > 1 THEN "data"
           ELSE IF msg.f = "te" THEN "cr"
           ELSE IF msg.f = "eof" THEN "shut" ELSE Over(msg)
  /\ UNCHANGED <<msg, col, junked, closed, filled, reader>>

SendFooter ==
  /\ at \in {"cr", "lf"}
  /\ Sends(Byte(at, FALSE, FALSE, 0, NoMessage))
  /\ at' = IF at = "cr" THEN "lf" ELSE "size"
  /\ UNCHANGED <<msg, sent, left, col, junked, closed, filled, reader>>

SendTrailer ==
  /\ at = "trailer"
  /\ Sends(Byte("trailer", col = 0, TRUE, 0, NoMessage))
  /\ at' = Over(msg) /\ col' = 0
  /\ UNCHANGED <<msg, sent, left, junked, closed, filled, reader>>

\* Once, the peer puts a byte where none of the grammar allows it; then it goes on
\* as if it had not.
SendJunk ==
  /\ ~junked /\ at \notin {"data", "shut"}
  /\ Sends(Byte("junk", FALSE, FALSE, 0, NoMessage))
  /\ junked' = TRUE
  /\ UNCHANGED <<at, msg, sent, left, col, closed, filled, reader>>

Close ==
  /\ ~closed /\ closed' = TRUE
  /\ UNCHANGED <<peer, net, filled, reader>>

Peer == \/ SendPiece \/ SendHead \/ SendSize \/ SendData \/ SendFooter
        \/ SendTrailer \/ SendJunk

-----------------------------------------------------------------------------
(* The buffer. *)

\* The first n bytes leave it: split_to and get_u8.
Consume(n) ==
  /\ net' = SubSeq(net, n + 1, Len(net))
  /\ filled' = filled - n

\* What httparse says of the buffer: the line of kind k at its start is not
\* complete, is complete with n bytes, or is not such a line.
Piece(b, k) == b.k = k /\ ~b.last
Partial(k) == \A i \in 1..filled : Piece(net[i], k)
Complete(k, n) ==
  /\ net[n].k = k /\ net[n].last
  /\ \A i \in 1..(n - 1) : Piece(net[i], k)
Invalid(k) == ~Partial(k) /\ \A n \in 1..filled : ~Complete(k, n)

\* How long a line may get before the reader gives up waiting for its end.
Limit == IF rd = "size" THEN MaxLine ELSE MaxHead

TooLong == Partial(rd) /\ filled >= Limit

\* Does the reader need more of the stream?  For a body poll_ensure reads when the
\* buffer is empty; for a line poll_extend reads until its end is there.
HungryForLineUnlimited == Partial(rd)
HungryForLine == Partial(rd) /\ filled < Limit
HungryForBody == /\ filled = 0
                 /\ \/ rd \in {"data", "cr", "lf"}
                    \/ rd = "cl" /\ remaining > 0
                    \/ rd = "eof" /\ ~told
Hungry == IF rd \in Lines THEN HungryForLine ELSE HungryForBody

Asked == IF rd = "head" THEN MaxHead - filled
         ELSE IF rd = "eof" THEN MaxRead ELSE FillLen

Fill ==
  /\ Hungry
  /\ \E n \in 1..Asked : filled + n <= Len(net) /\ filled' = filled + n
  /\ UNCHANGED <<peer, closed, net, reader>>

EndOfFile == closed /\ filled = Len(net)

-----------------------------------------------------------------------------
(* The readers. *)

\* An error consumes a reader of heads, and a chunked reader's `inner'; the other
\* body readers stay as they were, and can be asked again.
Fails(e) ==
  /\ err' = e
  /\ rd' = IF rd \in {"cl", "eof"} THEN rd
           ELSE IF rd = "head" THEN "dropped" ELSE "failed"

ReadError ==
  /\ Hungry
  /\ Fails("Io")
  /\ UNCHANGED <<peer, closed, net, filled, remaining, head, body, told>>

CleanEOFInHead == rd = "head"
CleanEOF == rd = "head" /\ filled = 0

ReadEOFRetries ==
  /\ Hungry /\ EndOfFile /\ rd # "eof"
  /\ UNCHANGED vars
\* The end of input is a clean one only before the first byte of a head; it is
\* what ends the body of an EOF reader.
ReadEOF ==
  /\ Hungry /\ EndOfFile /\ rd # "eof"
  /\ Fails(IF CleanEOF THEN "FirstReadEOF" ELSE "UnexpectedEOF")
  /\ UNCHANGED <<peer, closed, net, filled, remaining, head, body, told>>

EofBodyEnds ==
  /\ rd = "eof" /\ Hungry /\ EndOfFile
  /\ told' = TRUE
  /\ UNCHANGED <<peer, closed, net, filled, rd, remaining, head, body, err>>

RejectLine ==
  /\ rd \in Lines
  /\ \/ Invalid(rd) /\ Fails("Invalid")
     \/ TooLong /\ Fails("TooLong")
  /\ UNCHANGED <<peer, closed, net, filled, remaining, head, body, told>>

\* head() and the choice of the body reader by FrontendReader::read.
ReadHead ==
  /\ rd = "head"
  /\ \E n \in 1..filled :
       /\ Complete("head", n)
       /\ Consume(n)
       /\ head' = net[n].m
       /\ rd' = IF net[n].m.f = "te" THEN "size" ELSE net[n].m.f
       /\ remaining' = IF net[n].m.f = "cl" THEN net[n].m.len ELSE 0
  /\ body' = <<>> /\ told' = FALSE
  /\ UNCHANGED <<peer, closed, err>>

\* read(max_len): as much as is buffered, due and asked for.
AvailableAll == filled
Available == IF rd = "eof" THEN filled
             ELSE IF remaining < filled THEN remaining ELSE filled

Answers(n) ==
  /\ body' = body \o SubSeq(net, 1, n)
  /\ Consume(n)

ReadBody ==
  /\ rd \in {"cl", "eof"} /\ Available > 0
  /\ \E max \in 1..MaxRead :
       LET n == IF max < Available THEN max ELSE Available IN
       /\ Answers(n)
       /\ remaining' = IF rd = "eof" THEN 0 ELSE remaining - n
  /\ UNCHANGED <<peer, closed, rd, head, told, err>>

AfterChunk == "cr"

\* The CRLF after the data is read by the next call.
ReadChunk ==
  /\ rd = "data" /\ Available > 0
  /\ \E max \in 1..MaxRead :
       LET n == IF max < Available THEN max ELSE Available IN
       /\ Answers(n)
       /\ remaining' = remaining - n
       /\ rd' = IF n < remaining THEN "data" ELSE AfterChunk
  /\ UNCHANGED <<peer, closed, head, told, err>>

FooterUnchecked(b) == TRUE
FooterByte(b) == b.k = rd

ReadFooter ==
  /\ rd \in {"cr", "lf"} /\ filled > 0
  /\ Consume(1)
  /\ IF FooterByte(net[1])
     THEN rd' = (IF rd = "cr" THEN "lf" ELSE "size") /\ UNCHANGED err
     ELSE Fails("Invalid")
  /\ UNCHANGED <<peer, closed, remaining, head, body, told>>

\* The line of the last chunk leads to the trailers.
ReadSize ==
  /\ rd = "size"
  /\ \E n \in 1..filled :
       /\ Complete("size", n)
       /\ Consume(n)
       /\ remaining' = net[n].n
       /\ rd' = IF net[n].n = 0 THEN "trailer" ELSE "data"
  /\ UNCHANGED <<peer, closed, head, body, told, err>>

ReadTrailersAtOnce ==
  /\ rd = "trailer" /\ filled > 0
  /\ Consume(1)
  /\ rd' = "done" /\ told' = TRUE
  /\ UNCHANGED <<peer, closed, remaining, head, body, err>>
ReadTrailers ==
  /\ rd = "trailer"
  /\ \E n \in 1..filled : Complete("trailer", n) /\ Consume(n)
  /\ rd' = "done" /\ told' = TRUE
  /\ UNCHANGED <<peer, closed, remaining, head, body, err>>

ReadNone ==
  /\ ~told /\ (rd = "none" \/ (rd = "cl" /\ remaining = 0))
  /\ told' = TRUE
  /\ UNCHANGED <<peer, closed, net, filled, rd, remaining, head, body, err>>

\* drain() hands the connection back, if the head allows that and the framing does.
RecyclableAlways == TRUE
Recyclable == head.keep /\ rd # "eof"

Recycle ==
  /\ told
  /\ rd' = IF Recyclable THEN "head" ELSE "dropped"
  /\ told' = FALSE
  /\ UNCHANGED <<peer, closed, net, filled, remaining, head, body, err>>

Reader == \/ Fill \/ ReadEOF \/ EofBodyEnds \/ RejectLine \/ ReadHead
          \/ ReadBody \/ ReadChunk \/ ReadFooter \/ ReadSize \/ ReadTrailers
          \/ ReadNone \/ Recycle

\* Both sides may stop anywhere, but only here must they.
Terminated == closed /\ rd \in {"failed", "dropped"} /\ UNCHANGED vars

Next == Peer \/ Close \/ Reader \/ ReadError \/ Terminated

Spec == Init /\ [][Next]_vars

\* The peer closes in the end, and the task that reads is polled; the transport
\* need not ever report an error.
FairSpec == Spec /\ WF_vars(Close) /\ WF_vars(Reader)

-----------------------------------------------------------------------------
(* Properties *)

Boundary == IF net = <<>> THEN at \in {"head", "shut"} /\ col = 0
            ELSE net[1].k = "head" /\ net[1].first

\* Wherever the transport cuts the stream and however it is read or drained, a
\* connection handed back for the next message stands at the first byte of a head,
\* what is left in the buffer included.
NextHeadIsNext == rd = "head" => Boundary \/ junked

\* Framing is never taken for data: what read() answers are the bytes of the body,
\* in order, also when some of them were buffered along with the head.
BodyInOrder == \A i \in 1..Len(body) : body[i].k = "data" /\ body[i].n = i

\* A byte that breaks the framing is the end of the reader: nothing after it is taken
\* for data, or for a message.  And nothing else is: a well-formed stream is never
\* refused as malformed, however it is cut.
JunkIsFatal ==
  /\ junked => \/ rd \in {"failed", "dropped"}
               \/ \E i \in 1..Len(net) : net[i].k = "junk"
  /\ err = "Invalid" => junked

\* FirstReadEOF means that "the frontend has gone away and won't be sending us more
\* data in the pipeline"; UnexpectedEOF, that a message was cut.
EofMeansWhatItSays ==
  /\ err = "FirstReadEOF" => at \in {"head", "shut"} /\ col = 0
  /\ err = "UnexpectedEOF" => at \notin {"head", "shut"} \/ col > 0

\* A peer that never ends a line cannot make the reader buffer without bound.
BufferBounded ==
  filled < MaxHead + FillLen \/ filled < MaxLine + FillLen \/ filled <= MaxRead

\* Every message is given to the caller as MessageStream promises.
Stream == INSTANCE MessageStream WITH
  at <- IF rd = "head" THEN "head" ELSE IF rd \in {"failed", "dropped"} THEN "gone"
        ELSE IF told THEN "end" ELSE "body",
  total <- head.len,
  delimited <- (head.f # "eof"),
  got <- Len(body)

ImplementsMessageStream == Stream!Spec

\* After the peer closes, the caller soon gets the end, an error or nothing more:
\* no call hangs on a line that cannot end.
CloseIsNoticed ==
  closed ~> (rd \in {"failed", "dropped"} \/ err # "none")

\* "Returns true when the body is fully drained." (frontend/src/reader.rs, of
\* drained)
Drained == rd \in {"none", "done", "failed"} \/ (rd = "cl" /\ remaining = 0)
           \/ (rd = "eof" /\ told)
DrainedMeansDrained == Drained => Len(body) = head.len
=============================================================================
