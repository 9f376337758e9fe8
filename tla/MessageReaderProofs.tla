------------------------- MODULE MessageReaderProofs -------------------------
(***************************************************************************)
(* Theorems about MessageReader, for every limit, every length of a fill   *)
(* and every stream the peer may send.                                     *)
(***************************************************************************)
EXTENDS MessageReader, SequenceTheorems, TLAPS

USE ReaderAssumption

\* What is due of the body, or of the chunk, fits in the message.
DueInv ==
  /\ sent <= msg.len
  /\ at = "data" => left \in 1..(msg.len - sent)

ReadInv == TypeOK /\ DueInv /\ BufferBounded

-----------------------------------------------------------------------------
(* The network and the buffer. *)

\* A head announces a body that is no longer than the longest.
LEMMA MessageLength ==
  ASSUME NEW m \in Messages \cup {NoMessage}
  PROVE  m.len \in 0..MaxBody
PROOF
  BY DEF Messages, NoMessage

\* A byte that is sent is queued behind the others.
LEMMA SendsQueues ==
  ASSUME TypeOK, NEW b \in Bytes, Sends(b)
  PROVE  /\ net' \in Seq(Bytes) /\ Len(net') <= NetMax
         /\ filled \in 0..Len(net')
PROOF
<1>1. net' = Append(net, b) /\ Len(net) < NetMax
  BY DEF Sends
<1>2. net \in Seq(Bytes) /\ Len(net) \in Nat /\ filled \in 0..Len(net)
  BY DEF TypeOK
<1>3. net' \in Seq(Bytes) /\ Len(net') = Len(net) + 1
  BY <1>1, <1>2
<1>4. QED
  BY <1>1, <1>2, <1>3

\* Consuming bytes leaves the buffer well-typed, and shorter.
LEMMA ConsumeShrinks ==
  ASSUME TypeOK, NEW n \in 1..filled, Consume(n)
  PROVE  /\ net' \in Seq(Bytes) /\ Len(net') <= NetMax
         /\ filled' \in 0..Len(net')
         /\ filled' <= filled
PROOF
<1>1. n \in Nat /\ n <= Len(net) /\ Len(net) \in Nat /\ filled \in Nat
  BY DEF TypeOK
<1>2. net' \in Seq(Bytes) /\ Len(net') = Len(net) - n
  <2>1. net' = SubSeq(net, n + 1, Len(net))
    BY DEF Consume
  <2>2. \A i \in (n + 1)..Len(net) : net[i] \in Bytes
    BY <1>1 DEF TypeOK
  <2>3. QED
    BY <2>1, <2>2, <1>1, SubSeqProperties
<1>3. filled' = filled - n
  BY DEF Consume
<1>4. QED
  BY <1>1, <1>2, <1>3 DEF TypeOK

\* What can be answered is buffered, and due.
LEMMA AvailableIsBuffered ==
  ASSUME TypeOK, Available > 0
  PROVE  /\ Available \in 1..filled
         /\ rd # "eof" => Available <= remaining
PROOF
  BY DEF TypeOK, Available

\* read(max_len) answers bytes of the buffer, and at least one.
LEMMA AnswerTakes ==
  ASSUME TypeOK, Available > 0, NEW max \in 1..MaxRead,
         NEW n, n = IF max < Available THEN max ELSE Available, Answers(n)
  PROVE  /\ n \in 1..filled
         /\ rd # "eof" => remaining - n \in 0..MaxBody
         /\ body' \in Seq(Bytes)
         /\ net' \in Seq(Bytes) /\ Len(net') <= NetMax
         /\ filled' \in 0..Len(net') /\ filled' <= filled
PROOF
<1>1. Available \in 1..filled /\ (rd # "eof" => Available <= remaining)
  BY AvailableIsBuffered
<1>2. n \in 1..filled /\ n <= Available
  BY <1>1 DEF TypeOK
<1>3. rd # "eof" => remaining - n \in 0..MaxBody
  BY <1>1, <1>2 DEF TypeOK
<1>4. body' \in Seq(Bytes)
  <2>1. \A i \in 1..n : net[i] \in Bytes
    BY <1>2 DEF TypeOK
  <2>2. SubSeq(net, 1, n) \in Seq(Bytes)
    BY <1>2, <2>1, SubSeqProperties DEF TypeOK
  <2>3. QED
    BY <2>2 DEF Answers, TypeOK
<1>5. QED
  BY <1>2, <1>3, <1>4, ConsumeShrinks DEF Answers

\* The bound does not mind a buffer that gets no longer.
LEMMA NoLongerIsBounded ==
  ASSUME TypeOK, BufferBounded, filled' \in Nat, filled' <= filled
  PROVE  BufferBounded'
PROOF
  BY DEF BufferBounded, TypeOK

-----------------------------------------------------------------------------
(* The peer. *)

\* Whatever the peer sends, the invariant stays.
LEMMA PeerKeeps ==
  ASSUME ReadInv, Peer
  PROVE  ReadInv'
PROOF
<1> USE DEF ReadInv
<1>0. /\ msg.len \in 0..MaxBody /\ sent \in 0..MaxBody /\ left \in 0..MaxBody
      /\ col \in 0..Longest
  BY MessageLength DEF TypeOK
<1>1. CASE SendPiece
  <2>1. Byte(at, col = 0, FALSE, 0, NoMessage) \in Bytes
    BY <1>1 DEF SendPiece, Byte, Bytes, Lines
  <2>2. net' \in Seq(Bytes) /\ Len(net') <= NetMax /\ filled \in 0..Len(net')
    BY <1>1, <2>1, SendsQueues DEF SendPiece
  <2>3. col' \in 0..Longest
    BY <1>0, <1>1 DEF SendPiece
  <2>4. QED
    BY <1>1, <2>2, <2>3 DEF SendPiece, TypeOK, DueInv, BufferBounded, reader
<1>2. CASE SendHead
  <2>1. PICK m \in Messages :
          /\ Sends(Byte("head", col = 0, TRUE, 0, m))
          /\ msg' = m /\ left' = m.len
          /\ at' = IF m.f = "te" THEN "size"
                   ELSE IF m.len > 0 THEN "data"
                   ELSE IF m.f = "eof" THEN "shut" ELSE Over(m)
    BY <1>2 DEF SendHead
  <2>2. Byte("head", col = 0, TRUE, 0, m) \in Bytes
    BY DEF Byte, Bytes, Lines
  <2>3. net' \in Seq(Bytes) /\ Len(net') <= NetMax /\ filled \in 0..Len(net')
    BY <2>1, <2>2, SendsQueues
  <2>4. m.len \in 0..MaxBody
    BY MessageLength
  <2>5. at' \in {"size", "data", "shut", "head"} /\ (at' = "data" => m.len > 0)
    BY <2>1 DEF Over
  <2>6. sent' = 0 /\ col' = 0 /\ msg' = m /\ left' = m.len
    BY <1>2, <2>1 DEF SendHead
  <2>7. DueInv'
    BY <2>4, <2>5, <2>6 DEF DueInv
  <2>8. TypeOK'
    BY <1>2, <2>3, <2>4, <2>5, <2>6 DEF SendHead, TypeOK, reader, Lines
  <2>9. QED
    BY <1>2, <2>7, <2>8 DEF SendHead, BufferBounded
<1>3. CASE SendSize
  <2>1. PICK n \in 0..(msg.len - sent) :
          /\ Sends(Byte("size", col = 0, TRUE, n, NoMessage))
          /\ left' = n
          /\ at' = IF n = 0 THEN "trailer" ELSE "data"
    BY <1>3 DEF SendSize
  <2>2. n \in 0..MaxBody
    BY <1>0
  <2>3. Byte("size", col = 0, TRUE, n, NoMessage) \in Bytes
    BY <2>2 DEF Byte, Bytes, Lines
  <2>4. net' \in Seq(Bytes) /\ Len(net') <= NetMax /\ filled \in 0..Len(net')
    BY <2>1, <2>3, SendsQueues
  <2>5. msg' = msg /\ sent' = sent /\ col' = 0
    BY <1>3 DEF SendSize
  <2>6. DueInv'
    BY <1>0, <2>1, <2>2, <2>5 DEF DueInv
  <2>7. TypeOK'
    BY <1>3, <2>1, <2>2, <2>4, <2>5 DEF SendSize, TypeOK, reader, Lines
  <2>8. QED
    BY <1>3, <2>6, <2>7 DEF SendSize, BufferBounded
<1>4. CASE SendData
  <2>1. left \in 1..(msg.len - sent)
    BY <1>4 DEF SendData, DueInv
  <2>2. sent + 1 \in 0..MaxBody /\ left - 1 \in 0..MaxBody
    BY <1>0, <2>1
  <2>3. Byte("data", FALSE, FALSE, sent + 1, NoMessage) \in Bytes
    BY <2>2 DEF Byte, Bytes, Lines
  <2>4. net' \in Seq(Bytes) /\ Len(net') <= NetMax /\ filled \in 0..Len(net')
    BY <1>4, <2>3, SendsQueues DEF SendData
  <2>5. /\ at' \in {"data", "cr", "shut", "head"} /\ (at' = "data" => left > 1)
        /\ sent' = sent + 1 /\ left' = left - 1 /\ msg' = msg
    BY <1>4 DEF SendData, Over
  <2>6. DueInv'
    BY <1>0, <2>1, <2>5 DEF DueInv
  <2>7. TypeOK'
    BY <1>4, <2>2, <2>4, <2>5 DEF SendData, TypeOK, reader, Lines
  <2>8. QED
    BY <1>4, <2>6, <2>7 DEF SendData, BufferBounded
<1>5. CASE SendFooter
  <2>1. Byte(at, FALSE, FALSE, 0, NoMessage) \in Bytes
    BY <1>5 DEF SendFooter, Byte, Bytes, Lines
  <2>2. net' \in Seq(Bytes) /\ Len(net') <= NetMax /\ filled \in 0..Len(net')
    BY <1>5, <2>1, SendsQueues DEF SendFooter
  <2>3. at' \in {"lf", "size"}
    BY <1>5 DEF SendFooter
  <2>4. QED
    BY <1>5, <2>2, <2>3 DEF SendFooter, TypeOK, DueInv, BufferBounded, reader, Lines
<1>6. CASE SendTrailer
  <2>1. Byte("trailer", col = 0, TRUE, 0, NoMessage) \in Bytes
    BY <1>6 DEF Byte, Bytes, Lines
  <2>2. net' \in Seq(Bytes) /\ Len(net') <= NetMax /\ filled \in 0..Len(net')
    BY <1>6, <2>1, SendsQueues DEF SendTrailer
  <2>3. at' \in {"head", "shut"} /\ col' = 0
    BY <1>6 DEF SendTrailer, Over
  <2>4. QED
    BY <1>6, <2>2, <2>3 DEF SendTrailer, TypeOK, DueInv, BufferBounded, reader, Lines
<1>7. CASE SendJunk
  <2>1. Byte("junk", FALSE, FALSE, 0, NoMessage) \in Bytes
    BY DEF Byte, Bytes, Lines
  <2>2. net' \in Seq(Bytes) /\ Len(net') <= NetMax /\ filled \in 0..Len(net')
    BY <1>7, <2>1, SendsQueues DEF SendJunk
  <2>3. QED
    BY <1>7, <2>2 DEF SendJunk, TypeOK, DueInv, BufferBounded, reader
<1>8. QED
  BY <1>1, <1>2, <1>3, <1>4, <1>5, <1>6, <1>7 DEF Peer

-----------------------------------------------------------------------------
(* The reader. *)

\* A fill brings at most what was asked for, into a buffer within the limit.
LEMMA FillKeeps ==
  ASSUME ReadInv, Fill
  PROVE  ReadInv'
PROOF
<1>1. PICK n \in 1..Asked : filled + n <= Len(net) /\ filled' = filled + n
  BY DEF Fill
<1>2. filled \in Nat /\ Len(net) \in Nat
  BY DEF ReadInv, TypeOK
<1>3. Asked \in Int
  BY <1>2 DEF Asked
<1>4. n \in Nat /\ n > 0 /\ n <= Asked
  BY <1>1, <1>3
<1>5. filled' \in 0..Len(net)
  BY <1>1, <1>2, <1>4
<1>6. BufferBounded'
  <2>1. CASE rd = "head"
    BY <1>1, <1>2, <1>4, <2>1 DEF Asked, BufferBounded
  <2>2. CASE rd \in {"size", "trailer"}
    <3>1. filled < Limit
      BY <2>2 DEF Fill, Hungry, HungryForLine, Lines
    <3>2. n <= FillLen
      BY <1>4, <2>2 DEF Asked
    <3>3. QED
      BY <1>1, <1>2, <1>4, <2>2, <3>1, <3>2 DEF Limit, BufferBounded
  <2>3. CASE rd \notin Lines
    <3>1. filled = 0
      BY <2>3 DEF Fill, Hungry, HungryForBody
    <3>2. n <= MaxRead \/ n <= FillLen
      BY <1>4, <2>3 DEF Asked, Lines
    <3>3. QED
      BY <1>1, <1>4, <3>1, <3>2 DEF BufferBounded
  <2>4. QED
    BY <2>1, <2>2, <2>3 DEF Lines
<1>7. QED
  BY <1>5, <1>6 DEF Fill, ReadInv, TypeOK, DueInv, peer, reader

\* An error leaves the reader in one of its states.
LEMMA FailsKeepsType ==
  ASSUME TypeOK, NEW e \in Errors, Fails(e)
  PROVE  rd' \in Readers /\ err' \in Errors
PROOF
  BY DEF Fails, Readers, TypeOK

\* An action of the reader that takes bytes out of the buffer.
LEMMA TakingKeeps ==
  ASSUME ReadInv, UNCHANGED <<peer, closed>>,
         net' \in Seq(Bytes), Len(net') <= NetMax,
         filled' \in 0..Len(net'), filled' <= filled,
         rd' \in Readers, remaining' \in 0..MaxBody,
         head' \in Messages \cup {NoMessage}, body' \in Seq(Bytes),
         told' \in BOOLEAN, err' \in Errors
  PROVE  ReadInv'
PROOF
<1>1. filled' \in Nat
  OBVIOUS
<1>2. BufferBounded'
  BY <1>1, NoLongerIsBounded DEF ReadInv
<1>3. UNCHANGED <<at, msg, sent, left, col, junked, closed>>
  BY DEF peer
<1>4. TypeOK'
  BY <1>3 DEF ReadInv, TypeOK
<1>5. DueInv'
  BY <1>3 DEF ReadInv, DueInv
<1>6. QED
  BY <1>2, <1>4, <1>5 DEF ReadInv

\* Every error leaves the stream alone, and keeps the invariant.
LEMMA ErrorsKeep ==
  ASSUME ReadInv, ReadError \/ ReadEOF \/ RejectLine
  PROVE  ReadInv'
PROOF
<1>1. PICK e \in Errors : Fails(e)
  BY DEF ReadError, ReadEOF, RejectLine, Errors
<1>2. rd' \in Readers /\ err' \in Errors
  BY <1>1, FailsKeepsType DEF ReadInv
<1>3. UNCHANGED <<peer, closed, net, filled, remaining, head, body, told>>
  BY DEF ReadError, ReadEOF, RejectLine
<1>4. QED
  BY <1>2, <1>3, TakingKeeps DEF ReadInv, TypeOK

\* Every turn of the reader keeps the invariant.
LEMMA ReaderKeeps ==
  ASSUME ReadInv, Reader
  PROVE  ReadInv'
PROOF
<1>0. TypeOK
  BY DEF ReadInv
<1>1. CASE Fill
  BY <1>1, FillKeeps
<1>2. CASE ReadEOF \/ RejectLine
  BY <1>2, ErrorsKeep
<1>3. CASE EofBodyEnds
  BY <1>0, <1>3, TakingKeeps DEF EofBodyEnds, TypeOK
<1>4. CASE ReadHead
  <2>1. PICK n \in 1..filled :
          /\ Consume(n)
          /\ head' = net[n].m
          /\ rd' = IF net[n].m.f = "te" THEN "size" ELSE net[n].m.f
          /\ remaining' = IF net[n].m.f = "cl" THEN net[n].m.len ELSE 0
    BY <1>4 DEF ReadHead
  <2>2. net[n] \in Bytes
    BY <1>0 DEF TypeOK
  <2>3. net[n].m \in Messages \cup {NoMessage}
    BY <2>2 DEF Bytes
  <2>4. net[n].m.len \in 0..MaxBody /\ net[n].m.f \in {"none", "cl", "te", "eof"}
    <3>1. net[n].m.len \in 0..MaxBody
      BY <2>3, MessageLength
    <3>2. CASE net[n].m \in Messages
      BY <3>1, <3>2 DEF Messages
    <3>3. CASE net[n].m = NoMessage
      BY <3>1, <3>3 DEF NoMessage
    <3>4. QED
      BY <2>3, <3>2, <3>3
  <2>5. rd' \in Readers /\ remaining' \in 0..MaxBody
    BY <2>1, <2>4 DEF Readers, Lines
  <2>6. /\ net' \in Seq(Bytes) /\ Len(net') <= NetMax
        /\ filled' \in 0..Len(net') /\ filled' <= filled
    BY <1>0, <2>1, ConsumeShrinks
  <2>7. /\ body' \in Seq(Bytes) /\ told' \in BOOLEAN /\ err' \in Errors
        /\ head' \in Messages \cup {NoMessage}
    <3>1. body' = <<>> /\ told' = FALSE /\ err' = err /\ err \in Errors
      BY <1>0, <1>4 DEF ReadHead, TypeOK
    <3>2. head' \in Messages \cup {NoMessage}
      BY <2>1, <2>3
    <3>3. <<>> \in Seq(Bytes)
      OBVIOUS
    <3>4. QED
      BY <3>1, <3>2, <3>3
  <2>8. UNCHANGED <<peer, closed>>
    BY <1>4 DEF ReadHead
  <2>9. QED
    BY <2>5, <2>6, <2>7, <2>8, TakingKeeps
<1>5. CASE ReadBody
  <2>1. PICK max \in 1..MaxRead :
          LET n == IF max < Available THEN max ELSE Available IN
          /\ Answers(n)
          /\ remaining' = IF rd = "eof" THEN 0 ELSE remaining - n
    BY <1>5 DEF ReadBody
  <2>2. Available > 0 /\ UNCHANGED <<peer, closed, rd, head, told, err>>
    BY <1>5 DEF ReadBody
  <2>3. /\ body' \in Seq(Bytes) /\ remaining' \in 0..MaxBody
        /\ net' \in Seq(Bytes) /\ Len(net') <= NetMax
        /\ filled' \in 0..Len(net') /\ filled' <= filled
    <3> DEFINE n == IF max < Available THEN max ELSE Available
    <3>1. Answers(n) /\ remaining' = IF rd = "eof" THEN 0 ELSE remaining - n
      BY <2>1
    <3>2. /\ rd # "eof" => remaining - n \in 0..MaxBody
          /\ body' \in Seq(Bytes)
          /\ net' \in Seq(Bytes) /\ Len(net') <= NetMax
          /\ filled' \in 0..Len(net') /\ filled' <= filled
      BY <1>0, <2>2, <3>1, AnswerTakes
    <3> HIDE DEF n
    <3>3. QED
      BY <3>1, <3>2
  <2>4. rd' \in Readers /\ told' \in BOOLEAN /\ err' \in Errors
    BY <1>0, <2>2 DEF TypeOK
  <2>5. QED
    BY <1>0, <2>2, <2>3, <2>4, TakingKeeps DEF TypeOK
<1>6. CASE ReadChunk
  <2>1. PICK max \in 1..MaxRead :
          LET n == IF max < Available THEN max ELSE Available IN
          /\ Answers(n)
          /\ remaining' = remaining - n
          /\ rd' = IF n < remaining THEN "data" ELSE AfterChunk
    BY <1>6 DEF ReadChunk
  <2>2. /\ Available > 0 /\ rd = "data"
        /\ UNCHANGED <<peer, closed, head, told, err>>
    BY <1>6 DEF ReadChunk
  <2>3. rd' \in Readers
    BY <2>1 DEF AfterChunk, Readers
  <2>4. /\ body' \in Seq(Bytes) /\ remaining' \in 0..MaxBody
        /\ net' \in Seq(Bytes) /\ Len(net') <= NetMax
        /\ filled' \in 0..Len(net') /\ filled' <= filled
    <3> DEFINE n == IF max < Available THEN max ELSE Available
    <3>1. Answers(n) /\ remaining' = remaining - n
      BY <2>1
    <3>2. /\ remaining - n \in 0..MaxBody
          /\ body' \in Seq(Bytes)
          /\ net' \in Seq(Bytes) /\ Len(net') <= NetMax
          /\ filled' \in 0..Len(net') /\ filled' <= filled
      BY <1>0, <2>2, <3>1, AnswerTakes
    <3> HIDE DEF n
    <3>3. QED
      BY <3>1, <3>2
  <2>5. told' \in BOOLEAN /\ err' \in Errors
    BY <1>0, <2>2 DEF TypeOK
  <2>6. QED
    BY <1>0, <2>2, <2>3, <2>4, <2>5, TakingKeeps DEF TypeOK
<1>7. CASE ReadFooter
  <2>1. 1 \in 1..filled
    BY <1>0, <1>7 DEF ReadFooter, TypeOK
  <2>2. /\ net' \in Seq(Bytes) /\ Len(net') <= NetMax
        /\ filled' \in 0..Len(net') /\ filled' <= filled
    BY <1>0, <1>7, <2>1, ConsumeShrinks DEF ReadFooter
  <2>3. rd' \in Readers /\ err' \in Errors
    <3>1. CASE Fails("Invalid")
      BY <1>0, <3>1, FailsKeepsType DEF Errors
    <3>2. CASE rd' \in {"lf", "size"} /\ err' = err
      BY <1>0, <3>2 DEF TypeOK, Readers, Lines
    <3>3. QED
      BY <1>7, <3>1, <3>2 DEF ReadFooter
  <2>4. UNCHANGED <<peer, closed, remaining, head, body, told>>
    BY <1>7 DEF ReadFooter
  <2>5. QED
    BY <1>0, <2>2, <2>3, <2>4, TakingKeeps DEF TypeOK
<1>8. CASE ReadSize
  <2>1. PICK n \in 1..filled :
          /\ Consume(n)
          /\ remaining' = net[n].n
          /\ rd' = IF net[n].n = 0 THEN "trailer" ELSE "data"
    BY <1>8 DEF ReadSize
  <2>2. net[n] \in Bytes
    BY <1>0 DEF TypeOK
  <2>3. remaining' \in 0..MaxBody /\ rd' \in Readers
    BY <2>1, <2>2 DEF Bytes, Readers, Lines
  <2>4. /\ net' \in Seq(Bytes) /\ Len(net') <= NetMax
        /\ filled' \in 0..Len(net') /\ filled' <= filled
    BY <1>0, <2>1, ConsumeShrinks
  <2>5. UNCHANGED <<peer, closed, head, body, told, err>>
    BY <1>8 DEF ReadSize
  <2>6. QED
    BY <1>0, <2>3, <2>4, <2>5, TakingKeeps DEF TypeOK
<1>9. CASE ReadTrailers
  <2>1. PICK n \in 1..filled : Consume(n)
    BY <1>9 DEF ReadTrailers
  <2>2. /\ net' \in Seq(Bytes) /\ Len(net') <= NetMax
        /\ filled' \in 0..Len(net') /\ filled' <= filled
    BY <1>0, <2>1, ConsumeShrinks
  <2>3. /\ rd' \in Readers /\ told' \in BOOLEAN
        /\ UNCHANGED <<peer, closed, remaining, head, body, err>>
    BY <1>9 DEF ReadTrailers, Readers
  <2>4. QED
    BY <1>0, <2>2, <2>3, TakingKeeps DEF TypeOK
<1>10. CASE ReadNone
  BY <1>0, <1>10, TakingKeeps DEF ReadNone, TypeOK
<1>11. CASE Recycle
  <2>1. rd' \in Readers
    BY <1>11 DEF Recycle, Readers, Lines
  <2>2. /\ told' \in BOOLEAN
        /\ UNCHANGED <<peer, closed, net, filled, remaining, head, body, err>>
    BY <1>11 DEF Recycle
  <2>3. QED
    BY <1>0, <2>1, <2>2, TakingKeeps DEF TypeOK
<1>12. QED
  BY <1>1, <1>2, <1>3, <1>4, <1>5, <1>6, <1>7, <1>8, <1>9, <1>10, <1>11 DEF Reader

-----------------------------------------------------------------------------
(* The theorems. *)

\* A new connection satisfies the invariant.
LEMMA InitReads == Init => ReadInv
PROOF
<1> SUFFICES ASSUME Init PROVE ReadInv
  OBVIOUS
<1>1. /\ net = <<>> /\ body = <<>> /\ filled = 0
      /\ net \in Seq(Bytes) /\ Len(net) = 0 /\ body \in Seq(Bytes)
  BY DEF Init
<1>2. /\ at = "head" /\ rd = "head" /\ err = "none" /\ msg = NoMessage
      /\ head = NoMessage /\ sent = 0 /\ left = 0 /\ col = 0 /\ remaining = 0
      /\ junked = FALSE /\ closed = FALSE /\ told = FALSE
  BY DEF Init
<1>3. TypeOK
  <2>1. /\ MaxBody \in Nat /\ Longest \in Nat /\ NetMax \in Nat
    OBVIOUS
  <2>2. /\ at \in Lines \cup {"data", "cr", "lf", "shut"}
        /\ {msg, head} \subseteq Messages \cup {NoMessage}
        /\ rd \in Readers /\ err \in Errors
        /\ {junked, closed, told} \subseteq BOOLEAN
    BY <1>2 DEF Lines, Readers, Errors
  <2>3. /\ sent \in 0..MaxBody /\ left \in 0..MaxBody /\ col \in 0..Longest
        /\ remaining \in 0..MaxBody
    BY <1>2, <2>1
  <2>4. /\ net \in Seq(Bytes) /\ Len(net) <= NetMax
        /\ filled \in 0..Len(net) /\ body \in Seq(Bytes)
    BY <1>1, <2>1
  <2>5. QED
    BY <2>2, <2>3, <2>4 DEF TypeOK
<1>4. DueInv
  BY <1>2 DEF DueInv, NoMessage
<1>5. BufferBounded
  BY <1>1 DEF BufferBounded
<1>6. QED
  BY <1>3, <1>4, <1>5 DEF ReadInv

\* Every step keeps the invariant.
LEMMA NextReads == ReadInv /\ [Next]_vars => ReadInv'
PROOF
<1> SUFFICES ASSUME ReadInv, [Next]_vars PROVE ReadInv'
  OBVIOUS
<1>1. CASE Peer
  BY <1>1, PeerKeeps
<1>2. CASE Close
  BY <1>2 DEF Close, ReadInv, TypeOK, DueInv, BufferBounded, peer, reader
<1>3. CASE Reader
  BY <1>3, ReaderKeeps
<1>4. CASE ReadError
  BY <1>4, ErrorsKeep
<1>5. CASE UNCHANGED vars
  BY <1>5 DEF vars, ReadInv, TypeOK, DueInv, BufferBounded, peer, reader
<1>6. QED
  BY <1>1, <1>2, <1>3, <1>4, <1>5 DEF Next, Terminated

\* Types, what the peer has left to send, and the bound of the buffer hold always.
THEOREM ReadInvariance == Spec => []ReadInv
PROOF
<1>1. QED
  BY InitReads, NextReads, PTL DEF Spec

\* Type correctness: the remaining length of a chunk never wraps, and the buffer is
\* always a part of what was sent.
THEOREM ReadTypeCorrect == Spec => []TypeOK
PROOF
<1>1. ReadInv => TypeOK
  BY DEF ReadInv
<1>2. QED
  BY <1>1, ReadInvariance, PTL

\* However a peer that never ends a line cuts its stream, the buffer holds at most
\* one fill more than the limit of the line that is being read.
THEOREM BufferStaysBounded == Spec => []BufferBounded
PROOF
<1>1. ReadInv => BufferBounded
  BY DEF ReadInv
<1>2. QED
  BY <1>1, ReadInvariance, PTL
=============================================================================
