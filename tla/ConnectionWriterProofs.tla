------------------------ MODULE ConnectionWriterProofs ------------------------
EXTENDS ConnectionWriter, TLAPS

USE UnitAssumption, WriterAssumption

\* Closing the connection changes at most the verdict on a close-delimited message.
LEMMA CloseFields ==
  ASSUME NEW x \in Decoded
  PROVE  /\ RxClose(x) \in Decoded
         /\ RxClose(x).f = x.f /\ RxClose(x).n = x.n
         /\ RxClose(x).got = x.got /\ RxClose(x).left = x.left
         /\ RxClose(x).st = IF x.f = "eof" /\ x.st = "data" THEN "done" ELSE x.st
         /\ x.f # "eof" => RxClose(x) = x
  BY DEF RxClose, Move, Decoded, RxStates

\* What the recipient of a new message waits for.
LEMMA InitFields ==
  ASSUME NEW f \in WriterFraming, NEW length \in Nat
  PROVE  LET x == RxInit(f, length) IN
         /\ x \in Decoded /\ x.f = f /\ x.n = 0 /\ x.got = 0
         /\ x.left = IF f = "cl" THEN length ELSE 0
         /\ x.st = IF f = "chunked" THEN "head"
                   ELSE IF f = "none" \/ (f = "cl" /\ length = 0) THEN "done" ELSE "data"
  BY DEF RxInit, Decoded, RxStates

\* The framings a side may send are framings a recipient knows.
LEMMA FramingsKnown == FrontendFramings \cup BackendFramings \subseteq WriterFraming
  BY DEF FrontendFramings, BackendFramings, WriterFraming

\* The rules of each framing, side by side.
LEMMA RulesFields ==
  ASSUME TypeOK
  PROVE  /\ Rules.open = IF wf = "chunked" /\ clen # 0 THEN HeadLen ELSE 0
         /\ Rules.close = IF wf = "chunked" /\ clen # 0 THEN FootLen ELSE 0
         /\ Rules.finish = IF wf = "chunked" THEN LastLen ELSE 0
         /\ Rules.abort = IF wf = "chunked" THEN 1 ELSE 0
         /\ Rules.limited <=> wf \in {"none", "cl"}
         /\ Rules.limit = IF wf = "cl" THEN total ELSE 0
         /\ wf \in WriterFraming
<1>1. wf \in WriterFraming
  BY FramingsKnown DEF TypeOK, Framings
<1> QED
  BY <1>1 DEF WriterFraming, Rules, BodylessRules, LengthRules, ChunkedRules, EofRules,
    ChunkHeader, ChunkFooter

-----------------------------------------------------------------------------
(* Every step preserves IInv. *)

\* A new connection satisfies the invariant.
LEMMA InitInv == Init => IInv
<1> SUFFICES ASSUME Init PROVE IInv
  OBVIOUS
<1>1. /\ rx = RxInit("none", 0) /\ seen = rx /\ wf = "none" /\ total = 0 /\ off = 0
      /\ clen = 0 /\ cnt = 0 /\ flushed = FALSE /\ accepted = 0 /\ ended = "finish"
      /\ outcome = "none" /\ hold = "Writer" /\ side \in {"frontend", "backend"}
  BY DEF Init
<1>2. "none" \in WriterFraming /\ wf \in Framings
  BY <1>1 DEF WriterFraming, Framings, FrontendFramings, BackendFramings
<1>3. /\ rx \in Decoded /\ rx.f = "none" /\ rx.n = 0 /\ rx.got = 0 /\ rx.left = 0
      /\ rx.st = "done"
  BY <1>1, <1>2, InitFields
<1>4. TypeOK
  <2>1. /\ total \in 0..MaxBody /\ off \in 0..total /\ clen \in 0..MaxU64 /\ cnt \in Nat
        /\ accepted \in 0..MaxBody
    BY <1>1
  <2>2. hold \in Holds /\ outcome \in Outcomes /\ flushed \in BOOLEAN
    BY <1>1 DEF Holds, Outcomes
  <2> QED
    BY <1>1, <1>2, <1>3, <2>1, <2>2 DEF TypeOK
<1> QED
  BY <1>1, <1>3, <1>4 DEF IInv, ArrivedInv, EndedInv, BodylessInv, LengthInv, EofInv, ChunkInv,
    ChunkedEndInv, CycleInv

\* However the writer is lost, the recipient keeps what it may have had.
LEMMA LoseInv ==
  ASSUME IInv, NEW why \in Outcomes \ {"none"}, Lose(why), hold # "gone",
         why = "aborted" => hold = "Abort" /\ flushed /\ cnt >= Rules.abort,
         why = "finished" => hold = "Finish" /\ flushed /\ wf = "eof"
  PROVE  IInv'
<1> USE DEF message, state
<1>1. /\ hold' = "gone" /\ outcome' = why
      /\ UNCHANGED <<side, wf, total, off, clen, cnt, flushed, accepted, ended, rx>>
  BY DEF Lose
<1>2. PICK x \in {rx, seen} : seen' = RxClose(x)
  BY DEF Lose
<1>3. rx \in Decoded /\ seen \in Decoded /\ x \in Decoded
  BY DEF IInv, TypeOK
<1>4. /\ seen' \in Decoded /\ seen'.f = x.f /\ seen'.got = x.got
      /\ seen'.st = IF x.f = "eof" /\ x.st = "data" THEN "done" ELSE x.st
      /\ x.f # "eof" => seen' = x
  BY <1>2, <1>3, CloseFields
<1>5. TypeOK'
  <2>1. TypeOK
    BY DEF IInv
  <2>2. Framings' = Framings
    BY <1>1 DEF Framings
  <2> QED
    BY <1>1, <1>4, <2>1, <2>2 DEF TypeOK, Holds
<1>6. ArrivedInv'
  BY <1>1, <1>3, <1>4 DEF IInv, TypeOK, ArrivedInv, Decoded
<1>8. EndedInv'
  <2>1. why = "aborted" /\ wf = "chunked" => seen'.st = "bad"
    <3>1. CASE why = "aborted" /\ wf = "chunked"
      <4>1. Rules.abort = 1 /\ hold = "Abort" /\ flushed /\ cnt >= 1 /\ cnt \in Nat
        BY <3>1, RulesFields DEF IInv, TypeOK
      <4>2. rx.st = "bad" /\ seen = rx
        BY <3>1, <4>1 DEF IInv, ArrivedInv, ChunkedEndInv
      <4> QED
        BY <3>1, <4>2, <1>3, <1>4 DEF IInv, ArrivedInv
    <3> QED
      BY <3>1
  <2>2. why = "finished" => seen'.st = "done" /\ seen'.got = accepted
    BY <1>3, <1>4 DEF IInv, ArrivedInv, EofInv
  <2> QED
    BY <1>1, <2>1, <2>2 DEF EndedInv
<1>7. BodylessInv' /\ LengthInv' /\ EofInv' /\ ChunkInv' /\ ChunkedEndInv' /\ CycleInv'
  BY <1>1, <1>2, <1>3, <1>4 DEF IInv, TypeOK, ArrivedInv, BodylessInv, LengthInv, EofInv, ChunkInv,
    ChunkedEndInv, CycleInv, Between
<1> QED
  BY <1>5, <1>6, <1>7, <1>8 DEF IInv

\* A new message begins with a recipient that waits for its head only.
LEMMA SendHeadInv == IInv /\ SendHead => IInv'
<1> SUFFICES ASSUME IInv, SendHead PROVE IInv'
  OBVIOUS
<1>1. /\ hold' = "Ready" /\ wf' \in Framings /\ total' \in 0..MaxBody
      /\ total' = 0 \/ wf' = "cl"
      /\ off' = 0 /\ clen' = 0 /\ cnt' = 0 /\ flushed' = FALSE /\ accepted' = 0 /\ ended' = "no"
      /\ side' = side /\ outcome' = outcome /\ seen' = rx'
  BY DEF SendHead, IInv, TypeOK
<1>2. wf' \in WriterFraming
  BY <1>1, FramingsKnown DEF Framings
<1>3. rx' = RxInit(wf', total')
  BY DEF SendHead, IInv, ArrivedInv
<1>4. /\ rx' \in Decoded /\ rx'.f = wf' /\ rx'.n = 0 /\ rx'.got = 0
      /\ rx'.left = IF wf' = "cl" THEN total' ELSE 0
      /\ rx'.st = IF wf' = "chunked" THEN "head"
                  ELSE IF wf' = "none" \/ (wf' = "cl" /\ total' = 0) THEN "done" ELSE "data"
  BY <1>1, <1>2, <1>3, InitFields
<1>5. outcome = "none" /\ hold = "Writer" /\ side \in {"frontend", "backend"}
  BY DEF IInv, TypeOK, EndedInv, SendHead
<1>6. TypeOK'
  <2>1. Framings' = Framings
    BY <1>1 DEF Framings
  <2>2. /\ total' \in 0..MaxBody /\ off' \in 0..total' /\ clen' \in 0..MaxU64 /\ cnt' \in Nat
        /\ accepted' \in 0..MaxBody
    BY <1>1
  <2>3. hold' \in Holds /\ outcome' \in Outcomes /\ flushed' \in BOOLEAN
    BY <1>1, <1>5 DEF Holds, Outcomes
  <2> QED
    BY <1>1, <1>4, <1>5, <2>1, <2>2, <2>3 DEF TypeOK
<1>7. ArrivedInv' /\ EndedInv'
  BY <1>1, <1>4, <1>5 DEF ArrivedInv, EndedInv
<1>9. BodylessInv' /\ EofInv'
  BY <1>1, <1>4 DEF BodylessInv, EofInv
<1>10. LengthInv'
  <2>1. wf' = "cl" => /\ rx'.left = total' - accepted'
                      /\ rx'.st = IF accepted' = total' THEN "done" ELSE "data"
    <3>1. total' \in Nat
      BY <1>1
    <3>2. \A n \in Nat : n - 0 = n
      OBVIOUS
    <3>3. rx'.left = total' - accepted'
      BY <1>1, <1>4, <3>1, <3>2
    <3> QED
      BY <1>1, <1>4, <3>3
  <2> QED
    BY <1>1, <1>4, <2>1 DEF LengthInv
<1>8. ChunkInv' /\ ChunkedEndInv' /\ CycleInv'
  BY <1>1, <1>2, <1>4 DEF ChunkInv, ChunkedEndInv, CycleInv, Between
<1> QED
  BY <1>6, <1>7, <1>8, <1>9, <1>10 DEF IInv

\* A chunk that is opened fits in what the body has left.
LEMMA OpenChunkInv ==
  ASSUME IInv, NEW len \in 0..MaxU64, OpenChunk(len)
  PROVE  IInv'
<1> USE DEF message, log
<1>1. CASE OpenOverflows(len)
  BY <1>1, LoseInv DEF OpenChunk, Outcomes, Refusals
<1>2. CASE ~OpenOverflows(len)
  <2>1. /\ hold = "Ready" /\ hold' = "Open" /\ clen' = len /\ cnt' = 0
        /\ UNCHANGED <<side, wf, total, off, flushed, accepted, ended, outcome, rx, seen>>
        /\ ~Rules.limited => accepted + len <= MaxBody
        /\ Rules.limited => ~(off + len > Rules.limit)
    BY <1>2 DEF OpenChunk, OpenOverflows
  <2>6. /\ ~(wf \in {"none", "cl"}) => accepted + len <= MaxBody
        /\ wf = "none" => len = 0
        /\ wf = "cl" => off + len <= total
    BY <2>1, RulesFields DEF IInv, TypeOK
  <2>2. TypeOK'
    <3>1. TypeOK
      BY DEF IInv
    <3>2. Framings' = Framings
      BY <2>1 DEF Framings
    <3> QED
      BY <2>1, <3>1, <3>2 DEF TypeOK, Holds
  <2>3. ArrivedInv' /\ EndedInv' /\ BodylessInv' /\ LengthInv' /\ EofInv'
    BY <2>1, <2>6 DEF IInv, TypeOK, ArrivedInv, EndedInv, BodylessInv, LengthInv, EofInv
  <2>4. ChunkInv' /\ ChunkedEndInv'
    BY <2>1 DEF IInv, TypeOK, ChunkInv, ChunkedEndInv, Between
  <2>5. CycleInv'
    BY <2>1 DEF CycleInv, Rules, BodylessRules, LengthRules, ChunkedRules, EofRules, ChunkHeader
  <2> QED
    BY <2>2, <2>3, <2>4, <2>5 DEF IInv
<1> QED
  BY <1>1, <1>2

\* Writing a part of a size line keeps the count and the recipient together.
LEMMA PollOpenInv == IInv /\ PollOpen => IInv'
<1> SUFFICES ASSUME IInv, PollOpen PROVE IInv'
  OBVIOUS
<1> USE DEF message, log
<1>1. PICK k \in 1..Rules.open : cnt + k <= Rules.open /\ cnt' = cnt + k
                                 /\ rx' = RxHead(rx, clen, cnt, k)
  BY DEF PollOpen
<1>2. /\ wf = "chunked" /\ clen # 0 /\ Rules.open = HeadLen /\ hold = "Open" /\ Rules.limited = FALSE
      /\ k \in 1..HeadLen /\ cnt + k <= HeadLen /\ cnt \in Nat /\ clen \in Nat /\ rx \in Decoded
  <2>1. Rules.open \in Nat
    BY RulesFields DEF IInv
  <2> QED
    BY <1>1, <2>1, RulesFields DEF IInv, PollOpen, TypeOK
<1>3. rx.st = "head" /\ rx.n = cnt /\ (cnt > 0 => rx.left = clen)
  BY <1>1, <1>2 DEF IInv, ChunkInv, Between
<1>4. /\ rx' \in Decoded
      /\ rx'.f = rx.f /\ rx'.got = rx.got /\ rx'.left = clen
      /\ rx'.n = IF cnt + k < HeadLen THEN cnt + k ELSE 0
      /\ rx'.st = IF cnt + k < HeadLen THEN "head" ELSE "data"
  BY <1>1, <1>2, <1>3 DEF RxHead, Move, Decoded, RxStates
<1>5. UNCHANGED <<side, wf, total, hold, off, clen, flushed, accepted, ended, outcome, seen>>
  BY DEF PollOpen
<1>6. TypeOK'
  <2>1. Framings' = Framings
    BY <1>5 DEF Framings
  <2> QED
    BY <1>1, <1>2, <1>4, <1>5, <2>1 DEF IInv, TypeOK
<1>7. ArrivedInv' /\ EndedInv' /\ BodylessInv' /\ LengthInv' /\ EofInv'
  BY <1>2, <1>3, <1>4, <1>5 DEF IInv, ArrivedInv, EndedInv, BodylessInv, LengthInv, EofInv
<1>8. ChunkInv' /\ ChunkedEndInv'
  BY <1>1, <1>2, <1>4, <1>5 DEF ChunkInv, ChunkedEndInv
<1>9. CycleInv'
  <2>1. Rules' = Rules
    BY <1>5 DEF Rules, BodylessRules, LengthRules, ChunkedRules, EofRules, ChunkHeader, ChunkFooter
  <2> QED
    BY <1>1, <1>2, <1>5, <2>1 DEF IInv, CycleInv
<1> QED
  BY <1>6, <1>7, <1>8, <1>9 DEF IInv

\* A size line is complete when the chunk's data may be written.
LEMMA IntoWriteInv == IInv /\ IntoWrite => IInv'
<1> SUFFICES ASSUME IInv, IntoWrite PROVE IInv'
  OBVIOUS
<1> USE DEF message, log
<1>1. CASE cnt < Rules.open
  BY <1>1, LoseInv DEF IntoWrite, Outcomes, Refusals
<1>2. CASE ~(cnt < Rules.open)
  <2>1. /\ hold = "Open" /\ hold' = "Write" /\ cnt' = 0
        /\ UNCHANGED <<side, wf, total, off, clen, flushed, accepted, ended, outcome, rx, seen>>
    BY <1>2 DEF IntoWrite
  <2>2. /\ cnt \in Nat /\ clen \in Nat /\ off \in Nat /\ accepted \in Nat
        /\ wf = "chunked" /\ clen # 0 => ~(cnt < HeadLen)
        /\ Rules.limited <=> wf \in {"none", "cl"}
    BY <1>2, RulesFields DEF IInv, TypeOK
  <2>3. TypeOK'
    <3>1. Framings' = Framings
      BY <2>1 DEF Framings
    <3> QED
      BY <2>1, <3>1 DEF IInv, TypeOK, Holds
  <2>4. ArrivedInv' /\ EndedInv' /\ BodylessInv' /\ LengthInv' /\ EofInv'
    BY <2>1, <2>2 DEF IInv, ArrivedInv, EndedInv, BodylessInv, LengthInv, EofInv
  <2>5. ChunkInv' /\ ChunkedEndInv'
    BY <2>1, <2>2 DEF IInv, ChunkInv, ChunkedEndInv, Between
  <2>6. CycleInv'
    <3>1. Rules' = Rules
      BY <2>1 DEF Rules, BodylessRules, LengthRules, ChunkedRules, EofRules, ChunkHeader, ChunkFooter
    <3> QED
      BY <2>1, <2>2, <3>1 DEF IInv, CycleInv
  <2> QED
    BY <2>3, <2>4, <2>5, <2>6 DEF IInv
<1> QED
  BY <1>1, <1>2

\* A partial write moves the recipient on by the bytes that were taken.
LEMMA PollWriteInv == IInv /\ PollWrite => IInv'
<1> SUFFICES ASSUME IInv, PollWrite PROVE IInv'
  OBVIOUS
<1>0. PICK b \in 1..MaxU64 :
        /\ ~WriteOverflows(b)
        /\ \E k \in 1..b : /\ cnt' = cnt + Count(b, k) /\ accepted' = accepted + k
                           /\ rx' = RxData(rx, accepted, k)
  BY DEF PollWrite
<1>1. PICK k \in 1..b : /\ cnt' = cnt + k /\ accepted' = accepted + k
                        /\ rx' = RxData(rx, accepted, k)
  BY <1>0 DEF Count
<1>2. /\ hold = "Write"
      /\ UNCHANGED <<side, wf, total, hold, off, clen, flushed, ended, outcome, seen>>
  BY DEF PollWrite, message
<1>3. /\ cnt \in Nat /\ clen \in Nat /\ off \in Nat /\ accepted \in Nat /\ total \in 0..MaxBody
      /\ rx \in Decoded /\ rx.f = wf /\ rx.got = accepted /\ wf \in WriterFraming
      /\ k \in Nat /\ k > 0 /\ cnt + k <= clen
  <2>1. cnt \in Nat /\ clen \in Nat /\ b \in Nat /\ k \in Nat /\ k > 0 /\ k <= b
    BY DEF IInv, TypeOK
  <2> QED
    BY <1>0, <2>1, RulesFields DEF IInv, TypeOK, ArrivedInv, WriteOverflows
<1>4. /\ wf # "none" /\ rx.st = "data"
      /\ wf = "cl" => rx.left = total - accepted /\ accepted + k <= total
      /\ wf = "chunked" => rx.left = clen - cnt /\ rx.n = 0
      /\ accepted + k <= MaxBody
      /\ wf = "eof" => rx.f = "eof"
  <2>1. Rules.limited <=> wf \in {"none", "cl"}
    BY RulesFields DEF IInv
  <2>2. wf # "none"
    BY <1>2, <1>3 DEF IInv, BodylessInv
  <2>3. wf = "cl" => /\ rx.left = total - accepted /\ accepted + k <= total
                     /\ rx.st = "data"
    BY <1>2, <1>3 DEF IInv, LengthInv
  <2>4. wf = "chunked" => rx.left = clen - cnt /\ rx.n = 0 /\ rx.st = "data"
    BY <1>2, <1>3 DEF IInv, ChunkInv
  <2>5. wf = "eof" => rx.st = "data"
    BY DEF IInv, EofInv
  <2>6. accepted + k <= MaxBody
    BY <1>2, <1>3, <2>1, <2>2, <2>3 DEF IInv, CycleInv, WriterFraming
  <2> QED
    BY <1>3, <2>2, <2>3, <2>4, <2>5, <2>6 DEF WriterFraming
<1>5. /\ rx' \in Decoded
      /\ rx'.f = rx.f /\ rx'.n = rx.n /\ rx'.got = accepted + k
      /\ rx'.left = IF wf = "eof" THEN rx.left ELSE rx.left - k
      /\ rx'.st = IF wf = "eof" \/ k < rx.left THEN "data"
                  ELSE IF wf = "cl" THEN "done" ELSE "foot"
  <2>1. /\ rx.left \in Nat /\ rx.n \in Nat /\ (rx.f = "eof" \/ k <= rx.left)
        /\ rx.f = wf
    BY <1>3, <1>4 DEF Decoded, WriterFraming
  <2> QED
    BY <1>1, <1>3, <1>4, <2>1 DEF RxData, Move, Decoded, RxStates
<1>6. TypeOK'
  <2>1. Framings' = Framings
    BY <1>2 DEF Framings
  <2>2. accepted' \in 0..MaxBody /\ cnt' \in Nat
    BY <1>1, <1>3, <1>4
  <2> QED
    BY <1>2, <1>5, <2>1, <2>2 DEF IInv, TypeOK
<1>7. ArrivedInv'
  BY <1>1, <1>2, <1>3, <1>4, <1>5 DEF IInv, ArrivedInv, TypeOK, Decoded
<1>8. EndedInv' /\ BodylessInv' /\ EofInv'
  BY <1>2, <1>4, <1>5 DEF IInv, EndedInv, BodylessInv, EofInv
<1>9. LengthInv'
  <2>1. wf = "cl" => /\ rx'.left = total - accepted'
                     /\ rx'.st = IF accepted' = total THEN "done" ELSE "data"
    BY <1>1, <1>3, <1>4, <1>5
  <2>2. wf = "cl" => off + clen <= total /\ accepted' = off + cnt'
    BY <1>1, <1>2, <1>3 DEF IInv, LengthInv
  <2> QED
    BY <1>2, <2>1, <2>2 DEF IInv, LengthInv
<1>10. ChunkInv' /\ ChunkedEndInv'
  <2>1. wf = "chunked" => /\ clen # 0 /\ rx'.n = 0 /\ rx'.left = clen - cnt'
                          /\ rx'.st = IF cnt' < clen THEN "data" ELSE "foot"
    BY <1>1, <1>3, <1>4, <1>5
  <2> QED
    BY <1>1, <1>2, <1>3, <2>1 DEF ChunkInv, ChunkedEndInv
<1>11. CycleInv'
  <2>1. Rules' = Rules
    BY <1>2 DEF Rules, BodylessRules, LengthRules, ChunkedRules, EofRules, ChunkHeader, ChunkFooter
  <2> QED
    BY <1>1, <1>2, <1>3, <2>1 DEF IInv, CycleInv
<1> QED
  BY <1>6, <1>7, <1>8, <1>9, <1>10, <1>11 DEF IInv

\* The next state of the cycle is entered with the whole chunk written.
LEMMA IntoCloseInv == IInv /\ IntoClose => IInv'
<1> SUFFICES ASSUME IInv, IntoClose PROVE IInv'
  OBVIOUS
<1> USE DEF message, log
<1>1. CASE cnt < clen
  BY <1>1, LoseInv DEF IntoClose, Outcomes, Refusals
<1>2. CASE ~(cnt < clen)
  <2>1. /\ hold = "Write" /\ hold' = "Close" /\ cnt' = 0
        /\ off' = IF wf = "cl" THEN off + clen ELSE off
        /\ UNCHANGED <<side, wf, total, clen, flushed, accepted, ended, outcome, rx, seen>>
    BY <1>2 DEF IntoClose
  <2>2. /\ cnt = clen /\ clen \in Nat /\ off \in Nat /\ accepted \in Nat
        /\ wf = "cl" => off + clen <= total /\ accepted = off + clen
    <3>1. cnt \in Nat /\ clen \in Nat /\ off \in Nat /\ accepted \in Nat
      BY DEF IInv, TypeOK
    <3>2. cnt <= clen
      BY <2>1 DEF IInv, CycleInv
    <3> QED
      BY <1>2, <2>1, <3>1, <3>2 DEF IInv, LengthInv
  <2>3. TypeOK'
    <3>1. Framings' = Framings
      BY <2>1 DEF Framings
    <3>2. off' \in 0..total' /\ cnt' \in Nat /\ hold' \in Holds
      BY <2>1, <2>2 DEF IInv, TypeOK, Holds
    <3> QED
      BY <2>1, <3>1, <3>2 DEF IInv, TypeOK
  <2>4. ArrivedInv' /\ EndedInv' /\ BodylessInv' /\ LengthInv' /\ EofInv'
    BY <2>1, <2>2 DEF IInv, ArrivedInv, EndedInv, BodylessInv, LengthInv, EofInv
  <2>5. ChunkInv' /\ ChunkedEndInv' /\ CycleInv'
    BY <2>1, <2>2 DEF IInv, ChunkInv, ChunkedEndInv, CycleInv, Between
  <2> QED
    BY <2>3, <2>4, <2>5 DEF IInv
<1> QED
  BY <1>1, <1>2

\* Writing a part of a footer keeps the count and the recipient together.
LEMMA PollCloseInv == IInv /\ PollClose => IInv'
<1> SUFFICES ASSUME IInv, PollClose PROVE IInv'
  OBVIOUS
<1> USE DEF message, log
<1>1. PICK k \in 1..Rules.close : cnt + k <= Rules.close /\ cnt' = cnt + k
                                  /\ rx' = RxFoot(rx, cnt, k)
  BY DEF PollClose
<1>2. /\ wf = "chunked" /\ clen # 0 /\ Rules.close = FootLen /\ hold = "Close"
      /\ k \in 1..FootLen /\ cnt + k <= FootLen /\ cnt \in Nat /\ rx \in Decoded
  <2>1. Rules.close \in Nat
    BY RulesFields DEF IInv
  <2> QED
    BY <1>1, <2>1, RulesFields DEF IInv, PollClose, TypeOK
<1>3. rx.st = "foot" /\ rx.n = cnt /\ rx.left = 0
  BY <1>1, <1>2 DEF IInv, ChunkInv, Between
<1>4. /\ rx' \in Decoded
      /\ rx'.f = rx.f /\ rx'.got = rx.got /\ rx'.left = 0
      /\ rx'.n = IF cnt + k < FootLen THEN cnt + k ELSE 0
      /\ rx'.st = IF cnt + k < FootLen THEN "foot" ELSE "head"
  BY <1>1, <1>2, <1>3 DEF RxFoot, Move, Decoded, RxStates
<1>5. UNCHANGED <<side, wf, total, hold, off, clen, flushed, accepted, ended, outcome, seen>>
  BY DEF PollClose
<1>6. TypeOK'
  <2>1. Framings' = Framings
    BY <1>5 DEF Framings
  <2> QED
    BY <1>1, <1>2, <1>4, <1>5, <2>1 DEF IInv, TypeOK
<1>7. ArrivedInv' /\ EndedInv' /\ BodylessInv' /\ LengthInv' /\ EofInv'
  BY <1>2, <1>3, <1>4, <1>5 DEF IInv, ArrivedInv, EndedInv, BodylessInv, LengthInv, EofInv
<1>8. ChunkInv' /\ ChunkedEndInv' /\ CycleInv'
  BY <1>1, <1>2, <1>4, <1>5 DEF ChunkInv, ChunkedEndInv, CycleInv, Between
<1> QED
  BY <1>6, <1>7, <1>8 DEF IInv

\* A cycle is complete when the footer is.
LEMMA IntoReadyInv == IInv /\ IntoReady => IInv'
<1> SUFFICES ASSUME IInv, IntoReady PROVE IInv'
  OBVIOUS
<1> USE DEF message, log
<1>1. CASE cnt < Rules.close
  BY <1>1, LoseInv DEF IntoReady, Outcomes, Refusals
<1>2. CASE ~(cnt < Rules.close)
  <2>1. /\ hold = "Close" /\ hold' = "Ready" /\ cnt' = 0
        /\ UNCHANGED <<side, wf, total, off, clen, flushed, accepted, ended, outcome, rx, seen>>
    BY <1>2 DEF IntoReady
  <2>2. cnt \in Nat /\ (wf = "chunked" /\ clen # 0 => ~(cnt < FootLen))
    BY <1>2, RulesFields DEF IInv, TypeOK
  <2>3. TypeOK'
    <3>1. Framings' = Framings
      BY <2>1 DEF Framings
    <3> QED
      BY <2>1, <3>1 DEF IInv, TypeOK, Holds
  <2>4. ArrivedInv' /\ EndedInv' /\ BodylessInv' /\ LengthInv' /\ EofInv'
    BY <2>1 DEF IInv, ArrivedInv, EndedInv, BodylessInv, LengthInv, EofInv
  <2>5. ChunkInv' /\ ChunkedEndInv' /\ CycleInv'
    BY <2>1, <2>2 DEF IInv, ChunkInv, ChunkedEndInv, CycleInv, Between
  <2> QED
    BY <2>3, <2>4, <2>5 DEF IInv
<1> QED
  BY <1>1, <1>2

\* A body that ends is one that has all the bytes it declared.
LEMMA StartFinishInv == IInv /\ StartFinish => IInv'
<1> SUFFICES ASSUME IInv, StartFinish PROVE IInv'
  OBVIOUS
<1> USE DEF message, log
<1>1. CASE Rules.limited /\ off < Rules.limit
  BY <1>1, LoseInv DEF StartFinish, Outcomes, Refusals
<1>2. CASE ~(Rules.limited /\ off < Rules.limit)
  <2>1. /\ hold = "Ready" /\ hold' = "Finish" /\ cnt' = 0 /\ flushed' = FALSE /\ ended' = "finish"
        /\ UNCHANGED <<side, wf, total, off, clen, accepted, outcome, rx, seen>>
    BY <1>2 DEF StartFinish
  <2>2. TypeOK'
    <3>1. Framings' = Framings
      BY <2>1 DEF Framings
    <3> QED
      BY <2>1, <3>1 DEF IInv, TypeOK, Holds
  <2>3. ArrivedInv' /\ EndedInv' /\ BodylessInv' /\ EofInv'
    BY <2>1 DEF IInv, ArrivedInv, EndedInv, BodylessInv, EofInv
  <2>4. LengthInv'
    <3>1. wf = "cl" => off = accepted /\ accepted \in 0..total /\ total \in Nat
      BY <2>1 DEF IInv, TypeOK, LengthInv
    <3>2. wf = "cl" => accepted = total
      BY <1>2, <3>1, RulesFields DEF IInv
    <3> QED
      BY <2>1, <3>1, <3>2 DEF IInv, LengthInv
  <2>5. ChunkInv' /\ ChunkedEndInv' /\ CycleInv'
    BY <2>1 DEF IInv, ChunkInv, ChunkedEndInv, CycleInv, Between
  <2> QED
    BY <2>2, <2>3, <2>4, <2>5 DEF IInv
<1> QED
  BY <1>1, <1>2

\* An abort begins between two chunks.
LEMMA StartAbortInv == IInv /\ StartAbort => IInv'
<1> SUFFICES ASSUME IInv, StartAbort PROVE IInv'
  OBVIOUS
<1>1. /\ hold = "Ready" /\ hold' = "Abort" /\ cnt' = 0 /\ flushed' = FALSE /\ ended' = "abort"
      /\ UNCHANGED <<side, wf, total, off, clen, accepted, outcome, rx, seen>>
  BY DEF StartAbort, message
<1>2. TypeOK'
  <2>1. Framings' = Framings
    BY <1>1 DEF Framings
  <2> QED
    BY <1>1, <2>1 DEF IInv, TypeOK, Holds
<1>3. ArrivedInv' /\ EndedInv' /\ BodylessInv' /\ LengthInv' /\ EofInv'
  BY <1>1 DEF IInv, ArrivedInv, EndedInv, BodylessInv, LengthInv, EofInv
<1>4. ChunkInv' /\ ChunkedEndInv' /\ CycleInv'
  BY <1>1 DEF IInv, ChunkInv, ChunkedEndInv, CycleInv, Between
<1> QED
  BY <1>2, <1>3, <1>4 DEF IInv

\* Writing a part of the last chunk keeps the count and the recipient together.
LEMMA PollFinishInv == IInv /\ PollFinish => IInv'
<1> SUFFICES ASSUME IInv, PollFinish PROVE IInv'
  OBVIOUS
<1> USE DEF message, log
<1>1. PICK k \in 1..Rules.finish : cnt + k <= Rules.finish /\ cnt' = cnt + k
                                   /\ rx' = RxLast(rx, cnt, k)
  BY DEF PollFinish
<1>2. /\ wf = "chunked" /\ Rules.finish = LastLen /\ hold = "Finish"
      /\ k \in 1..LastLen /\ cnt + k <= LastLen /\ cnt \in Nat /\ rx \in Decoded
  <2>1. Rules.finish \in Nat
    BY RulesFields DEF IInv
  <2> QED
    BY <1>1, <2>1, RulesFields DEF IInv, PollFinish, TypeOK
<1>3. rx.st \in {"head", "last"} /\ rx.n = cnt /\ ended = "finish"
  BY <1>1, <1>2 DEF IInv, ChunkedEndInv, Between, EndedInv
<1>4. /\ rx' \in Decoded
      /\ rx'.f = rx.f /\ rx'.got = rx.got
      /\ rx'.n = IF cnt + k < LastLen THEN cnt + k ELSE 0
      /\ rx'.st = IF cnt + k < LastLen THEN "last" ELSE "done"
  BY <1>1, <1>2, <1>3 DEF RxLast, Move, Decoded, RxStates
<1>5. UNCHANGED <<side, wf, total, hold, off, clen, flushed, accepted, ended, outcome, seen>>
  BY DEF PollFinish
<1>6. TypeOK'
  <2>1. Framings' = Framings
    BY <1>5 DEF Framings
  <2> QED
    BY <1>1, <1>2, <1>4, <1>5, <2>1 DEF IInv, TypeOK
<1>7. ArrivedInv'
  <2>1. k > 0 /\ ~flushed
    BY <1>1, <1>2 DEF IInv, TypeOK, CycleInv
  <2> QED
    BY <1>2, <1>3, <1>4, <1>5, <2>1 DEF IInv, ArrivedInv
<1>8. EndedInv' /\ BodylessInv' /\ LengthInv' /\ EofInv'
  BY <1>2, <1>3, <1>4, <1>5 DEF IInv, EndedInv, BodylessInv, LengthInv, EofInv
<1>9. ChunkInv' /\ ChunkedEndInv' /\ CycleInv'
  <2>1. cnt' \in Nat /\ cnt' > 0 /\ cnt' <= LastLen /\ ~flushed
    BY <1>1, <1>2 DEF IInv, TypeOK, CycleInv
  <2>2. /\ cnt' \in 1..(LastLen - 1) => rx'.st = "last" /\ rx'.n = cnt'
        /\ cnt' >= LastLen => rx'.st = "done"
        /\ rx'.st \in {"last", "done"}
    BY <1>1, <1>2, <1>4, <2>1
  <2> QED
    BY <1>2, <1>3, <1>5, <2>1, <2>2 DEF ChunkInv, ChunkedEndInv, CycleInv
<1> QED
  BY <1>6, <1>7, <1>8, <1>9 DEF IInv

\* The byte of an abort is no size line, so it spoils the message.
LEMMA PollAbortInv == IInv /\ PollAbort => IInv'
<1> SUFFICES ASSUME IInv, PollAbort PROVE IInv'
  OBVIOUS
<1>1. /\ hold = "Abort" /\ cnt < Rules.abort /\ cnt' = cnt + 1 /\ rx' = RxJunk(rx)
      /\ UNCHANGED <<side, wf, total, hold, off, clen, flushed, accepted, ended, outcome, seen>>
  BY DEF PollAbort, message, log
<1>2. /\ wf = "chunked" /\ cnt = 0 /\ cnt \in Nat /\ rx \in Decoded /\ ended = "abort"
      /\ ~flushed
  <2>1. cnt \in Nat /\ rx \in Decoded /\ (wf = "chunked" => Rules.abort = 1)
        /\ (wf # "chunked" => Rules.abort = 0) /\ flushed \in BOOLEAN
    BY RulesFields DEF IInv, TypeOK
  <2>2. wf = "chunked" /\ cnt = 0
    BY <1>1, <2>1
  <2> QED
    BY <1>1, <2>1, <2>2 DEF IInv, EndedInv, CycleInv
<1>3. rx.st = "head"
  BY <1>1, <1>2 DEF IInv, ChunkedEndInv, Between
<1>4. /\ rx' \in Decoded /\ rx'.f = rx.f /\ rx'.got = rx.got /\ rx'.st = "bad"
  BY <1>1, <1>2, <1>3 DEF RxJunk, Bad, Move, Decoded, RxStates
<1>5. TypeOK'
  <2>1. Framings' = Framings
    BY <1>1 DEF Framings
  <2> QED
    BY <1>1, <1>2, <1>4, <2>1 DEF IInv, TypeOK
<1>6. ArrivedInv' /\ EndedInv' /\ BodylessInv' /\ LengthInv' /\ EofInv'
  BY <1>1, <1>2, <1>3, <1>4 DEF IInv, ArrivedInv, EndedInv, BodylessInv, LengthInv, EofInv
<1>7. ChunkInv' /\ ChunkedEndInv' /\ CycleInv'
  BY <1>1, <1>2, <1>4 DEF ChunkInv, ChunkedEndInv, CycleInv
<1> QED
  BY <1>5, <1>6, <1>7 DEF IInv

\* After a flush the recipient has all that is written.
LEMMA FlushInv == IInv /\ Flush => IInv'
<1> SUFFICES ASSUME IInv, Flush PROVE IInv'
  OBVIOUS
<1>1. /\ hold \in {"Finish", "Abort"} /\ flushed' = TRUE /\ seen' = rx
      /\ hold = "Finish" => cnt >= Rules.finish
      /\ hold = "Abort" => cnt >= Rules.abort
      /\ UNCHANGED <<side, wf, total, hold, off, clen, cnt, accepted, ended, outcome, rx>>
  BY DEF Flush, message, log
<1>2. /\ accepted \in Nat /\ rx.got = accepted /\ rx.f = wf /\ outcome = "none"
  BY <1>1 DEF IInv, TypeOK, ArrivedInv, EndedInv
<1>3. TypeOK'
  <2>1. Framings' = Framings
    BY <1>1 DEF Framings
  <2> QED
    BY <1>1, <2>1 DEF IInv, TypeOK
<1>4. ArrivedInv' /\ EndedInv'
  BY <1>1, <1>2 DEF IInv, ArrivedInv, EndedInv
<1>5. BodylessInv' /\ LengthInv' /\ EofInv' /\ ChunkInv' /\ ChunkedEndInv'
  BY <1>1, <1>2 DEF IInv, BodylessInv, LengthInv, EofInv, ChunkInv, ChunkedEndInv, Between
<1>6. CycleInv'
  <2>1. Rules' = Rules
    BY <1>1 DEF Rules, BodylessRules, LengthRules, ChunkedRules, EofRules, ChunkHeader, ChunkFooter
  <2> QED
    BY <1>1, <2>1 DEF CycleInv
<1> QED
  BY <1>3, <1>4, <1>5, <1>6 DEF IInv

\* A writer that is handed back has ended its message, and flushed it.
LEMMA Returned ==
  ASSUME IInv, hold = "Finish", flushed, ~(cnt < Rules.finish)
  PROVE  /\ seen = rx /\ ended = "finish"
         /\ wf # "eof" => rx.st = "done"
         /\ wf = "cl" => accepted = total
<1>1. cnt \in Nat /\ (wf = "chunked" => ~(cnt < LastLen))
  BY RulesFields DEF IInv, TypeOK
<1>2. wf \in WriterFraming
  BY RulesFields DEF IInv
<1>3. wf = "chunked" => rx.st = "done"
  BY <1>1 DEF IInv, ChunkedEndInv
<1>4. wf = "cl" => accepted = total /\ rx.st = "done"
  BY DEF IInv, LengthInv
<1>5. wf = "none" => rx.st = "done"
  BY DEF IInv, BodylessInv
<1> QED
  BY <1>2, <1>3, <1>4, <1>5 DEF IInv, ArrivedInv, EndedInv, WriterFraming

\* Handing the writer back, or closing where it cannot be, keeps the invariant.
LEMMA IntoWriterInv == IInv /\ IntoWriter => IInv'
<1> SUFFICES ASSUME IInv, IntoWriter PROVE IInv'
  OBVIOUS
<1> USE DEF message, log, state
<1>1. CASE cnt < Rules.finish \/ ~flushed
  BY <1>1, LoseInv DEF IntoWriter, Outcomes, Refusals
<1>2. CASE ~(cnt < Rules.finish) /\ flushed /\ ~Yields
  BY <1>2, LoseInv DEF IntoWriter, Outcomes, Yields, FrontendYields, BackendYields
<1>3. CASE ~(cnt < Rules.finish) /\ flushed /\ Yields
  <2>1. /\ hold = "Finish" /\ hold' = "Writer"
        /\ UNCHANGED <<side, wf, total, off, clen, cnt, flushed, accepted, ended, outcome, rx, seen>>
    BY <1>3 DEF IntoWriter
  <2>2. /\ seen = rx /\ ended = "finish"
        /\ wf # "eof" => rx.st = "done"
        /\ wf = "cl" => accepted = total
    BY <1>3, <2>1, Returned
  <2>3. wf # "eof"
    <3>1. CASE side = "frontend"
      BY <1>3, <3>1 DEF Yields, FrontendYields
    <3>2. CASE side # "frontend"
      BY <3>2 DEF IInv, TypeOK, Framings, BackendFramings
    <3> QED
      BY <3>1, <3>2
  <2>4. TypeOK'
    <3>1. Framings' = Framings
      BY <2>1 DEF Framings
    <3> QED
      BY <2>1, <3>1 DEF IInv, TypeOK, Holds
  <2>5. ArrivedInv' /\ EndedInv' /\ BodylessInv' /\ LengthInv' /\ EofInv'
    BY <2>1, <2>2, <2>3 DEF IInv, ArrivedInv, EndedInv, BodylessInv, LengthInv, EofInv
  <2>6. ChunkInv' /\ ChunkedEndInv' /\ CycleInv'
    BY <2>1, <2>2 DEF IInv, ChunkInv, ChunkedEndInv, CycleInv
  <2> QED
    BY <2>4, <2>5, <2>6 DEF IInv
<1> QED
  BY <1>1, <1>2, <1>3

\* Discarding an aborted message keeps the invariant.
LEMMA DiscardInv == IInv /\ Discard => IInv'
<1> SUFFICES ASSUME IInv, Discard PROVE IInv'
  OBVIOUS
<1>1. hold = "Abort" /\ (flushed => cnt >= Rules.abort)
  BY DEF Discard, IInv, CycleInv
<1>2. CASE flushed
  BY <1>1, <1>2, LoseInv DEF Discard, Outcomes
<1>3. CASE ~flushed
  BY <1>1, <1>3, LoseInv DEF Discard, Outcomes, Refusals
<1> QED
  BY <1>2, <1>3

\* So does dropping whatever the caller holds.
LEMMA DropInv == IInv /\ Drop => IInv'
  BY LoseInv DEF Drop, Outcomes

\* What arrives is what was written.
LEMMA ArriveInv == IInv /\ Arrive => IInv'
<1> SUFFICES ASSUME IInv, Arrive PROVE IInv'
  OBVIOUS
<1>1. /\ hold # "gone" /\ seen' = rx
      /\ UNCHANGED <<side, wf, total, hold, off, clen, cnt, flushed, accepted, ended, outcome, rx>>
  BY DEF Arrive, message, state, log
<1>2. /\ accepted \in Nat /\ rx.got = accepted /\ rx.f = wf /\ outcome = "none"
  BY <1>1 DEF IInv, TypeOK, ArrivedInv, EndedInv
<1>3. TypeOK'
  <2>1. Framings' = Framings
    BY <1>1 DEF Framings
  <2> QED
    BY <1>1, <2>1 DEF IInv, TypeOK
<1>4. ArrivedInv' /\ EndedInv'
  BY <1>1, <1>2 DEF IInv, ArrivedInv, EndedInv
<1>5. BodylessInv' /\ LengthInv' /\ EofInv' /\ ChunkInv' /\ ChunkedEndInv'
  BY <1>1, <1>2 DEF IInv, BodylessInv, LengthInv, EofInv, ChunkInv, ChunkedEndInv, Between
<1>6. CycleInv'
  <2>1. Rules' = Rules
    BY <1>1 DEF Rules, BodylessRules, LengthRules, ChunkedRules, EofRules, ChunkHeader, ChunkFooter
  <2> QED
    BY <1>1, <2>1 DEF IInv, CycleInv
<1> QED
  BY <1>3, <1>4, <1>5, <1>6 DEF IInv

\* A step that changes nothing keeps the invariant.
LEMMA StutterInv == IInv /\ UNCHANGED vars => IInv'
<1> SUFFICES ASSUME IInv, UNCHANGED vars PROVE IInv'
  OBVIOUS
<1>1. UNCHANGED <<side, wf, total, hold, off, clen, cnt, flushed, accepted, ended, outcome, rx, seen>>
  BY DEF vars, message, state, log
<1>2. Rules' = Rules /\ Framings' = Framings
  BY <1>1 DEF Rules, BodylessRules, LengthRules, ChunkedRules, EofRules, ChunkHeader, ChunkFooter,
    Framings
<1> QED
  BY <1>1, <1>2 DEF IInv, TypeOK, ArrivedInv, EndedInv, BodylessInv, LengthInv, EofInv, ChunkInv,
    ChunkedEndInv, CycleInv, Between

\* One lemma for each action of Next.
LEMMA StepInv == IInv /\ [Next]_vars => IInv'
<1>1. IInv /\ SendHead => IInv'
  BY SendHeadInv
<1>2. IInv /\ Cycle => IInv'
  BY OpenChunkInv, PollOpenInv, IntoWriteInv, PollWriteInv, IntoCloseInv, PollCloseInv,
    IntoReadyInv DEF Cycle
<1>3. IInv /\ End => IInv'
  BY StartFinishInv, PollFinishInv, IntoWriterInv, StartAbortInv, PollAbortInv, DiscardInv,
    FlushInv, DropInv DEF End
<1>4. IInv /\ Arrive => IInv'
  BY ArriveInv
<1>5. IInv /\ (Terminated \/ UNCHANGED vars) => IInv'
  BY StutterInv DEF Terminated
<1> QED
  BY <1>1, <1>2, <1>3, <1>4, <1>5 DEF Next

\* The writer and the recipient agree in every reachable state.
THEOREM Invariance == Spec => []IInv
  BY InitInv, StepInv, PTL DEF Spec

-----------------------------------------------------------------------------
(* What the invariant gives *)

\* The caller's counters stay in range, whatever it asks for.
THEOREM TypeCorrect == Spec => []TypeOK
<1>1. IInv => TypeOK
  BY DEF IInv
<1> QED
  BY <1>1, Invariance, PTL

\* Only an abort of a chunked body puts something on the wire that cannot be decoded.
THEOREM WireStaysDecodable == Spec => []WireDecodable
<1>1. IInv => WireDecodable
  BY RulesFields DEF IInv, WireDecodable, BodylessInv, LengthInv, EofInv, ChunkedEndInv, WriterFraming
<1> QED
  BY <1>1, Invariance, PTL

\* A writer given back stands after a message its recipient has whole.
THEOREM HandedBackComplete == Spec => []HandedBackWhole
<1>1. IInv => HandedBackWhole
  BY DEF IInv, HandedBackWhole, ArrivedInv
<1> QED
  BY <1>1, Invariance, PTL

\* No truncated body is taken for a complete one.
THEOREM NoFalseEnds == Spec => []NoFalseEnd
<1>1. ASSUME IInv PROVE NoFalseEnd
  <2>1. wf \in WriterFraming
    BY <1>1, RulesFields DEF IInv
  <2>2. ASSUME seen.st = "done", wf # "eof"
        PROVE  /\ seen.got = accepted
               /\ IF wf = "chunked" THEN ended = "finish" ELSE accepted = total
    BY <1>1, <2>1, <2>2 DEF IInv, ArrivedInv, BodylessInv, LengthInv, ChunkedEndInv, WriterFraming
  <2> QED
    BY <1>1, <2>2 DEF IInv, EndedInv, NoFalseEnd
<1> QED
  BY <1>1, Invariance, PTL

\* A caller can go on from what the writer says remains.
THEOREM RemainingDue == Spec => []RemainingIsDue
<1>1. ASSUME IInv PROVE RemainingIsDue
  <2>1. cnt \in Nat /\ clen \in Nat /\ off \in Nat /\ accepted \in Nat /\ total \in Nat
    BY <1>1 DEF IInv, TypeOK
  <2>2. (hold = "Write" /\ wf = "chunked") => clen - cnt = rx.left
    BY <1>1, <2>1 DEF IInv, ChunkInv, CycleInv, Between
  <2>3. (hold = "Write" /\ wf = "cl") => total - off - cnt = rx.left
    BY <1>1, <2>1 DEF IInv, LengthInv
  <2>4. (hold = "Ready" /\ wf = "cl") => total - off = rx.left
    BY <1>1, <2>1 DEF IInv, LengthInv
  <2> QED
    BY <2>2, <2>3, <2>4 DEF RemainingIsDue, ChunkRemaining, Remaining
<1> QED
  BY <1>1, Invariance, PTL

-----------------------------------------------------------------------------
(* The writers implement Delivery. *)

\* The facts a step starts from.
LEMMA Facts ==
  ASSUME IInv
  PROVE  /\ accepted \in Nat /\ total \in Nat /\ seen.got \in 0..accepted
         /\ rx.got = accepted /\ wf \in WriterFraming
         /\ (wf # "eof" /\ seen.st \in {"done", "bad"}) => seen = rx
         /\ wf \in {"none", "cl"} =>
              /\ accepted \in 0..total /\ seen.st # "bad" /\ rx.st # "bad"
              /\ seen.st = "done" <=> seen.got = total
              /\ rx.st = "done" <=> accepted = total
         /\ wf = "chunked" => /\ rx.st = "done" => ended = "finish"
                              /\ rx.st = "bad" => ended = "abort"
         /\ wf = "eof" => rx.st = "data" /\ (hold # "gone" => seen.st = "data")
<1>1. wf \in WriterFraming /\ TypeOK
  BY RulesFields DEF IInv
<1>2. CASE wf = "none"
  BY <1>1, <1>2 DEF IInv, TypeOK, ArrivedInv, BodylessInv
<1>3. CASE wf = "cl"
  BY <1>1, <1>3 DEF IInv, TypeOK, ArrivedInv, LengthInv, Decoded
<1>4. CASE wf = "chunked"
  BY <1>1, <1>4 DEF IInv, TypeOK, ArrivedInv, ChunkedEndInv
<1>5. CASE wf = "eof"
  BY <1>1, <1>5 DEF IInv, TypeOK, ArrivedInv, EofInv
<1> QED
  BY <1>1, <1>2, <1>3, <1>4, <1>5 DEF WriterFraming

\* More of what is written reaches the recipient, or nothing does.
LEMMA ReceiveStep ==
  ASSUME IInv, hold # "gone", NEW x \in {rx, seen}, seen' = x,
         UNCHANGED <<wf, total, accepted, ended>>
  PROVE  Promise!Receive
<1>1. x.got \in seen.got..accepted /\ seen'.got = x.got
  BY Facts
<1>2. CASE x = seen
  <2>1. Verdict = "open" => Verdict \in Promise!Verdict(seen.got)
    BY Facts DEF Verdict, Promise!Verdict, Kind, WriterFraming
  <2>2. Verdict' = Verdict
    BY <1>2 DEF Verdict
  <2> QED
    BY <1>1, <1>2, <2>1, <2>2 DEF Promise!Receive
<1>3. CASE x = rx
  <2>1. CASE Verdict = "open"
    <3>1. Verdict' \in Promise!Verdict(rx.got)
      BY <1>3, Facts DEF Verdict, Promise!Verdict, Kind, WriterFraming
    <3> QED
      BY <1>1, <1>3, <2>1, <3>1 DEF Promise!Receive
  <2>2. CASE Verdict # "open"
    <3>1. seen.st \in {"done", "bad"} /\ wf # "eof"
      BY <2>2, Facts DEF Verdict
    <3>2. seen' = seen
      BY <1>3, <3>1, Facts
    <3> QED
      BY <1>1, <2>2, <3>2 DEF Promise!Receive, Verdict
  <2> QED
    BY <2>1, <2>2
<1> QED
  BY <1>2, <1>3

\* Losing the writer is the close of the connection.
LEMMA LoseStep ==
  ASSUME IInv, hold # "gone", NEW why, Lose(why)
  PROVE  Promise!Close
<1>1. /\ hold' = "gone"
      /\ UNCHANGED <<side, wf, total, off, clen, cnt, flushed, accepted, ended, rx>>
  BY DEF Lose, message, state
<1>2. PICK x \in {rx, seen} : seen' = RxClose(x)
  BY DEF Lose
<1>3. x \in Decoded /\ x.f = wf
  BY <1>2 DEF IInv, TypeOK, ArrivedInv
<1>4. Phase # "over" /\ Phase' = "over" /\ Kind' = Kind
  BY <1>1 DEF Phase, Kind
<1>5. CASE wf = "eof"
  <2>1. x.st = "data" /\ seen'.st = "done" /\ seen'.got = x.got /\ x.got \in seen.got..accepted
    BY <1>2, <1>3, <1>5, Facts, CloseFields
  <2> QED
    BY <1>1, <1>4, <1>5, <2>1 DEF Promise!Close, Kind, Verdict
<1>6. CASE wf # "eof"
  <2>1. seen' = x
    BY <1>2, <1>3, <1>6, CloseFields
  <2>2. Promise!Receive
    BY <1>1, <2>1, ReceiveStep
  <2>3. Kind # "closed"
    BY <1>6 DEF Kind
  <2> QED
    BY <1>1, <1>4, <2>2, <2>3 DEF Promise!Close
<1> QED
  BY <1>5, <1>6

\* A step that the promise does not speak of.
LEMMA QuietStep ==
  ASSUME Phase' = Phase, UNCHANGED <<wf, total, accepted, ended, seen>>
  PROVE  UNCHANGED Promise!vars
  BY DEF Promise!vars, Kind, Verdict

\* The head of a message begins it.
LEMMA BeginStep == IInv /\ SendHead => Promise!Begin
<1> SUFFICES ASSUME IInv, SendHead PROVE Promise!Begin
  OBVIOUS
<1>1. /\ hold = "Writer" /\ hold' = "Ready" /\ wf' \in Framings /\ total' \in 0..MaxBody
      /\ total' = 0 \/ wf' = "cl"
      /\ accepted' = 0 /\ ended' = "no" /\ seen' = rx'
  BY DEF SendHead
<1>2. wf' \in WriterFraming
  BY <1>1, FramingsKnown DEF Framings
<1>3. rx' = RxInit(wf', total')
  BY DEF SendHead, IInv, ArrivedInv
<1>4. /\ rx'.got = 0
      /\ rx'.st = IF wf' = "chunked" THEN "head"
                  ELSE IF wf' = "none" \/ (wf' = "cl" /\ total' = 0) THEN "done" ELSE "data"
  BY <1>1, <1>2, <1>3, InitFields
<1>5. Phase = "idle" /\ Phase' = "busy" /\ Kind' \in {"sized", "marked", "closed"}
  BY <1>1 DEF Phase, Kind
<1>6. Verdict' = IF Kind' = "sized" /\ total' = 0 THEN "complete" ELSE "open"
  <2>1. CASE wf' \in {"chunked", "eof"}
    BY <1>1, <1>4, <2>1 DEF Verdict, Kind
  <2>2. CASE wf' \in {"none", "cl"}
    BY <1>1, <1>4, <2>2 DEF Verdict, Kind
  <2> QED
    BY <1>2, <2>1, <2>2 DEF WriterFraming
<1>7. total' \in Nat
  BY <1>1
<1> QED
  BY <1>1, <1>4, <1>5, <1>6, <1>7 DEF Promise!Begin

\* Bytes are accepted only while the recipient waits for more.
LEMMA AcceptStep == IInv /\ PollWrite => Promise!Accept
<1> SUFFICES ASSUME IInv, PollWrite PROVE Promise!Accept
  OBVIOUS
<1>1. PICK b \in 1..MaxU64 :
        /\ ~WriteOverflows(b)
        /\ \E k \in 1..b : accepted' = accepted + k
  BY DEF PollWrite
<1>2. PICK k \in 1..b : accepted' = accepted + k
  BY <1>1
<1>3. /\ hold = "Write" /\ hold' = "Write" /\ ended = "no"
      /\ UNCHANGED <<wf, total, ended, seen>>
  BY DEF PollWrite, message, IInv, EndedInv
<1>4. accepted \in Nat /\ k \in Nat /\ k > 0 /\ wf \in WriterFraming
  BY Facts
<1>5. IInv'
  BY PollWriteInv
<1>6. /\ wf = "cl" => accepted + k <= total
      /\ wf = "none" => FALSE
  <2>1. wf = "cl" => accepted' <= total'
    <3>1. wf = "cl" => rx'.left = total' - accepted'
      BY <1>3, <1>5 DEF IInv, LengthInv
    <3>2. rx'.left \in Nat /\ total' \in Nat /\ accepted' \in Nat
      BY <1>5 DEF IInv, TypeOK, Decoded
    <3> QED
      BY <3>1, <3>2
  <2>2. wf = "none" => accepted' = 0
    BY <1>3, <1>5 DEF IInv, BodylessInv
  <2> QED
    BY <1>2, <1>3, <1>4, <2>1, <2>2
<1>7. Verdict = "open"
  <2>1. wf = "cl" => accepted # total
    BY <1>4, <1>6, Facts
  <2> QED
    BY <1>3, <1>4, <1>6, <2>1, Facts DEF Verdict, WriterFraming
<1>8. Phase = "busy" /\ Phase' = "busy" /\ Kind' = Kind /\ Verdict' = Verdict
  BY <1>3 DEF Phase, Kind, Verdict
<1>9. accepted' \in Nat /\ accepted' > accepted /\ (Kind = "sized" => accepted' <= total)
  BY <1>2, <1>4, <1>6 DEF Kind, WriterFraming
<1> QED
  BY <1>3, <1>7, <1>8, <1>9 DEF Promise!Accept

\* Finish is asked for only when a declared length is met.
LEMMA AskStep ==
  ASSUME IInv, hold = "Ready", hold' \in {"Finish", "Abort"},
         ended' = IF hold' = "Finish" THEN "finish" ELSE "abort",
         hold' = "Finish" => ~(Rules.limited /\ off < Rules.limit),
         UNCHANGED <<wf, total, accepted, seen>>
  PROVE  Promise!Ask
<1>1. Phase = "busy" /\ Phase' = "busy" /\ Kind' = Kind /\ Verdict' = Verdict /\ ended = "no"
  BY DEF Phase, Kind, Verdict, IInv, EndedInv
<1>2. (Kind = "sized" /\ ended' = "finish") => accepted = total
  <2>1. wf = "none" => accepted = total
    BY DEF IInv, BodylessInv
  <2>2. wf = "cl" => off = accepted /\ accepted \in 0..total /\ total \in Nat
    BY DEF IInv, TypeOK, LengthInv
  <2>3. wf = "cl" /\ hold' = "Finish" => accepted = total
    BY <2>2, RulesFields DEF IInv
  <2> QED
    BY <2>1, <2>3, Facts DEF Kind, WriterFraming
<1> QED
  BY <1>1, <1>2 DEF Promise!Ask

\* What the transport or a flush passes on reaches the recipient.
LEMMA ArriveStep ==
  ASSUME IInv, hold \notin {"gone", "Writer"}, seen' = rx,
         UNCHANGED <<hold, wf, total, accepted, ended>>
  PROVE  Promise!Arrive
<1>1. Phase = "busy" /\ Phase' = Phase /\ Kind' = Kind
  BY DEF Phase, Kind
<1> QED
  BY <1>1, ReceiveStep DEF Promise!Arrive

\* The writer is free for the next message when the recipient has all of this one.
LEMMA ReturnStep ==
  ASSUME IInv, IntoWriter, hold' = "Writer"
  PROVE  Promise!Return
<1>1. /\ hold = "Finish" /\ ~(cnt < Rules.finish) /\ flushed
      /\ UNCHANGED <<wf, total, accepted, ended, rx, seen>>
  BY DEF IntoWriter, Lose, message, state, log
<1>2. seen = rx /\ ended = "finish" /\ (wf # "eof" => rx.st = "done")
  BY <1>1, Returned
<1>3. wf' # "eof"
  BY IntoWriterInv DEF IInv, ArrivedInv
<1> QED
  BY <1>1, <1>2, <1>3, Facts DEF Promise!Return, Phase, Kind, Verdict

\* The writers keep the promise, for every length, size and interleaving.
THEOREM DeliversAsPromised == Spec => ImplementsDelivery
<1>1. Init => Promise!Init
  <2> SUFFICES ASSUME Init PROVE Promise!Init
    OBVIOUS
  <2>1. "none" \in WriterFraming /\ 0 \in Nat
    BY DEF WriterFraming
  <2>2. seen.st = "done" /\ seen.got = 0
    BY <2>1, InitFields DEF Init
  <2> QED
    BY <2>2 DEF Init, Promise!Init, Phase, Kind, Verdict
<1>2. IInv /\ [Next]_vars => [Promise!Next]_(Promise!vars)
  <2> SUFFICES ASSUME IInv, [Next]_vars PROVE [Promise!Next]_(Promise!vars)
    OBVIOUS
  <2> USE DEF Promise!Next
  <2>1. CASE SendHead
    BY <2>1, BeginStep
  <2>2. CASE Cycle
    <3>1. ASSUME NEW len \in 0..MaxU64, OpenChunk(len) PROVE [Promise!Next]_(Promise!vars)
      <4>1. CASE OpenOverflows(len)
        BY <3>1, <4>1, LoseStep DEF OpenChunk
      <4>2. CASE ~OpenOverflows(len)
        BY <3>1, <4>2, QuietStep DEF OpenChunk, Phase, message, log
      <4> QED
        BY <4>1, <4>2
    <3>2. CASE PollOpen
      BY <3>2, QuietStep DEF PollOpen, Phase, message, log
    <3>3. CASE IntoWrite
      <4>1. CASE cnt < Rules.open
        BY <3>3, <4>1, LoseStep DEF IntoWrite
      <4>2. CASE ~(cnt < Rules.open)
        BY <3>3, <4>2, QuietStep DEF IntoWrite, Phase, message, log
      <4> QED
        BY <4>1, <4>2
    <3>4. CASE PollWrite
      BY <3>4, AcceptStep
    <3>5. CASE IntoClose
      <4>1. CASE cnt < clen
        BY <3>5, <4>1, LoseStep DEF IntoClose
      <4>2. CASE ~(cnt < clen)
        BY <3>5, <4>2, QuietStep DEF IntoClose, Phase, message, log
      <4> QED
        BY <4>1, <4>2
    <3>6. CASE PollClose
      BY <3>6, QuietStep DEF PollClose, Phase, message, log
    <3>7. CASE IntoReady
      <4>1. CASE cnt < Rules.close
        BY <3>7, <4>1, LoseStep DEF IntoReady
      <4>2. CASE ~(cnt < Rules.close)
        BY <3>7, <4>2, QuietStep DEF IntoReady, Phase, message, log
      <4> QED
        BY <4>1, <4>2
    <3> QED
      BY <2>2, <3>1, <3>2, <3>3, <3>4, <3>5, <3>6, <3>7 DEF Cycle
  <2>3. CASE StartFinish
    <3>1. CASE Rules.limited /\ off < Rules.limit
      BY <2>3, <3>1, LoseStep DEF StartFinish
    <3>2. CASE ~(Rules.limited /\ off < Rules.limit)
      BY <2>3, <3>2, AskStep DEF StartFinish, message
    <3> QED
      BY <3>1, <3>2
  <2>4. CASE StartAbort
    BY <2>4, AskStep DEF StartAbort, message
  <2>5. CASE PollFinish
    BY <2>5, QuietStep DEF PollFinish, Phase, message, log
  <2>6. CASE PollAbort
    BY <2>6, QuietStep DEF PollAbort, Phase, message, log
  <2>7. CASE IntoWriter
    <3>1. CASE hold' = "Writer"
      BY <2>7, <3>1, ReturnStep
    <3>2. CASE hold' # "Writer"
      BY <2>7, <3>2, LoseStep DEF IntoWriter
    <3> QED
      BY <3>1, <3>2
  <2>8. CASE Discard
    BY <2>8, LoseStep DEF Discard
  <2>9. CASE Drop
    BY <2>9, LoseStep DEF Drop
  <2>10. CASE Flush
    BY <2>10, ArriveStep DEF Flush, message, log
  <2>11. CASE Arrive
    <3>1. hold # "Writer"
      BY <2>11 DEF Arrive, IInv, ArrivedInv
    <3> QED
      BY <2>11, <3>1, ArriveStep DEF Arrive, message, log
  <2>12. CASE Terminated \/ UNCHANGED vars
    BY <2>12, QuietStep DEF Terminated, vars, Phase, message, log
  <2> QED
    BY <2>1, <2>2, <2>3, <2>4, <2>5, <2>6, <2>7, <2>8, <2>9, <2>10, <2>11, <2>12 DEF Next, End
<1> QED
  BY <1>1, <1>2, Invariance, PTL DEF Spec, ImplementsDelivery, Promise!Spec
=============================================================================
