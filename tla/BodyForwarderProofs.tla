------------------------ MODULE BodyForwarderProofs ------------------------
EXTENDS BodyForwarder, TLAPS

USE UnitAssumption, ForwarderAssumption

\* Closing the connection changes at most what a close-delimited recipient waits
\* for: it keeps what it has got.
LEMMA RxCloseFields ==
  ASSUME NEW x \in Decoded
  PROVE  /\ RxClose(x) \in Decoded
         /\ RxClose(x).f = x.f /\ RxClose(x).n = x.n
         /\ RxClose(x).got = x.got /\ RxClose(x).left = x.left
         /\ RxClose(x).st = IF x.f = "eof" /\ x.st = "data" THEN "done" ELSE x.st
  BY DEF RxClose, Move, Decoded, RxStates

-----------------------------------------------------------------------------
(* Every step preserves IInv. *)

\* A new forwarder satisfies the invariant.
LEMMA InitInv == Init => IInv
<1> SUFFICES ASSUME Init PROVE IInv
  OBVIOUS
<1>1. /\ <<rf, wf>> \in Framings
      /\ wf \in WriterFraming
      /\ total \in 0..MaxBody /\ (rf = "none" => total = 0)
      /\ wf = "none" => rf = "none"
      /\ wf = "cl" => rf = "cl"
  BY DEF Init, Framings, WriterFraming
<1>2. rx \in Decoded
  BY <1>1 DEF Init, RxInit, Decoded, RxStates
<1>4. /\ arrived = 0 /\ taken = 0 /\ plen = 0
      /\ srcSt = "open" /\ sink = "up" /\ pc \in {"while", "finish"}
      /\ readDone = FALSE /\ errored = FALSE /\ err = "none"
      /\ phase = "Ready" /\ clen = 0 /\ cnt = 0 /\ woff = 0
  BY DEF Init
<1>3. /\ rx.f = wf /\ rx.n = 0 /\ rx.got = 0
      /\ rx.left = IF wf = "cl" THEN total ELSE 0
      /\ rx.st = IF wf = "chunked" THEN "head"
                 ELSE IF wf = "none" \/ (wf = "cl" /\ total = 0) THEN "done" ELSE "data"
  BY DEF Init, RxInit
<1> QED
  <2>1. TypeOK
    <3>1. /\ arrived \in 0..total /\ taken \in 0..arrived /\ plen \in 0..taken
          /\ clen \in Nat /\ cnt \in Nat /\ woff \in Nat
      BY <1>1, <1>4
    <3>2. /\ srcSt \in {"open", "end", "cut"} /\ readDone \in BOOLEAN
          /\ errored \in BOOLEAN /\ sink \in {"up"} \cup SinkFaults
      BY <1>4
    <3>3. err \in Errors /\ phase \in Phases /\ pc \in Pcs
      BY <1>4 DEF Phases, Pcs, Errors, Misuse
    <3> QED
      BY <1>1, <1>2, <3>1, <3>2, <3>3 DEF TypeOK
  <2>2. SourceInv
    BY <1>1, <1>4 DEF SourceInv
  <2>3. RecipientInv
    BY <1>1, <1>3, <1>4 DEF RecipientInv, WireWellFormed, NothingLost
  <2>4. PhaseInv
    BY <1>1, <1>3, <1>4 DEF PhaseInv, ReadyInv, OpenInv, WriteInv, CloseInv
  <2>5. TerminalInv /\ NoMisuse
    BY <1>1, <1>3, <1>4 DEF TerminalInv, NoMisuse, Misuse
  <2> QED
    BY <2>1, <2>2, <2>3, <2>4, <2>5 DEF IInv

\* More of the body arriving disturbs only the source's part.
LEMMA SrcArriveInv == IInv /\ SrcArrive => IInv'
  BY DEF SrcArrive,
    IInv, TypeOK, SourceInv, RecipientInv, PhaseInv, TerminalInv, NoMisuse,
    Framings, Phases, Pcs, Misuse, Errors, WireWellFormed, NothingLost,
    ReadyInv, OpenInv, WriteInv, CloseInv, cfg, src, reader, writer

\* The source ends only when the whole body has arrived.
LEMMA SrcEndInv == IInv /\ SrcEnd => IInv'
  BY DEF SrcEnd,
    IInv, TypeOK, SourceInv, RecipientInv, PhaseInv, TerminalInv, NoMisuse,
    Framings, Phases, Pcs, Misuse, Errors, WireWellFormed, NothingLost,
    ReadyInv, OpenInv, WriteInv, CloseInv, cfg, src, reader, writer

\* A source that breaks off touches nothing the forwarder relies on.
LEMMA SrcCutInv == IInv /\ SrcCut => IInv'
  BY DEF SrcCut, SourceComplete,
    IInv, TypeOK, SourceInv, RecipientInv, PhaseInv, TerminalInv, NoMisuse,
    Framings, Phases, Pcs, Misuse, Errors, WireWellFormed, NothingLost,
    ReadyInv, OpenInv, WriteInv, CloseInv, cfg, src, reader, writer

\* A transport that breaks touches nothing the invariant speaks of.
LEMMA SinkFailsInv == IInv /\ SinkFails => IInv'
  BY DEF SinkFails,
    IInv, TypeOK, SourceInv, RecipientInv, PhaseInv, TerminalInv, NoMisuse,
    Framings, Phases, Pcs, Misuse, Errors, WireWellFormed, NothingLost,
    ReadyInv, OpenInv, WriteInv, CloseInv, cfg, src, reader, writer

\* A refill moves bytes from the source into `pending', which was empty.
LEMMA ReadSomeInv == IInv /\ ReadSome => IInv'
<1> SUFFICES ASSUME IInv, ReadSome PROVE IInv'
  OBVIOUS
<1> USE DEF IInv, ReadSome, Refills, CanForward, cfg, src, writer
<1>1. TypeOK'
  BY DEF TypeOK
<1>2. SourceInv' /\ RecipientInv'
  BY DEF TypeOK, SourceInv, RecipientInv, WireWellFormed, NothingLost, Decoded
<1>3. PhaseInv'
  BY DEF TypeOK, PhaseInv, ReadyInv, OpenInv, WriteInv, CloseInv
<1>4. TerminalInv' /\ NoMisuse'
  BY DEF TerminalInv, NoMisuse
<1> QED
  BY <1>1, <1>2, <1>3, <1>4

\* The reader is exhausted only when the whole body was taken.
LEMMA ReadNoneInv == IInv /\ ReadNone => IInv'
  BY DEF ReadNone, Refills, CanForward, SourceComplete,
    IInv, TypeOK, SourceInv, RecipientInv, PhaseInv, TerminalInv, NoMisuse,
    Framings, Phases, Pcs, Misuse, Errors, WireWellFormed, NothingLost,
    ReadyInv, OpenInv, WriteInv, CloseInv, cfg, src, reader, writer

\* Noting that the body is finished leaves the writer at Ready.
LEMMA BodyFinishedInv == IInv /\ BodyFinished => IInv'
  BY DEF BodyFinished, BodyForwarded, Steps, CanForward,
    IInv, TypeOK, SourceInv, RecipientInv, PhaseInv, TerminalInv, NoMisuse,
    Framings, Phases, Pcs, Misuse, Errors, WireWellFormed, NothingLost,
    ReadyInv, OpenInv, WriteInv, CloseInv, cfg, src, reader, writer

\* finish() takes the forwarder over as forward_while left it.
LEMMA StartFinishInv == IInv /\ StartFinish => IInv'
  BY DEF StartFinish,
    IInv, TypeOK, SourceInv, RecipientInv, PhaseInv, TerminalInv, NoMisuse,
    Framings, Phases, Pcs, Misuse, Errors, WireWellFormed, NothingLost,
    ReadyInv, OpenInv, WriteInv, CloseInv, cfg, src, reader, writer

\* The steps that put units on the wire use what the recipient makes of them.

\* Writing a part of a size line keeps the count and the recipient together.
LEMMA StepOpenInv == IInv /\ StepOpen => IInv'
<1> SUFFICES ASSUME IInv, StepOpen PROVE IInv'
  OBVIOUS
<1> USE DEF IInv, cfg, src, reader
<1>1. CASE wf # "chunked"
  BY <1>1 DEF StepOpen, Steps, CanForward, TypeOK, SourceInv, RecipientInv, PhaseInv, TerminalInv, NoMisuse,
    Framings, Phases, Pcs, Misuse, Errors, WireWellFormed, NothingLost,
    ReadyInv, OpenInv, WriteInv, CloseInv
<1>2. CASE wf = "chunked"
  <2>1. PICK k \in 1..HeadLen :
          /\ cnt + k <= HeadLen
          /\ rx' = RxHead(rx, clen, cnt, k)
          /\ IF Progress(cnt, k) < HeadLen
             THEN phase' = "Open" /\ cnt' = Progress(cnt, k)
             ELSE phase' = "Write" /\ cnt' = 0
    BY <1>2 DEF StepOpen
  <2>2. /\ rx \in Decoded /\ clen \in Nat /\ cnt \in Nat /\ k \in Nat \ {0}
        /\ rx.st = "head" /\ rx.n = cnt /\ (cnt > 0 => rx.left = clen)
        /\ clen > 0
    BY <1>2 DEF StepOpen, Steps, CanForward, TypeOK, PhaseInv, OpenInv
  <2>3. /\ rx' \in Decoded
        /\ rx'.f = rx.f /\ rx'.got = rx.got /\ rx'.left = clen
        /\ rx'.n = IF cnt + k < HeadLen THEN cnt + k ELSE 0
        /\ rx'.st = IF cnt + k < HeadLen THEN "head" ELSE "data"
    <3>1. LET y == RxHead(rx, clen, cnt, k) IN
          /\ y \in Decoded
          /\ y.f = rx.f /\ y.got = rx.got /\ y.left = clen
          /\ y.n = IF cnt + k < HeadLen THEN cnt + k ELSE 0
          /\ y.st = IF cnt + k < HeadLen THEN "head"
                    ELSE IF clen = 0 THEN "last" ELSE "data"
      BY <2>2 DEF RxHead, Move, Decoded, RxStates
    <3>2. rx' = RxHead(rx, clen, cnt, k) /\ clen # 0
      BY <2>1, <2>2
    <3> QED
      BY <3>1, <3>2
  <2> QED
    BY <1>2, <2>1, <2>2, <2>3 DEF StepOpen, Steps, CanForward, Progress, TypeOK, SourceInv,
      RecipientInv, PhaseInv, TerminalInv, NoMisuse, Framings, Phases, Pcs, WireWellFormed,
      NothingLost, ReadyInv, OpenInv, WriteInv, CloseInv
<1> QED BY <1>1, <1>2

\* Writing a part of a footer keeps the count and the recipient together.
LEMMA StepCloseInv == IInv /\ StepClose => IInv'
<1> SUFFICES ASSUME IInv, StepClose PROVE IInv'
  OBVIOUS
<1> USE DEF IInv, cfg, src, reader
<1>1. CASE wf # "chunked"
  BY <1>1 DEF StepClose, Steps, CanForward, TypeOK, SourceInv, RecipientInv, PhaseInv,
      TerminalInv, NoMisuse, Framings, Phases, Pcs, Misuse, Errors, WireWellFormed, NothingLost,
      ReadyInv, OpenInv, WriteInv, CloseInv
<1>2. CASE wf = "chunked"
  <2>1. PICK k \in 1..FootLen :
          /\ cnt + k <= FootLen
          /\ rx' = RxFoot(rx, cnt, k)
          /\ cnt' = Progress(cnt, k)
          /\ phase' = IF Progress(cnt, k) < FootLen THEN "Close" ELSE "Ready"
    BY <1>2 DEF StepClose
  <2>2. /\ rx \in Decoded /\ cnt \in Nat /\ k \in Nat \ {0}
        /\ rx.st = "foot" /\ rx.n = cnt
    BY <1>2 DEF StepClose, Steps, CanForward, TypeOK, PhaseInv, CloseInv
  <2>3. /\ rx' \in Decoded
        /\ rx'.f = rx.f /\ rx'.got = rx.got /\ rx'.left = rx.left
        /\ rx'.n = IF cnt + k < FootLen THEN cnt + k ELSE 0
        /\ rx'.st = IF cnt + k < FootLen THEN "foot" ELSE "head"
    BY <2>1, <2>2 DEF RxFoot, Move, Decoded, RxStates
  <2> QED
    BY <1>2, <2>1, <2>2, <2>3 DEF StepClose, Steps, CanForward, Progress,
      TypeOK, SourceInv, RecipientInv, PhaseInv,
      TerminalInv, NoMisuse, Framings, Phases, Pcs, Misuse, Errors, WireWellFormed, NothingLost,
      ReadyInv, OpenInv, WriteInv, CloseInv
<1> QED BY <1>1, <1>2

\* A chunk is opened for exactly what is pending, and it fits in the length.
LEMMA StepReadyInv == IInv /\ StepReady => IInv'
<1> SUFFICES ASSUME IInv, StepReady PROVE IInv'
  OBVIOUS
<1> USE DEF IInv, cfg, src, reader
<1>1. plen > 0 /\ ~(wf = "none" \/ (wf = "cl" /\ woff + plen > total))
  BY DEF StepReady, Steps, CanForward, TypeOK, SourceInv, RecipientInv, PhaseInv,
      TerminalInv, NoMisuse, Framings, Phases, Pcs, Misuse, Errors, WireWellFormed, NothingLost,
      ReadyInv, OpenInv, WriteInv, CloseInv, Decoded
<1> QED
  BY <1>1 DEF StepReady, Steps, CanForward, TypeOK, SourceInv, RecipientInv, PhaseInv,
      TerminalInv, NoMisuse, Framings, Phases, Pcs, Misuse, Errors, WireWellFormed, NothingLost,
      ReadyInv, OpenInv, WriteInv, CloseInv

\* A partial write moves bytes from `pending' to the recipient; the last one completes the chunk.
LEMMA StepWriteInv == IInv /\ StepWrite => IInv'
<1> SUFFICES ASSUME IInv, StepWrite PROVE IInv'
  OBVIOUS
<1> USE DEF IInv, cfg, src, reader
<1>1. /\ plen \in Nat \ {0} /\ clen = cnt + plen /\ cnt \in Nat
      /\ ~WriteOverflows /\ wf # "none"
      /\ rx \in Decoded /\ rx.f = wf /\ rx.st = "data" /\ rx.got = taken - plen
      /\ rx.f = "eof" \/ plen <= rx.left
  BY DEF StepWrite, Steps, CanForward, WriteOverflows, TypeOK, SourceInv, RecipientInv, PhaseInv,
      TerminalInv, NoMisuse, Framings, Phases, Pcs, Misuse, Errors, WireWellFormed, NothingLost,
      ReadyInv, OpenInv, WriteInv, CloseInv, Decoded
<1>2. PICK k \in 1..plen : WriteSome(k)
  BY <1>1 DEF StepWrite
<1> DEFINE x == RxData(rx, taken - plen, k)
<1>3. /\ x \in Decoded
      /\ x.f = rx.f /\ x.n = rx.n /\ x.got = rx.got + k
      /\ x.left = IF wf = "eof" THEN rx.left ELSE rx.left - k
      /\ x.st = IF wf = "eof" \/ k < rx.left THEN "data"
                ELSE IF wf = "cl" THEN "done" ELSE "foot"
  BY <1>1 DEF RxData, Move, Decoded, RxStates
<1>4. /\ rx' = x /\ plen' = plen - k
      /\ IF k < plen
         THEN cnt' = cnt + k /\ phase' = phase /\ woff' = woff
         ELSE cnt' = 0 /\ phase' = "Close" /\ woff' = IF wf = "cl" THEN woff + clen ELSE woff
      /\ UNCHANGED <<errored, err, pc, cfg, src, reader, clen, sink>>
  BY <1>1, <1>2 DEF StepWrite, WriteSome, Advance
<1> HIDE DEF x
<1>5. /\ pc \in {"while", "finish"} /\ ~errored /\ phase = "Write"
  BY DEF StepWrite, Steps, CanForward
<1>6. TypeOK'
  BY <1>1, <1>3, <1>4, <1>5 DEF TypeOK, Phases
<1>7. SourceInv' /\ TerminalInv' /\ NoMisuse'
  BY <1>1, <1>4, <1>5 DEF SourceInv, TerminalInv, NoMisuse
<1>8. RecipientInv'
  <2>1. /\ rx'.f = wf' /\ rx'.got + plen' = taken' /\ rx'.st # "bad"
    BY <1>1, <1>3, <1>4 DEF TypeOK
  <2>2. wf = "cl" => /\ rx'.left = total - rx'.got
                     /\ rx'.st = IF rx'.got = total THEN "done" ELSE "data"
    BY <1>1, <1>3, <1>4 DEF TypeOK, RecipientInv, Decoded
  <2>3. /\ wf = "eof" => rx'.st = "data"
        /\ wf = "chunked" => rx'.st # "done"
    BY <1>1, <1>3, <1>4
  <2> QED
    BY <1>1, <1>4, <2>1, <2>2, <2>3 DEF RecipientInv, WireWellFormed, NothingLost
<1>9. PhaseInv'
  <2>1. /\ plen' \in Nat /\ k \in Nat \ {0} /\ k <= plen
        /\ wf = "cl" => woff + cnt = rx.got
        /\ wf = "chunked" => rx.left = plen /\ rx.n = 0
        /\ woff \in Nat /\ rx.got \in Nat /\ rx.left \in Nat /\ FootLen \in Nat \ {0}
    BY <1>1, <1>4, <1>5 DEF TypeOK, PhaseInv, WriteInv, Decoded
  <2>2. CASE k < plen
    <3>1. phase' = "Write" /\ cnt' = cnt + k /\ woff' = woff /\ plen' = plen - k
      BY <2>2, <1>4, <1>5
    <3>2. WriteInv'
      BY <2>1, <2>2, <3>1, <1>1, <1>3, <1>4 DEF WriteInv
    <3> QED
      BY <3>1, <3>2, <1>4, <1>5 DEF PhaseInv, ReadyInv, OpenInv, CloseInv
  <2>3. CASE k = plen
    <3>1. phase' = "Close" /\ cnt' = 0 /\ plen' = 0
          /\ woff' = IF wf = "cl" THEN woff + clen ELSE woff
      BY <2>1, <2>3, <1>1, <1>4
    <3>2. wf = "chunked" => rx'.st = "foot" /\ rx'.n = 0
      BY <2>1, <2>3, <1>1, <1>3, <1>4
    <3>3. wf = "cl" => woff' = rx'.got
      BY <2>1, <2>3, <3>1, <1>1, <1>3, <1>4
    <3>4. CloseInv'
      BY <2>1, <3>1, <3>2, <3>3, <1>4 DEF CloseInv
    <3> QED
      BY <3>1, <3>4, <1>4, <1>5 DEF PhaseInv, ReadyInv, OpenInv, WriteInv
  <2>4. k < plen \/ k = plen
    BY <2>1, <1>1
  <2> QED
    BY <2>2, <2>3, <2>4
<1> QED
  BY <1>6, <1>7, <1>8, <1>9

\* The steps that only fail, close or end.

\* What a failing call leaves behind: the recipient as the call left it, or closed.
LEMMA FailFields ==
  ASSUME rx \in Decoded, NEW e, Fail(e, rx)
  PROVE  /\ err' = e /\ errored' = TRUE
         /\ pc' = IF pc = "while" THEN "while" ELSE "failed"
         /\ rx' \in Decoded
         /\ rx'.f = rx.f /\ rx'.n = rx.n /\ rx'.got = rx.got /\ rx'.left = rx.left
         /\ rx'.st = IF pc # "while" /\ rx.f = "eof" /\ rx.st = "data"
                     THEN "done" ELSE rx.st
  BY RxCloseFields DEF Fail

\* A failure of the reader leaves the writer's phase, one of the writer poisons it.
LEMMA PoisonInv ==
  ASSUME IInv, NEW e \in Errors \ Misuse, Fail(e, rx),
         pc \in {"while", "finish", "closing"},
         phase' \in {phase, "Poisoned"},
         UNCHANGED <<cfg, src, reader, clen, cnt, woff, plen, sink>>
  PROVE  IInv'
<1> USE DEF IInv, cfg, src, reader
<1>1. rx \in Decoded
  BY DEF TypeOK
<1>2. /\ err' = e /\ errored' = TRUE
      /\ pc' = IF pc = "while" THEN "while" ELSE "failed"
      /\ rx' \in Decoded
      /\ rx'.f = rx.f /\ rx'.n = rx.n /\ rx'.got = rx.got /\ rx'.left = rx.left
      /\ rx'.st = IF pc # "while" /\ rx.f = "eof" /\ rx.st = "data"
                  THEN "done" ELSE rx.st
  BY <1>1, FailFields
<1>3. TypeOK'
  BY <1>2 DEF TypeOK, Phases, Pcs
<1>4. SourceInv' /\ NoMisuse'
  BY <1>2 DEF SourceInv, NoMisuse
<1>5. RecipientInv'
  BY <1>2 DEF RecipientInv, WireWellFormed, NothingLost
<1>6. PhaseInv' /\ TerminalInv'
  BY <1>2 DEF PhaseInv, TerminalInv, ReadyInv, OpenInv, WriteInv, CloseInv
<1> QED
  BY <1>3, <1>4, <1>5, <1>6

\* An error of the reader keeps the invariant.
LEMMA ReadErrorInv == IInv /\ ReadError => IInv'
  BY PoisonInv DEF ReadError, Refills, CanForward, Errors, Misuse, writer

\* An error of the transport in a phase of the writer keeps the invariant.
LEMMA StepFailsInv == IInv /\ StepFails => IInv'
<1> SUFFICES ASSUME IInv, StepFails PROVE IInv'
  OBVIOUS
<1>1. PICK e \in {"WriteError", "WriteZero"} : Fail(e, rx)
  BY DEF StepFails
<1> QED
  BY <1>1, PoisonInv DEF StepFails, Writes, Steps, CanForward, Errors, Misuse

\* An error of the transport in the last chunk or the flush keeps the invariant.
LEMMA FinishFailsInv == IInv /\ FinishFails => IInv'
<1> SUFFICES ASSUME IInv, FinishFails PROVE IInv'
  OBVIOUS
<1>1. PICK e \in {"WriteError", "WriteZero"} : Fail(e, rx)
  BY DEF FinishFails
<1> QED
  BY <1>1, PoisonInv DEF FinishFails, Errors, Misuse, writer

\* The connection closes under a forwarder that is dropped.
LEMMA CloseConnectionInv ==
  ASSUME IInv, pc' = "failed", rx' = RxClose(rx), err' \in Errors \ Misuse,
         UNCHANGED <<cfg, src, reader, writer, plen, errored, sink>>
  PROVE  IInv'
<1> USE DEF IInv, cfg, src, reader, writer
<1>1. rx \in Decoded
  BY DEF TypeOK
<1>2. /\ rx' \in Decoded
      /\ rx'.f = rx.f /\ rx'.n = rx.n /\ rx'.got = rx.got /\ rx'.left = rx.left
      /\ rx'.st = IF rx.f = "eof" /\ rx.st = "data" THEN "done" ELSE rx.st
  BY <1>1, RxCloseFields
<1>3. TypeOK'
  BY <1>2 DEF TypeOK, Pcs
<1>4. SourceInv' /\ NoMisuse' /\ PhaseInv' /\ TerminalInv'
  BY <1>2 DEF SourceInv, NoMisuse, PhaseInv, TerminalInv
<1>5. RecipientInv'
  BY <1>2 DEF RecipientInv, WireWellFormed, NothingLost
<1> QED
  BY <1>3, <1>4, <1>5

\* finish() of a latched forwarder keeps the invariant.
LEMMA FinishAfterErrorInv == IInv /\ FinishAfterError => IInv'
  BY CloseConnectionInv DEF FinishAfterError, IInv, TypeOK, NoMisuse

\* Giving the forwarder up keeps the invariant.
LEMMA DropForwarderInv == IInv /\ DropForwarder => IInv'
  BY CloseConnectionInv DEF DropForwarder, IInv, TypeOK, NoMisuse, Errors, Misuse

\* The terminator is begun at Ready with the whole body delivered.
LEMMA StartTerminalInv == IInv /\ StartTerminal => IInv'
<1> SUFFICES ASSUME IInv, StartTerminal PROVE IInv'
  OBVIOUS
<1> USE DEF IInv, cfg, src, reader
<1>1. /\ pc = "finish" /\ phase = "Ready" /\ plen = 0 /\ readDone /\ ~errored
      /\ ~(wf = "cl" /\ woff < total)
  BY DEF StartTerminal, BodyForwarded, Steps, CanForward, TypeOK, SourceInv, RecipientInv, PhaseInv,
      TerminalInv, NoMisuse, Framings, Phases, Pcs, Misuse, Errors, WireWellFormed, NothingLost,
      ReadyInv, OpenInv, WriteInv, CloseInv, Decoded
<1> QED
  BY <1>1 DEF StartTerminal, TypeOK, SourceInv, RecipientInv, PhaseInv,
      TerminalInv, NoMisuse, Framings, Phases, Pcs, Misuse, Errors, WireWellFormed, NothingLost,
      ReadyInv, OpenInv, WriteInv, CloseInv

\* Writing a part of the last chunk keeps the count and the recipient together.
LEMMA PollFinishInv == IInv /\ PollFinish => IInv'
<1> SUFFICES ASSUME IInv, PollFinish PROVE IInv'
  OBVIOUS
<1> USE DEF IInv, cfg, src, reader
<1>1. wf = "chunked" /\ TerminalLen = LastLen /\ pc = "closing"
  BY DEF PollFinish, TerminalLen, TypeOK
<1>2. PICK k \in 1..LastLen :
        cnt + k <= LastLen /\ rx' = RxLast(rx, cnt, k) /\ cnt' = cnt + k
  BY <1>1 DEF PollFinish
<1>3. /\ rx \in Decoded /\ cnt \in Nat /\ k \in Nat \ {0} /\ cnt < LastLen
      /\ rx.st \in {"head", "last"} /\ rx.n = cnt
  BY <1>1, <1>2 DEF TypeOK, TerminalInv
<1>4. /\ rx' \in Decoded
      /\ rx'.f = rx.f /\ rx'.got = rx.got /\ rx'.left = rx.left
      /\ rx'.n = IF cnt + k < LastLen THEN cnt + k ELSE 0
      /\ rx'.st = IF cnt + k < LastLen THEN "last" ELSE "done"
  BY <1>2, <1>3 DEF RxLast, Move, Decoded, RxStates
<1> QED
  BY <1>1, <1>2, <1>3, <1>4 DEF PollFinish, TypeOK, SourceInv, RecipientInv, PhaseInv,
      TerminalInv, NoMisuse, Framings, Phases, Pcs, Misuse, Errors, WireWellFormed, NothingLost,
      ReadyInv, OpenInv, WriteInv, CloseInv

\* After the flush the recipient has the whole message.
LEMMA FinishedInv == IInv /\ Finished => IInv'
<1> SUFFICES ASSUME IInv, Finished PROVE IInv'
  OBVIOUS
<1> USE DEF IInv, cfg, src, reader, writer
<1>1. rx \in Decoded
  BY DEF TypeOK
<1>2. /\ rx' \in Decoded
      /\ rx'.f = rx.f /\ rx'.n = rx.n /\ rx'.got = rx.got /\ rx'.left = rx.left
      /\ rx'.st = IF rx.f = "eof" /\ rx.st = "data" THEN "done" ELSE rx.st
  BY <1>1, RxCloseFields DEF Finished
<1>3. readDone /\ plen = 0
  BY DEF Finished, TerminalInv
<1>4. rx'.st = "done"
  <2>1. CASE wf = "chunked"
    BY <2>1, <1>2 DEF Finished, TerminalLen, TerminalInv, RecipientInv, TypeOK
  <2>2. CASE wf = "cl"
    BY <2>2, <1>2, <1>3 DEF RecipientInv, TypeOK, SourceInv, NothingLost, Decoded
  <2>3. CASE wf \in {"eof", "none"}
    BY <2>3, <1>2 DEF RecipientInv
  <2> QED
    BY <2>1, <2>2, <2>3 DEF TypeOK, Framings
<1> QED
  BY <1>2, <1>3, <1>4 DEF Finished, TypeOK, SourceInv, RecipientInv, PhaseInv,
      TerminalInv, NoMisuse, Framings, Phases, Pcs, Misuse, Errors, WireWellFormed, NothingLost,
      ReadyInv, OpenInv, WriteInv, CloseInv

\* A step that changes nothing keeps the invariant.
LEMMA StutterInv == IInv /\ UNCHANGED vars => IInv'
  BY DEF vars, cfg, src, reader, writer, IInv, TypeOK, SourceInv, RecipientInv, PhaseInv,
      TerminalInv, NoMisuse, Framings, Phases, Pcs, Misuse, Errors, WireWellFormed, NothingLost,
      ReadyInv, OpenInv, WriteInv, CloseInv

\* Every step keeps the invariant.
LEMMA NextInv == IInv /\ [Next]_vars => IInv'
<1> SUFFICES ASSUME IInv, [Next]_vars PROVE IInv'
  OBVIOUS
<1>1. CASE SrcArrive  BY <1>1, SrcArriveInv
<1>2. CASE SrcEnd  BY <1>2, SrcEndInv
<1>3. CASE SrcCut  BY <1>3, SrcCutInv
<1>4. CASE SinkFails  BY <1>4, SinkFailsInv
<1>5. CASE ReadSome  BY <1>5, ReadSomeInv
<1>6. CASE ReadNone  BY <1>6, ReadNoneInv
<1>7. CASE ReadError  BY <1>7, ReadErrorInv
<1>8. CASE StepReady  BY <1>8, StepReadyInv
<1>9. CASE StepOpen  BY <1>9, StepOpenInv
<1>10. CASE StepWrite  BY <1>10, StepWriteInv
<1>11. CASE StepClose  BY <1>11, StepCloseInv
<1>12. CASE StepFails  BY <1>12, StepFailsInv
<1>13. CASE StepWriteZero  BY <1>13, StutterInv DEF StepWriteZero
<1>14. CASE BodyFinished  BY <1>14, BodyFinishedInv
<1>15. CASE StartFinish  BY <1>15, StartFinishInv
<1>16. CASE FinishAfterError  BY <1>16, FinishAfterErrorInv
<1>17. CASE StartTerminal  BY <1>17, StartTerminalInv
<1>18. CASE PollFinish  BY <1>18, PollFinishInv
<1>19. CASE Finished  BY <1>19, FinishedInv
<1>20. CASE FinishFails  BY <1>20, FinishFailsInv
<1>21. CASE DropForwarder  BY <1>21, DropForwarderInv
<1>22. CASE Terminated \/ UNCHANGED vars  BY <1>22, StutterInv DEF Terminated
<1> QED
  BY <1>1, <1>2, <1>3, <1>4, <1>5, <1>6, <1>7, <1>8, <1>9, <1>10, <1>11, <1>12, <1>13,
     <1>14, <1>15, <1>16, <1>17, <1>18, <1>19, <1>20, <1>21, <1>22
     DEF Next, Source, Driver, Forward

\* The correspondence between the writer's typestate, the bytes pending and what the
\* recipient has decoded is inductive, for any length of body, chunk and framing line.
THEOREM Invariance == Spec => []IInv
<1>1. Init => IInv
  BY InitInv
<1>2. IInv /\ [Next]_vars => IInv'
  BY NextInv
<1> QED
  BY <1>1, <1>2, PTL DEF Spec

-----------------------------------------------------------------------------
(* What the invariant gives. *)

\* Every variable of a forwarder keeps its type.
THEOREM TypeCorrect == Spec => []TypeOK
<1>1. IInv => TypeOK
  BY DEF IInv
<1> QED
  BY <1>1, Invariance, PTL

\* step_once and poll_finish put on the wire only what a recipient can decode: no
\* partial write, cancelled poll or failure tears or repeats a framing line.
THEOREM FramingIntact == Spec => []WireWellFormed
<1>1. IInv => WireWellFormed
  BY DEF IInv, RecipientInv
<1> QED
  BY <1>1, Invariance, PTL

\* A byte that read() handed out is either with the recipient or in `pending'.
THEOREM NoByteLost == Spec => []NothingLost
<1>1. IInv => NothingLost
  BY DEF IInv, RecipientInv
<1> QED
  BY <1>1, Invariance, PTL

\* No error, cut or drop makes a truncated body look complete to a recipient that
\* can tell.
THEOREM NoFalseEnd == Spec => []EndOnlyAfterEnd
<1>1. IInv => EndOnlyAfterEnd
  <2> SUFFICES ASSUME IInv, rx.st = "done", wf # "eof"
               PROVE  rx.got = total /\ (rf = "te" \/ rf = "eof" => srcSt = "end")
    BY DEF EndOnlyAfterEnd
  <2>1. CASE wf = "chunked"
    BY <2>1 DEF IInv, RecipientInv, SourceInv, NothingLost, TypeOK, Decoded
  <2>2. CASE wf = "cl"
    BY <2>2 DEF IInv, RecipientInv, TypeOK, Framings
  <2>3. CASE wf = "none"
    BY <2>3 DEF IInv, RecipientInv, SourceInv, NothingLost, TypeOK, Framings, Decoded
  <2> QED
    BY <2>1, <2>2, <2>3 DEF IInv, TypeOK, Framings
<1> QED
  BY <1>1, Invariance, PTL

\* finish() answers Ok only once the recipient has the whole message.
THEOREM OkIsDelivered == Spec => []OkMeansDelivered
<1>1. IInv => OkMeansDelivered
  BY DEF IInv, OkMeansDelivered, TerminalInv, SourceInv, RecipientInv, NothingLost,
     TypeOK, Decoded
<1> QED
  BY <1>1, Invariance, PTL

\* The errors that guard the writer's typestate are unreachable from the forwarder.
THEOREM NeverMisused == Spec => []NoMisuse
<1>1. IInv => NoMisuse
  BY DEF IInv
<1> QED
  BY <1>1, Invariance, PTL

\* After an error nothing more reaches the wire but the close of the connection.
THEOREM Latched == Spec => LatchedAfterError
<1>1. IInv /\ [Next]_vars => [errored => rx' \in {rx, RxClose(rx)}]_vars
  <2> SUFFICES ASSUME IInv, Next, errored PROVE rx' \in {rx, RxClose(rx)}
    OBVIOUS
  <2>1. ~CanForward /\ pc \in {"while", "finish", "failed"}
    BY DEF IInv, TerminalInv, CanForward
  <2>2. ~Forward /\ ~BodyFinished /\ ~StartTerminal
    BY <2>1 DEF Forward, ReadSome, ReadNone, ReadError, StepReady, StepOpen, StepWrite,
       StepClose, StepFails, StepWriteZero, Writes, Refills, Steps, BodyFinished,
       BodyForwarded, StartTerminal
  <2>3. ~PollFinish /\ ~Finished /\ ~FinishFails
    BY <2>1 DEF PollFinish, Finished, FinishFails
  <2> QED
    BY <2>2, <2>3 DEF Next, Source, Driver, SrcArrive, SrcEnd, SrcCut, SinkFails,
       StartFinish, FinishAfterError, DropForwarder, Terminated, vars
<1> QED
  BY <1>1, Invariance, PTL DEF Spec, LatchedAfterError

-----------------------------------------------------------------------------
(* The forwarder implements BodyCopy. *)

\* A new forwarder is a new copy.
LEMMA CopyInit == Init => Copy!Init
<1> SUFFICES ASSUME Init PROVE Copy!Init
  OBVIOUS
<1>1. /\ total \in 0..MaxBody /\ (rf = "none" => total = 0)
      /\ wf = "none" => rf = "none"
      /\ wf = "cl" => rf = "cl"
      /\ arrived = 0 /\ srcSt = "open" /\ pc \in {"while", "finish"}
  BY DEF Init, Framings
<1>2. /\ rx.got = 0
      /\ rx.st = IF wf = "chunked" THEN "head"
                 ELSE IF wf = "none" \/ (wf = "cl" /\ total = 0) THEN "done" ELSE "data"
  BY DEF Init, RxInit
<1> QED
  BY <1>1, <1>2 DEF Copy!Init, SourceComplete

\* What the source does is Produce.
LEMMA CopyProduce ==
  IInv /\ (SrcArrive \/ SrcEnd \/ SrcCut) => Copy!Produce \/ UNCHANGED Copy!vars
<1> SUFFICES ASSUME IInv, SrcArrive \/ SrcEnd \/ SrcCut
             PROVE  Copy!Produce \/ UNCHANGED Copy!vars
  OBVIOUS
<1> USE DEF IInv, TypeOK, SourceInv, SourceComplete, cfg, src, reader, writer
<1>1. CASE SrcArrive
  BY <1>1 DEF SrcArrive, Copy!Produce
<1>2. CASE SrcEnd
  BY <1>2 DEF SrcEnd, Copy!Produce, Copy!vars
<1>3. CASE SrcCut
  BY <1>3 DEF SrcCut, Copy!vars
<1> QED
  BY <1>1, <1>2, <1>3

\* A step of the forwarder that neither ends nor shows a byte is no step of the copy.
LEMMA CopyStutter ==
  ASSUME UNCHANGED <<cfg, src>>, rx'.got = rx.got,
         rx'.st = rx.st \/ (rx.st # "done" /\ rx'.st # "done"),
         pc' = pc \/ (pc \notin {"done", "failed"} /\ pc' \notin {"done", "failed"})
  PROVE  UNCHANGED Copy!vars
  BY DEF Copy!vars, cfg, src, SourceComplete

\* A failure or a drop is Report, or Receive when the close of the connection is what
\* completes an EOF body.
LEMMA CopyFailed ==
  ASSUME IInv, pc \notin {"done", "failed"}, pc' = "failed", rx' = RxClose(rx),
         UNCHANGED <<cfg, src>>
  PROVE  Copy!Next
<1> USE DEF cfg, src, SourceComplete
<1>1. rx \in Decoded /\ rx.got <= arrived /\ rx.got \in Nat /\ arrived \in Nat /\ rx.f = wf
  BY DEF IInv, TypeOK, RecipientInv, NothingLost, Decoded
<1>2. /\ rx'.got = rx.got
      /\ rx'.st = IF wf = "eof" /\ rx.st = "data" THEN "done" ELSE rx.st
  BY <1>1, RxCloseFields
<1>3. CASE wf = "eof" /\ rx.st = "data"
  BY <1>1, <1>2, <1>3 DEF Copy!Next, Copy!Receive
<1>4. CASE ~(wf = "eof" /\ rx.st = "data")
  BY <1>1, <1>2, <1>4 DEF Copy!Next, Copy!Report
<1> QED
  BY <1>3, <1>4

\* An error of forward_while is not reported yet; one of finish() is.
LEMMA CopyFail ==
  ASSUME IInv, pc \in {"while", "finish", "closing"}, NEW e, Fail(e, rx),
         UNCHANGED <<cfg, src>>
  PROVE  Copy!Next \/ UNCHANGED Copy!vars
<1>1. CASE pc = "while"
  BY <1>1, CopyStutter DEF Fail
<1>2. CASE pc # "while"
  BY <1>2, CopyFailed DEF Fail
<1> QED
  BY <1>1, <1>2

\* A write of body bytes delivers them, or fails.
LEMMA CopyWrite == IInv /\ IInv' /\ StepWrite => Copy!Next \/ UNCHANGED Copy!vars
<1> SUFFICES ASSUME IInv, IInv', StepWrite PROVE Copy!Receive
  BY DEF Copy!Next
<1> USE DEF cfg, src, reader, SourceComplete
<1>1. /\ pc \in {"while", "finish"} /\ phase = "Write" /\ ~WriteOverflows
      /\ rx.st # "done"
      /\ plen \in Nat /\ taken \in Nat /\ arrived \in Nat /\ taken <= arrived
      /\ rx.got \in Nat /\ rx.got + plen = taken
  BY DEF StepWrite, Steps, CanForward, WriteOverflows, IInv, TypeOK, SourceInv, RecipientInv,
     PhaseInv, WriteInv, Decoded, NothingLost, Framings
<1>2. PICK k \in 1..plen : WriteSome(k)
  BY <1>1 DEF StepWrite
<1>3. plen' = plen - k /\ (pc' = pc \/ pc' = "failed")
  BY <1>2 DEF WriteSome, Advance, Fail
<1>4. UNCHANGED <<cfg, src, reader>>
  BY DEF StepWrite
<1>5. rx'.got \in Nat /\ rx'.got = rx.got + k /\ rx'.got <= arrived
  BY <1>1, <1>3, <1>4 DEF IInv, RecipientInv, NothingLost, TypeOK, Decoded
<1>6. (rx'.st = "done" /\ wf # "eof") => SourceComplete' /\ rx'.got = total
  <2> SUFFICES ASSUME rx'.st = "done", wf # "eof" PROVE SourceComplete' /\ rx'.got = total
    OBVIOUS
  <2>1. CASE wf = "chunked"
    BY <2>1, <1>1, <1>4, <1>5 DEF IInv, RecipientInv, SourceInv, NothingLost, TypeOK, Framings
  <2>2. CASE wf = "cl"
    BY <2>2, <1>1, <1>4, <1>5 DEF IInv, RecipientInv, TypeOK, Framings
  <2>3. wf # "none"
    BY <1>1 DEF IInv, RecipientInv
  <2> QED
    BY <2>1, <2>2, <2>3 DEF IInv, TypeOK, Framings
<1> QED
  BY <1>1, <1>3, <1>4, <1>5, <1>6 DEF Copy!Receive, Copy!Whole

\* The last byte of the last chunk completes the message.
LEMMA CopyPollFinish == IInv /\ IInv' /\ PollFinish => Copy!Next \/ UNCHANGED Copy!vars
<1> SUFFICES ASSUME IInv, IInv', PollFinish PROVE Copy!Receive
  BY DEF Copy!Next
<1> USE DEF cfg, src, reader, SourceComplete
<1>1. /\ wf = "chunked" /\ pc = "closing" /\ pc' = pc /\ readDone
      /\ rx.st # "done" /\ rf \in {"te", "eof"} /\ srcSt = "end"
      /\ plen = 0 /\ taken = total /\ arrived = total /\ total \in Nat
      /\ UNCHANGED <<cfg, src, reader, plen>>
  BY DEF PollFinish, TerminalLen, IInv, TypeOK, SourceInv, TerminalInv, Framings
<1>2. /\ rx.got = total /\ rx'.got = total
  BY <1>1 DEF IInv, RecipientInv, NothingLost, TypeOK, Decoded
<1> QED
  BY <1>1, <1>2 DEF Copy!Receive, Copy!Whole

\* finish() answers Ok for a message that is complete.
LEMMA CopyFinished == IInv /\ IInv' /\ Finished => Copy!Next \/ UNCHANGED Copy!vars
<1> SUFFICES ASSUME IInv, IInv', Finished PROVE Copy!Report
  BY DEF Copy!Next
<1> USE DEF cfg, src, reader, SourceComplete
<1>1. /\ pc = "closing" /\ pc' = "done" /\ readDone /\ plen = 0 /\ taken = total
      /\ arrived = total /\ total \in Nat /\ rx'.st = "done"
      /\ UNCHANGED <<cfg, src, reader, plen>>
      /\ rf = "none" \/ rf = "cl" \/ srcSt = "end"
  BY DEF Finished, IInv, TypeOK, SourceInv, TerminalInv, Framings
<1>2. /\ rx.got = total /\ rx'.got = total
  BY <1>1 DEF IInv, RecipientInv, NothingLost, TypeOK, Decoded
<1> QED
  BY <1>1, <1>2 DEF Copy!Report, Copy!Whole

\* Opening and closing a chunk shows the recipient no byte.
LEMMA CopyFraming ==
  IInv /\ IInv' /\ (StepOpen \/ StepClose) => Copy!Next \/ UNCHANGED Copy!vars
<1> SUFFICES ASSUME IInv, IInv', StepOpen \/ StepClose PROVE UNCHANGED Copy!vars
  OBVIOUS
<1>1. UNCHANGED <<cfg, src, reader, plen, pc>> /\ pc \in {"while", "finish"}
  BY DEF StepOpen, StepClose, Steps, CanForward
<1>2. rx'.got = rx.got
  BY <1>1 DEF IInv, RecipientInv, NothingLost, TypeOK, Decoded, reader
<1>3. rx'.st = rx.st \/ (rx.st # "done" /\ rx'.st # "done")
  <2>1. CASE wf # "chunked"
    BY <2>1 DEF StepOpen, StepClose
  <2>2. CASE StepOpen /\ wf = "chunked"
    BY <2>2, <1>1 DEF StepOpen, Steps, IInv, RecipientInv, PhaseInv, OpenInv, cfg, TypeOK
  <2>3. CASE StepClose /\ wf = "chunked"
    <3>1. PICK k \in 1..FootLen : rx' = RxFoot(rx, cnt, k)
      BY <2>3 DEF StepClose
    <3>2. rx.st = "foot" /\ rx.n = cnt
      BY <2>3, <1>1 DEF StepClose, IInv, PhaseInv, CloseInv
    <3> QED
      BY <3>1, <3>2 DEF RxFoot, Move
  <2> QED
    BY <2>1, <2>2, <2>3
<1> QED
  BY <1>1, <1>2, <1>3, CopyStutter

\* Every step of the forwarder is a step of BodyCopy or leaves it unchanged.
LEMMA CopyNext == IInv /\ IInv' /\ [Next]_vars => [Copy!Next]_(Copy!vars)
<1> SUFFICES ASSUME IInv, IInv', [Next]_vars PROVE Copy!Next \/ UNCHANGED Copy!vars
  OBVIOUS
<1>1. CASE SrcArrive \/ SrcEnd \/ SrcCut
  BY <1>1, CopyProduce DEF Copy!Next
<1>2. CASE SinkFails \/ ReadSome \/ ReadNone
  BY <1>2, CopyStutter DEF SinkFails, ReadSome, ReadNone
<1>3. CASE ReadError
  BY <1>3, CopyFail DEF ReadError, Refills, CanForward
<1>4. CASE StepReady
  <2>1. PICK e \in {"BodyOverflow", "none"} :
          /\ UNCHANGED <<cfg, src>>
          /\ Fail("BodyOverflow", rx) \/ UNCHANGED <<rx, pc>>
    BY <1>4 DEF StepReady
  <2>2. pc \in {"while", "finish", "closing"}
    BY <1>4 DEF StepReady, Steps, CanForward
  <2> QED
    BY <2>1, <2>2, CopyFail, CopyStutter
<1>5. CASE StepOpen \/ StepClose
  BY <1>5, CopyFraming
<1>6. CASE StepWrite
  BY <1>6, CopyWrite
<1>7. CASE StepFails
  BY <1>7, CopyFail DEF StepFails, Writes, Steps, CanForward
<1>8. CASE BodyFinished \/ StartFinish
  BY <1>8, CopyStutter DEF BodyFinished, BodyForwarded, Steps, CanForward, StartFinish
<1>9. CASE FinishAfterError \/ DropForwarder
  BY <1>9, CopyFailed DEF FinishAfterError, DropForwarder
<1>10. CASE StartTerminal
  <2>1. pc = "finish" /\ UNCHANGED <<cfg, src>>
    BY <1>10 DEF StartTerminal
  <2>2. CASE Fail("IncompleteBody", rx)
    BY <2>1, <2>2, CopyFail
  <2>3. CASE pc' = "closing" /\ UNCHANGED rx
    BY <2>1, <2>3, CopyStutter
  <2> QED
    BY <1>10, <2>2, <2>3 DEF StartTerminal
<1>11. CASE PollFinish
  BY <1>11, CopyPollFinish
<1>12. CASE Finished
  BY <1>12, CopyFinished
<1>13. CASE FinishFails
  BY <1>13, CopyFail DEF FinishFails
<1>14. CASE StepWriteZero \/ Terminated \/ UNCHANGED vars
  BY <1>14, CopyStutter DEF StepWriteZero, Terminated, vars
<1> QED
  BY <1>1, <1>2, <1>3, <1>4, <1>5, <1>6, <1>7, <1>8, <1>9, <1>10, <1>11, <1>12, <1>13, <1>14
     DEF Next, Source, Driver, Forward

\* Every execution of the forwarder is an execution of the copy it promises.
THEOREM Refinement == Spec => ImplementsBodyCopy
<1>1. Init => Copy!Init
  BY CopyInit
<1>2. IInv /\ IInv' /\ [Next]_vars => [Copy!Next]_(Copy!vars)
  BY CopyNext
<1> QED
  BY <1>1, <1>2, Invariance, PTL DEF Spec, ImplementsBodyCopy, Copy!Spec
=============================================================================
