---------------------------- MODULE BodyForwarder ----------------------------
(***************************************************************************)
(* RequestBodyForwarder and ResponseBodyForwarder (proxy/src/body): the    *)
(* poll-driven machine that copies one message body from a body reader to  *)
(* a body writer.  The two Rust types have the same fields and the same    *)
(* steps; they differ in the framings they meet, and only the request      *)
(* forwarder is ever driven by forward_while.                              *)
(*                                                                         *)
(* One action is one call of poll_write, of the body reader, or of a       *)
(* method of the writer's typestate.  A poll that answers Pending changes  *)
(* nothing, so cancelling forward() between two polls, which is what the   *)
(* select! of forward_while does, is simply another interleaving.          *)
(***************************************************************************)
EXTENDS Recipient

CONSTANTS
  MaxBody,     \* longest body
  ChunkSize,   \* ProxyOptions::body_chunk_size
  SinkFaults   \* how the transport may go wrong: subset of {"broken", "zero"}

ASSUME ForwarderAssumption ==
  /\ MaxBody \in Nat
  /\ ChunkSize \in Nat \ {0}
  /\ SinkFaults \subseteq {"broken", "zero"}

VARIABLES
  rf, wf,      \* framing of the body reader and of the body writer
  total,       \* length of the body the source means to send
  arrived,     \* bytes of it that have reached the reader's buffer
  srcSt,       \* "open", "end" (its terminator has arrived) or "cut"
  taken,       \* bytes read() has handed out
  plen,        \* Bytes::len of `pending', the last plen of the bytes taken
  readDone, errored, err,
  phase, clen, cnt, woff,  \* the writer's typestate, see below
  pc,          \* who drives the forwarder, see below
  rx,          \* what the recipient has decoded
  sink         \* the transport under the writer: "up" or a member of SinkFaults

src == <<arrived, srcSt>>
reader == <<taken, readDone>>
writer == <<phase, clen, cnt, woff>>
cfg == <<rf, wf, total>>
vars == <<cfg, src, reader, writer, plen, errored, err, pc, rx, sink>>

\* The framings lib.rs puts together, for a request and for a response.
Framings == {<<"cl", "cl">>, <<"te", "chunked">>, <<"te", "eof">>,
             <<"eof", "chunked">>, <<"eof", "eof">>, <<"none", "none">>}

Phases == {"Ready", "Open", "Write", "Close", "Poisoned"}

\* "while": inside forward_while; "whileDone": there, with body_finished set;
\* "finish": in the loop of finish(); "closing": driving the writer's Finish.
Pcs == {"while", "whileDone", "finish", "closing", "done", "failed"}

\* The errors of the writer's typestate.  Into_ready's own, CopyIncomplete, is not among
\* them: forward() answers true in the phase Ready alone, see BodyForwarded.
Misuse == {"BodyOverflow", "IncompleteBody"}
Errors == Misuse \cup {"none", "ReadError", "WriteError", "WriteZero", "Dropped"}

TypeOK ==
  /\ <<rf, wf>> \in Framings
  /\ total \in 0..MaxBody
  /\ arrived \in 0..total
  /\ taken \in 0..arrived
  /\ plen \in 0..taken
  /\ srcSt \in {"open", "end", "cut"}
  /\ readDone \in BOOLEAN
  /\ errored \in BOOLEAN
  /\ err \in Errors
  /\ phase \in Phases
  /\ clen \in Nat /\ cnt \in Nat /\ woff \in Nat
  /\ pc \in Pcs
  /\ rx \in Decoded
  /\ sink \in {"up"} \cup SinkFaults

Init ==
  /\ \E f \in Framings : rf = f[1] /\ wf = f[2]
  /\ total \in (IF rf = "none" THEN {0} ELSE 0..MaxBody)
  /\ arrived = 0 /\ taken = 0 /\ plen = 0
  /\ srcSt = "open" /\ sink = "up"
  /\ readDone = FALSE /\ errored = FALSE /\ err = "none"
  /\ phase = "Ready" /\ clen = 0 /\ cnt = 0 /\ woff = 0
  /\ pc \in {"while", "finish"}
  /\ rx = RxInit(wf, total)

-----------------------------------------------------------------------------
(* The source and the transport. *)

\* Nothing more of the body is due: a length is exhausted, or the end of a
\* body that is not delimited by a length has been seen.
SourceComplete == \/ rf = "none"
                  \/ rf = "cl" /\ arrived = total
                  \/ srcSt = "end"

SrcArrive ==
  /\ srcSt = "open"
  /\ \E n \in 1..(total - arrived) : arrived' = arrived + n
  /\ UNCHANGED <<cfg, srcSt, reader, writer, plen, errored, err, pc, rx, sink>>

\* The last chunk of a chunked body, or the close that ends an EOF body.
SrcEnd ==
  /\ srcSt = "open" /\ rf \in {"te", "eof"} /\ arrived = total
  /\ srcSt' = "end"
  /\ UNCHANGED <<cfg, arrived, reader, writer, plen, errored, err, pc, rx, sink>>

\* The connection dies, or the framing is malformed, before the body is complete.
SrcCut ==
  /\ srcSt = "open" /\ ~SourceComplete
  /\ srcSt' = "cut"
  /\ UNCHANGED <<cfg, arrived, reader, writer, plen, errored, err, pc, rx, sink>>

SinkFails ==
  /\ sink = "up" /\ sink' \in SinkFaults
  /\ UNCHANGED <<cfg, src, reader, writer, plen, errored, err, pc, rx>>

-----------------------------------------------------------------------------
(* forward() *)

\* finish() owns the forwarder, so an error there drops it; forward_while only
\* borrows it and leaves it latched.  Dropping the writer closes the connection.
\* x is what the recipient has decoded by then.
Fail(e, x) ==
  /\ err' = e
  /\ errored' = TRUE
  /\ IF pc = "while"
     THEN pc' = pc /\ rx' = x
     ELSE pc' = "failed" /\ rx' = RxClose(x)

CanForwardAfterError == pc \in {"while", "finish"}
CanForward == pc \in {"while", "finish"} /\ ~errored

\* forward_inner refills before it looks at the writer's phase.
RefillsEagerly == CanForward /\ ~readDone
Refills == CanForward /\ plen = 0 /\ ~readDone
Steps == CanForward /\ ~(plen = 0 /\ ~readDone)

\* read() takes at most ChunkSize bytes off the reader's buffer; ReadSomePeeks,
\* a wrong version, leaves them there.
ReadSomePeeks ==
  /\ Refills
  /\ \E n \in 1..ChunkSize : n <= arrived - taken /\ plen' = n
  /\ UNCHANGED <<cfg, src, reader, writer, errored, err, pc, rx, sink>>
ReadSome ==
  /\ Refills
  /\ \E n \in 1..ChunkSize :
       /\ n <= arrived - taken
       /\ taken' = taken + n
       /\ plen' = n
  /\ UNCHANGED <<cfg, src, readDone, writer, errored, err, pc, rx, sink>>

ReadNoneForgotten ==
  /\ Refills
  /\ SourceComplete /\ taken = arrived
  /\ UNCHANGED vars
ReadNone ==
  /\ Refills
  /\ SourceComplete /\ taken = arrived
  /\ readDone' = TRUE
  /\ UNCHANGED <<cfg, src, taken, writer, plen, errored, err, pc, rx, sink>>

\* The reader fails only when it needs input it does not hold: the source is
\* cut, or the I/O reports an error that may even be transient.
ReadErrorAsEnd ==
  /\ Refills
  /\ ~SourceComplete /\ taken = arrived
  /\ readDone' = TRUE
  /\ UNCHANGED <<cfg, src, taken, writer, plen, errored, err, pc, rx, sink>>
ReadError ==
  /\ Refills
  /\ ~SourceComplete /\ taken = arrived
  /\ Fail("ReadError", rx)
  /\ UNCHANGED <<cfg, src, reader, writer, plen, sink>>

\* Ready::open for a write of plen bytes.
StepReady ==
  /\ Steps /\ phase = "Ready" /\ plen > 0
  /\ IF \/ wf = "none"
        \/ wf = "cl" /\ woff + plen > total
     THEN /\ phase' = "Poisoned"
          /\ Fail("BodyOverflow", rx)
          /\ UNCHANGED <<clen, cnt>>
     ELSE /\ phase' = "Open" /\ clen' = plen /\ cnt' = 0
          /\ UNCHANGED <<errored, err, pc, rx>>
  /\ UNCHANGED <<cfg, src, reader, woff, plen, sink>>

\* The count of framing bytes already written, which survives a Pending.
ProgressLost(n, k) == k
Progress(n, k) == n + k

\* Open::poll_open and into_write.  Only a chunk has a header to write.
StepOpen ==
  /\ Steps /\ phase = "Open"
  /\ IF wf # "chunked"
     THEN phase' = "Write" /\ cnt' = 0 /\ UNCHANGED rx
     ELSE /\ sink = "up"
          /\ \E k \in 1..HeadLen :
               /\ cnt + k <= HeadLen
               /\ rx' = RxHead(rx, clen, cnt, k)
               /\ IF Progress(cnt, k) < HeadLen
                  THEN phase' = "Open" /\ cnt' = Progress(cnt, k)
                  ELSE phase' = "Write" /\ cnt' = 0
  /\ UNCHANGED <<cfg, src, reader, clen, woff, plen, errored, err, pc, sink>>

\* pending.advance(k)
AdvanceForgotten(n, k) == IF k < n THEN n ELSE 0
Advance(n, k) == n - k

\* poll_write_bounded refuses a buffer that would not fit in the chunk.
WriteOverflows == cnt + plen > clen

\* Write::poll_write of k bytes and pending.advance(k); when pending is empty
\* into_close, which refuses a chunk that is not complete.
WriteSome(k) ==
  LET x == RxData(rx, taken - plen, k) IN
  /\ plen' = Advance(plen, k)
  /\ IF plen' > 0
     THEN /\ cnt' = cnt + k
          /\ rx' = x
          /\ UNCHANGED <<phase, woff, errored, err, pc>>
     ELSE IF cnt + k < clen
     THEN /\ phase' = "Poisoned"
          /\ Fail("IncompleteBody", x)
          /\ UNCHANGED <<cnt, woff>>
     ELSE /\ phase' = "Close" /\ cnt' = 0
          /\ woff' = IF wf = "cl" THEN woff + clen ELSE woff
          /\ rx' = x
          /\ UNCHANGED <<errored, err, pc>>

StepWrite ==
  /\ Steps /\ phase = "Write"
  /\ IF WriteOverflows
     THEN /\ phase' = "Poisoned"
          /\ Fail("BodyOverflow", rx)
          /\ UNCHANGED <<cnt, woff, plen>>
     ELSE /\ sink = "up"
          /\ \E k \in 1..plen : WriteSome(k)
  /\ UNCHANGED <<cfg, src, reader, clen, sink>>

\* Close::poll_close and into_ready.
StepClose ==
  /\ Steps /\ phase = "Close"
  /\ IF wf # "chunked"
     THEN phase' = "Ready" /\ UNCHANGED <<cnt, rx>>
     ELSE /\ sink = "up"
          /\ \E k \in 1..FootLen :
               /\ cnt + k <= FootLen
               /\ rx' = RxFoot(rx, cnt, k)
               /\ cnt' = Progress(cnt, k)
               /\ phase' = IF Progress(cnt, k) < FootLen THEN "Close" ELSE "Ready"
  /\ UNCHANGED <<cfg, src, reader, clen, woff, plen, errored, err, pc, sink>>

\* The phases of step_once that call poll_write on the transport.
Writes == Steps /\ \/ phase \in {"Open", "Close"} /\ wf = "chunked"
                   \/ phase = "Write" /\ ~WriteOverflows

\* The transport answers an error, or Ok(0) where Ok(0) is an error.
StepFails ==
  /\ Writes
  /\ \/ sink = "broken" /\ Fail("WriteError", rx)
     \/ sink = "zero" /\ phase # "Write" /\ Fail("WriteZero", rx)
  /\ phase' = "Poisoned"
  /\ UNCHANGED <<cfg, src, reader, clen, cnt, woff, plen, sink>>

\* In the Write phase Ok(0) is StepOutcome::Working: the machine goes round.
StepWriteZero ==
  /\ Writes /\ phase = "Write" /\ sink = "zero"
  /\ UNCHANGED vars

\* NeedInput with the reader exhausted: forward() answers true.
BodyForwarded == Steps /\ phase = "Ready" /\ plen = 0

Forward == \/ ReadSome \/ ReadNone \/ ReadError
           \/ StepReady \/ StepOpen \/ StepWrite \/ StepClose
           \/ StepFails \/ StepWriteZero

-----------------------------------------------------------------------------
(* forward_while and finish *)

BodyFinished ==
  /\ pc = "while" /\ BodyForwarded
  /\ pc' = "whileDone"
  /\ UNCHANGED <<cfg, src, reader, writer, plen, errored, err, rx, sink>>

\* The other future of the select! wins and the caller goes on to finish().
StartFinish ==
  /\ pc \in {"while", "whileDone"}
  /\ pc' = "finish"
  /\ UNCHANGED <<cfg, src, reader, writer, plen, errored, err, rx, sink>>

\* finish() of a latched forwarder: forward() answers ForwardAfterError.
FinishAfterError ==
  /\ pc = "finish" /\ errored
  /\ pc' = "failed" /\ rx' = RxClose(rx)
  /\ UNCHANGED <<cfg, src, reader, writer, plen, errored, err, sink>>

\* The loop of finish() ends: into_ready, drain, then Ready::finish.
StartTerminal ==
  /\ pc = "finish" /\ BodyForwarded
  /\ IF wf = "cl" /\ woff < total
     THEN Fail("IncompleteBody", rx) /\ UNCHANGED cnt
     ELSE pc' = "closing" /\ cnt' = 0 /\ UNCHANGED <<errored, err, rx>>
  /\ UNCHANGED <<cfg, src, reader, phase, clen, woff, plen, sink>>

TerminalLenForgotten == 0
TerminalLen == IF wf = "chunked" THEN LastLen ELSE 0

\* Finish::poll_finish: the last chunk ...
PollFinish ==
  /\ pc = "closing" /\ cnt < TerminalLen /\ sink = "up"
  /\ \E k \in 1..TerminalLen :
       /\ cnt + k <= TerminalLen
       /\ rx' = RxLast(rx, cnt, k)
       /\ cnt' = cnt + k
  /\ UNCHANGED <<cfg, src, reader, phase, clen, woff, plen, errored, err, pc, sink>>

\* ... then the flush; the EOF writer is dropped by discard().
Finished ==
  /\ pc = "closing" /\ cnt = TerminalLen /\ sink # "broken"
  /\ pc' = "done"
  /\ rx' = RxClose(rx)
  /\ UNCHANGED <<cfg, src, reader, writer, plen, errored, err, sink>>

FinishFails ==
  /\ pc = "closing"
  /\ \/ sink = "broken" /\ Fail("WriteError", rx)
     \/ sink = "zero" /\ cnt < TerminalLen /\ Fail("WriteZero", rx)
  /\ UNCHANGED <<cfg, src, reader, writer, plen, sink>>

\* The owner of the forwarder gives it up, as it does after an error of forward_while.
DropForwarder ==
  /\ pc \notin {"done", "failed"}
  /\ pc' = "failed" /\ rx' = RxClose(rx)
  /\ err' = IF err = "none" THEN "Dropped" ELSE err
  /\ UNCHANGED <<cfg, src, reader, writer, plen, errored, sink>>

Terminated == pc \in {"done", "failed"} /\ UNCHANGED vars

Source == SrcArrive \/ SrcEnd \/ SrcCut
Driver == \/ Forward \/ BodyFinished \/ StartFinish \/ FinishAfterError
          \/ StartTerminal \/ PollFinish \/ Finished \/ FinishFails

Next == Source \/ SinkFails \/ Driver \/ DropForwarder \/ Terminated

Spec == Init /\ [][Next]_vars

\* The executor polls a woken task again, the source goes on or fails, and the
\* response head that forward_while waits for arrives.
FairSpec == Spec /\ WF_vars(Source) /\ WF_vars(Driver)

-----------------------------------------------------------------------------
(* Properties *)

\* Whatever the sizes of the reads and of the partial writes, wherever a poll
\* is cancelled and whenever an error strikes, the units on the wire are what a
\* recipient can decode: no framing byte is lost or written twice, no chunk is
\* longer or shorter than it says.
WireWellFormed == rx.st # "bad"

\* A byte read() has handed out has been delivered or waits in `pending': no
\* cancellation, refill or partial write loses or repeats one.
NothingLost == rx.got + plen = taken

\* A recipient that can tell the end of the body sees it only when the source
\* really ended and every byte came through: a truncated or failed source is
\* never turned into a complete message (chunked.rs: "cannot mistake a
\* truncated body for a complete one").
EndOnlyAfterEnd ==
  (rx.st = "done" /\ wf # "eof")
     => /\ rx.got = total
        /\ rf = "te" \/ rf = "eof" => srcSt = "end"

\* finish() answers Ok, and so hands the connections back for reuse, only when
\* the recipient has the whole message, its terminator included.
OkMeansDelivered ==
  pc = "done" => /\ rx.st = "done" /\ rx.got = total
                 /\ rf \in {"te", "eof"} => srcSt = "end"

\* The forwarder never provokes the errors that guard the writer's typestate.
NoMisuse == err \notin Misuse

\* After an error, forward() and finish() put nothing more on the wire ("would
\* risk writing partial chunk framing onto a possibly-poisoned connection").
LatchedAfterError == [][errored => rx' \in {rx, RxClose(rx)}]_vars

\* "Another call to step_once would make further progress" (proxy/src/body.rs,
\* of StepOutcome::Working): a forwarder that answers Working does not go round
\* for ever without writing anything.
Spinning == Writes /\ phase = "Write" /\ sink = "zero"
WorkingMakesProgress == Spinning ~> ~Spinning

\* If the peers go on or fail, so does the copy: it never hangs half-way, unless the
\* transport accepts nothing and does not fail.
Settles == <>(pc \in {"done", "failed"} \/ sink = "zero")

-----------------------------------------------------------------------------
(* The inductive invariant: how the writer's typestate, the pending bytes  *)
(* and the recipient's decoder correspond.                                  *)

SourceInv ==
  /\ rf = "none" => total = 0
  /\ srcSt = "end" => arrived = total /\ rf \in {"te", "eof"}
  /\ readDone => taken = total /\ (rf \in {"te", "eof"} => srcSt = "end")

RecipientInv ==
  /\ rx.f = wf
  /\ WireWellFormed
  /\ NothingLost
  /\ wf = "cl" => /\ rx.left = total - rx.got
                  /\ rx.st = IF rx.got = total THEN "done" ELSE "data"
  /\ wf = "eof" => /\ rx.st \in {"data", "done"}
                   /\ pc \notin {"done", "failed"} => rx.st = "data"
  /\ wf = "none" => rx.st = "done"
  /\ (wf = "chunked" /\ rx.st = "done") => readDone /\ plen = 0

ReadyInv ==
  phase = "Ready" => /\ wf = "chunked" => rx.st = "head" /\ rx.n = 0
                     /\ wf = "cl" => woff = rx.got

OpenInv ==
  phase = "Open" => /\ plen > 0 /\ clen = plen
                    /\ wf = "chunked" => /\ rx.st = "head" /\ rx.n = cnt
                                         /\ cnt < HeadLen
                                         /\ cnt > 0 => rx.left = clen
                    /\ wf = "cl" => woff = rx.got

WriteInv ==
  phase = "Write" => /\ plen > 0 /\ clen = cnt + plen
                     /\ wf = "chunked" => /\ rx.st = "data" /\ rx.n = 0
                                         /\ rx.left = plen
                     /\ wf = "cl" => woff + cnt = rx.got

CloseInv ==
  phase = "Close" => /\ wf = "chunked" => /\ rx.st = "foot" /\ rx.n = cnt
                                          /\ cnt < FootLen
                     /\ wf = "cl" => woff = rx.got

PhaseInv ==
  pc \in {"while", "whileDone", "finish"} =>
    /\ ReadyInv /\ OpenInv /\ WriteInv /\ CloseInv
    /\ phase = "Poisoned" => errored

TerminalInv ==
  /\ pc \in {"whileDone", "closing", "done"} => readDone /\ plen = 0
  /\ pc \in {"whileDone", "closing"} => phase = "Ready"
  /\ (pc = "closing" /\ wf = "chunked") =>
       /\ cnt <= LastLen
       /\ cnt = 0 => rx.st = "head"
       /\ cnt \in 1..(LastLen - 1) => rx.st = "last"
       /\ cnt = LastLen => rx.st = "done"
       /\ cnt < LastLen => rx.n = cnt
  /\ pc = "done" => rx.st = "done"
  /\ errored => pc \in {"while", "finish", "failed"}

IInv == TypeOK /\ SourceInv /\ RecipientInv /\ PhaseInv /\ TerminalInv /\ NoMisuse

\* The forwarder keeps the promise of BodyCopy, every poll of it being a step
\* of the promise or no step at all.
Copy == INSTANCE BodyCopy WITH
  delimited <- (wf # "eof"),
  ended <- SourceComplete,
  received <- rx.got,
  complete <- (rx.st = "done"),
  report <- IF pc = "done" THEN "done" ELSE IF pc = "failed" THEN "failed" ELSE "busy"

ImplementsBodyCopy == Copy!Spec
=============================================================================
