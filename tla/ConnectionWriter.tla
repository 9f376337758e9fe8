--------------------------- MODULE ConnectionWriter ---------------------------
(***************************************************************************)
(* The public writing side of one connection: FrontendWriter and           *)
(* BackendWriter (frontend/src/writer, backend/src/writer) over the body   *)
(* writers of body/src/writer, driven by a caller that may call any        *)
(* method of the type it holds at any time, too early included, stop       *)
(* after any poll, and drop what it holds.  The proxy's own forwarders are *)
(* one such caller (BodyForwarder); an application that answers a request  *)
(* itself is another.                                                      *)
(*                                                                         *)
(* A poll that answers Pending, an error, or Ok(0) leaves the writer as it *)
(* was and the caller holds it still, so it is no step.  The async methods *)
(* (open, write_all, close, finish, abort) are the same polls in a loop    *)
(* followed by the into_* call; dropping their future is a Drop where they *)
(* take the writer by value, and no step for write_all, which borrows it.  *)
(***************************************************************************)
EXTENDS Recipient

CONSTANTS
  MaxBody,  \* the longest body the caller declares or writes
  MaxU64    \* u64::MAX

ASSUME WriterAssumption == MaxBody \in Nat /\ MaxU64 \in Nat /\ MaxBody <= MaxU64

VARIABLES
  side,          \* "frontend" or "backend"
  hold,          \* which of the types below the caller holds
  wf, total,     \* framing of the message, and the length it declares
  off,           \* Ready::offset: bytes of the finished cycles of a "cl" body
  clen, cnt,     \* chunk_length, and what of this state's bytes is written
  flushed,
  accepted,      \* bytes of the body that poll_write has answered for
  ended,         \* the caller has called neither ("no"), finish or abort
  outcome,       \* how it lost the writer
  rx, seen       \* decoded from all that is written, and from what has arrived

message == <<side, wf, total>>
state == <<off, clen, cnt, flushed>>
log == <<accepted, ended, outcome>>
vars == <<message, hold, state, log, rx, seen>>

\* "Writer" is FrontendWriter or BackendWriter.
Holds == {"Writer", "Ready", "Open", "Write", "Close", "Finish", "Abort", "gone"}

Refusals == {"BodyOverflow", "IncompleteBody", "IncompleteChunkHeader",
             "IncompleteChunkFooter", "IncompleteFinish", "UnflushedFinish", "UnflushedAbort"}
Outcomes == {"none", "finished", "aborted", "dropped"} \cup Refusals

\* What send_as_* can give.  Only a response may end with the connection.
FrontendFramings == {"none", "cl", "chunked", "eof"}
BackendFramings == {"none", "cl", "chunked"}
Framings == IF side = "frontend" THEN FrontendFramings ELSE BackendFramings

\* Whether Finish::into_writer has a writer to give back.
FrontendYields == wf # "eof"
BackendYields == TRUE
Yields == IF side = "frontend" THEN FrontendYields ELSE BackendYields

TypeOK ==
  /\ side \in {"frontend", "backend"} /\ wf \in Framings
  /\ hold \in Holds /\ outcome \in Outcomes
  /\ total \in 0..MaxBody /\ off \in 0..total /\ clen \in 0..MaxU64 /\ cnt \in Nat
  /\ flushed \in BOOLEAN /\ accepted \in 0..MaxBody /\ ended \in {"no", "finish", "abort"}
  /\ rx \in Decoded /\ seen \in Decoded

Init ==
  /\ side \in {"frontend", "backend"} /\ hold = "Writer"
  /\ wf = "none" /\ total = 0 /\ off = 0 /\ clen = 0 /\ cnt = 0 /\ flushed = FALSE
  /\ accepted = 0 /\ ended = "finish" /\ outcome = "none"
  /\ rx = RxInit("none", 0) /\ seen = rx

-----------------------------------------------------------------------------
(* What each framing makes of the states: the bytes it owes the wire in    *)
(* Open, Close, Finish and Abort, and whether the body has a limit.        *)

BodylessRules == [open |-> 0, close |-> 0, finish |-> 0, abort |-> 0,
                  limited |-> TRUE, limit |-> 0]

LengthRules == [open |-> 0, close |-> 0, finish |-> 0, abort |-> 0,
                limited |-> TRUE, limit |-> total]

\* A chunk of no bytes is not written at all: its size line would be the last
\* chunk's.
ChunkHeaderAlways == HeadLen
ChunkHeader == IF clen = 0 THEN 0 ELSE HeadLen
ChunkFooterAlways == FootLen
ChunkFooter == IF clen = 0 THEN 0 ELSE FootLen

\* The last chunk, and the one byte of Abort that is no hexadecimal digit.
ChunkedRules == [open |-> ChunkHeader, close |-> ChunkFooter, finish |-> LastLen, abort |-> 1,
                 limited |-> FALSE, limit |-> 0]

EofRules == [open |-> 0, close |-> 0, finish |-> 0, abort |-> 0,
             limited |-> FALSE, limit |-> 0]

Rules == IF wf = "none" THEN BodylessRules
         ELSE IF wf = "cl" THEN LengthRules
         ELSE IF wf = "chunked" THEN ChunkedRules
         ELSE EofRules

\* Ready::open: checked_add, then the limit.
OpenOverflowsWrapping(len) == Rules.limited /\ (off + len) % (MaxU64 + 1) > Rules.limit
OpenOverflows(len) == Rules.limited /\ (off + len > MaxU64 \/ off + len > Rules.limit)

\* poll_write_bounded refuses a buffer of b bytes that does not fit, whole.
WriteOverflows(b) == cnt + b > MaxU64 \/ cnt + b > clen

\* chunk_remaining() of Write, remaining() of a "cl" Ready.
ChunkRemaining == clen - cnt
Remaining == total - off

-----------------------------------------------------------------------------
(* The calls *)

\* The writer is dropped, and the connection closes.  What was not flushed may
\* arrive or not.
Lose(why) ==
  /\ hold' = "gone" /\ outcome' = why
  /\ \E x \in {rx, seen} : seen' = RxClose(x)
  /\ UNCHANGED <<message, state, accepted, ended, rx>>

\* send_as_*: the whole head, then a flush.  Where it fails the writer is dropped.
SendHead ==
  /\ hold = "Writer" /\ hold' = "Ready"
  /\ wf' \in Framings
  /\ total' \in IF wf' = "cl" THEN 0..MaxBody ELSE {0}
  /\ off' = 0 /\ clen' = 0 /\ cnt' = 0 /\ flushed' = FALSE
  /\ accepted' = 0 /\ ended' = "no"
  /\ rx' = IF rx.st = "done" THEN RxInit(wf', total') ELSE Bad(rx)
  /\ seen' = rx'
  /\ UNCHANGED <<side, outcome>>

OpenChunk(len) ==
  /\ hold = "Ready"
  /\ ~Rules.limited => accepted + len <= MaxBody
  /\ IF OpenOverflows(len)
     THEN Lose("BodyOverflow")
     ELSE /\ hold' = "Open" /\ clen' = len /\ cnt' = 0
          /\ UNCHANGED <<message, off, flushed, log, rx, seen>>

PollOpen ==
  /\ hold = "Open"
  /\ \E k \in 1..Rules.open :
       /\ cnt + k <= Rules.open
       /\ cnt' = cnt + k
       /\ rx' = RxHead(rx, clen, cnt, k)
  /\ UNCHANGED <<message, hold, off, clen, flushed, log, seen>>

IntoWrite ==
  /\ hold = "Open"
  /\ IF cnt < Rules.open
     THEN Lose("IncompleteChunkHeader")
     ELSE /\ hold' = "Write" /\ cnt' = 0
          /\ UNCHANGED <<message, off, clen, flushed, log, rx, seen>>

\* One call with b bytes, of which the transport takes k.
CountAll(b, k) == b
Count(b, k) == k

PollWrite ==
  /\ hold = "Write"
  /\ \E b \in 1..MaxU64 :
       /\ ~WriteOverflows(b)
       /\ \E k \in 1..b :
            /\ cnt' = cnt + Count(b, k)
            /\ accepted' = accepted + k
            /\ rx' = RxData(rx, accepted, k)
  /\ UNCHANGED <<message, hold, off, clen, flushed, ended, outcome, seen>>

IntoClose ==
  /\ hold = "Write"
  /\ IF cnt < clen
     THEN Lose("IncompleteBody")
     ELSE /\ hold' = "Close" /\ cnt' = 0
          /\ off' = IF wf = "cl" THEN off + clen ELSE off
          /\ UNCHANGED <<message, clen, flushed, log, rx, seen>>

PollClose ==
  /\ hold = "Close"
  /\ \E k \in 1..Rules.close :
       /\ cnt + k <= Rules.close
       /\ cnt' = cnt + k
       /\ rx' = RxFoot(rx, cnt, k)
  /\ UNCHANGED <<message, hold, off, clen, flushed, log, seen>>

IntoReady ==
  /\ hold = "Close"
  /\ IF cnt < Rules.close
     THEN Lose("IncompleteChunkFooter")
     ELSE /\ hold' = "Ready" /\ cnt' = 0
          /\ UNCHANGED <<message, off, clen, flushed, log, rx, seen>>

StartFinish ==
  /\ hold = "Ready"
  /\ IF Rules.limited /\ off < Rules.limit
     THEN Lose("IncompleteBody")
     ELSE /\ hold' = "Finish" /\ cnt' = 0 /\ flushed' = FALSE /\ ended' = "finish"
          /\ UNCHANGED <<message, off, clen, accepted, outcome, rx, seen>>

StartAbort ==
  /\ hold = "Ready"
  /\ hold' = "Abort" /\ cnt' = 0 /\ flushed' = FALSE /\ ended' = "abort"
  /\ UNCHANGED <<message, off, clen, accepted, outcome, rx, seen>>

\* poll_finish and poll_abort write what is owed ...
PollFinish ==
  /\ hold = "Finish"
  /\ \E k \in 1..Rules.finish :
       /\ cnt + k <= Rules.finish
       /\ cnt' = cnt + k
       /\ rx' = RxLast(rx, cnt, k)
  /\ UNCHANGED <<message, hold, off, clen, flushed, log, seen>>

PollAbortEnds ==
  /\ hold = "Abort" /\ cnt < Rules.abort
  /\ cnt' = cnt + 1
  /\ rx' = RxLast(rx, 0, LastLen)
  /\ UNCHANGED <<message, hold, off, clen, flushed, log, seen>>
PollAbort ==
  /\ hold = "Abort" /\ cnt < Rules.abort
  /\ cnt' = cnt + 1
  /\ rx' = RxJunk(rx)
  /\ UNCHANGED <<message, hold, off, clen, flushed, log, seen>>

\* ... and then flush.
Flush ==
  /\ \/ hold = "Finish" /\ cnt >= Rules.finish
     \/ hold = "Abort" /\ cnt >= Rules.abort
  /\ flushed' = TRUE /\ seen' = rx
  /\ UNCHANGED <<message, hold, off, clen, cnt, log, rx>>

\* into_writer, or discard where there is no writer to reuse.
IntoWriterUnflushed ==
  /\ hold = "Finish"
  /\ IF cnt < Rules.finish THEN Lose("IncompleteFinish")
     ELSE IF ~Yields THEN Lose("finished")
     ELSE hold' = "Writer" /\ UNCHANGED <<message, state, log, rx, seen>>
IntoWriter ==
  /\ hold = "Finish"
  /\ IF cnt < Rules.finish THEN Lose("IncompleteFinish")
     ELSE IF ~flushed THEN Lose("UnflushedFinish")
     ELSE IF ~Yields THEN Lose("finished")
     ELSE hold' = "Writer" /\ UNCHANGED <<message, state, log, rx, seen>>

Discard ==
  /\ hold = "Abort"
  /\ Lose(IF flushed THEN "aborted" ELSE "UnflushedAbort")

Drop == hold # "gone" /\ Lose("dropped")

\* The transport passes on what it has been given.
Arrive ==
  /\ hold # "gone" /\ seen # rx
  /\ seen' = rx
  /\ UNCHANGED <<message, hold, state, log, rx>>

Terminated == hold = "gone" /\ UNCHANGED vars

Cycle == \/ \E len \in 0..MaxU64 : OpenChunk(len)
         \/ PollOpen \/ IntoWrite \/ PollWrite \/ IntoClose \/ PollClose \/ IntoReady

End == \/ StartFinish \/ PollFinish \/ IntoWriter
       \/ StartAbort \/ PollAbort \/ Discard \/ Flush \/ Drop

Next == SendHead \/ Cycle \/ End \/ Arrive \/ Terminated

Spec == Init /\ [][Next]_vars

-----------------------------------------------------------------------------
(* Properties *)

\* Whatever is called, in whatever order, and however little each write takes, the
\* recipient can decode what is written, over all the messages of the connection;
\* except that an aborted chunked body is spoilt, on purpose.
WireDecodable == rx.st = "bad" => ended = "abort" /\ wf = "chunked"

\* A writer that is handed back for the next message stands after a whole one, which
\* the recipient already has: nothing waits in a buffer for a message that may not
\* come ("flushes the underlying writer so any buffered bytes reach the wire").
HandedBackWhole ==
  hold = "Writer" => /\ seen = rx /\ seen.st = "done" /\ wf # "eof"
                     /\ seen.got = accepted

\* A body that was refused, dropped or aborted half-way is not taken for a complete one
\* ("a downstream reader cannot mistake a truncated body for a complete one"): a
\* recipient that can tell the end sees it only after the declared length, or after
\* the caller has called finish, and an abort that answers Ok has reached it.
NoFalseEnd ==
  /\ (seen.st = "done" /\ wf # "eof") =>
       /\ seen.got = accepted
       /\ IF wf = "chunked" THEN ended = "finish" ELSE accepted = total
  /\ (outcome = "aborted" /\ wf = "chunked") => seen.st = "bad"
  /\ (outcome = "finished") => seen.st = "done" /\ seen.got = accepted

\* What chunk_remaining() and remaining() answer is what the recipient still waits
\* for, after any partial write: a caller whose write_all was cancelled can go on
\* from there.
RemainingIsDue ==
  /\ (hold = "Write" /\ wf = "chunked") => ChunkRemaining = rx.left
  /\ (hold = "Write" /\ wf = "cl") => Remaining - cnt = rx.left
  /\ (hold = "Ready" /\ wf = "cl") => Remaining = rx.left

\* The writers keep the promise of Delivery.
Phase == IF hold = "Writer" THEN "idle" ELSE IF hold = "gone" THEN "over" ELSE "busy"
Kind == IF wf = "chunked" THEN "marked" ELSE IF wf = "eof" THEN "closed" ELSE "sized"
Verdict == IF seen.st = "done" THEN "complete" ELSE IF seen.st = "bad" THEN "broken" ELSE "open"

Promise == INSTANCE Delivery WITH
  phase <- Phase, kind <- Kind, length <- total, received <- seen.got,
  asked <- ended, verdict <- Verdict

ImplementsDelivery == Promise!Spec

-----------------------------------------------------------------------------
(* The inductive invariant: which bytes the recipient waits for in each     *)
(* state of the writer.                                                     *)

\* What has arrived is a prefix of what is written, and all of it once flushed.
ArrivedInv ==
  /\ rx.f = wf /\ rx.got = accepted /\ seen.got \in 0..accepted
  /\ seen.f = wf
  /\ (wf # "eof" /\ seen.st \in {"done", "bad"}) => seen = rx
  /\ (hold \in {"Finish", "Abort"} /\ flushed) => seen = rx
  /\ hold = "Writer" => seen = rx /\ rx.st = "done" /\ wf # "eof"

EndedInv ==
  /\ hold \in {"Ready", "Open", "Write", "Close"} => ended = "no"
  /\ hold \in {"Finish", "Writer"} => ended = "finish"
  /\ hold = "Abort" => ended = "abort"
  /\ hold # "gone" => outcome = "none"
  /\ outcome = "aborted" /\ wf = "chunked" => seen.st = "bad"
  /\ outcome = "finished" => seen.st = "done" /\ seen.got = accepted

BodylessInv ==
  wf = "none" => /\ rx.st = "done" /\ seen.st = "done" /\ accepted = 0 /\ total = 0
                 /\ hold \in {"Open", "Write"} => clen = 0

LengthInv ==
  wf = "cl" => /\ rx.left = total - accepted
               /\ rx.st = IF accepted = total THEN "done" ELSE "data"
               /\ seen.st = IF seen.got = total THEN "done" ELSE "data"
               /\ hold \in {"Ready", "Open", "Close", "Finish"} => off = accepted
               /\ hold \in {"Open", "Write"} => off + clen <= total
               /\ hold = "Write" => accepted = off + cnt
               /\ hold = "Finish" => accepted = total

EofInv ==
  wf = "eof" => /\ rx.st = "data"
                /\ seen.st = IF hold = "gone" THEN "done" ELSE "data"

\* At the start of a chunk, in a place where the last chunk may come as well.
Between == rx.st = "head" /\ rx.n = 0 /\ rx.left = 0

ChunkInv ==
  wf = "chunked" =>
    /\ hold = "Ready" => Between
    /\ hold = "Open" => IF clen = 0 THEN Between
                        ELSE IF cnt < HeadLen
                        THEN rx.st = "head" /\ rx.n = cnt /\ (cnt > 0 => rx.left = clen)
                        ELSE cnt = HeadLen /\ rx.st = "data" /\ rx.n = 0 /\ rx.left = clen
    /\ hold = "Write" => IF clen = 0 THEN Between
                         ELSE /\ rx.st = IF cnt < clen THEN "data" ELSE "foot"
                              /\ rx.n = 0 /\ rx.left = clen - cnt
    /\ hold = "Close" => IF clen = 0 THEN Between
                         ELSE IF cnt < FootLen
                         THEN rx.st = "foot" /\ rx.n = cnt /\ rx.left = 0
                         ELSE Between

ChunkedEndInv ==
  wf = "chunked" =>
    /\ hold = "Finish" => /\ cnt = 0 => Between
                          /\ cnt \in 1..(LastLen - 1) => rx.st = "last" /\ rx.n = cnt
                          /\ cnt >= LastLen => rx.st = "done"
    /\ hold = "Abort" => IF cnt = 0 THEN Between ELSE rx.st = "bad"
    /\ rx.st = "done" => ended = "finish"
    /\ rx.st = "bad" => ended = "abort"

\* The bound on the caller, and the counts within what the state owes.
CycleInv ==
  /\ hold = "Open" => cnt <= Rules.open
  /\ hold = "Write" => cnt <= clen
  /\ hold = "Finish" /\ flushed => cnt >= Rules.finish
  /\ hold = "Abort" /\ flushed => cnt >= Rules.abort
  /\ hold = "Open" /\ ~Rules.limited => accepted + clen <= MaxBody
  /\ hold = "Write" /\ ~Rules.limited => accepted + (clen - cnt) <= MaxBody

IInv == /\ TypeOK /\ ArrivedInv /\ EndedInv /\ BodylessInv /\ LengthInv /\ EofInv
        /\ ChunkInv /\ ChunkedEndInv /\ CycleInv
=============================================================================
