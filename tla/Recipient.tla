------------------------------ MODULE Recipient ------------------------------
(***************************************************************************)
(* The peer at the far end of a body writer: what a recipient that follows *)
(* RFC 9112 has decoded from the units put on the wire so far.  It is      *)
(* written from the framing rules and knows nothing of the writer's own    *)
(* state, so it can judge the writer.                                      *)
(*                                                                         *)
(* A unit is one byte of the body, or one abstract byte of a chunk-size    *)
(* line, of the CRLF that ends a chunk, or of the last chunk.  A byte of   *)
(* the body is known by its index, a byte of framing by its place in its   *)
(* line; a unit that does not come next makes the message "bad".           *)
(***************************************************************************)
EXTENDS Naturals

CONSTANTS
  HeadLen,   \* abstract bytes of a chunk-size line, "<size>CRLF"
  FootLen,   \* abstract bytes of the CRLF after the data of a chunk
  LastLen    \* abstract bytes of the last chunk, "0 CRLF trailers CRLF"

ASSUME UnitAssumption == {HeadLen, FootLen, LastLen} \subseteq Nat \ {0}

WriterFraming == {"cl", "chunked", "eof", "none"}

RxStates == {"head", "data", "foot", "last", "done", "bad"}

\* f: framing; st: what the recipient waits for; n: units of the current
\* framing line; left: body bytes still due; got: body bytes decoded.
Decoded == [f: WriterFraming, st: RxStates, n: Nat, left: Nat, got: Nat]

RxInit(f, length) ==
  [f |-> f, n |-> 0, got |-> 0,
   left |-> IF f = "cl" THEN length ELSE 0,
   st |-> IF f = "chunked" THEN "head"
          ELSE IF f = "none" \/ (f = "cl" /\ length = 0) THEN "done"
          ELSE "data"]

Move(x, st, n, left, got) ==
  [f |-> x.f, st |-> st, n |-> n, left |-> left, got |-> got]

Bad(x) == Move(x, "bad", x.n, x.left, x.got)

\* k units of the line "<len>CRLF", from place `from' of the line.
RxHead(x, len, from, k) ==
  IF ~(x.st = "head" /\ x.n = from /\ (from > 0 => x.left = len))
  THEN Bad(x)
  ELSE IF from + k < HeadLen
  THEN Move(x, "head", from + k, len, x.got)
  ELSE Move(x, IF len = 0 THEN "last" ELSE "data", 0, len, x.got)

\* k bytes of the body, the first of which has index `from'.
RxData(x, from, k) ==
  IF ~(x.st = "data" /\ x.got = from /\ (x.f = "eof" \/ k <= x.left))
  THEN Bad(x)
  ELSE IF x.f = "eof"
  THEN Move(x, "data", x.n, x.left, from + k)
  ELSE IF k < x.left
  THEN Move(x, "data", x.n, x.left - k, from + k)
  ELSE Move(x, IF x.f = "cl" THEN "done" ELSE "foot", x.n, 0, from + k)

\* k units of a CRLF of its own.  After a chunk of size 0 it ends the trailers.
RxFoot(x, from, k) ==
  IF ~(x.st \in {"foot", "last"} /\ x.n = from)
  THEN Bad(x)
  ELSE IF from + k < FootLen
  THEN Move(x, x.st, from + k, x.left, x.got)
  ELSE Move(x, IF x.st = "foot" THEN "head" ELSE "done", 0, x.left, x.got)

RxLast(x, from, k) ==
  IF ~(x.st \in {"head", "last"} /\ x.n = from)
  THEN Bad(x)
  ELSE IF from + k < LastLen
  THEN Move(x, "last", from + k, x.left, x.got)
  ELSE Move(x, "done", 0, x.left, x.got)

\* A byte that is neither framing nor what the caller wrote: data where data is
\* due, and no chunk-size line.
RxJunk(x) == IF x.st = "data" THEN RxData(x, x.got, 1) ELSE Bad(x)

\* The connection closes: only a close-delimited body is complete by that.
RxClose(x) ==
  IF x.f = "eof" /\ x.st = "data" THEN Move(x, "done", x.n, x.left, x.got) ELSE x
=============================================================================
