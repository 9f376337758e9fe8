------------------------------- MODULE BodyCopy -------------------------------
(***************************************************************************)
(* What copying one message body through the proxy promises, with no       *)
(* buffer, framing, chunk or poll in sight: the recipient receives the     *)
(* bytes of the source in order; it is told that the body is complete, and *)
(* the copy is reported a success, only when the source ended and every    *)
(* byte was received; and after a report nothing more is received.  The    *)
(* one concession is to a recipient that can only tell the end of a body   *)
(* by the close of the connection: it cannot know that it was cut short.   *)
(***************************************************************************)
EXTENDS Naturals

CONSTANT MaxBody

VARIABLES
  delimited,   \* can the recipient tell a complete body from a cut one?
  total,       \* length of the body
  arrived,     \* bytes the source has produced
  ended,       \* the source has ended cleanly
  received,    \* bytes the recipient has
  complete,    \* the recipient takes the body as complete
  report       \* "busy", "done" or "failed"

vars == <<delimited, total, arrived, ended, received, complete, report>>

Init ==
  /\ delimited \in BOOLEAN
  /\ total \in 0..MaxBody
  /\ arrived = 0 /\ received = 0
  /\ ended \in BOOLEAN /\ (ended => total = 0)
  /\ complete \in BOOLEAN /\ (complete => ended)
  /\ report = "busy"

Whole == ended' /\ received' = total

Produce ==
  /\ ~ended
  /\ arrived' \in arrived..total
  /\ ended' \in BOOLEAN /\ (ended' => arrived' = total)
  /\ UNCHANGED <<delimited, total, received, complete, report>>

Receive ==
  /\ report = "busy" /\ ~complete
  /\ received' \in received..arrived
  /\ complete' \in BOOLEAN /\ (complete' /\ delimited => Whole)
  /\ report' \in {"busy", "failed"}
  /\ UNCHANGED <<delimited, total, arrived, ended>>

Report ==
  /\ report = "busy"
  /\ \/ report' = "failed" /\ complete' = complete
     \/ report' = "done" /\ complete' /\ Whole
  /\ UNCHANGED <<delimited, total, arrived, ended, received>>

Next == Produce \/ Receive \/ Report

Spec == Init /\ [][Next]_vars
=============================================================================
