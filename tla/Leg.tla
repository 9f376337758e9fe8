--------------------------------- MODULE Leg ---------------------------------
(***************************************************************************)
(* One body forwarder inside an exchange.  BodyForwarder models its polls; *)
(* here a unit of the body is read, waits in `pending' and is written      *)
(* whole, because what matters is when each side waits for which other.    *)
(*                                                                         *)
(* sent is what the source has put on its pipe, in what the forwarder has  *)
(* read of it, out what it has written, got what the sink has read.        *)
(***************************************************************************)
EXTENDS Wire

VARIABLES
  rf, wf, len,   \* framing of the reader and of the writer, length of the body
  sent, in, out, got,
  done,          \* read_done
  st,            \* see Stages
  from, to       \* are the source and the sink still there?

\* "idle": no forwarder yet; "copy": forward() is being driven; "whole":
\* forward_while has set body_finished; "ok", "err": how finish() ended, or that
\* the forwarder was dropped.
Stages == {"idle", "copy", "whole", "ok", "err"}

LegTypeOK ==
  /\ {sent, in, out, got} \subseteq Position
  /\ out["body"] <= in["body"] /\ in["body"] <= len
  /\ done \in BOOLEAN
  /\ st \in Stages

Running == st \in {"copy", "whole"}

Pending == out["body"] < in["body"]

Refills == Running /\ ~Pending /\ ~done

\* The forwarder reads a unit of the body ...
Take ==
  /\ Refills /\ Due(sent, in, "body")
  /\ in' = Put(in, "body")
  /\ UNCHANGED <<out, done, st>>

\* ... or, if that was all, None.
TakeEndAtCut ==
  /\ Refills /\ (in["body"] = len \/ ~from)
  /\ done' = TRUE
  /\ UNCHANGED <<in, out, st>>
TakeEnd ==
  /\ Refills /\ in["body"] = len
  /\ IF Ends(rf) = 1
     THEN Due(sent, in, "end") /\ in' = Put(in, "end")
     ELSE UNCHANGED in
  /\ done' = TRUE
  /\ UNCHANGED <<out, st>>

SendAgain ==
  /\ Running /\ in["body"] > 0 /\ ~done /\ Room(out, got)
  /\ out' = Put(out, "body")
  /\ UNCHANGED <<in, done, st>>
Send ==
  /\ Running /\ Pending /\ Room(out, got)
  /\ out' = Put(out, "body")
  /\ UNCHANGED <<in, done, st>>

\* forward() answers true: nothing is pending and the reader is exhausted.
Forwarded == Running /\ done /\ ~Pending

\* forward_while takes note, and no longer polls the forwarder.
BodyFinished ==
  /\ st = "copy" /\ Forwarded
  /\ st' = "whole"
  /\ UNCHANGED <<in, out, done>>

\* finish(): the terminator, if the framing has one, and the flush.
Terminate ==
  /\ Forwarded
  /\ IF Ends(wf) = 1
     THEN Room(out, got) /\ out' = Put(out, "end")
     ELSE UNCHANGED out
  /\ st' = "ok"
  /\ UNCHANGED <<in, done>>

\* A read or a write that the forwarder is at fails with its peer.
ReadFailsForgotten == FALSE
ReadFails == Refills /\ ~from
WriteFails == Running /\ Pending /\ ~to
TerminateFails == Forwarded /\ ~to

Dropped == st' = IF st = "idle" THEN "idle" ELSE "err"
=============================================================================
