------------------------------- MODULE Delivery -------------------------------
(***************************************************************************)
(* What writing messages on one connection promises to a caller that asks  *)
(* for whatever it likes: the recipient receives the bytes that were       *)
(* accepted, in order; it takes a message as complete only when it is; it  *)
(* takes one as broken only when the caller gave it up; and the connection *)
(* is free for the next message only when the recipient has all of the     *)
(* last.  Nothing is said of framing, typestates, polls or buffers.        *)
(***************************************************************************)
EXTENDS Naturals

VARIABLES
  phase,     \* "idle": the next message may begin; "busy"; "over": closed
  kind,      \* how the end is known: "sized", "marked" or "closed" (by the close)
  length,    \* of a "sized" body
  accepted,  \* bytes of the body taken from the caller
  received,  \* bytes of it the recipient has
  asked,     \* what the caller wants: "no" (more to come), "finish" or "abort"
  verdict    \* the message is, for the recipient, "open", "complete" or "broken"

vars == <<phase, kind, length, accepted, received, asked, verdict>>

Init ==
  /\ phase = "idle" /\ kind = "sized" /\ length = 0
  /\ accepted = 0 /\ received = 0 /\ asked = "finish"
  /\ verdict = "complete"

Begin ==
  /\ phase = "idle" /\ phase' = "busy"
  /\ kind' \in {"sized", "marked", "closed"}
  /\ length' \in Nat
  /\ accepted' = 0 /\ received' = 0 /\ asked' = "no"
  /\ verdict' = IF kind' = "sized" /\ length' = 0 THEN "complete" ELSE "open"

Accept ==
  /\ phase = "busy" /\ asked = "no" /\ verdict = "open"
  /\ accepted' \in Nat /\ accepted' > accepted
  /\ kind = "sized" => accepted' <= length
  /\ UNCHANGED <<phase, kind, length, received, asked, verdict>>

\* What the recipient may conclude from the first n bytes.
Verdict(n) ==
  IF kind = "sized" THEN {IF n = length THEN "complete" ELSE "open"}
  ELSE {"open"} \cup (IF kind = "marked" /\ asked = "finish" /\ n = accepted
                      THEN {"complete"} ELSE {})
                \cup (IF kind = "marked" /\ asked = "abort" THEN {"broken"} ELSE {})

Receive ==
  /\ received' \in received..accepted
  /\ IF verdict = "open" THEN verdict' \in Verdict(received') ELSE verdict' = verdict

Arrive ==
  /\ phase = "busy" /\ Receive
  /\ UNCHANGED <<phase, kind, length, accepted, asked>>

Ask ==
  /\ phase = "busy" /\ asked = "no"
  /\ asked' \in {"finish", "abort"}
  /\ (kind = "sized" /\ asked' = "finish") => accepted = length
  /\ UNCHANGED <<phase, kind, length, accepted, received, verdict>>

Return ==
  /\ phase = "busy" /\ phase' = "idle"
  /\ asked = "finish" /\ verdict = "complete" /\ received = accepted
  /\ UNCHANGED <<kind, length, accepted, received, asked, verdict>>

\* The connection closes, which is what ends a "closed" message.
Close ==
  /\ phase # "over" /\ phase' = "over"
  /\ IF kind = "closed"
     THEN received' \in received..accepted /\ verdict' = "complete"
     ELSE Receive
  /\ UNCHANGED <<kind, length, accepted, asked>>

Next == Begin \/ Accept \/ Arrive \/ Ask \/ Return \/ Close

Spec == Init /\ [][Next]_vars
=============================================================================
