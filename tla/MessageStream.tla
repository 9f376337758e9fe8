----------------------------- MODULE MessageStream -----------------------------
(***************************************************************************)
(* What a reader of pipelined messages promises its caller, with no buffer *)
(* and no framing in sight: a head, then the bytes of that message's body  *)
(* in order, then its end, then the next head.  The end comes after the    *)
(* last byte, not before, unless the body is one that only the close of    *)
(* the connection ends; and a reader that is gone gives nothing more.      *)
(***************************************************************************)
EXTENDS Naturals

CONSTANT MaxBody

VARIABLES
  at,          \* "head", "body", "end" or "gone"
  total,       \* length of the current body
  delimited,   \* does the message say where it ends?
  got          \* bytes of the body handed to the caller

vars == <<at, total, delimited, got>>

Init == at = "head" /\ total = 0 /\ delimited = TRUE /\ got = 0

GetHead ==
  /\ at = "head" /\ at' = "body"
  /\ total' \in 0..MaxBody /\ delimited' \in BOOLEAN /\ got' = 0

GetBytes ==
  /\ at = "body" /\ at' = "body"
  /\ got' \in (got + 1)..total
  /\ UNCHANGED <<total, delimited>>

GetEnd ==
  /\ at = "body" /\ at' = "end"
  /\ delimited => got = total
  /\ UNCHANGED <<total, delimited, got>>

StartOver ==
  /\ at = "end" /\ delimited /\ at' = "head"
  /\ UNCHANGED <<total, delimited, got>>

Disappear ==
  /\ at # "gone" /\ at' = "gone"
  /\ UNCHANGED <<total, delimited, got>>

Next == GetHead \/ GetBytes \/ GetEnd \/ StartOver \/ Disappear

Spec == Init /\ [][Next]_vars
=============================================================================
