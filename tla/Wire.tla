-------------------------------- MODULE Wire --------------------------------
(***************************************************************************)
(* One direction of one exchange as a stream of units: interim (1xx)       *)
(* heads, the final head, the units of the body, and the end of a body     *)
(* that is not delimited by its length (the last chunk, or the close).  A  *)
(* position says how many units of each kind have passed a point; two      *)
(* successive points are the ends of a bounded pipe.                       *)
(***************************************************************************)
EXTENDS Naturals

CONSTANT Cap   \* units a pipe holds: socket buffers, and the reader's own

ASSUME WireAssumption == Cap \in Nat \ {0}

Kinds == {"info", "head", "body", "end"}

Position == [Kinds -> Nat]

Start == [k \in Kinds |-> 0]

Put(p, k) == [p EXCEPT ![k] = @ + 1]

Size(p) == p["info"] + p["head"] + p["body"] + p["end"]

\* There is room for one more unit between point a and the point b after it.
Room(a, b) == Size(a) < Size(b) + Cap

Earlier(k) == IF k = "info" THEN {}
              ELSE IF k = "head" THEN {"info"}
              ELSE IF k = "body" THEN {"info", "head"}
              ELSE {"info", "head", "body"}

\* A unit of kind k is the next to leave the pipe from a to b.
Due(a, b, k) == b[k] < a[k] /\ \A j \in Earlier(k) : b[j] = a[j]

\* The units that end a body of framing f.
Ends(f) == IF f \in {"te", "eof"} THEN 1 ELSE 0

\* A whole message of framing f with a body of len units has passed p.
Whole(p, f, len) == p["head"] = 1 /\ p["body"] = len /\ p["end"] = Ends(f)
=============================================================================
