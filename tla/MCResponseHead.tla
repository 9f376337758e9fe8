--------------------------- MODULE MCResponseHead ---------------------------
(***************************************************************************)
(* Heads of up to three fields for ResponseHead, trailers of up to two.    *)
(***************************************************************************)
EXTENDS ResponseHead

F(name, value) == [name |-> name, value |-> value]

MCLengths == {"5", "7"}

MCEdits == {F("x", <<"1">>), F("content-length", <<"7">>)}

MCFieldSet == MCEdits \cup {
  F("content-length", <<"5">>), F("content-length", <<"5", "7">>), F("content-length", <<"junk">>),
  F("transfer-encoding", <<"chunked">>), F("transfer-encoding", <<"gzip", "chunked">>),
  F("connection", <<"close", "date">>), F("connection", <<"keep-alive", "x">>),
  F("connection", <<"via", "content-length">>), F("connection", <<"@">>),
  F("upgrade", <<"h2">>), F("date", <<"then">>), F("via", <<"b">>)}

MCHeads == Headers(UNION {[1..n -> MCFieldSet] : n \in 0..3})

MCSections == Headers(UNION {[1..n -> {
  F("x", <<"1">>), F("content-length", <<"7">>), F("transfer-encoding", <<"chunked">>),
  F("connection", <<"close">>), F("host", <<"a">>), F("date", <<"then">>)}] : n \in 0..2})
=============================================================================
