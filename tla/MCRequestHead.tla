---------------------------- MODULE MCRequestHead ----------------------------
(***************************************************************************)
(* Heads of up to three fields for RequestHead, trailers of up to two.     *)
(***************************************************************************)
EXTENDS RequestHead

F(name, value) == [name |-> name, value |-> value]

MCLengths == {"5", "7"}

MCEdits == {F("x", <<"1">>), F("content-length", <<"7">>), F("transfer-encoding", <<"chunked">>)}

MCFieldSet == MCEdits \cup {
  F("content-length", <<"5">>), F("content-length", <<"5", "5">>),
  F("content-length", <<"5", "7">>), F("content-length", <<"junk">>),
  F("transfer-encoding", <<"", "chunked">>), F("transfer-encoding", <<"chunked", "chunked">>),
  F("transfer-encoding", <<"gzip", "chunked">>),
  F("connection", <<"close", "", "x">>), F("connection", <<"keep-alive", "host">>),
  F("connection", <<"via", "content-length">>), F("connection", <<"@">>),
  F("keep-alive", <<"1">>), F("host", <<"a">>), F("via", <<"b">>)}

MCHeads == Headers(UNION {[1..n -> MCFieldSet] : n \in 0..3})

MCSections == Headers(UNION {[1..n -> {
  F("x", <<"1">>), F("content-length", <<"7">>), F("transfer-encoding", <<"chunked">>),
  F("connection", <<"close">>), F("host", <<"a">>), F("date", <<"then">>)}] : n \in 0..2})
=============================================================================
