------------------------------ MODULE Exchange ------------------------------
(***************************************************************************)
(* One exchange through the proxy (proxy/src/lib.rs): from a parsed        *)
(* request, through the attempts to send its head to a backend, the        *)
(* interim and final response heads, and both bodies, to the connections   *)
(* handed back for reuse.  The client, the origin and the four pipes       *)
(* between them and the proxy are part of the module; the caller of the    *)
(* library does at every point anything its types let it do.               *)
(*                                                                         *)
(* Header fields are the business of the heads' own modules: here a head is a unit that is well  *)
(* or badly formed, and the framing that came out of it.                   *)
(***************************************************************************)
EXTENDS Wire

CONSTANTS
  MaxBody,    \* units of a body
  Lengths,    \* lengths the bodies may have
  MaxInfo,    \* interim responses the origin sends
  MaxTries,   \* backends the caller tries
  Patient,    \* framings of requests that meet an origin that answers only
              \* after the whole request
  Blocking,   \* peers that may be of those that read only once they have written
  Persist,    \* what the heads may say of the connection's persistence
  Faults      \* subset of {"client", "origin", "head", "reject"}

ASSUME ExchangeAssumption ==
  /\ {MaxBody, MaxInfo} \subseteq Nat /\ MaxTries \in Nat \ {0}
  /\ Lengths \subseteq 0..MaxBody /\ 0 \in Lengths
  /\ Patient \subseteq {"none", "cl", "te"}
  /\ Blocking \subseteq {"client", "origin"}
  /\ Persist \subseteq BOOLEAN
  /\ Faults \subseteq {"client", "origin", "head", "reject"}

VARIABLES
  req,          \* the request: framing, length, and what its head says
  habits,       \* what the peers wait for, see PossibleHabits
  resp,         \* the final response the origin will give
  pc,           \* where the caller is in the library's types, see Stages
  tries,        \* backends tried so far
  replied,      \* the caller has answered the client with a response of its own
  cSent, upIn, upOut, oGot, upDone, upSt,        \* client to origin
  oSent, downIn, downOut, cGot, downDone, downSt,  \* origin to client
  cAlive, oAlive,
  frontReuse, backReuse  \* connections the exchange handed back

peers == <<req, habits, resp, cAlive, oAlive>>
upProxy == <<upIn, upOut, upDone, upSt>>
downProxy == <<downIn, downOut, downDone, downSt>>
ends == <<cSent, oGot, oSent, cGot>>
caller == <<pc, tries, replied, frontReuse, backReuse>>
vars == <<peers, upProxy, downProxy, ends, caller>>

\* "request": FrontendProxyRequest; "forward": BackendProxyRequest; "await":
\* inside forward_while; "info": an informational response is in hand; "final":
\* the final one is; "bodies": ProxyBodyExchanger::finish; "reply": only a
\* PendingFrontendResponse is left, perhaps with the request's body reader;
\* "drain": the caller drains that reader for reuse.
Stages == {"request", "forward", "await", "info", "final", "bodies", "reply",
           "drain", "done", "failed"}

Requests ==
  [f: {"none", "cl", "te"}, len: Lengths, v10: BOOLEAN, persist: Persist,
   expect: BOOLEAN]

\* HTTP/1.0 knows neither chunks nor 100-continue; who expects one has a body.
PossibleRequest(r) ==
  /\ r.f = "none" => r.len = 0
  /\ r.v10 => r.f # "te" /\ ~r.expect
  /\ r.expect => r.f # "none" /\ MaxInfo > 0

Responses == [f: {"none", "cl", "te", "eof"}, len: Lengths, persist: Persist]

\* forward_response_head: a client that cannot chunk is sent to the close.
ClientFraming ==
  IF resp.f \notin {"te", "eof"} THEN resp.f ELSE IF req.v10 THEN "eof" ELSE "te"

RequestEnds == Whole(cSent, req.f, req.len)
ResponseEnds == Whole(oSent, resp.f, resp.len)

\* The peers need not read as things arrive.  A patient origin answers only after the
\* whole request.  A simple client reads only once it has written its request, a
\* simple origin, after the head of the request, only once it has written its response.
\* Habits that wait for each other are none a proxy could help.
Habits == {"patient", "client", "origin"}

PossibleHabits(h) ==
  /\ h \subseteq Blocking \cup {"patient"}
  /\ "patient" \in h => req.f \in Patient
  /\ "client" \in h => ~req.expect
  /\ "origin" \in h => h = {"origin"}

Up == INSTANCE Leg WITH
  rf <- req.f, wf <- req.f, len <- req.len, sent <- cSent, in <- upIn,
  out <- upOut, got <- oGot, done <- upDone, st <- upSt, from <- cAlive,
  to <- oAlive

Down == INSTANCE Leg WITH
  rf <- resp.f, wf <- ClientFraming, len <- resp.len, sent <- oSent, in <- downIn,
  out <- downOut, got <- cGot, done <- downDone, st <- downSt, from <- oAlive,
  to <- cAlive

\* Types, and that a forwarder neither writes a unit of the body that it has not read nor
\* reads past the body's end (LegTypeOK).
TypeOK ==
  /\ req \in Requests /\ resp \in Responses /\ habits \subseteq Habits
  /\ pc \in Stages /\ tries \in 1..MaxTries /\ replied \in BOOLEAN
  /\ Up!LegTypeOK /\ Down!LegTypeOK
  /\ {cAlive, oAlive, frontReuse, backReuse} \subseteq BOOLEAN

Init ==
  /\ req \in {r \in Requests : PossibleRequest(r)}
  /\ resp \in {r \in Responses : r.f = "none" => r.len = 0}
  /\ habits \in {h \in SUBSET Habits : PossibleHabits(h)}
  /\ pc = "request" /\ tries = 1 /\ replied = FALSE
  /\ cSent = Put(Start, "head") /\ upIn = Put(Start, "head")
  /\ upOut = Start /\ oGot = Start /\ upDone = FALSE /\ upSt = "idle"
  /\ oSent = Start /\ downIn = Start /\ downOut = Start /\ cGot = Start
  /\ downDone = FALSE /\ downSt = "idle"
  /\ cAlive = TRUE /\ oAlive = TRUE
  /\ frontReuse = FALSE /\ backReuse = FALSE

-----------------------------------------------------------------------------
(* The client and the origin. *)

\* A client that expects a 100 holds the body back until it has some answer.
ClientSends ==
  /\ cAlive /\ Room(cSent, upIn)
  /\ req.expect => cGot["info"] + cGot["head"] > 0 \/ replied
  /\ \E k \in {"body", "end"} :
       /\ k = "body" => cSent["body"] < req.len
       /\ k = "end" => cSent["body"] = req.len /\ cSent["end"] < Ends(req.f)
       /\ cSent' = Put(cSent, k)
  /\ UNCHANGED <<peers, upProxy, downProxy, caller, oGot, oSent, cGot>>

ClientReads ==
  /\ cAlive
  /\ "client" \in habits => RequestEnds
  /\ \E k \in Kinds : Due(downOut, cGot, k) /\ cGot' = Put(cGot, k)
  /\ UNCHANGED <<peers, upProxy, downProxy, caller, cSent, oGot, oSent>>

ClientDies ==
  /\ "client" \in Faults /\ cAlive
  /\ cAlive' = FALSE
  /\ UNCHANGED <<req, habits, resp, oAlive, upProxy, downProxy, ends, caller>>

OriginReads ==
  /\ oAlive
  /\ \E k \in Kinds :
       /\ Due(upOut, oGot, k)
       /\ ("origin" \in habits /\ k # "head") => ResponseEnds
       /\ oGot' = Put(oGot, k)
  /\ UNCHANGED <<peers, upProxy, downProxy, caller, cSent, oSent, cGot>>

\* The interim heads and the final one fit in the pipe to a client that does not read.
\* Without, it would be stuck: no body moves while a head is written to it.
HeadsFit == req.v10 \/ oSent["info"] + 1 < Cap

\* The origin may interim-respond as soon as it has the head; it does if the
\* client expects it to, or else it answers.
OriginInforms ==
  /\ oAlive /\ oGot["head"] = 1 /\ oSent["head"] = 0
  /\ oSent["info"] < MaxInfo /\ Room(oSent, downIn)
  /\ "client" \in habits => HeadsFit
  /\ oSent' = Put(oSent, "info")
  /\ UNCHANGED <<peers, upProxy, downProxy, caller, cSent, oGot, cGot>>

OriginAnswers ==
  /\ oAlive /\ oGot["head"] = 1 /\ oSent["head"] = 0
  /\ "patient" \in habits => Whole(oGot, req.f, req.len)
  /\ Room(oSent, downIn)
  /\ oSent' = Put(oSent, "head")
  /\ UNCHANGED <<peers, upProxy, downProxy, caller, cSent, oGot, cGot>>

OriginSends ==
  /\ oAlive /\ oSent["head"] = 1 /\ Room(oSent, downIn)
  /\ \E k \in {"body", "end"} :
       /\ k = "body" => oSent["body"] < resp.len
       /\ k = "end" => oSent["body"] = resp.len /\ oSent["end"] < Ends(resp.f)
       /\ oSent' = Put(oSent, k)
  /\ UNCHANGED <<peers, upProxy, downProxy, caller, cSent, oGot, cGot>>

OriginDies ==
  /\ "origin" \in Faults /\ oAlive
  /\ oAlive' = FALSE
  /\ UNCHANGED <<req, habits, resp, cAlive, upProxy, downProxy, ends, caller>>

-----------------------------------------------------------------------------
(* The request: from_request and forward. *)

\* Only the PendingFrontendResponse survives: the forwarder, and with it the
\* body reader and the backend connection, is dropped.
OnlyPending(stage) ==
  /\ pc' = stage
  /\ Up!Dropped
  /\ UNCHANGED <<upIn, upOut, upDone, tries, replied, frontReuse, backReuse>>

Accept ==
  /\ pc = "request"
  /\ pc' = "forward"
  /\ UNCHANGED <<peers, upProxy, downProxy, ends, tries, replied, frontReuse, backReuse>>

\* from_request rejects the request.
Reject ==
  /\ pc = "request" /\ "reject" \in Faults
  /\ OnlyPending("reply")
  /\ UNCHANGED <<peers, downProxy, ends>>

\* BackendProxyRequest::forward writes the head and makes the body writer; the
\* forwarder is made by read_backend_response.
Forward ==
  /\ pc = "forward"
  /\ upOut' = Put(upOut, "head") /\ upSt' = "copy"
  /\ pc' = "await"
  /\ UNCHANGED <<peers, upIn, upDone, downProxy, ends, tries, replied, frontReuse,
                 backReuse>>

\* BackendRequestError: the request is intact.  The caller tries another
\* backend, or answers the client itself.
ForwardFails ==
  /\ pc = "forward" /\ "head" \in Faults
  /\ \/ tries < MaxTries /\ tries' = tries + 1 /\ oAlive' = TRUE /\ pc' = pc
     \/ pc' = "reply" /\ UNCHANGED <<tries, oAlive>>
  /\ UNCHANGED <<req, habits, resp, cAlive, upProxy, downProxy, ends, replied,
                 frontReuse, backReuse>>

-----------------------------------------------------------------------------
(* The response heads: read_backend_response, forward_informational_response *)
(* and forward_response_head.                                                *)

\* The other future of the select! in forward_while resolves.
ReadHead ==
  /\ pc = "await"
  /\ \E k \in {"info", "head"} :
       /\ Due(oSent, downIn, k)
       /\ downIn' = Put(downIn, k)
       /\ pc' = IF k = "info" THEN "info" ELSE "final"
  /\ UNCHANGED <<peers, upProxy, downOut, downDone, downSt, ends, tries, replied,
                 frontReuse, backReuse>>

\* A head that BackendReader::read or the proxy refuses: malformed, 101 or 102,
\* or with a framing that its status or version does not allow.
RejectHead ==
  /\ pc = "await" /\ "reject" \in Faults
  /\ \E k \in {"info", "head"} : Due(oSent, downIn, k) /\ downIn' = Put(downIn, k)
  /\ OnlyPending("reply")
  /\ UNCHANGED <<peers, downOut, downDone, downSt, ends>>

ReadHeadFailsRetries ==
  /\ pc = "await" /\ ~oAlive /\ tries < MaxTries
  /\ pc' = "forward" /\ tries' = tries + 1 /\ oAlive' = TRUE
  /\ upOut' = Start /\ upSt' = "idle" /\ oGot' = Start /\ oSent' = Start
  /\ UNCHANGED <<req, habits, resp, cAlive, upIn, upDone, downProxy, cSent, cGot,
                 replied, frontReuse, backReuse>>
ReadHeadFails ==
  /\ pc = "await" /\ ~oAlive
  /\ OnlyPending("reply")
  /\ UNCHANGED <<peers, downProxy, ends>>

\* The request's body is not pumped while the interim head is written.
ForwardInfo ==
  /\ pc = "info"
  /\ IF req.v10
     THEN UNCHANGED downOut
     ELSE Room(downOut, cGot) /\ downOut' = Put(downOut, "info")
  /\ pc' = "await"
  /\ UNCHANGED <<peers, upProxy, downIn, downDone, downSt, ends, tries, replied,
                 frontReuse, backReuse>>

\* Nothing can be recovered when the client's connection fails.
ForwardInfoFails ==
  /\ pc = "info" /\ ~req.v10 /\ ~cAlive
  /\ OnlyPending("failed")
  /\ UNCHANGED <<peers, downProxy, ends>>

SendHead ==
  /\ pc = "final" /\ Room(downOut, cGot)
  /\ downOut' = Put(downOut, "head") /\ downSt' = "copy"
  /\ pc' = "bodies"
  /\ UNCHANGED <<peers, upProxy, downIn, downDone, ends, tries, replied, frontReuse,
                 backReuse>>

SendHeadFails ==
  /\ pc = "final" /\ ~cAlive
  /\ OnlyPending("failed")
  /\ UNCHANGED <<peers, downProxy, ends>>

-----------------------------------------------------------------------------
(* The bodies: forward_while, and the join of the two finish(). *)

DrivenLate == pc = "bodies"
Driven == pc = "bodies" \/ (pc = "await" /\ upSt = "copy")

UpCopies ==
  /\ Driven /\ (Up!Take \/ Up!TakeEnd \/ Up!Send)
  /\ UNCHANGED <<peers, downProxy, ends, caller>>

UpBodyFinished ==
  /\ pc = "await" /\ Up!BodyFinished
  /\ UNCHANGED <<peers, downProxy, ends, caller>>

UpTerminates ==
  /\ pc = "bodies" /\ Up!Terminate
  /\ UNCHANGED <<peers, downProxy, ends, caller>>

\* In forward_while an error of the body wins over a response that may be waiting
\* to be read; in the join it waits for the other direction.
UpFailsReplies ==
  /\ Driven /\ (Up!ReadFails \/ Up!WriteFails \/ (pc = "bodies" /\ Up!TerminateFails))
  /\ OnlyPending("reply")
  /\ UNCHANGED <<peers, downProxy, ends>>
UpFails ==
  /\ Driven /\ (Up!ReadFails \/ Up!WriteFails \/ (pc = "bodies" /\ Up!TerminateFails))
  /\ OnlyPending(IF pc = "await" THEN "reply" ELSE pc)
  /\ UNCHANGED <<peers, downProxy, ends>>

DownCopiesAfterUp ==
  /\ pc = "bodies" /\ upSt \in {"ok", "err"}
  /\ (Down!Take \/ Down!TakeEnd \/ Down!Send \/ Down!Terminate)
  /\ UNCHANGED <<peers, upProxy, ends, caller>>
DownCopies ==
  /\ pc = "bodies" /\ (Down!Take \/ Down!TakeEnd \/ Down!Send \/ Down!Terminate)
  /\ UNCHANGED <<peers, upProxy, ends, caller>>

DownFails ==
  /\ pc = "bodies" /\ (Down!ReadFails \/ Down!WriteFails \/ Down!TerminateFails)
  /\ Down!Dropped
  /\ UNCHANGED <<peers, upProxy, downIn, downOut, downDone, ends, caller>>

\* What drain() and finish() of the response's reader and writer, and drain() of
\* the request's reader, leave of the connections.
FrontReader == req.persist
FrontWriter == ClientFraming # "eof"
BackReader == resp.persist /\ resp.f # "eof"

FrontReusableUnzipped == FrontReader
FrontReusable == FrontReader /\ FrontWriter

\* Both futures of the join have resolved.
JoinedEarly == downSt \in {"ok", "err"}
Joined == {upSt, downSt} \subseteq {"ok", "err"}

Join ==
  /\ pc = "bodies" /\ Joined
  /\ IF upSt = "err" \/ downSt = "err"
     THEN pc' = "failed" /\ UNCHANGED <<frontReuse, backReuse>>
     ELSE pc' = "done" /\ frontReuse' = FrontReusable /\ backReuse' = BackReader
  /\ UNCHANGED <<peers, upProxy, downProxy, ends, tries, replied>>

-----------------------------------------------------------------------------
(* The caller answers for the backend. *)

\* The body reader is only left when there was no forwarder to drop it.
Reply ==
  /\ pc = "reply"
  /\ replied' = TRUE
  /\ pc' \in IF upSt = "idle" THEN {"drain", "failed"} ELSE {"failed"}
  /\ UNCHANGED <<peers, upProxy, downProxy, ends, tries, frontReuse, backReuse>>

ReplyFails ==
  /\ pc = "reply" /\ ~cAlive
  /\ OnlyPending("failed")
  /\ UNCHANGED <<peers, downProxy, ends>>

DrainSome ==
  /\ pc = "drain"
  /\ \E k \in {"body", "end"} : Due(cSent, upIn, k) /\ upIn' = Put(upIn, k)
  /\ UNCHANGED <<peers, upOut, upDone, upSt, downProxy, ends, caller>>

Drained == Whole(upIn, req.f, req.len)

Drain ==
  /\ pc = "drain" /\ Drained
  /\ pc' = "done" /\ frontReuse' = FrontReader
  /\ UNCHANGED <<peers, upProxy, downProxy, ends, tries, replied, backReuse>>

DrainFails ==
  /\ pc = "drain" /\ ~cAlive
  /\ OnlyPending("failed")
  /\ UNCHANGED <<peers, downProxy, ends>>

-----------------------------------------------------------------------------
Client == ClientSends \/ ClientReads
Origin == OriginReads \/ OriginInforms \/ OriginAnswers \/ OriginSends
UpLeg == UpCopies \/ UpBodyFinished \/ UpTerminates \/ UpFails
DownLeg == DownCopies \/ DownFails
Caller == \/ Accept \/ Reject \/ Forward \/ ForwardFails
          \/ ReadHead \/ RejectHead \/ ReadHeadFails
          \/ ForwardInfo \/ ForwardInfoFails \/ SendHead \/ SendHeadFails
          \/ Join \/ Reply \/ ReplyFails \/ DrainSome \/ Drain \/ DrainFails

Terminated == pc \in {"done", "failed"} /\ UNCHANGED vars

Next == Client \/ ClientDies \/ Origin \/ OriginDies \/ UpLeg \/ DownLeg \/ Caller
        \/ Terminated

Spec == Init /\ [][Next]_vars

\* The tasks of the peers and of the proxy go on: the peers read what arrives and
\* send what is due, and the executor polls what can make progress.
Fairness ==
  /\ WF_vars(ClientSends) /\ WF_vars(ClientReads)
  /\ WF_vars(OriginReads) /\ WF_vars(OriginInforms \/ OriginAnswers)
  /\ WF_vars(OriginSends)
  /\ WF_vars(UpLeg) /\ WF_vars(DownLeg) /\ WF_vars(Caller)

FairSpec == Spec /\ Fairness

-----------------------------------------------------------------------------
(* Properties *)

\* A connection handed back for the next exchange stands between two messages.  On the
\* frontend's the request was read to its end and no further, and the answer that is on
\* the wire is whole and does not end with the connection.  To the backend's, the origin
\* was sent the whole request, its response was read to the end, and it has not said
\* that it will close.  Otherwise the next message would be taken for a piece of this
\* one, or a request be answered with a piece of the last answer.
ReuseClean ==
  /\ frontReuse =>
       /\ req.persist
       /\ Whole(upIn, req.f, req.len)
       /\ replied \/ (ClientFraming # "eof" /\ Whole(downOut, ClientFraming, resp.len))
  /\ backReuse =>
       /\ resp.persist /\ resp.f # "eof"
       /\ Whole(upOut, req.f, req.len)
       /\ Whole(downIn, resp.f, resp.len)

\* A successful exchange brought both messages over completely ("The early response
\* must not truncate the upload").
DoneMeansBoth ==
  (pc = "done" /\ ~replied) =>
    /\ Whole(upOut, req.f, req.len)
    /\ Whole(downOut, ClientFraming, resp.len)

\* The client gets one final answer: once a head of the backend's went out, or part of
\* its body, the caller can no longer answer on its behalf.  An HTTP/1.0 client gets no
\* interim responses, any other gets all of them, and before the final one.
OneAnswer ==
  /\ replied => downOut["head"] = 0 /\ downOut["body"] = 0
  /\ req.v10 => downOut["info"] = 0
  /\ (~req.v10 /\ downOut["head"] = 1) => downOut["info"] = oSent["info"]

\* Each direction keeps the promise of BodyCopy, whatever befalls the other.
UpCopy == INSTANCE BodyCopy WITH
  delimited <- TRUE, total <- req.len, arrived <- cSent["body"],
  ended <- RequestEnds,
  received <- upOut["body"],
  complete <- Whole(upOut, req.f, req.len),
  report <- IF upSt = "ok" THEN "done" ELSE IF upSt = "err" THEN "failed" ELSE "busy"

\* The close of the connection looks like the end of a body sent to the close.
DownCopy == INSTANCE BodyCopy WITH
  delimited <- (ClientFraming # "eof"), total <- resp.len, arrived <- oSent["body"],
  ended <- ResponseEnds,
  received <- downOut["body"],
  complete <- \/ Whole(downOut, ClientFraming, resp.len)
              \/ ClientFraming = "eof" /\ downOut["head"] = 1 /\ downSt = "err",
  report <- IF downSt = "ok" THEN "done"
            ELSE IF downSt = "err" THEN "failed" ELSE "busy"

BothAreCopies == UpCopy!Spec /\ DownCopy!Spec

\* Whatever fails, the exchange comes to an end, and in particular a peer that reads only
\* once it has written is not left waiting for the other direction.  Not so if the other
\* peer of such a one dies: nobody reads from it any more, and the join waits for a write
\* to it that it will not read.
Abandoned == ("client" \in habits /\ ~oAlive) \/ ("origin" \in habits /\ ~cAlive)

ExchangeEnds == <>(pc \in {"done", "failed"} \/ Abandoned)

\* If neither peer dies, the client gets the whole response, with clients that hold
\* the body back for a 100 and origins that hold the answer back for the body.
ResponseDelivered == <>(Whole(cGot, ClientFraming, resp.len) \/ ~cAlive \/ ~oAlive)

\* "some origins will not respond until they have received the full request body,
\* which would otherwise deadlock" (proxy/src/lib.rs, of read_backend_response):
\* while the head of the response is awaited, a request the client has sent in
\* full reaches the origin in full.
RequestReachesOrigin ==
  (pc = "await" /\ RequestEnds) ~> (Whole(oGot, req.f, req.len) \/ pc # "await")
=============================================================================
