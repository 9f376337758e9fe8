--------------------------- MODULE ExchangeProofs ---------------------------
(***************************************************************************)
(* For pipes of any capacity, bodies of any length and any number of       *)
(* interim responses and of backends tried: connections are handed back    *)
(* between two messages, a successful exchange brought over both messages, *)
(* the client gets one answer, and each direction is a copy of its body.   *)
(***************************************************************************)
EXTENDS Exchange, TLAPS

USE WireAssumption, ExchangeAssumption

LegStages == Up!Stages

\* What is true of a leg whoever drives it, from a source that frames by f to a sink
\* that is written to in w: a point of the stream is never ahead of the one before; the
\* forwarder notes the end only when it has all of the body; the head goes out before
\* it copies anything; and the terminator is what makes it succeed.
LegInv(f, w, n, sent, in, out, done, st) ==
  /\ \A k \in Kinds : in[k] <= sent[k]
  /\ sent["head"] <= 1 /\ sent["body"] <= n /\ sent["end"] <= Ends(f)
  /\ sent["head"] = 0 => sent["body"] = 0 /\ sent["end"] = 0
  /\ out["body"] <= in["body"]
  /\ done => in["body"] = n /\ in["end"] = Ends(f)
  /\ st = "idle" => out["head"] = 0 /\ out["body"] = 0
  /\ st # "idle" => out["head"] = 1 /\ in["head"] = 1
  /\ st # "ok" => out["end"] = 0
  /\ st = "ok" => done /\ out["body"] = in["body"] /\ out["end"] = Ends(w)

UpInv == LegInv(req.f, req.f, req.len, cSent, upIn, upOut, upDone, upSt)
DownInv ==
  LegInv(resp.f, ClientFraming, resp.len, oSent, downIn, downOut, downDone, downSt)

\* Where the forwarders are when the caller holds what it holds.
StageInv ==
  /\ upIn["head"] = 1
  /\ pc \in {"request", "forward", "drain"} => upSt = "idle"
  /\ pc \in {"await", "info", "final"} => upSt \in {"copy", "whole"}
  /\ pc = "reply" => upSt \in {"idle", "err"}
  /\ pc \notin {"bodies", "done", "failed"} => downSt = "idle"
  /\ pc = "final" => downIn["head"] = 1
  /\ pc = "bodies" => upSt # "idle" /\ downSt # "idle"
  /\ pc = "done" => IF replied THEN Drained ELSE upSt = "ok" /\ downSt = "ok"

\* A caller that answered for the backend has nothing left of the response.
ReplyInv ==
  /\ replied => downSt = "idle" /\ pc \in {"drain", "done", "failed"}
  /\ pc = "drain" => replied

\* What is handed back was found reusable at the end.
ReuseInv ==
  /\ frontReuse \/ backReuse => pc = "done"
  /\ frontReuse => req.persist /\ (replied \/ ClientFraming # "eof")
  /\ backReuse => ~replied /\ resp.persist /\ resp.f # "eof"

\* The interim heads: at most the one in hand has been read and not forwarded, and none
\* comes after the final head.
InterimInv ==
  /\ downIn["head"] = 1 => downIn["info"] = oSent["info"]
  /\ req.v10 => downOut["info"] = 0
  /\ ~req.v10 =>
       /\ pc \in {"request", "forward", "await", "final"} =>
            downOut["info"] = downIn["info"]
       /\ pc = "info" => downOut["info"] + 1 = downIn["info"]
       /\ downOut["head"] = 1 => downOut["info"] = oSent["info"]

\* TypeOK, one variable at a time.
Types ==
  /\ req \in Requests /\ resp \in Responses /\ habits \subseteq Habits
  /\ pc \in Stages /\ tries \in 1..MaxTries /\ replied \in BOOLEAN
  /\ cSent \in Position /\ upIn \in Position /\ upOut \in Position /\ oGot \in Position
  /\ upDone \in BOOLEAN /\ upSt \in LegStages
  /\ oSent \in Position /\ downIn \in Position /\ downOut \in Position
  /\ cGot \in Position
  /\ downDone \in BOOLEAN /\ downSt \in LegStages
  /\ cAlive \in BOOLEAN /\ oAlive \in BOOLEAN
  /\ frontReuse \in BOOLEAN /\ backReuse \in BOOLEAN

IInv ==
  /\ Types
  /\ UpInv /\ DownInv
  /\ StageInv /\ ReplyInv /\ ReuseInv /\ InterimInv

-----------------------------------------------------------------------------
(* Positions *)

\* One more unit of a kind, and no other.
LEMMA PutMeans ==
  ASSUME NEW p \in Position, NEW k \in Kinds
  PROVE  /\ Put(p, k) \in Position
         /\ Put(p, k)[k] = p[k] + 1
         /\ \A j \in Kinds : j # k => Put(p, k)[j] = p[j]
  BY DEF Put, Position

\* The kinds, and what a position counts.
LEMMA Counts ==
  /\ {"info", "head", "body", "end"} = Kinds
  /\ \A p \in Position : \A k \in Kinds : p[k] \in Nat
  /\ Start \in Position /\ \A k \in Kinds : Start[k] = 0
  /\ \A f : Ends(f) \in {0, 1}
  BY DEF Kinds, Position, Start, Ends

-----------------------------------------------------------------------------
(* What happens to a leg *)

\* The source sends: its head first, then no more than the body and the end of it.
LEMMA LegSource ==
  ASSUME NEW f, NEW w, NEW n \in Nat, NEW sent \in Position, NEW in \in Position,
         NEW out \in Position, NEW done, NEW st,
         LegInv(f, w, n, sent, in, out, done, st),
         NEW k \in Kinds,
         k = "head" => sent["head"] = 0,
         k = "body" => sent["head"] = 1 /\ sent["body"] < n,
         k = "end" => sent["head"] = 1 /\ sent["end"] < Ends(f)
  PROVE  LegInv(f, w, n, Put(sent, k), in, out, done, st)
<1> DEFINE q == Put(sent, k)
<1>1. q \in Position /\ q[k] = sent[k] + 1 /\ \A j \in Kinds : j # k => q[j] = sent[j]
  BY PutMeans
<1> HIDE DEF q
<1>2. \A j \in Kinds : in[j] <= q[j]
  BY <1>1, Counts DEF LegInv
<1>3. q["head"] <= 1 /\ q["body"] <= n /\ q["end"] <= Ends(f)
  BY <1>1, Counts DEF LegInv
<1>4. q["head"] = 0 => q["body"] = 0 /\ q["end"] = 0
  BY <1>1, Counts DEF LegInv
<1> QED
  BY <1>2, <1>3, <1>4 DEF LegInv, q

\* The reader takes what was sent.
LEMMA LegTake ==
  ASSUME NEW f, NEW w, NEW n \in Nat, NEW sent \in Position, NEW in \in Position,
         NEW out \in Position, NEW done, NEW st,
         LegInv(f, w, n, sent, in, out, done, st),
         NEW k \in Kinds, in[k] < sent[k],
         st # "idle" => k # "head", st = "ok" => k # "body"
  PROVE  LegInv(f, w, n, sent, Put(in, k), out, done, st)
<1> DEFINE q == Put(in, k)
<1>1. q \in Position /\ q[k] = in[k] + 1 /\ \A j \in Kinds : j # k => q[j] = in[j]
  BY PutMeans
<1> HIDE DEF q
<1>2. \A j \in Kinds : q[j] <= sent[j]
  BY <1>1, Counts DEF LegInv
<1>3. out["body"] <= q["body"]
  BY <1>1, Counts DEF LegInv
<1>4. done => q["body"] = n /\ q["end"] = Ends(f)
  BY <1>1, Counts DEF LegInv
<1>5. st # "idle" => q["head"] = 1
  BY <1>1, Counts DEF LegInv
<1>6. st = "ok" => q["body"] = in["body"]
  BY <1>1, Counts
<1> QED
  BY <1>2, <1>3, <1>4, <1>5, <1>6 DEF LegInv, q

\* The forwarder has been told that the body is over.
LEMMA LegEnd ==
  ASSUME NEW f, NEW w, NEW n \in Nat, NEW sent \in Position, NEW in \in Position,
         NEW out \in Position, NEW done, NEW st \in LegStages,
         LegInv(f, w, n, sent, in, out, done, st),
         st \in {"copy", "whole"}, in["body"] = n,
         NEW in2 \in Position,
         IF Ends(f) = 1 THEN in["end"] < sent["end"] /\ in2 = Put(in, "end") ELSE in2 = in
  PROVE  LegInv(f, w, n, sent, in2, out, TRUE, st)
<1>1. CASE Ends(f) = 1
  <2>1. LegInv(f, w, n, sent, Put(in, "end"), out, done, st)
    BY <1>1, LegTake, Counts
  <2>2. in2["body"] = in["body"] /\ in2["end"] = in["end"] + 1 /\ in2 = Put(in, "end")
    BY <1>1, PutMeans, Counts
  <2>3. in2["end"] = 1
    BY <1>1, <2>1, <2>2, Counts DEF LegInv
  <2> QED
    BY <1>1, <2>1, <2>2, <2>3 DEF LegInv
<1>2. CASE Ends(f) # 1
  <2>1. Ends(f) = 0
    BY <1>2, Counts
  <2>2. in["end"] = 0
    BY <2>1, Counts DEF LegInv
  <2> QED
    BY <1>2, <2>1, <2>2 DEF LegInv
<1> QED
  BY <1>1, <1>2

\* The writer sends what the reader took, or an interim head.
LEMMA LegSend ==
  ASSUME NEW f, NEW w, NEW n \in Nat, NEW sent \in Position, NEW in \in Position,
         NEW out \in Position, NEW done, NEW st,
         LegInv(f, w, n, sent, in, out, done, st),
         NEW k \in {"info", "body"},
         k = "body" => out["body"] < in["body"] /\ st \notin {"idle", "ok"}
  PROVE  LegInv(f, w, n, sent, in, Put(out, k), done, st)
<1> DEFINE q == Put(out, k)
<1>1. q \in Position /\ q[k] = out[k] + 1 /\ \A j \in Kinds : j # k => q[j] = out[j]
  BY PutMeans, Counts
<1> HIDE DEF q
<1>2. q["body"] <= in["body"] /\ q["head"] = out["head"] /\ q["end"] = out["end"]
  BY <1>1, Counts DEF LegInv
<1>3. st \in {"idle", "ok"} => q["body"] = out["body"]
  BY <1>1, Counts
<1> QED
  BY <1>2, <1>3 DEF LegInv, q

\* The head goes out and the forwarder begins.
LEMMA LegBegin ==
  ASSUME NEW f, NEW w, NEW n \in Nat, NEW sent \in Position, NEW in \in Position,
         NEW out \in Position, NEW done,
         LegInv(f, w, n, sent, in, out, done, "idle"), in["head"] = 1
  PROVE  LegInv(f, w, n, sent, in, Put(out, "head"), done, "copy")
<1> DEFINE q == Put(out, "head")
<1>1. q["head"] = out["head"] + 1 /\ q["body"] = out["body"] /\ q["end"] = out["end"]
  BY PutMeans, Counts
<1> HIDE DEF q
<1>2. q["head"] = 1 /\ q["end"] = 0 /\ q["body"] = out["body"]
  BY <1>1, Counts DEF LegInv
<1> QED
  BY <1>2 DEF LegInv, q

\* finish() has written the terminator, if there is one.
LEMMA LegFinish ==
  ASSUME NEW f, NEW w, NEW n \in Nat, NEW sent \in Position, NEW in \in Position,
         NEW out \in Position, NEW st,
         LegInv(f, w, n, sent, in, out, TRUE, st),
         st \in {"copy", "whole"}, ~(out["body"] < in["body"]),
         NEW out2,
         IF Ends(w) = 1 THEN out2 = Put(out, "end") ELSE out2 = out
  PROVE  LegInv(f, w, n, sent, in, out2, TRUE, "ok")
<1>1. out["body"] = in["body"] /\ out["end"] = 0 /\ out["head"] = 1
  BY Counts DEF LegInv
<1>2. out2["body"] = in["body"] /\ out2["head"] = 1
  <2>1. Put(out, "end")["body"] = out["body"] /\ Put(out, "end")["head"] = out["head"]
    BY PutMeans, Counts
  <2> QED
    BY <1>1, <2>1
<1>3. CASE Ends(w) = 1
  <2>1. out2["end"] = 0 + 1
    BY <1>1, <1>3, PutMeans, Counts
  <2> QED
    BY <1>2, <1>3, <2>1 DEF LegInv
<1>4. CASE Ends(w) # 1
  <2>1. Ends(w) = 0 /\ out2["end"] = 0
    BY <1>1, <1>4, Counts
  <2> QED
    BY <1>2, <2>1 DEF LegInv
<1> QED
  BY <1>3, <1>4

\* A leg that has ended well brought the whole message over.
LEMMA LegOk ==
  ASSUME NEW f, NEW w, NEW n \in Nat, NEW sent \in Position, NEW in \in Position,
         NEW out \in Position, NEW done,
         LegInv(f, w, n, sent, in, out, done, "ok")
  PROVE  Whole(in, f, n) /\ Whole(out, w, n) /\ Whole(sent, f, n)
<1>1. /\ in["head"] = 1 /\ in["body"] = n /\ in["end"] = Ends(f)
      /\ out["head"] = 1 /\ out["body"] = n /\ out["end"] = Ends(w)
  BY DEF LegInv
<1>2. sent["head"] = 1 /\ sent["body"] = n /\ sent["end"] = Ends(f)
  BY <1>1, Counts DEF LegInv
<1> QED
  BY <1>1, <1>2 DEF Whole

\* Whatever a leg is at, a message that is whole behind it was whole before it, if both
\* are ended in as many units.
LEMMA LegWhole ==
  ASSUME NEW f, NEW w, NEW n \in Nat, NEW sent \in Position, NEW in \in Position,
         NEW out \in Position, NEW done, NEW st,
         LegInv(f, w, n, sent, in, out, done, st), Ends(w) = Ends(f), Whole(out, w, n)
  PROVE  Whole(sent, f, n)
<1>1. CASE st = "ok"
  BY <1>1, LegOk
<1>2. CASE st # "ok"
  <2>1. out["head"] = 1 /\ out["body"] = n /\ Ends(f) = 0 /\ in["head"] = 1
    BY <1>2, Counts DEF LegInv, Whole
  <2>2. sent["head"] = 1 /\ sent["body"] = n /\ sent["end"] = 0
    BY <2>1, Counts DEF LegInv
  <2> QED
    BY <2>1, <2>2 DEF Whole
<1> QED
  BY <1>1, <1>2

\* A forwarder may be dropped before it succeeds, or note that forward() is over.
LEMMA LegDrop ==
  ASSUME NEW f, NEW w, NEW n, NEW sent, NEW in, NEW out, NEW done, NEW st, NEW st2,
         LegInv(f, w, n, sent, in, out, done, st),
         st # "ok", st2 # "ok", st2 = "idle" <=> st = "idle"
  PROVE  LegInv(f, w, n, sent, in, out, done, st2)
  BY DEF LegInv

-----------------------------------------------------------------------------
(* The invariant *)

\* The legs count units as the exchange does.
LEMMA SameWire ==
  /\ Up!Position = Position /\ Down!Position = Position
  /\ \A p, k : Up!Put(p, k) = Put(p, k) /\ Down!Put(p, k) = Put(p, k)
  /\ \A f : Up!Ends(f) = Ends(f) /\ Down!Ends(f) = Ends(f)
  /\ \A a, b, k : (Up!Due(a, b, k) => b[k] < a[k]) /\ (Down!Due(a, b, k) => b[k] < a[k])
  BY DEF Up!Position, Down!Position, Position, Up!Kinds, Down!Kinds, Kinds, Up!Put, Down!Put,
         Put, Up!Ends, Down!Ends, Ends, Up!Due, Down!Due

\* What they say of each variable.
LEMMA Typed ==
  ASSUME Types
  PROVE  /\ {cSent, upIn, upOut, oGot, oSent, downIn, downOut, cGot} \subseteq Position
         /\ upDone \in BOOLEAN /\ upSt \in LegStages
         /\ downDone \in BOOLEAN /\ downSt \in LegStages
         /\ req.len \in Nat /\ resp.len \in Nat
         /\ req.persist \in BOOLEAN /\ resp.persist \in BOOLEAN
<1>1. req \in Requests /\ resp \in Responses
  BY DEF Types
<1>2. Lengths \subseteq Nat /\ Persist \subseteq BOOLEAN
  OBVIOUS
<1>3. /\ req.len \in Nat /\ resp.len \in Nat
      /\ req.persist \in BOOLEAN /\ resp.persist \in BOOLEAN
  BY <1>1, <1>2 DEF Requests, Responses
<1> QED
  BY <1>3 DEF Types

\* A forwarder never writes more of the body than it read, nor reads more than there is.
LEMMA LegOrder ==
  ASSUME NEW f, NEW w, NEW n \in Nat, NEW sent \in Position, NEW in \in Position,
         NEW out \in Position, NEW done, NEW st,
         LegInv(f, w, n, sent, in, out, done, st)
  PROVE  out["body"] <= in["body"] /\ in["body"] <= n
<1>1. in["body"] <= sent["body"] /\ sent["body"] <= n
  BY Counts DEF LegInv
<1> QED
  BY <1>1, Counts DEF LegInv

\* The types the invariant carries, and the order of the legs' points, are those of the
\* module.
LEMMA TypeOKMeans ==
  ASSUME Types, UpInv, DownInv
  PROVE  TypeOK
<1>1. Down!Stages = LegStages
  BY DEF Down!Stages, Up!Stages, LegStages
<1>2. upOut["body"] <= upIn["body"] /\ upIn["body"] <= req.len
  BY Typed, LegOrder DEF UpInv
<1>3. downOut["body"] <= downIn["body"] /\ downIn["body"] <= resp.len
  BY Typed, LegOrder DEF DownInv
<1>4. Up!LegTypeOK
  BY <1>2, SameWire DEF Up!LegTypeOK, LegStages, Types
<1>5. Down!LegTypeOK
  BY <1>1, <1>3, SameWire DEF Down!LegTypeOK, Types
<1>6. {cAlive, oAlive, frontReuse, backReuse} \subseteq BOOLEAN
  BY DEF Types
<1> QED
  BY <1>4, <1>5, <1>6, Zenon DEF TypeOK, Types

\* The request's leg, if nothing of it changed.
LEMMA UpSame ==
  UpInv /\ UNCHANGED <<req, cSent, upIn, upOut, upDone, upSt>> => UpInv'
  BY DEF UpInv, LegInv

\* The same of the response's.
LEMMA DownSame ==
  DownInv /\ UNCHANGED <<req, resp, oSent, downIn, downOut, downDone, downSt>> => DownInv'
  BY DEF DownInv, LegInv, ClientFraming

\* The frame of a step that moves no forwarder and leaves the caller where it is.
LEMMA CallerSame ==
  ASSUME StageInv, ReplyInv, ReuseInv, UNCHANGED <<req, resp, upProxy, downProxy, caller>>
  PROVE  StageInv' /\ ReplyInv' /\ ReuseInv'
  BY DEF StageInv, ReplyInv, ReuseInv, upProxy, downProxy, caller, Drained, Whole, ClientFraming

\* Before anything has been sent the legs are idle.
LEMMA InitInv == Init => IInv
<1> SUFFICES ASSUME Init PROVE IInv
  OBVIOUS
<1>1. req \in Requests /\ resp \in Responses /\ req.len \in Nat /\ resp.len \in Nat
  <2>1. req \in Requests /\ resp \in Responses
    BY DEF Init
  <2>2. Lengths \subseteq Nat
    OBVIOUS
  <2> QED
    BY <2>1, <2>2 DEF Requests, Responses
<1>2. Put(Start, "head") \in Position /\ Start \in Position
  BY PutMeans, Counts
<1>3. Types
  <2>1. /\ cSent \in Position /\ upIn \in Position /\ upOut \in Position /\ oGot \in Position
        /\ oSent \in Position /\ downIn \in Position /\ downOut \in Position
        /\ cGot \in Position
    BY <1>2 DEF Init
  <2>2. pc \in Stages /\ upSt \in LegStages /\ downSt \in LegStages
    BY DEF Init, Stages, Up!Stages, LegStages
  <2>3. tries \in 1..MaxTries
    <3>1. tries = 1
      BY DEF Init
    <3>2. 1 \in 1..MaxTries
      OBVIOUS
    <3> QED
      BY <3>1, <3>2
  <2>4. /\ habits \subseteq Habits /\ replied \in BOOLEAN /\ upDone \in BOOLEAN
        /\ downDone \in BOOLEAN /\ cAlive \in BOOLEAN /\ oAlive \in BOOLEAN
        /\ frontReuse \in BOOLEAN /\ backReuse \in BOOLEAN
    BY DEF Init
  <2> QED
    BY <1>1, <2>1, <2>2, <2>3, <2>4 DEF Types
<1>4. /\ Put(Start, "head")["head"] = 0 + 1
      /\ \A k \in Kinds : k # "head" => Put(Start, "head")[k] = 0
  BY PutMeans, Counts
<1>5. UpInv
  <2>1. cSent = Put(Start, "head") /\ upIn = cSent /\ upOut = Start /\ upSt = "idle" /\ upDone = FALSE
    BY DEF Init
  <2>2. \A k \in Kinds : upIn[k] <= cSent[k]
    BY <1>2, <2>1, Counts
  <2> QED
    BY <1>1, <1>4, <2>1, <2>2, Counts DEF UpInv, LegInv
<1>6. DownInv
  BY <1>1, Counts DEF Init, DownInv, LegInv
<1>7. StageInv
  BY <1>4 DEF Init, StageInv
<1>8. ReplyInv /\ ReuseInv
  BY DEF Init, ReplyInv, ReuseInv
<1>9. InterimInv
  BY Counts DEF Init, InterimInv
<1> QED
  BY <1>3, <1>5, <1>6, <1>7, <1>8, <1>9 DEF IInv

\* The client.
LEMMA ClientStep == IInv /\ (Client \/ ClientDies) => IInv'
<1> SUFFICES ASSUME IInv, Client \/ ClientDies PROVE IInv'
  OBVIOUS
<1>1. /\ Types /\ UpInv /\ DownInv /\ StageInv /\ ReplyInv /\ ReuseInv /\ InterimInv
      /\ {cSent, cGot} \subseteq Position /\ req.len \in Nat
  BY Typed DEF IInv
<1>2. UNCHANGED <<req, resp, upProxy, downProxy, caller, oSent>>
  BY DEF Client, ClientSends, ClientReads, ClientDies, peers, ends
<1>3. DownInv' /\ InterimInv'
  <2>1. DownInv'
    BY <1>1, <1>2, DownSame DEF downProxy
  <2> QED
    BY <1>1, <1>2, <2>1 DEF InterimInv, downProxy, caller
<1>4. CASE ClientSends
  <2>1. PICK k \in {"body", "end"} :
          /\ k = "body" => cSent["body"] < req.len
          /\ k = "end" => cSent["body"] = req.len /\ cSent["end"] < Ends(req.f)
          /\ cSent' = Put(cSent, k)
    BY <1>4 DEF ClientSends
  <2>2. cSent["head"] = 1
    <3>1. upIn["head"] = 1 /\ upIn["head"] <= cSent["head"] /\ cSent["head"] <= 1
      BY <1>1, Counts DEF StageInv, UpInv, LegInv
    <3>2. cSent["head"] \in Nat
      BY <1>1, Counts
    <3> QED
      BY <3>1, <3>2
  <2>3. UpInv'
    <3>1. LegInv(req.f, req.f, req.len, cSent', upIn, upOut, upDone, upSt)
      BY <1>1, <2>1, <2>2, LegSource, Typed, Counts DEF UpInv
    <3> QED
      BY <1>2, <3>1 DEF UpInv, upProxy
  <2>4. Types'
    <3>1. cSent' \in Position
      BY <1>1, <2>1, PutMeans, Counts
    <3> QED
      BY <1>1, <1>2, <1>4, <3>1
         DEF ClientSends, Types, peers, upProxy, downProxy, caller
  <2> QED
    BY <1>1, <1>2, <1>3, <2>3, <2>4, CallerSame DEF IInv
<1>5. CASE ClientReads
  <2>1. cGot' \in Position
    BY <1>1, <1>5, PutMeans DEF ClientReads
  <2>2. Types'
    BY <1>1, <1>2, <1>5, <2>1
       DEF ClientReads, Types, peers, upProxy, downProxy, caller
  <2>3. UpInv'
    BY <1>1, <1>2, <1>5, UpSame DEF ClientReads, upProxy
  <2> QED
    BY <1>1, <1>2, <1>3, <2>2, <2>3, CallerSame DEF IInv
<1>6. CASE ClientDies
  <2>1. Types'
    BY <1>1, <1>2, <1>6
       DEF ClientDies, Types, ends, upProxy, downProxy, caller
  <2>2. UpInv'
    BY <1>1, <1>2, <1>6, UpSame DEF ClientDies, upProxy, ends
  <2> QED
    BY <1>1, <1>2, <1>3, <2>1, <2>2, CallerSame DEF IInv
<1> QED
  BY <1>4, <1>5, <1>6 DEF Client

\* The origin.
LEMMA OriginStep == IInv /\ (Origin \/ OriginDies) => IInv'
<1> SUFFICES ASSUME IInv, Origin \/ OriginDies PROVE IInv'
  OBVIOUS
<1>1. /\ Types /\ UpInv /\ DownInv /\ StageInv /\ ReplyInv /\ ReuseInv /\ InterimInv
      /\ {oSent, oGot, downIn, downOut} \subseteq Position /\ resp.len \in Nat
  BY Typed DEF IInv
<1>2. UNCHANGED <<req, resp, upProxy, downProxy, caller, cSent>>
  BY DEF Origin, OriginReads, OriginInforms, OriginAnswers, OriginSends, OriginDies, peers, ends
<1>3. UpInv'
  BY <1>1, <1>2, UpSame DEF upProxy
<1>4. StageInv' /\ ReplyInv' /\ ReuseInv'
  BY <1>1, <1>2, CallerSame
<1>5. ASSUME NEW k \in {"info", "head", "body", "end"}, oSent' = Put(oSent, k),
             k \in {"info", "head"} => oSent["head"] = 0,
             k = "body" => oSent["head"] = 1 /\ oSent["body"] < resp.len,
             k = "end" => oSent["head"] = 1 /\ oSent["end"] < Ends(resp.f),
             UNCHANGED <<peers, oGot, cGot>>
      PROVE  IInv'
  <2>1. oSent' \in Position /\ \A j \in Kinds : j # k => oSent'[j] = oSent[j]
    BY <1>1, <1>5, PutMeans, Counts
  <2>2. Types'
    BY <1>1, <1>2, <1>5, <2>1
       DEF Types, peers, upProxy, downProxy, caller
  <2>3. DownInv'
    <3>1. LegInv(resp.f, ClientFraming, resp.len, oSent', downIn, downOut, downDone, downSt)
      BY <1>1, <1>5, LegSource, Typed, Counts DEF DownInv
    <3> QED
      BY <1>2, <3>1 DEF DownInv, downProxy, ClientFraming
  <2>4. InterimInv'
    <3>1. oSent'["info"] = oSent["info"] \/ oSent["head"] = 0
      BY <1>5, <2>1, Counts
    <3>2. oSent["head"] = 0 => downIn["head"] # 1 /\ downOut["head"] # 1
      <4>1. downIn["head"] <= oSent["head"]
        BY <1>1, Counts DEF DownInv, LegInv
      <4>2. downOut["head"] = 1 => downIn["head"] = 1
        BY <1>1 DEF DownInv, LegInv
      <4> QED
        BY <4>1, <4>2
    <3> QED
      BY <1>1, <1>2, <3>1, <3>2 DEF InterimInv, downProxy, caller
  <2> QED
    BY <1>3, <1>4, <2>2, <2>3, <2>4 DEF IInv
<1>6. CASE OriginReads \/ OriginDies
  <2>1. oGot' \in Position /\ oSent' = oSent /\ cGot' = cGot /\ cAlive' = cAlive /\ habits' = habits
        /\ oAlive' \in BOOLEAN
    <3>1. CASE OriginReads
      BY <1>1, <3>1, PutMeans DEF OriginReads, peers, Types
    <3>2. CASE OriginDies
      BY <1>1, <3>2 DEF OriginDies, ends
    <3> QED
      BY <1>6, <3>1, <3>2
  <2>2. Types'
    BY <1>1, <1>2, <2>1 DEF Types, upProxy, downProxy, caller
  <2>3. DownInv'
    BY <1>1, <1>2, <2>1, DownSame DEF downProxy
  <2>4. InterimInv'
    BY <1>1, <1>2, <2>1 DEF InterimInv, downProxy, caller
  <2> QED
    BY <1>3, <1>4, <2>2, <2>3, <2>4 DEF IInv
<1>7. CASE OriginInforms
  BY <1>5, <1>7 DEF OriginInforms
<1>8. CASE OriginAnswers
  BY <1>5, <1>8 DEF OriginAnswers
<1>9. CASE OriginSends
  <2>1. PICK k \in {"body", "end"} :
          /\ k = "body" => oSent["body"] < resp.len
          /\ k = "end" => oSent["body"] = resp.len /\ oSent["end"] < Ends(resp.f)
          /\ oSent' = Put(oSent, k)
    BY <1>9 DEF OriginSends
  <2>2. oSent["head"] = 1 /\ UNCHANGED <<peers, oGot, cGot>>
    BY <1>9 DEF OriginSends
  <2> QED
    BY <1>5, <2>1, <2>2
<1> QED
  BY <1>6, <1>7, <1>8, <1>9 DEF Origin

\* The next unit of a pipe has not passed yet, and all that goes before it has.
LEMMA DueMeans ==
  ASSUME NEW a \in Position, NEW b \in Position, NEW k \in Kinds, Due(a, b, k)
  PROVE  b[k] < a[k] /\ (k = "head" => b["info"] = a["info"])
  BY DEF Due, Earlier

\* A forwarder that has not succeeded is dropped, and the caller is left with a
\* PendingFrontendResponse, or with nothing.
LEMMA OnlyPendingStep ==
  ASSUME IInv, NEW stage, OnlyPending(stage), UNCHANGED <<peers, downProxy, ends>>,
         upSt # "ok",
         \/ stage = "reply" /\ pc \in {"request", "await"}
         \/ stage = "failed" /\ pc \in {"info", "final", "reply", "drain"}
         \/ stage = "bodies" /\ pc = "bodies"
  PROVE  IInv'
<1>1. Types /\ UpInv /\ DownInv /\ StageInv /\ ReplyInv /\ ReuseInv /\ InterimInv
  BY DEF IInv
<1>2. /\ pc' = stage /\ upSt' = IF upSt = "idle" THEN "idle" ELSE "err"
      /\ UNCHANGED <<upIn, upOut, upDone, tries, replied, frontReuse, backReuse>>
  BY DEF OnlyPending, Up!Dropped
<1>3. UNCHANGED <<req, resp, habits, cAlive, oAlive, downIn, downOut, downDone, downSt,
                  cSent, oGot, oSent, cGot>>
  BY DEF peers, downProxy, ends
<1>4. upSt' \in LegStages /\ stage \in Stages
  BY <1>1, <1>2 DEF Types, LegStages, Up!Stages, Stages
<1>5. Types'
  BY <1>1, <1>2, <1>3, <1>4 DEF Types
<1>6. UpInv'
  BY <1>1, <1>2, <1>3, LegDrop DEF UpInv
<1>7. DownInv'
  BY <1>1, <1>3, DownSame
<1>8. StageInv'
  BY <1>1, <1>2, <1>3 DEF StageInv
<1>9. ReplyInv' /\ ReuseInv'
  BY <1>1, <1>2, <1>3 DEF ReplyInv, ReuseInv
<1>10. InterimInv'
  BY <1>1, <1>2, <1>3 DEF InterimInv
<1> QED
  BY <1>5, <1>6, <1>7, <1>8, <1>9, <1>10 DEF IInv

\* from_request and BackendProxyRequest::forward.
LEMMA RequestStep == IInv /\ (Accept \/ Reject \/ Forward \/ ForwardFails) => IInv'
<1> SUFFICES ASSUME IInv, Accept \/ Reject \/ Forward \/ ForwardFails PROVE IInv'
  OBVIOUS
<1>1. Types /\ UpInv /\ DownInv /\ StageInv /\ ReplyInv /\ ReuseInv /\ InterimInv
  BY DEF IInv
<1>2. CASE Accept \/ ForwardFails
  <2>1. /\ UNCHANGED <<req, resp, habits, cAlive, upIn, upOut, upDone, upSt, downIn,
                       downOut, downDone, downSt, cSent, oGot, oSent, cGot, replied,
                       frontReuse, backReuse>>
        /\ pc \in {"request", "forward"} /\ pc' \in {"forward", "reply"}
        /\ tries' \in 1..MaxTries /\ oAlive' \in BOOLEAN
    <3>1. CASE Accept
      BY <1>1, <3>1 DEF Accept, Types, peers, upProxy, downProxy, ends
    <3>2. CASE ForwardFails
      <4>1. tries' \in 1..MaxTries
        BY <1>1, <3>2 DEF ForwardFails, Types
      <4> QED
        BY <1>1, <3>2, <4>1 DEF ForwardFails, Types, upProxy, downProxy, ends
    <3> QED
      BY <1>2, <3>1, <3>2
  <2>2. Types'
    BY <1>1, <2>1 DEF Types, Stages
  <2>3. UpInv' /\ DownInv'
    BY <1>1, <2>1, UpSame, DownSame
  <2>4. StageInv'
    BY <1>1, <2>1 DEF StageInv
  <2>5. ReplyInv' /\ ReuseInv'
    BY <1>1, <2>1 DEF ReplyInv, ReuseInv
  <2>6. InterimInv'
    BY <1>1, <2>1 DEF InterimInv
  <2> QED
    BY <2>2, <2>3, <2>4, <2>5, <2>6 DEF IInv
<1>3. CASE Reject
  BY <1>1, <1>3, OnlyPendingStep DEF Reject, StageInv
<1>4. CASE Forward
  <2>1. /\ UNCHANGED <<req, resp, habits, cAlive, oAlive, upIn, upDone, downIn,
                       downOut, downDone, downSt, cSent, oGot, oSent, cGot, tries, replied,
                       frontReuse, backReuse>>
        /\ pc = "forward" /\ pc' = "await"
        /\ upOut' = Put(upOut, "head") /\ upSt' = "copy" /\ upSt = "idle"
    BY <1>1, <1>4 DEF Forward, StageInv, peers, downProxy, ends
  <2>2. Types'
    <3>1. upOut' \in Position /\ upSt' \in LegStages
      BY <1>1, <2>1, PutMeans, Counts DEF Types, LegStages, Up!Stages
    <3> QED
      BY <1>1, <2>1, <3>1 DEF Types, Stages
  <2>3. UpInv'
    <3>1. upIn["head"] = 1
      BY <1>1 DEF StageInv
    <3>2. LegInv(req.f, req.f, req.len, cSent, upIn, upOut', upDone, "copy")
      BY <1>1, <2>1, <3>1, LegBegin, Typed DEF UpInv
    <3> QED
      BY <2>1, <3>2 DEF UpInv
  <2>4. DownInv'
    BY <1>1, <2>1, DownSame
  <2>5. StageInv'
    BY <1>1, <2>1 DEF StageInv
  <2>6. ReplyInv' /\ ReuseInv'
    BY <1>1, <2>1 DEF ReplyInv, ReuseInv
  <2>7. InterimInv'
    BY <1>1, <2>1 DEF InterimInv
  <2> QED
    BY <2>2, <2>3, <2>4, <2>5, <2>6, <2>7 DEF IInv
<1> QED
  BY <1>2, <1>3, <1>4

\* read_backend_response: an interim or the final head, or none that is any good.
LEMMA ReadHeadStep == IInv /\ (ReadHead \/ RejectHead \/ ReadHeadFails) => IInv'
<1> SUFFICES ASSUME IInv, ReadHead \/ RejectHead \/ ReadHeadFails PROVE IInv'
  OBVIOUS
<1>1. Types /\ UpInv /\ DownInv /\ StageInv /\ ReplyInv /\ ReuseInv /\ InterimInv
  BY DEF IInv
<1>2. pc = "await" /\ upSt \in {"copy", "whole"} /\ downSt = "idle"
  BY <1>1 DEF ReadHead, RejectHead, ReadHeadFails, StageInv
<1>3. CASE ReadHeadFails
  BY <1>2, <1>3, OnlyPendingStep DEF ReadHeadFails
<1>4. ASSUME NEW k \in {"info", "head"}, Due(oSent, downIn, k), downIn' = Put(downIn, k)
      PROVE  /\ downIn' \in Position
             /\ downIn'["info"] = IF k = "info" THEN downIn["info"] + 1 ELSE downIn["info"]
             /\ k = "head" => downIn'["head"] = 1
             /\ LegInv(resp.f, ClientFraming, resp.len, oSent, downIn', downOut, downDone, downSt)
             /\ downIn'["head"] = 1 => downIn'["info"] = oSent["info"]
  <2>1. oSent \in Position /\ downIn \in Position /\ downOut \in Position /\ resp.len \in Nat
    BY <1>1, Typed
  <2>2. downIn[k] < oSent[k] /\ (k = "head" => downIn["info"] = oSent["info"])
    BY <1>4, <2>1, DueMeans, Counts
  <2>3. /\ downIn' \in Position /\ downIn'[k] = downIn[k] + 1
        /\ \A j \in Kinds : j # k => downIn'[j] = downIn[j]
    BY <1>4, <2>1, PutMeans, Counts
  <2>4. k = "head" => downIn'["head"] = 1
    <3>1. oSent["head"] <= 1 /\ oSent["head"] \in Nat /\ downIn["head"] \in Nat
      BY <1>1, <2>1, Counts DEF DownInv, LegInv
    <3> QED
      BY <2>2, <2>3, <3>1
  <2>5. LegInv(resp.f, ClientFraming, resp.len, oSent, downIn', downOut, downDone, downSt)
    BY <1>1, <1>2, <1>4, <2>1, <2>2, LegTake, Counts DEF DownInv
  <2>6. ASSUME downIn'["head"] = 1
        PROVE  downIn'["info"] = oSent["info"]
    <3>1. CASE k = "head"
      BY <2>2, <2>3, <3>1, Counts
    <3>2. CASE k = "info"
      <4>1. downIn["head"] = 1
        BY <2>3, <2>6, <3>2, Counts
      <4>2. downIn["info"] = oSent["info"] /\ downIn["info"] \in Nat
        BY <1>1, <2>1, <4>1, Counts DEF InterimInv
      <4> QED
        BY <2>2, <3>2, <4>2
    <3> QED
      BY <3>1, <3>2
  <2> QED
    BY <2>3, <2>4, <2>5, <2>6, Counts
<1>5. CASE ReadHead
  <2>1. PICK k \in {"info", "head"} :
          /\ Due(oSent, downIn, k) /\ downIn' = Put(downIn, k)
          /\ pc' = IF k = "info" THEN "info" ELSE "final"
    BY <1>5 DEF ReadHead
  <2>2. /\ downIn' \in Position
        /\ downIn'["info"] = IF k = "info" THEN downIn["info"] + 1 ELSE downIn["info"]
        /\ k = "head" => downIn'["head"] = 1
        /\ LegInv(resp.f, ClientFraming, resp.len, oSent, downIn', downOut, downDone, downSt)
        /\ downIn'["head"] = 1 => downIn'["info"] = oSent["info"]
    BY <1>4, <2>1
  <2>3. UNCHANGED <<req, resp, habits, cAlive, oAlive, upIn, upOut, upDone, upSt,
                    downOut, downDone, downSt, cSent, oGot, oSent, cGot, tries, replied,
                    frontReuse, backReuse>>
    BY <1>5 DEF ReadHead, peers, upProxy, ends
  <2>4. Types'
    BY <1>1, <2>1, <2>2, <2>3 DEF Types, Stages
  <2>5. UpInv' /\ DownInv'
    BY <1>1, <2>2, <2>3, UpSame DEF DownInv, ClientFraming
  <2>6. StageInv'
    BY <1>1, <1>2, <2>1, <2>2, <2>3 DEF StageInv
  <2>7. ReplyInv' /\ ReuseInv'
    BY <1>1, <1>2, <2>1, <2>3 DEF ReplyInv, ReuseInv
  <2>8. InterimInv'
    <3>1. ~req.v10 => downOut["info"] = downIn["info"]
      BY <1>1, <1>2 DEF InterimInv
    <3>2. downOut["head"] # 1
      BY <1>1, <1>2 DEF DownInv, LegInv
    <3> QED
      BY <1>1, <1>2, <2>1, <2>2, <2>3, <3>1, <3>2 DEF InterimInv
  <2> QED
    BY <2>4, <2>5, <2>6, <2>7, <2>8 DEF IInv
<1>6. CASE RejectHead
  <2>1. PICK k \in {"info", "head"} : Due(oSent, downIn, k) /\ downIn' = Put(downIn, k)
    BY <1>6 DEF RejectHead
  <2>2. /\ downIn' \in Position
        /\ LegInv(resp.f, ClientFraming, resp.len, oSent, downIn', downOut, downDone, downSt)
        /\ downIn'["head"] = 1 => downIn'["info"] = oSent["info"]
    BY <1>4, <2>1
  <2>3. /\ UNCHANGED <<req, resp, habits, cAlive, oAlive, upIn, upOut, upDone,
                       downOut, downDone, downSt, cSent, oGot, oSent, cGot, tries, replied,
                       frontReuse, backReuse>>
        /\ pc' = "reply" /\ upSt' = "err"
    BY <1>2, <1>6 DEF RejectHead, OnlyPending, Up!Dropped, peers, ends
  <2>4. Types'
    BY <1>1, <2>2, <2>3 DEF Types, Stages, LegStages, Up!Stages
  <2>5. UpInv'
    BY <1>1, <1>2, <2>3, LegDrop DEF UpInv
  <2>6. DownInv'
    BY <1>1, <2>2, <2>3 DEF DownInv, ClientFraming
  <2>7. StageInv'
    BY <1>1, <1>2, <2>3 DEF StageInv
  <2>8. ReplyInv' /\ ReuseInv'
    BY <1>1, <1>2, <2>3 DEF ReplyInv, ReuseInv
  <2>9. InterimInv'
    <3>1. downOut["head"] # 1
      BY <1>1, <1>2 DEF DownInv, LegInv
    <3> QED
      BY <1>1, <2>2, <2>3, <3>1 DEF InterimInv
  <2> QED
    BY <2>4, <2>5, <2>6, <2>7, <2>8, <2>9 DEF IInv
<1> QED
  BY <1>3, <1>5, <1>6

\* forward_informational_response and forward_response_head.
LEMMA ForwardHeadStep ==
  IInv /\ (ForwardInfo \/ ForwardInfoFails \/ SendHead \/ SendHeadFails) => IInv'
<1> SUFFICES ASSUME IInv, ForwardInfo \/ ForwardInfoFails \/ SendHead \/ SendHeadFails
             PROVE  IInv'
  OBVIOUS
<1>1. Types /\ UpInv /\ DownInv /\ StageInv /\ ReplyInv /\ ReuseInv /\ InterimInv
  BY DEF IInv
<1>2. pc \in {"info", "final"} /\ upSt \in {"copy", "whole"} /\ downSt = "idle"
  BY <1>1 DEF ForwardInfo, ForwardInfoFails, SendHead, SendHeadFails, StageInv
<1>3. CASE ForwardInfoFails \/ SendHeadFails
  BY <1>2, <1>3, OnlyPendingStep DEF ForwardInfoFails, SendHeadFails
<1>4. oSent \in Position /\ downIn \in Position /\ downOut \in Position /\ resp.len \in Nat
  BY <1>1, Typed
<1>5. CASE ForwardInfo
  <2>1. /\ UNCHANGED <<req, resp, habits, cAlive, oAlive, upIn, upOut, upDone, upSt,
                       downIn, downDone, downSt, cSent, oGot, oSent, cGot, tries, replied,
                       frontReuse, backReuse>>
        /\ pc = "info" /\ pc' = "await"
        /\ downOut' = IF req.v10 THEN downOut ELSE Put(downOut, "info")
    BY <1>5 DEF ForwardInfo, peers, upProxy, ends
  <2>2. /\ downOut' \in Position /\ downOut'["head"] = downOut["head"]
        /\ downOut'["info"] = IF req.v10 THEN downOut["info"] ELSE downOut["info"] + 1
    BY <1>4, <2>1, PutMeans, Counts
  <2>3. Types'
    BY <1>1, <2>1, <2>2 DEF Types, Stages
  <2>4. UpInv'
    BY <1>1, <2>1, UpSame
  <2>5. DownInv'
    <3>1. LegInv(resp.f, ClientFraming, resp.len, oSent, downIn, downOut', downDone, downSt)
      BY <1>1, <1>4, <2>1, LegSend DEF DownInv
    <3> QED
      BY <2>1, <3>1 DEF DownInv, ClientFraming
  <2>6. StageInv'
    BY <1>1, <1>2, <2>1 DEF StageInv
  <2>7. ReplyInv' /\ ReuseInv'
    BY <1>1, <1>2, <2>1 DEF ReplyInv, ReuseInv
  <2>8. InterimInv'
    <3>1. downOut["head"] # 1
      BY <1>1, <1>2 DEF DownInv, LegInv
    <3> QED
      BY <1>1, <2>1, <2>2, <3>1 DEF InterimInv
  <2> QED
    BY <2>3, <2>4, <2>5, <2>6, <2>7, <2>8 DEF IInv
<1>6. CASE SendHead
  <2>1. /\ UNCHANGED <<req, resp, habits, cAlive, oAlive, upIn, upOut, upDone, upSt,
                       downIn, downDone, cSent, oGot, oSent, cGot, tries, replied,
                       frontReuse, backReuse>>
        /\ pc = "final" /\ pc' = "bodies"
        /\ downOut' = Put(downOut, "head") /\ downSt' = "copy"
    BY <1>6 DEF SendHead, peers, upProxy, ends
  <2>2. downOut' \in Position /\ downOut'["info"] = downOut["info"]
    BY <1>4, <2>1, PutMeans, Counts
  <2>3. downIn["head"] = 1
    BY <1>1, <2>1 DEF StageInv
  <2>4. Types'
    BY <1>1, <2>1, <2>2 DEF Types, Stages, LegStages, Up!Stages
  <2>5. UpInv'
    BY <1>1, <2>1, UpSame
  <2>6. DownInv'
    <3>1. LegInv(resp.f, ClientFraming, resp.len, oSent, downIn, downOut', downDone, "copy")
      BY <1>1, <1>2, <1>4, <2>1, <2>3, LegBegin DEF DownInv
    <3> QED
      BY <2>1, <3>1 DEF DownInv, ClientFraming
  <2>7. StageInv'
    BY <1>1, <1>2, <2>1 DEF StageInv
  <2>8. ReplyInv' /\ ReuseInv'
    BY <1>1, <1>2, <2>1 DEF ReplyInv, ReuseInv
  <2>9. InterimInv'
    BY <1>1, <2>1, <2>2, <2>3 DEF InterimInv
  <2> QED
    BY <2>4, <2>5, <2>6, <2>7, <2>8, <2>9 DEF IInv
<1> QED
  BY <1>3, <1>5, <1>6

\* The forwarder of the request.
LEMMA UpLegStep == IInv /\ UpLeg => IInv'
<1> SUFFICES ASSUME IInv, UpLeg PROVE IInv'
  OBVIOUS
<1>1. Types /\ UpInv /\ DownInv /\ StageInv /\ ReplyInv /\ ReuseInv /\ InterimInv
  BY DEF IInv
<1>2. cSent \in Position /\ upIn \in Position /\ upOut \in Position /\ req.len \in Nat
  BY <1>1, Typed
<1>3. CASE UpFails
  <2>1. upSt \in {"copy", "whole"} /\ pc \in {"await", "bodies"}
    BY <1>3 DEF UpFails, Driven, Up!ReadFails, Up!WriteFails, Up!TerminateFails, Up!Refills,
                Up!Forwarded, Up!Running
  <2>2. OnlyPending(IF pc = "await" THEN "reply" ELSE pc) /\ UNCHANGED <<peers, downProxy, ends>>
    BY <1>3 DEF UpFails
  <2> QED
    BY <2>1, <2>2, OnlyPendingStep
<1>4. ASSUME UNCHANGED <<peers, downProxy, ends, caller>>,
             pc \in {"await", "bodies"}, upSt \in {"copy", "whole"},
             upSt' \in {"copy", "whole"} \/ (pc = "bodies" /\ upSt' = "ok"),
             upIn' \in Position, upIn'["head"] = upIn["head"], upOut' \in Position,
             upDone' \in BOOLEAN,
             LegInv(req.f, req.f, req.len, cSent, upIn', upOut', upDone', upSt')
      PROVE  IInv'
  <2>1. UNCHANGED <<req, resp, habits, cAlive, oAlive, downIn, downOut, downDone, downSt,
                    cSent, oGot, oSent, cGot, pc, tries, replied, frontReuse, backReuse>>
    BY <1>4 DEF peers, downProxy, ends, caller
  <2>2. Types'
    <3>1. upSt' \in LegStages
      BY <1>4 DEF LegStages, Up!Stages
    <3> QED
      BY <1>1, <1>4, <2>1, <3>1 DEF Types
  <2>3. UpInv'
    BY <1>4, <2>1 DEF UpInv
  <2>4. DownInv'
    BY <1>1, <2>1, DownSame
  <2>5. StageInv'
    BY <1>1, <1>4, <2>1 DEF StageInv
  <2>6. ReplyInv' /\ ReuseInv'
    BY <1>1, <1>4, <2>1 DEF ReplyInv, ReuseInv, ClientFraming
  <2>7. InterimInv'
    BY <1>1, <2>1 DEF InterimInv
  <2> QED
    BY <2>2, <2>3, <2>4, <2>5, <2>6, <2>7 DEF IInv
<1>5. CASE UpCopies
  <2>1. UNCHANGED <<peers, downProxy, ends, caller>> /\ pc \in {"await", "bodies"}
    BY <1>5 DEF UpCopies, Driven
  <2>2. upSt \in {"copy", "whole"} /\ upSt' = upSt
    BY <1>5 DEF UpCopies, Up!Take, Up!TakeEnd, Up!Send, Up!Refills, Up!Running
  <2>3. CASE Up!Take
    <3>1. upIn["body"] < cSent["body"] /\ upIn' = Put(upIn, "body") /\ UNCHANGED <<upOut, upDone>>
      BY <2>3, SameWire DEF Up!Take
    <3>2. upIn' \in Position /\ upIn'["head"] = upIn["head"]
      BY <1>2, <3>1, PutMeans, Counts
    <3>3. LegInv(req.f, req.f, req.len, cSent, upIn', upOut, upDone, upSt)
      BY <1>1, <1>2, <2>2, <3>1, LegTake, Counts DEF UpInv
    <3>4. upOut' \in Position /\ upDone' \in BOOLEAN
      BY <1>1, <3>1 DEF Types
    <3>5. LegInv(req.f, req.f, req.len, cSent, upIn', upOut', upDone', upSt')
      BY <2>2, <3>1, <3>3
    <3> QED
      BY <1>4, <2>1, <2>2, <3>2, <3>4, <3>5
  <2>4. CASE Up!TakeEnd
    <3>1. /\ upIn["body"] = req.len /\ upDone' = TRUE /\ upOut' = upOut
          /\ IF Ends(req.f) = 1 THEN upIn["end"] < cSent["end"] /\ upIn' = Put(upIn, "end")
             ELSE upIn' = upIn
      BY <2>4, SameWire DEF Up!TakeEnd
    <3>2. upIn' \in Position /\ upIn'["head"] = upIn["head"]
      <4>1. Put(upIn, "end") \in Position /\ Put(upIn, "end")["head"] = upIn["head"]
        BY <1>2, PutMeans, Counts
      <4> QED
        BY <1>2, <3>1, <4>1
    <3>3. LegInv(req.f, req.f, req.len, cSent, upIn', upOut, TRUE, upSt)
      BY <1>1, <1>2, <2>2, <3>1, <3>2, LegEnd, Typed DEF UpInv
    <3>4. upOut' \in Position /\ upDone' \in BOOLEAN
      BY <1>1, <3>1 DEF Types
    <3>5. LegInv(req.f, req.f, req.len, cSent, upIn', upOut', upDone', upSt')
      BY <2>2, <3>1, <3>3
    <3> QED
      BY <1>4, <2>1, <2>2, <3>2, <3>4, <3>5
  <2>5. CASE Up!Send
    <3>1. upOut["body"] < upIn["body"] /\ upOut' = Put(upOut, "body") /\ UNCHANGED <<upIn, upDone>>
      BY <2>5, SameWire DEF Up!Send, Up!Pending
    <3>2. upOut' \in Position
      BY <1>2, <3>1, PutMeans, Counts
    <3>3. LegInv(req.f, req.f, req.len, cSent, upIn, upOut', upDone, upSt)
      BY <1>1, <1>2, <2>2, <3>1, LegSend DEF UpInv
    <3>4. upIn' \in Position /\ upDone' \in BOOLEAN /\ upIn'["head"] = upIn["head"]
      BY <1>1, <3>1 DEF Types
    <3>5. LegInv(req.f, req.f, req.len, cSent, upIn', upOut', upDone', upSt')
      BY <2>2, <3>1, <3>3
    <3> QED
      BY <1>4, <2>1, <2>2, <3>2, <3>4, <3>5
  <2> QED
    BY <1>5, <2>3, <2>4, <2>5 DEF UpCopies
<1>6. CASE UpBodyFinished
  <2>1. /\ UNCHANGED <<peers, downProxy, ends, caller, upIn, upOut, upDone>>
        /\ pc = "await" /\ upSt = "copy" /\ upSt' = "whole"
    BY <1>6 DEF UpBodyFinished, Up!BodyFinished
  <2>2. LegInv(req.f, req.f, req.len, cSent, upIn, upOut, upDone, "whole")
    BY <1>1, <2>1, LegDrop DEF UpInv
  <2>3. upIn' \in Position /\ upIn'["head"] = upIn["head"] /\ upOut' \in Position /\ upDone' \in BOOLEAN
    BY <1>1, <2>1 DEF Types
  <2>4. LegInv(req.f, req.f, req.len, cSent, upIn', upOut', upDone', upSt')
    BY <2>1, <2>2
  <2> QED
    BY <1>4, <2>1, <2>3, <2>4
<1>7. CASE UpTerminates
  <2>1. /\ UNCHANGED <<peers, downProxy, ends, caller>> /\ UNCHANGED <<upIn, upDone>>
        /\ pc = "bodies" /\ upSt \in {"copy", "whole"} /\ upDone
        /\ ~(upOut["body"] < upIn["body"])
        /\ IF Ends(req.f) = 1 THEN upOut' = Put(upOut, "end") ELSE upOut' = upOut
        /\ upSt' = "ok"
    BY <1>7, SameWire DEF UpTerminates, Up!Terminate, Up!Forwarded, Up!Running, Up!Pending
  <2>2. upDone = TRUE
    BY <1>1, <2>1 DEF Types
  <2>3. upOut' \in Position
    BY <1>2, <2>1, PutMeans, Counts
  <2>4. LegInv(req.f, req.f, req.len, cSent, upIn, upOut', TRUE, "ok")
    BY <1>1, <1>2, <2>1, <2>2, LegFinish DEF UpInv
  <2>5. upIn' \in Position /\ upIn'["head"] = upIn["head"] /\ upDone' \in BOOLEAN
    BY <1>1, <2>1 DEF Types
  <2>6. LegInv(req.f, req.f, req.len, cSent, upIn', upOut', upDone', upSt')
    BY <2>1, <2>2, <2>4
  <2> QED
    BY <1>4, <2>1, <2>3, <2>5, <2>6
<1> QED
  BY <1>3, <1>5, <1>6, <1>7 DEF UpLeg

\* The forwarder of the response.
LEMMA DownLegStep == IInv /\ DownLeg => IInv'
<1> SUFFICES ASSUME IInv, DownLeg PROVE IInv'
  OBVIOUS
<1>1. Types /\ UpInv /\ DownInv /\ StageInv /\ ReplyInv /\ ReuseInv /\ InterimInv
  BY DEF IInv
<1>2. oSent \in Position /\ downIn \in Position /\ downOut \in Position /\ resp.len \in Nat
  BY <1>1, Typed
<1>3. /\ UNCHANGED <<req, resp, habits, cAlive, oAlive, upIn, upOut, upDone, upSt,
                     cSent, oGot, oSent, cGot, pc, tries, replied, frontReuse, backReuse>>
      /\ pc = "bodies" /\ downSt \in {"copy", "whole"}
  BY DEF DownLeg, DownCopies, DownFails, Down!Take, Down!TakeEnd, Down!Send, Down!Terminate,
         Down!ReadFails, Down!WriteFails, Down!TerminateFails, Down!Refills, Down!Forwarded,
         Down!Running, peers, upProxy, ends, caller
<1>4. ASSUME downSt' \in {"copy", "whole", "ok", "err"},
             downIn' \in Position, downIn'["head"] = downIn["head"],
             downIn'["info"] = downIn["info"],
             downOut' \in Position, downOut'["head"] = downOut["head"],
             downOut'["info"] = downOut["info"], downDone' \in BOOLEAN,
             LegInv(resp.f, ClientFraming, resp.len, oSent, downIn', downOut', downDone', downSt')
      PROVE  IInv'
  <2>1. Types'
    <3>1. downSt' \in LegStages
      BY <1>4 DEF LegStages, Up!Stages
    <3> QED
      BY <1>1, <1>3, <1>4, <3>1 DEF Types
  <2>2. UpInv'
    BY <1>1, <1>3, UpSame
  <2>3. DownInv'
    BY <1>3, <1>4 DEF DownInv, ClientFraming
  <2>4. StageInv'
    BY <1>1, <1>3, <1>4 DEF StageInv
  <2>5. ReplyInv' /\ ReuseInv'
    BY <1>1, <1>3, <1>4 DEF ReplyInv, ReuseInv
  <2>6. InterimInv'
    BY <1>1, <1>3, <1>4 DEF InterimInv
  <2> QED
    BY <2>1, <2>2, <2>3, <2>4, <2>5, <2>6 DEF IInv
<1>5. CASE Down!Take
  <2>1. /\ downIn["body"] < oSent["body"] /\ downIn' = Put(downIn, "body")
        /\ UNCHANGED <<downOut, downDone, downSt>>
    BY <1>5, SameWire DEF Down!Take
  <2>2. /\ downIn' \in Position /\ downIn'["head"] = downIn["head"]
        /\ downIn'["info"] = downIn["info"]
    BY <1>2, <2>1, PutMeans, Counts
  <2>3. LegInv(resp.f, ClientFraming, resp.len, oSent, downIn', downOut, downDone, downSt)
    BY <1>1, <1>2, <1>3, <2>1, LegTake, Counts DEF DownInv
  <2>4. LegInv(resp.f, ClientFraming, resp.len, oSent, downIn', downOut', downDone', downSt')
    BY <2>1, <2>3
  <2>5. downOut' \in Position /\ downDone' \in BOOLEAN
    BY <1>1, <2>1 DEF Types
  <2> QED
    BY <1>3, <1>4, <2>1, <2>2, <2>4, <2>5
<1>6. CASE Down!TakeEnd
  <2>1. /\ downIn["body"] = resp.len /\ downDone' = TRUE /\ UNCHANGED <<downOut, downSt>>
        /\ IF Ends(resp.f) = 1
           THEN downIn["end"] < oSent["end"] /\ downIn' = Put(downIn, "end")
           ELSE downIn' = downIn
    BY <1>6, SameWire DEF Down!TakeEnd
  <2>2. /\ downIn' \in Position /\ downIn'["head"] = downIn["head"]
        /\ downIn'["info"] = downIn["info"]
    <3>1. /\ Put(downIn, "end") \in Position
          /\ Put(downIn, "end")["head"] = downIn["head"]
          /\ Put(downIn, "end")["info"] = downIn["info"]
      BY <1>2, PutMeans, Counts
    <3> QED
      BY <1>2, <2>1, <3>1
  <2>3. LegInv(resp.f, ClientFraming, resp.len, oSent, downIn', downOut, TRUE, downSt)
    BY <1>1, <1>2, <1>3, <2>1, <2>2, LegEnd, Typed DEF DownInv
  <2>4. LegInv(resp.f, ClientFraming, resp.len, oSent, downIn', downOut', downDone', downSt')
    BY <2>1, <2>3
  <2>5. downOut' \in Position
    BY <1>2, <2>1
  <2> QED
    BY <1>3, <1>4, <2>1, <2>2, <2>4, <2>5
<1>7. CASE Down!Send
  <2>1. /\ downOut["body"] < downIn["body"] /\ downOut' = Put(downOut, "body")
        /\ UNCHANGED <<downIn, downDone, downSt>>
    BY <1>7, SameWire DEF Down!Send, Down!Pending
  <2>2. /\ downOut' \in Position /\ downOut'["head"] = downOut["head"]
        /\ downOut'["info"] = downOut["info"]
    BY <1>2, <2>1, PutMeans, Counts
  <2>3. LegInv(resp.f, ClientFraming, resp.len, oSent, downIn, downOut', downDone, downSt)
    BY <1>1, <1>2, <1>3, <2>1, LegSend DEF DownInv
  <2>4. LegInv(resp.f, ClientFraming, resp.len, oSent, downIn', downOut', downDone', downSt')
    BY <2>1, <2>3
  <2>5. downIn' \in Position /\ downDone' \in BOOLEAN
    BY <1>1, <2>1 DEF Types
  <2> QED
    BY <1>3, <1>4, <2>1, <2>2, <2>4, <2>5
<1>8. CASE Down!Terminate
  <2>1. /\ UNCHANGED <<downIn, downDone>> /\ downDone /\ ~(downOut["body"] < downIn["body"])
        /\ IF Ends(ClientFraming) = 1 THEN downOut' = Put(downOut, "end")
           ELSE downOut' = downOut
        /\ downSt' = "ok"
    BY <1>8, SameWire DEF Down!Terminate, Down!Forwarded, Down!Pending
  <2>2. downDone = TRUE
    BY <1>1, <2>1 DEF Types
  <2>3. /\ downOut' \in Position /\ downOut'["head"] = downOut["head"]
        /\ downOut'["info"] = downOut["info"]
    <3>1. /\ Put(downOut, "end") \in Position
          /\ Put(downOut, "end")["head"] = downOut["head"]
          /\ Put(downOut, "end")["info"] = downOut["info"]
      BY <1>2, PutMeans, Counts
    <3> QED
      BY <1>2, <2>1, <3>1
  <2>4. LegInv(resp.f, ClientFraming, resp.len, oSent, downIn, downOut', TRUE, "ok")
    BY <1>1, <1>2, <1>3, <2>1, <2>2, LegFinish DEF DownInv
  <2>5. LegInv(resp.f, ClientFraming, resp.len, oSent, downIn', downOut', downDone', downSt')
    BY <2>1, <2>2, <2>4
  <2>6. downIn' \in Position /\ downDone' \in BOOLEAN
    BY <1>1, <2>1 DEF Types
  <2> QED
    BY <1>4, <2>1, <2>3, <2>5, <2>6
<1>9. CASE DownFails
  <2>1. UNCHANGED <<downIn, downOut, downDone>> /\ downSt' = "err"
    BY <1>3, <1>9 DEF DownFails, Down!Dropped
  <2>2. LegInv(resp.f, ClientFraming, resp.len, oSent, downIn, downOut, downDone, "err")
    BY <1>1, <1>3, LegDrop DEF DownInv
  <2>3. LegInv(resp.f, ClientFraming, resp.len, oSent, downIn', downOut', downDone', downSt')
    BY <2>1, <2>2
  <2>4. downIn' \in Position /\ downOut' \in Position /\ downDone' \in BOOLEAN
    BY <1>1, <2>1 DEF Types
  <2> QED
    BY <1>4, <2>1, <2>3, <2>4
<1> QED
  BY <1>5, <1>6, <1>7, <1>8, <1>9 DEF DownLeg, DownCopies

\* The join of the two directions.
LEMMA JoinStep == IInv /\ Join => IInv'
<1> SUFFICES ASSUME IInv, Join PROVE IInv'
  OBVIOUS
<1>1. Types /\ UpInv /\ DownInv /\ StageInv /\ ReplyInv /\ ReuseInv /\ InterimInv
  BY DEF IInv
<1>2. /\ UNCHANGED <<req, resp, habits, cAlive, oAlive, upIn, upOut, upDone, upSt, downIn,
                     downOut, downDone, downSt, cSent, oGot, oSent, cGot, tries, replied>>
      /\ pc = "bodies" /\ upSt \in {"ok", "err"} /\ downSt \in {"ok", "err"}
  BY DEF Join, Joined, peers, upProxy, downProxy, ends
<1>3. \/ pc' = "failed" /\ UNCHANGED <<frontReuse, backReuse>>
      \/ /\ pc' = "done" /\ upSt = "ok" /\ downSt = "ok"
         /\ frontReuse' = FrontReusable /\ backReuse' = BackReader
  BY <1>2 DEF Join
<1>4. ~replied /\ ~frontReuse /\ ~backReuse
  BY <1>1, <1>2 DEF ReplyInv, ReuseInv
<1>5. FrontReusable \in BOOLEAN /\ BackReader \in BOOLEAN
  <2>1. (ClientFraming # "eof") \in BOOLEAN /\ (resp.f # "eof") \in BOOLEAN
    OBVIOUS
  <2> QED
    BY <1>1, <2>1, Typed, Zenon DEF FrontReusable, FrontReader, FrontWriter, BackReader
<1>6. Types'
  BY <1>1, <1>2, <1>3, <1>5 DEF Types, Stages
<1>7. UpInv' /\ DownInv'
  BY <1>1, <1>2, UpSame, DownSame
<1>8. StageInv'
  BY <1>1, <1>2, <1>3, <1>4 DEF StageInv
<1>9. ReplyInv'
  BY <1>2, <1>3, <1>4 DEF ReplyInv
<1>10. ReuseInv'
  <2>1. ClientFraming' = ClientFraming
    BY <1>2 DEF ClientFraming
  <2>2. CASE pc' = "failed" /\ UNCHANGED <<frontReuse, backReuse>>
    BY <1>4, <2>2 DEF ReuseInv
  <2>3. CASE pc' = "done" /\ frontReuse' = FrontReusable /\ backReuse' = BackReader
    <3>1. frontReuse' => req.persist /\ ClientFraming # "eof"
      BY <2>3, Zenon DEF FrontReusable, FrontReader, FrontWriter
    <3>2. backReuse' => resp.persist /\ resp.f # "eof"
      BY <2>3, Zenon DEF BackReader
    <3> QED
      BY <1>2, <1>4, <2>1, <2>3, <3>1, <3>2 DEF ReuseInv
  <2> QED
    BY <1>3, <2>2, <2>3
<1>11. InterimInv'
  BY <1>1, <1>2, <1>3 DEF InterimInv
<1> QED
  BY <1>6, <1>7, <1>8, <1>9, <1>10, <1>11 DEF IInv

\* The caller answers for the backend, and drains the request.
LEMMA ReplyStep == IInv /\ (Reply \/ ReplyFails \/ DrainSome \/ Drain \/ DrainFails) => IInv'
<1> SUFFICES ASSUME IInv, Reply \/ ReplyFails \/ DrainSome \/ Drain \/ DrainFails PROVE IInv'
  OBVIOUS
<1>1. Types /\ UpInv /\ DownInv /\ StageInv /\ ReplyInv /\ ReuseInv /\ InterimInv
  BY DEF IInv
<1>2. pc \in {"reply", "drain"} /\ downSt = "idle" /\ upSt \in {"idle", "err"}
  BY <1>1 DEF Reply, ReplyFails, DrainSome, Drain, DrainFails, StageInv
<1>3. CASE ReplyFails \/ DrainFails
  BY <1>2, <1>3, OnlyPendingStep DEF ReplyFails, DrainFails
<1>4. CASE Reply \/ Drain
  <2>1. UNCHANGED <<req, resp, habits, cAlive, oAlive, upIn, upOut, upDone, upSt, downIn,
                    downOut, downDone, downSt, cSent, oGot, oSent, cGot, tries, backReuse>>
    BY <1>4 DEF Reply, Drain, peers, upProxy, downProxy, ends
  <2>2. \/ /\ pc = "reply" /\ replied' = TRUE /\ frontReuse' = frontReuse
           /\ pc' = "failed" \/ (pc' = "drain" /\ upSt = "idle")
        \/ /\ pc = "drain" /\ replied' = replied /\ frontReuse' = FrontReader
           /\ pc' = "done" /\ Drained
    <3>1. CASE Reply
      BY <3>1 DEF Reply
    <3>2. CASE Drain
      BY <3>2 DEF Drain
    <3> QED
      BY <1>4, <3>1, <3>2
  <2>3. ~frontReuse /\ ~backReuse /\ (pc = "drain" => replied)
    BY <1>1, <1>2 DEF ReuseInv, ReplyInv
  <2>4. Types'
    <3>1. FrontReader \in BOOLEAN
      BY <1>1, Typed DEF FrontReader
    <3> QED
      BY <1>1, <2>1, <2>2, <3>1 DEF Types, Stages
  <2>5. UpInv' /\ DownInv'
    BY <1>1, <2>1, UpSame, DownSame
  <2>6. StageInv'
    BY <1>1, <1>2, <2>1, <2>2, <2>3 DEF StageInv, Drained, Whole
  <2>7. ReplyInv'
    BY <1>2, <2>1, <2>2, <2>3 DEF ReplyInv
  <2>8. ReuseInv'
    BY <2>1, <2>2, <2>3 DEF ReuseInv, FrontReader, ClientFraming
  <2>9. InterimInv'
    BY <1>1, <2>1, <2>2 DEF InterimInv
  <2> QED
    BY <2>4, <2>5, <2>6, <2>7, <2>8, <2>9 DEF IInv
<1>5. CASE DrainSome
  <2>1. PICK k \in {"body", "end"} : Due(cSent, upIn, k) /\ upIn' = Put(upIn, k)
    BY <1>5 DEF DrainSome
  <2>2. /\ UNCHANGED <<req, resp, habits, cAlive, oAlive, upOut, upDone, upSt, downIn,
                       downOut, downDone, downSt, cSent, oGot, oSent, cGot, pc, tries, replied,
                       frontReuse, backReuse>>
        /\ pc = "drain" /\ upSt = "idle"
    BY <1>1, <1>5 DEF DrainSome, StageInv, peers, downProxy, ends, caller
  <2>3. cSent \in Position /\ upIn \in Position /\ upOut \in Position /\ req.len \in Nat
    BY <1>1, Typed
  <2>4. upIn' \in Position /\ upIn'["head"] = upIn["head"]
    BY <2>1, <2>3, PutMeans, Counts
  <2>5. UpInv'
    <3>1. LegInv(req.f, req.f, req.len, cSent, upIn', upOut, upDone, upSt)
      BY <1>1, <2>1, <2>2, <2>3, DueMeans, LegTake, Counts DEF UpInv
    <3> QED
      BY <2>2, <3>1 DEF UpInv
  <2>6. Types'
    BY <1>1, <2>2, <2>4 DEF Types
  <2>7. DownInv'
    BY <1>1, <2>2, DownSame
  <2>8. StageInv'
    BY <1>1, <2>2, <2>4 DEF StageInv
  <2>9. ReplyInv' /\ ReuseInv'
    BY <1>1, <2>2 DEF ReplyInv, ReuseInv, ClientFraming
  <2>10. InterimInv'
    BY <1>1, <2>2 DEF InterimInv
  <2> QED
    BY <2>5, <2>6, <2>7, <2>8, <2>9, <2>10 DEF IInv
<1> QED
  BY <1>3, <1>4, <1>5

\* Every step keeps the invariant.
LEMMA StepInv == IInv /\ [Next]_vars => IInv'
<1>1. ASSUME IInv, UNCHANGED vars PROVE IInv'
  <2>1. Types /\ UpInv /\ DownInv /\ StageInv /\ ReplyInv /\ ReuseInv /\ InterimInv
    BY <1>1 DEF IInv
  <2>2. UNCHANGED <<req, resp, habits, cAlive, oAlive, upIn, upOut, upDone, upSt, downIn,
                    downOut, downDone, downSt, cSent, oGot, oSent, cGot, pc, tries, replied,
                    frontReuse, backReuse>>
    BY <1>1 DEF vars, peers, upProxy, downProxy, ends, caller
  <2>3. Types'
    BY <2>1, <2>2 DEF Types
  <2>4. UpInv' /\ DownInv'
    BY <2>1, <2>2, UpSame, DownSame
  <2>5. StageInv' /\ ReplyInv' /\ ReuseInv'
    BY <2>1, <2>2, CallerSame DEF upProxy, downProxy, caller
  <2>6. InterimInv'
    BY <2>1, <2>2 DEF InterimInv
  <2> QED
    BY <2>3, <2>4, <2>5, <2>6 DEF IInv
<1>2. ASSUME IInv, Caller PROVE IInv'
  BY <1>2, RequestStep, ReadHeadStep, ForwardHeadStep, JoinStep, ReplyStep DEF Caller
<1> QED
  BY <1>1, <1>2, ClientStep, OriginStep, UpLegStep, DownLegStep DEF Next, Terminated

\* The inductive invariant holds.
THEOREM Invariance == Spec => []IInv
  BY InitInv, StepInv, PTL DEF Spec

\* Type correctness, and with it that neither forwarder writes a unit of the body that it
\* has not read or reads one past the body's end.
THEOREM TypeCorrect == Spec => []TypeOK
<1>1. IInv => TypeOK
  BY TypeOKMeans DEF IInv
<1> QED
  BY <1>1, Invariance, PTL

\* A leg that has ended well brought the message over.
LEMMA OkMeansWhole ==
  ASSUME IInv
  PROVE  /\ upSt = "ok" => /\ Whole(upIn, req.f, req.len) /\ Whole(upOut, req.f, req.len)
                           /\ Whole(cSent, req.f, req.len)
         /\ downSt = "ok" => /\ Whole(downIn, resp.f, resp.len)
                             /\ Whole(downOut, ClientFraming, resp.len)
                             /\ Whole(oSent, resp.f, resp.len)
<1>1. Types /\ UpInv /\ DownInv
  BY DEF IInv
<1>2. ASSUME upSt = "ok"
      PROVE  /\ Whole(upIn, req.f, req.len) /\ Whole(upOut, req.f, req.len)
             /\ Whole(cSent, req.f, req.len)
  BY <1>1, <1>2, LegOk, Typed DEF UpInv
<1>3. ASSUME downSt = "ok"
      PROVE  /\ Whole(downIn, resp.f, resp.len) /\ Whole(downOut, ClientFraming, resp.len)
             /\ Whole(oSent, resp.f, resp.len)
  BY <1>1, <1>3, LegOk, Typed DEF DownInv
<1> QED
  BY <1>2, <1>3

\* A connection is handed back only between two messages: nothing of this exchange is
\* left on it, and nothing of it is missing.
THEOREM ReuseIsClean == Spec => []ReuseClean
<1>1. IInv => ReuseClean
  <2> SUFFICES ASSUME IInv PROVE ReuseClean
    OBVIOUS
  <2>1. StageInv /\ ReplyInv /\ ReuseInv
    BY DEF IInv
  <2>2. ASSUME frontReuse
        PROVE  /\ req.persist /\ Whole(upIn, req.f, req.len)
               /\ replied \/ (ClientFraming # "eof" /\ Whole(downOut, ClientFraming, resp.len))
    <3>1. pc = "done" /\ req.persist /\ (replied \/ ClientFraming # "eof")
      BY <2>1, <2>2 DEF ReuseInv
    <3>2. CASE replied
      BY <2>1, <3>1, <3>2 DEF StageInv, Drained
    <3>3. CASE ~replied
      BY <2>1, <3>1, <3>3, OkMeansWhole DEF StageInv
    <3> QED
      BY <3>2, <3>3
  <2>3. ASSUME backReuse
        PROVE  /\ resp.persist /\ resp.f # "eof"
               /\ Whole(upOut, req.f, req.len) /\ Whole(downIn, resp.f, resp.len)
    <3>1. pc = "done" /\ ~replied /\ resp.persist /\ resp.f # "eof"
      BY <2>1, <2>3 DEF ReuseInv
    <3> QED
      BY <2>1, <3>1, OkMeansWhole DEF StageInv
  <2> QED
    BY <2>2, <2>3 DEF ReuseClean
<1> QED
  BY <1>1, Invariance, PTL

\* An exchange that is reported a success brought over the whole request and the whole
\* response, whichever of them was first.
THEOREM SuccessIsBoth == Spec => []DoneMeansBoth
<1>1. IInv => DoneMeansBoth
  BY OkMeansWhole DEF IInv, StageInv, DoneMeansBoth
<1> QED
  BY <1>1, Invariance, PTL

\* The client gets one final answer, and before it the interim ones it may get, all of
\* them.
THEOREM AnswersOnce == Spec => []OneAnswer
<1>1. IInv => OneAnswer
  <2> SUFFICES ASSUME IInv PROVE OneAnswer
    OBVIOUS
  <2>1. downSt = "idle" => downOut["head"] = 0 /\ downOut["body"] = 0
    BY DEF IInv, DownInv, LegInv
  <2> QED
    BY <2>1 DEF IInv, ReplyInv, InterimInv, OneAnswer
<1> QED
  BY <1>1, Invariance, PTL

-----------------------------------------------------------------------------
(* The upload implements BodyCopy. *)

\* What the client has sent bounds what the origin is sent, and a request that was
\* written whole was sent whole.
UpBounded ==
  /\ req.len \in 0..MaxBody /\ cSent["body"] \in Nat /\ upOut["body"] \in Nat
  /\ upOut["body"] <= cSent["body"] /\ cSent["body"] <= req.len
  /\ cSent["head"] = 1
  /\ Whole(upOut, req.f, req.len) => RequestEnds /\ upOut["body"] = req.len
  /\ upSt = "idle" => ~Whole(upOut, req.f, req.len)

\* The invariant implies it.
LEMMA UpBounds == IInv => UpBounded
<1> SUFFICES ASSUME IInv PROVE UpBounded
  OBVIOUS
<1>1. Types /\ UpInv /\ StageInv
  BY DEF IInv
<1>2. cSent \in Position /\ upIn \in Position /\ upOut \in Position /\ req.len \in Nat
  BY <1>1, Typed
<1>3. req.len \in 0..MaxBody
  BY <1>1 DEF Types, Requests
<1>4. /\ cSent["body"] \in Nat /\ upOut["body"] \in Nat
      /\ upOut["body"] <= cSent["body"] /\ cSent["body"] <= req.len /\ cSent["head"] = 1
  BY <1>1, <1>2, Counts DEF UpInv, LegInv, StageInv
<1>5. Whole(upOut, req.f, req.len) => RequestEnds /\ upOut["body"] = req.len
  BY <1>1, <1>2, LegWhole DEF UpInv, RequestEnds, Whole
<1>6. upSt = "idle" => ~Whole(upOut, req.f, req.len)
  BY <1>1 DEF UpInv, LegInv, Whole
<1> QED
  BY <1>3, <1>4, <1>5, <1>6 DEF UpBounded

\* A copy begins with nothing sent.
LEMMA UpCopyInit == Init => UpCopy!Init
<1> SUFFICES ASSUME Init PROVE UpCopy!Init
  OBVIOUS
<1>1. IInv /\ upSt = "idle"
  BY InitInv DEF Init
<1>2. req.len \in 0..MaxBody /\ ~Whole(upOut, req.f, req.len)
  BY <1>1, UpBounds DEF UpBounded
<1>3. cSent["body"] = 0 /\ upOut["body"] = 0
  BY PutMeans, Counts DEF Init
<1>4. RequestEnds \in BOOLEAN /\ (RequestEnds => req.len = 0)
  BY <1>3 DEF RequestEnds, Whole
<1>5. Whole(upOut, req.f, req.len) \in BOOLEAN
  BY DEF Whole
<1> QED
  BY <1>1, <1>2, <1>3, <1>4, <1>5 DEF UpCopy!Init

\* What does not touch the request's pipes, and reports nothing, is not seen.
LEMMA UpCopyStutter ==
  ASSUME UNCHANGED <<req, cSent, upOut>>,
         upSt' = upSt \/ (upSt \notin {"ok", "err"} /\ upSt' \notin {"ok", "err"})
  PROVE  UNCHANGED UpCopy!vars
  BY DEF UpCopy!vars, RequestEnds, Whole

\* The client sends.
LEMMA UpCopyProduce == IInv /\ IInv' /\ ClientSends => UpCopy!Produce
<1> SUFFICES ASSUME IInv, IInv', ClientSends PROVE UpCopy!Produce
  OBVIOUS
<1>1. UNCHANGED <<req, upOut, upSt>>
  BY DEF ClientSends, peers, upProxy
<1>2. PICK k \in {"body", "end"} :
        /\ k = "body" => cSent["body"] < req.len
        /\ k = "end" => cSent["body"] = req.len /\ cSent["end"] < Ends(req.f)
        /\ cSent' = Put(cSent, k)
  BY DEF ClientSends
<1>3. cSent \in Position
  BY DEF IInv, Types
<1>4. ~RequestEnds
  BY <1>2, <1>3, Counts DEF RequestEnds, Whole
<1>5. cSent'["body"] \in Nat /\ cSent["body"] <= cSent'["body"] /\ cSent'["body"] <= req.len
  <2>1. cSent'["body"] = IF k = "body" THEN cSent["body"] + 1 ELSE cSent["body"]
    BY <1>2, <1>3, PutMeans, Counts
  <2>2. cSent["body"] \in Nat /\ req.len \in Nat /\ cSent["body"] <= req.len
    BY UpBounds DEF UpBounded
  <2> QED
    BY <1>2, <2>1, <2>2
<1>6. cSent'["body"] \in cSent["body"]..req.len
  BY <1>5, UpBounds DEF UpBounded
<1>7. RequestEnds' \in BOOLEAN /\ (RequestEnds' => cSent'["body"] = req.len)
  BY <1>1 DEF RequestEnds, Whole
<1> QED
  BY <1>1, <1>4, <1>6, <1>7 DEF UpCopy!Produce

\* The origin is sent the head, or a unit of the body.
LEMMA UpCopyReceive ==
  ASSUME IInv, IInv', UNCHANGED <<req, cSent>>,
         upSt \notin {"ok", "err"}, upSt' \notin {"ok", "err"},
         ~Whole(upOut, req.f, req.len), upOut["body"] <= upOut'["body"]
  PROVE  UpCopy!Receive
<1>1. /\ upOut["body"] \in Nat /\ upOut'["body"] \in Nat /\ cSent["body"] \in Nat
      /\ upOut'["body"] <= cSent["body"]
      /\ Whole(upOut, req.f, req.len)' => RequestEnds' /\ upOut'["body"] = req.len
  <2>1. /\ upOut'["body"] \in Nat /\ upOut'["body"] <= cSent'["body"]
        /\ Whole(upOut, req.f, req.len)' => RequestEnds' /\ upOut'["body"] = req'.len
    <3>1. UpBounded'
      BY UpBounds, PTL
    <3> QED
      BY <3>1 DEF UpBounded
  <2>2. upOut["body"] \in Nat /\ cSent["body"] \in Nat
    BY UpBounds DEF UpBounded
  <2> QED
    BY <2>1, <2>2
<1>2. upOut'["body"] \in upOut["body"]..cSent["body"]
  BY <1>1
<1>3. Whole(upOut, req.f, req.len)' \in BOOLEAN /\ RequestEnds' = RequestEnds
  BY DEF Whole, RequestEnds
<1> QED
  BY <1>1, <1>2, <1>3 DEF UpCopy!Receive, UpCopy!Whole

\* A forwarder that is dropped has failed, if there was one.
LEMMA UpCopyFails ==
  ASSUME UNCHANGED <<req, cSent, upOut>>, Up!Dropped, upSt # "ok"
  PROVE  [UpCopy!Next]_(UpCopy!vars)
<1>1. CASE upSt \in {"idle", "err"}
  BY <1>1, UpCopyStutter DEF Up!Dropped
<1>2. CASE upSt \notin {"idle", "err"}
  <2>1. upSt' = "err"
    BY <1>2 DEF Up!Dropped
  <2>2. UNCHANGED <<cSent["body"], upOut["body"], Whole(upOut, req.f, req.len), RequestEnds>>
    BY DEF RequestEnds, Whole
  <2>3. UpCopy!Report
    BY <1>2, <2>1, <2>2 DEF UpCopy!Report
  <2> QED
    BY <2>3 DEF UpCopy!Next
<1> QED
  BY <1>1, <1>2

\* Whatever drops the forwarder, it has not succeeded before.
LEMMA NotYetOk ==
  ASSUME StageInv,
         \/ Reject \/ RejectHead \/ ReadHeadFails \/ ForwardInfoFails \/ SendHeadFails
         \/ UpFails \/ ReplyFails \/ DrainFails
  PROVE  upSt # "ok" /\ Up!Dropped /\ upOut' = upOut
<1>1. /\ pc \in {"request", "await", "info", "final", "reply", "drain"} \/ Up!Running
      /\ \E stage : OnlyPending(stage)
  BY DEF Reject, RejectHead, ReadHeadFails, ForwardInfoFails, SendHeadFails, UpFails,
         ReplyFails, DrainFails, Up!ReadFails, Up!WriteFails, Up!TerminateFails, Up!Refills,
         Up!Forwarded
<1>2. Up!Dropped /\ upOut' = upOut
  BY <1>1 DEF OnlyPending
<1>3. upSt # "ok"
  BY <1>1 DEF StageInv, Up!Running
<1> QED
  BY <1>2, <1>3

\* Every step of the exchange is a step of the copy of the request's body, or is not seen.
LEMMA UpCopyNext == IInv /\ IInv' /\ [Next]_vars => [UpCopy!Next]_(UpCopy!vars)
<1> SUFFICES ASSUME IInv, IInv', [Next]_vars PROVE [UpCopy!Next]_(UpCopy!vars)
  OBVIOUS
<1>1. Types /\ UpInv /\ StageInv
  BY DEF IInv
<1>2. cSent \in Position /\ upIn \in Position /\ upOut \in Position /\ req.len \in Nat
  BY <1>1, Typed
<1>3. CASE ClientSends
  BY <1>3, UpCopyProduce DEF UpCopy!Next
<1>4. CASE \/ ClientReads \/ ClientDies \/ Origin \/ OriginDies \/ DownLeg
           \/ Accept \/ ForwardFails \/ ReadHead \/ ForwardInfo \/ SendHead \/ Join
           \/ Reply \/ DrainSome \/ Drain \/ UNCHANGED vars
  <2>1. UNCHANGED <<req, cSent, upOut, upSt>>
    BY <1>4
       DEF ClientReads, ClientDies, Origin, OriginReads, OriginInforms, OriginAnswers,
           OriginSends, OriginDies, DownLeg, DownCopies, DownFails, Accept, ForwardFails,
           ReadHead, ForwardInfo, SendHead, Join, Reply, DrainSome, Drain, vars, peers,
           upProxy, ends
  <2> QED
    BY <2>1, UpCopyStutter
<1>5. CASE Forward
  <2>1. UNCHANGED <<req, cSent>> /\ upOut' = Put(upOut, "head") /\ upSt' = "copy" /\ upSt = "idle"
    BY <1>1, <1>5 DEF Forward, StageInv, peers, ends
  <2>2. upOut'["body"] = upOut["body"] /\ upOut["body"] \in Nat
    BY <1>2, <2>1, PutMeans, Counts
  <2>3. ~Whole(upOut, req.f, req.len)
    BY <2>1, UpBounds DEF UpBounded
  <2>4. UpCopy!Receive
    BY <2>1, <2>2, <2>3, UpCopyReceive
  <2> QED
    BY <2>4 DEF UpCopy!Next
<1>6. CASE UpCopies
  <2>1. UNCHANGED <<req, cSent>> /\ upSt \in {"copy", "whole"} /\ upSt' = upSt
    BY <1>6 DEF UpCopies, Up!Take, Up!TakeEnd, Up!Send, Up!Refills, Up!Running, peers, ends
  <2>2. CASE Up!Take \/ Up!TakeEnd
    BY <2>1, <2>2, UpCopyStutter DEF Up!Take, Up!TakeEnd
  <2>3. CASE Up!Send
    <3>1. upOut["body"] < upIn["body"] /\ upOut' = Put(upOut, "body")
      BY <2>3, SameWire DEF Up!Send, Up!Pending
    <3>2. upOut["body"] \in Nat /\ upOut'["body"] = upOut["body"] + 1
      BY <1>2, <3>1, PutMeans, Counts
    <3>3. upOut["body"] # req.len
      <4>1. upIn["body"] <= cSent["body"] /\ cSent["body"] <= req.len
        BY <1>1, Counts DEF UpInv, LegInv
      <4> QED
        BY <1>2, <3>1, <3>2, <4>1, Counts
    <3>4. UpCopy!Receive
      BY <2>1, <3>2, <3>3, UpCopyReceive DEF Whole
    <3> QED
      BY <3>4 DEF UpCopy!Next
  <2> QED
    BY <1>6, <2>2, <2>3 DEF UpCopies
<1>7. CASE UpBodyFinished
  BY <1>7, UpCopyStutter DEF UpBodyFinished, Up!BodyFinished, peers, ends
<1>8. CASE UpTerminates
  <2>1. /\ UNCHANGED <<req, cSent>> /\ upSt \in {"copy", "whole"} /\ upSt' = "ok"
        /\ upOut' = IF Ends(req.f) = 1 THEN Put(upOut, "end") ELSE upOut
    BY <1>8, SameWire DEF UpTerminates, Up!Terminate, Up!Forwarded, Up!Running, peers, ends
  <2>2. upOut'["body"] = upOut["body"]
    BY <1>2, <2>1, PutMeans, Counts
  <2>3. Whole(upOut, req.f, req.len)'
    <3>1. /\ upIn' \in Position /\ upOut' \in Position
          /\ LegInv(req.f, req.f, req.len, cSent, upIn', upOut', upDone', "ok")
      BY <2>1 DEF IInv, Types, UpInv
    <3>2. Whole(upOut', req.f, req.len)
      BY <1>2, <3>1, LegOk
    <3> QED
      BY <2>1, <3>2
  <2>4. RequestEnds' /\ upOut'["body"] = req.len /\ RequestEnds' = RequestEnds
    <3>1. UpBounded'
      BY UpBounds, PTL
    <3> QED
      BY <2>1, <2>3, <3>1 DEF UpBounded, RequestEnds
  <2>5. UpCopy!Report
    BY <2>1, <2>2, <2>3, <2>4 DEF UpCopy!Report, UpCopy!Whole
  <2> QED
    BY <2>5 DEF UpCopy!Next
<1>9. CASE \/ Reject \/ RejectHead \/ ReadHeadFails \/ ForwardInfoFails \/ SendHeadFails
           \/ UpFails \/ ReplyFails \/ DrainFails
  <2>1. UNCHANGED <<req, cSent>>
    BY <1>9 DEF Reject, RejectHead, ReadHeadFails, ForwardInfoFails, SendHeadFails, UpFails,
                ReplyFails, DrainFails, peers, ends
  <2> QED
    BY <1>1, <1>9, <2>1, NotYetOk, UpCopyFails
<1> QED
  BY <1>3, <1>4, <1>5, <1>6, <1>7, <1>8, <1>9 DEF Next, Client, UpLeg, Caller, Terminated

-----------------------------------------------------------------------------
(* The download implements BodyCopy. *)

\* A client is told the end of a response in as many units as the proxy was.
LEMMA EndsAlike == Ends(ClientFraming) = Ends(resp.f)
  BY DEF Ends, ClientFraming

\* What the proxy and the client make of the end of the response.
CutUnseen == ClientFraming = "eof" /\ downOut["head"] = 1 /\ downSt = "err"
ClientSatisfied == Whole(downOut, ClientFraming, resp.len) \/ CutUnseen

\* What the origin has sent bounds what the client is sent; a response that was written
\* whole was sent whole; and one that ends with the connection is not whole before then.
DownBounded ==
  /\ resp.len \in 0..MaxBody /\ oSent["body"] \in Nat /\ downOut["body"] \in Nat
  /\ downOut["body"] <= oSent["body"] /\ oSent["body"] <= resp.len
  /\ Whole(downOut, ClientFraming, resp.len) => ResponseEnds /\ downOut["body"] = resp.len
  /\ downSt = "idle" => ~Whole(downOut, ClientFraming, resp.len)
  /\ ClientFraming = "eof" /\ downSt # "ok" => ~Whole(downOut, ClientFraming, resp.len)
  /\ oSent["head"] = 0 => oSent["body"] = 0

\* The invariant implies it.
LEMMA DownBounds == IInv => DownBounded
<1> SUFFICES ASSUME IInv PROVE DownBounded
  OBVIOUS
<1>1. Types /\ DownInv
  BY DEF IInv
<1>2. oSent \in Position /\ downIn \in Position /\ downOut \in Position /\ resp.len \in Nat
  BY <1>1, Typed
<1>3. resp.len \in 0..MaxBody
  BY <1>1 DEF Types, Responses
<1>4. /\ oSent["body"] \in Nat /\ downOut["body"] \in Nat
      /\ downOut["body"] <= oSent["body"] /\ oSent["body"] <= resp.len
      /\ oSent["head"] = 0 => oSent["body"] = 0
  BY <1>1, <1>2, Counts DEF DownInv, LegInv
<1>5. Whole(downOut, ClientFraming, resp.len) => ResponseEnds /\ downOut["body"] = resp.len
  BY <1>1, <1>2, LegWhole, EndsAlike DEF DownInv, ResponseEnds, Whole
<1>6. downSt = "idle" => ~Whole(downOut, ClientFraming, resp.len)
  BY <1>1 DEF DownInv, LegInv, Whole
<1>7. ClientFraming = "eof" /\ downSt # "ok" => ~Whole(downOut, ClientFraming, resp.len)
  BY <1>1 DEF DownInv, LegInv, Whole, Ends
<1> QED
  BY <1>3, <1>4, <1>5, <1>6, <1>7 DEF DownBounded

\* A copy begins with nothing sent.
LEMMA DownCopyInit == Init => DownCopy!Init
<1> SUFFICES ASSUME Init PROVE DownCopy!Init
  OBVIOUS
<1>1. IInv /\ downSt = "idle"
  BY InitInv DEF Init
<1>2. resp.len \in 0..MaxBody /\ ~Whole(downOut, ClientFraming, resp.len)
  BY <1>1, DownBounds DEF DownBounded
<1>3. oSent["body"] = 0 /\ downOut["body"] = 0 /\ oSent["head"] = 0
  BY Counts DEF Init
<1>4. ResponseEnds \in BOOLEAN /\ ~ResponseEnds
  BY <1>3 DEF ResponseEnds, Whole
<1>5. ClientSatisfied \in BOOLEAN /\ ~ClientSatisfied
  BY <1>1, <1>2 DEF ClientSatisfied, CutUnseen
<1>6. (ClientFraming # "eof") \in BOOLEAN
  OBVIOUS
<1> QED
  BY <1>1, <1>2, <1>3, <1>4, <1>5, <1>6
     DEF DownCopy!Init, ResponseEnds, ClientSatisfied, CutUnseen

\* What does not touch the response's pipes, and reports nothing, is not seen.
LEMMA DownCopyStutter ==
  ASSUME UNCHANGED <<req, resp, downOut>>, UNCHANGED <<oSent["body"], ResponseEnds>>,
         downSt' = downSt \/ (downSt \notin {"ok", "err"} /\ downSt' \notin {"ok", "err"})
  PROVE  UNCHANGED DownCopy!vars
<1>1. ClientFraming' = ClientFraming
  BY DEF ClientFraming
<1> QED
  BY <1>1 DEF DownCopy!vars, ResponseEnds, Whole

\* The origin sends: its interim heads are not part of the copy.
LEMMA DownCopyProduce ==
  IInv /\ IInv' /\ Origin => DownCopy!Produce \/ UNCHANGED DownCopy!vars
<1> SUFFICES ASSUME IInv, IInv', Origin
             PROVE  DownCopy!Produce \/ UNCHANGED DownCopy!vars
  OBVIOUS
<1>1. UNCHANGED <<req, resp, downOut, downSt>>
  BY DEF Origin, OriginReads, OriginInforms, OriginAnswers, OriginSends, peers, downProxy
<1>2. oSent \in Position
  BY DEF IInv, Types
<1>3. DownBounded /\ DownBounded'
  <2>1. DownBounded'
    BY DownBounds, PTL
  <2> QED
    BY <2>1, DownBounds
<1>4. ASSUME ~ResponseEnds, oSent["body"] <= oSent'["body"]
      PROVE  DownCopy!Produce
  <2>1. oSent'["body"] \in oSent["body"]..resp.len
    BY <1>1, <1>3, <1>4 DEF DownBounded
  <2>2. ResponseEnds' \in BOOLEAN /\ (ResponseEnds' => oSent'["body"] = resp.len)
    BY <1>1 DEF ResponseEnds, Whole
  <2>3. ClientFraming' = ClientFraming
    BY <1>1 DEF ClientFraming
  <2>4. UNCHANGED <<ClientFraming # "eof", resp.len, downOut["body"], ClientSatisfied>>
    BY <1>1, <2>3 DEF ClientSatisfied, CutUnseen, Whole
  <2> QED
    BY <1>1, <1>4, <2>1, <2>2, <2>3, <2>4
       DEF DownCopy!Produce, ResponseEnds, ClientSatisfied, CutUnseen
<1>5. CASE OriginReads
  BY <1>1, <1>5, DownCopyStutter DEF OriginReads, ResponseEnds, Whole
<1>6. CASE OriginInforms
  <2>1. oSent["head"] = 0 /\ oSent' = Put(oSent, "info")
    BY <1>6 DEF OriginInforms
  <2>2. oSent'["head"] = oSent["head"] /\ oSent'["body"] = oSent["body"]
    BY <1>2, <2>1, PutMeans, Counts
  <2>3. UNCHANGED ResponseEnds
    BY <2>1, <2>2 DEF ResponseEnds, Whole
  <2> QED
    BY <1>1, <2>2, <2>3, DownCopyStutter
<1>7. CASE OriginAnswers
  <2>1. oSent["head"] = 0 /\ oSent' = Put(oSent, "head")
    BY <1>7 DEF OriginAnswers
  <2>2. oSent'["body"] = oSent["body"] /\ oSent["body"] \in Nat
    BY <1>2, <2>1, PutMeans, Counts
  <2>3. ~ResponseEnds
    BY <2>1 DEF ResponseEnds, Whole
  <2> QED
    BY <1>4, <2>2, <2>3
<1>8. CASE OriginSends
  <2>1. PICK k \in {"body", "end"} :
          /\ k = "body" => oSent["body"] < resp.len
          /\ k = "end" => oSent["body"] = resp.len /\ oSent["end"] < Ends(resp.f)
          /\ oSent' = Put(oSent, k)
    BY <1>8 DEF OriginSends
  <2>2. ~ResponseEnds
    BY <1>2, <2>1, Counts DEF ResponseEnds, Whole
  <2>3. oSent'["body"] = IF k = "body" THEN oSent["body"] + 1 ELSE oSent["body"]
    BY <1>2, <2>1, PutMeans, Counts
  <2>4. oSent["body"] <= oSent'["body"]
    BY <1>2, <2>3, Counts
  <2> QED
    BY <1>4, <2>2, <2>4
<1> QED
  BY <1>5, <1>6, <1>7, <1>8 DEF Origin

\* The client is sent the head, or a unit of the body; or a body that it cannot tell
\* from a complete one is cut.
LEMMA DownCopyReceive ==
  ASSUME IInv, IInv', UNCHANGED <<req, resp, oSent>>,
         downSt \notin {"ok", "err"}, downSt' # "ok",
         downSt' = "err" => ClientFraming = "eof",
         ~Whole(downOut, ClientFraming, resp.len), downOut["body"] <= downOut'["body"]
  PROVE  DownCopy!Receive
<1>1. DownBounded /\ DownBounded'
  <2>1. DownBounded'
    BY DownBounds, PTL
  <2> QED
    BY <2>1, DownBounds
<1>2. ClientFraming' = ClientFraming /\ ResponseEnds' = ResponseEnds
  BY DEF ClientFraming, ResponseEnds, Whole
<1>3. downOut'["body"] \in downOut["body"]..oSent["body"]
  BY <1>1 DEF DownBounded
<1>4. ~ClientSatisfied
  BY DEF ClientSatisfied, CutUnseen
<1>5. ClientSatisfied' \in BOOLEAN
  BY DEF ClientSatisfied, CutUnseen, Whole
<1>6. ClientSatisfied' /\ ClientFraming # "eof" => ResponseEnds' /\ downOut'["body"] = resp.len
  BY <1>1, <1>2 DEF DownBounded, ClientSatisfied, CutUnseen
<1> QED
  BY <1>2, <1>3, <1>4, <1>5, <1>6
     DEF DownCopy!Receive, DownCopy!Whole, ResponseEnds, ClientSatisfied, CutUnseen

\* Every step of the exchange is a step of the copy of the response's body, or is not
\* seen.
LEMMA DownCopyNext == IInv /\ IInv' /\ [Next]_vars => [DownCopy!Next]_(DownCopy!vars)
<1> SUFFICES ASSUME IInv, IInv', [Next]_vars PROVE [DownCopy!Next]_(DownCopy!vars)
  OBVIOUS
<1>1. Types /\ DownInv /\ StageInv /\ DownBounded
  BY DownBounds DEF IInv
<1>2. oSent \in Position /\ downIn \in Position /\ downOut \in Position /\ resp.len \in Nat
  BY <1>1, Typed
<1>3. CASE Origin
  BY <1>3, DownCopyProduce DEF DownCopy!Next
<1>4. CASE \/ Client \/ ClientDies \/ OriginDies \/ UpLeg
           \/ Accept \/ Reject \/ Forward \/ ForwardFails \/ ReadHead \/ RejectHead
           \/ ReadHeadFails \/ ForwardInfoFails \/ SendHeadFails \/ Join
           \/ Reply \/ ReplyFails \/ DrainSome \/ Drain \/ DrainFails \/ UNCHANGED vars
  <2>1. UNCHANGED <<req, resp, oSent, downOut, downSt>>
    <3>1. CASE Client \/ ClientDies \/ OriginDies \/ UpLeg \/ UNCHANGED vars
      BY <3>1
         DEF Client, ClientSends, ClientReads, ClientDies, OriginDies, UpLeg, UpCopies,
             UpBodyFinished, UpTerminates, UpFails, vars, peers, downProxy, ends
    <3>2. CASE \/ Accept \/ Reject \/ Forward \/ ForwardFails \/ ReadHead \/ RejectHead
               \/ ReadHeadFails \/ ForwardInfoFails \/ SendHeadFails \/ Join
               \/ Reply \/ ReplyFails \/ DrainSome \/ Drain \/ DrainFails
      BY <3>2
         DEF Accept, Reject, Forward, ForwardFails, ReadHead, RejectHead, ReadHeadFails,
             ForwardInfoFails, SendHeadFails, Join, Reply, ReplyFails, DrainSome, Drain,
             DrainFails, peers, downProxy, ends
    <3> QED
      BY <1>4, <3>1, <3>2
  <2>2. UNCHANGED <<oSent["body"], ResponseEnds>>
    BY <2>1 DEF ResponseEnds, Whole
  <2> QED
    BY <2>1, <2>2, DownCopyStutter
<1>5. CASE ForwardInfo
  <2>1. /\ UNCHANGED <<req, resp, oSent, downSt>> /\ downSt = "idle"
        /\ downOut' = IF req.v10 THEN downOut ELSE Put(downOut, "info")
    BY <1>1, <1>5 DEF ForwardInfo, StageInv, peers, ends
  <2>2. downOut'["body"] = downOut["body"] /\ downOut["body"] \in Nat
    BY <1>2, <2>1, PutMeans, Counts
  <2>3. DownCopy!Receive
    BY <1>1, <2>1, <2>2, DownCopyReceive DEF DownBounded
  <2> QED
    BY <2>3 DEF DownCopy!Next
<1>6. CASE SendHead
  <2>1. /\ UNCHANGED <<req, resp, oSent>> /\ downSt = "idle" /\ downSt' = "copy"
        /\ downOut' = Put(downOut, "head")
    BY <1>1, <1>6 DEF SendHead, StageInv, peers, ends
  <2>2. downOut'["body"] = downOut["body"] /\ downOut["body"] \in Nat
    BY <1>2, <2>1, PutMeans, Counts
  <2>3. DownCopy!Receive
    BY <1>1, <2>1, <2>2, DownCopyReceive DEF DownBounded
  <2> QED
    BY <2>3 DEF DownCopy!Next
<1>7. CASE DownLeg
  <2>1. UNCHANGED <<req, resp, oSent>> /\ downSt \in {"copy", "whole"}
    BY <1>7
       DEF DownLeg, DownCopies, DownFails, Down!Take, Down!TakeEnd, Down!Send, Down!Terminate,
           Down!ReadFails, Down!WriteFails, Down!TerminateFails, Down!Refills,
           Down!Forwarded, Down!Running, peers, ends
  <2>2. UNCHANGED <<oSent["body"], ResponseEnds, ClientFraming>>
    BY <2>1 DEF ResponseEnds, Whole, ClientFraming
  <2>3. CASE Down!Take \/ Down!TakeEnd
    BY <2>1, <2>2, <2>3, DownCopyStutter DEF Down!Take, Down!TakeEnd
  <2>4. CASE Down!Send
    <3>1. downOut["body"] < downIn["body"] /\ downOut' = Put(downOut, "body") /\ downSt' = downSt
      BY <2>4, SameWire DEF Down!Send, Down!Pending
    <3>2. downOut["body"] \in Nat /\ downOut'["body"] = downOut["body"] + 1
      BY <1>2, <3>1, PutMeans, Counts
    <3>3. downOut["body"] # resp.len
      <4>1. downIn["body"] <= oSent["body"] /\ oSent["body"] <= resp.len
        BY <1>1, Counts DEF DownInv, LegInv
      <4> QED
        BY <1>2, <3>1, <3>2, <4>1, Counts
    <3>4. DownCopy!Receive
      BY <2>1, <3>1, <3>2, <3>3, DownCopyReceive DEF Whole
    <3> QED
      BY <3>4 DEF DownCopy!Next
  <2>5. CASE Down!Terminate
    <3>1. /\ downSt' = "ok"
          /\ downOut' = IF Ends(ClientFraming) = 1 THEN Put(downOut, "end") ELSE downOut
      BY <2>5, SameWire DEF Down!Terminate
    <3>2. downOut'["body"] = downOut["body"]
      BY <1>2, <3>1, PutMeans, Counts
    <3>3. Whole(downOut', ClientFraming, resp.len)
      <4>1. /\ downIn' \in Position /\ downOut' \in Position
            /\ LegInv(resp.f, ClientFraming, resp.len, oSent, downIn', downOut', downDone', "ok")
        BY <2>1, <2>2, <3>1 DEF IInv, Types, DownInv
      <4> QED
        BY <1>2, <4>1, LegOk
    <3>4. ResponseEnds' /\ downOut'["body"] = resp.len
      <4>1. DownBounded'
        BY DownBounds, PTL
      <4> QED
        BY <2>1, <2>2, <3>3, <4>1 DEF DownBounded
    <3>5. ClientSatisfied'
      BY <2>1, <2>2, <3>3 DEF ClientSatisfied
    <3>6. DownCopy!Report
      BY <2>1, <2>2, <3>1, <3>2, <3>4, <3>5
         DEF DownCopy!Report, DownCopy!Whole, ResponseEnds, ClientSatisfied, CutUnseen
    <3> QED
      BY <3>6 DEF DownCopy!Next
  <2>6. CASE DownFails
    <3>1. downSt' = "err" /\ downOut' = downOut
      BY <2>1, <2>6 DEF DownFails, Down!Dropped
    <3>2. CASE ClientFraming = "eof"
      <4>1. ~Whole(downOut, ClientFraming, resp.len) /\ downOut["body"] \in Nat
        BY <1>1, <2>1, <3>2 DEF DownBounded
      <4>2. DownCopy!Receive
        BY <2>1, <3>1, <3>2, <4>1, DownCopyReceive
      <4> QED
        BY <4>2 DEF DownCopy!Next
    <3>3. CASE ClientFraming # "eof"
      <4>1. ClientSatisfied' = ClientSatisfied
        BY <2>1, <2>2, <3>1, <3>3 DEF ClientSatisfied, CutUnseen, Whole
      <4>2. DownCopy!Report
        BY <2>1, <2>2, <3>1, <4>1
           DEF DownCopy!Report, ResponseEnds, ClientSatisfied, CutUnseen
      <4> QED
        BY <4>2 DEF DownCopy!Next
    <3> QED
      BY <3>2, <3>3
  <2> QED
    BY <1>7, <2>3, <2>4, <2>5, <2>6 DEF DownLeg, DownCopies
<1> QED
  BY <1>3, <1>4, <1>5, <1>6, <1>7 DEF Next, Caller, Terminated

\* The exchange implements BodyCopy in each direction, whatever happens in the other:
\* the recipient gets what the source produced, in order, and learns that a body is
\* complete, and the proxy reports it, only when it is.
THEOREM Refinement == Spec => BothAreCopies
<1>1. Init => UpCopy!Init /\ DownCopy!Init
  BY UpCopyInit, DownCopyInit
<1>2. IInv /\ IInv' /\ [Next]_vars => [UpCopy!Next]_(UpCopy!vars)
  BY UpCopyNext
<1>3. IInv /\ IInv' /\ [Next]_vars => [DownCopy!Next]_(DownCopy!vars)
  BY DownCopyNext
<1> QED
  BY <1>1, <1>2, <1>3, Invariance, PTL DEF Spec, BothAreCopies, UpCopy!Spec, DownCopy!Spec
=============================================================================
