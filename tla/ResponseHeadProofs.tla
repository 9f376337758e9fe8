-------------------------- MODULE ResponseHeadProofs --------------------------
(***************************************************************************)
(* For any heads, edits, lengths and trailers: the client finds the end of *)
(* each response where the proxy puts it, gets the fields that are meant   *)
(* for it and no others, and trailers change nothing it has read.          *)
(***************************************************************************)
EXTENDS ResponseHead, FieldsProofs, TLAPS

USE FieldAssumption, ResponseAssumption

\* What is known of the response in hand, and that it is not written yet.
StageInv ==
  /\ pc \notin {"informed", "sent", "ended"} => writer = "nothing"
  /\ pc = "info" => code \in Interim
  /\ pc = "final" =>
       /\ Welcome(code, http10, received)
       /\ code \notin Interim
       /\ body = BodyReader(code, received)

\* A head from which the scoped fields were stripped, and to which the proxy has added
\* nothing yet: the rest of the received fields are all in it, where they were.
Stripped(r, h) ==
  /\ r.n <= h.n
  /\ NoneScoped(r, h) /\ AllKept(r, h, {}) /\ Original(r, h)
  /\ NoneAdded(r, h, "via") /\ NoneAdded(r, h, "date")

HeadInv == pc \in {"info", "final"} => Stripped(received, head)

IInv == TypeOK /\ StageInv /\ HeadInv /\ ClientAgrees /\ RightFieldsGoOn /\ FoldingIsHarmless

-----------------------------------------------------------------------------
(* Lemmas about the heads of responses *)

\* No field at all is a list of fields.
LEMMA NoHeadersType == IsHeaders(NoHeaders)
  BY DEF IsHeaders, NoHeaders

\* NormalizedResponseStream strips a head of what is scoped to its connection and of
\* nothing else.
LEMMA StripStrips ==
  ASSUME NEW h, IsHeaders(h)
  PROVE  IsHeaders(StripHopByHop(h, Tokens(h))) /\ Stripped(h, StripHopByHop(h, Tokens(h)))
<1> DEFINE spared == {i \in DOMAIN h.at : h.at[i].name \notin HopByHop \cup Tokens(h)}
           g == Keep(h, spared)
<1>1. IsHeaders(g) /\ g.n = h.n /\ h.n \in Nat
  BY KeepType DEF IsHeaders
<1>2. NoneScoped(h, g)
  <2>1. StripHopByHop(h, Tokens(h)) = g
    BY DEF StripHopByHop
  <2>2. NoneScoped(h, StripHopByHop(h, Tokens(h)))
    BY StripScopes
  <2> QED
    BY <2>1, <2>2
<1>3. Added(h, h) = {}
  BY DEF Added, IsHeaders
<1>4. Original(h, h) /\ AllKept(h, h, {}) /\ \A name : NoneAdded(h, h, name)
  BY <1>3 DEF Original, AllKept, NoneAdded
<1>5. \A i \in DOMAIN h.at : h.at[i].name \notin Scoped(h) \cup {} => i \in spared
  BY DEF Scoped
<1> HIDE DEF spared
<1>6. AllKept(h, g, {})
  BY <1>4, <1>5, KeepAllKept
<1>7. Original(h, g) /\ NoneAdded(h, g, "via") /\ NoneAdded(h, g, "date")
  BY <1>4, KeepOriginal, KeepNoneAdded
<1> HIDE DEF g
<1>8. Stripped(h, g)
  BY <1>1, <1>2, <1>6, <1>7 DEF Stripped
<1> QED
  BY <1>1, <1>8 DEF g, spared, StripHopByHop

\* It stays so when a caller adds a field of its own.
LEMMA PushStripped ==
  ASSUME NEW r, IsHeaders(r), NEW h, IsHeaders(h), NEW f, IsField(f), f.name \notin {"via", "date"},
         Stripped(r, h)
  PROVE  IsHeaders(Push(h, f)) /\ Stripped(r, Push(h, f))
<1>1. r.n <= h.n /\ r.n \in Nat /\ h.n \in Nat
  BY DEF Stripped, IsHeaders
<1>2. IsHeaders(Push(h, f)) /\ Push(h, f).n = h.n + 1
  BY PushType
<1>3. NoneScoped(r, Push(h, f)) /\ AllKept(r, Push(h, f), {}) /\ Original(r, Push(h, f))
  BY <1>1, PushNoneScoped, PushAllKept, PushOriginal DEF Stripped
<1>4. NoneAdded(r, Push(h, f), "via") /\ NoneAdded(r, Push(h, f), "date")
  BY PushNoneAdded DEF Stripped
<1> QED
  BY <1>1, <1>2, <1>3, <1>4 DEF Stripped

\* A head with the proxy's Via, ready to be written.
Marked(r, h) ==
  /\ IsHeaders(h) /\ r.n <= h.n
  /\ NoneScoped(r, h) /\ AllKept(r, h, {}) /\ Original(r, h)
  /\ AddedOnce(r, h, Via)

\* The Via is the first the proxy adds.
LEMMA PushVia ==
  ASSUME NEW r, IsHeaders(r), NEW h, IsHeaders(h), Stripped(r, h)
  PROVE  Marked(r, Push(h, Via)) /\ NoneAdded(r, Push(h, Via), "date")
<1>1. r.n <= h.n /\ r.n \in Nat /\ h.n \in Nat
  BY DEF Stripped, IsHeaders
<1>2. IsHeaders(Push(h, Via)) /\ Push(h, Via).n = h.n + 1
  BY PushType, OwnFields
<1>3. NoneScoped(r, Push(h, Via)) /\ AllKept(r, Push(h, Via), {}) /\ Original(r, Push(h, Via))
  BY <1>1, PushNoneScoped, PushAllKept, PushOriginal DEF Stripped
<1>4. Via.name = "via"
  BY DEF Via
<1>5. AddedOnce(r, Push(h, Via), Via)
  BY <1>1, <1>4, PushAddedOnce DEF Stripped
<1>6. NoneAdded(r, Push(h, Via), "date")
  BY <1>4, PushNoneAdded DEF Stripped
<1> QED
  BY <1>1, <1>2, <1>3, <1>5, <1>6 DEF Marked

\* What the proxy says of the time a response was made.
DateGoesOn(r, h) ==
  \/ AddedOnce(r, h, Date)
  \/ Named(h, "date") # {} /\ Named(h, "date") \cap Added(r, h) = {}

\* A Date is added only where there is none.
LEMMA DatedMarked ==
  ASSUME NEW r, IsHeaders(r), NEW h, Marked(r, h), NoneAdded(r, h, "date")
  PROVE  Marked(r, Dated(h)) /\ DateGoesOn(r, Dated(h))
<1>1. r.n <= h.n /\ r.n \in Nat /\ h.n \in Nat /\ IsHeaders(h)
  BY DEF Marked, IsHeaders
<1>2. CASE Named(h, "date") # {}
  <2>1. Dated(h) = h
    BY <1>2 DEF Dated
  <2>2. Named(h, "date") \cap Added(r, h) = {}
    BY DEF NoneAdded, Named
  <2> QED
    BY <1>2, <2>1, <2>2 DEF DateGoesOn
<1>3. CASE Named(h, "date") = {}
  <2>1. Dated(h) = Push(h, Date)
    BY <1>3 DEF Dated
  <2>2. IsHeaders(Push(h, Date)) /\ Push(h, Date).n = h.n + 1
    BY <1>1, PushType, OwnFields
  <2>3. NoneScoped(r, Push(h, Date)) /\ AllKept(r, Push(h, Date), {}) /\ Original(r, Push(h, Date))
    BY <1>1, PushNoneScoped, PushAllKept, PushOriginal DEF Marked
  <2>4. Date.name = "date" /\ Date.name # Via.name
    BY DEF Date, Via
  <2>5. AddedOnce(r, Push(h, Date), Via)
    BY <1>1, <2>4, PushStillOnce DEF Marked
  <2>6. AddedOnce(r, Push(h, Date), Date)
    BY <1>1, <2>4, PushAddedOnce
  <2> QED
    BY <1>1, <2>1, <2>2, <2>3, <2>5, <2>6 DEF Marked, DateGoesOn
<1> QED
  BY <1>2, <1>3

\* What the client gets of a head that is ready, however it is written.
LEMMA WrittenMarked ==
  ASSUME NEW r, IsHeaders(r), NEW h, Marked(r, h), NEW w
  PROVE  /\ IsHeaders(Written(h, w))
         /\ NoneScoped(r, Written(h, w))
         /\ AllKept(r, Written(h, w), IF w = "keep" THEN {} ELSE FramingNames)
         /\ AddedOnce(r, Written(h, w), Via)
         /\ DateGoesOn(r, h) => DateGoesOn(r, Written(h, w))
<1> DEFINE g == Written(h, w)
<1>1. IsHeaders(h) /\ r.n <= h.n
  BY DEF Marked
<1>2. IsHeaders(g) /\ NoneScoped(r, g)
  BY <1>1, WrittenType, WrittenNoneScoped DEF Marked
<1>3. AllKept(r, g, IF w = "keep" THEN {} ELSE FramingNames)
  <2>1. CASE w = "keep"
    BY <2>1 DEF Marked, Written
  <2>2. CASE w # "keep"
    <3>1. AllKept(r, g, {} \cup FramingNames)
      BY <1>1, WrittenKeepsRest DEF Marked
    <3>2. {} \cup FramingNames = FramingNames
      OBVIOUS
    <3> QED
      BY <2>2, <3>1, <3>2
  <2> QED
    BY <2>1, <2>2
<1>4. Via.name \notin FramingNames /\ Date.name \notin FramingNames /\ "date" \notin FramingNames
  BY DEF Via, Date, FramingNames
<1>5. AddedOnce(r, g, Via)
  BY <1>1, <1>4, WrittenKeepsRest DEF Marked
<1>6. AddedOnce(r, h, Date) => AddedOnce(r, g, Date)
  BY <1>1, <1>4, WrittenKeepsRest
<1>7. Named(g, "date") = Named(h, "date")
  BY <1>1, <1>4, WrittenKeepsRest
<1>8. ASSUME Named(h, "date") \cap Added(r, h) = {}
      PROVE  Named(g, "date") \cap Added(r, g) = {}
  <2>1. NoneAdded(r, h, "date")
    BY <1>8 DEF NoneAdded, Named, Added
  <2>2. NoneAdded(r, g, "date")
    BY <1>1, <1>4, <2>1, WrittenKeepsRest
  <2> QED
    BY <2>2 DEF NoneAdded, Named
<1> QED
  BY <1>2, <1>3, <1>5, <1>6, <1>7, <1>8 DEF DateGoesOn

\* A head without framing fields has none in what the proxy does not add to it.
LEMMA NoFramingReceived ==
  ASSUME NEW r, IsHeaders(r), NEW h, Original(r, h), Framing(r) = "none"
  PROVE  \A i \in DOMAIN h.at : h.at[i].name \in FramingNames => i \in Added(r, h)
<1>1. Named(r, "content-length") = {} /\ Named(r, "transfer-encoding") = {}
  <2>1. LengthsAgree(r) /\ CodingIsChunked(r)
    BY DEF Framing
  <2>2. ASSUME Named(r, "content-length") # {}, Named(r, "transfer-encoding") = {}
        PROVE  FALSE
    <3>1. Framing(r) = CHOOSE l \in Elements(r, "content-length") : TRUE
      BY <2>1, <2>2 DEF Framing
    <3>2. PICK i \in Named(r, "content-length") : TRUE
      BY <2>2
    <3>3. 1 \in DOMAIN r.at[i].value
      BY <3>2 DEF Named, IsHeaders, IsField
    <3>4. r.at[i].value[1] \in Elements(r, "content-length")
      BY <3>2, <3>3, ElementsMeans
    <3>5. Framing(r) \in Lengths
      BY <2>1, <3>1, <3>4 DEF LengthsAgree
    <3> QED
      BY <3>5 DEF Framings
  <2> QED
    BY <2>1, <2>2 DEF Framing
<1> SUFFICES ASSUME NEW i \in DOMAIN h.at, h.at[i].name \in FramingNames, i \notin Added(r, h)
             PROVE  FALSE
  OBVIOUS
<1>2. i \in DOMAIN r.at /\ r.at[i].name \in FramingNames
  BY DEF Original
<1> QED
  BY <1>1, <1>2 DEF Named, FramingNames

-----------------------------------------------------------------------------
(* The invariant *)

\* It holds before the first response.
LEMMA InitInv == Init => IInv
<1> SUFFICES ASSUME Init PROVE IInv
  OBVIOUS
<1>1. edits \in 0..MaxEdits
  BY DEF Init
<1>2. pc \in Stages /\ code \in Codes /\ http10 \in BOOLEAN /\ reuse \in BOOLEAN
  BY DEF Init, Stages, Codes
<1>3. /\ IsHeaders(received) /\ IsHeaders(head) /\ IsHeaders(sent)
      /\ IsHeaders(section) /\ IsHeaders(trailers)
  BY NoHeadersType DEF Init
<1>4. TypeOK
  BY <1>1, <1>2, <1>3 DEF Init, TypeOK, Framings
<1>5. pc = "await" /\ writer = "nothing"
  BY DEF Init
<1> QED
  BY <1>4, <1>5 DEF IInv, StageInv, HeadInv, ClientAgrees, RightFieldsGoOn, FoldingIsHarmless

\* No response is with the client.
Unwritten == writer = "nothing" /\ pc \notin {"sent", "ended"}

\* As long as nothing is written there is nothing to judge.
LEMMA NothingWritten == Unwritten => ClientAgrees /\ RightFieldsGoOn /\ FoldingIsHarmless
  BY DEF Unwritten, ClientAgrees, RightFieldsGoOn, FoldingIsHarmless

\* BackendReader::read and NormalizedResponseStream::new
LEMMA ReadStep == IInv /\ ReadResponse => IInv'
<1> SUFFICES ASSUME IInv, ReadResponse PROVE IInv'
  OBVIOUS
<1>1. TypeOK /\ writer = "nothing" /\ pc = "await"
  BY DEF IInv, StageInv, ReadResponse
<1>2. PICK c \in Codes, v10 \in BOOLEAN, h \in Heads :
        /\ code' = c /\ http10' = v10 /\ received' = h
        /\ IF ~Welcome(c, v10, h)
           THEN pc' = "failed" /\ UNCHANGED <<head, body, reuse>>
           ELSE /\ head' = StripHopByHop(h, Tokens(h))
                /\ IF c \in Interim
                   THEN pc' = "info" /\ UNCHANGED <<body, reuse>>
                   ELSE /\ pc' = "final"
                        /\ body' = BodyReader(c, h)
                        /\ reuse' = (Persistent(h, v10) /\ body' # "eof")
  BY DEF ReadResponse
<1>3. IsHeaders(h)
  OBVIOUS
<1>4. writer' = "nothing" /\ pc' \notin {"sent", "ended", "informed"} /\ isHead' = isHead
  BY <1>1, <1>2 DEF ReadResponse, client
<1>5. (ClientAgrees /\ RightFieldsGoOn /\ FoldingIsHarmless)'
  <2>1. Unwritten'
    BY <1>4 DEF Unwritten
  <2> QED
    BY <2>1, NothingWritten, PTL
<1>6. CASE ~Welcome(c, v10, h)
  <2>1. pc' = "failed" /\ head' = head /\ body' = body /\ reuse' = reuse
    BY <1>2, <1>6
  <2>2. TypeOK'
    BY <1>1, <1>2, <1>3, <2>1 DEF ReadResponse, TypeOK, client, tail, Stages
  <2> QED
    BY <1>4, <1>5, <2>1, <2>2 DEF IInv, StageInv, HeadInv
<1>7. CASE Welcome(c, v10, h)
  <2>1. IsHeaders(head') /\ Stripped(received', head')
    BY <1>2, <1>3, <1>7, StripStrips
  <2>2. pc' \in {"info", "final"}
    BY <1>2, <1>7
  <2>3. pc' = "info" => c \in Interim
    BY <1>2, <1>7
  <2>4. pc' = "final" => c \notin Interim /\ body' = BodyReader(c, h)
    BY <1>2, <1>7
  <2>5. body' \in Framings \cup Lengths
    <3>1. Framing(h) \in {"none", "chunked"} \cup Lengths
      BY <1>3, <1>7, FramingType DEF Welcome
    <3>2. BodyReader(c, h) \in Framings \cup Lengths
      BY <3>1 DEF BodyReader, Framings
    <3> QED
      BY <1>1, <1>2, <1>7, <3>2 DEF TypeOK
  <2>6. reuse' \in BOOLEAN
    <3>1. (Persistent(h, v10) /\ body' # "eof") \in BOOLEAN
      BY DEF Persistent
    <3> QED
      BY <1>1, <1>2, <1>7, <3>1 DEF TypeOK
  <2>7. TypeOK'
    BY <1>1, <1>2, <1>3, <2>1, <2>2, <2>5, <2>6 DEF ReadResponse, TypeOK, client, tail, Stages
  <2>8. Welcome(code, http10, received)'
    BY <1>2, <1>7 DEF Welcome
  <2>9. BodyReader(code, received)' = BodyReader(c, h)
    BY <1>2, <1>4 DEF BodyReader
  <2>10. StageInv'
    BY <1>2, <1>4, <2>2, <2>3, <2>4, <2>8, <2>9 DEF StageInv
  <2> QED
    BY <1>5, <2>1, <2>7, <2>10 DEF IInv, HeadInv
<1> QED
  BY <1>6, <1>7

\* forward_informational_response
LEMMA InfoStep == IInv /\ ForwardInfo => IInv'
<1> SUFFICES ASSUME IInv, ForwardInfo PROVE IInv'
  OBVIOUS
<1>1. /\ TypeOK /\ IsHeaders(received) /\ IsHeaders(head) /\ writer = "nothing"
      /\ code \in Interim /\ Stripped(received, head)
  BY DEF IInv, TypeOK, StageInv, HeadInv, ForwardInfo
<1>2. pc' = "informed" /\ code' = code /\ received' = received /\ isHead' = isHead /\ client10' = client10
  BY DEF ForwardInfo, client, message
<1>3. StageInv' /\ HeadInv'
  BY <1>2 DEF StageInv, HeadInv
<1>4. CASE client10
  <2>1. writer' = "nothing" /\ sent' = sent
    BY <1>1, <1>4 DEF ForwardInfo
  <2>2. (ClientAgrees /\ RightFieldsGoOn /\ FoldingIsHarmless)'
    <3>1. Unwritten'
      BY <1>2, <2>1 DEF Unwritten
    <3> QED
      BY <3>1, NothingWritten, PTL
  <2>3. TypeOK'
    BY <1>1, <1>2, <2>1 DEF ForwardInfo, TypeOK, client, message, tail, Stages
  <2> QED
    BY <1>3, <2>2, <2>3 DEF IInv
<1>5. CASE ~client10
  <2> DEFINE marked == Push(head, Via)
  <2>1. writer' = "none" /\ sent' = Written(marked, "none")
    BY <1>5 DEF ForwardInfo
  <2>2. Marked(received, marked)
    BY <1>1, PushVia
  <2> HIDE DEF marked
  <2>3. /\ IsHeaders(sent') /\ NoneScoped(received, sent') /\ AllKept(received, sent', FramingNames)
        /\ AddedOnce(received, sent', Via)
    BY <1>1, <2>1, <2>2, WrittenMarked
  <2>4. IsHeaders(marked)
    BY <2>2 DEF Marked
  <2>5. Says(sent', "none")
    BY <2>1, <2>4, WrittenSays
  <2>6. \A i \in DOMAIN sent'.at : sent'.at[i].name \notin FramingNames
    BY <2>5 DEF Says
  <2>7. ClientAgrees'
    BY <1>1, <1>2, <2>1, <2>6 DEF ClientAgrees, ClientReading
  <2>8. RightFieldsGoOn' /\ FoldingIsHarmless'
    BY <1>2, <2>1, <2>3 DEF RightFieldsGoOn, FoldingIsHarmless
  <2>9. TypeOK'
    BY <1>1, <1>2, <2>1, <2>3 DEF ForwardInfo, TypeOK, client, message, tail, Stages, Framings
  <2> QED
    BY <1>3, <2>7, <2>8, <2>9 DEF IInv
<1> QED
  BY <1>4, <1>5

\* The next read
LEMMA AwaitStep == IInv /\ AwaitNext => IInv'
<1> SUFFICES ASSUME IInv, AwaitNext PROVE IInv'
  OBVIOUS
<1>1. pc' = "await" /\ writer' = "nothing" /\ TypeOK
  BY DEF IInv, AwaitNext
<1>2. (ClientAgrees /\ RightFieldsGoOn /\ FoldingIsHarmless)'
  <2>1. Unwritten'
    BY <1>1 DEF Unwritten
  <2> QED
    BY <2>1, NothingWritten, PTL
<1>3. TypeOK'
  BY <1>1, NoHeadersType DEF AwaitNext, TypeOK, client, tail, Stages, Codes, Framings
<1> QED
  BY <1>1, <1>2, <1>3 DEF IInv, StageInv, HeadInv

\* Writes that fail
LEMMA FailStep == IInv /\ WriteFails => IInv'
<1> SUFFICES ASSUME IInv, WriteFails PROVE IInv'
  OBVIOUS
<1>1. pc' = "failed" /\ writer' = "nothing" /\ TypeOK
  BY DEF IInv, StageInv, WriteFails
<1>2. (ClientAgrees /\ RightFieldsGoOn /\ FoldingIsHarmless)'
  <2>1. Unwritten'
    BY <1>1 DEF Unwritten
  <2> QED
    BY <2>1, NothingWritten, PTL
<1>3. TypeOK'
  BY <1>1 DEF WriteFails, TypeOK, client, message, tail, Stages
<1> QED
  BY <1>1, <1>2, <1>3 DEF IInv, StageInv, HeadInv

\* A caller's changes
LEMMA EditStep == IInv /\ CallerEdits => IInv'
<1> SUFFICES ASSUME IInv, CallerEdits PROVE IInv'
  OBVIOUS
<1>1. /\ TypeOK /\ IsHeaders(received) /\ IsHeaders(head) /\ writer = "nothing"
      /\ Stripped(received, head) /\ pc \in {"info", "final"}
  BY DEF IInv, TypeOK, StageInv, HeadInv, CallerEdits
<1>2. PICK f \in Edits : head' = Push(head, f)
  BY DEF CallerEdits
<1>3. IsField(f) /\ f.name \notin {"via", "date"}
  OBVIOUS
<1>4. IsHeaders(head') /\ Stripped(received, head')
  BY <1>1, <1>2, <1>3, PushStripped
<1>5. /\ pc' = pc /\ received' = received /\ writer' = "nothing" /\ isHead' = isHead
      /\ code' = code /\ http10' = http10 /\ body' = body
  BY <1>1 DEF CallerEdits, client, message
<1>6. (ClientAgrees /\ RightFieldsGoOn /\ FoldingIsHarmless)'
  <2>1. Unwritten'
    BY <1>1, <1>5 DEF Unwritten
  <2> QED
    BY <2>1, NothingWritten, PTL
<1>7. edits' \in 0..MaxEdits
  BY <1>1 DEF CallerEdits, TypeOK
<1>8. TypeOK'
  BY <1>1, <1>4, <1>7 DEF CallerEdits, TypeOK, client, message, tail
<1>9. StageInv'
  BY <1>5 DEF IInv, StageInv, Welcome, BodyReader
<1> QED
  BY <1>4, <1>5, <1>6, <1>8, <1>9 DEF IInv, HeadInv

\* finish() of the body
LEMMA EndStep == IInv /\ EndBody => IInv'
<1> SUFFICES ASSUME IInv, EndBody PROVE IInv'
  OBVIOUS
<1>1. TypeOK /\ IsHeaders(sent) /\ ClientAgrees /\ RightFieldsGoOn
  BY DEF IInv, TypeOK
<1>2. /\ pc' = "ended" /\ IsHeaders(section') /\ sent' = sent /\ writer' = writer
      /\ received' = received /\ code' = code /\ isHead' = isHead /\ client10' = client10
      /\ trailers' = IF writer = "chunked" THEN SanitizeTrailers(section') ELSE NoHeaders
  BY DEF EndBody, client, message
<1>3. IsHeaders(trailers')
  BY <1>2, KeepType, NoHeadersType DEF SanitizeTrailers
<1>4. FoldsInto(sent, NoHeaders, writer)
  <2>1. \A j \in DOMAIN NoHeaders.at :
          NoHeaders.at[j].name \notin FramingNames \cup {"connection", "host", "date"}
    BY DEF NoHeaders
  <2> QED
    BY <1>1, <2>1, NoHeadersType, HarmlessFolds
<1>5. FoldsInto(sent, SanitizeTrailers(section'), writer)
  BY <1>1, <1>2, SanitizedFolds
<1>6. FoldingIsHarmless'
  BY <1>2, <1>4, <1>5 DEF FoldingIsHarmless
<1>7. ClientReading' = ClientReading
  BY <1>2 DEF ClientReading
<1>8. ClientAgrees' /\ RightFieldsGoOn'
  BY <1>1, <1>2, <1>7 DEF ClientAgrees, RightFieldsGoOn
<1>9. TypeOK'
  BY <1>1, <1>2, <1>3 DEF EndBody, TypeOK, client, message, Stages
<1> QED
  BY <1>2, <1>6, <1>8, <1>9 DEF IInv, StageInv, HeadInv

\* How a final response is framed, by the request, the status and the body that comes:
\* what the writers make of it is what a client looks for.
LEMMA WriterMeans ==
  ASSUME TypeOK, Framing(received) # "error", body = BodyReader(code, received), code \notin Interim
  PROVE  /\ Writer \in Framings \cup {"keep"} \cup Lengths
         /\ client10 => Writer # "chunked"
         /\ body = "none" <=> Writer \in {"none", "keep"}
         /\ body = "none" <=> isHead \/ code \in {204, 304}
         /\ Writer = "none" => ~isHead
         /\ Writer = "keep" /\ code = 204 => isHead
         /\ body \in Lengths \/ Writer \in Lengths => body = Writer
<1>1. Framing(received) \in {"none", "chunked"} \cup Lengths
  BY FramingType DEF TypeOK
<1>2. CASE isHead \/ code \in {204, 304}
  <2>1. body = "none"
    BY <1>2 DEF BodyReader
  <2>2. Writer = IF isHead \/ code = 304 THEN "keep" ELSE "none"
    BY <2>1 DEF Writer
  <2> QED
    BY <1>2, <2>1, <2>2 DEF Framings, Words
<1>3. CASE ~(isHead \/ code \in {204, 304})
  <2>1. body = IF Framing(received) = "none" THEN "eof" ELSE Framing(received)
    BY <1>3 DEF BodyReader
  <2>2. body \in {"chunked", "eof"} \cup Lengths
    BY <1>1, <2>1
  <2>3. "none" \notin Lengths /\ "keep" \notin Lengths /\ "chunked" \notin Lengths /\ "eof" \notin Lengths
    BY DEF Framings, Words
  <2>4. Writer = IF body \in {"chunked", "eof"} THEN IF client10 THEN "eof" ELSE "chunked" ELSE body
    BY <2>2, <2>3 DEF Writer
  <2> QED
    BY <1>3, <2>2, <2>3, <2>4 DEF Framings
<1> QED
  BY <1>2, <1>3

\* forward_response_head
LEMMA HeadStep == IInv /\ ForwardHead => IInv'
<1> SUFFICES ASSUME IInv, ForwardHead PROVE IInv'
  OBVIOUS
<1> DEFINE marked == Push(head, Via)
           whole == Dated(marked)
<1>1. /\ TypeOK /\ IsHeaders(received) /\ IsHeaders(head) /\ Stripped(received, head)
      /\ Welcome(code, http10, received) /\ code \notin Interim /\ body = BodyReader(code, received)
  BY DEF IInv, TypeOK, StageInv, HeadInv, ForwardHead
<1>2. /\ pc' = "sent" /\ writer' = Writer /\ sent' = Written(whole, Writer)
      /\ received' = received /\ code' = code /\ isHead' = isHead /\ client10' = client10 /\ body' = body
  BY DEF ForwardHead, client, message
<1>3. /\ Writer \in Framings \cup {"keep"} \cup Lengths
      /\ client10 => Writer # "chunked"
      /\ body = "none" <=> Writer \in {"none", "keep"}
      /\ body = "none" <=> isHead \/ code \in {204, 304}
      /\ Writer = "none" => ~isHead
      /\ Writer = "keep" /\ code = 204 => isHead
      /\ body \in Lengths \/ Writer \in Lengths => body = Writer
  BY <1>1, WriterMeans DEF Welcome
<1>4. Marked(received, whole) /\ DateGoesOn(received, whole)
  <2>1. Marked(received, marked) /\ NoneAdded(received, marked, "date")
    BY <1>1, PushVia
  <2> HIDE DEF marked
  <2> QED
    BY <1>1, <2>1, DatedMarked
<1> HIDE DEF marked, whole
<1>5. /\ IsHeaders(sent') /\ NoneScoped(received, sent')
      /\ AllKept(received, sent', IF Writer = "keep" THEN {} ELSE FramingNames)
      /\ AddedOnce(received, sent', Via) /\ DateGoesOn(received, sent')
  BY <1>1, <1>2, <1>4, WrittenMarked
<1>6. IsHeaders(whole) /\ Original(received, whole)
  BY <1>4 DEF Marked
<1>7. Writer # "keep" => Says(sent', Writer)
  BY <1>2, <1>6, WrittenSays
<1>8. Writer \in ClientReading'
  <2>1. ClientReading' = IF isHead \/ code \in {204, 304} THEN {"none", "keep"}
                         ELSE {w \in Framings \cup Lengths : w # "none" /\ Says(sent', w)}
    BY <1>1, <1>2 DEF ClientReading
  <2> QED
    BY <1>3, <1>7, <2>1
<1>9. ASSUME code = 204, NEW i \in DOMAIN sent'.at, sent'.at[i].name \in FramingNames
      PROVE  i \in Added(received, sent') /\ isHead
  <2>1. Writer = "keep" /\ isHead
    <3>1. Writer \in {"none", "keep"}
      BY <1>3, <1>9
    <3>2. Writer # "none"
      BY <1>7, <1>9 DEF Says
    <3> QED
      BY <1>3, <1>9, <3>1, <3>2
  <2>2. sent' = whole
    BY <1>2, <2>1 DEF Written
  <2>3. Framing(received) = "none"
    BY <1>1, <1>9 DEF Welcome
  <2> QED
    BY <1>1, <1>6, <1>9, <2>1, <2>2, <2>3, NoFramingReceived
<1>10. ClientAgrees'
  BY <1>1, <1>2, <1>3, <1>8, <1>9 DEF ClientAgrees
<1>11. RightFieldsGoOn'
  BY <1>2, <1>5 DEF RightFieldsGoOn, DateGoesOn
<1>12. TypeOK'
  <2>1. writer' \in Framings \cup {"keep", "nothing"} \cup Lengths
    BY <1>2, <1>3
  <2> QED
    BY <1>1, <1>5, <2>1 DEF ForwardHead, TypeOK, client, message, tail, Stages
<1> QED
  BY <1>2, <1>10, <1>11, <1>12 DEF IInv, StageInv, HeadInv, FoldingIsHarmless

\* Every step keeps the invariant.
LEMMA StepInv == IInv /\ [Next]_vars => IInv'
<1> SUFFICES ASSUME IInv, [Next]_vars PROVE IInv'
  OBVIOUS
<1>1. CASE UNCHANGED vars
  <2>1. /\ isHead' = isHead /\ client10' = client10 /\ code' = code /\ http10' = http10
        /\ received' = received /\ head' = head /\ body' = body /\ reuse' = reuse
        /\ writer' = writer /\ sent' = sent /\ edits' = edits /\ section' = section
        /\ trailers' = trailers /\ pc' = pc
    BY <1>1 DEF vars, client, message, tail
  <2>2. TypeOK' /\ StageInv' /\ HeadInv'
    BY <2>1 DEF IInv, TypeOK, StageInv, HeadInv, Welcome, BodyReader
  <2>3. ClientReading' = ClientReading
    BY <2>1 DEF ClientReading
  <2> QED
    BY <2>1, <2>2, <2>3 DEF IInv, ClientAgrees, RightFieldsGoOn, FoldingIsHarmless
<1> QED
  BY <1>1, ReadStep, InfoStep, AwaitStep, HeadStep, EndStep, FailStep, EditStep DEF Next, Terminated

\* The inductive invariant holds.
THEOREM Invariance == Spec => []IInv
  BY InitInv, StepInv, PTL DEF Spec

\* Type correctness: every body gets a reader and every head a writer that exist.
THEOREM TypeCorrect == Spec => []TypeOK
<1>1. IInv => TypeOK
  BY DEF IInv
<1> QED
  BY <1>1, Invariance, PTL

\* For every head of an origin, every request and client: the client looks for the end
\* of a response where the proxy puts it.
THEOREM EndIsAgreed == Spec => []ClientAgrees
<1>1. IInv => ClientAgrees
  BY DEF IInv
<1> QED
  BY <1>1, Invariance, PTL

\* Whatever an origin declares hop-by-hop and a caller adds: the client gets what is not
\* scoped to the origin's connection and nothing that is, one Via, and the time.
THEOREM FieldsGoOn == Spec => []RightFieldsGoOn
<1>1. IInv => RightFieldsGoOn
  BY DEF IInv
<1> QED
  BY <1>1, Invariance, PTL

\* No trailer section an origin may send changes what a client has read off the head.
THEOREM TrailersAreHarmless == Spec => []FoldingIsHarmless
<1>1. IInv => FoldingIsHarmless
  BY DEF IInv
<1> QED
  BY <1>1, Invariance, PTL
=============================================================================
