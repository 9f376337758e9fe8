-------------------------- MODULE RequestHeadProofs --------------------------
(***************************************************************************)
(* For any heads, edits and lengths: a request is written to the backend   *)
(* with the framing its body has, and without the fields that are meant    *)
(* for the client's connection only.                                       *)
(***************************************************************************)
EXTENDS RequestHead, FieldsProofs, TLAPS

USE FieldAssumption, RequestAssumption

\* Until the head is stripped it still has every Connection token of the received one;
\* from then on no received field left in it is scoped to the connection.  What is
\* pushed stands behind the received fields.
IInv ==
  /\ TypeOK
  /\ IsHeaders(received)
  /\ pc \in {"request", "proxied", "backend"} => received.n <= head.n
  /\ pc = "request" => Tokens(received) \subseteq Tokens(head)
  /\ pc \in {"proxied", "backend"} => NoneScoped(received, head)
  /\ BackendAgrees
  /\ ScopedStays
  /\ FoldingIsHarmless

-----------------------------------------------------------------------------
(* The invariant *)

\* It holds of every request that may come.
LEMMA InitInv == Init => IInv
<1> SUFFICES ASSUME Init PROVE IInv
  OBVIOUS
<1>1. IsHeaders(received)
  BY DEF Init
<1>2. IsHeaders(NoHeaders)
  BY DEF IsHeaders, NoHeaders
<1>3. edits \in 0..MaxEdits
  BY DEF Init
<1>4. pc \in Stages
  BY DEF Init, Stages
<1>5. IsHeaders(head) /\ IsHeaders(sent) /\ IsHeaders(section) /\ IsHeaders(trailers)
  BY <1>2 DEF Init
<1>6. TypeOK
  BY <1>1, <1>3, <1>4, <1>5 DEF Init, TypeOK
<1> QED
  BY <1>1, <1>6 DEF Init, IInv, BackendAgrees, ScopedStays, FoldingIsHarmless

\* The authority of the target is a Host field.
LEMMA AuthorityField == IsField(Authority)
  BY DEF Authority, IsField

\* normalize keeps the headers well-formed and their places.
LEMMA NormalizeType ==
  ASSUME IsHeaders(head)
  PROVE  IsHeaders(Normalize(head)) /\ head.n <= Normalize(head).n
<1> DEFINE rest == Keep(head, DOMAIN head.at \ Named(head, "host"))
<1>1. IsHeaders(rest) /\ rest.n = head.n
  BY KeepType
<1>2. IsHeaders(Push(rest, Authority)) /\ Push(rest, Authority).n = rest.n + 1
  BY <1>1, PushType, AuthorityField
<1>3. head.n \in Nat
  BY DEF IsHeaders
<1> QED
  BY <1>1, <1>2, <1>3 DEF Normalize

\* FrontendReader::read
LEMMA ReadStep == IInv /\ (ReadRequest \/ ReadFails) => IInv'
<1> SUFFICES ASSUME IInv, ReadRequest \/ ReadFails PROVE IInv'
  OBVIOUS
<1>1. TypeOK /\ IsHeaders(received) /\ received.n \in Nat
  BY DEF IInv, IsHeaders
<1>2. CASE ReadRequest
  <2>1. body' \in {"none", "chunked"} \cup Lengths
    BY <1>1, <1>2, FramingType DEF ReadRequest, Readable
  <2>2. reuse' \in BOOLEAN
    BY <1>2 DEF ReadRequest, Persistent
  <2>3. TypeOK'
    BY <1>1, <1>2, <2>1, <2>2 DEF ReadRequest, TypeOK, message, tail, Stages
  <2> QED
    BY <1>1, <1>2, <2>3 DEF ReadRequest, IInv, message, BackendAgrees, ScopedStays, FoldingIsHarmless
<1>3. CASE ReadFails
  BY <1>1, <1>3 DEF ReadFails, IInv, TypeOK, message, tail, Stages, BackendAgrees, ScopedStays, FoldingIsHarmless
<1> QED
  BY <1>2, <1>3

\* FrontendProxyRequest::from_request
LEMMA FromStep == IInv /\ (FromRequest \/ FromRequestFails) => IInv'
<1> SUFFICES ASSUME IInv, FromRequest \/ FromRequestFails PROVE IInv'
  OBVIOUS
<1>1. TypeOK /\ IsHeaders(received) /\ received.n \in Nat /\ IsHeaders(head) /\ head.n \in Nat
  BY DEF IInv, TypeOK, IsHeaders
<1>2. CASE FromRequest
  <2>1. received.n <= head.n /\ Tokens(received) \subseteq Tokens(head)
    BY <1>2 DEF FromRequest, IInv
  <2>2. head' = StripHopByHop(Normalize(head), Tokens(head)) /\ received' = received
    BY <1>2 DEF FromRequest, message
  <2>3. IsHeaders(Normalize(head)) /\ head.n <= Normalize(head).n
    BY <1>1, NormalizeType
  <2>4. IsHeaders(head') /\ head'.n = Normalize(head).n
    BY <2>2, <2>3, KeepType DEF StripHopByHop
  <2>5. received.n <= head'.n
    BY <1>1, <2>1, <2>3, <2>4 DEF IsHeaders
  <2>6. NoneScoped(received, head')
    BY <2>1, <2>2, StripScopes
  <2>7. TypeOK'
    BY <1>1, <1>2, <2>4 DEF FromRequest, TypeOK, message, tail, Stages
  <2> QED
    BY <1>1, <1>2, <2>2, <2>5, <2>6, <2>7 DEF FromRequest, IInv, BackendAgrees, ScopedStays, FoldingIsHarmless
<1>3. CASE FromRequestFails
  BY <1>1, <1>3 DEF FromRequestFails, IInv, TypeOK, message, tail, Stages, BackendAgrees, ScopedStays, FoldingIsHarmless
<1> QED
  BY <1>2, <1>3

\* into_backend_request
LEMMA IntoStep == IInv /\ IntoBackendRequest => IInv'
<1> SUFFICES ASSUME IInv, IntoBackendRequest PROVE IInv'
  OBVIOUS
<1>1. TypeOK /\ IsHeaders(received) /\ received.n \in Nat /\ IsHeaders(head) /\ head.n \in Nat
  BY DEF IInv, TypeOK, IsHeaders
<1>2. received.n <= head.n /\ NoneScoped(received, head)
  BY DEF IntoBackendRequest, IInv
<1>3. head' = Push(head, Via) /\ received' = received
  BY DEF IntoBackendRequest, message
<1>4. IsHeaders(head') /\ head'.n = head.n + 1
  BY <1>1, <1>3, PushType, OwnFields
<1>5. NoneScoped(received, head')
  BY <1>1, <1>2, <1>3, PushNoneScoped
<1>6. TypeOK'
  BY <1>1, <1>4 DEF IntoBackendRequest, TypeOK, message, tail, Stages
<1> QED
  BY <1>1, <1>2, <1>3, <1>4, <1>5, <1>6
     DEF IntoBackendRequest, IInv, BackendAgrees, ScopedStays, FoldingIsHarmless

\* BackendProxyRequest::forward
LEMMA ForwardStep == IInv /\ Forward => IInv'
<1> SUFFICES ASSUME IInv, Forward PROVE IInv'
  OBVIOUS
<1>1. TypeOK /\ IsHeaders(received) /\ IsHeaders(head)
  BY DEF IInv, TypeOK
<1>2. received.n <= head.n /\ NoneScoped(received, head)
  BY DEF Forward, IInv
<1>3. sent' = Written(head, body) /\ body' = body /\ received' = received /\ pc' = "sent"
  BY DEF Forward, message, tail
<1>4. body # "keep"
  BY <1>1 DEF TypeOK, Words
<1>5. IsHeaders(sent')
  BY <1>1, <1>3, WrittenType
<1>6. BackendAgrees'
  BY <1>1, <1>3, <1>4, WrittenSays DEF BackendAgrees
<1>7. ScopedStays'
  BY <1>1, <1>2, <1>3, WrittenNoneScoped DEF ScopedStays
<1>8. TypeOK'
  BY <1>1, <1>5 DEF Forward, TypeOK, message, tail, Stages
<1> QED
  BY <1>1, <1>3, <1>6, <1>7, <1>8 DEF IInv, FoldingIsHarmless

\* finish() of the body
LEMMA EndStep == IInv /\ EndBody => IInv'
<1> SUFFICES ASSUME IInv, EndBody PROVE IInv'
  OBVIOUS
<1>1. TypeOK /\ IsHeaders(received) /\ IsHeaders(sent)
  BY DEF IInv, TypeOK
<1>2. /\ pc' = "ended" /\ IsHeaders(section') /\ trailers' = SanitizeTrailers(section')
      /\ received' = received /\ sent' = sent
  BY DEF EndBody, message
<1>3. IsHeaders(trailers')
  BY <1>2, KeepType DEF SanitizeTrailers
<1>4. FoldingIsHarmless'
  BY <1>1, <1>2, SanitizedFolds DEF FoldingIsHarmless
<1>5. TypeOK'
  BY <1>1, <1>2, <1>3 DEF EndBody, TypeOK, message, Stages
<1> QED
  BY <1>1, <1>2, <1>4, <1>5 DEF IInv, BackendAgrees, ScopedStays

\* A caller's changes
LEMMA EditStep == IInv /\ CallerEdits => IInv'
<1> SUFFICES ASSUME IInv, CallerEdits PROVE IInv'
  OBVIOUS
<1>1. TypeOK /\ IsHeaders(received) /\ received.n \in Nat /\ IsHeaders(head) /\ head.n \in Nat
  BY DEF IInv, TypeOK, IsHeaders
<1>2. received.n <= head.n /\ received' = received /\ pc' = pc
  BY DEF CallerEdits, IInv, message
<1>3. PICK f \in Edits : head' = Push(head, f)
  BY DEF CallerEdits
<1>4. IsField(f)
  OBVIOUS
<1>5. IsHeaders(head') /\ head'.n = head.n + 1
  BY <1>1, <1>3, <1>4, PushType
<1>6. Tokens(head) \subseteq Tokens(head')
  BY <1>1, <1>3, PushTokens
<1>7. NoneScoped(received, head) => NoneScoped(received, head')
  BY <1>1, <1>2, <1>3, PushNoneScoped
<1>8. edits' \in 0..MaxEdits
  BY <1>1 DEF CallerEdits, TypeOK
<1>9. TypeOK'
  BY <1>1, <1>5, <1>8 DEF CallerEdits, TypeOK, message, tail
<1> QED
  BY <1>1, <1>2, <1>5, <1>6, <1>7, <1>9 DEF CallerEdits, IInv, BackendAgrees, ScopedStays, FoldingIsHarmless

\* Every step keeps the invariant.
LEMMA StepInv == IInv /\ [Next]_vars => IInv'
<1>1. ASSUME IInv, UNCHANGED vars PROVE IInv'
  BY <1>1 DEF IInv, TypeOK, vars, message, tail, BackendAgrees, ScopedStays, FoldingIsHarmless
<1> QED
  BY <1>1, ReadStep, FromStep, IntoStep, ForwardStep, EndStep, EditStep DEF Next, Terminated

\* The inductive invariant holds.
THEOREM Invariance == Spec => []IInv
  BY InitInv, StepInv, PTL DEF Spec

\* Type correctness: no call leaves headers that are not a list of fields, or a
\* body with a framing that could not be written.
THEOREM TypeCorrect == Spec => []TypeOK
<1>1. IInv => TypeOK
  BY DEF IInv
<1> QED
  BY <1>1, Invariance, PTL

\* For every head, and whatever framing fields a caller adds, the backend is told the
\* framing that the body is written with and nothing else.
THEOREM BackendIsToldTheFraming == Spec => []BackendAgrees
<1>1. IInv => BackendAgrees
  BY DEF IInv
<1> QED
  BY <1>1, Invariance, PTL

\* No hop-by-hop field of a client reaches a backend, however the client names it.
THEOREM HopByHopStaysHere == Spec => []ScopedStays
<1>1. IInv => ScopedStays
  BY DEF IInv
<1> QED
  BY <1>1, Invariance, PTL

\* No trailer section a client may send changes what a backend has read off the head,
\* even one that folds trailers into it.
THEOREM TrailersAreHarmless == Spec => []FoldingIsHarmless
<1>1. IInv => FoldingIsHarmless
  BY DEF IInv
<1> QED
  BY <1>1, Invariance, PTL

-----------------------------------------------------------------------------
(* What is read off a request *)

\* A request whose body can be read was judged when it came, and is not judged again.
LEMMA ReadingInit == Init => OneReading
  BY DEF Init, OneReading

\* Framing answers what every piece of the framing fields says.
LEMMA ReadingStep == IInv /\ OneReading /\ [Next]_vars => OneReading'
<1> SUFFICES ASSUME IInv, OneReading, [Next]_vars PROVE OneReading'
  OBVIOUS
<1>1. CASE ReadRequest
  <2>1. IsHeaders(received) /\ Framing(received) # "error" /\ body' = Framing(received)
    BY <1>1 DEF IInv, ReadRequest, Readable
  <2>2. /\ Readings(received) = IF body' = "none" THEN {} ELSE {body'}
        /\ body' = "chunked" => Named(received, "transfer-encoding") # {}
    BY <2>1, FramingReads
  <2>3. received' = received /\ http10' = http10 /\ (http10 => body' # "chunked")
    BY <1>1, <2>2 DEF ReadRequest, Readable, message
  <2> QED
    BY <2>2, <2>3 DEF OneReading
<1>2. CASE ReadFails
  BY <1>2 DEF ReadFails, OneReading
<1>3. ASSUME pc \notin {"head", "unreadable"}, UNCHANGED <<message, body>>
      PROVE  OneReading'
  BY <1>3 DEF OneReading, message
<1>4. ASSUME UNCHANGED vars PROVE OneReading'
  BY <1>4 DEF OneReading, vars, message
<1> QED
  BY <1>1, <1>2, <1>3, <1>4
     DEF Next, FromRequest, FromRequestFails, IntoBackendRequest, Forward, EndBody, CallerEdits, Terminated

\* No request is accepted that could be read with another framing, by any piece of any
\* of its framing fields.
THEOREM ReadOneWay == Spec => []OneReading
  BY Invariance, ReadingInit, ReadingStep, PTL DEF Spec

-----------------------------------------------------------------------------
(* What goes on to the backend *)

\* What the Host of a head must be once from_request has let it pass.
HostGoesOn(h) ==
  "host" \notin Tokens(received) =>
    /\ OneHost(h)
    /\ Named(h, "host") = {} => http10 /\ target = "origin"
    /\ target = "absolute" => AddedOnce(received, h, Authority)

\* The received fields an absolute target replaces.
Replaced == IF target = "absolute" THEN {"host"} ELSE {}

\* Until the head is stripped all the received fields are in it, and neither a Via nor a
\* Host was added to them, nor a token to Connection.  The strip leaves all but the scoped
\* ones, and the Host that from_request has seen to; then the Via comes.
RestInv ==
  /\ pc = "request" =>
       /\ Tokens(head) = Tokens(received)
       /\ AllKept(received, head, {})
       /\ NoneAdded(received, head, "host")
  /\ pc \in {"request", "proxied"} => NoneAdded(received, head, "via")
  /\ pc \in {"proxied", "backend"} => AllKept(received, head, Replaced) /\ HostGoesOn(head)
  /\ pc = "backend" => AddedOnce(received, head, Via)
  /\ RestGoesOn

\* Nothing is received yet.
LEMMA RestInit == Init => RestInv
  BY DEF Init, RestInv, RestGoesOn

\* Fields that are no Host leave it alone.
LEMMA PushHost ==
  ASSUME NEW h, IsHeaders(h), NEW f, f.name # "host", HostGoesOn(h)
  PROVE  HostGoesOn(Push(h, f))
<1>1. Named(Push(h, f), "host") = Named(h, "host")
  BY PushNamed
<1>2. Authority.name = "host"
  BY DEF Authority
<1>3. AddedOnce(received, h, Authority) => AddedOnce(received, Push(h, f), Authority)
  BY <1>2, PushStillOnce
<1> QED
  BY <1>1, <1>3 DEF HostGoesOn, OneHost

\* The caller starts with the head as it came.
LEMMA RestRead == IInv /\ RestInv /\ (ReadRequest \/ ReadFails) => RestInv'
<1> SUFFICES ASSUME IInv, RestInv, ReadRequest \/ ReadFails PROVE RestInv'
  OBVIOUS
<1>1. IsHeaders(received)
  BY DEF IInv
<1>2. Added(received, received) = {}
  BY <1>1 DEF Added, IsHeaders
<1>3. AllKept(received, received, {}) /\ \A name : NoneAdded(received, received, name)
  BY <1>2 DEF AllKept, NoneAdded
<1>4. CASE ReadRequest
  <2>1. head' = received /\ received' = received /\ pc' = "request"
    BY <1>4 DEF ReadRequest, message
  <2> QED
    BY <1>3, <2>1 DEF RestInv, RestGoesOn
<1>5. CASE ReadFails
  BY <1>5 DEF ReadFails, RestInv, RestGoesOn
<1> QED
  BY <1>4, <1>5

\* from_request: the strip spares what is not scoped, and the Host.
LEMMA RestFrom == IInv /\ RestInv /\ (FromRequest \/ FromRequestFails) => RestInv'
<1> SUFFICES ASSUME IInv, RestInv, FromRequest \/ FromRequestFails PROVE RestInv'
  OBVIOUS
<1>1. CASE FromRequestFails
  BY <1>1 DEF FromRequestFails, RestInv, RestGoesOn
<1>2. CASE FromRequest
  <2> DEFINE rest == Keep(head, DOMAIN head.at \ Named(head, "host"))
             whole == Normalize(head)
             spared == {i \in DOMAIN whole.at : whole.at[i].name \notin HopByHop \cup Tokens(head)}
  <2>1. IsHeaders(received) /\ IsHeaders(head) /\ received.n <= head.n
    BY <1>2 DEF IInv, TypeOK, FromRequest
  <2>2. /\ Tokens(head) = Tokens(received) /\ AllKept(received, head, {})
        /\ NoneAdded(received, head, "host") /\ NoneAdded(received, head, "via")
    BY <1>2 DEF RestInv, FromRequest
  <2>3. OneHost(head) /\ (Named(head, "host") = {} => http10) /\ target # "other"
    BY <1>2 DEF FromRequest, Acceptable
  <2>4. target \in {"origin", "absolute"}
    BY <2>3 DEF IInv, TypeOK, Targets
  <2>5. /\ head' = Keep(whole, spared) /\ pc' = "proxied" /\ received' = received
        /\ http10' = http10 /\ target' = target
    BY <1>2 DEF FromRequest, message, StripHopByHop
  <2>6. whole = IF target = "absolute" THEN Push(rest, Authority) ELSE head
    BY DEF Normalize
  <2>7. Authority.name = "host" /\ "host" # "via" /\ "host" \notin HopByHop
    BY DEF Authority, HopByHop
  <2>8. IsHeaders(rest) /\ rest.n = head.n /\ IsHeaders(whole)
    BY <2>1, KeepType, NormalizeType
  <2>9. /\ AllKept(received, whole, Replaced) /\ NoneAdded(received, whole, "via")
        /\ OneHost(whole) /\ (Named(whole, "host") = {} => http10 /\ target = "origin")
        /\ target = "absolute" => AddedOnce(received, whole, Authority)
    <3>1. CASE target = "origin"
      BY <2>2, <2>3, <2>6, <3>1 DEF Replaced
    <3>2. CASE target = "absolute"
      <4>1. AllKept(received, rest, {"host"})
        <5>1. \A i \in DOMAIN head.at :
                head.at[i].name \notin Scoped(received) \cup {"host"} => i \in DOMAIN head.at \ Named(head, "host")
          BY DEF Named
        <5> QED
          BY <2>2, <5>1, KeepAllKept
      <4>2. NoneAdded(received, rest, "host") /\ NoneAdded(received, rest, "via")
        BY <2>2, KeepNoneAdded
      <4>3. Named(rest, "host") = {}
        BY KeepNamed
      <4> HIDE DEF rest
      <4>4. whole = Push(rest, Authority)
        BY <2>6, <3>2
      <4>5. AllKept(received, whole, {"host"})
        BY <2>1, <2>8, <4>1, <4>4, PushAllKept
      <4>6. NoneAdded(received, whole, "via")
        BY <2>7, <4>2, <4>4, PushNoneAdded
      <4>7. AddedOnce(received, whole, Authority)
        BY <2>1, <2>7, <2>8, <4>2, <4>4, PushAddedOnce, AuthorityField
      <4>8. Named(whole, "host") = {rest.n + 1}
        BY <2>7, <4>3, <4>4 DEF Named, Push
      <4>9. OneHost(whole) /\ Named(whole, "host") # {}
        BY <4>8 DEF OneHost
      <4> QED
        BY <3>2, <4>5, <4>6, <4>7, <4>9 DEF Replaced
    <3> QED
      BY <2>4, <3>1, <3>2
  <2> HIDE DEF whole
  <2>10. AllKept(received, Keep(whole, spared), Replaced)
    <3>1. \A i \in DOMAIN whole.at :
            whole.at[i].name \notin Scoped(received) \cup Replaced => i \in spared
      BY <2>2 DEF Scoped
    <3> HIDE DEF spared
    <3> QED
      BY <2>9, <3>1, KeepAllKept
  <2>11. NoneAdded(received, Keep(whole, spared), "via")
    BY <2>9, KeepNoneAdded
  <2>12. HostGoesOn(Keep(whole, spared))
    <3> SUFFICES ASSUME "host" \notin Tokens(received)
                 PROVE  HostGoesOn(Keep(whole, spared))
      BY DEF HostGoesOn
    <3>1. \A i \in DOMAIN whole.at : whole.at[i].name = "host" => i \in spared
      BY <2>2, <2>7
    <3> HIDE DEF spared
    <3>2. Named(Keep(whole, spared), "host") = Named(whole, "host")
      <4>1. Named(whole, "host") \subseteq spared
        BY <3>1 DEF Named
      <4> QED
        BY <4>1, KeepNamed
    <3>3. target = "absolute" => AddedOnce(received, Keep(whole, spared), Authority)
      BY <2>7, <2>9, <3>1, KeepStillOnce
    <3> QED
      BY <2>9, <3>2, <3>3 DEF HostGoesOn, OneHost
  <2> HIDE DEF spared
  <2>13. /\ AllKept(received', head', Replaced') /\ NoneAdded(received', head', "via")
         /\ HostGoesOn(head)'
    <3>1. Replaced' = Replaced
      BY <2>5 DEF Replaced
    <3> QED
      BY <2>5, <2>10, <2>11, <2>12, <3>1 DEF HostGoesOn, OneHost
  <2> QED
    BY <2>5, <2>13 DEF RestInv, RestGoesOn
<1> QED
  BY <1>1, <1>2

\* into_backend_request: the first Via.
LEMMA RestInto == IInv /\ RestInv /\ IntoBackendRequest => RestInv'
<1> SUFFICES ASSUME IInv, RestInv, IntoBackendRequest PROVE RestInv'
  OBVIOUS
<1>1. /\ IsHeaders(received) /\ IsHeaders(head) /\ received.n <= head.n
      /\ NoneAdded(received, head, "via") /\ AllKept(received, head, Replaced) /\ HostGoesOn(head)
  BY DEF IInv, TypeOK, IntoBackendRequest, RestInv
<1>2. /\ head' = Push(head, Via) /\ pc' = "backend" /\ received' = received
      /\ http10' = http10 /\ target' = target
  BY DEF IntoBackendRequest, message
<1>3. Via.name = "via" /\ Via.name # "host" /\ IsField(Via)
  BY OwnFields DEF Via
<1>4. AllKept(received, Push(head, Via), Replaced)
  BY <1>1, PushAllKept
<1>5. AddedOnce(received, Push(head, Via), Via)
  BY <1>1, <1>3, PushAddedOnce
<1>6. HostGoesOn(Push(head, Via))
  BY <1>1, <1>3, PushHost
<1>7. Replaced' = Replaced
  BY <1>2 DEF Replaced
<1>8. HostGoesOn(head)'
  BY <1>2, <1>6 DEF HostGoesOn, OneHost
<1> QED
  BY <1>2, <1>4, <1>5, <1>7, <1>8 DEF RestInv, RestGoesOn

\* forward: the writer touches framing fields only.
LEMMA RestForward == IInv /\ RestInv /\ Forward => RestInv'
<1> SUFFICES ASSUME IInv, RestInv, Forward PROVE RestInv'
  OBVIOUS
<1>1. /\ IsHeaders(received) /\ IsHeaders(head) /\ received.n <= head.n
      /\ AllKept(received, head, Replaced) /\ AddedOnce(received, head, Via) /\ HostGoesOn(head)
  BY DEF IInv, TypeOK, Forward, RestInv
<1>2. /\ sent' = Written(head, body) /\ pc' = "sent" /\ received' = received
      /\ http10' = http10 /\ target' = target
  BY DEF Forward, message
<1>3. AllKept(received, Written(head, body), Replaced \cup FramingNames)
  BY <1>1, WrittenKeepsRest
<1>4. AddedOnce(received, Written(head, body), Via)
  <2>1. Via.name \notin FramingNames
    BY DEF Via, FramingNames
  <2> QED
    BY <1>1, <2>1, WrittenKeepsRest
<1>5. HostGoesOn(Written(head, body))
  <2>1. Named(Written(head, body), "host") = Named(head, "host")
    <3>1. "host" \notin FramingNames
      BY DEF FramingNames
    <3> QED
      BY <1>1, <3>1, WrittenKeepsRest
  <2>2. Authority.name \notin FramingNames
    BY DEF Authority, FramingNames
  <2>3. AddedOnce(received, head, Authority) => AddedOnce(received, Written(head, body), Authority)
    BY <1>1, <2>2, WrittenKeepsRest
  <2> QED
    BY <1>1, <2>1, <2>3 DEF HostGoesOn, OneHost
<1>6. Replaced \cup FramingNames = FramingNames \cup IF target = "absolute" THEN {"host"} ELSE {}
  BY DEF Replaced
<1>7. RestGoesOn'
  BY <1>2, <1>3, <1>4, <1>5, <1>6 DEF RestGoesOn, HostGoesOn, OneHost
<1> QED
  BY <1>2, <1>7 DEF RestInv

\* What the caller adds is behind the received fields, and no Connection, Host or Via.
LEMMA RestEdit == IInv /\ RestInv /\ CallerEdits => RestInv'
<1> SUFFICES ASSUME IInv, RestInv, CallerEdits PROVE RestInv'
  OBVIOUS
<1>1. IsHeaders(received) /\ IsHeaders(head) /\ received.n <= head.n
  BY DEF IInv, TypeOK, CallerEdits
<1>2. PICK f \in Edits : head' = Push(head, f)
  BY DEF CallerEdits
<1>3. f.name \notin {"connection", "host", "via"}
  OBVIOUS
<1>4. /\ pc' = pc /\ pc \in {"request", "proxied", "backend"} /\ received' = received
      /\ http10' = http10 /\ target' = target
  BY DEF CallerEdits, message
<1>5. Tokens(head') = Tokens(head)
  BY <1>1, <1>2, <1>3, PushSameTokens
<1>6. \A but : AllKept(received, head, but) => AllKept(received, head', but)
  BY <1>1, <1>2, PushAllKept
<1>7. \A name \in {"host", "via"} : NoneAdded(received, head, name) => NoneAdded(received, head', name)
  BY <1>2, <1>3, PushNoneAdded
<1>8. AddedOnce(received, head, Via) => AddedOnce(received, head', Via)
  BY <1>1, <1>2, <1>3, PushStillOnce DEF Via
<1>9. HostGoesOn(head) => HostGoesOn(Push(head, f))
  BY <1>1, <1>3, PushHost
<1>10. HostGoesOn(head) => HostGoesOn(head)'
  BY <1>2, <1>4, <1>9 DEF HostGoesOn, OneHost
<1>11. Replaced' = Replaced
  BY <1>4 DEF Replaced
<1> QED
  BY <1>4, <1>5, <1>6, <1>7, <1>8, <1>10, <1>11 DEF RestInv, RestGoesOn

\* Every step keeps it.
LEMMA RestStep == IInv /\ RestInv /\ [Next]_vars => RestInv'
<1> SUFFICES ASSUME IInv, RestInv, [Next]_vars PROVE RestInv'
  OBVIOUS
<1>1. CASE EndBody
  BY <1>1 DEF EndBody, RestInv, RestGoesOn
<1>2. CASE UNCHANGED vars
  BY <1>2 DEF RestInv, RestGoesOn, HostGoesOn, Replaced, OneHost, vars, message
<1> QED
  BY <1>1, <1>2, RestRead, RestFrom, RestInto, RestForward, RestEdit DEF Next, Terminated

\* Whatever the client declared hop-by-hop and whatever the caller added: every other
\* field reaches the backend, as it was and where it was, with one Via of the proxy, and
\* with a Host when the client sent one or its target named one.
THEOREM TheRestGoesOn == Spec => []RestGoesOn
<1>1. Spec => []RestInv
  BY Invariance, RestInit, RestStep, PTL DEF Spec
<1>2. RestInv => RestGoesOn
  BY DEF RestInv
<1> QED
  BY <1>1, <1>2, PTL
=============================================================================
