---------------------------- MODULE FieldsProofs ----------------------------
(***************************************************************************)
(* Facts about header fields, for headers of any length and fields of any  *)
(* name: what the calls that change a head keep, remove and add, what a    *)
(* head says of its framing, and what a folded trailer section can change. *)
(***************************************************************************)
EXTENDS Fields, TLAPS

USE FieldAssumption

-----------------------------------------------------------------------------
(* Lemmas about headers *)

\* push_raw keeps headers well-formed, and makes them one longer.
LEMMA PushType ==
  ASSUME NEW h, IsHeaders(h), NEW f, IsField(f)
  PROVE  IsHeaders(Push(h, f)) /\ Push(h, f).n = h.n + 1
  BY DEF IsHeaders, Push

\* retain and remove keep headers well-formed, with every field at its place.
LEMMA KeepType ==
  ASSUME NEW h, IsHeaders(h), NEW S
  PROVE  IsHeaders(Keep(h, S)) /\ Keep(h, S).n = h.n
  BY DEF IsHeaders, Keep

\* The fields the proxy makes are fields.
LEMMA OwnFields ==
  /\ IsField(Via) /\ IsField(Date)
  /\ \A w : IsField(FramingField(w)) /\ FramingField(w).name \in FramingNames
  BY DEF Via, Date, IsField, FramingField, FramingNames

\* The elements of a field are those of its lists, spelled out.
LEMMA ElementsMeans ==
  ASSUME NEW h, NEW name, NEW x
  PROVE  x \in Elements(h, name) <=>
           \E i \in Named(h, name) : \E k \in DOMAIN h.at[i].value : x = h.at[i].value[k]
  BY DEF Elements

\* A field that is pushed hides no token of the Connection field.
LEMMA PushTokens ==
  ASSUME NEW h, IsHeaders(h), NEW f
  PROVE  Tokens(h) \subseteq Tokens(Push(h, f))
<1> SUFFICES ASSUME NEW x \in Tokens(h) PROVE x \in Tokens(Push(h, f))
  OBVIOUS
<1>0. x \in Elements(h, "connection") /\ x # ""
  BY DEF Tokens
<1>1. PICK i \in Named(h, "connection") : \E k \in DOMAIN h.at[i].value : x = h.at[i].value[k]
  BY <1>0 DEF Elements
<1>2. i \in DOMAIN h.at /\ h.at[i].name = "connection" /\ i # h.n + 1
  BY <1>1 DEF Named, IsHeaders
<1>3. i \in DOMAIN Push(h, f).at /\ Push(h, f).at[i] = h.at[i]
  BY <1>2 DEF Push
<1>4. i \in Named(Push(h, f), "connection")
  BY <1>2, <1>3 DEF Named
<1>5. x \in Elements(Push(h, f), "connection")
  BY <1>1, <1>3, <1>4, ElementsMeans
<1> QED
  BY <1>0, <1>5 DEF Tokens

\* Nor can it bring a field of the client's connection back.
LEMMA PushNoneScoped ==
  ASSUME NEW r, IsHeaders(r), NEW h, IsHeaders(h), NEW f, r.n <= h.n, NoneScoped(r, h)
  PROVE  NoneScoped(r, Push(h, f))
<1> SUFFICES ASSUME NEW i \in DOMAIN Push(h, f).at, i \notin Added(r, Push(h, f))
             PROVE  Push(h, f).at[i].name \notin Scoped(r)
  BY DEF NoneScoped
<1>1. ~(i > r.n)
  BY DEF Added
<1>2. i # h.n + 1
  BY <1>1 DEF IsHeaders
<1>3. i \in DOMAIN h.at /\ Push(h, f).at[i] = h.at[i]
  BY <1>2 DEF Push
<1>4. i \in DOMAIN h.at \ Added(r, h)
  BY <1>1, <1>3 DEF Added
<1> QED
  BY <1>3, <1>4 DEF NoneScoped

\* Removing fields cannot either.
LEMMA KeepNoneScoped ==
  ASSUME NEW r, NEW h, NEW S, NoneScoped(r, h)
  PROVE  NoneScoped(r, Keep(h, S))
  BY DEF NoneScoped, Keep, Added

\* strip_hop_by_hop_headers leaves nothing that the received head scoped to its
\* connection, if it was given all the received tokens.
LEMMA StripScopes ==
  ASSUME NEW r, NEW h, NEW tokens, Tokens(r) \subseteq tokens
  PROVE  NoneScoped(r, StripHopByHop(h, tokens))
  BY DEF NoneScoped, StripHopByHop, Keep, Scoped, Added

\* What an accepted head is framed with is none, chunked or a length.
LEMMA FramingType ==
  ASSUME NEW h, IsHeaders(h), Framing(h) # "error"
  PROVE  Framing(h) \in {"none", "chunked"} \cup Lengths
<1>1. LengthsAgree(h)
  BY DEF Framing
<1>2. ASSUME Named(h, "content-length") # {}
      PROVE  \E l \in Elements(h, "content-length") : TRUE
  <2>1. PICK i \in Named(h, "content-length") : TRUE
    BY <1>2
  <2>4. 1 \in DOMAIN h.at[i].value
    BY <2>1 DEF Named, IsHeaders, IsField
  <2>5. h.at[i].value[1] \in Elements(h, "content-length")
    BY <2>1, <2>4, ElementsMeans
  <2> QED
    BY <2>5
<1>3. Named(h, "content-length") # {} =>
        (CHOOSE l \in Elements(h, "content-length") : TRUE) \in Lengths
  BY <1>1, <1>2 DEF LengthsAgree
<1> QED
  BY <1>3 DEF Framing

-----------------------------------------------------------------------------
(* Writing a head *)

\* The writers keep headers well-formed.
LEMMA WrittenType ==
  ASSUME NEW h, IsHeaders(h), NEW w
  PROVE  IsHeaders(Written(h, w))
<1> DEFINE bare == Keep(h, {i \in DOMAIN h.at : h.at[i].name \notin FramingNames})
<1>1. IsHeaders(bare)
  BY KeepType
<1>2. IsHeaders(Push(bare, FramingField(w)))
  BY <1>1, PushType, OwnFields
<1> QED
  BY <1>1, <1>2 DEF Written

\* What a writer writes says how the body is written, and nothing else, whatever
\* framing fields the head held.
LEMMA WrittenSays ==
  ASSUME NEW h, IsHeaders(h), NEW w, w # "keep"
  PROVE  Says(Written(h, w), w)
<1> DEFINE bare == Keep(h, {i \in DOMAIN h.at : h.at[i].name \notin FramingNames})
<1>1. \A i \in DOMAIN bare.at : bare.at[i].name \notin FramingNames
  BY DEF Keep
<1>2. IsHeaders(bare)
  BY KeepType
<1>3. CASE w \in {"none", "eof"}
  BY <1>1, <1>3 DEF Written, Says
<1>4. CASE w \notin {"none", "eof"}
  <2> DEFINE full == Push(bare, FramingField(w))
             last == bare.n + 1
  <2>1. Written(h, w) = full
    BY <1>4 DEF Written
  <2>2. last \in DOMAIN full.at /\ full.at[last] = FramingField(w)
    BY DEF Push
  <2>3. \A i \in DOMAIN full.at \ {last} : full.at[i].name \notin FramingNames
    BY <1>1 DEF Push
  <2>4. full.at[last].name \in FramingNames
    BY <2>2, OwnFields
  <2> HIDE DEF full, last
  <2>5. {i \in DOMAIN full.at : full.at[i].name \in FramingNames} = {last}
    BY <2>2, <2>3, <2>4
  <2> QED
    BY <1>4, <2>1, <2>2, <2>5 DEF Says
<1> QED
  BY <1>3, <1>4

\* Writing brings no field of the client's connection back.
LEMMA WrittenNoneScoped ==
  ASSUME NEW r, IsHeaders(r), NEW h, IsHeaders(h), NEW w, r.n <= h.n, NoneScoped(r, h)
  PROVE  NoneScoped(r, Written(h, w))
<1> DEFINE bare == Keep(h, {i \in DOMAIN h.at : h.at[i].name \notin FramingNames})
<1>1. IsHeaders(bare) /\ bare.n = h.n
  BY KeepType
<1>2. NoneScoped(r, bare)
  BY KeepNoneScoped
<1>3. NoneScoped(r, Push(bare, FramingField(w)))
  BY <1>1, <1>2, PushNoneScoped
<1> QED
  BY <1>2, <1>3 DEF Written

-----------------------------------------------------------------------------
(* Trailers *)

\* Two heads with the same fields of a name have the same elements of it.
LEMMA SameElements ==
  ASSUME NEW h, NEW g, NEW name, Named(g, name) = Named(h, name),
         \A i \in Named(h, name) : g.at[i] = h.at[i]
  PROVE  Elements(g, name) = Elements(h, name)
<1>1. \A x : x \in Elements(g, name) <=> x \in Elements(h, name)
  BY ElementsMeans
<1> QED
  BY <1>1

\* Folding a section adds fields of the section's names only.
LEMMA FoldNamed ==
  ASSUME NEW h, IsHeaders(h), NEW t, IsHeaders(t), NEW name,
         \A j \in DOMAIN t.at : t.at[j].name # name
  PROVE  /\ Named(Fold(h, t), name) = Named(h, name)
         /\ \A i \in DOMAIN h.at : Fold(h, t).at[i] = h.at[i]
<1> DEFINE g == Fold(h, t)
<1>1. DOMAIN g.at = DOMAIN h.at \cup {h.n + j : j \in DOMAIN t.at}
  BY DEF Fold
<1>2. \A i \in DOMAIN h.at : i \in DOMAIN g.at /\ g.at[i] = h.at[i]
  BY DEF Fold
<1>3. ASSUME NEW i \in DOMAIN g.at, i \notin DOMAIN h.at
      PROVE  g.at[i].name # name
  <2>1. g.at[i] = t.at[i - h.n]
    BY <1>3 DEF Fold
  <2>2. PICK j \in DOMAIN t.at : i = h.n + j
    BY <1>1, <1>3
  <2>3. i - h.n = j
    BY <2>2 DEF IsHeaders
  <2> QED
    BY <2>1, <2>2, <2>3
<1> HIDE DEF g
<1>4. Named(g, name) = Named(h, name)
  BY <1>2, <1>3 DEF Named
<1> QED
  BY <1>2, <1>4 DEF g

\* A section with no field that the proxy or a recipient decides by can be folded into
\* any head without changing what was read off it.
LEMMA HarmlessFolds ==
  ASSUME NEW h, IsHeaders(h), NEW s, IsHeaders(s), NEW w,
         \A j \in DOMAIN s.at : s.at[j].name \notin FramingNames \cup {"connection", "host", "date"}
  PROVE  FoldsInto(h, s, w)
<1> DEFINE g == Fold(h, s)
<1>1. \A name \in FramingNames \cup {"connection", "host", "date"} :
        \A j \in DOMAIN s.at : s.at[j].name # name
  OBVIOUS
<1>2. \A name \in FramingNames \cup {"connection", "host", "date"} :
        /\ Named(g, name) = Named(h, name)
        /\ \A i \in DOMAIN h.at : g.at[i] = h.at[i]
  BY <1>1, FoldNamed
<1> HIDE DEF g
<1>3. Tokens(g) = Tokens(h)
  <2>1. Elements(g, "connection") = Elements(h, "connection")
    <3>1. /\ Named(g, "connection") = Named(h, "connection")
          /\ \A i \in Named(h, "connection") : g.at[i] = h.at[i]
      BY <1>2 DEF Named
    <3> QED
      BY <3>1, SameElements
  <2> QED
    BY <2>1 DEF Tokens
<1>4. Says(h, w) => Says(g, w)
  <2> DEFINE FramingPlaces(x) == {i \in DOMAIN x.at : x.at[i].name \in FramingNames}
  <2>1. \A x : FramingPlaces(x) = Named(x, "content-length") \cup Named(x, "transfer-encoding")
    BY DEF Named, FramingNames
  <2>2. FramingPlaces(g) = FramingPlaces(h)
    BY <1>2, <2>1 DEF FramingNames
  <2>3. \A i \in FramingPlaces(h) : g.at[i] = h.at[i]
    BY <1>2 DEF FramingNames
  <2> HIDE DEF FramingPlaces
  <2>4. \A x : Says(x, w) <=> IF w \in {"none", "eof"} THEN FramingPlaces(x) = {}
                            ELSE \E i \in FramingPlaces(x) : FramingPlaces(x) = {i} /\ x.at[i] = FramingField(w)
    BY DEF Says, FramingPlaces
  <2> QED
    BY <2>2, <2>3, <2>4
<1>5. Named(g, "host") = Named(h, "host") /\ Named(g, "date") = Named(h, "date")
  BY <1>2
<1> QED
  BY <1>3, <1>4, <1>5 DEF FoldsInto, g

\* A sanitized section is one of those.
LEMMA SanitizedFolds ==
  ASSUME NEW h, IsHeaders(h), NEW t, IsHeaders(t), NEW w
  PROVE  FoldsInto(h, SanitizeTrailers(t), w)
<1> DEFINE s == SanitizeTrailers(t)
<1>1. IsHeaders(s)
  BY KeepType DEF SanitizeTrailers
<1>2. \A j \in DOMAIN s.at : s.at[j].name \notin HopByHop \cup ForbiddenTrailers
  BY DEF SanitizeTrailers, Keep
<1> HIDE DEF s
<1>3. \A j \in DOMAIN s.at : s.at[j].name \notin FramingNames \cup {"connection", "host", "date"}
  BY <1>2 DEF HopByHop, ForbiddenTrailers, FramingNames
<1>4. FoldsInto(h, s, w)
  BY <1>1, <1>3, HarmlessFolds
<1> QED
  BY <1>4 DEF s

-----------------------------------------------------------------------------
(* What stays and what is added *)

\* A received field is at the place it was received at, until it is removed.
Original(r, h) ==
  \A i \in DOMAIN h.at \ Added(r, h) : i \in DOMAIN r.at /\ h.at[i] = r.at[i]

\* Nobody has added a field of that name.
NoneAdded(r, h, name) == \A i \in Added(r, h) : h.at[i].name # name

\* An addition puts no other field at the place of a received one.
LEMMA PushOriginal ==
  ASSUME NEW r, IsHeaders(r), NEW h, IsHeaders(h), NEW f, r.n <= h.n, Original(r, h)
  PROVE  Original(r, Push(h, f))
<1> SUFFICES ASSUME NEW i \in DOMAIN Push(h, f).at, i \notin Added(r, Push(h, f))
             PROVE  i \in DOMAIN r.at /\ Push(h, f).at[i] = r.at[i]
  BY DEF Original
<1>1. ~(i > r.n)
  BY DEF Added
<1>2. i # h.n + 1
  BY <1>1 DEF IsHeaders
<1>3. i \in DOMAIN h.at \ Added(r, h) /\ Push(h, f).at[i] = h.at[i]
  BY <1>1, <1>2 DEF Push, Added
<1> QED
  BY <1>3 DEF Original

\* Nor does a removal.
LEMMA KeepOriginal ==
  ASSUME NEW r, NEW h, NEW S, Original(r, h)
  PROVE  Original(r, Keep(h, S))
  BY DEF Original, Keep, Added

\* What is pushed takes no field away.
LEMMA PushAllKept ==
  ASSUME NEW r, IsHeaders(r), NEW h, IsHeaders(h), NEW f, NEW but, r.n <= h.n, AllKept(r, h, but)
  PROVE  AllKept(r, Push(h, f), but)
<1> SUFFICES ASSUME NEW i \in DOMAIN r.at, r.at[i].name \notin Scoped(r) \cup but
             PROVE  i \in DOMAIN Push(h, f).at /\ Push(h, f).at[i] = r.at[i]
  BY DEF AllKept
<1>1. i # h.n + 1
  BY DEF IsHeaders
<1>2. i \in DOMAIN h.at /\ h.at[i] = r.at[i]
  BY DEF AllKept
<1> QED
  BY <1>1, <1>2 DEF Push

\* A removal that spares what must go on, and what is spared is more than that.
LEMMA KeepAllKept ==
  ASSUME NEW r, NEW h, NEW S, NEW but, NEW but2, AllKept(r, h, but), but \subseteq but2,
         \A i \in DOMAIN h.at : h.at[i].name \notin Scoped(r) \cup but2 => i \in S
  PROVE  AllKept(r, Keep(h, S), but2)
<1> SUFFICES ASSUME NEW i \in DOMAIN r.at, r.at[i].name \notin Scoped(r) \cup but2
             PROVE  i \in DOMAIN Keep(h, S).at /\ Keep(h, S).at[i] = r.at[i]
  BY DEF AllKept
<1>1. i \in DOMAIN h.at /\ h.at[i] = r.at[i]
  BY DEF AllKept
<1>2. i \in S
  BY <1>1
<1> QED
  BY <1>1, <1>2 DEF Keep

\* The places of a name are not moved by what has another name.
LEMMA PushNamed ==
  ASSUME NEW h, IsHeaders(h), NEW f, NEW name, f.name # name
  PROVE  Named(Push(h, f), name) = Named(h, name)
<1>1. h.n + 1 \notin DOMAIN h.at
  BY DEF IsHeaders
<1> QED
  BY <1>1 DEF Named, Push

\* A removal leaves the places it spares, with their fields.
LEMMA KeepNamed ==
  ASSUME NEW h, NEW S, NEW name
  PROVE  /\ Named(Keep(h, S), name) = Named(h, name) \cap S
         /\ \A i \in DOMAIN Keep(h, S).at : Keep(h, S).at[i] = h.at[i]
  BY DEF Named, Keep

\* Nor are they seen by who looks for that name among what was added.
LEMMA PushNoneAdded ==
  ASSUME NEW r, NEW h, NEW f, NEW name, f.name # name, NoneAdded(r, h, name)
  PROVE  NoneAdded(r, Push(h, f), name)
  BY DEF NoneAdded, Added, Push

\* A removal adds nothing.
LEMMA KeepNoneAdded ==
  ASSUME NEW r, NEW h, NEW S, NEW name, NoneAdded(r, h, name)
  PROVE  NoneAdded(r, Keep(h, S), name)
  BY DEF NoneAdded, Added, Keep

\* The first addition of a name is the only one ...
LEMMA PushAddedOnce ==
  ASSUME NEW r, IsHeaders(r), NEW h, IsHeaders(h), NEW f, r.n <= h.n, NoneAdded(r, h, f.name)
  PROVE  AddedOnce(r, Push(h, f), f)
<1> DEFINE g == Push(h, f)
           last == h.n + 1
<1>1. last \in DOMAIN g.at /\ g.at[last] = f /\ last > r.n
  BY DEF Push, IsHeaders
<1>2. \A j \in DOMAIN g.at : j # last => j \in DOMAIN h.at /\ g.at[j] = h.at[j]
  BY DEF Push
<1> HIDE DEF g, last
<1>3. last \in Added(r, g)
  BY <1>1 DEF Added
<1>4. \A j \in Added(r, g) : g.at[j].name = f.name => j = last
  BY <1>2 DEF Added, NoneAdded
<1>5. {j \in Added(r, g) : g.at[j].name = f.name} = {last}
  BY <1>1, <1>3, <1>4
<1>6. AddedOnce(r, g, f)
  BY <1>1, <1>3, <1>5 DEF AddedOnce
<1> QED
  BY <1>6 DEF g

\* ... and it is so until another of the name is added, or it is removed.
LEMMA PushStillOnce ==
  ASSUME NEW r, NEW h, IsHeaders(h), NEW f, NEW field, f.name # field.name,
         AddedOnce(r, h, field)
  PROVE  AddedOnce(r, Push(h, f), field)
<1> DEFINE g == Push(h, f)
<1>1. PICK i \in Added(r, h) :
        {j \in Added(r, h) : h.at[j].name = field.name} = {i} /\ h.at[i] = field
  BY DEF AddedOnce
<1>2. i \in DOMAIN h.at /\ h.n + 1 \notin DOMAIN h.at
  BY <1>1 DEF Added, IsHeaders
<1>3. i \in Added(r, g) /\ g.at[i] = field
  BY <1>1, <1>2 DEF Added, Push
<1>4. \A j \in Added(r, g) : g.at[j].name = field.name => j \in Added(r, h) /\ h.at[j].name = field.name
  BY DEF Added, Push
<1> HIDE DEF g
<1>5. {j \in Added(r, g) : g.at[j].name = field.name} = {i}
  BY <1>1, <1>3, <1>4
<1>6. AddedOnce(r, g, field)
  BY <1>3, <1>5 DEF AddedOnce
<1> QED
  BY <1>6 DEF g

\* A removal that spares the name spares the one that was added.
LEMMA KeepStillOnce ==
  ASSUME NEW r, NEW h, NEW S, NEW field, AddedOnce(r, h, field),
         \A i \in DOMAIN h.at : h.at[i].name = field.name => i \in S
  PROVE  AddedOnce(r, Keep(h, S), field)
<1> DEFINE g == Keep(h, S)
<1>1. PICK i \in Added(r, h) :
        {j \in Added(r, h) : h.at[j].name = field.name} = {i} /\ h.at[i] = field
  BY DEF AddedOnce
<1>2. i \in S
  BY <1>1 DEF Added
<1>3. i \in Added(r, g) /\ g.at[i] = field
  BY <1>1, <1>2 DEF Added, Keep
<1>4. \A j \in Added(r, g) : j \in Added(r, h) /\ g.at[j] = h.at[j]
  BY DEF Added, Keep
<1> HIDE DEF g
<1>5. {j \in Added(r, g) : g.at[j].name = field.name} = {i}
  BY <1>1, <1>3, <1>4
<1>6. AddedOnce(r, g, field)
  BY <1>3, <1>5 DEF AddedOnce
<1> QED
  BY <1>6 DEF g

\* A writer touches framing fields only.
LEMMA WrittenKeepsRest ==
  ASSUME NEW r, IsHeaders(r), NEW h, IsHeaders(h), NEW w, r.n <= h.n
  PROVE  /\ \A but : AllKept(r, h, but) => AllKept(r, Written(h, w), but \cup FramingNames)
         /\ \A name : name \notin FramingNames =>
              /\ Named(Written(h, w), name) = Named(h, name)
              /\ NoneAdded(r, h, name) => NoneAdded(r, Written(h, w), name)
         /\ \A field : field.name \notin FramingNames /\ AddedOnce(r, h, field) =>
              AddedOnce(r, Written(h, w), field)
<1> DEFINE spared == {i \in DOMAIN h.at : h.at[i].name \notin FramingNames}
           bare == Keep(h, spared)
           full == Push(bare, FramingField(w))
<1>1. Written(h, w) \in {h, bare, full}
  BY DEF Written
<1>2. IsHeaders(bare) /\ bare.n = h.n
  BY KeepType
<1>3. FramingField(w).name \in FramingNames
  BY OwnFields
<1>4. ASSUME NEW but, AllKept(r, h, but)
      PROVE  AllKept(r, Written(h, w), but \cup FramingNames)
  <2>1. AllKept(r, h, but \cup FramingNames)
    BY <1>4 DEF AllKept
  <2>2. AllKept(r, bare, but \cup FramingNames)
    <3>1. \A i \in DOMAIN h.at : h.at[i].name \notin Scoped(r) \cup (but \cup FramingNames) => i \in spared
      OBVIOUS
    <3> HIDE DEF spared
    <3> QED
      BY <2>1, <3>1, KeepAllKept
  <2>3. AllKept(r, full, but \cup FramingNames)
    BY <1>2, <2>2, PushAllKept
  <2> QED
    BY <1>1, <2>1, <2>2, <2>3
<1>5. ASSUME NEW name, name \notin FramingNames
      PROVE  Named(Written(h, w), name) = Named(h, name)
  <2>1. Named(bare, name) = Named(h, name)
    BY <1>5 DEF Named, Keep
  <2>2. Named(full, name) = Named(bare, name)
    BY <1>2, <1>3, <1>5, PushNamed
  <2> QED
    BY <1>1, <2>1, <2>2
<1>6. ASSUME NEW name, name \notin FramingNames, NoneAdded(r, h, name)
      PROVE  NoneAdded(r, Written(h, w), name)
  <2>1. NoneAdded(r, bare, name)
    BY <1>6, KeepNoneAdded
  <2>2. NoneAdded(r, full, name)
    BY <1>3, <1>6, <2>1, PushNoneAdded
  <2> QED
    BY <1>1, <1>6, <2>1, <2>2
<1>7. ASSUME NEW field, field.name \notin FramingNames, AddedOnce(r, h, field)
      PROVE  AddedOnce(r, Written(h, w), field)
  <2>1. AddedOnce(r, bare, field)
    <3>1. \A i \in DOMAIN h.at : h.at[i].name = field.name => i \in spared
      BY <1>7
    <3> HIDE DEF spared
    <3> QED
      BY <1>7, <3>1, KeepStillOnce
  <2>2. AddedOnce(r, full, field)
    BY <1>2, <1>3, <1>7, <2>1, PushStillOnce
  <2> QED
    BY <1>1, <1>7, <2>1, <2>2
<1> QED
  BY <1>4, <1>5, <1>6, <1>7

-----------------------------------------------------------------------------
(* Reading the framing, and additions of another name *)

\* A field of another name leaves the Connection field what it is.
LEMMA PushSameTokens ==
  ASSUME NEW h, IsHeaders(h), NEW f, f.name # "connection"
  PROVE  Tokens(Push(h, f)) = Tokens(h)
<1>1. Named(Push(h, f), "connection") = Named(h, "connection")
  BY PushNamed
<1>2. \A i \in Named(h, "connection") : Push(h, f).at[i] = h.at[i]
  BY DEF Named, Push, IsHeaders
<1>3. Elements(Push(h, f), "connection") = Elements(h, "connection")
  BY <1>1, <1>2, SameElements
<1> QED
  BY <1>3, Zenon DEF Tokens

\* A head that is accepted can be read as what it is accepted as, and as nothing else.
LEMMA FramingReads ==
  ASSUME NEW h, IsHeaders(h), Framing(h) # "error"
  PROVE  /\ Readings(h) = IF Framing(h) = "none" THEN {} ELSE {Framing(h)}
         /\ Framing(h) = "chunked" => Named(h, "transfer-encoding") # {}
<1> DEFINE lengths == Elements(h, "content-length")
           codings == Elements(h, "transfer-encoding")
<1>1. \A x : x \in Readings(h) <=> (x \in lengths \/ x \in codings) /\ x # ""
  BY Zenon DEF Readings
<1>2. LengthsAgree(h) /\ CodingIsChunked(h)
  BY DEF Framing
<1>3. \A name : Named(h, name) = {} => Elements(h, name) = {}
  BY DEF Elements
<1>4. CASE Named(h, "content-length") = {} /\ Named(h, "transfer-encoding") = {}
  <2>1. Framing(h) = "none"
    BY <1>2, <1>4 DEF Framing
  <2>2. lengths = {} /\ codings = {}
    BY <1>3, <1>4
  <2>3. Readings(h) = {}
    BY <1>1, <2>2, Zenon
  <2> QED
    BY <2>1, <2>3
<1>5. CASE Named(h, "transfer-encoding") # {}
  <2>1. Framing(h) = "chunked" /\ Named(h, "content-length") = {}
    BY <1>2, <1>5 DEF Framing
  <2>2. lengths = {}
    BY <1>3, <2>1
  <2>3. PICK i \in Named(h, "transfer-encoding") : Named(h, "transfer-encoding") = {i}
    BY <1>2, <1>5 DEF CodingIsChunked
  <2>4. SoleChunked(h.at[i].value)
    BY <1>2 DEF CodingIsChunked
  <2>5. \A x : x \in codings <=> \E k \in DOMAIN h.at[i].value : x = h.at[i].value[k]
    BY <2>3, ElementsMeans
  <2> HIDE DEF lengths, codings
  <2>6. PICK k \in DOMAIN h.at[i].value :
          /\ h.at[i].value[k] = "chunked"
          /\ \A j \in DOMAIN h.at[i].value \ {k} : h.at[i].value[j] = ""
    BY <2>4, Zenon DEF SoleChunked
  <2>7. "chunked" \in codings
    BY <2>5, <2>6, Zenon
  <2>8. \A x \in codings : x = "chunked" \/ x = ""
    BY <2>5, <2>6, Zenon
  <2>9. "chunked" # ""
    BY Zenon
  <2>10. \A x : x \in Readings(h) <=> x = "chunked"
    BY <1>1, <2>2, <2>7, <2>8, <2>9, Zenon
  <2>11. Readings(h) = {"chunked"}
    BY <2>10
  <2> QED
    BY <1>5, <2>1, <2>11
<1>6. CASE Named(h, "content-length") # {} /\ Named(h, "transfer-encoding") = {}
  <2> DEFINE l == CHOOSE x \in lengths : TRUE
  <2>1. Framing(h) = l
    BY <1>2, <1>6 DEF Framing
  <2>2. PICK i \in Named(h, "content-length") : TRUE
    BY <1>6
  <2>3. 1 \in DOMAIN h.at[i].value
    BY <2>2 DEF Named, IsHeaders, IsField
  <2>4. h.at[i].value[1] \in lengths
    BY <2>2, <2>3, ElementsMeans
  <2>5. l \in lengths
    BY <2>4
  <2>6. l \in Lengths /\ \A x \in lengths : x = l
    BY <1>2, <2>5 DEF LengthsAgree
  <2>7. codings = {}
    BY <1>3, <1>6
  <2> HIDE DEF l, lengths, codings
  <2>8. l # ""
    BY <2>6, LengthAssumption, Zenon
  <2>9. \A x : x \in Readings(h) <=> x = l
    BY <1>1, <2>5, <2>6, <2>7, <2>8, Zenon
  <2>10. Readings(h) = {l}
    BY <2>9
  <2>11. l \notin {"none", "chunked"}
    BY <2>6 DEF Framings
  <2> QED
    BY <2>1, <2>10, <2>11
<1> QED
  BY <1>4, <1>5, <1>6
=============================================================================
