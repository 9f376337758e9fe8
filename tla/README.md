# A verification project for jrpxy

jrpxy is a toolkit for HTTP/1.1 reverse proxies in Rust on tokio: crates `util`,
`http-message`, `body`, `frontend`, `backend` and `proxy`. This directory holds
TLA+ models of its state machines, TLC runs that check them on small instances,
and TLAPS proofs that hold for every instance. Paths below are relative to the
repository.

## The system

| part | code | state | operations | what makes it correct |
|---|---|---|---|---|
| buffer | `util/src/io_buffer.rs` | the bytes read from the transport and not consumed | `read`, `ensure`, `extend`, `split_to`, `get_u8` | nothing lost or repeated at any cut; bounded |
| head readers | `frontend/src/reader.rs`, `backend/src/reader.rs` | buffer, parse slots | `read` (head, checks, choice of body reader), `drain` | the next head is read from where the last message ended |
| body readers | `body/src/reader/*.rs` | position in the body, in the chunk, in the chunk framing; `inner` gone after an error | `poll_read`, `drain`, `drained`, `finish` | the body's bytes in order, `None` only at its end, failure is final |
| body writers | `body/src/writer/*.rs`, wrapped in `frontend/src/writer/`, `backend/src/writer/` | typestate Ready, Open, Write, Close, Finish; bytes of framing written so far | `send_as_*`, `open`, `poll_*`, `into_*`, `finish`, `abort` | the wire is what the framing announces, at every partial write and whatever the caller does; a writer comes back only between two messages |
| body forwarders | `proxy/src/body/*.rs` | `pending`, `read_done`, `errored`, the writer's typestate | `forward`, `forward_while`, `finish` | a faithful copy, cancellable between any two polls |
| exchange | `proxy/src/lib.rs` | which of the consuming types the caller holds | `from_request`, `forward`, `read_backend_response`, `forward_informational_response`, `forward_response_head`, `ProxyBodyExchanger::finish`, `PendingFrontendResponse::send_*` | one answer, both bodies whole, only clean connections reused, no deadlock |
| framing and fields | `http-message/src/*.rs`, `proxy/src/request_target.rs`, parts of `proxy/src/lib.rs` | none | framing, persistence, hop-by-hop and trailer filters | one framing or a rejection |
| options, errors | `proxy/src/options.rs`, `*/src/error.rs` | limits | builders | |

How they interact: the caller owns everything and passes it from type to type. A
`FrontendReader` yields a request and a body reader; `BackendProxyRequest::forward`
writes the head and yields a body writer; the two become a `RequestBodyForwarder`.
`read_backend_response` runs that forwarder (`forward_while`) in a `select!` with the
read of the response head; interim heads are forwarded and the wait resumes.
After the final head, `ProxyBodyExchanger::finish` joins the two forwarders'
`finish()` and hands back whichever connections may be reused.

What is hard: a `select!` drops a `forward()` future between any two polls; every
write may be partial or pending; the two bodies move at once through bounded
sockets; either peer may die at any point; an interim or final response may come
before the request is complete; the transport cuts the stream anywhere, across
message boundaries; a connection is reusable only if four decisions made at
different times agree. `PROJECT.json` lists these hazards at their lines, with
the properties that watch each.

There are no threads and no shared state beyond this: each exchange is one
task, and nothing is persisted.

## Modules

**`BodyForwarder`** models `RequestBodyForwarder` and `ResponseBodyForwarder`, which
have the same fields and steps. One action is one poll: of the body reader
(`ReadSome`, `ReadNone`, `ReadError`), of the writer in each phase of its typestate
(`StepReady`, `StepOpen`, `StepWrite`, `StepClose`, and their failures), of the last
chunk and the flush (`PollFinish`, `Finished`). A poll that answers `Pending` changes
nothing, which is what the comment on cancel-safety in `forward_inner` claims; so
cancelling is an interleaving and needs no action of its own. `pending` is represented
by its length `plen`, since it is always the last `plen` of the bytes `taken`.
`SrcArrive`, `SrcEnd`, `SrcCut` and `SinkFails` are the two transports. The pairs of
reader and writer framing are those `proxy/src/lib.rs` puts together.

**`Recipient`** is the far end of the writer: a decoder written from RFC 9112, which
knows nothing of the writer's state and so can judge it. Chunk-size lines, footers
and the last chunk are a few abstract bytes, so that partial writes inside them
happen.

**`BodyCopy`** is the abstract specification: what copying a body promises, in four
actions, with no framing or buffer. `BodyForwarder` implements it (`ImplementsBodyCopy`,
checked and proved), and so does each direction of an `Exchange`.

**`ConnectionWriter`** models the public writing side of one connection, `FrontendWriter` and
`BackendWriter` with the wrappers of `frontend/src/writer/` and `backend/src/writer/` over
`body/src/writer/`, under a caller that knows no rules: it sends message after message, opens
chunks of any length, calls `into_*` before the poll has finished, aborts, drops. `hold` is the type the
caller holds. What the framings make of the states is a record of the bytes each owes (`Rules`), so one
action per method stands for all of them. A poll that answers `Pending`, an error or `Ok(0)` changes
nothing and is no step; a `write_all` whose future is dropped is therefore a prefix of the polls it is
made of. What is written is decoded twice by `Recipient`: up to the last byte written (`rx`) and up
to the last that has arrived (`seen`), because the transport may buffer until it is flushed, and a
dropped connection may lose what it buffered.

**`Delivery`** is the abstract specification of `ConnectionWriter` (`ImplementsDelivery`): what was accepted is
received in order, a message is complete for the recipient only when it is, broken only when the
caller aborted it, and the next begins only after that. It knows the three ways a recipient can tell the end (by the
length, by a mark, by the close) and nothing of framing or typestates.

**`Wire`**, **`Leg`**, **`Exchange`**: a whole exchange with its client, its origin and the
four bounded pipes between them and the proxy. `Wire` counts the units (interim heads,
head, body units, terminator) that have passed a point. `Leg` is a forwarder seen from
the exchange: it reads, holds and writes whole units, because here it matters only
which side waits for which; it is instantiated once per direction. `Exchange` has one
action per call of the library and one per kind of failure; `pc` says which of
the library's types the caller holds. The request's framing, persistence, version and
`Expect`, the response's framing and persistence, and the `habits` of the peers are chosen initially in
every possible way. A peer need not read as things arrive: a *patient* origin answers only after the
whole request, a simple client reads only once it has written its request, a simple origin only once it has
written its response (`PossibleHabits`). Two simple peers, or a simple and patient origin, wait for each
other whatever a proxy does, and are left out.

**`MessageReader`** models the reading side of one connection, frontend or backend: a
peer that pipelines messages of every framing, the buffer, the head loop, the four
body readers and the recycling of the connection. A byte of the stream knows what it
is part of, which lets the properties say what the reader took it for. A line (a head, a
size line, a trailer section) is one to `Longest` abstract bytes. One action is one turn of
the loop in `poll_read`. `drain()` is a caller that reads to the end and throws the answers
away.

**`MessageStream`** is the abstract specification of `MessageReader`: heads, bytes and ends in
their order (`ImplementsMessageStream`).

**`Fields`** is the vocabulary of the two modules that follow: header fields as a peer, the
proxy and a reviewer see them. A name stands for all its spellings and a value is the
list of its comma-separated elements, because every decision of `http-message/src/header.rs`
is one about elements; a field that is removed leaves a hole, so that the order of the others and
what the proxy adds stay visible. It defines the framing of a head, its persistence, the
hop-by-hop filter, and what the writers write.

**`RequestHead`** follows one request's head through `FrontendReader::read`, `from_request`,
`into_backend_request` and `forward`. The framing of the body is decided once, at the read;
the fields that state it stay in the head, which the caller may change at any time
(`CallerEdits`), until `forward` writes it. `pc` is the type the caller holds. Behind a chunked body
`finish` forwards the trailers (`EndBody`): `sanitize_trailers` goes by a list of names and looks neither at the
tokens of the head's Connection field nor at what the head said.

**`ResponseHead`** follows the responses to one request: `BackendReader::read` with its choice
of a body reader, `NormalizedResponseStream`, any number of
`forward_informational_response`, and `forward_response_head` with its choice of a writer.
The trailers go on only if the client gets chunks too.
Both are open-ended about the fields (constants `Heads`, `Edits`, `Sections`); **`MCRequestHead`** and
**`MCResponseHead`** list them for TLC.

The theorems are in **`BodyForwarderProofs`**, **`ConnectionWriterProofs`**, **`ExchangeProofs`**, **`RequestHeadProofs`** and
**`ResponseHeadProofs`** (which rest on the lemmas of **`FieldsProofs`**), and, for `MessageReader`, in **`MessageReaderProofs`** (types and bounds) and
**`MessagePathProofs`** (where the reader stands in the stream).

Each operator that a name such as `ProgressLost`, `JoinedEarly` or `FooterUnchecked` marks as
a defect stands directly before the definition it would replace; no specification uses
it. They are the defects the properties have been seen to catch.

## Runs

| run | what it shows | bounds, and why they are enough |
|---|---|---|
| `forwarder` | the wire is always decodable (`WireWellFormed`), no byte is lost or repeated (`NothingLost`), a truncated body is never complete (`EndOnlyAfterEnd`), `Ok` means delivered (`OkMeansDelivered`), the errors that guard the typestate are unreachable (`NoMisuse`), nothing is written after an error (`LatchedAfterError`), refinement of `BodyCopy`, the copy ends (`Settles`) | body of up to 4 bytes in reads of up to 2: several chunks, and chunks shorter than a read; framing lines of 2 bytes: every partial write. The proofs remove the bounds |
| `forwarder_write_zero` | violation, see Findings | a transport that accepts nothing |
| `exchange` | connections handed back are clean (`ReuseClean`), success means both bodies came over (`DoneMeansBoth`), one final answer, after the interim ones and without them for HTTP/1.0 (`OneAnswer`), each direction refines `BodyCopy` (`BothAreCopies`) | one unit per pipe, one body unit, one interim response, two backends tried, all four kinds of fault: every order of the events of both directions, each pipe full and empty. Simple peers only wait more than others do, so without them (`Blocking`) no step is missing. The proofs remove the bounds |
| `exchange_live` | `ResponseDelivered`: the client gets the whole response unless a peer dies; `ExchangeEnds`: the exchange ends in any case but one (`Abandoned`) | pipes of one unit and bodies of none or two units and a terminator, more than the pipes and the forwarder hold between them when nobody reads; patient origins, simple clients, simple origins; either peer dies at any point. What the heads say of persistence is fixed (`Persist`): it decides nothing before the end |
| `exchange_deadlock` | violation, see Findings | only chunked requests to origins that wait for all of it |
| `reader` | the next head is read from a boundary (`NextHeadIsNext`), the body's bytes in order (`BodyInOrder`), a malformed byte is final and nothing else is refused as malformed (`JunkIsFatal`), the two EOF errors mean what they say (`EofMeansWhatItSays`), `BufferBounded`, refinement of `MessageStream`, a close is noticed (`CloseIsNoticed`) | unboundedly many messages; lines of up to 3 bytes with limits of 2, fills of 2 and 4 bytes in flight: fills that end anywhere in a line, span two messages, or complete a line longer than its limit; the buffer can reach the forbidden size. The proofs remove the bounds |
| `request_head` | an accepted request can be read in one way only (`OneReading`), the backend is told the framing the body is written with (`BackendAgrees`), which fields stay (`ScopedStays`) and which go on, the proxy's own included (`RestGoesOn`); a backend that folds the trailers into the head still reads the same framing, Host and Connection tokens (`FoldingIsHarmless`) | all sequences of up to three of 17 fields: every pair of framing fields with a Connection field that names one of them, in every order, and one added by the caller at each point; trailer sections of up to two of six fields, one of each kind the filter tells apart |
| `response_head` | the client looks for the end of the body where the proxy puts it, interim and 204 responses carry no framing, a body goes on as it came (`ClientAgrees`), `RightFieldsGoOn`, `FoldingIsHarmless` | all sequences of up to three of 13 fields, six statuses that stand for the classes the code tells apart, both versions on both sides, HEAD or not |
| `writer` | the wire stays decodable (`WireDecodable`), a writer comes back only after a whole message has arrived (`HandedBackWhole`), no broken-off body looks complete (`NoFalseEnd`), `remaining()` and `chunk_remaining()` are what the recipient waits for (`RemainingIsDue`), refinement of `Delivery` | any number of messages; body of up to 4 bytes: two chunks, and chunks written in pieces; lines of 2 and 3 bytes: every partial write; `u64::MAX` is 6: `off + len` can pass it. The proofs remove the bounds |
| `request_head_host`, `response_head_keep` | violations, see Findings | as the two above |
| `reader_drained` | violation, see Findings | as `reader` |

Origins that hold their answer back until they have a whole *chunked* request are left
out of `exchange` and `exchange_live` (constant `Patient`), because of the deadlock that
`exchange_deadlock` shows.

**Fairness.** `BodyForwarder`: the source goes on or fails, and the task that drives the
forwarder is polled when it can make progress (tokio wakes a task whose I/O is ready;
the future of the response head resolves in the end). `Exchange`: each peer reads what arrives, once its habit lets it, and sends
what is due, weakly fair per activity; the habit is a guard of `ClientReads`, `OriginReads` and `OriginAnswers`, so fairness
cannot override it; and the proxy's task likewise; within the join each
direction is fair by itself, because `tokio::join!` polls both. Faults are never
fair. `MessageReader`: the peer closes in the end and the reading task is polled; an I/O
error is never forced. No strong fairness is used.

## Proofs

`BodyForwarderProofs` proves, for every body length, chunk size, length of the framing lines
and set of transport faults: type correctness, every safety invariant of the `forwarder` run,
`LatchedAfterError`, and the refinement of `BodyCopy`. Assumptions: `UnitAssumption`
(framing lines are not empty) and `ForwarderAssumption` (`ChunkSize > 0`).

None of the safety properties is inductive alone. `IInv` adds what ties the three views of the
copy together: `SourceInv` (the reader reports the end only when the source ended and
all was taken), `RecipientInv` (what the decoder has plus what is pending is what was
taken), and per phase of the writer (`ReadyInv`, `OpenInv`, `WriteInv`, `CloseInv`, `TerminalInv`) the
state the decoder must be in: e.g. in `Write` the recipient expects exactly `plen` more
bytes of the current chunk. The argument then runs action by action; an action that can
fail has a lemma for its failing half.

`MessageReaderProofs` proves `TypeOK` and `BufferBounded` for every limit, fill length and stream: the buffer
never holds more than a limit plus one fill, whatever the peer sends.

`MessagePathProofs` proves the rest of the `reader` run but its liveness: `NextHeadIsNext`, `BodyInOrder`, `JunkIsFatal`,
`EofMeansWhatItSays` and the refinement of `MessageStream`. None of these is inductive: they relate
what the reader will take to what the peer, many bytes ahead, has already sent. A *place* (`Places`) is what the peer knows when
it is there, what is due of the message and of the line; `Leads` says which byte leads from which
place to which. The invariant `PathInv` says that unless the reader is gone there is a path of
places through the bytes between the two, which ends where the peer is (`Now`) and begins where the reader is (`Aligned`): at
the first byte of a head, of a size line, of what is due of the body. The peer makes the path longer at its
end (`PathGrows`), the reader shorter at its start (`PathShrinks`), and where the transport cuts the stream is
nowhere in the invariant. The reader takes a whole line, or as much of a body as is buffered, in one step, and to follow
a path byte by byte would need an induction. `Path` therefore says the same of any two places
of a path, not of neighbours only (`LineFrom`, `DataFrom`): that is kept when one byte is appended, and it answers at once
where a whole line or any part of a body leads (`WholeLine`, `DueIsData`). `ToldInv`, `SpoiltInv` and, for the
refinement, `EndInv` (after the end of a body that only the close ends nothing comes) complete it. The only assumption is
`ReaderAssumption`: the limits are positive.

`ExchangeProofs` proves every property of the `exchange` run, for pipes of any capacity, bodies of any length,
any number of interim responses and of backends tried, and any set of faults: `TypeOK` (and with it that a
forwarder writes no unit that it has not read and reads none past the body's end), `ReuseClean`, `DoneMeansBoth`, `OneAnswer`, and that each direction refines `BodyCopy`. Assumptions: `WireAssumption` and
`ExchangeAssumption` (capacities positive, bounds natural). The invariant has one part per *leg*, used twice
(`LegInv`): no point of the stream is ahead of the one before it, the end is noted only when all of the body
is in, nothing is copied before the head, and the terminator goes out with success and not before. `StageInv` says in
which state the two legs are for each type the caller may hold; `ReplyInv`, `ReuseInv` and `InterimInv` what an answer
of the caller's own, a reuse and an interim head presuppose. `ReuseClean` needs all of them, since what makes a
connection reusable is decided at different times and by different ends. `OneAnswer` needs `InterimInv`
because the interim heads are counted at both ends of the leg.

`ConnectionWriterProofs` proves every property of the `writer` run, the refinement of `Delivery`
included, for every body length, every `u64::MAX` and every length of the framing lines. Assumptions:
`UnitAssumption` and `WriterAssumption` (`MaxBody <= MaxU64`, both natural). The invariant says for
each framing and each type the caller may hold which byte the recipient waits for next: for chunked,
in `Open` after `cnt` bytes of the size line the decoder stands at place `cnt` of a size line, in `Write` it
expects `clen - cnt` bytes of data, in `Close` the rest of the CRLF, and in `Ready` it is `Between` chunks,
where a size line or the last chunk may follow (`ChunkInv`, `ChunkedEndInv`); for Content-Length the
declared length less the accepted bytes (`LengthInv`). `ArrivedInv` ties what has arrived to what is written. None of the
properties is inductive without these: the writer cannot see the recipient. The proof takes each action once, and
within it one step per conjunct.

`RequestHeadProofs` proves every property of the `request_head` run, for any heads, any fields a caller adds, any lengths and any trailer
section: an accepted head can be read in one way only (`OneReading`); it is written with exactly the framing its body has
(`BackendAgrees`), without the fields scoped to the client's connection (`ScopedStays`) and with all the others
(`RestGoesOn`); its trailers are harmless to a backend that folds them (`FoldingIsHarmless`). Assumptions:
`FieldAssumption` (a field has a name and at least one element; lengths are not spelled like another framing),
`LengthAssumption` (nor is the empty string one: it does not parse as a `u64`) and `RequestAssumption` (the caller does
not add Connection, Host or Via itself). The invariant adds what `ScopedStays` depends on before it can be seen: until the head is
stripped it still holds every Connection token received, and what is pushed, a Host from the target included, stands behind
the received fields. For `RestGoesOn` a second invariant, `RestInv`, carries the other direction through the same
stages: nothing received is missing but what the target replaces and what the strip takes, no Host or
Via has been added twice, and the Host that `from_request` saw to survives unless Connection names it. The
exception is the fourth finding below.

`ResponseHeadProofs` proves every property of the `response_head` run on the same terms: `ClientAgrees`,
`RightFieldsGoOn`, `FoldingIsHarmless`, `TypeOK`. Assumptions: the first two above and `ResponseAssumption` (the caller adds
no Connection, Via or Date). The invariant ties the head in hand to the received one (`Stripped`: no scoped field,
all the others, no Via or Date yet) and the reader chosen for the body to the head as it was *before* the strip,
which takes Transfer-Encoding out of it.

`FieldsProofs` holds what these two share: what removing, keeping and pushing a field does to the tokens, to the
framing, and to what is scoped, kept or added; and that a trailer section from which the listed names are gone
changes none of what a recipient reads (`SanitizedFolds`).

Every safety property and every refinement that a passing run checks is proved. Only model-checked are the liveness
properties (`Settles`, `ResponseDelivered`, `ExchangeEnds`, `CloseIsNoticed`), because the prover has neither
fairness nor ENABLED, and the five violations, which are counterexamples. What the proofs cannot say is that the
constants of a run are like the real ones; the assumptions are the only hypotheses, and TLC evaluates each of them.

## Findings

1. **Deadlock with a chunked request** (`exchange_deadlock`). `forward_while` pumps the request
   body while the response head is awaited, because "some origins will not respond until they have
   received the full request body, which would otherwise deadlock" (`proxy/src/lib.rs:461`). For a
   chunked request the last chunk is written only by `finish()`, which runs after the response
   head: an origin that waits for the whole request never answers. The repository's test of
   this (`proxy/tests/proxy.rs:1912`) uses Content-Length, which needs no terminator.
2. **Endless `Working`** (`forwarder_write_zero`). A transport that answers `Ok(0)` in the `Write` phase
   is called again for ever; `proxy/src/body.rs:25` promises progress. The other phases make
   `Ok(0)` an error.
3. **`drained()` after an error** (`reader_drained`). True for a chunked reader that failed in the middle.
4. **A Host that is stripped again** (`request_head_host`). The Host derived from an absolute target
   is put in before the fields named by `Connection` are stripped (`proxy/src/lib.rs:990-997`), so
   `Connection: host` sends the request on without any, where the doc of `normalize` promises one
   (`proxy/src/request_target.rs:146-148`). Via is added after the stripping and is safe.
5. **Transfer-Encoding of HEAD and 304** (`response_head_keep`). A comment
   (`proxy/src/lib.rs:687-689`) wants the framing fields of these forwarded; `Transfer-Encoding` has by then
   been stripped as hop-by-hop, so only `Content-Length` is.

Four observations that no run states as a violation, since nothing in the repository says otherwise.

- *A join that waits for the abandoned.* `ProxyBodyExchanger::finish` waits for both directions even when one has failed
  (`proxy/src/lib.rs:796`). The failed one reads no more from its source; a source that reads only once it has written then
  never reads what the other direction has for it, and the join does not end. `ExchangeEnds` names this case
  (`Abandoned`) and does not hold without it; a caller needs a timeout there.
- *Interim heads to a client that does not read.* While an interim head is written the request's body is not pumped
  (`proxy/src/lib.rs:575`). A client that reads only once it has written is stuck if more interim heads come than its
  socket holds. `HeadsFit` assumes that they fit, and `ResponseDelivered` does not hold without it; with pipes of one unit
  it keeps interim heads from such clients, unless they are HTTP/1.0, to which none is written.
- *Limits that depend on the cut.* `max_chunk_header_length`, like the limit on a head, is compared with the buffer
  only while the line is incomplete, so whether a longer one is refused depends on how the transport cut it
  (`body/src/reader/chunked.rs:416`), and a pipelined head that is already buffered may pass at more than its limit
  (`frontend/src/reader.rs:105`). The model does the same; `BufferBounded` says only that what is held stays bounded.
- *Trailers that Connection names.* The trailer filter does not drop a field that the head's Connection field names,
  though it would have been dropped from the head.

## Not modelled

- The text of fields, methods and targets: spelling, white space, the splitting of lists and
  of absolute targets, and the grammar checks of `Headers::push`. The models start from elements and forms.
- A caller that adds its own Connection, Host or Via, or answers with a response of its own fields.
- An error or `Ok(0)` of the transport under `ConnectionWriter`: it changes nothing in a writer, and the caller's answer to
  it is one it may give at any time. What a forwarder does with it is in `BodyForwarder`.
- `CopyIncomplete` of `into_ready()`: `forward()` answers true in the phase `Ready` alone, so that `finish()` cannot meet
  another; `NoMisuse` is about the two errors that arithmetic decides.
- A limit on retries: the library has none, `MaxTries` stands for the caller's. What is checked of a retry is that
  it starts from an untouched body; a retry offered after a later error is one of the defects `BothAreCopies` catches.
- A `body_chunk_size` of 0, which nothing rejects: every read is then empty and `forward()` goes on for ever.
- Parsing of text (httparse), formatting, logging, `Debug`, error conversions.
- Timeouts: the library has none; a caller's timeout is a dropped future (`DropForwarder`).

## Plan

1. `Recipient`, `BodyForwarder`, `BodyCopy`, `BodyForwarderProofs`: the copying machine. Done.
2. `Wire`, `Leg`, `Exchange`: the composition, its deadlocks and its liveness. Done.
3. `MessageReader`, `MessageStream`, `MessageReaderProofs`, `MessagePathProofs`: the reading side. Done.
4. `Fields`, `RequestHead`, `ResponseHead` and their proofs: which framing a head has, which fields go
   on. Done.
5. `ConnectionWriter`, `Delivery`, `ConnectionWriterProofs`: the public writers. Done, and trailers, in `RequestHead` and
   `ResponseHead`.
6. Composition of `MessageReader` with `Exchange`: several exchanges on one client connection, so
   that `ReuseClean` of one is the initial condition of the next.
7. `ExchangeProofs`: the safety of the composition, and the refinement of `BodyCopy` per direction. Done.
