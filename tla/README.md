# A verification development for tactical-gateway

TLA+ specifications of the gateway, its formats and its operational store,
model-checked with TLC on small instances, and theorems about the evidence
chain, the gateway, the folder watcher, the operational store, its listing, the
stream readers, the CoT conversions and the file parsers that TLAPS proves for
every value of the constants.
`PROJECT.json` lists the components, the runs, the mutants that show each
property can fail, the source lines behind each definition, the findings, the
hazards and the theorems.

    tlc -config CaptureChain_faults.cfg MCCaptureChain     # a run
    tlapm CaptureChainProofs.tla                           # the proofs of a module

## 1. The system

Tactical messages (Cursor-on-Target XML and protobuf over TCP and UDP) and map
overlays (KMZ and OVL files dropped in a folder) come in; each is stored
verbatim in an evidence archive, normalized to a Common Tactical Object (CTO),
published on NATS, routed to other systems, and kept in PostgreSQL.

    CoT clients --> listeners --.                         .--> NATS --> opstore --> PostgreSQL
                                |--> capture --> sink --> |
    folder --> watcher/ingestor-'        |                '--> route engine --> TCP/UDP peers
                                         v
                                  MinIO (objects + manifest per day)

The gateway is one asyncio process, the operational store another; each runs one
event loop, so code between two awaits is atomic and every await is a point
where other tasks run. Blocking clients (MinIO, psycopg) run in threads.

| Component | State | Operations | Interacts with | Hard part |
|---|---|---|---|---|
| Raw capture writer (`capture.py`) | chain day, tip and manifest lines in memory; objects and manifests in MinIO; a lock | `capture`, roll at midnight, reload | every listener and ingestor awaits it before anything else | concurrency on the lock, failed puts, restarts, midnight |
| Hash chain (`hashchain.py`) | none | `make_entry`, `verify_chain` | writer, `tools/verify_chain.py` | forks |
| CoT listeners (`listeners.py`) | counters, open connections | receive, split frames, normalize | capture, sink | exceptions that are not parse errors, framing |
| Route engine (`route_engine.py`) | enabled flags, counters, senders with lock and connection | `handle_cto`, `set_enabled`, `close` | sink, peers, HTTP API | shared connections, slow and failing peers, shutdown |
| Gateway process (`main.py`) | the wiring | sink, start, shutdown | all of the above | order of the shutdown |
| NATS publisher | connection | `publish_cto` | sink, ingestors | lost publications |
| Folder watcher, ingestors (`folder_watcher.py`, `kmz_ingest.py`, `ovl_ingest.py`) | the directories, a stop flag | scan, settle, ingest, move | capture, NATS, users' file copies | slow copies, replaced and unreadable files, exceptions, restarts |
| Operational store (`opstore/main.py`, `opstore/writer.py`) | buffers and windows in memory; the `cto` table | `_on_message`, flush loop, `_write_batch`, stop | NATS, PostgreSQL | batching windows, threads that outlive tasks, supersession |
| Query and upload API (`api_phase2a.py`) | none | list, upload, the 409 check | PostgreSQL, ingestors | pages of a table that changes |
| Stream readers (`listeners.py`, `cot_pb.py`) | the buffer of a connection | read, cut out an event or a frame | TCP clients | chunks of any size, broken and unfinished messages |
| Normalizers (`normalizers/`) | none | both directions of CoT XML and protobuf | listeners, route engine | sentinels, zeros, what a forwarded track loses |
| KMZ parser and recognizer (`kmz_parser.py`, `kmz_recognize.py`, `kmz_prefix_table.py`) | none | archive to CTOs | KMZ ingestor | rings, sources of affiliation, exceptions |
| OVL parser (`ovl/`) | none | file to CTOs | OVL ingestor | declared against drawn geometry, exceptions |
| CTO model, routes model, settings, migrations, tools | declarations | | | |

What makes each of them correct:

- *Capture*: a stored chain verifies, is backed by stored bytes, only grows, and
  keeps every capture that was acknowledged; the lock is always given back.
- *Listeners and routes*: every message is accounted for in the counters; one
  destination's failure does not keep a CTO from another; one connection per
  destination; nothing hangs.
- *Watcher*: a file filed as processed was captured and gone through; files
  that can be read leave the inbox; nothing is ingested again without a reason.
- *Operational store*: every message is written or counted; stored order is
  publication order; the old overlay is retired only together with the new one;
  history is kept; a stop flushes what is buffered.
- *Query API*: the pages a client gets while rows are written and retired
  neither repeat a row nor miss one that was there all along.
- *Stream readers*: the messages that are delivered do not depend on how TCP
  cuts the stream; none is lost, doubled, joined or made up.
- *Normalizers*: a track forwarded to another gateway of this kind is the same
  track, but for losses that are known, and does not drift over several.
- *Parsers*: a file yields all of its graphics in order or nothing; what was
  drawn is what is stored; nobody is made friendlier than the file says.

The hazards, each at its line and with the properties aimed at it, are in
`PROJECT.json`.

## 2. The modules

| Module | Models |
|---|---|
| `EvidenceLog` | what the archive promises, with no writer, lock or store: one growing log per day; a call is confirmed only after its item is in the log; a call told it failed is not recorded later |
| `CaptureChain` | `capture.py` and `hashchain.py` |
| `CaptureChainProofs` | the theorems about `CaptureChain` |
| `Opstore` | `opstore/main.py`, `opstore/writer.py` |
| `Inbox` | `folder_watcher.py`, `kmz_ingest.py`, `ovl_ingest.py` |
| `Gateway` | `listeners.py`, the sink and shutdown of `main.py`, `route_engine.py` |
| `Routes` | the matches of `routes_model.py`, decided by `route_engine.py` |
| `QueryApi` | `list_ctos` of `api_phase2a.py`; extends `Opstore` |
| `CotStreams` | how `listeners.py` and `cot_pb.py` cut a TCP stream |
| `CotConvert` | `cot_xml.py` and `cot_pb.py` |
| `KmzParse` | `kmz_parser.py`, `kmz_recognize.py`, `kmz_prefix_table.py` |
| `OvlParse` | `ovl/parser.py`, `ovl/sidc.py` |
| `Selection` | the loop by which the parsers and `_detail_to_attributes` pick what they keep of a list |
| `Formats` | one connection, file or CTO at a time, given to the four modules above, and what they promise of it |
| `GatewayProofs`, `InboxProofs`, `OpstoreProofs`, `QueryApiProofs`, `FormatProofs` | the theorems about these modules |
| `StreamProofs` | the invariant of `CotStreams`, from which `FormatProofs` has its theorem about streams |
| `DataFacts` | what their proofs share: sums over finite sets, queues, least elements |
| `MC...` | instances for TLC |

Compositions: `QueryApi` reads the table that `Opstore` writes; `MCInbox` takes
what becomes of each file, and how many CTOs it has, from `KmzParse` (the
assumption `FatesAreParsed`); `MCGateway` takes which messages a route wants from
`Routes` (`RoutesMatch`); the point graphics that `KmzParse` and `OvlParse` make
are among the CTOs that `CotConvert` forwards. `CaptureChain` implements
`EvidenceLog`. TLC evaluates both assumptions in every run of those modules.

Operators whose name ends in an underscore and a word (`FlushOne_KeepAge`) are
mutants: a plausible bug in the definition that follows them, used by no
specification. They document what each property guards against.

### CaptureChain

One action per piece of code between two awaits: `Submit` (a caller takes
`received_at` and queues on the lock), `Acquire`, `RollChain` (the manifest of
another day is read), `WriteObject` (the raw bytes are stored and the line is
appended in memory), `WriteManifest` (the put takes effect), `Return` (the tip
advances, the lock is free). A MinIO call may fail before or after it took
effect (`ReadFails`, `ObjectFails`, `ManifestFails`), and the process may crash
and start again with an empty memory. `chainDay`, `chainTip` and `line` are
`_chain_day`, `_chain_tip` and `_chain_manifest_lines`; `holder` and `waiter`
are the asyncio lock, which is first come first served.

SHA-256 is ideal: the hash of an entry *is* the list of all it hashes, so equal
hashes mean equal inputs and `VerifyChain` is the code's `verify_chain`. A
payload stands for the bytes with their protocol, and so for the object's digest.
`ensure_bucket` is left out.

### Opstore

`Publish` is the gateway, `OnMessage` the NATS callback, `Ripen` the passing of
200 ms, `Wake` the flush loop fixing the keys of its round, `FlushOne` the
`_flush_one` of either caller (loop or `_flush_all`) that pops the buffer and
hands a batch to a thread. `Supersede` and `Commit` are the two points at which
the thread's READ COMMITTED transaction reads and takes effect; a second
UPDATE that meets a row the first has updated waits and then skips it. `Fail`
rolls back, or commits and loses the answer. `Stop`, `Drain`, `Stopped`, `Exit`
are the steps of `run()` after SIGTERM: the flush loop is cancelled but its
thread is not. Times are abstract: `window` has the keys in the order in which
their windows opened, and `ripe` says how many of them, the oldest, opened
200 ms ago; it may grow at any moment. The mapping of a CTO to
columns and the `audit_log` row, which nothing reads, are left out. The
publication order of one key follows from the gateway: one watcher task
publishes an ingest's CTOs one after the other.

### Inbox

`Drop` and `Grow` are the users, who copy files in, slowly, or over a file of
the same name; `Lock` and `Unlock` make a file unreadable for a time, by its mode
or a lock of the file server. `Read` is `_process` up to the capture: an OSError
of `read_bytes` is logged and the file stays for the next poll, a wrong signature
moves it to `.failed`, anything else is ingested. `usurpers` has the files that took
the place of one whose bytes ingest held and were not read since: what is moved is
whatever has the name by then. `Look` and `Settle` are the two looks of the stability check,
`Captured`, `ParseFails`, `ParseEscapes` and `CaptureFails` the outcomes of the
capture and the parse, `Publish` one CTO, `Ingested` the end and the move.
`Fate` says what the parser makes of a file; a half-written file does not parse.
The KMZ and the OVL ingestor have the same control and share the model.
`_in_flight` is left out: a single task scans, so the set is empty whenever it
is read. `kmz_watcher.py`, which nothing imports, is not modelled.

### Gateway

A message is a task: one after the other on a TCP connection, at once for
datagrams. `Dispatch` takes the next route that is enabled and matches, creates
the sender if it is the first, and queues on its lock; `Acquire`, `Connect`,
`Write` and `Drain` are `_TcpSender.send`; `SendDatagram` the UDP sender.
`drain()` waits while a connection buffers more than `HighWater` messages.
`Toggle` is `set_enabled`, `Shutdown` and `Close` are the end of the lifespan of
`main.py`, with the dictionary iteration of `RouteEngine.close` that a message
still being routed can break. `capture` is `CaptureChain`, seen here
as a step that succeeds or raises; the publication on NATS is part of
`Captured`, as nothing in this module depends on its result. Actions are
somewhat finer than awaits, which adds interleavings and loses none. As of
Python 3.11, `Server.wait_closed` returns at once, so client connections live
on during the shutdown.

`Routes` decides the constant `Matching`: a field of a match is the set of values
it lets through, so that a glob is the set of source systems that fit it.

### QueryApi

A client takes `Page` after `Page`, each one SELECT and so one snapshot, while
every step of `Opstore` goes on in between. A page is cut (`Items`) from
whatever arrangement of the matching rows is `Descending`, the ORDER BY. A row is `Listable` unless it is
retired or, as those of `Dated` streams, came with an end of its own. `listed` is
what the client has so far, the cursor is the event time and uid of the last row,
and `more` whether `next_cursor` was given. The filters of the request, which only
make the table smaller, are left out; uids are ranks. A page may show a part of an
old overlay and the next nothing of the new one, which has a later event time: no
property forbids that, as each page promises its own snapshot only.

### CotStreams

`Read(n)` is `reader.read` returning `n` more bytes, for every `n`; `Deliver`,
`Reject` and `HangUp` are what the gateway does of its own when the buffer holds
a message, cannot hold one, or the client is gone. `TryDecode` is
`try_decode_frame`, on bytes; `ReadEvent` is `_read_one_xml_event`, on pieces of
text, since only the close tag, white space, a declaration and what parses
matter to it. The base of the varint (2^7), its limit (6 groups) and the magic
byte are constants. `PbWire` and `XmlWire` say what a client sends, which
`WireAssumption` asks of the constant `Wire`: any number of messages, which are
payloads of a length that the varint can hold, or events, perhaps with white space
or a declaration before them; and behind the messages anything that no reader takes
for a message, whatever part of it has arrived.

### CotConvert

`XmlToCto`, `CtoToXml`, `PbToCto`, `CtoToPb`: the four conversions, on records
of what they read and write. Numbers and times are named values that the
conversions tell apart: a number that survives two decimals and one that does
not, zero, the sentinel 9999999, a text that is no number; a time with less than
a millisecond in it. `<detail>` is a sequence of elements, the CTO's dict a
function from tags to their nodes; the text of an element is what `strip()`
leaves of it, and none when that is nothing, which is what the dict keeps and the
emitters write. `XmlHop` and `PbHop` are a forwarding and the
reading at the next gateway. `Formats` forwards `CtoInput`: what is read from the
messages `XmlInput` and `PbInput`, and the point graphics of files (`Graphic`). All
that `FormatsAssumption` asks of the messages is that `<detail>` is a sequence of
elements with such texts, and of protobuf what its types give: a number is a number, a callsign
that is not set is none, and the typed submessages are those there are.

### KmzParse and OvlParse

Files are their placemarks or objects, these are the coordinates of each
geometry that the code looks for, and labels are split into what the patterns
look for. `KmzFailure` and `OvlFailure` are the exception that leaves the parser:
its own, which ingestors expect, or another one, which they do not (finding 4).
An archive that yields no KML has one of the causes `kmz_parser.py` catches
(`Expected`: not a zip, no `.kml` in it, XML that is not well-formed) or one that it
does not (`Unexpected`: an archive that `zipfile` refuses to open for another reason,
a member that it cannot read, a declared encoding that `expat` cannot use).
`ovl_to_ctos` catches every exception of its reader, so that only the validation of
a geometry escapes from it.
The tables are copied in full; `FunctionCode` needs no order of them, as a
doctrinal prefix matches whole words only. Names, modifiers, styles, ids and
provenance notes are left out, `lossy_fields` is not. `KmzFileData` and `OvlFileData` are all the
files there can be, of any number of placemarks and vertices; `Formats` takes the
ones of a behaviour from the constants `KmzInput` and `OvlInput`, to which
`MCFormats` gives samples. `Selected` takes the elements of a list at the places
that pass a test, as `SelectSeq` would, of which the provers have no definition.
A function code is a string; `CodesAreSequences` says of strings what TLC knows
and the provers do not, that their prefixes have the lengths they should have.

## 3. The runs

| Run | Question | States (about) |
|---|---|---|
| `capture_faults` | with every failure and a clock that is set back: stored entries are rooted and backed, manifests only grow, acknowledged captures stay | 376 000 (symmetric in calls and payloads) |
| `capture_promise` | with every failure but a failed manifest put: manifests verify, are in capture order, `EvidenceLog` is implemented, calls end | 38 000 |
| `capture_fork` (violation) | does a failed manifest put leave a chain that verifies? | |
| `opstore_run` | order, supersession by newer ingests of the same file and path only, no stuck message; and a client that lists the table gets no row twice and misses none | 185 000 |
| `opstore_stop` | the service while it is stopped, and may fail, crash and miss messages: counters, atomic supersession, history, flush, the stop ends | 16 000 |
| `opstore_split` (violation) | is a row retired only by a *later* ingest? | |
| `opstore_durable` (violation) | is every message that was delivered written before the stop is over? | |
| `inbox_run` | processed means ingested, capture first, once per fault, files that can be read leave, the stop ends | 396 000 |
| `inbox_poison` (violation) | does every ingest end in a move? | |
| `gateway_run` | counters, every route tried, one connection, bounded buffers, no hang | 105 000 |
| `gateway_stall` (violation) | does every message end if a peer stops reading? | |
| `formats_run` | messages out of chunks, tracks over two gateways, KMZ and OVL files: see below | 7 200 |

`formats_run` has six invariants over one set of initial states, of which those
of kind "stream" have behaviours. `MessagesExact`: what was delivered is what the
client sent, each message once it has arrived whole, none missing when the
connection ends, and a client that sends nothing else is not cut off.
`XmlForwardKeeps`, `PbForwardKeeps`: what a forwarded track keeps, at the next
gateway and the one after, and that nothing changes behind those.
`KmzIdentityHonest`: words of an enemy never come out friendly, something
suspected at best as an assumed friend, unless the SIDC of the placemark says
so; and where symbol and affiliation disagree the CTO says that it was inferred.
`FileOutcome`: all of a file in its order or nothing, rings closed and long
enough; another exception than the parser's own is raised for the causes of finding
4 and no others, and `KmzParseError` for those `Expected` and for coordinates that
are no numbers.
`OvlDrawnKept`: vertices are stored as drawn and a shape that is not the
symbol's is flagged.

**Bounds.** Three calls of `capture` over three instants, two of them on one
day: two calls can race on each day, one can be queued across midnight, and a
third sees what the failure of the first two left behind. `MaxTime` bounds the
clock. The operational store has four ingests: one of two CTOs, which a window
can split, its re-ingest, the same file name by another path, and a
stream message; the stop is checked with one file ingested twice, which is what
two batches racing for the same rows need, and a message that does not parse. The
rows, two of one event time with uids in the other order, are listed with one row
to a page, so that every boundary between two rows is a boundary of pages. Three
files under two names cover a replaced file, a wrong signature and an ingest that
raises; `MaxTrouble = 1` allows one crash or one failed move, and `MaxLocked = 1`
one file at a time that cannot be read. Locking is no trouble that is counted: a
file may be unreadable again and again, before it or behind others. The gateway has a datagram next to a
connection with two messages, a TCP destination wanted by two of them and a UDP
destination; `HighWater = 0` makes every buffered message one that `drain`
waits for. The counters need no bound: each call or message happens once.
A byte of a stream has one bit of value next to the one that continues, and a
varint at most three groups, so that payloads of up to four bytes have lengths
of one, two and three groups; up to two messages are followed by
rubbish, a broken or an unfinished one, cut in every way. The samples of CTOs and
files differ from an ordinary one in one or two parts: the code treats parts
independently but where the samples combine them (hae with le and ce; hints with
"Suspected", an explicit SIDC and the default; a geometry with others beside it;
code with vertices).
Every run that can legitimately come to rest (all calls ended, everything
written) says so and does not check for deadlock; liveness properties do the
same work there. `capture_faults` allows every failure and the others restrict
`Fault` only where a property is about what holds without one, or where the
finding shows that it does not hold with it.

**Fairness.** The event loop runs every ready task, so each step of a task
that is enabled is taken in the end (weak fairness; locks are queues, so weak
fairness is enough). MinIO, PostgreSQL and NATS answer one way or another,
through their clients' timeouts: a call's success and failure are
alternatives, and fairness never excludes a failure for good. In `Opstore`, time
passes. In `Gateway`, peers read what they are sent unless `Fault` holds
"stall"; TCP gives no such promise, and `gateway_stall` shows what depends on
it. Nothing makes an unreadable file readable again: `EveryFileLeaves` asks only
that a whole file leaves which can be read from some time on, however long others
cannot. Nobody has to submit, publish, drop a file, stop, crash or switch a route.

## 4. Findings

1. `capture_fork`: `_append_manifest_line` (capture.py:216) leaves the line in
   memory when the put fails, with the tip behind it. The next capture stores
   two entries with the same predecessor and the day no longer verifies.
   `EntriesRooted` shows that this is the worst there is: a tree, never an
   entry without an ancestor.
2. `opstore_split`: supersession works per batch, and a batch is a 200 ms
   window, not an ingest (writer.py:238). The second half of an ingest that
   falls in two windows retires its first half.
3. `opstore_durable`: what is delivered while the stop flushes or drains is
   buffered and never written (opstore/main.py:68).
4. `inbox_poison`: an exception other than the parser's own ends the scan
   before the move (folder_watcher.py:109); the file is captured again at every
   poll and the files after it are never reached. The causes: a ring of three
   points that closes itself, or an OVL object without vertices, which the
   validation of the geometry rejects; a zip archive or member that is corrupt,
   encrypted or of an unsupported kind (kmz_parser.py:357 catches `BadZipFile` of
   the archive only, and 362 and 365 are not guarded); a KML whose declared
   encoding is unknown or multi-byte (LookupError, ValueError; line 389 catches
   `ET.ParseError` only).
5. `gateway_stall`: `drain()` is awaited under the sender's lock without a
   timeout (route_engine.py:112).

Seen while modelling, without a run. Each is in the model as it is in the code,
and the properties are stated around it.

*Uploads and the table.* `api_phase2a.py:98-103` calls `ingest(kmz_bytes=...)`, a
parameter that `ingest` does not have, so an upload ends in a TypeError. The list
hides rows with a `valid_to` (line 164) unless history is asked for, also if it
lies in the future, and every CoT row has one: its stale time.
A re-ingested OVL file never supersedes, as `writer.py:231-235`
looks for the KMZ attributes only.

*Streams.* White space between two events is stripped only from the chunk that
ended the first (listeners.py:95): if it comes later it is captured with the
next event, and an event that begins with an XML declaration then does not parse
and closes the connection. The docstring says that the close tag is found "with
or without whitespace before '>'" (listeners.py:70-71); `</event >` is not
(line 85).

*Forwarding.* A CTO without an altitude is written with hae 9999999 and read back
as an altitude of 9999999 m: `XmlKeeps` accepts it, as nothing says what else the
receiver should see. XML keeps of `<contact>`, `<track>` and `<remarks>`
only what has a field (endpoint, attributes of remarks are lost). Remarks of white
space only are written as an element without text. Protobuf loses an empty `how`,
extra attributes of `<event>`, remarks outside `<detail>`, and reads zero as
unknown; the type it makes up is always a-u-G, so a hostile graphic arrives as
unknown, where XML makes up one with the affiliation. None of this is in the
lossy list except the made-up type, which does not say that the affiliation goes
with it. A graphic without validity times is stale as it arrives. A CTO that is
not a point gets as far as `float(coords[0])` (cot_xml.py:356, cot_pb.py:280)
and raises a TypeError: "geometry_not_point" is never reported.

*Files.* A file that is dropped over one being ingested is moved in its stead and
filed as processed unread (folder_watcher.py:168-172); `ProcessedWasIngested` allows
that for such a file only. A file that cannot be read is logged at each poll and
never moved (154-158). An exception in the parsing of a CoT message is counted by
no counter of the listener (listeners.py:173), and a `close()` of the route engine
that raises leaves NATS open: the model has both, and no property objects, since
nothing says what should happen. An altitude in KML is dropped without an entry in the lossy list. Of a
MultiGeometry the first known child counts, even if it is empty. `_prefix_word`
puts the boundary behind the second alternative only, so that a label "BNDRYX" is a
boundary. `function_code` (ovl/sidc.py:139) removes dashes inside a code too,
where its docstring says trailing ones. An OVL `<POSITION>` without text is
skipped. Suspect, joker and faker are other affiliations in CoT (suspect, friend,
hostile), KMZ (suspect, none, none) and OVL (hostile for all three). The comment
on the geometry fallback (kmz_prefix_table.py:210-211) says that affiliation
stays unknown; the description and the configured default still set it.

## 5. The proofs

Every safety property that a run checks, invariant or action property, is a
theorem, and so is the refinement of `EvidenceLog`: for any number of calls,
messages, files, routes, ingests, placemarks, chunks or elements of `<detail>`, and
from the named assumptions of the module alone, but for the three hypotheses named
below. Where an invariant is not inductive as it stands, TLC checked the
strengthened one on an instance before it was proved.

| Module | Theorem: property | Inductive invariant |
|---|---|---|
| `CaptureChainProofs` | `Typing`: `TypeOK`; `Rootedness`: `EntriesRooted`; `Backing`: `LinesBacked`; `NothingReturnedIsLost`: `ReturnedRecorded`; `ManifestGrows`: `AppendOnly` | `IInv` |
| | `ChainsVerify`: `ChainVerifies`; `Implements`: `IsEvidenceLog` (no failed manifest put) | `VInv` |
| | `CapturesInOrder`: `CaptureOrder` (no clock set back) | `OrderInv` |
| `GatewayProofs` | `Typing`: `TypeOK`; `NeverTwoConnections`: `OneConnection` | `IInv` |
| | `BoundedBuffers`: `BufferBounded` | `BufferInv` |
| | `RoutesAddUp`: `RouteAccounted`; `ListenersAddUp`: `ListenerAccounted` | with `IInv`, as they stand |
| | `AllRoutesTried`: `EveryRouteTried` | `TriedInv` |
| `InboxProofs` | `Typing`: `TypeOK`; `CapturesFirst`: `CapturedFirst`; `ProcessedIngested`: `ProcessedWasIngested` | `IInv` |
| | `IngestsCounted`: `IngestedOnce` | `WeightInv` |
| `OpstoreProofs` | `Typing`: `TypeOK`; `RetiredWithItsSuccessor`: `RetiredByStored`; `HistoryGrows`: `HistoryKept`; `CountersAddUp`: `Accounted` | `IInv` |
| | `StopFlushes`: `StopFlushesBuffer` | `OnceInv`, `PledgeInv` |
| | `KeptInOrder`: `NoOvertaking`; `RetiredByNewer`: `NotRetiredByOlder` (no stop) | `OrderInv` |
| `QueryApiProofs` | `ListDescends`: `PagesDescend`; `ListIsComplete`: `PagesComplete` | `ListInv` |
| `FormatProofs` | `MessagesAreExact`: `MessagesExact` | `StreamInv` (`StreamProofs`) |
| | `XmlForwardingKeeps`: `XmlForwardKeeps`; `PbForwardingKeeps`: `PbForwardKeeps` | none: the CTO does not change |
| | `KmzIdentityIsHonest`: `KmzIdentityHonest`; `FileOutcomeIsRight`: `FileOutcome`; `OvlDrawnIsKept`: `OvlDrawnKept` | none: the file does not change |

**The hypotheses.** `"manifest" \notin Fault` is what `capture_fork` shows to be
needed. `"clock" \notin Fault`: `captured_at` is the time of the host, and one
that is set back puts a later capture before an earlier one. `"stop" \notin
Fault`: from the stop on, the thread of the cancelled flush loop and the batches
of `_flush_all` write at the same time, and the later may commit first. A system
in which the fault does not happen is one that the code can be; no theorem has
any other hypothesis, and all other faults are allowed.

**The evidence chain.** None of the properties is inductive, since what is
stored depends on what the process holds in memory. `IInv` adds

- `LockInv`: a call is in the critical section exactly when it holds the lock;
- `QueueInv`: every call in the queue is waiting, and is there once;
- `HolderInv`: what the call in the critical section may rely on at each step:
  the loaded day is its own, its entry was made from its argument and the tip
  in memory, is the last of `line` once the object is stored, and `line` is what
  is stored once the put took effect;
- `LineInv`: the lines in memory extend what is stored for the loaded day, they
  are rooted and backed, and the tip is Genesis or the hash of one of them;

to `EntriesRooted`, `LinesBacked` and `ReturnedRecorded`. `Invariance` proves it
with a step per action and, below it, one per conjunct that the action disturbs.
`ManifestGrows` follows, as the only step that changes a manifest replaces it by
`line`. `VInv` adds `TipInv`, which a failed manifest put breaks: between two
puts `line` is the stored manifest and the tip is its tip, and before a put it is
longer by the one entry made from that tip. The refinement maps `stored` to
`recorded`, `returned` to `confirmed` and every exception or crash to `Reject`,
and each step to a step of `EvidenceLog` or a stutter. `OrderInv` is about time:
what is recorded, in memory or stored, is no later than the call that holds the
lock, that one no later than those in the queue, these in order, and all no later
than now. It needs the lock to be first come first served.

**The gateway.** `IInv` says where a message can be (`PlaceInv`), that who waits
for a lock is in its queue and who is past it holds it, and the other way round
(`LockInv`), the same for the shutdown (`CloseInv`), and that nobody else opens a
connection between the look for one and `open_connection` (`ConnectInv`); so two
connections to one destination would take two holders of one lock. `BufferInv`: a
buffer past the limit has a message that waits in `drain()`, holding the lock.
The counters are sums over messages: `RoutingStep` and `CountingStep` list, once,
what each kind of step does to a message and to the counters. `TriedInv` counts
the messages that are *past* a route, and so follows the router on its way. The
proof of the type invariant failed at first: nothing kept the `Closer`, the
shutdown in a queue for a lock, from being a message or the free lock. The
assumption of `Gateway` now says so.

**The folder watcher.** `IInv` adds what the task holds at each step: while it
ingests, the bytes of a file of the name at hand, which may be replaced but not
moved; while it publishes, a whole file, captured. `UsurpInv` is about a file that
took such a place: while ingest holds a file's bytes, that file is none, and who has
its name is that file or one of them; so the move after it files what was gone
through, or one that took its place. `WeightInv` gives each file
its number of ingests, less one when it is gone: an ingest that repeats one is
then paid for by the failed move or the crash that left the file in the inbox.

**The operational store.** `IInv`: there is a window for each buffer that is not
empty, each key in one, and what the loop still has to flush are the oldest
(`WindowInv`); a batch has the CTOs of one key (`KeyInv`), so that its first may
speak for all as in `write_ctos_with_supersession`; and what a batch in the
middle of its transaction will retire are stored rows of its file and path
(`JobInv`), which is why two transactions racing for the same rows do no harm.
`OnceInv` (a message is at one place only) and `PledgeInv` (what was buffered at
the stop is, until the flush is over, under a key still to be flushed) give the
flush at the stop, with messages arriving meanwhile. `OrderInv`: nothing in the
inbox is older than what is in a buffer, a batch or the table, and so on, place by
place. `HistoryKept` is proved as an action property, from `RetiredInv`.

**The listing.** `ListInv`: a row that was current at the first page is
listed, retired, or lies behind the cursor with more pages to come. The step of a
page needs that the rows after the cut lie behind the last of the page
(`PageCuts`); a step of the store needs `HistoryGrows`, that a row once retired
stays so. The library sorts with an operator that TLC overrides and of which the
provers have no definition: the page is therefore *any* arrangement in the right
order, of which there is one, as no two rows have the same event time and uid.

**The files.** No step changes the file, so these are theorems about the pure
operators, for each file of `KmzFileData` or `OvlFileData` whatever its length.
`SelectedTakes`: a selection has elements of the list only, from places that pass,
in their order; hence the order of the CTOs, and that vertices and rings are those
drawn. `RingsAreClosed` and `RingCases`: a ring too short for PostGIS is one of
three points of which the last is the first. `PlacemarkRight`: a placemark has no
geometry, one of the two exceptions, or a geometry that PostGIS takes; the
exception of the file is that of its archive, or of its first placemark that has one
(`FailureCases`), and a placemark raises the parser's own only for coordinates that
are no numbers (`BadCoordinates`).
`EntryDecides`: what `ClassifyGeometry` finds by its greatest prefix is the one
longest entry that the code begins with; with the tables disjoint
(`ClassesDisjoint`) the conflict is flagged for exactly the right shapes.

**The streams.** `StreamInv`: what is delivered are the first messages, the buffer
begins where the next one does or in the white space before it (`BufferBegins`; the
reader takes along what has come of that white space when it cuts the message
before it, and no more), it ends where reading has come to, and a connection is not
closed while a whole message waits (`ClosedInTime`). So a step rests on what a
reader makes of each part of what comes next, which is shown without the stream: no
beginning of a frame is a frame or an error, a whole one is read with its own
length, and nothing behind it matters; the same for an event, with the exception
that `Spaced` names. Below that are the varint, whose groups come back as the
number however many there are, and `Start`, the lengths of the messages added up.

**The conversions.** No step changes the CTO, so these are theorems about the pure
operators. `ForwardedAreOk`: whatever is read of a message or file is `CtoOk`, which
says of its parts what they can be: none is a text that `float` rejects, the affiliation
and dimension are those of the type if there is one, and each list of a `<detail>` has
elements of its own tag. `XmlHopFields`
and `PbHopFields` say what each part comes back as; that it is `CtoOk` again carries
the argument over to the next gateway. The hard part is `<detail>`: `EmitDetail`
puts the lists of the tags one behind the other, in the order of a dict, and
`DetailRead` shows that the reader has the same lists again, since the elements of a
tag lie next to each other (`FlattenPlaces`) and a selection of neighbours is that
part of the list (`SelectedPart`). XML adds elements for the fields in front, so
that `contact`, `track` and `remarks` are found there first. `XmlSettles` is about a CTO
that comes from XML, whose fields and `<detail>` say the same (`FromXml`), and so about
what has gone through one gateway; `PbSettles` needs no such step.

**Induction.** The provers cannot use the library's induction theorems. What
needs induction over a finite set here, sums above all, is proved by a smallest
counterexample (`SmallestSubset` of `DataFacts`): of the subsets for which the
claim fails take one with none inside, and remove an element. For that a sum has
to have a finite domain: `Opstore` assumes that there are finitely many keys,
which is no restriction on a process that has run for a finite time. `PresentUpTo`,
which lists the directory, `Varint` and `Selected` are functions on numbers for the
same reason: that the loop is defined, and what it has collected so far, is shown by
the least round for which it fails (`SmallestElement`). Library operators on
sequences that are defined by recursion (`FlattenSeq`, `FoldRight`) are reached in
the same way, through the recursive function inside their definition.

**Model-checked only.** Liveness, which is out of the prover's reach:
`EveryCallEnds`, `EveryMessageSettles`, `StopEnds` (of both services),
`EveryFileLeaves`, `EveryMessageEnds`, `ShutdownEnds`. No theorem follows from the
five violation runs: what they show is a behaviour.

No module has a RECURSIVE operator.

## 6. Not modelled

- The upload (`POST /ingest/kmz`), which cannot succeed as it is written, and
  `GET /cto/{uid}`, one SELECT.
- The mapping of a CTO to columns, `orm.py`, `uuid7.py`, the migrations and the
  container files: declarations and SQL text. What they reject appears as
  malformed messages and failed batches.
- Reading and validating `routes.yaml`, settings, logging, `/health`, `/ready`.
- `kmz_watcher.py`, which `folder_watcher.py` replaced and nothing imports.
- The operator tools, which are clients of what is modelled.
- Of the formats: the horizontal position, names, ids, styles and modifiers,
  which are copied; regular expressions and number formats below what the
  properties tell apart; the XML, zip and protobuf libraries.

`PROJECT.json` has the note for each.

## 7. Plan

Done: every module of section 2, and the theorems of section 5, which state all
the safety properties that the runs check. Left, in this order:

1. *Composition.* `Inbox` and `Gateway` against `EvidenceLog` in place of their
   capture step; `Inbox` as the publisher of `Opstore`, so that the assumed
   publication order becomes a result.
2. *The hazards without a property*, whose notes in `PROJECT.json` say what a model
   would have to add: a counter of what raised, a close that must reach NATS,
   datagrams without a limit.
