# bishlink in TLA+

bishlink is a daemon that tunnels packets of local helper processes between
peers over multipath QUIC. A daemon listens, or dials other daemons, or both;
helpers such as `tund` (a TUN device) connect to it through a Unix socket and
register a *track*; daemons subscribe to each other's tracks and exchange
*objects*, either on reliable QUIC streams or in datagrams protected by forward
error correction (FEC) and NACKs.

This directory holds TLA+ models of the daemon's own logic, the TLC
configurations that check them, and TLAPS proofs of the safety properties of
every model. QUIC, TLS, the erasure codecs and the path optimizer are libraries (`deps/`) and are
modelled from how `src/src` uses them.

## Inventory

| component | code | state | operations | interacts with |
|---|---|---|---|---|
| frame assembler | `transport_quicly.c` `on_receive_datagram_frame`, `send_nack` | ring of 16 frames per connection | receive symbol, evict, ask for missing symbols, decode, raise OBJECT / OBJECT_LOST | sender (datagrams, NACKs), subscription table, daemon callback |
| datagram sender | `transport_publish` (unreliable branch), NACK branch of `parse_control_messages` | ring of 32 sent DATA objects | publish, retransmit | assembler, path optimizer |
| FEC codecs | `fec.c`, `get_cached_fec` | codec contexts, LRU of 8 | create, encode, decode | sender, assembler |
| subscription table | `find_*`, `add_subscription`, `transport_subscribe` | 32 entries per connection end: track, alias, stream | look up both ways, add, remove | everything that names a track |
| control plane | `parse_control_messages`, `transport_send_auth`, `transport_respond_auth`, `main.c` callback | authenticated flag, control stream | AUTH, AUTH_COMPLETE, SUBSCRIBE, unicast object, close | subscription table, daemon |
| reliable streams | `transport_publish` (reliable branch), `parse_track_stream_messages` | one stream per table entry | publish, receive | subscription table |
| packet grouping | `transport_publish` (first part), `flush_fec_buffer`, `transport_tick`, `main.c` | one buffer, its track, its age | add, flush, time out, take apart | data socket, sender |
| data socket | `data_uds.c` | 16 client slots | accept, read, send | helpers, daemon |
| tund | `tund.c` | one socket, one device | connect, register, forward both ways | data socket |
| interface monitor, links | `ifmon.c`, `on_ifmon_update`, `transport_tick` | interface lists, up to 4 sockets | diff, notify, open and close sockets | watcher thread, tick |
| telemetry, path choice | `on_receive_datagram_frame`, `transport_tick`, `transport_publish` | delay and loss estimates per path | sample, average, spread symbols | pathflow |
| connection table | `transport_tick` | up to 32 connections | accept, free | quicly |

What is hard here: datagrams are lost and reordered while NACKs are not;
symbols outlive the frame they belong to; both ends allocate aliases; track
streams overtake the control stream; helpers are separate processes that may
stall or exit anywhere inside a frame; one grouping buffer serves all helpers;
every cache is a small ring. `PROJECT.json` lists these hazards line by line.

## Modules

**`FecCodec`** - which codec the publisher, the retransmitter and the receiver
each choose for a block, and what `fec_decode` may answer. Reed-Solomon recovers
a block from any `data` symbols; RaptorQ needs a repair symbol for each dropped
one and may still fail, so its answer is nondeterministic.

**`FecDatagram`** - the symbol datagram. An object stands for its key (alias,
group, object id); a symbol's bytes are abstracted to "the bytes of object o".

**`FrameAssembler`** - `on_receive_datagram_frame`. A frame records which
symbols arrived (`mask`) and whose bytes each buffer holds (`buf`), because
buffers are reused uncleared. `ReceiveResident` and `ReceiveFresh` are the two
outcomes of the ring lookup; `AbsorbSymbol` is the rest of the handler: store,
NACK, decode, raise. `allocs` is a history variable that counts residencies.
What the handler turns away before it looks for a frame (a server before AUTH,
an alias that does not resolve, a bad size) changes no state: `LoseDatagram`
stands for it, and the model's objects are those whose alias resolves. Telemetry
datagrams, the other kind it receives, are not modelled. `send_nack` sends
nothing without an open control stream, while `nack_sent` is set all the same;
that does not happen: a client opens the stream in `transport_create`, a server
has it when the peer is authenticated, which the datagram checks require, and a
reset or STOP_SENDING of it closes the connection.

**`DatagramSender`** - publishing a block with 0 or more parity symbols, the
sent cache and the NACK handler. Parity is any number the optimizer could
return, up to `MaxParity`, under the code's own rules (none for one symbol or
without FEC, else at least one).

**`FecLink`** - composes both over a network that loses and reorders
datagrams; NACKs travel in order on the control stream.

**`ObjectService`** - what the receive path promises its application, without
symbols, rings or NACKs: an object is taken up, raised and remembered, or
reported lost when it is forgotten half way; at most one object is forgotten for
a new one. `FecLink` instantiates it (`Service`): `pending` and `remembered` are
the objects of the undecoded and the decoded frames in the ring, `raised` and
`reported` the OBJECT and OBJECT_LOST events. `ImplementsService` is its
specification as a property of the link: sending, losing, retransmitting and
storing a symbol that completes nothing are stuttering steps.

**`Subscriptions`** - the table as pure operators: lookup, insertion, alias
allocation, and what a sequence of `transport_subscribe` calls leaves behind.

**`Session`** - the listening daemon and its clients: handshake, token,
subscriptions from both sides, reliable objects on streams of their own, close
and idle timeout. Refusing a token writes an answer and closes the connection at
once; quicly then sends only the close, so the client never reads that answer.
The control stream is known to the server from its first bytes (`StreamOpened`),
before the token in it is whole, so the SUBSCRIBEs that another client's AUTH
sets off also go to peers not yet authenticated. Clients follow the protocol:
none sends a SUBSCRIBE or a NACK before it is authenticated.

**`TrackStreams`** - one reliable track that both ends publish on. The table
entry remembers one stream; the alias byte of an incoming stream
(`ReceiveHeader`) puts that stream in its place, and the next object then opens
a new one. A stream is the objects written and how much the peer has parsed;
streams are read in any order relative to each other, and only the first
`MaxStreamsUni` are ever sent, because no stream ends and so no credit returns.
`Egress` counts the buffers `transport_is_track_ready` looks at.

**`FecGrouping`** - helpers' packets, the grouping buffer, `fec_track_id`, the
two id counters, the 3 ms loop, and `on_transport_event` at the peer. `subs`
holds the flags of this daemon's table entries for every peer: its own
subscription makes them (`SubscribeToTracks`), the peer's SUBSCRIBE makes or
overwrites them (`PeerSubscribes`), and `UseFec` reads those of all peers. The
peer takes an object apart by the flags it raises it with: FEC for a datagram,
those of its own entry for a stream (`EntryFlags`), which is the publisher's
SUBSCRIBE where there is one. The transport between is any-order and lossy;
`KeySeen` is what the assembler does with a key it has decoded.

**`DataUds`** - the daemon's data socket and helpers that behave like `tund`.
Frames are written piece by piece into buffers with `Room` pieces, so every
partial read and write happens. The daemon is one thread: while a send blocks
nothing else in it moves. Writing to a helper that is gone raises SIGPIPE, which
ends the daemon (`running`). A reader that is out of step reads `Parts` pieces
that do not belong together: the garbage length it would really see is
abstracted to that.

**`IfMon`** - the monitor thread on Linux: wait for an announcement, empty the
socket, ask for the links, ask for the addresses, compare (`GenerateUpdate`),
report. The kernel may change its tables between any two of these steps, and a
request may fail or be cut short, with any part of the reply missing. `blind`
remembers that the last list predates the event socket or went wrong.

**`Links`** - composes `IfMon` with `on_ifmon_update`, the non-blocking pipe and
`transport_tick`: a full pipe drops the message; an added address opens a socket
if there is room, the side test passes and `bind` succeeds, which it may refuse
even for an address that is up; a removed one closes the first socket bound to
it and moves the arrays up. Descriptors are the kernel's, lowest free first, so
that a stale one can be told from a live one. `diverged` collects the addresses
whose links the code stops following: not bound at start-up, of an interface that vanished
(`update->removed` is never read), or turned away by the pipe, the limit, the
side test or `bind`.

The operators introduced by a comment "Mutant:" are deliberate faults; the
models do not use them. `PROJECT.json` names the property each one breaks when
it replaces its original.

## Runs

| run | question | result |
|---|---|---|
| `fec_eviction` | one slot, two objects, losses, reordering: do reused frames stay clean, are drops reported, do frames that can decode do so, are NACKs bounded, and does the link implement `ObjectService`? | holds |
| `fec_live` | can an object occupy two slots, do the three codec choices of a block agree, and is a DATA object of two or more symbols delivered although a datagram is lost? | no; yes; yes, as long as the rings do not wrap |
| `fec_lost_event` | is OBJECT_LOST raised only for objects that were not recovered? | no: a late symbol re-creates the frame of a delivered object |
| `session` | are objects only accepted from authorized clients, do both ends agree who is authenticated and what an alias means, the unnamed track included, and do both ends learn all tracks? | yes, or the connection closes |
| `session_publish` | are objects only sent to subscribers? | no: a client sends any reliable object as unicast data, also before it is authenticated, which makes the server close the connection |
| `grouping` | are packets of one track conserved, kept in order and released in time; are they taken apart as they were grouped, and are object ids fresh? | yes; the last two for a peer whose entries all ask for FEC, whatever the other peers ask for |
| `grouping_tracks` | does a packet stay on its track? | no: `fec_track_id` is that of the first packet in the buffer |
| `uds` | do upstream packets survive slow and vanishing helpers, does the client table match the open descriptors, is a dead client's slot freed? | yes, the last if its track is ready again and again |
| `uds_framing` | do helpers read the blocks the daemon wrote? | no: a send that times out leaves a partial block |
| `links` | do link arrays and open sockets agree, does every datagram leave by an open socket, do pipe and monitor account for every link, and do the links follow the addresses? | yes, for the addresses that are not `diverged`; the last once an announcement follows start-up or a failed list |
| `streams` | how many streams does a two-way track use, is its backlog bounded, is one-way traffic in order, does everything arrive? | one per change of direction; yes; yes; yes, while there is stream credit |
| `streams_stall` | does everything arrive when the credit runs out? | no: streams are never finished, and after `max_streams_uni` changes of direction the track is stuck |

Each "no" is a finding in `PROJECT.json` with the line of the code and the
sentence of the repository it disagrees with. Two more disagreements are outside
what `grouping` claims: a peer whose entries ask for a *reliable* track is sent
the packets of an unreliable helper raw, in datagrams, and takes their first
bytes for a length; and it is sent objects of both counters, so that it may drop
one as already decoded. `ForwardedWhole` and `ObjectIdsFresh` hold of the peers
that ask for FEC (`FecPeer`); the hazards list says where the others are bitten.

### Bounds

- FEC: blocks of at most 3 symbols (2 data, 1 parity). `fec_eviction` and
  `fec_lost_event` have `RSMax = 3`: every block with parity is Reed-Solomon, so a
  lost symbol is made up by parity and decoding is due at exactly 2 symbols.
  `fec_live` has `RSMax = 2`: a DATA block with parity is RaptorQ, whose decoder
  may fail, and the three codec choices meet at their boundary. Rings of 1 slot
  (every new object evicts) or 2 (none does) with 2 objects; one loss; at most two
  residencies per object
  (`MaxResidencies`). A frame asks once and decodes at a threshold, so 2 data
  symbols already separate "half", "all data" and "enough". `MaxSymbols` is 256
  in the code: above it the NACK message and the receiver's missing mask exceed
  their arrays, which is outside the model.
- Session: two clients, one of them with a wrong token; the server's list has one
  track, the clients' have that one, one more and the unnamed track, whose alias
  is built in, so that both ends allocate aliases. At most `MaxQueue` messages
  wait before a publisher queues another, and at most `MaxObjects` reliable
  objects are in flight per direction when one is published: one is enough to
  overtake every SUBSCRIBE. The daemon admits at most 15 tracks per side, so the table of 32
  never fills; `SessionAssumption` states that. Flags of a track are not part of
  this model, and neither are messages 0x02, 0x06 and 0x07, which no code in
  `src/src` but an API nobody calls sends.
- Grouping: two peers, one with `--reliable`; one track, to which this daemon
  subscribes as well; a reliable and an unreliable helper. 3 packets, groups of 3,
  two sizes chosen so that count and size each close a group; a round takes 3 ms
  (in `grouping_tracks` 3 or 4, with 4 packets and two tracks). Packets are shorter than 65536 bytes (tund's are at most 2048).
- Data socket: 1 slot, 2 connections of one helper, packets for its track
  and for another, frames of 3 pieces, buffers of 3.
  Track names fit their 64-byte field. Registrations are read whole or not at
  all, as the 10 ms timeout makes it.
- Links: two interfaces; four address entries, of which two are one address with
  two prefixes and one is IPv6; two paths (the code has 4), so that the limit
  is reached; a pipe of one message, so that it overflows; three kernel changes
  and one failing request. Two changes make an address move or change its
  prefix, the third interferes with the reading of either.
- Streams: three objects per end. `MaxStreamsUni` is 3, which three objects
  cannot exhaust, or 1, which a second change of direction does (100 in the
  code); `EgressLimit` is 4 (256 in the code), which two objects exceed.

Deadlock is not checked: publishing is bounded, connections end and a killed
daemon stops, so all models may come to rest.

### Fairness

- `FecLink`: `transport_tick` runs for ever, so what the network does not lose
  is received and NACKs are processed (weak fairness of each). Losing a datagram
  is never fair.
- `Session`: streams are reliable and both loops run (weak fairness of reading a
  control message, and of noticing a close). Connecting, publishing and timeouts
  are not fair.
- `DataUds`: the loop polls every client again and again, so a client that is
  readable infinitely often is read (strong fairness of `ReadClient`: the track
  may be blocked in between), and a send ends. That congestion goes away is not
  assumed: `SlotReclaimed` speaks of clients whose track becomes ready again and
  again, and `streams_stall` shows one that does not. Helpers owe nothing.
- `Links`: the watcher thread and the daemon's loop run for ever (weak fairness
  of each). The kernel owes no change and no announcement: `LinksFollow` is
  about what holds once changes stop.
- `TrackStreams`: quicly retransmits until the data of a stream within the
  credit has arrived (weak fairness of `Receive` for each stream). Nobody owes a
  publication.

## Proofs

Every invariant the passing runs check, and the refinement `ImplementsService`,
is also a theorem: TLC shows it on the bounded instance, TLAPS for every value
of the constants the named assumptions admit. Each proof module extends the model it is about; `PROJECT.json` lists the
theorems with the properties they state. In each, an inductive invariant holds
initially, is kept by every action (one lemma per action), and implies the
properties.

### FEC data path

`FecLinkProofs` proves, for every ring size, cache size, block size, codec limit
and number of objects, and for any bound on losses and residencies, that `FecLink` satisfies

- `TypeOK` (`TypeCorrect`), `DeliveredIntact` (`DeliveryIntact`), `UniqueFrame`
  (`FramesUnique`), `DeliveredOncePerResidency` (`OncePerResidency`),
  `NoSilentDrop` (`DropsReported`) and `NoStuckFrame` (`FramesDecode`).

They follow from the inductive invariant `IInv` (`Invariance`). None of the
properties is inductive on its own:

- `DeliveredIntact` needs to know that every *marked* buffer of a frame holds
  the bytes of the frame's object and that the frame's geometry is its object's
  (`FrameOK`), and that only symbols of published objects, within their block,
  are in flight (`NetOK`). With `CodecAgreement` (publisher, retransmitter and
  receiver choose the same codec) a decode then reads one object's bytes only.
- `NoStuckFrame` needs `received_count` to be the size of the mask, which
  `FrameOK` says; finite-set facts come from `FiniteSetTheorems`.
- `DeliveredOncePerResidency` needs `CountOK`: deliveries are at most the
  residencies, and one less while the object sits undecoded in the ring, which
  in turn needs `UniqueFrame`.

The proof has one lemma per action (`PublishKeeps`, `LoseKeeps`, `NackKeeps`,
`DeliverKeeps`); the long one, `DeliverKeeps`, rests on `AbsorbOutcome` (what one
packet does to a frame) and `SlotStepKeeps` (what replacing one slot does to the
ring). The assumptions are those named in the modules: positive ring sizes,
`None` not an object, `MaxData + MaxParity <= MaxSymbols`.

### The link implements its service, and retransmission is bounded

`FecLinkServiceProofs` builds on `IInv` of `FecLinkProofs`.

- `LinkImplementsService`: initial states map to initial states, and each step of
  `FecLink` is a step or a stutter of `ObjectService`. Only receiving a symbol
  moves the abstract state; `SlotStepMaps` says what replacing one slot of the
  ring does to `pending` and `remembered`, and `UniqueFrame` is what makes the
  two sets disjoint. Each outcome of `AbsorbOutcome` is then one abstract action.
- `TrafficBounded` (`RetransmissionBounded`) is not inductive: a NACK on its way
  is a copy yet to come. `Budget` counts both together, copies in flight plus
  waiting NACKs, against the publication and the residencies so far, and leaves
  one unit to a frame that has not asked yet.

### Reliable streams

`TrackStreamsProofs` proves, for every stream credit, backpressure limit and
number of objects, that `TrackStreams` satisfies `TypeOK`
(`StreamsTypeCorrect`), `OneStreamPerTurn` (`StreamsPerTurn`), `InOrderOneWay`
(`OneWayInOrder`) and `BacklogBounded` (`BacklogStaysBounded`). The inductive
invariant adds two parts:

- `Turns`: an end without a stream of its own in the entry has no more streams
  than it has heard of. `OneStreamPerTurn` alone does not say that the stream a
  displaced end is about to open is accounted for; `ReceiveHeader` makes the
  heard set grow by exactly the stream that displaces.
- `Order`: up to the first stream heard, an end's only stream holds everything it
  published, and the peer raised exactly what it parsed. That there is only one
  stream then follows from `Turns` (`OnlyStream`).

`BacklogBounded` is inductive with `TypeOK`: the end adds one object's two buffers to
a stream only while that stream is ready, and parsing only lowers the count.
`HeardFacts` and `ParseFacts` say what a parse step changes, `WriteFacts` what a
publication does; there is one lemma per action. The assumption is
`TrackStreamsAssumption` (natural limits, the backpressure limit not zero).

### Session

`SessionProofs`: `TypeOK` (`SessionTypeCorrect`), `AcceptedOnlyAuthorized`
(`AcceptedAuthorized`), `AuthAgreement` (`AuthAgreed`), `AliasAgreement`
(`AliasesAgree`) and `ObjectsResolve` (`ObjectsResolved`), for any number of
clients and any track lists that fit the table. Agreement between two tables
that each end fills by itself cannot be shown by comparing them step by step:
messages that will change either are under way. `ConnOK` therefore names one
`Master` table per connection (the server's until the client is authenticated,
from then on the client's, which allocates above the server's aliases) and says
that both tables, the SUBSCRIBEs in both directions and the objects in flight
agree with it (`TablesOK`). That the client's table can take over needs
`Announced`: `auth_ok` comes after SUBSCRIBEs of all the server's tracks.
`ServerStage`, `ClientStage` and `AuthOK` say what each end has done by then.
The assumption that the two track lists have at most 247 entries keeps one-byte
aliases from wrapping; the daemon admits 15 each.

### Grouping

`FecGroupingProofs`: `TypeOK` (`GroupingTypeCorrect`), `Conservation`
(`PacketsConserved`), `HeldOneRound` (`GroupsHeldOneRound`) and
`GroupWithinLimits` (`GroupsWithinLimits`), for any helpers, peers, sizes and
limits. `Conservation` is stated about `Batches`, the objects' packets followed
by the buffer, because a flush only moves the border between them. Two more are
about the peers whose entries for a track ask for FEC, in any company:
`ObjectIdsFresh` (`FecPeerIdsFresh`) and `ForwardedWhole`
(`FecPeerForwardsWhole`). Both rest on `Routed`: while such a peer is subscribed
its entry alone makes `UseFec` true, so it is sent groups only, numbered by one
counter. That needs `Asked`: a FEC peer's entries, whoever's SUBSCRIBE made them,
never ask for anything else. The invariant further adds `Numbered` (each of the
two counters is ahead of the ids it gave out) and `Filling` (a buffer that is not
empty has a track).

### Data socket

`DataUdsProofs`: `TypeOK` (`UdsTypeCorrect`), `SlotsMatchDescriptors`
(`DescriptorsHaveSlots`) and `UpstreamInOrder` (`PacketsInOrder`), for any number
of slots, connections, frame lengths and buffer sizes. `UpstreamInOrder` needs
`Framing`: what is in a connection's buffer, with the piece the helper writes
next, starts at a frame's first piece and runs through whole frames, starting
with the packet after those handed on. Every partial read and write keeps that.

### Links

`LinksProofs`: `TypeOK` (`LinksTypeCorrect`), `LinksMatchSockets`
(`SocketsMatch`), `SendsOnOpenSocket` (`SendsOpen`) and `Mirrored` (`LinksMirrored`), for any number of paths,
interfaces and addresses and any size of the pipe.

- `LinksMatchSockets` is inductive with the types; that a free descriptor is left
  while there is room for a link is a counting argument (`FreeDescriptor`), and
  `ShiftFacts` describes the arrays closing up.
- `Mirrored` needs more than the balance it states, because a removal that finds
  no link would upset it. `Balanced` says of every prefix of the messages under
  way that it removes no more links than there are and it adds. The callback's
  messages are counted by `UpdateCounts`: those for new and changed interfaces
  make up the difference between the two lists, unless an interface with the
  address vanished.

### Shared lemmas

`DataLemmas` has what these proofs need of numbers, sets and sequences. The
library's induction theorems take an operator as a parameter, which the
installed provers cannot instantiate, so induction is stated about a set of
numbers (`SetInduction`, `BoundedInduction`), from the existence of a least
element; `IterationExists` and `FlattenSeqStages` then give the values of a
recursive function, `CountConcat` and `FlattenCount` count entries of sequences,
and `MinIsLeast` and `SetToSeqFacts` characterise library operators defined with
CHOOSE.

### Assumptions

All are ASSUMEs of the models, evaluated by TLC on every run: natural limits and
positive sizes; tables and lists of the right type; placeholders (`None`,
`NoSock`, `NoTrack`, `Closed`, `Garbled`) that are not values; finitely many
interfaces and addresses; `MaxData + MaxParity <= MaxSymbols`; at least three
pieces per frame; and the bound on track lists above.

### Only model-checked

Liveness (`EventuallyDelivered`, `EventuallyMeshed`, `SlotReclaimed`,
`LinksFollow`, `EventuallyRaised`): the prover handles neither fairness nor
ENABLED. The violations are counterexamples TLC finds.

## Not modelled

- Interface monitor: the BSD and Windows listings, hardware addresses, the caps
  of 16 interfaces and 16 addresses, stopping the thread, the mock interface
  events of the tests. Interfaces that `is_iface_allowed` refuses are not in
  `Ifaces`.
- Links: `quicly_open_path` (a library call after a socket was opened) and
  `bind_to_device`.
- Path telemetry: delays, averages and loss, and the spread of symbols over paths,
  which the external pathflow solver decides. The averages mix links: a slot of
  `path_states` takes the statistics of `find_path_index_by_link`, path 0 for an
  IPv6 or unmatched link, and the delay in `latest_owd_fp`, which is written by
  QUIC path id. Only the weight of a path depends on them, so nothing is claimed.
- Connection table: its limit of 32 and the order of the array; accepting and
  freeing are part of `Session`.
- The arena and the cache of codec contexts: sequential allocation whose state
  no other component observes.
- UNSUBSCRIBE, STOP_SENDING and stream resets: no code of the daemon sends them.
- TLS set-up, qlog and the socket portability layer carry no logic of their own.
  `deps/` is third-party code; `examples/` are benchmarks.

## Plan

Modelled so far: the FEC data path with its abstract service, the session, the
reliable streams, the grouping buffer, the data socket, the interface monitor
and the links; every safety property of them is proved. Next:

1. The control stream as bytes: the clamped NACK that leaves indices behind.
2. Proofs of what the violation runs leave true: `grouping_tracks` and
   `uds_framing` fail in one way each, and the weaker property that holds
   (packets stay on their track while one helper sends; blocks are whole until a
   send times out) is not stated yet.
3. The connection table and the codec cache, if a question about them turns up
   that a unit test would not answer.
