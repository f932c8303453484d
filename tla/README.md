# A verification model of z-torrent

TLA+ modules, TLC runs and TLAPS proofs about z-torrent, a streaming BitTorrent
client in TypeScript. Paths below are relative to the repository root.

## 1. The system

z-torrent runs on one JavaScript thread (Node, Bun or a browser). A callback
(an event handler, the answer of a wire, a timer, a promise continuation, the
call-back of the store) runs to its end; callbacks of different sources
interleave freely, and everything read before an `await` or a callback may have
changed after it. That is the concurrency this project is about.

| component | state | operations | talks to |
|---|---|---|---|
| download engine (`packages/core/src/lib/torrent.ts`, `packages/utils/src/piece.ts`) | a `Piece` object per index (buffer, reservation mark, cancelled blocks), bitfield, wires, flags | verify at start-up, update, request, answer, hash, put, done, idle, serve, destroy | wires, web seeds, chunk store, selections |
| wire protocol (`packages/protocol/src/index.ts`) | outstanding requests in both directions, choke and interest flags, piece timer; parsers and keys of the handshake | request, cancel, piece, reject, choke, timeout, end; the plain and the encrypted handshake | the peer's wire, the engine, the pool |
| interest, choking, rarity (`torrent.ts`, `rarity-map.ts`) | what each peer has, interest, upload slots, piece counts | bitfield, have, choke, rechoke, close | wires, engine |
| selections (`packages/core/src/selections.ts`) | a list of piece ranges | insert, remove | engine, readers |
| file readers (`file.ts`, `file-iterator.ts`) | current piece, claim on a range | next, return, destroy | selections, engine ('verified'), store |
| HTTP servers (`server-base.ts`, `node/lib/server.ts`, `browser/lib`) | requests, connections, message ports | request, stream, close, destroy | readers, client |
| web seeds (`webconn.ts`) | block requests, their HTTP fetches, retry timers | a wire whose peer has every piece | engine |
| peers, connection pool (`peer.ts`, `conn-pool.ts`, `torrent.ts`) | peers map and queue, connection count | add, drain, connect, handshake, reconnect, destroy | engine, sockets |
| client (`client.ts`) | torrents, servers | add, get, remove, listen, destroy | torrents, pool |
| metadata, peer exchange (`ut-metadata`, `ut-pex`) | metadata pieces; peers to tell and told | fetch, request, data, reject; add, drop, send | wire extensions |
| discovery, tracker clients (`discovery`, `tracker/src/client`) | announces, sockets, timers | announce, update, port change, destroy | trackers, DHT |
| tracker server (`tracker/src/server*`) | swarms, their counters, sockets | announce, scrape, expire, close | clients |
| DHT node (`dht/src/client.ts`) | routing table, tokens, stored values | announce, put, get, bucket check | other nodes |

The hard behaviours, component by component, are the `hazards` of
`PROJECT.json`, each at the source line where it bites.

## 2. Modules

`PROJECT.json` maps every definition to the lines it stands for. A definition
`X_Something` next to `X` is a plausible bug of `X`; every property of a passing
run is violated by one of them. One action is one callback.

### Torrent, Piece, Download

`pieces[p]` is `this.pieces[index]`: a `Piece` record or `NoPiece` (null). The
record's `id` stands for object identity, which the answer callback compares.
A block is data (`Good`, `Bad`) or `None`; the hash matches when all blocks are
good. `requests` are the requests of all wires, `job` the promise or store call
a flushed piece is in, `deferred` the callbacks parked on `ready`.

`MarkStored`, `OnStore` are the start-up; `HandleWire`, `OnHave`, `OnDontHave`,
`OnUnchoke`, `OnChoke`, `OnEnd` what a wire tells the engine; `SendRequest` and
`EndUpdate` the queued `#update`; `OnPiece` and `OnError` the answer callback,
whose guards (destroyed, not ready, stale object) are `Ignored` and `Park`;
`OnHash`, `OnHashError`, `OnStored`, `OnStoreError` the two asynchronous steps
of a flushed piece; `Select`, `Deselect`, `Destroy`, `Serve` the API and the
upload side. `Download` is what a torrent promises: a piece is available
only when it was verified and stored, and done means that every selected piece is.

Abstractions, each an over-approximation of the code's behaviours:

* `#update` runs in the same callback on Node and in an idle callback in the
  browser. The model sends one request per step while `updateQueued`, so other
  callbacks may come between. The order of wires and pieces is free.
* A choke or an end fails all outstanding requests in one callback. The model
  lets the wire be `draining` or `closing` and fails them one by one.
* A request that is sent again at `ready` has no callback (`#onStore` calls
  the parked function with `arguments[3]` undefined): its object is 0, which
  matches no object.
* `selected` is the set of pieces some range covers; `Selections` has the list.
* The pipeline depth, which depends on speed, is a constant; `MaxId` bounds how
  often corrupt data arrives for a piece.

### Wire, Handshake, Metadata

`Wire`: one direction of the transfer; the other is the same code with the roles
exchanged. `requests` and `peerRequests` are the two lists, with removal
by moving the last element (`unordered-array-remove`, external).
`responding` are the requests whose closure the store still holds. `calls`,
`issued` and `dropped` are histories. The allowed-fast set does not change.
The rejects of `choke()` leave the survivors in any order (`Orders`).

`Handshake`: both ends of a TCP connection from the first byte to the extended
handshakes. A stream is a sequence of tokens, and `parsers` what each end is
armed for; TCP joins and splits what was pushed. Keys, hashes and the search
for the torrent are awaited (`tasks`). A first attempt may be encrypted, the next are
plain (`Redial`).

`Metadata`: `ut_metadata` of each wire, the `xs` URLs, and `onMetadata` of the torrent.
An array of bytes is the set of pieces of it that are right; a hash that is
awaited remembers what it will say and whether its array is still filled. Data
may not fit the array: longer than what the announced size leaves, of a piece
beyond it, or before any size is announced. `metadata.set` then throws, nobody
from the wire's `_write` down catches it, and the process ends (`Throw`,
`uncaught`).

### Selections, Streaming, HttpServer, BrowserServer

`Selections` translates `insert`, `concatenate` and `remove` to operators on a
sequence of ranges; a cut can leave a range that covers nothing, as in the
code. In `Streaming` a reader is one `FileIterator`; `call` is what the promise
of its last `next()` waits for. Verification of pieces is one step here, and the
consumer may stop between two calls (`break`) or in one (`cancel`).

`HttpServer` extends `Streaming`: the body of the answer to request r is read by
reader r and a piece is a byte of the file. Handler, pending requests,
connections, close and destroy are those of `server-base.ts` and its Node half.
`BrowserServer` is the service worker and its tabs: messages over ports, pulls,
cancels, timers, keep-alive.

### Peers, Client

`peer[o]` is a `Peer` object: `live` is the negation of `destroyed`, `swarm`
says whether `peer.swarm` is set, `socket` is the state of its connection, which
outlives the object until 'close'. `registered` is `_peers`, `queue` is
`_queue`. `Peer.destroy` and `removePeer` call each other, by address; `End` is
the outcome of the whole chain: one or two peers gone (the second when an
incoming peer took the first one's entry), their wires and counts, and one
`#drain` per removal. An object nothing refers to is free to be used again
(`Swept`). `lost` is a history: the object was destroyed in the queue, or
replaced in the map. Incoming addresses may equal known ones, as with uTP.

`Client`: torrents of one hybrid content that may be named by either hash, from
`add` over hash and metadata to 'ready', `remove`, shutdown, and the search an
encrypted connection makes; a step is what runs between two awaits.

### Availability, Choking, Pex, WebConn

`Availability`: what `#onWireWithMetadata` and the rarity map keep of each wire.
`Choking`: `#rechoke`, where speeds are replaced by any order of the wires.
`Pex`: the two ends of `ut_pex` with time in ticks. `WebConn`: the web seed's
end of its wire, one fetch per file a piece lies in.

### Discovery, WsTracker, TrackerServer, Dht

`Discovery`: one torrent's announces; the tracker clients with an HTTP or UDP
tracker each, their replacement when the port changes, the DHT, destroy.
`WsTracker`: the socket that several clients share through `socketPool`.
`TrackerServer`: an announce waits for the filter, then for the microtask that
looks its swarm up and perhaps another that makes it; `swarm[n]` are the
Swarm objects, `jobs` the microtasks. `Dht`: one node of `client.ts` (bucket
check, pings for places, tokens, stored values) and the hosts that use it.
K-RPC, the distance order and the LRU cache are external.

## 3. What the runs check

| run | instance | checks |
|---|---|---|
| `torrent_peers` | 1 piece of 2 blocks, 2 peers, wires after ready | `TypeOK`, `Agreement`, `NoLostBlock`, `OneRequestPerBlock`, `Completes` |
| `torrent_web` | the same piece in 2 files, a Fast Extension peer that may be early, a web seed with 2 requests | `FlushedIsFull`, `LossIsExplained`, `Downloads` (refinement) |
| `wire_safe` | `Wire`: 2 blocks (one allowed fast, one not owned), duplicates, failing reads; `Handshake`: two keys, long paddings, split writes; `Metadata`: an honest and a flaky or rude peer, 2 pieces, 1 `xs` | `RequestsKept`, `NoPieceWhileChoking`, `Answered`; `Agreed`, `Connects`; `Fetched`, `Arrives` |
| `streaming_readers` | 3 pieces, 2 readers of the same range, 3 ranges to (de)select; HTTP over a file of 3 bytes, 16 kinds of request on folder, app and plain sites | `NothingMissing`, `RangesKept`, `Served`; `SameSite`, `RequestsEnd` |
| `peers_pool` | 4 objects, 2 known addresses, one of them also incoming, limit 1, 1 retry, uTP | `ConnsCounted`, `PeersAgree`, `LeakIsExplained` |
| `tracker_swarm` | 2 sockets, 2 WebSocket ids, 1 address, 2 swarms, cache of 1, with and without filter | `CountsAgree`, `PeersKept` |
| `ws_pool` | 2 clients, 2 sockets, 2 offers | `PoolServes`, `DestroyEnds` |
| `discovery_ports` | 2 ports, 4 tracker clients, hybrid or not, HTTP or UDP; `Client`: 2 torrents of one content | `Quiet`, `PortLearned`; `Identified`, `Closes` |
| `dht_node` | 3 nodes for a table of 2; 2 hosts, a store of 1 value, tokens of 2 ticks | `NodesKept`; `Announced` |
| `torrent_swarm` | `Choking`: 3 wires for 2 slots; `Availability`: 2 wires, 2 pieces; `Pex`: 2 ends; `WebConn`: 1 to 4 files, some of them empty | `SlotsServe`; `PeersKnown`, `RarityExact`; `PeersExchanged`; `SeedServes` |
| `browser_fetch` | 2 tabs and 1 fetch, or 1 tab and 2 fetches | `PortsCounted`, `FetchEnds` |
| `http_ranges` | a file of 3 bytes | `RangesSupported` fails |

Components that share no state share a run: the MC module has a `scene` that
chooses which of them the behaviour tries, and the rest stays as it is.
`CHECK_DEADLOCK FALSE` is given everywhere because all of these systems may
stop: a torrent that was destroyed, a connection that was closed, users
that call nothing.

**Bounds.** Two blocks are the smallest piece with a reservation order, a
cancelled block and a tail that a web seed shares with a peer; two wires are
what it takes for a request to be failed by one and taken over by another while
a late answer is under way; `MaxId = 3` allows a corrupt piece, its
replacement, and late answers for the first object. On a wire two requests at once (`MaxRequests = 2`), for one block or for two, already
confuse answers, since those name only the block: two equal requests, or an
answer and a newer request.
Three pieces make a range that can be cut on either side, inside and entirely.
Four peer objects let a connected, a queued, a replaced and a closing one exist
together; `MaxRetries = 1` shortens `RECONNECT_WAIT` from 3, and `MaxLength`
stops the drift of `_peersLength` that replacements cause. Two swarms on the tracker
are one that is replaced and its replacement; two clients make a shared socket;
two wires for two slots would never compete, so there are three; `MaxCount`
bounds a count that a peer can drive up. `Ticks` is the length of a token
rotation, of which two already separate a fresh, an old and a dead token.

**Fairness.** The event loop runs what is queued: promise continuations, store
calls, `#update`, message delivery on an open stream, timers, 'close' events
(weak fairness; in `Handshake`, where timers fire only when nothing else
happens, `Metadata`, `HttpServer` and `BrowserServer` of their steps together, in
`Metadata` as long as there is no metadata).
The engine draws wires in random order (`randomIterate`), so a wire that can be
asked again and again is asked some time: strong fairness of `SendRequest`
per wire. In `Dht` strong fairness stands for nodes that answer again and again
although others come and go between. An outstanding request is answered because the
piece timer fails it otherwise; this is not assumed for a choking Fast
Extension wire, where the code may lose the timer. Nothing is assumed of users,
consumers or remote peers, but for the one seeding peer that `Completes` names
and the honest one that `MetadataArrives` names.

**What fails.** `http_ranges`: `file.ts:124` takes the end of a range only
when it is not 0, so a request for the first byte alone is answered with the
whole file after `Content-Length: 1`.

**Known gaps.** Behaviour of the code that the properties name as exceptions,
or that no property covers. Engine:

* A wire that bitfields and unchokes before `ready` is not asked for anything if no other event
  follows, so `Completes` is checked with wires after ready.
* `cancelRemaining` moves the reservation mark up over blocks nobody fetches
  when two requests of a web seed fail in the wrong order, and a request parked
  before `ready` is re-sent without a callback: the two causes `LossIsExplained`
  allows.
* An exception between hash and put abandons the piece (`torrent.ts:1114`), `idle`
  is emitted once in a torrent's life (`torrent.ts:1340`), `resume()` drains one
  peer only (`torrent.ts:1446`), a reader that waits when the torrent is
  destroyed is never told (`file-iterator.ts:64`), a failed store read ends a reader
  as if it were complete (`file-iterator.ts:93`), `rescanFiles` is documented (`api.md:556`) and missing.

Wire: a stale `respond()` removes a newer request for the same block; with the
Fast Extension an answer during a choke clears the piece timer of the requests
that survive (`protocol/src/index.ts:1174`); an encrypted handshake fails in
almost every order of its awaits and is repaired by the plain retry, and an identity
learned from metadata is not compared with that of other torrents. A piece of the
metadata that does not fit the announced size, or comes before it, throws a
`RangeError` that ends the process (`ut-metadata/src/index.ts:221`):
`MetadataArrives` names this outcome. Messages that carry no byte of a piece are
left out. The rarity map misses what have-all and donthave change and takes off
twice what closes behind a recount; `RarityExact` exempts those (`skewed`), and checks
have, bitfield and close in every order.

Selections and readers: deselecting the beginning of a range deselects the rest
of it. Web seeds: a piece over an empty file is never fetched from a server
that honours ranges (416), the last byte asked for is bounded by the file's end in the
torrent, a single-file URL with a final `/` is not extended, failures reach the
torrent only as `donthave`.

Peers: a peer removed while queued is connected all the same and its socket
outlives the torrent; replaced peers make `_peersLength` drift; `maxConns` can be
passed by peers that are connecting. Client: with uTP the callback of destroy is
called before everything is closed, and twice by the pool; concurrent `remove`s
drop a callback (`api.md:246`); `infoHashHash` is computed once and may be stale;
an `ipSet` that fails to load leaves the client unready. Discovery, trackers:
'update' is emitted after destroy by a WebSocket tracker whose answer was under
way (`tracker/test/destroy.test.ts:44` expects none); `createSwarm` may replace a
swarm that another request of the tick made.

HTTP and browser: closing drops the requests that wait for the client
(`pendingReady`); a path that cannot be decoded is never answered; a custom 404
page is looked for without its folder (`server-base.ts:440`, `docs/manifest.md:196`);
an injected body has no `destroy`; the first tab wins even with a 404; the
keep-alive interval is restarted after the last clean-up. `torrent.ts` never
starts ut_pex's sending nor calls its `addPeer`.

## 4. What is proved

For all values of the constants, under the named assumptions of the modules
(those of `Torrent` on pieces, files, wires and bounds, `PeersAssumption`,
`ServerAssumption`, `AvailabilityAssumption`, `WsAssumption`, `MetadataAssumption`,
`PexAssumption`, `ClientAssumption`, `DiscoveryAssumption`, `StreamingAssumption`,
`HttpAssumption`, `HandshakeAssumption`: sets of objects, addresses and peer
ids are finite, limits and bounds are numbers, sets of different kinds do not
overlap, a null is no element of what it is the null of). Three say more:
`PexAssumption` that a message arrives before the next one leaves,
`DiscoveryAssumption` that there are slots for two tracker clients, which a hybrid
torrent has, and `HttpAssumption` that a range lies in the file, as `range-parser` leaves it.
A theorem that needs more says so in its `ASSUME`.

| theorem | says | along which invariant |
|---|---|---|
| `TorrentProofs!TypeCorrect`, `AlwaysAgree` | `TypeOK`, `Agreement` | `IInv` |
| `TorrentProofs!Refinement` | `Torrent` implements `Download` | `IInv`, step by step |
| `TorrentProofs!AlwaysIntegral` | `Torrent` keeps `Download`'s `Integrity`: right bytes only, done means complete | `Refinement` |
| `TorrentProofs!LossExplained`, `NothingLost` | a block is lost through the two known causes only; never with peers only and wires after ready | relative to `IInv`, then `Quiet` |
| `TorrentProofs!FlushedFull` | a flushed piece has every block | `AllTallied` |
| `TorrentProofs!OneRequest` | without web seeds a block is asked for once (`WebSeeds = {}`) | `Single` |
| `SwarmingProofs!AlwaysKnown`, `AlwaysCounted` | interest and choke timers are right; a count differs from the bitfields only where it is named | `AInv` |
| `SwarmingProofs!AlwaysExchanged` | the two ends of peer exchange tell the truth and keep the wire (`PeersExchanged`) | `PexInv` |
| `PeersProofs!CountRight`, `AgreeAlways`, `LeakExplained` | the count is that of the connected peers; map, queue and wires agree; a socket that outlives the torrent has the known cause | `PInv` |
| `PeersProofs!AlwaysAgreed` | two peers that know each other's handshakes agree on cipher and Fast Extension, plain speech is never misread, a torrent gets a wire once but for the known case (`Agreed`) | `HandshakeInv` |
| `TrackerProofs!CountsRight` | the counters are those of the stored peers | `TInv` |
| `WireProofs!RequestsAreKept` | one callback for every request; none is forgotten between the two ends | `WInv` |
| `WireProofs!ChokedSendsFast` | a choking end sends no piece but an allowed fast one | `WInv` |
| `WireProofs!AlwaysFetched` | a wire forgets no piece of the metadata; wrong metadata needs a rude peer (`Fetched`) | `MetadataInv` |
| `WireProofs!MetadataSetOnce` | metadata is set once, never after destroy (the safety part of `Arrives`) | none needed |
| `ClientProofs!AlwaysIdentified` | one content is one torrent, and the search finds it, but for the causes named (`Identified`) | `ClientInv` |
| `ClientProofs!ClosesGracefully` | with one server, destroy calls back when all is closed (the safety part of `Closes`) | `TasksCounted` |
| `ClientProofs!AlwaysQuiet` | no tracker client is left behind; nulls are met in hybrid torrents only; silence after destroy (`Quiet`) | `DiscoveryInv` |
| `TrackerProofs!PeersStay` | a handed-over peer is bound to a live socket that knows it; a swarm is replaced within a tick only | `BInv` |
| `WsTrackerProofs!PoolIsShared` | the pooled socket lives and counts its users; its creator recovers with it | `WsInv` |
| `WsTrackerProofs!DestroyEndsIt` | a destroyed client keeps no timer, interval or peer (`DestroyIsFinal`, the safety part of `DestroyEnds`) | `WsInv` |
| `HttpProofs!AnswersAreWhole`, `ReadersGetAll` | a reader gets its range, in order and once; an answer has the length it told, but for the known case (`NothingMissing`) | `ReadersRight`, `HttpInv` |
| `HttpProofs!AlwaysSame` | a hosted torrent in one folder is served as without the folder (`SameSite`) | the site never changes |
| `HttpProofs!PortsRight` | a tab counts its ports and keeps the worker alive while it streams (`PortsCounted`) | `BInv` |

**The engine.** `Agreement` is not inductive by itself (a replaced object is
read through its `id`), and a free request slot is found by counting: `IInv` is
`TypeOK`, the finiteness of the request sets, and `Agreement`. `TorrentProofs`
begins with one lemma per operation of a piece. The mapping of `Refinement` shows as available
the pieces in the bitfield that were checked against the store; the simulation
needs that a piece is put only after its hash matched and that late answers
cannot change a flushed object. `FlushedIsFull` needs that `_buffered` of
every object is the number of blocks present (`AllTallied`), and
`OneRequestPerBlock` that above the reservation mark nothing is present, that
below it a block is given back, once, or taken by one request, or present
(`Single`). It is false with a web seed, which reserves a tail that others have
begun.

**Wire.** `RequestsKept` compares the listed requests with what may still answer
them, but what the peer lists can shrink by a cancel that was sent earlier, so
the comparison must know the order of the stream. `Covered` says, for every
block, that some suffix of the messages to the peer (and what the peer lists,
when the suffix is all of them) leaves enough requests after its own cancels.
A peer without the Fast Extension discards requests silently while it chokes;
that is harmless because its choke is under way or has emptied the list
(`Told`, `Listed`). `OnlyFast` is what `choke()` must leave in the queue, and
`Listed` keeps ids distinct under unordered removal and accounts for callbacks.
Blocks are counted with bijections; that `_pull` finds the first match is the
least-number principle, which the library has without an operator parameter.

**Metadata.** A wire that forgets no piece must not have two hashes under way, nor
data coming while one is: `Gentle` says of a wire whose peer answers once that
what was asked for and what has come are apart, and that a hash is awaited with
nothing else. `HashesRight` ties a hash that will match to the array it was made
of, which only a peer that sends more than it was asked for can change meanwhile.
`ThrowStep` is the end of the process, which leaves no wire to say anything of.

**Availability.** What is judged once, at the metadata, was told in any order
before it: `AInv` adds to the types where a wire can be (`Places`: who is
heeded is in the swarm or leaving it, who is counted is heeded).

**Peer exchange.** What the other end will know (`WillKnow`) is what it was told,
changed by the message on its way, changed by what is still to be told; that this
is the truth survives a message that is split off the lists only because no list
holds a peer twice and at most one message of an end is on its way, which in turn
needs `SentBefore` and the assumption that a delay is shorter than the interval.
`Paced` bounds the receiver's clock by the sender's timer. `LastWord` picks the
first of several sources that may all speak of a peer, so it is a chain of IFs: a CASE
whose guards overlap would be any of them.

**Client.** That a search misses nobody needs to know where it is: every torrent
that had the hash from the beginning is still listed (`EarlyStay`), and those
the search has passed have the hash kept for them wrong (`Behind`), which holds
across the await only if the one it hashes is the one it stands at (`Hashing`)
and no torrent is listed twice. For the shutdown `TasksCounted` says
that the tasks left are as many as the torrents and servers that are open.

**Discovery.** The clients are closed one after the other, and the callback that
makes the new ones may come after destroy. `DiscoveryInv` says how the two
clients of a hybrid torrent can be left before destroy (`Kept`: both up, or the
second on its way out and the first up, or the first on its way out and the
second gone), and after it (`Gone`: who is up has no tracker, and who will make new
clients is the last one). It is stated over the state that is passed along a
chain of synchronous calls, with a lemma for each call.

**Peers.** `Peer.destroy` and `removePeer` chain over addresses, so that no single
conjunct survives alone. `PInv` is `Sound` of every object (what its kind, life,
socket, swarm and history say together), the count as a cardinality, wires of
connected peers only, `Queued` (who waits has no socket, and a dead peer in the
queue is marked), and `Mapped` (the map and the members) while the torrent lives,
`Explained` (an open socket has a cause) once it is destroyed. It is stated over
values, not variables, because `End` composes two removals and their drains:
each change is a lemma, and an action composes them.

**Handshake.** `Agreed` speaks of the ends, but what an end will know is still on its
way: in the stream, in its buffer, in a hash it awaits. `HandshakeInv` splits on the
attempt. In a plain one (`PlainRight`, every retry) an end that is still at the
handshake finds it as its first unread token (`HelloFirst`), so nobody is misread.
In an encrypted one (`EncryptedRight`) the first token of an incoming end that has
taken nothing is a key (`KeyFirst`), so it does not take the plain path; and at both
ends to have heard a handshake implies that the cipher was chosen. Nothing is
unread or awaited before the outgoing end sent its key (`Begun`). The invariant is
stated of the record an action builds, with a lemma for each field that
changes and for each token pushed; an action composes them.

**Tracker server.** `TInv` says that each counter is the cardinality of a
set of members; one lemma per operation of a swarm (`Put`, `Get`, `Drop`, `Start`,
`Refresh`) keeps it. `PeersKept` has a part about states (who is handed out is bound to an open
socket that lists the swarm) and one about steps (a swarm is replaced only by another request of its tick).
Neither is inductive: a closing socket stops only the peer it carries itself,
and the replacement depends on what is queued. `BInv` therefore adds that
members were announced by the socket they are bound to (`Owned`), that requests come from
sockets that were asked (`Asks`), and that without a filter all jobs of a tick
come from one open connection and a swarm just made has only its peers (`OneTick`).

**Shared socket.** `PoolCounted` says nothing of trackers that wait to reconnect nor
of a socket that is about to be closed, and with it alone a timer could make the
socket count a tracker twice, or the pool hand out a socket that is torn down next. `WsInv` adds
that a live tracker has no reconnect timer and that the pooled socket is not
`closing` (`Serving`), and that no offer of a destroyed tracker is left and no
peer is made for it later (`Ended`), which needs that only live trackers announce and hear.

**Readers, HTTP answers.** What a reader got is a prefix of its range only together
with the piece its read will bring: `ReadersRight` says that what it got, with
that piece, are the pieces from its first to the one before `nextPiece`, and that
a finished reader is past its last one. The server adds who reads
(`AnswerRight`): an open request has the reader of its own number with the range
the answer told, and an answer whose body nobody reads was whole. The selections
do not matter for this. `AlwaysSame` pairs the candidates of a path with and
without the folder; that the first one found is the same is the least-number
principle.

**Browser.** `PortsCounted` relates a counter to the ports only while no port was cleaned
twice. `BInv` adds that a port which was not answered on has no pull and no chunk
(so a late piece can only clean a port that streamed), that the ports of a fetch
which did not begin are unused, and that only finitely many ports stream.

**Only model-checked.** Liveness (`Completes`, `Answered`, `Connects`, `Arrives`,
`Served`, `RequestsEnd`, `DestroyEnds`, `PortLearned`, `Closes`, `NodesKept`,
`Announced`, `SlotsServe`, `FetchEnds`): the prover has no rule for fairness
that does not need ENABLED. `RangesKept` rests on `Selections`, and `SeedServes` on
the offsets of files, which are folds over sequences: what they compute for
every list needs an induction over data that the provers cannot instantiate.

## 5. Not modelled, and the plan

Not modelled: byte-level encodings (message parser, bencode, compact
addresses), cryptography, wording of HTTP answers, progress and speed getters,
torrent file tools, merkle trees, ip filters, platform glue, the previous
JavaScript build of the wire protocol, examples. In `Torrent`: hotswap, critical
pieces, `skipVerify`, `load()`, destroy of the store itself. In `Peers`: WebRTC peers.

Left of the plan: WebRTC peers in `Peers`.
