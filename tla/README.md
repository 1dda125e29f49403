# TLA+ models of xray-rs

This directory holds TLA+ specifications of the proxy core and of the panel
agent of xray-rs, the TLC configurations that check them on small instances, and
TLAPS proofs of some of their properties for every instance. All definitions are
translated from the Rust code under `src/`; `PROJECT.json` names the lines each
of them stands for.

Contents:

1. [The system](#the-system): its parts, their state, what makes them hard
2. [Modules](#modules): how state and actions correspond to the code
3. [Runs](#runs): what each run checks, its bounds, what it shows
4. [Fairness](#fairness)
5. [Proofs](#proofs)
6. [The finding](#the-finding)
7. [Limits of the code](#limits-of-the-code): behaviour the models show and no property claims
8. [Abstractions](#abstractions) and [what is not modelled](#what-is-not-modelled)
9. [What could come next](#what-could-come-next)

To check a run or a proof:

    tlc -workers 2 -config Relay.cfg MCRelay
    tlapm PanelSyncProofs.tla

## The system

xray-rs is a multi-protocol proxy on tokio. A node accepts client connections
over a *transport* (raw TCP, TLS, WebSocket, httpupgrade, gRPC), decodes a *proxy
protocol* (Trojan, VLESS, VMess, Shadowsocks, SOCKS, HTTP, dokodemo), *routes* the
request to an *outbound* (freedom, blackhole, SOCKS, Shadowsocks) and copies bytes
between the two connections through an in-process *link*. The panel agent
(`saas`) polls an SSPanel server for the node's configuration and user list,
rebuilds the inbound when they change, and reports every user's traffic.

| Part | Source | State | Operations | What makes it hard |
|---|---|---|---|---|
| Traffic accounting | `kernel/stats.rs`, `saas/controller.rs` | counters with a dirty flag, registry, active set; a controller's drained counters | add, take, drain, report, retry, restore, remove | lock-free flag and counts; several controllers over one registry; lost replies |
| Stream relay | `kernel/pipe`, `proxy/io.rs`, `proxy/outbound.rs` | sockets, bounded link, idle timer | two copy loops per side, join or race of them, timer task, dial | backpressure, half close, aborts, an idle timer some awaits do not see |
| Panel synchronisation | `saas/controller.rs`, `saas/sspanel`, `saas/builder.rs`, `saas/inbound_manager.rs` | ETags, recorded node and users, running inbounds | poll, parse, build, rebuild, swap users, bind, remove, shut down | failure between any two steps; caching of what was not applied; asynchronous unbind; five text formats for one node |
| Service tree | `kernel/runtime/service` | nodes, watch channels, tokens | reconcile, poll_ready, call, subscribe | reconfiguration while consumers hold older services |
| Routing, configuration | `kernel/route`, `saas/egress_compile.rs`, `app/config.rs` | rule tables, outbounds by tag, balance cursors | match, pick, compile | boundaries of prefixes and labels, cursor wrap, skipped blocks |
| Dispatch | `proxy/outbound.rs`, `kernel/runtime/{dns,dialer}.rs` | answer cache, dials, upstream exchanges | resolve, dial, SOCKS and Shadowsocks clients | a cache shared by flows; replies of several shapes, cut anywhere |
| Mux | `proxy/mux.rs`, `serve_mux` of `proxy/vmess/body.rs` | session table, links, frame queue, the bridge's duplex | demux, relays, writer, idle timer, the two directions of the bridge | reuse of session ids; a cycle of bounded queues; a close that stops at the bridge |
| VMess authentication | `proxy/vmess.rs` | user table, active hints, replay filter, limiter | match, remember, swap, time out | hints of an older table; a job that outlives its future |
| Inbound handshakes | `proxy/{trojan,vless,vmess,socks,http,shadowsocks,dokodemo,udp}.rs`, `kernel/pipe/translation.rs`, `transport/httpupgrade.rs` | bytes read, user snapshot, request | decode, reply, datagram relays | segments cut anywhere; tables swapped meanwhile; deadlines |
| gRPC and WebSocket | `transport/{grpc,ws,stream}.rs` | calls and their channel, write buffer, receive buffer | serve, accept, poll_read, poll_write, poll_flush, send | flow control in the middle of a frame; messages without bytes |
| Shadowsocks UDP | `proxy/shadowsocks.rs` | session table, links, reap channel | receive, open, send, reap | messages that name a source, not a session; two bounded channels |

How they interact: an inbound (`Inbound`) produces a request and the bytes left
over from its header; `Routing` picks the outbound, `Dispatch` dials it; `Relay` moves the bytes;
the copy loops of `Relay` call the counters of `TrafficStats`; `PanelSync` decides
which inbound runs with which users; `VmessAuth` and `Inbound` read the user table
that it swaps. The models are separate because their interfaces are narrow: a
request and a byte string (Inbound to Relay), one `add_up` per chunk (Relay to
TrafficStats), an atomically swapped table (PanelSync to Inbound, VmessAuth). Where
two parts share state the model composes them: the counters with the controllers
and the panel (TrafficStats), the two relays with their link (Relay), the client,
controller and listener table with the parsers and the builder they run (PanelSync,
PanelNode), the two configuration front ends with the router and the router with the
outbounds and the resolver (Dispatch extends Egress extends Routing), the codecs with
the decoders (Inbound extends HttpHead and VmessCodec, which extend Headers and
AddrCodec), the same codecs with the clients that write them (Dispatch extends
Headers), and the frame codec with the two stream adapters (WsStream extends
GrpcStream extends GrpcServe extends Hunk).

The hazards this code is exposed to are listed with their lines in `PROJECT.json`.

## Modules

A definition with the comment `Mutant:` in front of it is a deliberately broken
form of the definition after it. No specification uses one; each shows that
some property would notice that bug.

**TrafficStats** (`kernel/stats.rs`, `saas/controller.rs` `user_info_monitor` and
pruning, `saas/sspanel` `report_user_traffic`). `users` is `Stats.users`, `active` is
`Stats.active`, `dirty` and `cnt` are the fields of every `Counter`; `cpc` and its
companions are the locals of the copy loops, `kpc` and its companions those of the
controllers' ticks. A byte count is the set of chunks it counts, so that counting
twice and losing are visible. Every atomic operation and every lock section is an
action: `AddMark`, `AddInsert`, `AddCount` are `add_up`/`add_down`; `TakeDirty`, `TakeUp`,
`TakeDown` are `take`; `Drain` and `Lookup` are the two locks of `active_counters`;
`RestoreMark` to `RestoreDown` are `restore`; `PostOk`, `PostTransportError` and
`PostRefused` are `send_with_retry` against a panel that may have booked a report
whose reply is lost. `RemoveUser` and `Delist` are the two locks of `Stats::remove`.

**Relay** (`kernel/pipe/{copy,timer,pipe}.rs`, `proxy/io.rs`, `proxy/outbound.rs`). One
flow: client socket, inbound relay, link, outbound relay, target socket. `rd[s]` and
`wr[s]` are the program counters of `conn_to_link` and `link_to_conn` (or of the two
blocks of `relay_framed`) on side `s`. A stream side ends when both loops have
(`try_join!`), a framed side when one has (`select!`); an error of either ends it at
once. `SeeIdle` is the branch on the cancelled token: possible where a loop waits
to read or receive, not where it is inside `write_all` or `tx.send`. The timer task is
`Elapse`, `TimerCheck`, `TimerCancel`, with `quiet` for "the deadline has passed since
the last update".

**Pipe** is the abstract specification of a flow: in each direction a peer is given
the other's chunks in order and without a gap, the direction ends once, `complete` only
when everything sent was handed over, or is cut. Relay implements it (`ImplementsPipe`):
`sent` is what a peer has put on its socket, `recvd` what was delivered to the other
one, and a direction is complete when a peer has seen a regular end of stream.

**PanelSync** (`saas/controller.rs`, `saas/sspanel`, `saas/builder.rs`,
`saas/inbound_manager.rs`). `pc` walks `start` and then, per tick, `node_info_monitor`
with every await a boundary. `etagNode` and `etagUsers` are the client's ETag map,
`nodeInfo`, `nodeTag`, `userList` the controller's fields, `running` the inbound
manager's table, `closing` the ports whose aborted accept loop still holds its
listener. What the panel holds are raw answers; `NodeOf`, `UsersOf` and `Builds` are
operator constants that stand for the parsers and for `build_inbound`. `GetPort`, `StartPort`
and `FetchPort` are `fetch_first_user_port`, an extra request of legacy Shadowsocks nodes
between the node and the user list, at which the panel may already have changed.
**PanelNode** defines those operators: `ParseV2ray`, `ParseSs`, `ParseSsPlugin` and
`ParseTrojan` read the fields of a node string, `ParseCustom` the custom config that
newer panels send, `Legacy` is the version gate between them, `ParseUsers` applies
device limits, `BuildHandler` and `BuildStream` are the builder, `SwapUsers` is
`apply_users`. A string is the record of its fields; numbers keep their width (`W16`,
`W32`, reduced), since a port is parsed as i32, cast to u32 and narrowed to u16.

**KeyedTree** (`kernel/runtime/service/mod.rs`). `chan`, `slot`, `ver` are the nodes and
their watch channels, `gen` and `cancelled` the tokens of `SwapHandle`, `cver`, `ready`
and `cpc` a `SwappableService` clone. `SwapNode` and `Publish` are the two sends of
`reconfigure` (not ready, then the new service).

**Routing** (`kernel/route`, `runtime/tree` dispatch): the matchers, `RouteTable::route`,
`LoadBalancer::pick`, `OutboundDispatch::call`. Characters and octets are small sets;
the octet width and the cursor width are constants, so that a prefix can end inside
an octet and the cursor wraps within a run. The reference definitions (`Labels`,
`InBlock`, `Means`) say what a matcher is for, independently of how it computes.
**Egress** (`saas/egress_compile.rs`, `app/config.rs`) extends it with the two front ends:
`normalize` and `compile_normalized` for the panel node, `Config::build` for the server.
Either produces the table, the outbounds by tag and the default tag that the flows of
`Routing` then go through, or an error.
**Dispatch** (`proxy/outbound.rs`, `kernel/runtime/{dns,dialer}.rs`) follows a flow from
there: `conns` are the outbound processes, `cache` the answers of `CachedResolver`,
`wire` the one connection to an upstream server. `Resolving`, `Answer` and `Insert` are
`resolve` with its await in the middle, `Connect` the loop of `dial_tcp`, `SocksMethod`,
`SocksPassed` and `SocksReply` the `read_exact` steps of `socks5_handshake`, `Up`, `Down` and
`Stop` the relays. The inner resolver and the upstream server are external; the server
reads with the parsers of `Headers`, so the client's bytes meet this node's own decoder.

**Mux** (`proxy/mux.rs`, with `freedom_udp`, `splice`): the demux task, one egress and one
relay task per sub-session, the writer task, the shared idle timer and the four
kinds of bounded queue between them. A sub-session is numbered by its New frame
while the server only knows its session id, so reuse of an id is visible. VLESS gives
`mux::serve` its connection. VMess goes through `serve_mux` (`proxy/vmess/body.rs`): a spawned
bridge opens the client's chunks into a `tokio::io::duplex` (`up_dir`) and seals what comes
out of it (`down_dir`). `dirs` are the directions still running, `duplex` what the writer has put
in and `down_dir` has not taken; frames on their way up are in `wire`, in the duplex or before
it. A direction that ends drops its half only; the demuxer reads end of stream, and the writer
fails, when both have ended (`CarrierEof`, `WriterFails`). `BridgeAborts` is `bridge.abort()`.

**VmessAuth** (`proxy/vmess.rs`): `read_header` as one pc per connection, the limiter's
permits with the blocking job that keeps one after its future is dropped, the
replay filter `order`, and `set_users` in its two steps `StoreUsers`, `ClearActive`.

**Hunk** (`transport/grpc.rs`): the frame codec, pure operators, with the varint group
and integer widths as constants. **GrpcServe** (with `kernel/runtime/tree.rs`)
is the HTTP/2 connection: the task that accepts and validates its calls, the bounded
channel of streams and the task per stream; while it awaits room in the channel nobody
drives the connection, and no frame moves. **GrpcStream** follows one of the streams: the adapter's
`poll_read`, `poll_write`, `poll_flush` and the split sink, driven by the copy loops and
throttled by a flow-control window. **WsStream** (`transport/ws.rs`, `stream.rs`) adds the
WebSocket: `WsAccept` with path, host and early data, `poll_read` over whole messages,
`poll_write` into the library's buffer (bounded by `WsLimit`) and the split halves. It shares
the copy loops and states the properties of both transports.

**SsUdp** (`proxy/shadowsocks.rs` `serve_udp`, `proxy/outbound.rs` `freedom_udp`): the
service loop, and per session an egress task and a downlink task. `sending` is the
`tx.send(..).await` inside the loop, during which it neither receives nor reaps.

**AddrCodec**, **Headers**, **HttpHead**, **VmessCodec**, **Inbound**: pure parsers and
encoders of the address codec, of the binary protocol headers, of HTTP heads (proxy
requests and httpupgrade) and of VMess (sealed header, body chunks with masked
lengths and padding), and one accepted connection that uses them. A parser returns ok with a value and the rest, truncated, or bad, as the code's
`Parse` results do. Bytes are small numbers, addresses have one or two bytes and
integers base `Base`; an AEAD seal is a tag that opens only under the same key, salt
and counter. `Inbound` has the client's bytes (`wire`, of which `sent` have been sent in
segments of any size), the task's `phase`, its buffer `acc`, the user table it loaded
(`snap`), and the request, uplink bytes and datagrams it produced. `users` is swapped
by `SetUsers` at any moment; `ever` and `always` record who was listed at some or at
every moment since the accept.

## Runs

All runs but one pass. "States" are distinct states. Every state-machine module states
the types of its variables in `TypeOK`. Two thirds of the safety properties are also proved for
every instance (see [Proofs](#proofs)).

| Run | Module, config | States | Question |
|---|---|---|---|
| `traffic_shared` | MCTrafficStats, TrafficShared.cfg | 336,630 | Is every relayed byte reported once? |
| `traffic_live` | MCTrafficStats, TrafficLive.cfg | 85,428 | Is marked traffic eventually taken? |
| `relay` | MCRelay, Relay.cfg | 239,724 | Is a flow a pipe, and do relays end? |
| `panel` | MCPanelSync, Panel.cfg | 238,283 | Does the node serve what it was told, know what it serves, and converge? |
| `panel_lost_update` | MCPanelSync, PanelLostUpdate.cfg | violation | Does polling always converge? (no) |
| `tree` | KeyedTree, Tree.cfg | 87,662 | Does a reconcile reach its goal without disturbing the rest? |
| `routing` | MCRouting, Routing.cfg | 866,788 | Does a flow leave where its configuration says, and reach it? |
| `mux` | MCMux, Mux.cfg | 235,114 | Are sub-sessions independent, and does serve end? |
| `vmess` | MCVmessAuth, Vmess.cfg | 207,148 | Right user, once per window, no permit lost? |
| `grpc` | MCGrpcStream, Grpc.cfg | 62,488 | Do the adapters keep bytes in order under flow control, and is every call settled? |
| `ssudp` | SsUdp, SsUdp.cfg | 114,315 | Is the session table right, and the loop never stuck? |
| `inbound` | MCInbound, Inbound.cfg | 198,591 | Is every request decoded as meant, however it is cut? |

**traffic_shared.** Two controllers share one registry; one of them discards
uploads; one user can be removed; two chunks, one connection at a time, one lost
reply. `CountedOnce` and `NoTrafficLost` say that a chunk is at every moment in exactly
one place, through adds that interleave with `take`, failed and retried reports, and
`restore`; `BookedOncePerLostReply` that double booking needs a lost reply;
`DirtyIsListed` that the dirty flag never hides a counter from the reports. Two
controllers are enough for one to hold the other's counters; two chunks for an add
that meets a take or a restore of the same counter; two counter objects for a
removed user's counter and its replacement. Copiers, counters and chunks are
interchangeable (symmetry; no liveness is checked here).
**traffic_live** drops the symmetry and checks `TrafficIsTaken`: what is in a marked counter
leaves it, also when an earlier add was stranded in it by a race with `take`.

**relay.** Three flows in one run: stream to stream with a leftover, framed to
stream, stream to framed; one or two chunks each way, link and sockets of capacity
one, so that every queue fills and every await blocks. `ImplementsPipe` is the data
guarantee, as a refinement of Pipe; `IdleEndsRelay` and `NoOrphanRelay` say that
relays end, with the one exception the code has (`HeldUp`, see below).

**panel.** Every node type the agent knows, with the legacy format and with the custom
config, with and without ETags, certificates and the vless switch: good answers of each
transport, and malformed ones (missing server, too few fields, a port that is no number,
negative, or too large). User lists hold users without a device left, users whose id is
no UUID, and users of different ports and ciphers. Three edits and one failed request:
going away from a configuration, failing, and coming back takes three. Integers have
two and four bits (`W16`, `W32`), enough for a port to wrap into range.
`ViewMatchesHandler` and `NoLeakedInbound` hold at every step; `ServedAsTold` compares the live
inbound with what the operator entered, which the parsers never see; `ConvergesOrStuck`
names the only three ways in which the node does not end up serving the panel's data.
**panel_lost_update** is the smallest instance of the first of them.

**tree.** Two keys, two configurations, one consumer, four channels, three reconciles,
both policies: enough to change, remove and add a key again under a consumer of its
first incarnation.

**routing.** Six deployments. Every domain of up to three characters over a letter in
both cases and the dot against every suffix of that kind, and every two-octet
address against every block and prefix length; sequences of nine flows through three
tables, with a two-bit cursor that wraps twice; every egress configuration of three
blocks over ten rule lists and the malformed single blocks; server configurations of
two routes over four outbound lists, with malformed routes and inbounds; three flows
that share the resolver while a record of two answers changes and disappears, with a
time to live of two ticks, as long as the run; and one flow through each kind of upstream
server, whose accounts match or not and whose reply has each shape of bound address
and is cut at every byte.

**mux.** Five workloads: one that fills its link; datagrams with keepalives, Keep frames
without a target and bad frames; two sub-sessions on one or two ids; a second sub-session
whose New frame replaces a live first one, with chunks for both; and a VMess carrier that fails, is
closed, or ended by its terminal chunk, at any point. Every queue, the duplex included, has
capacity one, which makes the cycle demux, link, relay, frame queue, writer as tight as it can
be. `CloseEndsServe` has one exception, `Unaware`: behind the bridge a close is noticed only by
a frame that cannot be written. The exception requires that none is on its way anywhere, and
that every sub-session has ended once the idle timer has fired.

**vmess.** Two connections, tables of different length and order, one permit, a hint
list of one and a filter of two, so that hints point beyond the table, connections
queue for the permit, and the filter is pruned by the clock and at its bound.

**grpc.** Over gRPC two flows down (as a stream, as a sink) and one up, each with an empty chunk in
the middle; hunks with an unknown field of every wire type; each kind of malformed
frame behind a good one. DATA frames are cut at every byte, and the window opens by up
to four bytes at a time, less than a frame. Over WebSockets the same flows down, and
binary, empty, ping and text messages up before a close, an invalid frame or a pong, with
no, good and undecodable early data, and every combination of wanted and asked path and
host. Four more connections have up to four calls, of which some are for another path, method
or content type, with a channel of one and service names that are escaped or spell out a
path: `CallsAreSettled` says that each call gets a task or a reset of its own.

**ssudp.** Two sources, four datagrams, three sessions, a reap channel of one: a source
can lose a session and open another while the channel is full.

**inbound.** Forty-seven requests: every protocol, every command, refused users and
accounts, headers beyond the limit, malformed parts of each SOCKS message, Shadowsocks
requests cut inside and after the address, VMess with each cipher, with masking and
padding on and off, with each broken part of the header, a repeated auth id and mux through the bridge, names that are the text
of an address, bare or in brackets, and a mapped address, three datagram relays, httpupgrade in
front, for the wanted path and host or another. Segments are cut at every byte, the user table is swapped at every step, the
client closes at any time.

Deadlock checking is off where the system may stop: a flow that has ended, a
controller that was shut down, a bounded number of requests that have been made.
It is on for the traffic runs, where controllers tick for ever.

## Fairness

Safety properties are checked without fairness assumptions having any effect on
them. Liveness uses weak fairness of the proxy's own tasks, which tokio's scheduler
justifies: a task that has been woken is polled. Nothing is assumed about clients,
targets or the panel unless it says so here.

- **TrafficStats**: an add that has begun completes, the controller's loop ticks for
  ever. A tick runs the node monitor (which may prune) and then the traffic monitor,
  so pruning cannot keep a controller from draining: strong fairness of `Drain`.
  That traffic flows is not assumed.
- **Relay**: the copy loops, the timer task, the reaction to a cancelled token, and the
  dial: `SystemDialer` sets no timeout of its own, but the operating system ends a connect.
  Peers may stop reading and writing.
- **PanelSync**: the controller keeps polling (a request ends: the client has a timeout),
  and the runtime drops an aborted accept loop. A tick starts only after that
  (`closing = {}` in `Tick`): ticks are tens of seconds apart, dropping a task is not.
- **KeyedTree**: `reconcile` is synchronous and returns; consumers keep polling.
- **Mux**: demux, writer, bridge, egress and relay tasks run. The idle timer need not fire. This includes that a client reads
  what is written to it or its connection fails, and that targets accept data: without
  it the writer's `write_all` never returns and serve does not end.
- **VmessAuth**: blocking jobs end, a future that is not at an await goes on, the
  handshake timeout fires. Clients may send nothing.
- **GrpcServe, GrpcStream, WsStream**: woken tasks are polled and a client that reads reopens the window.
- **SsUdp**: tasks run; bind, lookup and `send_to` return. No datagram has to arrive.
- **Routing, Egress, Dispatch**: none; only safety is checked.
- **Inbound**: the connection's task and the uplink of a bridge run and the deadline passes. A
  mux demuxer that reads the end of its carrier returns (`CloseEndsServe` of the `mux` run);
  for VMess that needs both directions of the bridge to have ended, and no fairness makes the
  downlink fail.

## Proofs

TLAPS checks these theorems for every value of the constants that satisfies the
modules' named assumptions; TLC evaluates the assumptions in every run. They say that
bounds and capacities are natural numbers (capacities not 0), that the model values for
"nothing" (`None`, `NoCounter`, ...) are not among the values they are distinguished from,
and what the code's types give: tables and answers are sequences, a balancer has one of
the three modes, a user hash is a number (`RoutingConstants`), a node tag contains its port
(`PanelConstants`), the span of the cursor is a positive number, and every host that is
dialled has a zone (`DispatchConstants`).

| Module | Theorem | Property |
|---|---|---|
| TrafficStatsProofs | `TypeCorrect`, `DirtyListed` | `TypeOK`, `DirtyIsListed` |
| | `NeverCountedTwice`, `NeverLost`, `BookedOnce` | `CountedOnce`, `NoTrafficLost`, `BookedOncePerLostReply` |
| PanelSyncProofs | `PanelTypes`, `ViewAgrees`, `NothingLeaks` | `TypeOK`, `ViewMatchesHandler`, `NoLeakedInbound` |
| RelayProofs | `RelaysImplementPipe` | `ImplementsPipe` (refinement) |
| KeyedTreeProofs | `TreeIsTheGoal`, `TokensAsPolicy`, `KeepsServing` | `TreeMatchesGoal`, `TokensFollowPolicy`, `UnchangedUndisturbed` (action property) |
| VmessAuthProofs | `AttributedRight`, `AcceptedOnce` | `RightUser`, `OnceWithinWindow` |
| | `PermitsConserved` | free permits and running jobs add up |
| SsUdpProofs | `SessionsTabled`, `SourcesKeepOrder` | `RunningIsTabled`, `SourceInOrder` |
| DispatchProofs | `DialledAsAnswered` | `DialsTheAnswer` |
| | `RoundsAreEven`, `FirstRuleDecides` | `RoundRobinIsEven`, `FirstMatchWins` |

**TrafficStatsProofs.** `TypeOK` is not inductive alone: the tag that
`mark_active` lists and the owner that `parse_user_tag` finds are those of the counter
in hand, so `RefsOK` adds that registry, copy loops and controllers only ever refer to
allocated counters, and what each program point of a controller holds. `DirtyListed`
holds for any number of users, nodes, connections and chunks. Its
invariant adds `FreshClean`: a counter not yet allocated is clean, otherwise `Resolve`
could register a dirty one. The argument has one step per action. Most actions take
nobody off the way to a report (`KeepsWay`, `QuietKeepsWay`); the others hand the
counter on, from the marker to the active set, from there to a drain, from the drain to
the to-do set, and `TakeDirty`, which takes it out, also clears the flag.
The three theorems about the account of a chunk share `AccountInv`. `OnePlace` says that a
chunk is with at most one copy loop, cell or pair of hands, `NotLost` that one that is nowhere
has been booked or discarded, `BookedBound` how often it may have been booked, by where it
is. `HandsOK` makes them inductive: which cells a controller can hold counts
of at each program point, so that `take` finds empty hands, and `restore` gives back to
the cell it took from. Every action is one of five moves (add, take, give back, hand off,
an unseen booking), each a lemma, or moves no chunk (`AccountStays`).

**PanelSyncProofs.** All three theorems follow from one invariant. `LiveIsRecorded` strengthens
the last two: at every step, not only in the sleep, a live inbound is the recorded one with the
recorded users, or with the new ones between `apply_users` and the assignment of
`user_list`, and there is none during start-up, after the end and between removal and
rebuild. `LocalsOK` says what the controller's fields and locals hold at each point,
which the rebuild needs. The parsers and the builder stay arbitrary operators in this proof,
so it covers every panel format. `RemoveAll` and `AddOne` are the two operations of the
inbound manager.

**RelayProofs.** The refinement of Pipe, for any flow and any capacities of link and sockets.
`InOrder` says where the chunks of a direction are: the receiving peer, the socket to it, the
writing loop, the link, the reading loop, the socket from the sender and the sender
hold consecutive numbers. A relay that ends drops what it holds, so the numbers need not be
contiguous; `Whole` says who must be gone for a gap to exist, which is why nothing is ever
delivered behind one, and why the end of stream a peer sees comes after everything the other
one sent. Each action of a side is one lemma over both directions.

**KeyedTreeProofs.** The invariant gives each live key an open channel of its own, ties the
keys the reconcile has visited to their goal and the others to what they were, and leaves
channels never used at generation 0 without a cancelled token; without the last part a new
node could start with a cancelled token. `OneChannelPerKey` counts the open channels.

**VmessAuthProofs.** `MatchIsRight` is about the operator: `match_user` returns an index of the
table it was given at which the auth id's user is, whatever the hints. The invariant adds that
a connection keeps the snapshot it loaded until it has looked the index up. For the filter it
says that every auth id accepted less than a window ago has an entry that `PruneKeeps` keeps.
`PermitsConserved` holds although a handshake can time out and leave its job running.

**SsUdpProofs.** A reap message names a source and
not a session, so the invariant has to say why it is never stale: the source still
leads to the finished session that sent it (`ReapIsDue`), and no two messages name one
source (`ReapOnce`). Both hold because a source in the table is never given a second
session before its first is reaped. `SourcesKeepOrder` builds on that: at most one running
egress task holds datagrams of a source (`EgressFirst`, `OneUplink`), its uplink is in order
and ends before the datagram in the service's hands (`Queued`, `InHand`), and all that has left
is earlier than all that is held.

**DispatchProofs.** For the dialer, every list of addresses a connection or the cache holds is
an answer somebody heard for that host, with the time it was heard (`Sourced`, `Cached`), and
a connection that has a peer dialled it from such a list (`Peered`). For the balancers, the
induction is on `EvenBut`: at cursor c the tags before index c mod n have been served once more than
the others in this round, up to one per wrap, since the span of the cursor need not be a
multiple of n. `RemainderUnique` and `NextIndex` are the arithmetic. `FirstRuleDecides` has the
agreement of the matchers with their documented meaning (`MatchersAgree`) as a hypothesis: it
proves the table search, the default and the choice of a tag, and TLC checks the matchers
over every bounded name and address in the `routing` run. Both are about the deployments whose
table is given; the tables compiled by the front ends are the subject of
`EgressAsConfigured`.

What stays with TLC:

- every liveness property and everything that needs ENABLED, which the prover does not
  support;
- what the parsers, codecs and matchers compute for every input: they recurse over data, and
  induction over data is out of the prover's reach (modules that declare RECURSIVE operators,
  such as Hunk and WsStream, cannot be proved about at all). `InOrder`, `RequestAsSent`,
  `PayloadIntact`, `AcceptedWasListed`, `GoodIsServed`, `UpstreamAsAsked` and `DownlinkIntact`
  rest on a decoder inverting an encoder, `ServedAsTold` on the parsers of the panel's formats;
- `EgressAsConfigured`: the compiler filters sequences with SelectSeq, of which the prover
  knows nothing;
- `SubflowInOrder` (Mux): within reach, not proved yet.

## The finding

`panel_lost_update` violates `Converges`. `get_json` stores the ETag of an answer
(`saas/src/sspanel/mod.rs:340`) before the body is read and before the controller has
applied it. If the user-list request of the same tick fails, `node_info_monitor` returns
without applying the node; from then on the panel answers 304 to the stored ETag and
the change is never applied, until it changes again. The comment on the function
(`saas/src/controller.rs:124`) reads "Poll node info + user list; rebuild the inbound on
node change, swap the user table on user change". `ConvergesOrStuck` in the `panel` run
shows that besides this (and its variant, a legacy Shadowsocks node whose port is its first user's:
a 304 for the node hides that the port has changed) there are two more ways to stay
behind: data that cannot be served, and a failed rebuild after which the panel returns to the recorded node, which
`node_info_monitor` then takes for unchanged although nothing is listening.

## Limits of the code

Behaviour that the models contain and for which no property claims more than the
code does. Paths are relative to `src/`.

- *Bytes that wait.* An add whose mark precedes the clear in `take` and whose `fetch_add`
  follows the swap leaves bytes in a counter that is not listed; they are reported after
  the user's next traffic (`kernel/src/stats.rs:77`, `:132`). Not lost: `NoTrafficLost`; `TrafficIsTaken` shows that the
  next mark brings both out.
- *Removal and replacement.* `Stats::remove` takes two locks in turn
  (`kernel/src/stats.rs:125`). A connection may register and mark a new counter between
  them, whose tag is then delisted while its flag stays set. `DirtyIsListed` is stated for
  users that stay.
- *Blocked relays and the idle timer.* Both copy loops look at the token while reading or
  receiving, not inside `write_all` (`kernel/src/pipe/copy.rs:78`) or `tx.send` (`:49`).
  `kernel/src/pipe/timer.rs:1` says the timer "cancels a connection after a period with
  no traffic in either direction". `HeldUp` is the exception in `IdleEndsRelay`.
- *Half close of framed relays.* `relay_framed` ends when either direction does
  (`proxy/src/io.rs:174`); `SPEC.md:210` describes close-writer-on-uplink-EOF. The two
  kinds of relay are separate cases of `RdReturns`.
- *Rebuild on the same port.* The aborted accept loop drops its listener later
  (`saas/src/inbound_manager.rs:194`), so the bind may fail; the next poll repairs it.
- *Removed keys.* After the sender is dropped `poll_ready` goes on with the cached service;
  the comment at `kernel/src/runtime/service/mod.rs:75` says it reports `Pending`.
- *Context without handles.* `watch::Sender::send` does not store the value when there is no
  receiver; the comment at `kernel/src/runtime/context.rs:32` says it does.
- *Idle mux carrier.* The timer ends the sub-sessions; demux still waits for a frame
  (`proxy/src/mux.rs:202`), while the comment at `:153` says "until it closes or idles".
- *VMess mux carrier of a client that is gone.* `up_dir` ends and drops its half of the duplex
  (`proxy/src/vmess/body.rs:258`); `down_dir` keeps the other half in a read, so the demuxer sees
  no end of stream. A sub-session that ends, by itself or by the idle timer, writes an End
  frame, whose failure ends the bridge and then serve. With no sub-session left nothing ends it:
  `Unaware` in `CloseEndsServe`, and the exception in `ClosedIsFinished`. A VLESS carrier ends.
- *Varint overflow.* Bits of the tenth byte that do not fit are dropped
  (`transport/src/grpc.rs:552`); the comment at `:543` says `None` on overflow.
- *gRPC tail.* `poll_write` reports bytes as written that wait for window
  (`transport/src/grpc.rs:328`); `link_to_conn` does not flush, so they wait for the next
  chunk or the end. The WebSocket's `poll_write` queues a message and never flushes
  (`transport/src/ws.rs:191`). This is the exception in `FedIsSent`; the split sinks have none.
- *Shadowsocks UDP billing.* A datagram counts for the user of the session of its source
  address (`proxy/src/shadowsocks.rs:366`), also when another user's key opened it.
- *The handshake deadline* covers reading the proxy header, not the transport's handshake
  and not the first payload chunk of Shadowsocks (`proxy/src/shadowsocks.rs:158`). A client
  that is silent there and does not close is waited for: `ClosedIsFinished` starts from the close.
- *Served flows.* `noop_decision` (`proxy/src/io.rs:37`) expects routing to send it to
  freedom; with a catch-all rule it goes to that rule's outbound, with an ended link.
- *Legacy Shadowsocks cipher.* `apply_users` swaps users under the cipher of the handler
  (`saas/src/builder.rs:159`), which on a legacy node was the first user's at the last rebuild.
  This is the exception in `ServedAsTold`.
- *Vmess and Vless node types* take no transport from the custom config (the match in
  `parse_sspanel_node_info` leaves them alone) and are served over plain TCP; `Plain` says so.
- *Outbounds of one tag.* The last one of a tag is kept (`kernel/src/pipe/outbound.rs:60`), so a
  blackhole may take the place of the freedom whose tag serves the default branch. The
  configurations of the run have distinct tags.
- *Upstream SOCKS servers* that accept and stay silent are waited for: the handshake
  (`proxy/src/outbound.rs:221`) has no deadline.
- *Shadowsocks upstreams* end with either direction (`proxy/src/outbound.rs:163`): the end of
  the uplink cuts a downlink that is still delivering. `DownlinkIntact` claims completeness
  only for a relay that the server's end of stream has ended.
- *Concurrent lookups* of one name are not merged, although `SPEC.md:118` asks for it; the
  later answer stays in the cache.
- *Segmentation shows* in two places: `sniff_override` sees a hello only if it arrived with
  the header's segment, and `read_header`'s limit counts whole segments. `RequestAsSent`
  and `GoodIsServed` allow for exactly this. A Shadowsocks address must lie in the first
  chunk.

## Abstractions

- Relaxed atomics are read as sequentially consistent. The flag and the counts of a counter
  are separate atomics, and every interleaving of their steps is explored.
- Time is abstract: a deadline or idle period may pass at any moment at which nothing has
  reset it. VmessAuth has a clock, because two windows are compared.
- Cryptography is an oracle: what one key, salt and counter seal, only they open.
- PanelSync has one controller: controllers share only the inbound manager, under distinct
  tags. A UDP bind failure only logs a warning in the code and is left out.
- A relay's leftover is sent before the loop starts; in `relay_framed` it is neither counted
  nor does it reset the timer, as in the code.
- `full:` is a suffix match and `keyword:` matches nothing, as compiled by the code.
- Inbound leaves out the texts of malformed ports. `Sniff` keeps of `sniff` what its caller sees,
  whether a complete hello names a server; walking the TLS and HTTP layouts is left out. The
  replay filter is VmessAuth's; here an auth id it refuses is an input. The listener and UDP
  binds before the accept loop are left out.
- Which texts are addresses is the constant `IpText` (`IpAddr::from_str` of the library).
- No name is longer than the 255 bytes at which `write_address` fails
  (`kernel/src/net.rs:318`): the binary decoders read its length from one byte, and the names of
  the configuration and of HTTP requests in the runs are short.
- SsUdp's socket does not fail: an error of `recv_from` (`proxy/src/shadowsocks.rs:360`) would
  end the service loop and with it everything the properties are about.
- The answer cache has no capacity: eviction only turns a hit into a lookup.
- A VMess mask is a pseudo-random function of the position in its stream (`ShakeAt`), padding
  is at most `PadMax`, and the checksum of a header binds every byte before it.
- A panel answer is a record of fields, with `Junk` for a field that does not parse. Regular
  expressions over node strings are modelled by which field they find.

## What is not modelled

- Command lines, wiring, logging, YAML, TOML and JSON decoding (`app/main.rs`, `saas/{main,panel}.rs`,
  `saas/config.rs`, `saas/egress_config.rs`), and host metrics (`saas/serverstatus.rs`):
  straight-line conversions or pure I/O.
- The panel requests the controller sends and forgets (node status, online users, illegal
  requests) and audit rules, which no decision of the node depends on.
- TLS, HTTP/2, WebSocket framing and the ciphers: libraries. An HTTP/2 connection that
  fails under its streams, and the trailers `poll_shutdown` sends, are left out.
- `kernel/runtime/context.rs`: no code of the repository uses it.
- The `acme` directory is empty.
- Nothing is persisted by the program: a shutdown loses counts not yet reported, and there is
  no recovery to model.

## What could come next

Proofs: `SubflowInOrder` (Mux), whose invariant has to place every frame of a sub-session between
client and target. Models: a mux sub-session as a second implementation of Pipe;
TrafficStats composed with PanelSync, where user lists shrink while reports are under way.
