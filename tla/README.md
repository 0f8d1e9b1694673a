# Formal models of the remote-desktop server and client

The repository is a RustDesk fork. `server/` holds the rendezvous server (hbbs),
the relay (hbbr) and two gateways that carry both over VLESS or SSH. `client/` is
the Rust core that runs on both sides of a session: the controlling side
(`client.rs`, `port_forward*.rs`) and the controlled side (`server.rs`, `server/*.rs`,
`rendezvous_mediator.rs`).

These modules model the parts where concurrency, flow control, an unreliable network or
persistence decide correctness. TLC checks them on small instances; TLAPS proves
their safety, and that the tunnel implements its abstract channels, for every value of the
constants.

## The parts of the system and how they interact

1. A controlled machine **registers** its id, uuid and public key with hbbs (RegisterPk)
   and **keeps its address fresh** (RegisterPeer), over UDP or over a persistent TCP
   connection that comes through the VLESS gateway. Modelled are both ways of RegisterPk,
   and RegisterPeer over UDP.
2. A controlling machine asks hbbs for a peer; hbbs **brokers** a punch hole or names a
   relay from its **relay list**.
3. The controlling machine then runs several **connection attempts** at once (TCP, UDP,
   IPv6, WebRTC, relay) and keeps one. The controlled machine **answers WebRTC offers**
   out of a cache of **sessions**; over WebRTC, **messages** are cut into fragments.
4. When no direct path works both machines connect to hbbr with the same uuid and are
   **paired**; hbbr copies bytes between them.
5. The session **connection** then authenticates and carries video, audio, input, files,
   clipboard, terminals, or **port forwarding**.
6. A port-forward window holds several mappings. Each mapping has a **listener**; its
   first connection **logs in** and either establishes a multiplexed tunnel, whose
   **channels** carry every later connection under **flow control**, or falls back to one
   raw pipe (and one login) per connection.

Parts 1, 3, 4 and 6 are modelled. `PROJECT.json` lists every part with its sources, its
status and, where it is left out, the reason.

## Modules

| module | models | source |
|---|---|---|
| `FlowWindow` | the arithmetic of `RecvWindow` and `SendCredit` | `client/src/port_forward_mux.rs` |
| `ChannelFlow` | one direction of one channel, each byte's charge accounted for | `client/src/port_forward_mux.rs`, `client/src/server/port_forward_mux.rs` |
| `ForwardedChannel` | what a channel promises its two users (abstract) | |
| `PortForwardMux` | all channels of a tunnel, both ends: opening, connecting, relaying, closing, teardown; implements `ForwardedChannel` | the same two files |
| `PortForwardListener` | the accept loop of a mapping, its probe, the shared tunnel state, the life of tunnel loops | `client/src/port_forward.rs`, `client/src/port_forward_mux.rs` |
| `MappingLogin` | concurrent logins of a window's mappings over one `LoginConfigHandler` | `client/src/port_forward.rs`, `client/src/client.rs`, `client/src/ui_session_interface.rs` |
| `ClientConnect` | the race of the attempts, relay override, securing, fallback, the owner of the offerer's peer connection | `client/src/client.rs` |
| `WebRtcSessions` | the cache of peer connections and their hand-over between runtimes | `client/libs/hbb_common/src/webrtc.rs` |
| `WebRtcAnswerer` | the answerers of a controlled machine, composed with `WebRtcSessions` | `client/src/rendezvous_mediator.rs` |
| `WebRtcFraming` | messages over a data channel: fragments, permit, timeouts, reassembly | `client/libs/hbb_common/src/webrtc.rs` |
| `RelayPairing` | hbbr: requests, pairing, timers, usage table, blocklist | `server/src/relay_server.rs` |
| `Registration` | hbbs: RegisterPk over UDP and TCP, the peer map, the peer table, failures, restarts | `server/src/peer.rs`, `server/src/database.rs`, `server/src/rendezvous_server.rs` |
| `KeepOnline` | the client's registration loop composed with hbbs across a lossy network | `client/src/rendezvous_mediator.rs`, `server/src/rendezvous_server.rs`, `server/src/peer.rs` |
| `MCMapping` | `PortForwardListener` and `MappingLogin` side by side, with their properties | |
| `MCConnection` | `ClientConnect` and `WebRtcFraming` side by side, with their properties | |
| `MCClient`, `MCPortForwardMux`, `MCRegistration`, `MCKeepOnline` | instances for TLC; `MCClient` puts `MCMapping` and `MCConnection` together | |
| `PeerProofs` | the theorems about `PortForwardListener`, `MappingLogin` and `KeepOnline` | |
| `ConnectionProofs` | the theorems about `ClientConnect` and `WebRtcFraming` | |
| `ServerProofs` | the theorems about `Registration` and `RelayPairing` | |
| `ChannelFlowProofs`, `WebRtcAnswererProofs` | the theorems about the module they are named after | |
| `PortForwardMuxInvariant`, `PortForwardMuxProofs` | the inductive invariant of `PortForwardMux`, and the proofs about it | |
| `PortForwardMuxSteps`, `PortForwardMuxRefinement` | the proof that `PortForwardMux` implements `ForwardedChannel` | |

The modules divide the system along its interfaces. `PortForwardMux` takes the outcome
of the window check as a free choice (`ChannelFlow` shows that it succeeds between ends
that follow the code). `PortForwardListener` takes a tunnel loop as a task that runs and
ends, and a login as a task that succeeds or fails (`MappingLogin` has its inside).
`ClientConnect` takes an attempt as something that succeeds or fails. `KeepOnline` lets
hbbs handle one packet at a time, as its UDP loop does; `Registration` has the inside of
that step and what runs beside it.

### State and actions

*ChannelFlow.* The sender is `relay_socket_to_tunnel`: `Take` (SendCredit::take),
`Read`, `ReadEof`, `Cancelled`. `ReceiveCredit` is the demultiplexer's `opened` and
`window_update` arm. The receiver is `Deliver` (the `data` arm and RecvWindow::accept),
`Buffer`, `Grant`, `SendOpened` (run_controlled_channel) and `Write`
(relay_tunnel_to_socket). `sent`, `accepted`, `written`, `promised` and `granted` are
history: positions in the stream of charges. They occur in no guard, other than the
named bound `MaxSent`.

*PortForwardMux.* `ch[s][c]` is side `s` of channel `c`: its map entry, its task, the
two halves of `run_channel`, the inbound queue and the frames buffered while connecting.
`dataQ` and `ctrlQ` are the controller's two queues, `stream` the wire, `loop` the two
main loops. A message sent after which the task returns without suspending is one step
with the return. `Retained` is the `retain` at the top of `on_open`. Channel ids are
fresh, so `on_open`'s "ignoring open for live channel" does not occur.

*ForwardedChannel.* Two one-way streams per channel: an end starts once, the
controller's first; what is received was sent; an end that is told of the other's close
has received everything. The refinement mapping takes `sent`, `written` and the task's
state of `PortForwardMux`, and `down = "PeerClosed"` for the knowledge of the close.

*PortForwardListener.* `phase` is where the accept loop is (it serves one login at a
time), `state` is `Tunnel.state`, `loops[g]` the g-th tunnel_loop. `set_muxed` is two
steps, publishing and spawning. `ui` is `ui_receiver`: the listener and the login read
the same queue. tunnel_loop awaits its sends inside the arms of its `select!`, without a
timeout: while a loop is `"sending"` (`LoopSends`) it looks at nothing else, and
`SendEnds` need never come.

*MappingLogin.* A step ends where the code may suspend. `lc` is the shared handler,
`turn` and `waiters` the fair mutex `port_forward_login_turn`. `Fill` takes the turn and
fills the handler, `Build` is create_login_msg, `SendLogin` the send and the unlock.

*ClientConnect.* `leg` is the state of each attempt, `held` the relayed connection that
race_transports_prefer_webrtc parks, `guard` the OffererGuard, `pc` the offerer's peer
connection. `LegEnds` is an arm of the race's `select!`, `WindowEnds` its timer;
`Override`, `request_relay`, `secure_connection`, `Fallback` and `Return` are the rest of
`connect()` and of the RelayResponse arm. `Cancelled` drops the future at an await, as
the outer race may.

*WebRtcSessions, WebRtcAnswerer.* A peer connection is named by the call of
`WebRTCStream::new` that built it. `call[c]` is where that call is: `Lookup`, `Build`,
`Insert` (new_inner), `AdoptStore` and `AdoptRelease` (adopt, two atomic operations),
`DropRelease` and `DropCheck` (the drop of a claim), `close_if_abandoned`. On top of it
`slots`, `slot` and `routes` are WEBRTC_ANSWERERS, AnswererSlot and WEBRTC_ICE_TXS, and
`run` the task that spawn_webrtc_answerer spawns.

*WebRtcFraming.* `at` is where a clone's send stands (waiting for the channel, the
permit, or in a write), `permit` is send_gate, `wire` the fragments in flight, `acc` what
the peer's `next` has put together. `NoSplice` is claimed while the teardown's close() is
the first: a close() that finds another one begun returns at once, and with it goes the
permit the teardown was to keep.

*RelayPairing.* Each use of the PEERS lock is a step: `TakeWaiting`, `Enqueue`, `Wake`.
`home[c]` says who owns a stream; whoever drops it closes it. A relay waits for bytes or
its timer (`"relaying"`), holds bytes back for the bandwidth limits and sends them
(`"sending"`, from `Forward` to `Forwarded`, without a timeout), and at the end of a turn
(`"turning"`) looks at the blocklist if a second has passed since it last did
(`TurnChecked`), or not (`TurnUnchecked`).

*Registration.* One id. `objs` is the heap of shared Peer objects, `cur` what the map
holds, `row` the row of the table. A task goes through `Begin`, `Fetch`, `Adopt` or
`Make` (PeerMap::get, get_or), `Check`, `Limit`, `Count`, `WriteMemory`, and
`InsertPeer`/`LearnGuid` or `UpdatePk` (PeerMap::update_pk). `Restart` loses everything
but the row. The id's row is never deleted, so its guid is modelled as known or not.

*KeepOnline.* `Tick` is the loop's timer, which sends RegisterPeer or, until the key is
confirmed, RegisterPk. `OnPeerResponse` and `OnPkResponse` are `handle_resp`;
`HandleRegisterPeer` and `HandleRegisterPk` are hbbs. Packets of different kinds may be
lost, delayed and reordered; of one kind, which are sent seconds apart, the newer
replaces the older. hbbs does not move a client whose address changed but asks it for its
key (`IpChange`), unless the new address is one of hbbs's own machine (`Loopback`).

## Runs

| run | bounds | question |
|---|---|---|
| `flow` | windows 4 and 8, minimum charge 2, frames up to 4, 18 charges, one repeated `opened` | is credit conserved, the window never overrun, in-flight data bounded, an idle channel able to send, everything written? |
| `mux` | one channel with two frames each way, queue of one, one update; and two channels in a map of one slot | does `open` arrive first, does an entry outlive its task, and does the whole implement `ForwardedChannel`? |
| `mux_live` | one channel, one frame each way, one update | do all tasks end after teardown; do both ends of a channel end? |
| `client` | three direct attempts with WebRTC and relay; four accepts, three tunnels; two mappings, two connections each, two passwords; two clones, one message each of up to two fragments, and one too long | see below |
| `relay` | four connections, one uuid, one address | do timers and latecomers leave running relays alone, does every waiter leave, does blocking end relays? |
| `registration` | race: a UDP, a TCP and a lookup lane, two machines, failing statements, restarts; serial: one UDP lane, two machines, two keys, two addresses | do races, failures and restarts leave the row to its first machine; without them, is what is answered OK in the table? |
| `webrtc_answerer` | two calls for one offer, two slots | is a connection ever closed under a caller, read twice or left behind; does every slot come back, and not too early? |
| `keep_online` | two addresses and keys, two moves, a restart, a config sync, three ids; and the same with one of the addresses a loopback one, and no sync | do client and hbbs converge; does a client lose an id that is its own? |
| `keep_online_new_key` | two keys, one config sync | does hbbs learn the key a config sync brings? (**violated**) |
| `listener_removal` | two accepts, one tunnel | does removing a mapping stop its listener? (**violated**) |
| `registration_retry` | one TCP connection, failing statements | is a retried registration in the table? (**violated**) |
| `registration_same_id` | two TCP connections | is the stored key the stored machine's? (**violated**) |

`client` holds four independent machines, one of which runs in a behaviour (`which`):

* `ClientConnect`: a relayed connection preempts a direct one only after the preference
  window (`RelayIsLast`), none that was made is lost (`NoConnectionLost`), a held one
  settles (`HeldSettles`), the peer connection survives exactly when the caller owns it
  (`PcFollowsResult`), and the direct flag is true (`DirectIsP2p`).
* `PortForwardListener`: no dead tunnel stays published (`NeverPinned`), a loop resets
  only its own (`ResetIsOwn`), a stopped listener's tunnels end, busy or idle
  (`StopEndsTunnels`).
* `MappingLogin`: every login carries its own target, flag and challenge (`LoginIsOwn`), a
  password typed early answers the Hash that comes later (`TypedAnswers`), every turn
  comes (`TurnComes`).
* `WebRtcFraming`: no two messages are spliced (`NoSplice`), and no sender with a timeout
  is stuck (`SendReturns`).

`mux`, `registration` and `keep_online` hold two instances each in the same way (`mode`).

Three of the liveness properties name a case in which the code does not get there:

* `StopEndsTunnels`: a tunnel_loop whose send never returns does not see that its listener
  is gone. The peer has to stop reading with the socket open; the stream has no send timeout
  on this side.
* `BlockEndsRelay`: a relay whose `send_raw` never returns, because one end has stopped
  reading, does not come round to the blocklist.
* `MCStaysRegistered` (`Stranded`): hbbs takes a loopback address over without a RegisterPk.
  A client that then comes back to the address of its last RegisterPk is asked for its key,
  RegisterPk finds nothing changed and writes nothing, and hbbs keeps the loopback address
  until something else changes. Among other addresses there is no exception.

Why the bounds are enough. The window sizes make every branch of the arithmetic happen (a
frame below the minimum charge, a full window, a threshold crossed by one frame, a
remainder that is never advertised); 18 charges are more than two windows, so credit goes
round. Two frames and one queue slot let data wait behind data, and `close` behind both.
Three tunnels let an old loop end while its successor is published. Three direct attempts
are all the code has. Two clones let one wait behind the other's broken message; two
fragments are a prefix and an end. Four connections on one uuid give two relays at once
(the uuid is free again once a pair has met) and three requesters that contend for one
entry; different uuids share nothing but the usage table, whose key one address makes
common. Two calls for one offer give a hit, a duplicate, a hit on a condemned connection
and a relay mismatch; slots that other offers hold are part of the initial states. Two
machines are what a mismatch of uuids needs; three lanes with a heap of one more object
let the map change under two tasks. Two moves let a client come back to an address hbbs
still has, the restart lets it be forgotten in between. Where a bound is doubtful, the
theorems below do without it.

CHECK_DEADLOCK is off where the system may rest: a channel that has ended, both loops
gone, an attempt that has returned, all bounded calls used. In `Registration` and
`KeepOnline`, which always may receive the next packet, it is on.

### Fairness

* `ChannelFlow!FairSpec`: the tunnel carries frames, the connect is answered
  (CONNECT_TIMEOUT_MS), the local socket takes what is written. Nothing is assumed of the
  application that produces data.
* `PortForwardMux!FairSpec`: tokio runs tasks that can step; a loop whose peer has left
  gets a reset or its read timeout. Nothing is assumed of sockets: that is what
  `TeardownEndsChannels` is about. `EndsTogether` is stated under `SocketFairness`, that a
  write ends, well or badly.
* `PortForwardListener!Fairness`: connects and logins end by their timeouts, queued
  commands are read, a loop that has broken finishes. The user owes no answer, no peer ends
  a tunnel and no send has to end. That the listener is gone is noticed under strong
  fairness: `select!` polls its arms in random order, so an arm that is ready whenever the
  loop comes round is taken in the end, also by a loop that always has a frame to send.
* `MappingLogin!Fairness`: the mutex is fair (tokio's is a FIFO), code between two awaits
  runs, a missing Hash is ended by the read timeout. A login's send ends: it is a
  small message on a connection that carries nothing but logins and answers to the peer yet,
  and fits its buffers whether or not the peer reads.
* `ClientConnect!Spec`: the timer of the preference window fires, and nothing else.
* `WebRtcFraming!Fairness`: tasks are polled, timers fire, pc.close() returns. A write
  without a timeout may park for ever.
* `WebRtcAnswerer!Fairness`: tasks are polled and pc.close() returns. Nothing is assumed of
  the network or of which way a claim goes.
* `RelayPairing!FairRelaySpec`: tasks run, the timers of make_pair_ and relay fire, and time
  passes: of the turns a relay makes, ever again one ends a second after the last check
  (strong fairness of `TurnChecked`). No send has to return and no relay has to end.
* `KeepOnline!Spec`: the loop's timer ticks, time passes, and a packet of a kind that is
  sent again and again gets through in the end (strong fairness per kind and answer).

### What the violated runs show

* `listener_removal`: `Close` that arrives during a login is read by the login's
  `select!` (`port_forward.rs:499`) and ignored; the listener goes on, its port stays bound.
* `registration_retry`: `update_pk` changes memory first. After a failed insert the
  retry looks unchanged and is answered OK without a row. The UDP handler drops the
  result of `update_pk` altogether.
* `registration_same_id`: the uuid is checked under one lock and written under another;
  two machines that share a new id both pass, and a row can end up with the uuid of one
  and the key of the other.
* `keep_online_new_key`: RegisterPkResponse does not say which key it confirms. An OK for
  the old key that arrives after a config sync has withdrawn the confirmation restores
  it; the client sends RegisterPeer from then on, and hbbs keeps the old key.

## Proofs

Eight modules hold theorems. Each names an inductive invariant, proves it for `Init` and
for every action, and derives the properties. Liveness conjuncts of a specification play
no part in them.

| module | proved, for | from |
|---|---|---|
| `ChannelFlowProofs` | `NoOverrun`, `CreditConserved`, `WindowConserved`, `InFlightBounded`, `NoStall`, `NothingLost`; all windows and any number of charges | `WindowAssumption`, `FlowBoundsAssumption` |
| `PortForwardMuxProofs` | `OpenArrivesFirst`, `NoDeadEntry`; any number of channels, frames and updates, any queue length | `MuxAssumption` |
| `PortForwardMuxSteps` | every action is a step of `ForwardedChannel` or one its users do not see, given the laws of queues and links | `MuxAssumption` |
| `PortForwardMuxRefinement` | those laws, and with them `ImplementsChannel`, the refinement of `ForwardedChannel`; from it `StreamsComplete`; the same generality | `MuxAssumption` |
| `ConnectionProofs` | connection attempt: `PcFollowsResult`, `DirectIsP2p`, `RelayIsLast`, `NoConnectionLost`; any set of attempts | `LegsDiffer` |
| | messages: `NoSplice`; any number of clones, messages and fragments | `FramingAssumption` |
| `PeerProofs` | listener: `NeverPinned`, `ResetIsOwn`, and that the legacy mode is latched; any number of connections and tunnels | |
| | logins: `LoginIsOwn`, and that the turn excludes; any set of mappings | `MappingAssumption` |
| | registration loop: `KeepsId`; any addresses and keys, any number of moves and restarts | `KeepOnlineAssumption` |
| `WebRtcAnswererProofs` | `CondemnedIsUnwanted`, `OneReader`, `SlotStandsForPc`, `RouteSurvives`; any number of calls, offers and slots | `NoPcAssumption`, `MaxAnswerersAssumption` |
| `ServerProofs` | hbbs under races, failures, restarts: `GuidHasRow` (`RaceGuidHasRow`), `RowKeepsMachine`; packets one by one: `SerialRowIsOneMachine`, `SerialOkIsPersisted`; any lanes, machines, keys and addresses | `RegistrationAssumption` |
| | hbbr: `RelayOwnsStreams`, `UsageIsLive`, `EntryHasTimer`; any connections, uuids and addresses | `RelayAssumption` |

`PeerProofs` and `ConnectionProofs` use the names of `MCMapping` and `MCConnection`: `L!`, `M!`
and `F!` are the instances of `PortForwardListener`, `MappingLogin` and `WebRtcFraming`;
every theorem is about one component's own specification. `MappingAssumption` and
`FramingAssumption` say that the values that stand for "nobody", "free" and "the teardown"
are no mappings and no clones.

Why the invariants are needed, and what they say:

* *ChannelFlow.* That a frame fits the receiver's window depends on every frame ahead of
  it and on every credit frame on its way. `IInv` links the queues: each frame carries (as
  history) the position its charge ends at; the first frame of a queue starts where the
  receiver stands, each one where the previous one ends, the last one ends where the
  sender stands. Credit, allowance, remaining window and drained bytes are then
  differences of positions. `WindowAssumption` collects what the protocol needs of the
  constants: `1 <= MIN_FRAME_CHARGE <= MAX_FRAME`, `MIN_FRAME_CHARGE <= INITIAL_WINDOW <=
  CHANNEL_WINDOW <= u32::MAX`, and `UPDATE_THRESHOLD + MIN_FRAME_CHARGE <= CHANNEL_WINDOW +
  1`, on which `NoStall` rests: the remainder that is never advertised still leaves a
  minimum charge.
* *PortForwardMux.* Frames take two roads. In the ordered queue and on the stream an
  earlier `open` stands in front of every frame of a channel the peer does not know yet
  (`Ahead`, `Queued`), because a task only sends after its `open` (`Started`). Down the
  control queue goes only what answers a frame of the peer, who knows the channel then
  (`FromSrv`, `InboxKnown`, `Answers`).
* *PortForwardMuxRefinement.* An end must never write a frame that was not sent, and an end
  that has read the peer's close must have written all that was. Frames are therefore
  counted on their way (`Link`): what an end took and what is still coming to it, on the
  stream and in the ordered queue, is at most what the other end sent, and exactly that as
  long as the end listens and nothing was thrown away (`Counted`). Nothing follows a closing
  frame (`Ordered`), and when it stands in an end's inbound queue everything sent is in or
  written (`Closed`). With `OpensOnce`, that a channel is announced once and before it
  starts on the controlled side, `RInv` is inductive on top of `IInv`. Each action is then a
  step of `ForwardedChannel` at the one end that takes it (`Move`), or changes nothing its
  users can see (`Twins`). What appending, taking and dropping frames does to a count and to
  a link is collected in `LinkLaws`: `PortForwardMuxSteps` uses them as a hypothesis,
  `PortForwardMuxRefinement` proves them (`LawsHold`) and discharges it. The mapping puts
  concrete state only in place of abstract state, so no history or prophecy variable is needed.
  `StreamsComplete` says in the mux's own terms what the refinement is worth: no end writes
  more than the other sent, and one that left with PeerClosed has written all of it. It is
  proved on the abstract state, from what `ForwardedChannel` allows (`Kept`).
* *PortForwardListener.* Listener and loops write the shared state without looking. It is
  sound because a loop that has not yet reset the state is the published tunnel's
  (`Live`), a probe runs only while none is published (`Probed`), and the state is left
  alone between publishing and spawning (`Spawned`).
* *MappingLogin.* Only the holder of the turn is between filling the handler and sending
  (`TurnHeld`), so that what it filled in is still there when the login is built
  (`StillMine`).
* *WebRtcFraming.* What the peer reads is `acc` followed by `wire`. Neighbours in it belong
  together (`Begun`, `Joined`, `Chained`), a message in the middle of being written is where
  the stream ends (`Writing`), and an unfinished one has somebody who keeps others away: its
  writer, the teardown with the permit, or a closed connection (`Torn`).
* *ClientConnect.* At each stage somebody has the peer connection: the guard, a connection
  that will be dropped, or the caller (`OwnerInv`); the race's recorded errors tell the
  truth about the side they stand for (`RaceInv`).
* *WebRtcAnswerer.* An outstanding claim is counted (`Claimed`), whoever goes on with a
  connection has marked it adopted (`Owners`), nobody has one whose builder has not
  inserted it (`Built`, `Untouched`), and before it has a reader a connection is closed
  only if it was condemned or nobody can get at it (`Unclosed`).
* *RelayPairing.* A stream in PEERS belongs to a sleeping task, is filed under the uuid
  that task asked for, and is nobody's partner (`InMap`, `Owned`, `Unshared`).
* *Registration.* No task is on its way to an UPDATE, or to learning a guid, before the
  row is there (`Ahead`). When packets are handled one by one and the database works, the
  peer in the map agrees with the row whenever the loop waits for a packet (`Synced`), and on
  the way through a handler the two differ only as the step reached says (`Stage`).
* *KeepOnline.* A new id is drawn on UUID_MISMATCH, which hbbs answers when neither the
  address nor the key of a packet is the one it has. Until a sync changes the key, hbbs has no
  other key than the client's for its id, in memory or in the table, and no packet under way
  carries another (`Mine`); another machine's row is never taken over (`Theirs`).

Only model-checked is all liveness (fairness and ENABLED are out of TLAPS's reach here):
`EverythingWritten`, `TeardownEndsChannels`, `EndsTogether`, `HeldSettles`, `StopEndsTunnels`,
`TypedAnswers`, `TurnComes`, `SendReturns`, `WaiterReleased`, `BlockEndsRelay`, `SlotComesBack`,
`NoPcLeaks` and `MCStaysRegistered`. `NothingLost` and `EntryHasTimer` are the safety halves of
`EverythingWritten` and `WaiterReleased`, and are proved.

## Not modelled

* Data: encryption, byte formats, passwords and hashes, wording and dialogs. How long
  the relay's bandwidth limits hold bytes back (in the model a part of the send).
* Brokering in hbbs (`tcp_punch`, `tcp_senders`): each handler forwards one message to a
  socket it looks up. A message it loses, also one for a persistent VLESS connection whose
  write half has moved into `tcp_punch`, is a failed attempt in `ClientConnect`.
* The relay list: a health check that began before the operator set a new list may report
  the old one after it; the next check puts that right, unless the new list has a single
  entry and is not checked. The models have no relay list.
* Request limits over wall-clock time. The per-peer limiter of RegisterPk is modelled; how
  many concurrent registrations pass it has no stated bound.
* Mutual blocking of the two main loops of a tunnel on full socket buffers: the controlled
  side's send timeout ends it, from where `TeardownEndsChannels` takes over; the buffers
  are the operating system's.
* A refusal at the limit of channels, which differs from other refusals only in its text.
* The VLESS and SSH gateways (byte formats around one bidirectional copy), the transports
  below a stream, and the client's registration loop over TCP. The TCP arm of RegisterPeer
  in hbbs, which takes the gateway's loopback address over as `update_addr` does a loopback
  one, is in no module.
* The session connection beyond port forwarding, and the services it dispatches to (video,
  audio, clipboard, files, terminals, input): platform code and I/O behind one loop.
* Configuration, trusted devices, updater, user interface, installers, deployment.
