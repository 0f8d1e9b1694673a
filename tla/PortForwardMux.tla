---------------------------- MODULE PortForwardMux ----------------------------
(***************************************************************************)
(* The channels of one multiplexed port-forward tunnel, both ends.         *)
(*                                                                         *)
(* Side "ctl" is the controller (TunnelHandle and tunnel_loop), side "srv" *)
(* the controlled side (PortForwardMux in server/port_forward_mux.rs and   *)
(* the connection's main loop).  run_channel is the same code on both and  *)
(* is modelled once.  Every demultiplexer, relay half and channel task     *)
(* takes steps of its own.                                                 *)
(*                                                                         *)
(* Bytes are counted in frames.  Windows and credit are in ChannelFlow:    *)
(* here the window check of an arriving frame may succeed or fail, and a   *)
(* relay half that is short of credit is one that does not read.  Channel  *)
(* ids are fresh; the 32-bit counter does not come round in a behaviour.   *)
(***************************************************************************)
EXTENDS Naturals, Sequences, FiniteSets

CONSTANTS
    MaxChannels,   \* MAX_CHANNELS
    QueueFrames,   \* DATA_QUEUE_FRAMES
    MaxOpens,      \* bound: channels opened in a behaviour
    MaxFrames,     \* bound: data frames one side sends on one channel
    MaxUpdates     \* bound: window_update frames in a behaviour

ASSUME MuxAssumption ==
    /\ MaxChannels \in Nat \ {0} /\ QueueFrames \in Nat \ {0}
    /\ MaxOpens \in Nat /\ MaxFrames \in Nat /\ MaxUpdates \in Nat

Side == {"ctl", "srv"}
Ids == 1..MaxOpens
Peer(s) == IF s = "ctl" THEN "srv" ELSE "ctl"

VARIABLES
    ch,       \* ch[s][c]: side s of channel c
    dataQ,    \* the controller's ordered queue (FrameSink::Queued.data)
    ctrlQ,    \* the controller's control queue
    stream,   \* stream[s]: frames on their way to side s
    loop,     \* loop[s]: "run", "closing" (close_all done) or "gone"
    nextId,   \* TunnelHandle.next_id
    updates   \* window_update frames sent so far

vars == <<ch, dataQ, ctrlQ, stream, loop, nextId, updates>>

\* A side of a channel.  entry: it is in the channels map, which holds the only
\* sender of inbox.  up and down: the halves of run_channel, "run" (for up also
\* "holding" a frame) or the RelayEnd they returned.  pending: frames buffered
\* while connecting.  sent, written: what went out and in, for the
\* properties.
NoChannel ==
    [entry |-> FALSE, task |-> "none", up |-> "run", down |-> "run",
     inbox |-> <<>>, pending |-> 0, sent |-> 0, written |-> 0]

Init ==
    /\ ch = [s \in Side |-> [c \in Ids |-> NoChannel]]
    /\ dataQ = <<>> /\ ctrlQ = <<>>
    /\ stream = [s \in Side |-> <<>>]
    /\ loop = [s \in Side |-> "run"]
    /\ nextId = 1
    /\ updates = 0

-----------------------------------------------------------------------------
Frame(kind, c) == [kind |-> kind, id |-> c]
Live(s) == {c \in Ids : ch[s][c].entry}

\* The receiving end of inbox exists: its task has not finished with it.
InboxOpen(x) == x.task \in {"opening", "connecting"} \/ (x.task = "running" /\ x.down = "run")

\* What recv returns: an item, or "none" once the sender is gone too.
NextItem(x) == IF x.inbox = <<>> THEN "none" ELSE Head(x.inbox)
Readable(x) == x.inbox /= <<>> \/ ~x.entry

DeliveredAlone(x, item) == IF InboxOpen(x) THEN [x EXCEPT !.inbox = <<item>>] ELSE x
Delivered(x, item) == IF InboxOpen(x) THEN [x EXCEPT !.inbox = Append(@, item)] ELSE x

Dropped(x) == [x EXCEPT !.entry = FALSE]

\* The task's end: only the controller's takes its own entry out of the map.
Finished(x) == [x EXCEPT !.task = "done", !.up = "run", !.inbox = <<>>, !.pending = 0]
OverKeepingEntry(s, x) == Finished(x)
Over(s, x) == IF s = "ctl" THEN Dropped(Finished(x)) ELSE Finished(x)

SinkGone(s) == loop[s] = "gone"
Room(s) == s = "ctl" => Len(dataQ) < QueueFrames

\* Nothing reaches a side that has stopped reading.
Sent(to, frame) ==
    IF loop[to] = "run" THEN [stream EXCEPT ![to] = Append(@, frame)] ELSE stream

\* FrameSink::send_ordered, for a sink that is not gone and has room.
SendOrdered(s, frame) ==
    \/ s = "ctl" /\ dataQ' = Append(dataQ, frame) /\ UNCHANGED stream
    \/ s = "srv" /\ stream' = Sent("ctl", frame) /\ UNCHANGED dataQ

-----------------------------------------------------------------------------
(* The controller opens a channel.                                          *)

Open ==
    /\ nextId <= MaxOpens
    /\ ~SinkGone("ctl")
    /\ Cardinality(Live("ctl")) < MaxChannels
    /\ ch' = [ch EXCEPT !["ctl"][nextId].entry = TRUE, !["ctl"][nextId].task = "opening"]
    /\ nextId' = nextId + 1
    /\ UNCHANGED <<dataQ, ctrlQ, stream, loop, updates>>

\* The first thing the channel's task does; if the sink is gone it is the last.
SendOpenAsControl(c) ==
    /\ ch["ctl"][c].task = "opening"
    /\ \/ /\ SinkGone("ctl")
          /\ ch' = [ch EXCEPT !["ctl"][c] = Over("ctl", @)]
          /\ UNCHANGED ctrlQ
       \/ /\ ~SinkGone("ctl")
          /\ ctrlQ' = Append(ctrlQ, Frame("open", c))
          /\ ch' = [ch EXCEPT !["ctl"][c].task = "running"]
    /\ UNCHANGED <<dataQ, stream, loop, nextId, updates>>

SendOpen(c) ==
    /\ ch["ctl"][c].task = "opening"
    /\ \/ /\ SinkGone("ctl")
          /\ ch' = [ch EXCEPT !["ctl"][c] = Over("ctl", @)]
          /\ UNCHANGED <<dataQ, stream>>
       \/ /\ ~SinkGone("ctl") /\ Room("ctl")
          /\ SendOrdered("ctl", Frame("open", c))
          /\ ch' = [ch EXCEPT !["ctl"][c].task = "running"]
    /\ UNCHANGED <<ctrlQ, loop, nextId, updates>>

-----------------------------------------------------------------------------
(* run_channel: two halves and the task that joins them.                    *)

Ends == {"LocalEof", "PeerClosed", "Violation", "Cancelled", "TunnelGone"}
Ended(half) == half \in Ends

\* relay_socket_to_tunnel
ReadSocket(s, c) ==
    /\ ch[s][c].task = "running" /\ ch[s][c].up = "run"
    /\ ch[s][c].sent < MaxFrames
    /\ ch' = [ch EXCEPT ![s][c].up = "holding"]
    /\ UNCHANGED <<dataQ, ctrlQ, stream, loop, nextId, updates>>

ReadEof(s, c) ==
    /\ ch[s][c].task = "running" /\ ch[s][c].up = "run"
    /\ ch' = [ch EXCEPT ![s][c].up = "LocalEof"]
    /\ UNCHANGED <<dataQ, ctrlQ, stream, loop, nextId, updates>>

SendData(s, c) ==
    /\ ch[s][c].task = "running" /\ ch[s][c].up = "holding"
    /\ \/ /\ SinkGone(s)
          /\ ch' = [ch EXCEPT ![s][c].up = "TunnelGone"]
          /\ UNCHANGED <<dataQ, stream>>
       \/ /\ ~SinkGone(s) /\ Room(s)
          /\ SendOrdered(s, Frame("data", c))
          /\ ch' = [ch EXCEPT ![s][c].up = "run", ![s][c].sent = @ + 1]
    /\ UNCHANGED <<ctrlQ, loop, nextId, updates>>

\* relay_tunnel_to_socket: the next frame to write, buffered ones first.
HasChunk(x) == x.pending > 0 \/ NextItem(x) = "data"
TakeChunk(x) == IF x.pending > 0 THEN [x EXCEPT !.pending = @ - 1] ELSE [x EXCEPT !.inbox = Tail(@)]

\* A written frame may be the one that makes a window_update due; the
\* controller's goes down the control queue.
SendControl(s, frame) ==
    \/ s = "ctl" /\ ctrlQ' = Append(ctrlQ, frame) /\ UNCHANGED stream
    \/ s = "srv" /\ stream' = Sent("ctl", frame) /\ UNCHANGED ctrlQ

WriteSocket(s, c) ==
    /\ ch[s][c].task = "running" /\ ch[s][c].down = "run"
    /\ HasChunk(ch[s][c])
    /\ LET x == [TakeChunk(ch[s][c]) EXCEPT !.written = @ + 1] IN
        \/ /\ ch' = [ch EXCEPT ![s][c] = x]
           /\ UNCHANGED <<ctrlQ, stream, updates>>
        \/ /\ updates < MaxUpdates /\ ~SinkGone(s)
           /\ SendControl(s, Frame("update", c))
           /\ ch' = [ch EXCEPT ![s][c] = x]
           /\ updates' = updates + 1
        \/ /\ updates < MaxUpdates /\ SinkGone(s)
           /\ ch' = [ch EXCEPT ![s][c] = [x EXCEPT !.down = "TunnelGone"]]
           /\ UNCHANGED <<ctrlQ, stream, updates>>
    /\ UNCHANGED <<dataQ, loop, nextId>>

WriteFails(s, c) ==
    /\ ch[s][c].task = "running" /\ ch[s][c].down = "run"
    /\ HasChunk(ch[s][c])
    /\ ch' = [ch EXCEPT ![s][c] = [TakeChunk(@) EXCEPT !.down = "LocalEof"]]
    /\ UNCHANGED <<dataQ, ctrlQ, stream, loop, nextId, updates>>

\* What the queue tells a half with nothing to write: the peer's close, a
\* violation, or that the sender is gone.
InboxEnd(x) ==
    CASE NextItem(x) = "close" -> "PeerClosed"
      [] NextItem(x) = "violation" -> "Violation"
      [] NextItem(x) = "none" -> "TunnelGone"

ReadInboxEnd(s, c) ==
    /\ ch[s][c].task = "running" /\ ch[s][c].down = "run"
    /\ ~HasChunk(ch[s][c])
    /\ Readable(ch[s][c])
    /\ ch' = [ch EXCEPT ![s][c].down = InboxEnd(ch[s][c])]
    /\ UNCHANGED <<dataQ, ctrlQ, stream, loop, nextId, updates>>

\* cancel_tx: the other half ended, or close_all raised teardown.
CancelledByPeerHalf(s, x) == Ended(x.up) \/ Ended(x.down)
Cancelling(s, x) == Ended(x.up) \/ Ended(x.down) \/ loop[s] /= "run"

CancelUp(s, c) ==
    /\ ch[s][c].task = "running" /\ ch[s][c].up = "run"
    /\ Cancelling(s, ch[s][c])
    /\ ch' = [ch EXCEPT ![s][c].up = "Cancelled"]
    /\ UNCHANGED <<dataQ, ctrlQ, stream, loop, nextId, updates>>

CancelDown(s, c) ==
    /\ ch[s][c].task = "running" /\ ch[s][c].down = "run"
    /\ Cancelling(s, ch[s][c])
    /\ ch' = [ch EXCEPT ![s][c].down = "Cancelled"]
    /\ UNCHANGED <<dataQ, ctrlQ, stream, loop, nextId, updates>>

\* Both halves are over: close is owed for a local end that the peer does not
\* know of.
OwesCloseOnReadEof(x) == x.up = "LocalEof" /\ x.down \in {"LocalEof", "Cancelled"}
OwesClose(x) ==
    /\ x.down /= "PeerClosed"
    /\ x.up /= "TunnelGone" /\ x.down /= "TunnelGone"
    /\ x.up = "LocalEof" \/ x.down \in {"LocalEof", "Violation"}

JoinHalves(s, c) ==
    /\ ch[s][c].task = "running" /\ Ended(ch[s][c].up) /\ Ended(ch[s][c].down)
    /\ ch' = [ch EXCEPT ![s][c] = IF OwesClose(@) THEN [@ EXCEPT !.task = "closing"] ELSE Over(s, @)]
    /\ UNCHANGED <<dataQ, ctrlQ, stream, loop, nextId, updates>>

SendClose(s, c) ==
    /\ ch[s][c].task = "closing"
    /\ \/ /\ SinkGone(s)
          /\ ch' = [ch EXCEPT ![s][c] = Over(s, @)]
          /\ UNCHANGED <<dataQ, stream>>
       \/ /\ ~SinkGone(s) /\ Room(s)
          /\ SendOrdered(s, Frame("close", c))
          /\ ch' = [ch EXCEPT ![s][c] = Over(s, @)]
    /\ UNCHANGED <<ctrlQ, loop, nextId, updates>>

-----------------------------------------------------------------------------
(* run_controlled_channel, until the target is connected.  A queued command *)
(* always wins over the connect.                                            *)

ConnectingCommand(c) ==
    LET x == ch["srv"][c] IN
    /\ x.task = "connecting"
    /\ Readable(x)
    /\ \/ /\ NextItem(x) = "data"
          /\ ch' = [ch EXCEPT !["srv"][c] = [x EXCEPT !.inbox = Tail(@), !.pending = @ + 1]]
          /\ UNCHANGED stream
       \/ /\ NextItem(x) \in {"close", "none"}
          /\ ch' = [ch EXCEPT !["srv"][c] = Over("srv", x)]
          /\ UNCHANGED stream
       \/ \* more than pending_fits, or than the window
          /\ NextItem(x) \in {"data", "violation"}
          /\ stream' = IF SinkGone("srv") THEN stream ELSE Sent("ctl", Frame("close", c))
          /\ ch' = [ch EXCEPT !["srv"][c] = Over("srv", x)]
    /\ UNCHANGED <<dataQ, ctrlQ, loop, nextId, updates>>

Connectable(x) == x.task = "connecting" /\ ~Readable(x)

Connected(c) ==
    /\ Connectable(ch["srv"][c])
    /\ \/ /\ SinkGone("srv")
          /\ ch' = [ch EXCEPT !["srv"][c] = Over("srv", @)]
          /\ UNCHANGED stream
       \/ /\ ~SinkGone("srv")
          /\ stream' = Sent("ctl", Frame("opened", c))
          /\ ch' = [ch EXCEPT !["srv"][c].task = "running"]
    /\ UNCHANGED <<dataQ, ctrlQ, loop, nextId, updates>>

ConnectFails(c) ==
    /\ Connectable(ch["srv"][c])
    /\ stream' = IF SinkGone("srv") THEN stream ELSE Sent("ctl", Frame("refused", c))
    /\ ch' = [ch EXCEPT !["srv"][c] = Over("srv", @)]
    /\ UNCHANGED <<dataQ, ctrlQ, loop, nextId, updates>>

-----------------------------------------------------------------------------
(* The demultiplexers: on_frame at the controller, handle at the other end. *)

Arrives(s, kind, c) ==
    loop[s] = "run" /\ stream[s] /= <<>> /\ Head(stream[s]) = Frame(kind, c)

Consumed(s) == [stream EXCEPT ![s] = Tail(@)]

\* Data is checked against the window, then queued; a channel that overran it
\* or whose task no longer listens is dropped on the spot.
OnData(s, c) ==
    /\ Arrives(s, "data", c)
    /\ stream' = Consumed(s)
    /\ LET x == ch[s][c] IN
        \/ /\ ~x.entry
           /\ UNCHANGED ch
        \/ /\ x.entry /\ InboxOpen(x)
           /\ ch' = [ch EXCEPT ![s][c] = Delivered(x, "data")]
        \/ /\ x.entry /\ ~InboxOpen(x)
           /\ ch' = [ch EXCEPT ![s][c] = Dropped(x)]
        \/ /\ x.entry
           /\ ch' = [ch EXCEPT ![s][c] = Dropped(Delivered(x, "violation"))]
    /\ UNCHANGED <<dataQ, ctrlQ, loop, nextId, updates>>

OnClose(s, c) ==
    /\ Arrives(s, "close", c)
    /\ stream' = Consumed(s)
    /\ ch' = [ch EXCEPT ![s][c] = IF @.entry THEN Dropped(Delivered(@, "close")) ELSE @]
    /\ UNCHANGED <<dataQ, ctrlQ, loop, nextId, updates>>

\* window_update and a successful `opened` change credit only (ChannelFlow).
OnCredit(s, c) ==
    /\ Arrives(s, "update", c) \/ (s = "ctl" /\ Arrives(s, "opened", c))
    /\ stream' = Consumed(s)
    /\ UNCHANGED <<ch, dataQ, ctrlQ, loop, nextId, updates>>

OnRefused(c) ==
    /\ Arrives("ctl", "refused", c)
    /\ stream' = Consumed("ctl")
    /\ ch' = [ch EXCEPT !["ctl"][c] = IF @.entry THEN Dropped(Delivered(@, "close")) ELSE @]
    /\ UNCHANGED <<dataQ, ctrlQ, loop, nextId, updates>>

\* on_open: entries whose task has ended go first; then the permission, the
\* limit and the target decide.
Retained == [c \in Ids |-> IF InboxOpen(ch["srv"][c]) THEN ch["srv"][c] ELSE Dropped(ch["srv"][c])]

OnOpen(c) ==
    /\ Arrives("srv", "open", c)
    /\ LET kept == Cardinality({d \in Ids : Retained[d].entry}) IN
        \/ \* no permission, or not the login's target, or the limit
           /\ stream' = [Consumed("srv") EXCEPT !["ctl"] =
                            IF loop["ctl"] = "run" THEN Append(@, Frame("refused", c)) ELSE @]
           /\ ch' = [ch EXCEPT !["srv"] = [Retained EXCEPT ![c].task = "done"]]
        \/ /\ kept < MaxChannels
           /\ stream' = Consumed("srv")
           /\ ch' = [ch EXCEPT !["srv"] =
                        [Retained EXCEPT ![c].entry = TRUE, ![c].task = "connecting"]]
    /\ UNCHANGED <<dataQ, ctrlQ, loop, nextId, updates>>

-----------------------------------------------------------------------------
(* tunnel_loop sends from whichever queue it picks; either loop may end.    *)

PumpData ==
    /\ loop["ctl"] = "run" /\ dataQ /= <<>>
    /\ stream' = Sent("srv", Head(dataQ))
    /\ dataQ' = Tail(dataQ)
    /\ UNCHANGED <<ch, ctrlQ, loop, nextId, updates>>

PumpControl ==
    /\ loop["ctl"] = "run" /\ ctrlQ /= <<>>
    /\ stream' = Sent("srv", Head(ctrlQ))
    /\ ctrlQ' = Tail(ctrlQ)
    /\ UNCHANGED <<ch, dataQ, loop, nextId, updates>>

\* The loop breaks; close_all clears the map and raises teardown.
CloseAll(s) ==
    /\ loop[s] = "run"
    /\ loop' = [loop EXCEPT ![s] = "closing"]
    /\ ch' = [ch EXCEPT ![s] = [c \in Ids |-> Dropped(ch[s][c])]]
    /\ stream' = [stream EXCEPT ![s] = <<>>]
    /\ UNCHANGED <<dataQ, ctrlQ, nextId, updates>>

\* An end for a reason of this side's own, and one because the peer left.
BreakLocally(s) == CloseAll(s)
BreakOnReset(s) == loop[Peer(s)] = "gone" /\ CloseAll(s)

\* The loop returns: its receivers are dropped and every sink is closed.
LoopGone(s) ==
    /\ loop[s] = "closing"
    /\ loop' = [loop EXCEPT ![s] = "gone"]
    /\ dataQ' = IF s = "ctl" THEN <<>> ELSE dataQ
    /\ ctrlQ' = IF s = "ctl" THEN <<>> ELSE ctrlQ
    /\ UNCHANGED <<ch, stream, nextId, updates>>

-----------------------------------------------------------------------------
TaskStep(s, c) ==
    \/ SendData(s, c) \/ ReadInboxEnd(s, c) \/ CancelUp(s, c) \/ CancelDown(s, c)
    \/ JoinHalves(s, c) \/ SendClose(s, c)

FrameStep(s, c) == OnData(s, c) \/ OnClose(s, c) \/ OnCredit(s, c)

Next ==
    \/ Open
    \/ \E c \in Ids :
        \/ SendOpen(c) \/ ConnectingCommand(c) \/ Connected(c) \/ ConnectFails(c)
        \/ OnRefused(c) \/ OnOpen(c)
    \/ \E s \in Side, c \in Ids :
        \/ ReadSocket(s, c) \/ ReadEof(s, c) \/ WriteSocket(s, c) \/ WriteFails(s, c)
        \/ TaskStep(s, c) \/ FrameStep(s, c)
    \/ PumpData \/ PumpControl
    \/ \E s \in Side : BreakLocally(s) \/ LoopGone(s)

Spec == Init /\ [][Next]_vars

\* Tasks and loops that can step are scheduled, a connect is answered within
\* CONNECT_TIMEOUT_MS, a loop whose peer left gets a reset or a read timeout.
\* Nothing is owed by the two sockets: a half may be parked on them for ever.
Fairness ==
    /\ \A c \in Ids :
        /\ WF_vars(SendOpen(c)) /\ WF_vars(ConnectingCommand(c))
        /\ WF_vars(Connected(c) \/ ConnectFails(c))
        /\ WF_vars(OnRefused(c)) /\ WF_vars(OnOpen(c))
    /\ \A s \in Side, c \in Ids :
        /\ WF_vars(SendData(s, c)) /\ WF_vars(ReadInboxEnd(s, c))
        /\ WF_vars(CancelUp(s, c)) /\ WF_vars(CancelDown(s, c))
        /\ WF_vars(JoinHalves(s, c)) /\ WF_vars(SendClose(s, c))
        /\ WF_vars(FrameStep(s, c))
    /\ WF_vars(PumpData) /\ WF_vars(PumpControl)
    /\ \A s \in Side : WF_vars(BreakOnReset(s)) /\ WF_vars(LoopGone(s))

FairSpec == Spec /\ Fairness

\* The sockets, too, take what is written to them or fail.
SocketFairness ==
    \A s \in Side, c \in Ids : WF_vars(WriteSocket(s, c) \/ WriteFails(s, c))

-----------------------------------------------------------------------------
Frames == [kind : {"open", "opened", "refused", "data", "close", "update"}, id : Ids]

\* Types, and the bounds the code states: both maps hold at most MAX_CHANNELS
\* channels and the ordered queue at most DATA_QUEUE_FRAMES frames.
TypeOK ==
    /\ \A s \in Side, c \in Ids : ch[s][c] \in
        [entry : BOOLEAN,
         task : {"none", "opening", "connecting", "running", "closing", "done"},
         up : {"run", "holding"} \cup Ends, down : {"run"} \cup Ends,
         inbox : Seq({"data", "close", "violation"}),
         pending : 0..MaxFrames, sent : 0..MaxFrames, written : 0..MaxFrames]
    /\ \A s \in Side, c \in Ids : Len(ch[s][c].inbox) <= MaxFrames + 1
    /\ \A s \in Side : Cardinality(Live(s)) <= MaxChannels
    /\ Len(dataQ) <= QueueFrames
    /\ \A s \in Side : loop[s] \in {"run", "closing", "gone"}
    /\ \A q \in {dataQ, ctrlQ, stream["ctl"], stream["srv"]} : q \in Seq(Frames)

\* A frame of a channel never reaches the controlled side ahead of its `open`,
\* although tunnel_loop serves two queues in random order.
OpenArrivesFirst ==
    stream["srv"] /= <<>> /\ Head(stream["srv"]).kind /= "open"
        => ch["srv"][Head(stream["srv"]).id].task /= "none"

\* What the two ends of a channel have done, as its users see it.
Seen(task) == IF task = "none" THEN "idle" ELSE IF task = "done" THEN "ended" ELSE "open"

Channel == INSTANCE ForwardedChannel WITH
    Channels <- Ids,
    state    <- [s \in Side |-> [c \in Ids |-> Seen(ch[s][c].task)]],
    sent     <- [s \in Side |-> [c \in Ids |-> ch[s][c].sent]],
    received <- [s \in Side |-> [c \in Ids |-> ch[s][c].written]],
    closed   <- [s \in Side |-> [c \in Ids |-> ch[s][c].down = "PeerClosed"]]

\* The mux implements the channels it promises: nothing is written that was
\* not sent, the controlled end starts after the controller's, and an end
\* that saw the peer's `close` or refusal has written everything the peer
\* sent: a close never overtakes data nor cancels the writing of it.
ImplementsChannel == Channel!Spec

\* The controller's map holds no channel whose task is over, not even one
\* inserted while close_all was clearing it.
NoDeadEntry ==
    \A c \in DOMAIN ch["ctl"] : ch["ctl"][c].entry => ch["ctl"][c].task \notin {"none", "done"}

\* Once a tunnel is gone every channel task of that side ends, including those
\* parked on a socket, on a full queue, or opened while it was closing.
TeardownEndsChannels ==
    \A s \in Side :
        loop[s] = "gone" ~> \A c \in Ids : ch[s][c].task \in {"none", "done"}

\* Neither end of a channel outlives the other for ever, if the sockets take
\* what is written to them or fail.
EndsTogether ==
    SocketFairness =>
        \A s \in Side, c \in Ids :
            ch[s][c].task = "done" ~> [](ch[Peer(s)][c].task \in {"none", "done"})
=============================================================================
