---------------------- MODULE PortForwardMuxInvariant -----------------------
(* The inductive invariant of the channels of a multiplexed tunnel.          *)
(*                                                                           *)
(* The controller's frames take two roads, the ordered queue and the control *)
(* queue, which tunnel_loop serves in any order.  That none arrives ahead of *)
(* its channel's `open' has two reasons.  In the ordered queue and on the    *)
(* stream an earlier `open' stands in front (Ahead, Queued), because a task  *)
(* only sends after it has sent that (Started).  Down the control queue goes *)
(* only what answers a frame of the peer, who knows the channel then         *)
(* (FromSrv, InboxKnown, Answers).                                           *)
EXTENDS PortForwardMux

Channels ==
    [entry : BOOLEAN,
     task : {"none", "opening", "connecting", "running", "closing", "done"},
     up : {"run", "holding"} \cup Ends, down : {"run"} \cup Ends,
     inbox : Seq({"data", "close", "violation"}),
     pending : Nat, sent : Nat, written : Nat]

Types ==
    /\ ch \in [Side -> [Ids -> Channels]]
    /\ dataQ \in Seq(Frames) /\ ctrlQ \in Seq(Frames)
    /\ stream \in [Side -> Seq(Frames)]
    /\ loop \in [Side -> {"run", "closing", "gone"}]
    /\ nextId \in Nat \ {0}

Known(m, c) == m["srv"][c].task # "none"
Announces(q, n, c) == \E j \in 1..n : q[j] = Frame("open", c)
OnStream(m, c) == Announces(m["srv"], Len(m["srv"]), c)

\* A task that has sent its `open' and may send more.
Sending(x) == x.task \in {"running", "closing"}
Full(x) == x.inbox # <<>> \/ x.pending > 0

Silent == loop["srv"] # "run" => stream["srv"] = <<>>
FromSrv == \A i \in 1..Len(stream["ctl"]) : Known(ch, stream["ctl"][i].id)
InboxKnown == \A c \in Ids : Full(ch["ctl"][c]) => Known(ch, c)
Answers == \A i \in 1..Len(ctrlQ) : Known(ch, ctrlQ[i].id)
Ahead ==
    \A i \in 1..Len(stream["srv"]) :
        LET c == stream["srv"][i].id IN Known(ch, c) \/ Announces(stream["srv"], i, c)
Queued ==
    loop["srv"] = "run" =>
        \A i \in 1..Len(dataQ) :
            LET c == dataQ[i].id IN Known(ch, c) \/ OnStream(stream, c) \/ Announces(dataQ, i, c)
Started ==
    loop["srv"] = "run" /\ loop["ctl"] # "gone" =>
        \A c \in Ids : Sending(ch["ctl"][c]) =>
            Known(ch, c) \/ OnStream(stream, c) \/ Announces(dataQ, Len(dataQ), c)
LiveEntries ==
    \A c \in Ids : ch["ctl"][c].entry => ch["ctl"][c].task \notin {"none", "done"}

IInv ==
    /\ Types /\ Silent /\ FromSrv /\ InboxKnown /\ Answers /\ Ahead /\ Queued /\ Started
    /\ LiveEntries
=============================================================================
