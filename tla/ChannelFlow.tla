----------------------------- MODULE ChannelFlow -----------------------------
(***************************************************************************)
(* Flow control of one direction of one port-forward channel.              *)
(*                                                                         *)
(* The sending half is relay_socket_to_tunnel, the receiving half is the   *)
(* demultiplexer (on_frame / handle) followed by run_controlled_channel    *)
(* and relay_tunnel_to_socket.  Direction "up" is controller to            *)
(* controlled: it starts on INITIAL_WINDOW while the target is being       *)
(* connected and is raised by `opened`.  Direction "down" is controlled to *)
(* controller and starts on the window the controller put in `open`.       *)
(*                                                                         *)
(* wire is everything between the two ends that keeps the order of the     *)
(* data (the sink's queue, the stream, the peer's reader), back is the     *)
(* same for the frames that return credit.  The variables sent, accepted,  *)
(* written, promised and granted are history variables: positions in the   *)
(* stream of charges.  They appear in no guard.  Ends of the channel other *)
(* than the sender's own are in PortForwardMux.                            *)
(***************************************************************************)
EXTENDS FlowWindow, Sequences

CONSTANTS MaxSent,     \* bound: charges the sender may send in a behaviour
          MaxRepeats   \* bound: superfluous `opened` frames from the peer

ASSUME FlowBoundsAssumption == MaxSent \in Nat /\ MaxRepeats \in Nat

VARIABLES
    dir,        \* "up" or "down", fixed
    sender,     \* relay_socket_to_tunnel: "take", "read" or "ended"
    credit,     \* SendCredit.credit
    allow,      \* what the sender took and has not spent or refunded
    wire,       \* data frames on their way to the receiver
    queue,      \* accepted frames, not yet written (Inbound queue and pending)
    phase,      \* receiver: "connecting", "granted" or "open"
    buffered,   \* number of frames of queue moved to pending while connecting
    pendingLen, \* pending_len, their charge
    remaining,  \* RecvWindow.remaining
    drained,    \* RecvWindow.drained_since_update
    back,       \* opened and window_update frames on their way to the sender
    opened,     \* ChannelEntry.opened at the controller
    repeats,    \* superfluous `opened` frames sent so far
    overrun,    \* the receiver has closed the channel for a window violation
    sent, accepted, written, promised, granted

senderVars == <<sender, credit, allow, opened>>
receiverVars == <<phase, buffered, pendingLen, remaining, drained>>
history == <<sent, accepted, written, promised, granted>>
vars == <<dir, senderVars, wire, queue, receiverVars, back, repeats, overrun, history>>

InitialGrant == IF dir = "up" THEN InitialWindow ELSE ChannelWindow

Init ==
    /\ \/ dir = "up" /\ phase = "connecting" /\ opened = FALSE
       \/ dir = "down" /\ phase = "open" /\ opened = TRUE
    /\ sender = "take"
    /\ credit = NewCredit(EffectiveWindow(InitialGrant))
    /\ allow = 0
    /\ wire = <<>> /\ queue = <<>> /\ back = <<>>
    /\ buffered = 0 /\ pendingLen = 0
    /\ remaining = EffectiveWindow(InitialGrant)
    /\ drained = 0
    /\ repeats = 0
    /\ overrun = FALSE
    /\ sent = 0 /\ accepted = 0 /\ written = 0
    /\ promised = InitialGrant
    /\ granted = InitialGrant

-----------------------------------------------------------------------------
(* The sender: relay_socket_to_tunnel.                                      *)

Take ==
    /\ sender = "take"
    /\ CanTake(credit)
    /\ allow' = Taken(credit)
    /\ credit' = credit - Taken(credit)
    /\ sender' = "read"
    /\ UNCHANGED <<dir, wire, queue, receiverVars, back, opened, repeats, overrun, history>>

\* The refund that ends a read: what was taken and not spent.
RefundedNothing(spent) == credit
Refunded(spent) == IF spent < allow THEN CreditPlus(credit, allow - spent) ELSE credit

\* A read of got bytes becomes one frame; it pays its charge.
Read(got) ==
    /\ sender = "read"
    /\ sent + Charge(got) <= MaxSent
    /\ credit' = Refunded(Charge(got))
    /\ allow' = 0
    /\ wire' = Append(wire, [len |-> got, end |-> sent + Charge(got)])
    /\ sent' = sent + Charge(got)
    /\ sender' = "take"
    /\ UNCHANGED <<dir, queue, receiverVars, back, opened, repeats, overrun,
                   accepted, written, promised, granted>>

\* End of file or a read error: everything taken goes back.
ReadEof ==
    /\ sender = "read"
    /\ credit' = Refunded(0)
    /\ allow' = 0
    /\ sender' = "ended"
    /\ UNCHANGED <<dir, wire, queue, receiverVars, back, opened, repeats, overrun, history>>

\* The other half or the tunnel ended while this one was parked on credit or
\* on the socket.
Cancelled ==
    /\ sender \in {"take", "read"}
    /\ credit' = IF sender = "read" THEN CreditPlus(credit, allow) ELSE credit
    /\ allow' = 0
    /\ sender' = "ended"
    /\ UNCHANGED <<dir, wire, queue, receiverVars, back, opened, repeats, overrun, history>>

\* on_frame at the controller, handle at the controlled side.
CreditAfterUnguarded(frame) ==
    IF frame.kind = "update" THEN CreditPlus(credit, frame.add)
    ELSE IF InitialRaise(frame.add) > 0 THEN CreditPlus(credit, InitialRaise(frame.add))
    ELSE credit

CreditAfter(frame) ==
    IF frame.kind = "update" THEN CreditPlus(credit, frame.add)
    ELSE IF ~opened /\ InitialRaise(frame.add) > 0
         THEN CreditPlus(credit, InitialRaise(frame.add))
    ELSE credit

ReceiveCredit ==
    /\ back /= <<>>
    /\ LET frame == Head(back) IN
        /\ credit' = CreditAfter(frame)
        /\ opened' = (opened \/ frame.kind = "opened")
        /\ granted' = frame.end
    /\ back' = Tail(back)
    /\ UNCHANGED <<dir, sender, allow, wire, queue, receiverVars, repeats, overrun,
                   sent, accepted, written, promised>>

-----------------------------------------------------------------------------
(* The receiver.                                                            *)

\* A data frame reaches the demultiplexer.  Once the channel was dropped for
\* a violation its entry is gone and later frames are ignored.
Deliver ==
    /\ wire /= <<>>
    /\ LET frame == Head(wire)
           fits == ~overrun /\ Accepts(remaining, frame.len) IN
        /\ remaining' = IF fits THEN remaining - Charge(frame.len) ELSE remaining
        /\ queue' = IF fits THEN Append(queue, frame) ELSE queue
        /\ accepted' = IF fits THEN frame.end ELSE accepted
        /\ overrun' = ~fits
    /\ wire' = Tail(wire)
    /\ UNCHANGED <<dir, senderVars, phase, buffered, pendingLen, drained, back, repeats,
                   sent, written, promised, granted>>

PendingFitsStrictly(charged, len) == charged + Charge(len) < InitialWindow
PendingFits(charged, len) == charged + Charge(len) <= InitialWindow

\* While the target is being connected the channel task empties its queue
\* into pending.
Buffer ==
    /\ phase = "connecting"
    /\ buffered < Len(queue)
    /\ LET frame == queue[buffered + 1]
           fits == PendingFits(pendingLen, frame.len) IN
        /\ buffered' = IF fits THEN buffered + 1 ELSE buffered
        /\ pendingLen' = IF fits THEN pendingLen + Charge(frame.len) ELSE pendingLen
        /\ overrun' = (overrun \/ ~fits)
    /\ UNCHANGED <<dir, senderVars, wire, queue, phase, remaining, drained, back,
                   repeats, history>>

\* The connect succeeded with no command queued: the window is widened
\* before `opened` leaves.
Grant ==
    /\ phase = "connecting"
    /\ buffered = Len(queue)
    /\ phase' = "granted"
    /\ remaining' = WidenedBy(remaining, ChannelWindow - InitialWindow)
    /\ promised' = promised + (ChannelWindow - InitialWindow)
    /\ buffered' = 0 /\ pendingLen' = 0
    /\ UNCHANGED <<dir, senderVars, wire, queue, drained, back, repeats, overrun,
                   sent, accepted, written, granted>>

SendOpened ==
    /\ phase = "granted"
    /\ phase' = "open"
    /\ back' = Append(back, [kind |-> "opened", add |-> ChannelWindow, end |-> promised])
    /\ UNCHANGED <<dir, senderVars, wire, queue, buffered, pendingLen, remaining, drained,
                   repeats, overrun, history>>

\* relay_tunnel_to_socket: one frame is written to the local socket.
Write ==
    /\ phase = "open"
    /\ queue /= <<>>
    /\ LET frame == Head(queue)
           total == DrainedBy(drained, frame.len)
           due == UpdateDue(total) IN
        /\ written' = frame.end
        /\ drained' = IF due THEN 0 ELSE total
        /\ remaining' = IF due THEN WidenedBy(remaining, total) ELSE remaining
        /\ promised' = IF due THEN promised + total ELSE promised
        /\ back' = IF due
                   THEN Append(back, [kind |-> "update", add |-> total, end |-> promised + total])
                   ELSE back
    /\ queue' = Tail(queue)
    /\ UNCHANGED <<dir, senderVars, wire, phase, buffered, pendingLen, repeats, overrun,
                   sent, accepted, granted>>

\* `opened` once more for a channel that is open already; it promises nothing.
RepeatOpened ==
    /\ dir = "up" /\ phase = "open"
    /\ repeats < MaxRepeats
    /\ repeats' = repeats + 1
    /\ back' = Append(back, [kind |-> "opened", add |-> ChannelWindow, end |-> promised])
    /\ UNCHANGED <<dir, senderVars, wire, queue, receiverVars, overrun, history>>

-----------------------------------------------------------------------------
Next ==
    \/ Take
    \/ \E got \in 1..allow : Read(got)
    \/ ReadEof
    \/ Cancelled
    \/ ReceiveCredit
    \/ Deliver
    \/ Buffer
    \/ Grant
    \/ SendOpened
    \/ Write
    \/ RepeatOpened

Spec == Init /\ [][Next]_vars

\* The tunnel keeps carrying frames, the connect completes, and the local
\* socket keeps accepting what is written to it; the local application owes
\* no read.
Fairness ==
    /\ WF_vars(Take) /\ WF_vars(ReceiveCredit) /\ WF_vars(Deliver) /\ WF_vars(Buffer)
    /\ WF_vars(Grant) /\ WF_vars(SendOpened) /\ WF_vars(Write)

FairSpec == Spec /\ Fairness

-----------------------------------------------------------------------------
Frames == [len : 1..MaxFrame, end : Nat]
CreditFrames == [kind : {"opened", "update"}, add : Nat, end : Nat]

\* Every variable stays in its domain.  allow never exceeds a frame and no
\* frame is longer than MAX_FRAME, so the scratch buffer is never overrun.
TypeOK ==
    /\ dir \in {"up", "down"}
    /\ sender \in {"take", "read", "ended"}
    /\ credit \in Nat /\ allow \in 0..MaxFrame
    /\ wire \in Seq(Frames) /\ queue \in Seq(Frames) /\ back \in Seq(CreditFrames)
    /\ phase \in {"connecting", "granted", "open"}
    /\ buffered \in Nat /\ pendingLen \in Nat
    /\ remaining \in Nat /\ drained \in Nat
    /\ opened \in BOOLEAN /\ overrun \in BOOLEAN
    /\ repeats \in Nat
    /\ sent \in Nat /\ accepted \in Nat /\ written \in Nat
    /\ promised \in Nat /\ granted \in Nat

\* Two ends that follow the code never trip the receiver's window check
\* (RecvWindow::accept) nor the check on bytes buffered before the connect
\* (pending_fits): no channel is closed as a violation.
NoOverrun == ~overrun

\* Credit is conserved: what the sender holds is exactly what it was granted
\* and did not send.  Neither a refund nor an update is ever cut off at
\* MAX_SEND_CREDIT or at the width of the counter, which would lose credit
\* for the rest of the channel's life.
CreditConserved == credit + allow + sent = granted

\* The receiver's counter is exactly what it promised less what it accepted.
WindowConserved == ~overrun => remaining + accepted = promised

\* However fast the sender and slow the local socket, what is between them,
\* on the tunnel or queued, costs at most CHANNEL_WINDOW: the unbounded
\* queues of the code (Inbound, the control queue, FrameSink::Direct) are
\* bounded by credit alone.
InFlightBounded == sent - written <= ChannelWindow

\* A channel cannot stall: once everything sent was written and every credit
\* frame arrived, the sender has enough credit to send again, although up to
\* UPDATE_THRESHOLD - 1 drained bytes are never advertised.
NoStall ==
    (phase = "open" /\ wire = <<>> /\ queue = <<>> /\ back = <<>> /\ sender = "take" /\ ~overrun)
        => CanTake(credit)

\* Everything sent reaches the local socket.
EverythingWritten == \A n \in 1..MaxSent : (sent >= n) ~> (written >= n)
=============================================================================
