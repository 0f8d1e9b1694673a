------------------------------ MODULE FlowWindow ------------------------------
(***************************************************************************)
(* The arithmetic of port-forward flow control: client/src/                *)
(* port_forward_mux.rs, RecvWindow and SendCredit.  Pure operators, shared *)
(* by the state machines ChannelFlow (one direction of one channel, every  *)
(* byte accounted for) and PortForwardMux (whole channels).                *)
(***************************************************************************)
EXTENDS Naturals

CONSTANTS
    InitialWindow,    \* INITIAL_WINDOW, what may be in flight before `opened`
    ChannelWindow,    \* CHANNEL_WINDOW, also MAX_SEND_CREDIT
    MinFrameCharge,   \* MIN_FRAME_CHARGE, what the shortest frame costs
    MaxFrame,         \* MAX_FRAME, the longest frame
    UpdateThreshold,  \* UPDATE_THRESHOLD, drained before a window_update
    U32Max            \* the largest u32

\* The relations between the constants of the source that the protocol needs.
\* With the values of the code: 64 <= 65536 <= 262144, 131072 + 64 <= 262145.
ASSUME WindowAssumption ==
    /\ InitialWindow \in Nat /\ ChannelWindow \in Nat /\ MinFrameCharge \in Nat
    /\ MaxFrame \in Nat /\ UpdateThreshold \in Nat /\ U32Max \in Nat
    /\ 1 <= MinFrameCharge
    /\ MinFrameCharge <= MaxFrame
    /\ MinFrameCharge <= InitialWindow
    /\ InitialWindow <= ChannelWindow
    /\ UpdateThreshold + MinFrameCharge <= ChannelWindow + 1
    /\ ChannelWindow <= U32Max

Larger(a, b) == IF a >= b THEN a ELSE b
Smaller(a, b) == IF a <= b THEN a ELSE b

SaturatingAdd(a, b) == Smaller(a + b, U32Max)

MaxSendCredit == ChannelWindow

EffectiveWindow(advertised) == Larger(advertised, InitialWindow)

\* What a data frame of this length costs its channel's window.
Charge(len) == Larger(len, MinFrameCharge)

-----------------------------------------------------------------------------
\* RecvWindow: the peer's remaining credit and what was drained since the last
\* window_update.
Accepts(remaining, len) == Charge(len) <= remaining

NotWidened(remaining, n) == remaining
WidenedBy(remaining, n) == SaturatingAdd(remaining, n)

DrainedBy(drained, len) == SaturatingAdd(drained, Charge(len))

UpdateDueWhenFull(drained) == drained >= ChannelWindow
UpdateDue(drained) == drained >= UpdateThreshold

-----------------------------------------------------------------------------
\* SendCredit: take parks below a whole minimum charge; add saturates at
\* MAX_SEND_CREDIT; raise_initial re-bases from INITIAL_WINDOW.
NewCredit(initial) == Smaller(initial, MaxSendCredit)

CanTake(credit) == credit >= MinFrameCharge

Taken(credit) == Smaller(credit, MaxFrame)

CreditPlus(credit, n) == Smaller(SaturatingAdd(credit, n), MaxSendCredit)

UnbasedRaise(total) == EffectiveWindow(total)
InitialRaise(total) == EffectiveWindow(total) - InitialWindow
=============================================================================
