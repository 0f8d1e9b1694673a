------------------------- MODULE ForwardedChannel -------------------------
(* What the user of a forwarded port is promised, without queues, windows    *)
(* or tasks: between its two ends a channel is a pair of one-way streams.    *)
(* Each end starts once, the controller's first; what one end sends the      *)
(* other receives in order and at most once; and an end that is told of the  *)
(* other's close has received all of it.  Either end may also break off at   *)
(* any time.  PortForwardMux implements this.                                *)
EXTENDS Naturals

CONSTANT Channels

Ends == {"ctl", "srv"}
Other(s) == IF s = "ctl" THEN "srv" ELSE "ctl"

VARIABLES
    state,      \* state[s][c]: "idle", "open", "ended"
    sent,       \* sent[s][c]: frames end s has put into the channel
    received,   \* received[s][c]: frames end s has taken out of it
    closed      \* closed[s][c]: end s knows that the other will send no more

chanVars == <<state, sent, received, closed>>

All(v) == [s \in Ends |-> [c \in Channels |-> v]]

Init ==
    /\ state = All("idle") /\ closed = All(FALSE)
    /\ sent = All(0) /\ received = All(0)

Start(s, c) ==
    /\ state[s][c] = "idle"
    /\ s = "srv" => state["ctl"][c] # "idle"
    /\ \E st \in {"open", "ended"} : state' = [state EXCEPT ![s][c] = st]
    /\ UNCHANGED <<sent, received, closed>>

Send(s, c) ==
    /\ state[s][c] = "open"
    /\ sent' = [sent EXCEPT ![s][c] = @ + 1]
    /\ UNCHANGED <<state, received, closed>>

Receive(s, c) ==
    /\ state[s][c] = "open" /\ ~closed[s][c]
    /\ received[s][c] < sent[Other(s)][c]
    /\ received' = [received EXCEPT ![s][c] = @ + 1]
    /\ UNCHANGED <<state, sent, closed>>

LearnClose(s, c) ==
    /\ state[s][c] = "open" /\ ~closed[s][c]
    /\ state[Other(s)][c] = "ended" /\ received[s][c] = sent[Other(s)][c]
    /\ closed' = [closed EXCEPT ![s][c] = TRUE]
    /\ UNCHANGED <<state, sent, received>>

End(s, c) ==
    /\ state[s][c] = "open"
    /\ state' = [state EXCEPT ![s][c] = "ended"]
    /\ UNCHANGED <<sent, received, closed>>

Next ==
    \E s \in Ends, c \in Channels :
        Start(s, c) \/ Send(s, c) \/ Receive(s, c) \/ LearnClose(s, c) \/ End(s, c)

Spec == Init /\ [][Next]_chanVars
=============================================================================
