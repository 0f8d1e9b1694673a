-------------------------- MODULE MCPortForwardMux --------------------------
(* The safety of PortForwardMux for TLC, on two instances checked in one run. *)
(* In mode "data" one channel carries data both ways; in mode "slots" more    *)
(* channels than the map has room for come and go without data.               *)
EXTENDS PortForwardMux

CONSTANT SlotOpens      \* bound: channels opened in mode "slots"

VARIABLE mode

Slots == INSTANCE PortForwardMux WITH MaxOpens <- SlotOpens, MaxFrames <- 0, MaxUpdates <- 0

MCInit ==
    \/ mode = "data" /\ Init
    \/ mode = "slots" /\ Slots!Init

MCNext ==
    /\ UNCHANGED mode
    /\ \/ mode = "data" /\ Next
       \/ mode = "slots" /\ Slots!Next

MCSpec == MCInit /\ [][MCNext]_<<mode, vars>>
=============================================================================
