---------------------------- MODULE MCKeepOnline ----------------------------
(* KeepOnline for TLC, on two instances checked in one run.  In mode "remote" *)
(* the client moves between addresses of the network, hbbs restarts and a     *)
(* config sync brings another key; in mode "local" one of its addresses is a  *)
(* loopback one, as when it runs on hbbs's machine for a while.               *)
EXTENDS KeepOnline

CONSTANTS LocalIps, LocalLoopback

VARIABLE mode

Local == INSTANCE KeepOnline WITH Ips <- LocalIps, Loopback <- LocalLoopback, MaxKeys <- 0

MCInit ==
    \/ mode = "remote" /\ Init
    \/ mode = "local" /\ Local!Init

MCNext ==
    /\ UNCHANGED mode
    /\ \/ mode = "remote" /\ Next
       \/ mode = "local" /\ Local!Next

(* The fairness of KeepOnline.  Only hbbs's answer to RegisterPeer depends on *)
(* the instance.                                                              *)
MCServerPeer ==
    \/ mode = "remote" /\ ServerPeer
    \/ mode = "local" /\ Local!ServerPeer

MCSpec ==
    /\ MCInit /\ [][MCNext]_<<mode, vars>>
    /\ WF_vars(Tick)
    /\ SF_vars(MCServerPeer) /\ SF_vars(ServerPk) /\ SF_vars(ClientPeer)
    /\ \A r \in Results : SF_vars(ClientPk(r))
    /\ \A i \in Ids : WF_vars(Quiet(i))

-----------------------------------------------------------------------------
(* hbbs ends up with the client's address and key, and without a loopback     *)
(* address in play there is no exception to that.                             *)
MCStaysRegistered ==
    /\ mode = "remote" => StaysRegistered
    /\ mode = "local" => Local!StaysRegistered
=============================================================================
