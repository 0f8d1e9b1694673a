--------------------------- MODULE WebRtcAnswerer ---------------------------
(***************************************************************************)
(* The WebRTC answerers of a controlled machine, composed with the session *)
(* cache they take their peer connections from (WebRtcSessions):           *)
(* spawn_webrtc_answerer of client/src/rendezvous_mediator.rs.             *)
(*                                                                         *)
(* Every offer is a call of spawn_webrtc_answerer.  It takes one of a      *)
(* bounded number of slots, obtains a stream, and, if no answerer has been *)
(* spawned for that stream, publishes a route for the controller's         *)
(* candidates under the offer's key and waits for the channel to open.     *)
(* The slot goes back once the channel is open or, on a failure, once the  *)
(* peer connection has been torn down.  The controller repeats an offer    *)
(* across its punch attempts, so that calls of one key overlap.            *)
(***************************************************************************)
EXTENDS WebRtcSessions, Naturals

CONSTANTS MAX_WEBRTC_ANSWERERS

ASSUME MaxAnswerersAssumption == MAX_WEBRTC_ANSWERERS \in Nat \ {0}

VARIABLES slots,        \* WEBRTC_ANSWERERS
          slot,         \* the AnswererSlot of a call: none, its own, its teardown's
          routes,       \* WEBRTC_ICE_TXS: whose channel a key leads to
          run           \* the answerer a call has spawned

answererVars == <<slots, slot, routes, run>>
allVars      == <<vars, answererVars>>

AnswererTypeOK ==
  /\ TypeOK
  /\ slots \in 0..MAX_WEBRTC_ANSWERERS
  /\ slot \in [Calls -> {"none", "held", "teardown"}]
  /\ routes \in [Keys -> Calls \cup {NoPc}]
  /\ run \in [Calls -> {"no", "publish", "waiting", "connected", "failed", "session", "over"}]

\* Offers outside the model may hold some of the slots, or all of them.
AnswererInit ==
  /\ Init
  /\ slots \in 0..MAX_WEBRTC_ANSWERERS
  /\ slot = [c \in Calls |-> "none"]
  /\ routes = [k \in Keys |-> NoPc]
  /\ run = [c \in Calls |-> "no"]

-----------------------------------------------------------------------------
\* Drop of AnswererSlot.
DropSlot(c) ==
  /\ slot' = [slot EXCEPT ![c] = "none"]
  /\ slots' = slots - 1

\* AnswererSlot::take, and the call of new(); without a slot the offer is
\* declined.
Offer(c) ==
  \/ /\ slots < MAX_WEBRTC_ANSWERERS
     /\ New(c)
     /\ slots' = slots + 1
     /\ slot' = [slot EXCEPT ![c] = "held"]
     /\ UNCHANGED <<routes, run>>
  \/ /\ slots = MAX_WEBRTC_ANSWERERS
     /\ call[c] = "idle"
     /\ call' = [call EXCEPT ![c] = "released"]
     /\ UNCHANGED <<key, relay, has, sessions, handoffVars, pcVars, answererVars>>

\* new() up to the adoption.  An error returns, and with it goes the slot.
Obtain(c) ==
  \/ (Lookup(c) \/ Insert(c) \/ AdoptStore(c) \/ AdoptRelease(c)) /\ UNCHANGED answererVars
  \/ /\ Build(c)
     /\ IF call'[c] = "released" THEN DropSlot(c) ELSE UNCHANGED <<slots, slot>>
     /\ UNCHANGED <<routes, run>>

\* The task is dropped with the runtime of the mediator; what new() left to
\* its own runtime goes on there.
Cancelled(c) ==
  /\ DropRelease(c)
  /\ DropSlot(c)
  /\ UNCHANGED <<routes, run>>

Abandoned(c) == (DropCheck(c) \/ close_if_abandoned(c)) /\ UNCHANGED answererVars

\* Only the call that gets the receiver goes on to spawn an answerer.
SpawnOnce(c) ==
  /\ take_local_ice_rx(c)
  /\ IF call'[c] = "running"
     THEN run' = [run EXCEPT ![c] = "publish"] /\ UNCHANGED <<slots, slot>>
     ELSE DropSlot(c) /\ UNCHANGED run
  /\ UNCHANGED routes

Publish(c) ==
  /\ run[c] = "publish"
  /\ routes' = [routes EXCEPT ![key[c]] = c]
  /\ run' = [run EXCEPT ![c] = "waiting"]
  /\ UNCHANGED <<vars, slots, slot>>

\* wait_connected: the watch decides, or the timeout.
wait_connected(c) ==
  /\ run[c] = "waiting"
  /\ \/ state[has[c]] = "Open" /\ run' = [run EXCEPT ![c] = "connected"]
     \/ state[has[c]] # "Open" /\ run' = [run EXCEPT ![c] = "failed"]
  /\ UNCHANGED <<vars, slots, slot, routes>>

\* Mutant: whatever the key leads to is evicted.
EvictRoute_m(c) == routes' = [routes EXCEPT ![key[c]] = NoPc]

\* Only a route of one's own is evicted.
EvictRoute(c) ==
  routes' = [routes EXCEPT ![key[c]] = IF @ = c THEN NoPc ELSE @]

\* The channel is open: the slot is dropped and the session runs.
Connected(c) ==
  /\ run[c] = "connected"
  /\ EvictRoute(c)
  /\ DropSlot(c)
  /\ run' = [run EXCEPT ![c] = "session"]
  /\ UNCHANGED vars

\* Mutant: the slot is given back when the answerer returns.
Failed_m(c) ==
  /\ run[c] = "failed"
  /\ EvictRoute(c)
  /\ SessionEnds(c)
  /\ DropSlot(c)
  /\ run' = [run EXCEPT ![c] = "over"]

\* close_detached_with(slot): the slot goes with the teardown, which returns
\* at once if the connection is being closed already.
Failed(c) ==
  /\ run[c] = "failed"
  /\ EvictRoute(c)
  /\ SessionEnds(c)
  /\ IF close[has[c]] = "no"
     THEN slot' = [slot EXCEPT ![c] = "teardown"] /\ UNCHANGED slots
     ELSE DropSlot(c)
  /\ run' = [run EXCEPT ![c] = "over"]

Leave(c) ==
  /\ run[c] = "session"
  /\ SessionEnds(c)
  /\ run' = [run EXCEPT ![c] = "over"]
  /\ UNCHANGED <<slots, slot, routes>>

\* Mutant: the teardown does not let go of what it keeps.
TornDown_m(p) == CloseReturns(p) /\ UNCHANGED answererVars

\* The slot kept by a teardown goes when pc.close() has returned.
TornDown(p) ==
  LET kept == {c \in Calls : slot[c] = "teardown" /\ has[c] = p}
  IN  /\ CloseReturns(p)
      /\ slot' = [c \in Calls |-> IF c \in kept THEN "none" ELSE slot[c]]
      /\ slots' = slots - Cardinality(kept)
      /\ UNCHANGED <<routes, run>>

PcEvent(p) ==
  /\ DcOpens(p) \/ note_health(p) \/ Fails(p)
  /\ UNCHANGED answererVars

PcCloses(p) ==
  /\ CloseFires(p) \/ remove_sessions_for_peer(p)
  /\ UNCHANGED answererVars

AnswererNext ==
  \E c \in Calls :
    \/ Offer(c) \/ Obtain(c) \/ Cancelled(c) \/ Abandoned(c) \/ SpawnOnce(c)
    \/ Publish(c) \/ wait_connected(c) \/ Connected(c) \/ Failed(c) \/ Leave(c)
    \/ TornDown(c) \/ PcEvent(c) \/ PcCloses(c)

\* Every task is polled and pc.close() returns.  Nothing is assumed of the
\* network (PcEvent), of how long a session lasts, of new offers, or of which
\* way a claim goes: adopted or dropped, it goes.
Fairness ==
  \A c \in Calls :
    /\ WF_allVars(Obtain(c) \/ Cancelled(c))
    /\ WF_allVars(Abandoned(c))
    /\ WF_allVars(SpawnOnce(c))
    /\ WF_allVars(Publish(c) \/ wait_connected(c) \/ Connected(c) \/ Failed(c))
    /\ WF_allVars(PcCloses(c))
    /\ WF_allVars(TornDown(c))

AnswererSpec == AnswererInit /\ [][AnswererNext]_allVars /\ Fairness

-----------------------------------------------------------------------------
(***************************************************************************)
(* Properties.                                                             *)
(***************************************************************************)
\* A connection that close_if_abandoned has condemned is one nobody owns and
\* nobody can come to own: no claim is outstanding and none was adopted,
\* however hits, adoptions and drops interleave (webrtc.rs, HandoffState).
CondemnedIsUnwanted == \A p \in Calls : closing[p] => pending[p] = {} /\ ~adopted[p]

\* No two answerers read one data channel: of the calls that share a cached
\* stream, one runs it (spawn_webrtc_answerer's take_local_ice_rx).
OneReader ==
  \A c, d \in Calls : call[c] = "running" /\ call[d] = "running" /\ has[c] = has[d] => c = d

\* An answerer that waits for its channel loses its route for the
\* controller's candidates only to a newer answerer of the same offer, never
\* to the clean-up of an older one.
RouteSurvives ==
  [][\A c \in Calls :
       /\ run[c] = "waiting" /\ run'[c] = "waiting"
       /\ routes[key[c]] = c
       /\ routes'[key[c]] # c
       => \E d \in Calls \ {c} : run[d] = "publish" /\ routes'[key[c]] = d]_allVars

\* The slot of an answerer stands for its peer connection: until the channel
\* is open, or the connection torn down, it is not given back.
SlotStandsForPc ==
  \A c \in Calls :
    /\ run[c] \in {"publish", "waiting", "connected", "failed"} => slot[c] = "held"
    /\ run[c] = "over" /\ ~opened[has[c]] /\ close[has[c]] # "done" => slot[c] = "teardown"

\* A slot that was taken comes back, whatever becomes of the offer.
SlotComesBack == \A c \in Calls : slot[c] # "none" ~> slot[c] = "none"

\* A peer connection that was built is torn down and out of the cache in the
\* end, or runs a session: no path through hits, duplicates, cancelled
\* callers and ICE failures leaves one behind.
NoPcLeaks ==
  \A p \in Calls :
    state[p] # "none" ~> \/ close[p] = "done" /\ \A k \in Keys : sessions[k] # p
                         \/ \E c \in Calls : run[c] = "session" /\ has[c] = p
=============================================================================
