--------------------------- MODULE WebRtcSessions ---------------------------
(***************************************************************************)
(* The session cache of the WebRTC transport, and the hand-over of a peer  *)
(* connection from the task that builds it to the caller that asked for    *)
(* it: client/libs/hbb_common/src/webrtc.rs.                               *)
(*                                                                         *)
(* WebRTCStream::new spawns new_inner on a runtime of its own and awaits   *)
(* it.  new_inner looks the offer up in SESSIONS, builds a peer connection *)
(* if the cache has none it may hand out, and inserts it.  What it returns *)
(* is a claim (NewStreamHandoff), which the caller adopts, or which is     *)
(* dropped if the caller was cancelled meanwhile.  Several calls may claim *)
(* one peer connection.  The last claim dropped with none adopted closes   *)
(* it, and that decision is taken again under the lock of SESSIONS.        *)
(*                                                                         *)
(* A peer connection is named by the call that built it.  The counter      *)
(* HandoffState.pending is the set of the calls whose claim it counts.     *)
(***************************************************************************)
EXTENDS FiniteSets

CONSTANTS Calls,        \* calls of WebRTCStream::new
          Keys,         \* cache keys: role and fingerprint of the offer
          NoPc          \* no peer connection

ASSUME NoPcAssumption == NoPc \notin Calls

VARIABLES call,         \* where a call of new() stands
          key,          \* the offer a call is for
          relay,        \* its force_relay
          has,          \* the peer connection a call claims, owns or runs
          sessions,     \* SESSIONS
          state,        \* state_notify: what the watch of a pc holds
          opened,       \* its data channel has opened
          disconnected, \* ICE has stopped hearing from the peer
          pending,      \* HandoffState.pending
          adopted,      \* HandoffState.adopted
          closing,      \* HandoffState.closing
          rxTaken,      \* local_ice_rx has been taken
          abandon,      \* close_if_abandoned tasks not yet at the lock
          close,        \* pc.close(): not asked for, spawned, at its handler, returned
          handler       \* the terminal-state handler: it has told the watch, or is idle

callVars    == <<call, key, relay, has>>
handoffVars == <<pending, adopted, closing, abandon>>
pcVars      == <<state, opened, disconnected, rxTaken, close, handler>>
vars        == <<callVars, handoffVars, pcVars, sessions>>

CallStates == {"idle", "lookup", "build", "insert", "claimed", "adopting",
               "owned", "running", "dropped_last", "released"}

TypeOK ==
  /\ call \in [Calls -> CallStates]
  /\ key \in [Calls -> Keys]
  /\ relay \in [Calls -> BOOLEAN]
  /\ has \in [Calls -> Calls \cup {NoPc}]
  /\ sessions \in [Keys -> Calls \cup {NoPc}]
  /\ state \in [Calls -> {"none", "Pending", "Open", "Closed"}]
  /\ opened \in [Calls -> BOOLEAN]
  /\ disconnected \in [Calls -> BOOLEAN]
  /\ pending \in [Calls -> SUBSET Calls]
  /\ adopted \in [Calls -> BOOLEAN]
  /\ closing \in [Calls -> BOOLEAN]
  /\ rxTaken \in [Calls -> BOOLEAN]
  /\ abandon \in SUBSET Calls
  /\ close \in [Calls -> {"no", "asked", "fired", "done"}]
  /\ handler \in [Calls -> {"idle", "told"}]

Init ==
  /\ call = [c \in Calls |-> "idle"]
  /\ key \in [Calls -> Keys]
  /\ relay \in [Calls -> BOOLEAN]
  /\ has = [c \in Calls |-> NoPc]
  /\ sessions = [k \in Keys |-> NoPc]
  /\ state = [c \in Calls |-> "none"]
  /\ opened = [c \in Calls |-> FALSE]
  /\ disconnected = [c \in Calls |-> FALSE]
  /\ pending = [c \in Calls |-> {}]
  /\ adopted = [c \in Calls |-> FALSE]
  /\ closing = [c \in Calls |-> FALSE]
  /\ rxTaken = [c \in Calls |-> FALSE]
  /\ abandon = {}
  /\ close = [c \in Calls |-> "no"]
  /\ handler = [c \in Calls |-> "idle"]

-----------------------------------------------------------------------------
(***************************************************************************)
(* Steps under the lock of SESSIONS.                                       *)
(***************************************************************************)
is_reusable_for(p, r) ==
  /\ relay[p] = r
  /\ ~closing[p]
  /\ ~disconnected[p]
  /\ state[p] # "Closed"

\* The cached entry that call c may be handed, if there is one.
Hit(c) ==
  LET e == sessions[key[c]] IN e # NoPc /\ is_reusable_for(e, relay[c])

\* NewStreamHandoff::claim.
claim(c, p) ==
  /\ pending' = [pending EXCEPT ![p] = @ \cup {c}]
  /\ has' = [has EXCEPT ![c] = p]
  /\ call' = [call EXCEPT ![c] = "claimed"]

\* close_detached, close_detached_with: pc.close() as a task of its own.  A
\* close that finds is_closed latched does nothing.
close_detached(p) == close' = [close EXCEPT ![p] = IF @ = "no" THEN "asked" ELSE @]

New(c) ==
  /\ call[c] = "idle"
  /\ call' = [call EXCEPT ![c] = "lookup"]
  /\ UNCHANGED <<key, relay, has, sessions, handoffVars, pcVars>>

Lookup(c) ==
  /\ call[c] = "lookup"
  /\ \/ Hit(c) /\ claim(c, sessions[key[c]])
     \/ /\ ~Hit(c)
        /\ call' = [call EXCEPT ![c] = "build"]
        /\ UNCHANGED <<pending, has>>
  /\ UNCHANGED <<key, relay, sessions, adopted, closing, abandon, pcVars>>

\* The peer connection is built and its description set.  On an error the
\* connection built so far is closed before new_inner returns.
Build(c) ==
  /\ call[c] = "build"
  /\ \/ /\ call' = [call EXCEPT ![c] = "insert"]
        /\ state' = [state EXCEPT ![c] = "Pending"]
     \/ /\ call' = [call EXCEPT ![c] = "released"]
        /\ UNCHANGED state
  /\ UNCHANGED <<key, relay, has, sessions, handoffVars, opened, disconnected, rxTaken,
                 close, handler>>

\* Mutant: the connection of a call that lost is forgotten.
Insert_m(c) ==
  /\ call[c] = "insert"
  /\ IF Hit(c) THEN claim(c, sessions[key[c]]) /\ UNCHANGED sessions
     ELSE claim(c, c) /\ sessions' = [sessions EXCEPT ![key[c]] = c]
  /\ UNCHANGED <<key, relay, adopted, closing, abandon, pcVars>>

\* The same test as the lookup: a call that lost to a concurrent one claims
\* the cached stream and discards the connection it has built.
Insert(c) ==
  /\ call[c] = "insert"
  /\ \/ /\ Hit(c)
        /\ claim(c, sessions[key[c]])
        /\ close_detached(c)
        /\ UNCHANGED sessions
     \/ /\ ~Hit(c)
        /\ sessions' = [sessions EXCEPT ![key[c]] = c]
        /\ claim(c, c)
        /\ UNCHANGED close
  /\ UNCHANGED <<key, relay, adopted, closing, abandon, state, opened, disconnected,
                 rxTaken, handler>>

-----------------------------------------------------------------------------
(***************************************************************************)
(* The hand-over.  into_inner and the drop of a claim are two atomic       *)
(* operations each, which those of other claims may come between.          *)
(***************************************************************************)
AdoptStore(c) ==
  /\ call[c] = "claimed"
  /\ adopted' = [adopted EXCEPT ![has[c]] = TRUE]
  /\ call' = [call EXCEPT ![c] = "adopting"]
  /\ UNCHANGED <<key, relay, has, sessions, pending, closing, abandon, pcVars>>

AdoptRelease(c) ==
  /\ call[c] = "adopting"
  /\ pending' = [pending EXCEPT ![has[c]] = @ \ {c}]
  /\ call' = [call EXCEPT ![c] = "owned"]
  /\ UNCHANGED <<key, relay, has, sessions, adopted, closing, abandon, pcVars>>

\* The caller has been cancelled and the runtime drops the claim.
DropRelease(c) ==
  /\ call[c] = "claimed"
  /\ pending' = [pending EXCEPT ![has[c]] = @ \ {c}]
  /\ call' = [call EXCEPT ![c] = IF pending[has[c]] = {c} THEN "dropped_last" ELSE "released"]
  /\ UNCHANGED <<key, relay, has, sessions, adopted, closing, abandon, pcVars>>

DropCheck(c) ==
  /\ call[c] = "dropped_last"
  /\ call' = [call EXCEPT ![c] = "released"]
  /\ abandon' = IF adopted[has[c]] THEN abandon ELSE abandon \cup {c}
  /\ UNCHANGED <<key, relay, has, sessions, pending, adopted, closing, pcVars>>

\* Mutant: the decision of the drop is not taken again.
close_if_abandoned_m(c) ==
  LET p == has[c] IN
  /\ c \in abandon
  /\ abandon' = abandon \ {c}
  /\ closing' = [closing EXCEPT ![p] = TRUE]
  /\ close_detached(p)
  /\ UNCHANGED <<callVars, sessions, pending, adopted, state, opened, disconnected, rxTaken,
                 handler>>

\* The task of close_if_abandoned, at the lock.
close_if_abandoned(c) ==
  LET p == has[c] IN
  /\ c \in abandon
  /\ abandon' = abandon \ {c}
  /\ \/ /\ pending[p] # {} \/ adopted[p]
        /\ UNCHANGED <<closing, close>>
     \/ /\ pending[p] = {} /\ ~adopted[p]
        /\ closing' = [closing EXCEPT ![p] = TRUE]
        /\ close_detached(p)
  /\ UNCHANGED <<callVars, sessions, pending, adopted, state, opened, disconnected, rxTaken,
                 handler>>

-----------------------------------------------------------------------------
(***************************************************************************)
(* Owners.  Every owner asks for the local candidates, which one of them   *)
(* gets: that one runs the session and closes the connection at its end    *)
(* (Drop of Stream, or of OffererGuard); the others let go of the handle,  *)
(* which closes nothing.                                                   *)
(***************************************************************************)
\* Mutant: every owner gets a receiver.
take_local_ice_rx_m(c) ==
  /\ call[c] = "owned"
  /\ call' = [call EXCEPT ![c] = "running"]
  /\ rxTaken' = [rxTaken EXCEPT ![has[c]] = TRUE]
  /\ UNCHANGED <<key, relay, has, sessions, handoffVars, state, opened, disconnected, close,
                 handler>>

take_local_ice_rx(c) ==
  /\ call[c] = "owned"
  /\ call' = [call EXCEPT ![c] = IF rxTaken[has[c]] THEN "released" ELSE "running"]
  /\ rxTaken' = [rxTaken EXCEPT ![has[c]] = TRUE]
  /\ UNCHANGED <<key, relay, has, sessions, handoffVars, state, opened, disconnected, close,
                 handler>>

SessionEnds(c) ==
  /\ call[c] = "running"
  /\ call' = [call EXCEPT ![c] = "released"]
  /\ close_detached(has[c])
  /\ UNCHANGED <<key, relay, has, sessions, handoffVars, state, opened, disconnected, rxTaken,
                 handler>>

-----------------------------------------------------------------------------
(***************************************************************************)
(* The peer connection.                                                    *)
(***************************************************************************)
Alive(p) == state[p] # "none" /\ close[p] # "done"

\* on_open of the one data channel that is bound, which takes a peer that has
\* been sent the local description, by a caller that got the stream.  It runs
\* in a task of its own and may find the watch already closed.
DcOpens(p) ==
  /\ Alive(p) /\ adopted[p] /\ ~opened[p]
  /\ opened' = [opened EXCEPT ![p] = TRUE]
  /\ state' = [state EXCEPT ![p] = "Open"]
  /\ UNCHANGED <<callVars, sessions, handoffVars, disconnected, rxTaken, close, handler>>

\* Disconnected and Connected in turn; only a cached connection is asked.
note_health(p) ==
  /\ Alive(p) /\ opened[p] /\ sessions[key[p]] = p
  /\ disconnected' = [disconnected EXCEPT ![p] = ~@]
  /\ UNCHANGED <<callVars, sessions, handoffVars, state, opened, rxTaken, close, handler>>

\* ICE fails: the state handler, up to the lock.
Fails(p) ==
  /\ Alive(p) /\ state[p] # "Closed" /\ handler[p] = "idle"
  /\ handler' = [handler EXCEPT ![p] = "told"]
  /\ state' = [state EXCEPT ![p] = "Closed"]
  /\ UNCHANGED <<callVars, sessions, handoffVars, opened, disconnected, rxTaken, close>>

\* pc.close() fires the state handler inline.
CloseFires(p) ==
  /\ close[p] = "asked"
  /\ close' = [close EXCEPT ![p] = "fired"]
  /\ handler' = [handler EXCEPT ![p] = "told"]
  /\ state' = [state EXCEPT ![p] = "Closed"]
  /\ UNCHANGED <<callVars, sessions, handoffVars, opened, disconnected, rxTaken>>

\* The handler's second half, at the lock.
remove_sessions_for_peer(p) ==
  /\ handler[p] = "told"
  /\ handler' = [handler EXCEPT ![p] = "idle"]
  /\ sessions' = [k \in Keys |-> IF sessions[k] = p THEN NoPc ELSE sessions[k]]
  /\ UNCHANGED <<callVars, handoffVars, state, opened, disconnected, rxTaken, close>>

CloseReturns(p) ==
  /\ close[p] = "fired" /\ handler[p] = "idle"
  /\ close' = [close EXCEPT ![p] = "done"]
  /\ UNCHANGED <<callVars, sessions, handoffVars, state, opened, disconnected, rxTaken,
                 handler>>

CallStep(c) ==
  \/ New(c) \/ Lookup(c) \/ Build(c) \/ Insert(c)
  \/ AdoptStore(c) \/ AdoptRelease(c) \/ DropRelease(c) \/ DropCheck(c)
  \/ close_if_abandoned(c) \/ take_local_ice_rx(c) \/ SessionEnds(c)

PcStep(p) ==
  \/ DcOpens(p) \/ note_health(p)
  \/ Fails(p) \/ CloseFires(p) \/ remove_sessions_for_peer(p) \/ CloseReturns(p)

Next == \E c \in Calls : CallStep(c) \/ PcStep(c)

Spec == Init /\ [][Next]_vars
=============================================================================
