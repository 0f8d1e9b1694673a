--------------------------- MODULE ClientConnect ---------------------------
(* How the controlling side turns a set of connection attempts into one      *)
(* connection: client/src/client.rs.                                         *)
(*                                                                           *)
(* race_transports_prefer_webrtc runs the WebRTC attempt against the others  *)
(* and holds a relayed success for a preference window, so that a direct one *)
(* that is still in flight can win.  Its two callers inside an attempt,      *)
(* connect() (path = "punch") and the RelayResponse arm of _start_inner      *)
(* (path = "relay"), then secure the winner, fall back to a fresh relay when *)
(* a WebRTC winner cannot be secured, and keep an OffererGuard armed all the *)
(* while: whatever the exit, cancellation by the outer race included, the    *)
(* peer connection must end up owned by the caller or closed.                *)
(*                                                                           *)
(* A connection is [leg, p2p]; a leg is the attempt that made it.  Timeouts  *)
(* of the single attempts are their failures.                                *)

CONSTANTS Direct,   \* the legs that punch: TCP, UDP, IPv6
          W,        \* the WebRTC leg
          Relay     \* the relay: a leg of the race (path "relay") or asked for afterwards

ASSUME LegsDiffer ==
    W # Relay /\ W \notin Direct /\ Relay \notin Direct /\ "none" \notin Direct \cup {W, Relay}

Legs == Direct \cup {W, Relay}
Conns == [leg : Legs, p2p : BOOLEAN]
None == [leg |-> "none"]

VARIABLES
    path,         \* "punch": connect(); "relay": the RelayResponse arm
    policy,       \* is_policy_relay(): ICE is relay-only
    force,        \* is_force_relay(): policy, or forced by WebSocket
    relay_server, \* a relay server is known
    leg,          \* each attempt: "off", "racing", "failed", "won"
    held,         \* the relayed connection parked for the window
    webrtc_err, others_err, window_started,
    expired,      \* the window has run out (history)
    phase,        \* where the attempt is
    conn, direct, \* what the function is about to return
    guard,        \* webrtc_guard is armed
    pc            \* the offerer's peer connection: "none", "open", "closed"

inputs == <<path, policy, force, relay_server>>
race == <<leg, held, webrtc_err, others_err, window_started, expired>>
vars == <<inputs, race, phase, conn, direct, guard, pc>>

(* the legs the other side of the select! still polls: others_fut            *)
others_fut == {l \in Legs \ {W} : leg[l] = "racing"}
webrtc_fut == leg[W] = "racing"

(* plain select_ok: no WebRTC leg, only a WebRTC leg, or relay by policy in  *)
(* the relay arm, where a TURN pair is worth no more than a relay            *)
prefer ==
    /\ leg[W] # "off"
    /\ \E l \in Legs \ {W} : leg[l] # "off"
    /\ ~(path = "relay" /\ policy)

Init ==
    /\ path \in {"punch", "relay"}
    /\ policy \in BOOLEAN
    /\ force \in BOOLEAN /\ (policy => force)
    /\ relay_server \in BOOLEAN /\ (path = "relay" => relay_server)
    /\ leg \in [Legs -> {"off", "racing"}]
    /\ leg[Relay] = (IF path = "relay" THEN "racing" ELSE "off")
    /\ held = None /\ webrtc_err = FALSE /\ others_err = FALSE
    /\ window_started = FALSE /\ expired = FALSE
    /\ phase = IF \A l \in Legs : leg[l] = "off" THEN "raced" ELSE "race"
    /\ conn = None /\ direct = FALSE
    /\ guard = (leg[W] # "off")
    /\ pc = IF leg[W] # "off" THEN "open" ELSE "none"

TypeOK ==
    /\ path \in {"punch", "relay"} /\ {policy, force, relay_server} \subseteq BOOLEAN
    /\ leg \in [Legs -> {"off", "racing", "failed", "won"}]
    /\ held \in Conns \cup {None} /\ conn \in Conns \cup {None}
    /\ {webrtc_err, others_err, window_started, expired, direct, guard} \subseteq BOOLEAN
    /\ phase \in {"race", "raced", "request", "secure", "fallback", "fallback_secure",
                  "secured", "returned", "failed", "cancelled"}
    /\ pc \in {"none", "open", "closed"}

-----------------------------------------------------------------------------
(* What an attempt can deliver: a punch is direct, a relay is not, WebRTC is *)
(* direct unless ICE nominated a TURN pair, and under policy it always did.  *)
Delivers(l) ==
    IF l \in Direct THEN {TRUE}
    ELSE IF l = Relay \/ policy THEN {FALSE}
    ELSE BOOLEAN

(* Dropping a Stream::WebRTC closes its pc; dropping the raced clone of an   *)
(* attempt that has not finished does not.                                   *)
Drop(conns) ==
    pc' = IF \E c \in conns : c.leg = W THEN "closed" ELSE pc

(* return Ok(c): what was held drops                                         *)
Commit(c) ==
    /\ conn' = c /\ direct' = c.p2p
    /\ phase' = "raced"
    /\ held' = None
    /\ Drop({held} \ {c})

(* return Err: no connection                                                 *)
GiveUp == phase' = "raced" /\ UNCHANGED <<held, conn, direct, pc>>

(* if held.is_none() { held = Some(conn); start the window }                 *)
Hold(c) ==
    /\ IF held = None
       THEN held' = c /\ window_started' = TRUE /\ UNCHANGED pc
       ELSE Drop({c}) /\ UNCHANGED <<held, window_started>>
    /\ UNCHANGED <<conn, direct, phase>>

Wait == UNCHANGED <<held, window_started, conn, direct, phase, pc>>

(* The WebRTC arm of the select!, success.  Mutant: the code before a        *)
(* relayed WebRTC result was held.                                           *)
WebRtcOk_m(c) == Commit(c) /\ UNCHANGED window_started
WebRtcOk(c) ==
    IF c.p2p \/ others_fut = {}
    THEN Commit(c) /\ UNCHANGED window_started
    ELSE Hold(c)

(* The WebRTC arm, failure.  Mutant: a held relay is not taken.              *)
WebRtcErr_m ==
    /\ UNCHANGED <<others_err, window_started>>
    /\ IF others_err \/ others_fut = {}
       THEN GiveUp /\ UNCHANGED webrtc_err
       ELSE webrtc_err' = TRUE /\ Wait
WebRtcErr ==
    IF others_fut = {} /\ held # None
    THEN Commit(held) /\ UNCHANGED <<webrtc_err, others_err, window_started>>
    ELSE /\ others_err' = FALSE                     \* others_err.take()
         /\ IF others_err \/ others_fut = {}
            THEN GiveUp /\ UNCHANGED <<webrtc_err, window_started>>
            ELSE webrtc_err' = TRUE /\ Wait

(* The others' arm: select_ok found a connection, rest is unfinished.        *)
OthersOk(c, rest) ==
    IF c.p2p \/ (~webrtc_fut /\ rest = {})
    THEN Commit(c) /\ UNCHANGED window_started
    ELSE Hold(c)

(* The others' arm: the last of them failed.                                 *)
OthersErr ==
    IF webrtc_err \/ ~webrtc_fut
    THEN /\ webrtc_err' = FALSE                     \* webrtc_err.take()
         /\ IF held # None THEN Commit(held) ELSE GiveUp
         /\ UNCHANGED <<others_err, window_started>>
    ELSE others_err' = TRUE /\ Wait /\ UNCHANGED webrtc_err

(* One attempt ends, in a race that prefers WebRTC.                          *)
PreferOk(l) ==
    \E p \in Delivers(l) :
        LET c == [leg |-> l, p2p |-> p] IN
        /\ leg' = [leg EXCEPT ![l] = "won"]
        /\ IF l = W THEN WebRtcOk(c) ELSE OthersOk(c, others_fut \ {l})
        /\ UNCHANGED <<webrtc_err, others_err>>

PreferErr(l) ==
    /\ leg' = [leg EXCEPT ![l] = "failed"]
    /\ IF l = W THEN WebRtcErr
       ELSE IF others_fut = {l} THEN OthersErr
       ELSE Wait /\ UNCHANGED <<webrtc_err, others_err>>

(* One attempt ends, under plain select_ok or on its own.                    *)
FirstOk(l) ==
    \E p \in Delivers(l) :
        /\ leg' = [leg EXCEPT ![l] = "won"]
        /\ Commit([leg |-> l, p2p |-> p])
        /\ UNCHANGED <<webrtc_err, others_err, window_started>>

FirstErr(l) ==
    /\ leg' = [leg EXCEPT ![l] = "failed"]
    /\ IF \E k \in Legs \ {l} : leg[k] = "racing"
       THEN Wait ELSE GiveUp /\ UNCHANGED window_started
    /\ UNCHANGED <<webrtc_err, others_err>>

LegEnds(l) ==
    /\ phase = "race" /\ leg[l] = "racing"
    /\ IF prefer THEN PreferOk(l) \/ PreferErr(l) ELSE FirstOk(l) \/ FirstErr(l)
    /\ UNCHANGED <<inputs, expired, guard>>

(* the window branch of the select!                                          *)
WindowEnds_m ==
    /\ phase = "race" /\ window_started
    /\ window_started' = FALSE /\ expired' = TRUE
    /\ UNCHANGED <<inputs, leg, held, webrtc_err, others_err, phase, conn, direct, guard, pc>>
WindowEnds ==
    /\ phase = "race" /\ window_started
    /\ IF held # None
       THEN Commit(held) /\ UNCHANGED window_started
       ELSE window_started' = FALSE /\ UNCHANGED <<held, phase, conn, direct, pc>>
    /\ expired' = TRUE
    /\ UNCHANGED <<inputs, leg, webrtc_err, others_err, guard>>

-----------------------------------------------------------------------------
(* After the race *)

(* OffererGuard::drop, with whatever connections the frame still owned       *)
DropGuard(conns) ==
    /\ guard' = FALSE
    /\ pc' = IF guard \/ \E c \in conns : c.leg = W THEN "closed" ELSE pc

(* bail!, return Err, ?: every local goes                                    *)
Exit(how) ==
    /\ phase' = how
    /\ conn' = None
    /\ DropGuard({conn, held})
    /\ UNCHANGED <<inputs, race, direct>>

(* the relay override of connect(); the relay arm only unwraps the result    *)
Override ==
    /\ phase = "raced"
    /\ LET replace == path = "punch" /\ ((force /\ conn.leg # W) \/ conn = None)
       IN  IF (conn = None /\ path = "relay") \/ (replace /\ ~relay_server)
           THEN Exit("failed")
           ELSE /\ phase' = IF replace THEN "request" ELSE "secure"
                /\ UNCHANGED <<inputs, race, conn, direct, guard, pc>>

RelayConn == [leg |-> Relay, p2p |-> FALSE]

(* conn = request_relay(..).await: the connection it replaces drops          *)
request_relay ==
    /\ phase = "request"
    /\ \/ /\ conn' = RelayConn /\ direct' = FALSE
          /\ Drop({conn})
          /\ phase' = "secure"
          /\ UNCHANGED <<inputs, race, guard>>
       \/ Exit("failed")

secure_connection ==
    /\ phase = "secure"
    /\ \/ phase' = "secured" /\ UNCHANGED <<inputs, race, conn, direct, guard, pc>>
       \/ /\ conn.leg = W /\ relay_server
          /\ phase' = "fallback"
          /\ DropGuard({})
          /\ UNCHANGED <<inputs, race, conn, direct>>
       \/ ~(conn.leg = W /\ relay_server) /\ Exit("failed")

(* a fresh relay for a WebRTC winner that could not be secured; the winner   *)
(* is still in scope until the relay has been secured in its place.          *)
(* Mutant: the replaced winner's direct flag goes into the return.           *)
Fallback_m ==
    \/ /\ phase = "fallback" /\ phase' = "fallback_secure"
       /\ UNCHANGED <<inputs, race, conn, direct, guard, pc>>
    \/ /\ phase = "fallback_secure" /\ phase' = "secured"
       /\ conn' = RelayConn
       /\ Drop({conn})
       /\ UNCHANGED <<inputs, race, direct, guard>>
    \/ phase \in {"fallback", "fallback_secure"} /\ Exit("failed")
Fallback ==
    \/ /\ phase = "fallback" /\ phase' = "fallback_secure"
       /\ UNCHANGED <<inputs, race, conn, direct, guard, pc>>
    \/ /\ phase = "fallback_secure" /\ phase' = "secured"
       /\ conn' = RelayConn /\ direct' = FALSE
       /\ Drop({conn})
       /\ UNCHANGED <<inputs, race, guard>>
    \/ phase \in {"fallback", "fallback_secure"} /\ Exit("failed")

(* Disarm the guard if WebRTC is the kept transport, else it drops at the    *)
(* return.  connect() asks the pc once more whether it is relayed, and an    *)
(* unknown answer counts as relayed.  Mutant: the guard is never disarmed.   *)
Return_m ==
    /\ phase = "secured" /\ phase' = "returned"
    /\ DropGuard({})
    /\ UNCHANGED <<inputs, race, conn, direct>>
Return ==
    /\ phase = "secured" /\ phase' = "returned"
    /\ IF conn.leg = W THEN guard' = FALSE /\ UNCHANGED pc ELSE DropGuard({})
    /\ \/ UNCHANGED direct
       \/ conn.leg = W /\ path = "punch" /\ direct' = FALSE
    /\ UNCHANGED <<inputs, race, conn>>

over == phase \in {"returned", "failed", "cancelled"}

(* The outer race drops this future at one of its awaits, or drops the       *)
(* connection it returned.                                                   *)
Cancelled ==
    /\ phase \notin {"raced", "failed", "cancelled"}
    /\ Exit("cancelled")

Next ==
    \/ \E l \in Legs : LegEnds(l)
    \/ WindowEnds
    \/ Override \/ request_relay \/ secure_connection \/ Fallback \/ Return
    \/ Cancelled

(* The timer of the window fires; nothing is promised about any attempt.     *)
Spec == Init /\ [][Next]_vars /\ WF_vars(WindowEnds)

-----------------------------------------------------------------------------
(* Whatever the exit, the offerer's pc is alive exactly when the caller owns *)
(* a WebRTC connection: it neither leaks nor is closed under the caller      *)
(* (OffererGuard, the drop of a losing Stream, disarming at the return).     *)
PcFollowsResult == over => (pc = "open" <=> phase = "returned" /\ conn.leg = W)

(* A relayed connection leaves the race only when nothing direct can still   *)
(* arrive or the preference window has run out.                              *)
RelayIsLast ==
    [][phase = "race" /\ phase' = "raced" /\ prefer /\ conn' # None /\ ~conn'.p2p
         => expired' \/ \A l \in Legs : leg'[l] # "racing"]_vars

(* The race fails only when every attempt failed: a connection that was made *)
(* is never lost to the failure of another one.                              *)
NoConnectionLost ==
    [][phase = "race" /\ phase' = "raced" /\ conn' = None
         => \A l \in Legs : leg'[l] \in {"off", "failed"}]_vars

(* What is reported as direct is a direct connection, through the relay      *)
(* override, the fallback and the second look at the nominated pair.         *)
DirectIsP2p == phase = "returned" /\ direct => conn # None /\ conn.p2p

(* A held relay is not held forever, however long the other attempts hang.   *)
HeldSettles == (phase = "race" /\ held # None) ~> (phase # "race")
=============================================================================
