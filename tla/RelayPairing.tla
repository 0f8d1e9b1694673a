----------------------------- MODULE RelayPairing -----------------------------
(***************************************************************************)
(* hbbr pairs two connections that ask for the same relay uuid.  Every     *)
(* connection is a task (make_pair_); they share the map PEERS of waiting  *)
(* streams, the USAGE table and the BLOCKLIST the console edits.           *)
(*                                                                         *)
(* A task suspends between two uses of a lock, so looking a partner up and *)
(* queueing oneself are separate steps.  A stream lives with its task, in  *)
(* PEERS, or with the task that took it from there; whoever drops it       *)
(* closes it.  Bandwidth limits delay a relay and are part of its sends.   *)
(***************************************************************************)
EXTENDS Naturals, FiniteSets

CONSTANTS
    Conns,   \* connections accepted in a behaviour
    Uuids,   \* relay uuids
    Addrs,   \* client addresses
    Nobody   \* no connection

ASSUME RelayAssumption == Nobody \notin Conns /\ Uuids # {} /\ Addrs # {}

VARIABLES
    pc,        \* pc[c]: where make_pair_ is for c
    from,      \* from[c]: the address make_pair_ knows c by
    key,       \* key[c]: c's key in USAGE
    uuid,      \* uuid[c]: what c asked for
    home,      \* home[c]: where c's stream is, "task", "map", "lent" or "closed"
    PEERS,     \* PEERS[u]: the stream waiting for u
    partner,   \* partner[c]: the stream c took from PEERS
    USAGE, BLOCKLIST

relayVars == <<pc, from, key, uuid, home, PEERS, partner, USAGE, BLOCKLIST>>

RelayInit ==
    /\ pc = [c \in Conns |-> "new"]
    /\ from = [c \in Conns |-> CHOOSE i \in Addrs : TRUE]
    /\ key = [c \in Conns |-> c]
    /\ uuid = [c \in Conns |-> CHOOSE u \in Uuids : TRUE]
    /\ home = [c \in Conns |-> "task"]
    /\ PEERS = [u \in Uuids |-> Nobody]
    /\ partner = [c \in Conns |-> Nobody]
    /\ USAGE = {} /\ BLOCKLIST = {}

Closed(S) == [c \in Conns |-> IF c \in S THEN "closed" ELSE home[c]]

\* make_pair_ returns, and its locals go.
Returns(c) ==
    /\ pc' = [pc EXCEPT ![c] = "done"]
    /\ key' = [key EXCEPT ![c] = c]
    /\ partner' = [partner EXCEPT ![c] = Nobody]

-----------------------------------------------------------------------------
\* handle_connection checks the address i the socket came from.  make_pair then
\* knows a WebSocket client by the address j its proxy names, with port 0, so
\* that two of its connections share a USAGE key.
Accept(c) ==
    /\ pc[c] = "new"
    /\ \E i, j \in Addrs :
        \/ /\ i \in BLOCKLIST
           /\ pc' = [pc EXCEPT ![c] = "done"] /\ home' = Closed({c})
           /\ UNCHANGED <<from, key>>
        \/ /\ i \notin BLOCKLIST
           /\ pc' = [pc EXCEPT ![c] = "reading"] /\ UNCHANGED home
           /\ \/ from' = [from EXCEPT ![c] = i] /\ UNCHANGED key
              \/ from' = [from EXCEPT ![c] = j] /\ key' = [key EXCEPT ![c] = j]
    /\ UNCHANGED <<uuid, PEERS, partner, USAGE, BLOCKLIST>>

\* The request within 30 seconds, or none that counts: a timeout, a wrong key,
\* an empty uuid.
Request(c) ==
    /\ pc[c] = "reading"
    /\ \/ /\ \E u \in Uuids : uuid' = [uuid EXCEPT ![c] = u]
          /\ pc' = [pc EXCEPT ![c] = "looking"]
          /\ UNCHANGED <<home, key, partner>>
       \/ /\ Returns(c) /\ home' = Closed({c})
          /\ UNCHANGED uuid
    /\ UNCHANGED <<from, PEERS, USAGE, BLOCKLIST>>

LeftIn(u) == PEERS
TakenOut(u) == [PEERS EXCEPT ![u] = Nobody]

\* PEERS.remove: the partner's stream is taken over, or there is none.
TakeWaiting(c) ==
    /\ pc[c] = "looking"
    /\ LET p == PEERS[uuid[c]] IN
        \/ /\ p /= Nobody
           /\ partner' = [partner EXCEPT ![c] = p]
           /\ home' = [home EXCEPT ![p] = "lent"]
           /\ pc' = [pc EXCEPT ![c] = "pairing"]
        \/ /\ p = Nobody
           /\ pc' = [pc EXCEPT ![c] = "queueing"]
           /\ UNCHANGED <<partner, home>>
    /\ PEERS' = TakenOut(uuid[c])
    /\ UNCHANGED <<from, key, uuid, USAGE, BLOCKLIST>>

\* PEERS.insert: a stream that was queued in the meantime is replaced.
Enqueue(c) ==
    /\ pc[c] = "queueing"
    /\ PEERS' = [PEERS EXCEPT ![uuid[c]] = c]
    /\ home' = [Closed({PEERS[uuid[c]]}) EXCEPT ![c] = "map"]
    /\ pc' = [pc EXCEPT ![c] = "sleeping"]
    /\ UNCHANGED <<from, key, uuid, partner, USAGE, BLOCKLIST>>

\* After 30 seconds whatever waits for the uuid is dropped, its own stream or
\* one that has come since.
WakeOnly(c) ==
    /\ pc[c] = "sleeping"
    /\ Returns(c)
    /\ UNCHANGED <<from, uuid, home, PEERS, USAGE, BLOCKLIST>>
Wake(c) ==
    /\ pc[c] = "sleeping"
    /\ home' = Closed({PEERS[uuid[c]]})
    /\ PEERS' = TakenOut(uuid[c])
    /\ Returns(c)
    /\ UNCHANGED <<from, uuid, USAGE, BLOCKLIST>>

StartRelay(c) ==
    /\ pc[c] = "pairing"
    /\ USAGE' = USAGE \cup {key[c]}
    /\ pc' = [pc EXCEPT ![c] = "relaying"]
    /\ UNCHANGED <<from, key, uuid, home, PEERS, partner, BLOCKLIST>>

RelayGoes(c, now, next) ==
    /\ pc[c] = now
    /\ pc' = [pc EXCEPT ![c] = next]
    /\ UNCHANGED <<from, key, uuid, home, PEERS, partner, USAGE, BLOCKLIST>>

\* relay: bytes from either end.  They are held back for the bandwidth limits
\* and sent to the other end inside the select arm.  The send has no timeout,
\* and until it returns the relay looks at nothing else.
Forward(c) == RelayGoes(c, "relaying", "sending")
Forwarded(c) == RelayGoes(c, "sending", "turning") \/ RelayGoes(c, "sending", "leaving")

\* The timer, every 3 seconds while the relay waits for bytes.
Tick(c) == RelayGoes(c, "relaying", "turning")

\* One end closes, or the timer finds that nothing came for 30 seconds.
RelayBreaks(c) == RelayGoes(c, "relaying", "leaving")

\* The end of a turn within a second of the last check, and the check: the
\* blocklist, then the accounting.
TurnUnchecked(c) == RelayGoes(c, "turning", "relaying")
CheckUsageOnly(c) ==
    /\ pc[c] = "turning"
    /\ pc' = [pc EXCEPT ![c] = "relaying"]
    /\ USAGE' = USAGE \cup {key[c]}
    /\ UNCHANGED <<from, key, uuid, home, PEERS, partner, BLOCKLIST>>
TurnChecked(c) ==
    /\ pc[c] = "turning"
    /\ \/ /\ from[c] \in BLOCKLIST
          /\ pc' = [pc EXCEPT ![c] = "leaving"] /\ UNCHANGED USAGE
       \/ /\ from[c] \notin BLOCKLIST
          /\ pc' = [pc EXCEPT ![c] = "relaying"]
          /\ USAGE' = USAGE \cup {key[c]}
    /\ UNCHANGED <<from, key, uuid, home, PEERS, partner, BLOCKLIST>>

\* The accounting entry goes, then both streams.
LeaveCounted(c) ==
    /\ pc[c] = "leaving"
    /\ home' = Closed({c, partner[c]})
    /\ Returns(c)
    /\ UNCHANGED <<from, uuid, PEERS, USAGE, BLOCKLIST>>
Leave(c) ==
    /\ pc[c] = "leaving"
    /\ USAGE' = USAGE \ {key[c]}
    /\ home' = Closed({c, partner[c]})
    /\ Returns(c)
    /\ UNCHANGED <<from, uuid, PEERS, BLOCKLIST>>

\* The console: blocklist-add and blocklist-remove.
Block(i) ==
    /\ BLOCKLIST' \in {BLOCKLIST \cup {i}, BLOCKLIST \ {i}, {}}
    /\ UNCHANGED <<pc, from, key, uuid, home, PEERS, partner, USAGE>>

-----------------------------------------------------------------------------
TaskStep(c) ==
    \/ Request(c) \/ TakeWaiting(c) \/ Enqueue(c) \/ Wake(c)
    \/ StartRelay(c) \/ Leave(c)

RelayStep(c) ==
    \/ Forward(c) \/ Forwarded(c) \/ Tick(c) \/ RelayBreaks(c)
    \/ TurnUnchecked(c) \/ TurnChecked(c)

RelayNext ==
    \/ \E c \in Conns : Accept(c) \/ TaskStep(c) \/ RelayStep(c)
    \/ \E i \in Addrs : Block(i)

RelaySpec == RelayInit /\ [][RelayNext]_relayVars

\* Tasks run, the timers of make_pair_ and of relay fire, and time passes: of
\* the turns a relay makes, ever again one is a second after the last check.  No
\* send has to return, and a relay may last as long as its ends keep it going.
RelayFairness ==
    \A c \in Conns :
        /\ WF_relayVars(TaskStep(c)) /\ WF_relayVars(Tick(c))
        /\ WF_relayVars(TurnUnchecked(c) \/ TurnChecked(c)) /\ SF_relayVars(TurnChecked(c))

FairRelaySpec == RelaySpec /\ RelayFairness

-----------------------------------------------------------------------------
\* Where relay() may be, and where a task has a partner's stream.
Running == {"relaying", "sending", "turning"}
Paired == {"pairing", "leaving"} \cup Running

\* Types; a stream in PEERS or taken from it is known to be there.
RelayTypeOK ==
    /\ \A c \in Conns :
        /\ pc[c] \in {"new", "reading", "looking", "queueing", "sleeping",
                       "pairing", "leaving", "done"} \cup Running
        /\ from[c] \in Addrs /\ key[c] \in Conns \cup Addrs /\ uuid[c] \in Uuids
        /\ home[c] \in {"task", "map", "lent", "closed"}
        /\ partner[c] \in Conns \cup {Nobody}
        /\ home[c] = "map" <=> PEERS[uuid[c]] = c
    /\ \A u \in Uuids : PEERS[u] \in Conns \cup {Nobody}
    /\ USAGE \subseteq Conns \cup Addrs /\ BLOCKLIST \subseteq Addrs

\* Nothing is left in PEERS for good: a stream there is one whose own task has
\* still to wake and clear its uuid.
EntryHasTimer == \A u \in Uuids : PEERS[u] /= Nobody => pc[PEERS[u]] = "sleeping"

\* A relay has its two streams to itself: they are open while it runs, no timer
\* or newcomer closes them, and no other relay shares them.
RelayOwnsStreams ==
    \A c \in Conns : pc[c] \in Paired =>
        /\ home[c] = "task" /\ home[partner[c]] = "lent"
        /\ \A d \in Conns \ {c} :
            pc[d] \in Paired => {c, partner[c]} \cap {d, partner[d]} = {}

\* USAGE counts running relays only, although two relays may share a key and
\* either may end first.
UsageIsLive == \A k \in USAGE : \E c \in Conns : key[c] = k /\ pc[c] \in Running \cup {"leaving"}

\* An unpaired stream does not wait for ever.
WaiterReleased == \A c \in Conns : home[c] = "map" ~> home[c] /= "map"

\* An address put on the blocklist, and left there, loses the relays that its
\* connections completed, however busy or silent they are.  Only a relay whose
\* send never returns, to an end that has stopped reading, is not reached.
BlockEndsRelay ==
    \A c \in Conns :
        pc[c] \in Running /\ from[c] \in BLOCKLIST
            ~> pc[c] = "done" \/ from[c] \notin BLOCKLIST \/ [](pc[c] = "sending")
=============================================================================
