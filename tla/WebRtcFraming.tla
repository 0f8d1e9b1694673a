---------------------------- MODULE WebRtcFraming ----------------------------
(***************************************************************************)
(* Messages over a WebRTC data channel: send_bytes, send_bytes_inner and   *)
(* next of client/libs/hbb_common/src/webrtc.rs.                           *)
(*                                                                         *)
(* A message is cut into fragments with a one-byte header, FRAG_MORE or    *)
(* FRAG_END, and nothing else: no length, no number, no name.  Clones of a *)
(* stream send concurrently, kept apart by a permit that a sender holds    *)
(* for a whole message.  A sender that times out, or whose write fails     *)
(* inside a message, leaves an unterminated prefix on the wire; it hands   *)
(* its permit to the task that closes the peer connection, so that nobody  *)
(* writes behind that prefix.  The peer's next() puts messages together    *)
(* again, up to a bound.                                                   *)
(*                                                                         *)
(* The wire and pc.close() are the webrtc crate's and external: the wire   *)
(* is ordered and reliable, a write parks while its buffer is full, and a  *)
(* close() that finds another one begun returns at once (webrtc.rs:15).    *)
(***************************************************************************)
EXTENDS Naturals, Sequences

CONSTANTS Clones,       \* handles of the stream that send
          Sends,        \* messages per handle
          MaxMsg,       \* MAX_RECV_MESSAGE, in fragments
          Buffer        \* fragments the channel takes before a write parks

Free     == "free"
Teardown == "teardown"
Other    == "other"

VARIABLES at,           \* where the send of a clone stands
          timed,        \* its send_timeout is not 0
          size,         \* fragments of the message it sends
          wrote,        \* fragments of it that are written
          sent,         \* messages it has sent, or tried to
          permit,       \* send_gate: free, a clone's, or the teardown's
          state,        \* state_notify
          tasks,        \* close tasks spawned and not yet run
          closer,       \* the one whose close() is the real one
          close,        \* pc.close(): no, latched, told, done
          wire,         \* fragments on their way
          acc,          \* RecvState.acc of the peer
          cap,          \* the peer's max_recv_message
          delivered,    \* messages next() has returned
          ended         \* next() has returned an error or the end

sendVars  == <<at, timed, size, wrote, sent>>
closeVars == <<tasks, closer, close>>
recvVars  == <<acc, cap, delivered, ended>>
vars      == <<sendVars, permit, state, closeVars, wire, recvVars>>

Fragment == [by : Clones, no : 1..Sends, part : 1..MaxMsg, end : BOOLEAN]

TypeOK ==
  /\ at \in [Clones -> {"idle", "connect", "gate", "inner", "write"}]
  /\ timed \in [Clones -> BOOLEAN]
  /\ size \in [Clones -> 1..(MaxMsg + 1)]
  /\ wrote \in [Clones -> 0..MaxMsg]
  /\ sent \in [Clones -> 0..Sends]
  /\ permit \in Clones \cup {Free, Teardown}
  /\ state \in {"Pending", "Open", "Closed"}
  /\ tasks \subseteq {Teardown, Other}
  /\ closer \in {Free, Teardown, Other}
  /\ close \in {"no", "latched", "told", "done"}
  /\ wire \in Seq(Fragment) /\ Len(wire) <= Buffer
  /\ acc \in Seq(Fragment) /\ Len(acc) <= MaxMsg
  /\ cap \in 1..MaxMsg
  /\ \A i \in DOMAIN delivered : delivered[i] \in Seq(Fragment)
  /\ ended \in BOOLEAN

Init ==
  /\ at = [s \in Clones |-> "idle"]
  /\ timed \in [Clones -> BOOLEAN]
  /\ size = [s \in Clones |-> 1]
  /\ wrote = [s \in Clones |-> 0]
  /\ sent = [s \in Clones |-> 0]
  /\ permit = Free
  /\ state = "Pending"
  /\ tasks = {} /\ closer = Free /\ close = "no"
  /\ wire = <<>> /\ acc = <<>> /\ cap \in {1, MaxMsg} /\ delivered = <<>> /\ ended = FALSE

-----------------------------------------------------------------------------
(***************************************************************************)
(* send_bytes.                                                             *)
(***************************************************************************)
Go(s, where) == at' = [at EXCEPT ![s] = where]

\* The error, or the end, of a send that leaves nothing to tear down.
Return(s) == Go(s, "idle") /\ permit' = IF permit = s THEN Free ELSE permit

\* With a timeout, waiting for the channel comes before the gate.
SendBytes(s) ==
  /\ at[s] = "idle" /\ sent[s] < Sends
  /\ Go(s, IF timed[s] THEN "connect" ELSE "gate")
  /\ \E n \in 1..(MaxMsg + 1) : size' = [size EXCEPT ![s] = n]
  /\ sent' = [sent EXCEPT ![s] = @ + 1]
  /\ wrote' = [wrote EXCEPT ![s] = 0]
  /\ UNCHANGED <<timed, permit, state, closeVars, wire, recvVars>>

\* The channel has opened, or has closed, or the wait times out.
ConnectWait(s) ==
  /\ at[s] = "connect"
  /\ IF state = "Open" THEN Go(s, "gate") ELSE Go(s, "idle")
  /\ UNCHANGED <<timed, size, wrote, sent, permit, state, closeVars, wire, recvVars>>

Acquire(s) ==
  /\ at[s] = "gate" /\ permit = Free
  /\ permit' = s
  /\ Go(s, "inner")
  /\ UNCHANGED <<timed, size, wrote, sent, state, closeVars, wire, recvVars>>

\* Mutant: the wait for the gate is not bounded.
GateTimeout_m(s) == FALSE /\ UNCHANGED vars

\* Deliberately no teardown: another clone is inside its message.
GateTimeout(s) ==
  /\ at[s] = "gate" /\ timed[s] /\ permit # Free
  /\ Go(s, "idle")
  /\ UNCHANGED <<timed, size, wrote, sent, permit, state, closeVars, wire, recvVars>>

\* send_bytes_inner, up to the first write.
Inner(s) ==
  /\ at[s] = "inner"
  /\ \/ (size[s] > MaxMsg \/ state = "Closed") /\ Return(s)
     \/ size[s] <= MaxMsg /\ state = "Open" /\ Go(s, "write") /\ UNCHANGED permit
  /\ UNCHANGED <<timed, size, wrote, sent, state, closeVars, wire, recvVars>>

\* One fragment; the last one ends the send.
Write(s) ==
  LET last == wrote[s] + 1 = size[s]
  IN  /\ at[s] = "write" /\ close # "done" /\ Len(wire) < Buffer
      /\ wire' = Append(wire, [by |-> s, no |-> sent[s], part |-> wrote[s] + 1, end |-> last])
      /\ wrote' = [wrote EXCEPT ![s] = @ + 1]
      /\ IF last THEN Return(s) ELSE UNCHANGED <<at, permit>>
      /\ UNCHANGED <<timed, size, sent, state, closeVars, recvVars>>

\* Mutant: the permit is dropped with the send.
TearDown_m(s) ==
  /\ Return(s)
  /\ tasks' = tasks \cup {Teardown}

\* close_detached_with(send_permit).
TearDown(s) ==
  /\ permit' = Teardown
  /\ tasks' = tasks \cup {Teardown}
  /\ Go(s, "idle")

\* desynced is wrote_any: only a message begun leaves the stream torn.
WriteFails(s) ==
  /\ at[s] = "write"
  /\ IF wrote[s] > 0 THEN TearDown(s) ELSE Return(s) /\ UNCHANGED tasks
  /\ UNCHANGED <<timed, size, wrote, sent, state, closer, close, wire, recvVars>>

SendTimeout(s) ==
  /\ at[s] \in {"inner", "write"} /\ timed[s]
  /\ TearDown(s)
  /\ UNCHANGED <<timed, size, wrote, sent, state, closer, close, wire, recvVars>>

-----------------------------------------------------------------------------
(***************************************************************************)
(* The peer connection.                                                    *)
(***************************************************************************)
Opens ==
  /\ state = "Pending" /\ close = "no"
  /\ state' = "Open"
  /\ UNCHANGED <<sendVars, permit, closeVars, wire, recvVars>>

\* Somebody else closes: the local next(), or the drop of the stream.
OtherCloses ==
  /\ Other \notin tasks /\ closer # Other
  /\ tasks' = tasks \cup {Other}
  /\ UNCHANGED <<sendVars, permit, state, closer, close, wire, recvVars>>

\* What a close task does on its return: the teardown drops the permit.
Release(t) == permit' = IF t = Teardown /\ permit = Teardown THEN Free ELSE permit

\* A close() that is the first latches is_closed; a later one returns.
CloseStarts(t) ==
  /\ t \in tasks
  /\ tasks' = tasks \ {t}
  /\ \/ close = "no" /\ close' = "latched" /\ closer' = t /\ UNCHANGED permit
     \/ close # "no" /\ Release(t) /\ UNCHANGED <<close, closer>>
  /\ UNCHANGED <<sendVars, state, wire, recvVars>>

\* The state handler, fired by close().
CloseTells ==
  /\ close = "latched"
  /\ close' = "told"
  /\ state' = "Closed"
  /\ UNCHANGED <<sendVars, permit, tasks, closer, wire, recvVars>>

CloseReturns ==
  /\ close = "told"
  /\ close' = "done"
  /\ Release(closer)
  /\ UNCHANGED <<sendVars, state, tasks, closer, wire, recvVars>>

-----------------------------------------------------------------------------
(***************************************************************************)
(* next(), at the peer.                                                    *)
(***************************************************************************)
\* The bound is checked before the fragment is kept.
Read ==
  LET f == Head(wire)
  IN  /\ ~ended /\ wire # <<>>
      /\ wire' = Tail(wire)
      /\ \/ /\ Len(acc) + 1 > cap
            /\ acc' = <<>> /\ ended' = TRUE /\ UNCHANGED delivered
         \/ /\ Len(acc) + 1 <= cap
            /\ acc' = IF f.end THEN <<>> ELSE Append(acc, f)
            /\ delivered' = IF f.end THEN Append(delivered, Append(acc, f)) ELSE delivered
            /\ UNCHANGED ended
      /\ UNCHANGED <<sendVars, permit, state, closeVars, cap>>

\* The channel ends: what was accumulated, or still on the wire, is lost.
ReadEnds ==
  /\ ~ended /\ close \in {"told", "done"}
  /\ ended' = TRUE /\ acc' = <<>> /\ wire' = <<>>
  /\ UNCHANGED <<sendVars, permit, state, closeVars, cap, delivered>>

SendStep(s) ==
  ConnectWait(s) \/ Acquire(s) \/ GateTimeout(s) \/ Inner(s) \/ Write(s) \/ SendTimeout(s)

CloseRuns == CloseTells \/ CloseReturns

Next ==
  \/ \E s \in Clones : SendBytes(s) \/ SendStep(s) \/ WriteFails(s)
  \/ Opens \/ OtherCloses \/ CloseRuns \/ \E t \in {Teardown, Other} : CloseStarts(t)
  \/ Read \/ ReadEnds

\* Tasks are polled, timers fire, and pc.close() returns.  Nothing is assumed
\* of the network or of the reader: a write without a timeout may park for ever.
Fairness ==
  /\ WF_vars(CloseRuns) /\ WF_vars(CloseStarts(Teardown))
  /\ \A s \in Clones : WF_vars(SendStep(s))

Spec == Init /\ [][Next]_vars /\ Fairness

-----------------------------------------------------------------------------
(***************************************************************************)
(* Properties.                                                             *)
(***************************************************************************)
\* The fragments m are one message, from its first to its last.
Whole(m) ==
  /\ \A i \in DOMAIN m : /\ m[i].part = i
                         /\ m[i].by = m[1].by /\ m[i].no = m[1].no
  /\ \A i \in DOMAIN m : m[i].end <=> i = Len(m)

\* What next() returns is what some clone sent, whole: no timeout, failed
\* write or waiting clone splices two messages into one that parses.  It is
\* claimed while the teardown's own close() is the one that closes: a close()
\* that finds another one begun returns at once, and its permit with it.
NoSplice == closer # Other => \A i \in DOMAIN delivered : Whole(delivered[i])

\* A sender that has a timeout is never stuck, be it behind a parked write, a
\* permit kept by a teardown, or a channel that never opens.
SendReturns == \A s \in Clones : timed[s] /\ at[s] # "idle" ~> at[s] = "idle"
=============================================================================
