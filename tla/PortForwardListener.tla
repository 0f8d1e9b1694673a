-------------------------- MODULE PortForwardListener --------------------------
(***************************************************************************)
(* The listener of one port-forward mapping: the accept loop `listen`, the *)
(* probe `establish_tunnel`, the shared Tunnel state, and the life of each *)
(* tunnel_loop it spawns.  What a tunnel carries is in PortForwardMux, the *)
(* logins themselves are in MappingLogin.                                  *)
(*                                                                         *)
(* The accept loop is one task, so a connection that is logging in keeps   *)
(* every later one waiting.  Tunnel loops are tasks of their own, numbered *)
(* in the order they are created.  The two halves of set_muxed, publishing *)
(* the handle and spawning its loop, are separate steps, as on a runtime   *)
(* with several threads.                                                   *)
(***************************************************************************)
EXTENDS Naturals, Sequences

CONSTANTS
    MuxEnabled,    \* port_forward_mux of the window, set before its mappings start
    PreReadLimit,  \* CHANNEL_WINDOW, in reads of the local socket
    MaxTunnels,    \* bound: tunnels established in a behaviour
    MaxAccepts     \* bound: connections accepted in a behaviour

Gens == 1..MaxTunnels
Unset == [kind |-> "Unset", gen |-> 0]
Muxed(g) == [kind |-> "Muxed", gen |-> g]
Legacy == [kind |-> "Legacy", gen |-> 0]
Failed == [kind |-> "Failed", gen |-> 0]

VARIABLES
    phase,     \* where the accept loop is
    state,     \* Tunnel.state
    made,      \* tunnels made so far; the last one is number made
    loops,     \* loops[g]: "none", "run", "sending", "closed" (close_all), "reset" or "gone"
    conn,      \* what became of the connection accepted last
    prebuf,    \* reads buffered for it during a login
    local_eof,
    accepts,   \* connections accepted so far
    ui,        \* ui_receiver
    removed    \* the window has removed the mapping and dropped its sender

vars == <<phase, state, made, loops, conn, prebuf, local_eof, accepts, ui, removed>>

Init ==
    /\ phase = "listening" /\ state = Unset /\ made = 0
    /\ loops = [g \in Gens |-> "none"]
    /\ conn = "none" /\ prebuf = 0 /\ local_eof = FALSE /\ accepts = 0
    /\ ui = <<>> /\ removed = FALSE

\* The phases of a login, for a tunnel ("probe") or for a raw pipe ("pipe").
Connecting == {"probe_start", "pipe_start"}
Confirming == {"probe_confirm", "pipe_confirm"}
LoggingIn == {"probe_login", "pipe_login"}
Probing == phase \in {"probe_start", "probe_confirm", "probe_login"}

-----------------------------------------------------------------------------
(* The window.                                                              *)

\* RemovePortForward: Close is the last thing the mapping's sender carries.
RemoveMapping ==
    /\ ~removed
    /\ removed' = TRUE
    /\ ui' = Append(ui, "Close")
    /\ UNCHANGED <<phase, state, made, loops, conn, prebuf, local_eof, accepts>>

\* The answer to the insecure-connection dialog, which is up.
AnswerDialog ==
    /\ phase \in Confirming /\ ~removed /\ ui = <<>>
    /\ \E answer \in {"Continue", "Reject"} : ui' = Append(ui, answer)
    /\ UNCHANGED <<phase, state, made, loops, conn, prebuf, local_eof, accepts, removed>>

-----------------------------------------------------------------------------
(* The accept loop.                                                         *)

\* Tunnel::claim, and what a mapping without multiplexing does instead.
ClaimUnlessOpen ==
    IF ~MuxEnabled THEN Legacy
    ELSE IF state.kind = "Muxed" /\ loops[state.gen] = "closed" THEN Unset
    ELSE IF state.kind = "Failed" THEN Unset ELSE state
Claim ==
    IF ~MuxEnabled THEN Legacy
    ELSE IF state.kind = "Failed" THEN Unset ELSE state

\* TunnelHandle::open, which may find MAX_CHANNELS in use or the loop gone.
OpenOnTunnel == conn' \in {"channel", "dropped"}

Accept ==
    /\ phase = "listening" /\ accepts < MaxAccepts
    /\ accepts' = accepts + 1
    /\ \/ /\ Claim.kind = "Muxed"
          /\ OpenOnTunnel
          /\ UNCHANGED phase
       \/ /\ Claim = Unset
          /\ phase' = "probe_start" /\ conn' = "login"
       \/ /\ Claim = Legacy
          /\ phase' = "pipe_start" /\ conn' = "login"
    /\ prebuf' = 0 /\ local_eof' = FALSE
    /\ UNCHANGED <<state, made, loops, ui, removed>>

\* The login is over without a stream: a probe records the failure, and the
\* connection is dropped.
LoginFailed ==
    /\ phase' = "listening" /\ conn' = "dropped"
    /\ state' = IF Probing THEN Failed ELSE state

Stop ==
    /\ phase' = "stopped" /\ conn' = "dropped"
    /\ state' = IF Probing THEN Failed ELSE state

\* Client::start: no stream, a secured one, or one the user must confirm.
Connect ==
    /\ phase \in Connecting
    /\ \/ LoginFailed
       \/ /\ phase' = IF Probing THEN "probe_login" ELSE "pipe_login"
          /\ UNCHANGED <<state, conn>>
       \/ /\ phase' = IF Probing THEN "probe_confirm" ELSE "pipe_confirm"
          /\ UNCHANGED <<state, conn>>
    /\ UNCHANGED <<made, loops, prebuf, local_eof, accepts, ui, removed>>

\* confirm_insecure_connection: the answer, a Close, or the sender's end.
Confirm ==
    /\ phase \in Confirming
    /\ \/ /\ ui /= <<>> /\ ui' = Tail(ui)
          /\ \/ /\ Head(ui) = "Continue"
                /\ phase' = IF Probing THEN "probe_login" ELSE "pipe_login"
                /\ UNCHANGED <<state, conn>>
             \/ Head(ui) \in {"Reject", "Close"} /\ Stop
       \/ /\ ui = <<>> /\ removed
          /\ Stop /\ UNCHANGED ui
    /\ UNCHANGED <<made, loops, prebuf, local_eof, accepts, removed>>

\* ui_receiver in the accept loop: Close ends the listener.  Between two logins
\* the queue holds nothing else that it acts on.
ListenUi ==
    /\ phase = "listening" /\ ui /= <<>>
    /\ ui' = Tail(ui)
    /\ phase' = IF Head(ui) = "Close" THEN "stopped" ELSE phase
    /\ UNCHANGED <<state, made, loops, conn, prebuf, local_eof, accepts, removed>>

\* ui_receiver during a login: whatever is neither Login nor Message is taken
\* off the queue and ignored.
LoginUi ==
    /\ phase \in LoggingIn /\ ui /= <<>>
    /\ ui' = Tail(ui)
    /\ UNCHANGED <<phase, state, made, loops, conn, prebuf, local_eof, accepts, removed>>

\* The local socket during a login.  A probe stops reading at a window's worth
\* and outlives an EOF; the raw pipe's login does neither (there the limit only
\* bounds the model).
PreRead ==
    /\ phase \in LoggingIn /\ ~local_eof
    /\ prebuf < PreReadLimit
    /\ prebuf' = prebuf + 1
    /\ UNCHANGED <<phase, state, made, loops, conn, local_eof, accepts, ui, removed>>

PreReadEof ==
    /\ phase \in LoggingIn /\ ~local_eof
    /\ \/ /\ Probing /\ prebuf < PreReadLimit
          /\ local_eof' = TRUE
          /\ UNCHANGED <<phase, state, conn>>
       \/ /\ ~Probing
          /\ LoginFailed /\ UNCHANGED local_eof
    /\ UNCHANGED <<made, loops, prebuf, accepts, ui, removed>>

\* set_muxed in two steps: publish the handle, then spawn its loop.
SpawnThenPublish(step, g) ==
    \/ step = 1 /\ loops' = [loops EXCEPT ![g] = "run"] /\ UNCHANGED state
    \/ step = 2 /\ state' = Muxed(g) /\ UNCHANGED loops
PublishThenSpawn(step, g) ==
    \/ step = 1 /\ state' = Muxed(g) /\ UNCHANGED loops
    \/ step = 2 /\ loops' = [loops EXCEPT ![g] = "run"] /\ UNCHANGED state

\* The peer has accepted the login, with the feature or without it.
LoggedInMuxed ==
    /\ phase = "probe_login" /\ made + 1 \in Gens
    /\ made' = made + 1
    /\ PublishThenSpawn(1, made')
    /\ phase' = "spawning"
    /\ UNCHANGED <<conn, prebuf, local_eof, accepts, ui, removed>>

SpawnAndOpen ==
    /\ phase = "spawning"
    /\ PublishThenSpawn(2, made)
    /\ IF local_eof THEN conn' = "dropped" ELSE OpenOnTunnel
    /\ phase' = "listening"
    /\ UNCHANGED <<made, prebuf, local_eof, accepts, ui, removed>>

LoggedInLegacy ==
    /\ phase \in LoggingIn
    /\ state' = IF Probing THEN Legacy ELSE state
    /\ conn' = IF local_eof THEN "dropped" ELSE "pipe"
    /\ phase' = "listening"
    /\ UNCHANGED <<made, loops, prebuf, local_eof, accepts, ui, removed>>

\* A read timeout, a reset, a refused login, a handler that gives up.
LoginError ==
    /\ phase \in LoggingIn
    /\ LoginFailed
    /\ UNCHANGED <<made, loops, prebuf, local_eof, accepts, ui, removed>>

-----------------------------------------------------------------------------
(* tunnel_loop number g.                                                    *)

LoopGoes(g, from, to) ==
    /\ loops[g] = from
    /\ loops' = [loops EXCEPT ![g] = to]
    /\ UNCHANGED <<phase, state, made, conn, prebuf, local_eof, accepts, ui, removed>>

\* An arm has a frame to send, or a TestDelay to answer.  The loop awaits the
\* send inside the arm and looks at nothing else meanwhile; the stream has no
\* send timeout on this side, so with a peer that stops reading it stays here.
LoopSends(g) == LoopGoes(g, "run", "sending")
SendEnds(g) == LoopGoes(g, "sending", "run") \/ LoopGoes(g, "sending", "closed")

\* A read that fails, a read timeout, the peer's close reason.
LoopBreaks(g) == LoopGoes(g, "run", "closed")

\* lifetime: the listener has dropped its Tunnel.
LifetimeIgnored(g) == FALSE
LifetimeEnds(g) == phase = "stopped" /\ LoopGoes(g, "run", "closed")

\* After close_all the loop resets the state it shares with the listener ...
ResetState(g) ==
    /\ loops[g] = "closed"
    /\ loops' = [loops EXCEPT ![g] = "reset"]
    /\ state' = Unset
    /\ UNCHANGED <<phase, made, conn, prebuf, local_eof, accepts, ui, removed>>

\* ... and drops its receivers as it returns.
LoopReturns(g) ==
    /\ loops[g] = "reset"
    /\ loops' = [loops EXCEPT ![g] = "gone"]
    /\ UNCHANGED <<phase, state, made, conn, prebuf, local_eof, accepts, ui, removed>>

-----------------------------------------------------------------------------
LoginEnds == LoggedInMuxed \/ LoggedInLegacy \/ LoginError

Next ==
    \/ RemoveMapping \/ AnswerDialog
    \/ Accept \/ Connect \/ Confirm \/ ListenUi \/ LoginUi
    \/ PreRead \/ PreReadEof \/ LoginEnds \/ SpawnAndOpen
    \/ \E g \in Gens : \/ LoopSends(g) \/ SendEnds(g) \/ LoopBreaks(g) \/ LifetimeEnds(g)
                      \/ ResetState(g) \/ LoopReturns(g)

Spec == Init /\ [][Next]_vars

\* Tasks that can step are scheduled, Client::start and a login end by their
\* timeouts, and a queued command is read.  The user owes no answer, and no send
\* has to end.  select! polls its arms in random order, so an arm that is ready
\* whenever the loop comes round is taken in the end.
Fairness ==
    /\ WF_vars(Connect) /\ WF_vars(Confirm) /\ WF_vars(ListenUi) /\ WF_vars(LoginUi)
    /\ WF_vars(LoginEnds) /\ WF_vars(SpawnAndOpen)
    /\ \A g \in Gens :
        SF_vars(LifetimeEnds(g)) /\ WF_vars(ResetState(g)) /\ WF_vars(LoopReturns(g))

FairSpec == Spec /\ Fairness

-----------------------------------------------------------------------------
\* Types, and the bound on what a probe reads ahead of its channel.
TypeOK ==
    /\ phase \in {"listening", "spawning", "stopped"} \cup Connecting \cup Confirming \cup LoggingIn
    /\ state \in {Unset, Legacy, Failed} \cup {Muxed(g) : g \in Gens}
    /\ made \in 0..MaxTunnels /\ loops \in [Gens -> {"none", "run", "sending", "closed", "reset", "gone"}]
    /\ conn \in {"none", "login", "channel", "pipe", "dropped"}
    /\ prebuf \in 0..PreReadLimit /\ local_eof \in BOOLEAN /\ accepts \in 0..MaxAccepts
    /\ ui \in Seq({"Close", "Continue", "Reject"}) /\ removed \in BOOLEAN

\* The listener is never left holding a dead tunnel: a published handle's loop
\* is still to be spawned, is running, or will yet reset the state.
NeverPinned ==
    state.kind = "Muxed" =>
        \/ loops[state.gen] \in {"run", "sending", "closed"}
        \/ phase = "spawning" /\ loops[state.gen] = "none"

\* What a loop resets on its way out is its own tunnel, never one established
\* after it nor a mode settled since.
ResetIsOwn ==
    [][\A g \in Gens : loops[g] = "closed" /\ loops'[g] = "reset" => state = Muxed(g)]_vars

\* "Nothing switches modes underneath live connections": a listener that found
\* a peer without the feature stays with the raw pipe.
LegacyLatched == [][state = Legacy => state' = Legacy]_vars

\* A stopped listener's tunnels end, idle ones that nothing else ends and ones
\* that always have a frame to send included.  Only a loop whose send never
\* returns is not reached.
StopEndsTunnels ==
    \A g \in Gens :
        phase = "stopped" ~> loops[g] \in {"none", "gone"} \/ [](loops[g] = "sending")

\* Removing a mapping ends its listener, so that it can be added again.
RemovalStops == removed ~> phase = "stopped"
=============================================================================
