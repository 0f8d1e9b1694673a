----------------------------- MODULE PeerProofs -----------------------------
(* Proofs about what a peer does beside its connections: it keeps itself      *)
(* registered with hbbs, and it forwards the ports of its mappings.           *)
EXTENDS KeepOnline, MCMapping, TLAPS

-----------------------------------------------------------------------------
(* Proofs about the port mappings that MCMapping puts side by side, each for  *)
(* its own specification and for every value of its constants.  L! and l_ are *)
(* the listener of a port mapping, M! and m_ the logins of the mappings.      *)
(*                                                                            *)
(* The logins of a port-forward window, for any number of mappings,           *)
(* connections and typed passwords.                                           *)
(*                                                                            *)
(* A login is built from the shared handler some steps after the handler was  *)
(* filled.  LoginIsOwn therefore rests on the turn: only its holder is        *)
(* between filling and sending (TurnHeld), so that what it filled in is still *)
(* there when the login is built (StillMine).                                 *)
MTypes ==
    /\ m_pc \in [Mappings -> {"idle", "open", "queued", "filled", "built"}]
    /\ m_job \in [Mappings -> {"hash", "ui"}]
    /\ m_conns \in [Mappings -> Nat]
    /\ DOMAIN m_hash = Mappings /\ DOMAIN m_login = Mappings

\* Who is past the lock holds the turn.
TurnHeld == \A m \in Mappings : m_pc[m] \in {"filled", "built"} => m_turn = m

\* A challenge is the one of the mapping's present connection; a mapping that
\* logs in has it.
OwnHash ==
    \A m \in Mappings :
        /\ m_pc[m] = "open" => m_hash[m] = M!NoHash \/ m_hash[m] = M!Hash(m, m_conns[m])
        /\ m_pc[m] \in {"queued", "filled", "built"} => m_hash[m] = M!Hash(m, m_conns[m])

\* What a mapping has filled in is what its login will be built from.
StillMine ==
    \A m \in Mappings : m_pc[m] = "filled" =>
        m_lc.target = m /\ m_lc.multiplex = (m \in Probes) /\ m_lc.hash = m_hash[m]

MInv == MTypes /\ TurnHeld /\ OwnHash /\ StillMine /\ M!LoginIsOwn

-----------------------------------------------------------------------------
\* No mapping of a new window has connected.
LEMMA MInit == M!Init => MInv
  BY SMTT(30) DEF M!Init, MInv, MTypes, TurnHeld, OwnHash, StillMine, M!LoginIsOwn

\* The steps that leave the handler and the turn alone.
LEMMA QuietInv ==
    ASSUME MInv, NEW m \in Mappings,
           M!Start(m) \/ M!Finish(m) \/ M!HashArrives(m) \/ M!TakeTyped(m) \/ M!IgnoreTyped(m)
    PROVE  MInv'
  <1> USE DEF MInv, MTypes, TurnHeld, OwnHash, StillMine, M!LoginIsOwn
  <1>1. CASE M!Start(m)
    <2>1. m_conns[m] + 1 \in Nat OBVIOUS
    <2> HIDE DEF M!NoHash
    <2> QED BY Zenon, <1>1, <2>1 DEF M!Start
  <1>2. CASE M!Finish(m) BY Zenon, <1>2 DEF M!Finish
  <1>3. CASE M!HashArrives(m) BY Zenon, <1>3 DEF M!HashArrives, M!Queue
  <1>4. CASE M!TakeTyped(m)
    <2>1. UNCHANGED <<m_lc, m_turn, m_hash, m_login, m_conns>> BY Zenon, <1>4 DEF M!TakeTyped
    <2>2. CASE m_hash[m] = M!NoHash
      <3>1. UNCHANGED <<m_pc, m_job>> BY Zenon, <1>4, <2>2 DEF M!TakeTyped
      <3> QED BY Zenon, <2>1, <3>1
    <2>3. CASE m_hash[m] # M!NoHash
      <3>1. /\ m_pc[m] = "open" /\ m_pc' = [m_pc EXCEPT ![m] = "queued"]
            /\ m_job' = [m_job EXCEPT ![m] = "ui"]
        BY Zenon, <1>4, <2>3 DEF M!TakeTyped, M!Queue
      <3> QED BY Zenon, <2>1, <2>3, <3>1
    <2> QED BY Zenon, <2>2, <2>3
  <1>5. CASE M!IgnoreTyped(m) BY Zenon, <1>5 DEF M!IgnoreTyped
  <1> QED BY Zenon, <1>1, <1>2, <1>3, <1>4, <1>5

\* The turn is free, so that no other mapping is between its fill and its send.
LEMMA FillInv ==
    ASSUME MInv, NEW m \in Mappings, M!Fill(m) PROVE MInv'
  <1>1. \A n \in Mappings : m_pc[n] \notin {"filled", "built"}
    BY Zenon, MappingAssumption DEF M!Fill, M!TurnIsMine, MInv, TurnHeld
  <1>2. MTypes' BY DEF M!Fill, MInv, MTypes
  <1>3. TurnHeld' /\ M!LoginIsOwn' BY Zenon, <1>1 DEF M!Fill, MInv, MTypes, TurnHeld, M!LoginIsOwn
  <1>4. OwnHash' BY Zenon DEF M!Fill, MInv, MTypes, OwnHash
  <1>5. StillMine' BY Zenon, <1>1 DEF M!Fill, MInv, MTypes, StillMine
  <1> QED BY <1>2, <1>3, <1>4, <1>5 DEF MInv

\* The login is the one its mapping filled in.
LEMMA BuildInv == ASSUME MInv, NEW m \in Mappings, M!Build(m) PROVE MInv'
  <1>1. MTypes' BY DEF M!Build, MInv, MTypes
  <1>2. TurnHeld' /\ OwnHash' /\ StillMine'
    BY Zenon DEF M!Build, MInv, MTypes, TurnHeld, OwnHash, StillMine
  <1>3. M!ChallengeAnswered(m) = m_hash[m]
    BY Zenon DEF M!Build, MInv, StillMine, M!ChallengeAnswered
  <1>4. M!LoginIsOwn'
    BY Zenon, <1>3 DEF M!Build, MInv, MTypes, OwnHash, StillMine, M!LoginIsOwn
  <1> QED BY <1>1, <1>2, <1>4 DEF MInv

\* Who gives the turn up was the only one past the lock.
LEMMA SendInv ==
    ASSUME MInv, NEW m \in Mappings, M!SendLogin(m) PROVE MInv'
  <1>1. \A n \in Mappings : n # m => m_pc[n] \notin {"filled", "built"}
    BY DEF M!SendLogin, MInv, TurnHeld
  <1>2. MTypes' BY DEF M!SendLogin, MInv, MTypes
  <1>3. \A n \in Mappings : m_pc'[n] \notin {"filled", "built"}
    BY <1>1 DEF M!SendLogin, MInv, MTypes
  <1>4. OwnHash' BY DEF M!SendLogin, MInv, MTypes, OwnHash
  <1> QED BY Zenon, <1>2, <1>3, <1>4 DEF MInv, TurnHeld, StillMine, M!LoginIsOwn

LEMMA MStep == MInv /\ [M!Next]_M!vars => MInv'
  <1> SUFFICES ASSUME MInv, [M!Next]_M!vars PROVE MInv' OBVIOUS
  <1>1. CASE M!TypePassword
    BY Zenon, <1>1 DEF M!TypePassword, MInv, MTypes, TurnHeld, OwnHash, StillMine, M!LoginIsOwn
  <1>2. CASE UNCHANGED M!vars
    BY Zenon, <1>2 DEF M!vars, MInv, MTypes, TurnHeld, OwnHash, StillMine, M!LoginIsOwn
  <1> QED BY <1>1, <1>2, QuietInv, FillInv, BuildInv, SendInv DEF M!Next

-----------------------------------------------------------------------------
\* Mappings that log in at once never send one another's target, multiplex
\* flag or challenge (port_forward.rs, login_with_hash and login_from_ui).
THEOREM LoginsAreOwn == M!Spec => []LoginIsOwn
  <1>1. MInv => LoginIsOwn BY DEF MInv, LoginIsOwn
  <1> QED BY <1>1, MInit, MStep, PTL DEF M!Spec

\* The turn is mutual exclusion: of two mappings past the lock, they are one.
THEOREM TurnExcludes ==
    M!Spec => [](\A m, n \in Mappings :
                        m_pc[m] \in {"filled", "built"} /\ m_pc[n] \in {"filled", "built"} => m = n)
  <1>1. MInv => \A m, n \in Mappings :
                  m_pc[m] \in {"filled", "built"} /\ m_pc[n] \in {"filled", "built"} => m = n
    BY DEF MInv, TurnHeld
  <1> QED BY <1>1, MInit, MStep, PTL DEF M!Spec

-----------------------------------------------------------------------------
(* The listener of a port-forward mapping, for any number of connections and *)
(* tunnels.                                                                   *)
(*                                                                            *)
(* The state that listener and tunnel loops share is written by both without *)
(* a check of what is there.  That this is sound rests on Live: a loop that   *)
(* has not yet reset the state is the loop of the published tunnel, so that   *)
(* there is at most one.  Live needs in turn that a probe only runs while no  *)
(* tunnel is published (Probed), and that between publishing a handle and     *)
(* spawning its loop the state is left alone (Spawned).                       *)
LTypes ==
    /\ l_phase \in {"listening", "spawning", "stopped"}
                    \cup L!Connecting \cup L!Confirming \cup L!LoggingIn
    /\ l_state \in {L!Unset, L!Legacy, L!Failed} \cup {L!Muxed(g) : g \in L!Gens}
    /\ l_made \in Nat /\ l_loops \in [L!Gens -> {"none", "run", "sending", "closed", "reset", "gone"}]

Fresh == \A g \in L!Gens : g > l_made => l_loops[g] = "none"

Live == \A g \in L!Gens : l_loops[g] \in {"run", "sending", "closed"} => l_state = L!Muxed(g)

Pinned == \A g \in L!Gens : l_state = L!Muxed(g) =>
              l_loops[g] \in {"run", "sending", "closed"} \/ l_phase = "spawning"

Probed == L!Probing => l_state \in {L!Unset, L!Failed}

Spawned ==
    l_phase = "spawning" => l_made \in L!Gens /\ l_state = L!Muxed(l_made) /\ l_loops[l_made] = "none"

LInv == LTypes /\ Fresh /\ Live /\ Pinned /\ Probed /\ Spawned

-----------------------------------------------------------------------------
\* Two states of the tunnel are the same only if they are the same tunnel.
LEMMA States ==
    /\ \A g, h \in L!Gens : L!Muxed(g) = L!Muxed(h) => g = h
    /\ \A g \in L!Gens : L!Muxed(g) \notin {L!Unset, L!Legacy, L!Failed}
    /\ L!Legacy \notin {L!Unset, L!Failed}
  BY DEF L!Muxed, L!Unset, L!Legacy, L!Failed

\* A mapping is added with nothing established.
LEMMA LInit == L!Init => LInv
  BY States DEF L!Init, LInv, LTypes, Fresh, Live, Pinned, Probed, Spawned, L!Probing, L!Gens

\* What touches neither the shared state nor the loops, and starts no probe
\* but from Unset or Failed.
LEMMA CalmInv ==
    ASSUME LInv, UNCHANGED <<l_state, l_made, l_loops>>, l_phase # "spawning",
           l_phase' \in {"listening", "stopped"}
                          \cup L!Connecting \cup L!Confirming \cup L!LoggingIn,
           l_phase' # "spawning",
           L!Probing' => l_state \in {L!Unset, L!Failed}
    PROVE  LInv'
  BY DEF LInv, LTypes, Fresh, Live, Pinned, Probed, Spawned

\* The steps of the window and of the local socket move the accept loop not at
\* all.
LEMMA AsideInv == ASSUME LInv, UNCHANGED <<l_phase, l_state, l_made, l_loops>> PROVE LInv'
  BY DEF LInv, LTypes, Fresh, Live, Pinned, Probed, Spawned, L!Probing

\* A login that ends without a tunnel leaves none published.
LEMMA SettleInv ==
    ASSUME LInv, UNCHANGED <<l_made, l_loops>>,
           l_phase \in L!Connecting \cup L!Confirming \cup L!LoggingIn,
           l_phase' \in {"listening", "stopped"},
           \/ L!Probing /\ l_state' \in {L!Failed, L!Legacy}
           \/ l_state' = l_state
    PROVE  LInv'
  <1>1. LTypes' /\ Fresh' BY DEF LInv, LTypes, Fresh
  <1>2. Live' BY States DEF LInv, LTypes, Live, Probed
  <1>3. Pinned' BY States DEF LInv, LTypes, Pinned, L!Connecting, L!Confirming, L!LoggingIn
  <1>4. Probed' /\ Spawned' BY DEF Probed, Spawned, L!Probing
  <1> QED BY <1>1, <1>2, <1>3, <1>4 DEF LInv

LEMMA AcceptInv == ASSUME LInv, L!Accept PROVE LInv'
  <1> USE DEF L!Connecting, L!Confirming, L!LoggingIn, L!Probing
  <1>0. UNCHANGED <<l_state, l_made, l_loops>> /\ l_phase = "listening" BY DEF L!Accept
  <1>1. CASE l_phase' = l_phase BY <1>0, <1>1, AsideInv
  <1>2. CASE l_phase' = "probe_start" /\ L!Claim = L!Unset
    <2>1. l_state \in {L!Unset, L!Failed}
      BY <1>2 DEF L!Claim, LInv, LTypes, L!Unset, L!Legacy, L!Failed, L!Muxed
    <2> QED BY <1>0, <1>2, <2>1, CalmInv
  <1>3. CASE l_phase' = "pipe_start" BY <1>0, <1>3, CalmInv
  <1> QED BY <1>1, <1>2, <1>3 DEF L!Accept

LEMMA LoginStepsInv ==
    ASSUME LInv,
           L!Connect \/ L!Confirm \/ L!ListenUi \/ L!PreReadEof \/ L!LoggedInLegacy \/ L!LoginError
    PROVE  LInv'
  <1> USE DEF L!Connecting, L!Confirming, L!LoggingIn
  <1>1. CASE L!Connect
    <2>1. CASE L!LoginFailed BY <1>1, <2>1, SettleInv DEF L!Connect, L!LoginFailed
    <2>2. CASE ~L!LoginFailed
      <3>1. L!Probing' => l_state \in {L!Unset, L!Failed}
        BY <1>1, <2>2 DEF L!Connect, L!Probing, LInv, Probed
      <3> QED BY <1>1, <2>2, <3>1, CalmInv DEF L!Connect
    <2> QED BY <2>1, <2>2
  <1>2. CASE L!Confirm
    <2>1. CASE L!Stop BY <1>2, <2>1, SettleInv DEF L!Confirm, L!Stop
    <2>2. CASE ~L!Stop
      <3>1. L!Probing' => l_state \in {L!Unset, L!Failed}
        BY <1>2, <2>2 DEF L!Confirm, L!Probing, LInv, Probed
      <3> QED BY <1>2, <2>2, <3>1, CalmInv DEF L!Confirm
    <2> QED BY <2>1, <2>2
  <1>3. CASE L!ListenUi BY <1>3, CalmInv DEF L!ListenUi, L!Probing
  <1>4. CASE L!PreReadEof
    <2>1. CASE L!LoginFailed BY <1>4, <2>1, SettleInv DEF L!PreReadEof, L!LoginFailed
    <2>2. CASE ~L!LoginFailed BY <1>4, <2>2, AsideInv DEF L!PreReadEof
    <2> QED BY <2>1, <2>2
  <1>5. CASE L!LoggedInLegacy BY <1>5, SettleInv DEF L!LoggedInLegacy
  <1>6. CASE L!LoginError BY <1>6, SettleInv DEF L!LoginError, L!LoginFailed
  <1> QED BY <1>1, <1>2, <1>3, <1>4, <1>5, <1>6

\* set_muxed, first half: the handle of a new tunnel replaces no other.
LEMMA PublishInv == ASSUME LInv, L!LoggedInMuxed PROVE LInv'
  <1>1. /\ l_phase = "probe_login" /\ l_made + 1 \in L!Gens /\ l_made' = l_made + 1
        /\ l_phase' = "spawning"
        /\ l_state' = L!Muxed(l_made + 1) /\ l_loops' = l_loops
    BY DEF L!LoggedInMuxed, L!PublishThenSpawn
  <1>2. l_state \in {L!Unset, L!Failed}
        BY <1>1 DEF LInv, Probed, L!Probing
  <1>3. \A g \in L!Gens : l_loops[g] \notin {"run", "sending", "closed"} BY <1>2, States DEF LInv, Live
  <1>4. LTypes' BY <1>1 DEF LInv, LTypes
  <1>5. Fresh' BY <1>1 DEF LInv, LTypes, Fresh, L!Gens
  <1>6. Live' /\ Pinned' BY <1>1, <1>3 DEF Live, Pinned
  <1>7. Probed' BY <1>1 DEF Probed, L!Probing
  <1>8. Spawned'
    <2>1. l_loops[l_made + 1] = "none" BY <1>1 DEF LInv, LTypes, Fresh
    <2> QED BY <1>1, <2>1 DEF Spawned
  <1> QED BY <1>4, <1>5, <1>6, <1>7, <1>8 DEF LInv

LEMMA SpawnInv == ASSUME LInv, L!SpawnAndOpen PROVE LInv'
  <1>1. /\ l_phase = "spawning" /\ l_phase' = "listening" /\ UNCHANGED <<l_state, l_made>>
        /\ l_loops' = [l_loops EXCEPT ![l_made] = "run"]
        /\ l_made \in L!Gens /\ l_state = L!Muxed(l_made)
    BY DEF L!SpawnAndOpen, L!PublishThenSpawn, LInv, Spawned
  <1>2. LTypes' /\ Fresh' BY <1>1 DEF LInv, LTypes, Fresh, L!Gens
  <1>3. Live' BY <1>1 DEF LInv, LTypes, Live
  <1>4. Pinned' BY Zenon, <1>1, States DEF LInv, LTypes, Pinned
  <1>5. Probed' /\ Spawned' BY <1>1 DEF Probed, Spawned, L!Probing
  <1> QED BY <1>2, <1>3, <1>4, <1>5 DEF LInv

\* A loop that goes on from one of its turns is still the published tunnel's.
LEMMA GoesInv ==
    ASSUME LInv, NEW g \in L!Gens, NEW a \in {"run", "sending"},
           NEW b \in {"run", "sending", "closed"}, L!LoopGoes(g, a, b)
    PROVE  LInv'
  <1>1. /\ l_loops[g] \in {"run", "sending"} /\ l_loops' = [l_loops EXCEPT ![g] = b]
        /\ UNCHANGED <<l_phase, l_state, l_made>>
    BY Zenon DEF L!LoopGoes
  <1>2. LTypes' /\ Fresh' BY <1>1 DEF LInv, LTypes, Fresh
  <1>3. Live' BY <1>1 DEF LInv, LTypes, Live
  <1>4. Pinned' BY <1>1 DEF LInv, LTypes, Pinned
  <1>5. Probed' BY <1>1 DEF LInv, Probed, L!Probing
  <1>6. Spawned' BY <1>1 DEF LInv, LTypes, Spawned
  <1> QED BY <1>2, <1>3, <1>4, <1>5, <1>6 DEF LInv

\* tunnel_loop sends, breaks, resets its own tunnel, and returns.
LEMMA LoopInv ==
    ASSUME LInv, NEW g \in L!Gens,
           \/ L!LoopSends(g) \/ L!SendEnds(g) \/ L!LoopBreaks(g) \/ L!LifetimeEnds(g)
           \/ L!ResetState(g) \/ L!LoopReturns(g)
    PROVE  LInv'
  <1>1. CASE L!LoopSends(g) \/ L!SendEnds(g) \/ L!LoopBreaks(g) \/ L!LifetimeEnds(g)
    BY <1>1, GoesInv DEF L!LoopSends, L!SendEnds, L!LoopBreaks, L!LifetimeEnds
  <1>2. CASE L!ResetState(g)
    <2>1. /\ l_loops[g] = "closed" /\ l_loops' = [l_loops EXCEPT ![g] = "reset"]
          /\ l_state' = L!Unset /\ UNCHANGED <<l_phase, l_made>> /\ l_state = L!Muxed(g)
      BY <1>2 DEF L!ResetState, LInv, Live
    <2>2. l_phase # "spawning" BY <2>1, States DEF LInv, Spawned
    <2>3. LTypes' /\ Fresh' BY <2>1 DEF LInv, LTypes, Fresh
    <2>4. Live' BY <2>1, States DEF LInv, LTypes, Live
    <2>5. Pinned' /\ Probed' /\ Spawned' BY <2>1, <2>2, States DEF Pinned, Probed, Spawned
    <2> QED BY <2>3, <2>4, <2>5 DEF LInv
  <1>3. CASE L!LoopReturns(g)
    BY <1>3 DEF L!LoopReturns, LInv, LTypes, Fresh, Live, Pinned, Probed, Spawned, L!Probing
  <1> QED BY <1>1, <1>2, <1>3

LEMMA LStep == LInv /\ [L!Next]_L!vars => LInv'
  <1> SUFFICES ASSUME LInv, [L!Next]_L!vars PROVE LInv' OBVIOUS
  <1>1. CASE L!RemoveMapping \/ L!AnswerDialog \/ L!LoginUi \/ L!PreRead \/ UNCHANGED L!vars
    BY <1>1, AsideInv DEF L!RemoveMapping, L!AnswerDialog, L!LoginUi, L!PreRead, L!vars
  <1>2. CASE L!Accept \/ L!LoginEnds \/ L!SpawnAndOpen \/ L!Connect \/ L!Confirm
             \/ L!ListenUi \/ L!PreReadEof
    BY <1>2, AcceptInv, LoginStepsInv, PublishInv, SpawnInv DEF L!LoginEnds
  <1> QED BY <1>1, <1>2, LoopInv DEF L!Next

LEMMA LInvariant == L!Spec => []LInv
  BY LInit, LStep, PTL DEF L!Spec

-----------------------------------------------------------------------------
\* The listener is never left with a handle whose loop is gone without having
\* reset the state (port_forward_mux.rs, set_muxed and the end of tunnel_loop).
THEOREM ListenerNeverPinned == L!Spec => []NeverPinned
  <1>1. LInv => NeverPinned
    <2> SUFFICES ASSUME LInv, l_state.kind = "Muxed"
                 PROVE  \/ l_loops[l_state.gen] \in {"run", "sending", "closed"}
                        \/ l_phase = "spawning" /\ l_loops[l_state.gen] = "none"
      BY DEF NeverPinned, L!NeverPinned
    <2>1. PICK g \in L!Gens : l_state = L!Muxed(g)
      BY SMTT(30) DEF LInv, LTypes, L!Unset, L!Legacy, L!Failed
    <2>2. l_state.gen = g BY <2>1 DEF L!Muxed
    <2> QED BY <2>1, <2>2, States DEF LInv, Pinned, Spawned
  <1> QED BY <1>1, LInvariant, PTL

\* A loop on its way out resets its own tunnel, never a later one's.
THEOREM ListenerResetIsOwn == L!Spec => ResetIsOwn
  <1>1. LInv => [\A g \in L!Gens : l_loops[g] = "closed" /\ l_loops'[g] = "reset"
                                   => l_state = L!Muxed(g)]_L!vars
    BY DEF LInv, Live
  <1> QED BY <1>1, LInvariant, PTL DEF ResetIsOwn, L!ResetIsOwn

\* Once the raw pipe, always the raw pipe: no loop, probe or failed login
\* takes a listener out of Legacy.
THEOREM ListenerLegacyLatched == L!Spec => L!LegacyLatched
  <1>1. LInv /\ [L!Next]_L!vars => [l_state = L!Legacy => l_state' = L!Legacy]_L!vars
    <2> SUFFICES ASSUME LInv, L!Next, l_state = L!Legacy PROVE l_state' = l_state
      BY DEF L!vars
    <2>1. ~L!Probing /\ \A g \in L!Gens : l_loops[g] # "closed"
      BY States DEF LInv, Probed, Live
    <2>2. l_phase # "spawning" /\ l_phase # "probe_login"
      BY <2>1, States DEF LInv, Spawned, L!Probing
    <2> QED BY Zenon, <2>1, <2>2
          DEF L!Next, L!RemoveMapping, L!AnswerDialog, L!Accept, L!Connect, L!Confirm,
              L!ListenUi, L!LoginUi,
              L!PreRead, L!PreReadEof, L!LoginEnds, L!LoggedInMuxed, L!LoggedInLegacy, L!LoginError,
              L!SpawnAndOpen, L!LoopGoes, L!LoopSends, L!SendEnds, L!LoopBreaks,
              L!LifetimeEnds, L!ResetState, L!LoopReturns, L!LoginFailed, L!Stop
  <1> QED BY <1>1, LInvariant, PTL DEF L!Spec, L!LegacyLatched

-----------------------------------------------------------------------------
(* Proofs about a client that keeps itself registered with hbbs, for any      *)
(* addresses and key pairs and any number of moves, restarts and lost or      *)
(* delayed packets.                                                           *)
(*                                                                            *)
(* The client draws a new id when hbbs answers UUID_MISMATCH, and hbbs does   *)
(* so when neither the address nor the key of a packet is the one it has for  *)
(* the machine.  IInv says that hbbs has no other key than the client's, in   *)
(* memory or in the table, and that no packet under way carries another one,  *)
(* until a config sync changes the key (Mine); and that a row of another      *)
(* machine is never taken over (Theirs), so that the two cases stay apart.    *)

PeerType ==
    [uuid: {Nothing, "me", "other"}, pk: Pks \cup {Nothing}, ip: Ips \cup {Nothing},
     addr: Ips \cup {Nothing}, regs: Nat, recent: BOOLEAN]

RowType == [uuid: {"me", "other"}, pk: Pks \cup {Nothing}, ip: Ips \cup {Nothing}]

ToServer ==
    [kind: {"peer"}, id: Ids, ip: Ips] \cup [kind: {"pk"}, id: Ids, pk: Pks, ip: Ips]

ToClient == [kind: {"peer"}, request_pk: BOOLEAN] \cup [kind: {"pk"}, result: Results]

Types ==
    /\ id \in Ids /\ pk \in Pks /\ ip \in Ips /\ keys \in Nat
    /\ up \in SUBSET ToServer /\ down \in SUBSET ToClient
    /\ mem \in [Ids -> {Absent} \cup PeerType]
    /\ row \in [Ids -> {Absent} \cup RowType]

\* A first id that belongs to another machine is known as such.
Theirs == row[1].uuid = "other" => mem[1] = Absent \/ mem[1].uuid = "other"

\* Nobody has the client's id with another key than the client's.
Own(r) == r.uuid = Nothing \/ (r.uuid = "me" /\ r.pk = pk)

Mine ==
    keys = 0 /\ row[1].uuid # "other" =>
        /\ id = 1
        /\ \A m \in up : m.id = 1 /\ (m.kind = "pk" => m.pk = pk)
        /\ \A m \in down : m.kind = "pk" => m.result # "UUID_MISMATCH"
        /\ Own(mem[1]) /\ Own(row[1])

IInv == Types /\ Theirs /\ Mine

-----------------------------------------------------------------------------
LEMMA InitInv == Init => IInv
  <1> SUFFICES ASSUME Init PROVE IInv OBVIOUS
  <1>1. 1 \in Ids BY KeepOnlineAssumption DEF Ids
  <1>2. pk \in Pks /\ ip \in Ips BY KeepOnlineAssumption DEF Init
  <1>3. PICK r : /\ r \in {Absent, [uuid |-> "other", pk |-> Nothing, ip |-> Nothing]}
                          \cup {[uuid |-> "me", pk |-> pk, ip |-> a] : a \in Ips}
                 /\ row = [i \in Ids |-> IF i = 1 THEN r ELSE Absent]
    BY DEF Init
  <1>4. r \in {Absent} \cup RowType /\ (r.uuid # "other" => Own(r))
    BY <1>2, <1>3 DEF RowType, Absent, Own
  <1>5. row[1] = r /\ mem[1] = Absent /\ Own(Absent) BY <1>1, <1>3 DEF Init, Own, Absent
  <1>6. Types BY <1>1, <1>2, <1>3, <1>4 DEF Init, Types
  <1>7. Theirs BY <1>5 DEF Theirs
  <1>8. Mine BY <1>4, <1>5 DEF Mine, Init
  <1> QED BY <1>6, <1>7, <1>8 DEF IInv

\* What the client sends is its own.
LEMMA SentUp ==
    ASSUME IInv, NEW m \in ToServer, up' = Sent(up, m), m.id = id',
           m.kind = "pk" => m.pk = pk
    PROVE  /\ up' \in SUBSET ToServer
           /\ keys = 0 /\ row[1].uuid # "other" /\ id' = 1 =>
                \A n \in up' : n.id = 1 /\ (n.kind = "pk" => n.pk = pk)
  BY DEF IInv, Types, Mine, Sent

LEMMA Packets ==
    ASSUME IInv
    PROVE  /\ RegisterPk(id) \in ToServer /\ RegisterPk(id).id = id /\ RegisterPk(id).pk = pk
           /\ [kind |-> "peer", id |-> id, ip |-> ip] \in ToServer
  BY DEF IInv, Types, RegisterPk, ToServer

\* The steps of the client.
LEMMA ClientInv ==
    ASSUME IInv,
           \/ Tick \/ ClientPeer \/ SyncConfig \/ Move
           \/ \E r \in Results : ClientPk(r)
    PROVE  IInv'
  <1>1. Types /\ Theirs /\ Mine BY DEF IInv
  <1>2. UNCHANGED <<mem, row>>
    BY Zenon DEF Tick, ClientPeer, SyncConfig, Move, ClientPk, OnPeerResponse, OnPkResponse
  <1>3. Theirs' BY <1>1, <1>2 DEF Theirs
  <1>4. ASSUME UNCHANGED <<id, pk, ip, keys, down>>, up' = up \/ register_peer \/ up' = Sent(up, RegisterPk(id))
        PROVE  IInv'
    <2> DEFINE n == [kind |-> "peer", id |-> id, ip |-> ip]
    <2>1. n.kind = "peer" /\ n.id = id OBVIOUS
    <2>2. CASE up' = up BY <1>1, <1>2, <1>3, <1>4, <2>2 DEF IInv, Types, Mine, Own
    <2>3. ASSUME NEW m \in ToServer, up' = Sent(up, m), m.id = id, m.kind = "pk" => m.pk = pk
          PROVE  IInv'
      <3>1. /\ up' \in SUBSET ToServer
            /\ keys = 0 /\ row[1].uuid # "other" /\ id' = 1 =>
                 \A q \in up' : q.id = 1 /\ (q.kind = "pk" => q.pk = pk)
        BY <1>4, <2>3, SentUp
      <3>2. Types' BY <1>1, <1>2, <1>4, <3>1 DEF Types
      <3>3. Mine' BY Zenon, <1>1, <1>2, <1>4, <3>1 DEF Mine, Own
      <3> QED BY <1>3, <3>2, <3>3 DEF IInv
    <2>4. up' = up \/ up' = Sent(up, n) \/ up' = Sent(up, RegisterPk(id))
      BY <1>4 DEF register_peer
    <2> HIDE DEF n
    <2> QED BY <2>1, <2>2, <2>3, <2>4, Packets DEF n
  <1>5. CASE Tick BY <1>4, <1>5 DEF Tick, bounds
  <1>6. CASE ClientPeer
    <2>1. PICK m \in down : OnPeerResponse(m) BY <1>6 DEF ClientPeer
    <2>2. down' \subseteq down /\ UNCHANGED <<id, pk, ip, keys>>
      BY <2>1 DEF OnPeerResponse, bounds
    <2>3. up' = up \/ up' = Sent(up, RegisterPk(id)) BY <2>1 DEF OnPeerResponse
    <2>4. /\ up' \in SUBSET ToServer
          /\ keys = 0 /\ row[1].uuid # "other" /\ id' = 1 =>
               \A q \in up' : q.id = 1 /\ (q.kind = "pk" => q.pk = pk)
      BY <1>1, <2>2, <2>3, SentUp, Packets DEF Types, Mine
    <2>5. Types' BY <1>1, <1>2, <2>2, <2>4 DEF Types
    <2>6. Mine' BY <1>1, <1>2, <2>2, <2>4 DEF Mine, Own
    <2> QED BY <1>3, <2>5, <2>6 DEF IInv
  <1>7. CASE \E r \in Results : ClientPk(r)
    <2>1. PICK m \in down : m.kind = "pk" /\ m.result \in Results /\ OnPkResponse(m)
      BY <1>7 DEF ClientPk
    <2>2. down' \subseteq down /\ UNCHANGED <<pk, ip, keys>> BY <2>1 DEF OnPkResponse, bounds
    <2>3. CASE m.result \in {"OK", "TOO_FREQUENT"}
      <3>1. UNCHANGED <<id, up>> BY Zenon, <2>1, <2>3 DEF OnPkResponse
      <3>2. Types' BY <1>1, <1>2, <2>2, <3>1 DEF Types
      <3>3. Mine' BY <1>1, <1>2, <2>2, <3>1 DEF Mine, Own
      <3> QED BY <1>3, <3>2, <3>3 DEF IInv
    <2>4. CASE m.result = "UUID_MISMATCH"
      <3>1. id < MaxIds /\ id' = id + 1 /\ up' = Sent(up, RegisterPk(id + 1))
        BY <2>1, <2>4 DEF OnPkResponse
      <3>2. id' \in Ids BY <1>1, <3>1, KeepOnlineAssumption DEF Types, Ids
      <3>3. RegisterPk(id + 1) \in ToServer BY Zenon, <1>1, <3>1, <3>2 DEF Types, RegisterPk, ToServer
      <3>4. up' \in SUBSET ToServer BY <1>1, <3>1, <3>3 DEF Types, Sent
      <3>5. Types' BY <1>1, <1>2, <2>2, <3>2, <3>4 DEF Types
      <3>6. Mine' BY <1>1, <1>2, <2>1, <2>2, <2>4 DEF Mine
      <3> QED BY <1>3, <3>5, <3>6 DEF IInv
    <2> QED BY <2>1, <2>3, <2>4 DEF Results
  <1>8. CASE SyncConfig
    <2>1. UNCHANGED <<id, ip, up, down>> /\ pk' \in Pks /\ keys' = keys + 1 BY <1>8 DEF SyncConfig
    <2>2. Types' /\ keys' # 0 BY <1>1, <1>2, <2>1 DEF Types
    <2> QED BY <1>3, <2>2 DEF IInv, Mine
  <1>9. CASE Move
    <2>1. UNCHANGED <<id, pk, up, down, keys>> /\ ip' \in Ips BY <1>9 DEF Move
    <2>2. Types' BY <1>1, <1>2, <2>1 DEF Types
    <2>3. Mine' BY <1>1, <1>2, <2>1 DEF Mine, Own
    <2> QED BY <1>3, <2>2, <2>3 DEF IInv
  <1> QED BY <1>5, <1>6, <1>7, <1>8, <1>9

\* What it takes for a handler of hbbs to preserve IInv.
LEMMA HandlerInv ==
    ASSUME IInv, NEW m \in up, NEW response \in ToClient, Takes(m, response),
           NEW p \in {Absent} \cup PeerType, mem' = [mem EXCEPT ![m.id] = p],
           row' \in [Ids -> {Absent} \cup RowType],
           row'[1].uuid = "other" <=> row[1].uuid = "other",
           m.id = 1 /\ row[1].uuid = "other" => p = Absent \/ p.uuid = "other",
           keys = 0 /\ row[1].uuid # "other" =>
               /\ Own(p) /\ Own(row'[1])
               /\ response.kind = "pk" => response.result # "UUID_MISMATCH"
    PROVE  IInv'
  <1>1. Types /\ Theirs /\ Mine BY DEF IInv
  <1>2. UNCHANGED <<id, pk, ip, keys>> /\ up' \subseteq up /\ down' = Sent(down, response)
    BY DEF Takes, client, bounds
  <1>3. down' \in SUBSET ToClient BY <1>1, <1>2 DEF Types, Sent
  <1>4. 1 \in Ids /\ m.id \in Ids BY <1>1, KeepOnlineAssumption DEF Ids, Types, ToServer
  <1>5. mem'[1] = IF m.id = 1 THEN p ELSE mem[1] BY <1>1, <1>4 DEF Types
  <1>6. Types' BY <1>1, <1>2, <1>3, <1>4 DEF Types
  <1>7. Theirs' BY <1>1, <1>5 DEF Theirs
  <1>8. Mine' BY Zenon, <1>1, <1>2, <1>5 DEF Mine, Own, Sent
  <1> QED BY <1>6, <1>7, <1>8 DEF IInv

LEMMA PeerHandlerInv == ASSUME IInv, NEW m \in up, HandleRegisterPeer(m) PROVE IInv'
  <1>1. Types /\ Theirs /\ Mine BY DEF IInv
  <1>2. m.kind = "peer" /\ update_addr(m) /\ row' = row BY DEF HandleRegisterPeer
  <1>3. m.id \in Ids /\ m.ip \in Ips BY <1>1 DEF Types, ToServer
  <1> DEFINE old == mem[m.id]
  <1>4. old \in {Absent} \cup PeerType BY <1>1, <1>3 DEF Types
  <1>5. PICK request_pk \in BOOLEAN :
          /\ old = Absent => request_pk
          /\ Takes(m, [kind |-> "peer", request_pk |-> request_pk])
          /\ mem' = IF request_pk THEN mem ELSE [mem EXCEPT ![m.id].addr = m.ip]
    BY Zenon, <1>2 DEF update_addr
  <1> DEFINE response == [kind |-> "peer", request_pk |-> request_pk]
  <1>6. response \in ToClient /\ response.kind = "peer" BY DEF ToClient
  <1> DEFINE p == IF request_pk THEN old ELSE [old EXCEPT !.addr = m.ip]
  <1>7. /\ p \in {Absent} \cup PeerType /\ p.uuid = old.uuid /\ p.pk = old.pk
        /\ old = Absent => p = Absent
    BY <1>3, <1>4, <1>5 DEF PeerType
  <1>8. mem' = [mem EXCEPT ![m.id] = p] BY Zenon, <1>1, <1>3, <1>5 DEF Types
  <1>9. Own(p) <=> Own(old) BY <1>7 DEF Own
  <1> HIDE DEF p, response
  <1>10. m.id = 1 /\ row[1].uuid = "other" => p = Absent \/ p.uuid = "other"
    BY <1>1, <1>7 DEF Theirs
  <1>11. keys = 0 /\ row[1].uuid # "other" => Own(p) /\ Own(row'[1])
    BY <1>1, <1>2, <1>9 DEF Mine
  <1>12. row' \in [Ids -> {Absent} \cup RowType] BY <1>1, <1>2 DEF Types
  <1>13. Takes(m, response) BY <1>5 DEF response
  <1> QED BY Zenon, <1>2, <1>6, <1>7, <1>8, <1>10, <1>11, <1>12, <1>13, HandlerInv

LEMMA PkHandlerInv == ASSUME IInv, NEW m \in up, HandleRegisterPk(m) PROVE IInv'
  <1>1. Types /\ Theirs /\ Mine BY DEF IInv
  <1>2. m.kind = "pk" /\ m.id \in Ids /\ m.ip \in Ips /\ m.pk \in Pks
    BY <1>1 DEF HandleRegisterPk, Types, ToServer
  <1> DEFINE p == get_or(m.id)
  <1>3. p \in PeerType
    <2>1. mem[m.id] \in {Absent} \cup PeerType /\ row[m.id] \in {Absent} \cup RowType
      BY <1>1, <1>2 DEF Types
    <2>2. Empty \in PeerType BY DEF Empty, PeerType
    <2>3. row[m.id] # Absent => Loaded(row[m.id]) \in PeerType
      BY <2>1 DEF Loaded, PeerType, RowType
    <2> QED BY <2>1, <2>2, <2>3 DEF get_or
  <1>4. m.id = 1 /\ row[1].uuid = "other" => p.uuid = "other"
    <2> SUFFICES ASSUME m.id = 1, row[1].uuid = "other" PROVE p.uuid = "other"
      OBVIOUS
    <2>1. row[1] # Absent BY KeepOnlineAssumption DEF Absent
    <2>2. Loaded(row[1]).uuid = "other" BY DEF Loaded
    <2> QED BY <1>1, <2>1, <2>2 DEF Theirs, get_or
  <1>5. keys = 0 /\ row[1].uuid # "other" => m.id = 1 /\ m.pk = pk /\ Own(p)
    <2> SUFFICES ASSUME keys = 0, row[1].uuid # "other" PROVE m.id = 1 /\ m.pk = pk /\ Own(p)
      OBVIOUS
    <2>1. m.id = 1 /\ m.pk = pk /\ Own(mem[1]) /\ Own(row[1]) BY <1>1, <1>2 DEF Mine
    <2>2. Own(Loaded(row[1])) /\ Own(Empty) BY <2>1 DEF Own, Loaded, Empty
    <2> QED BY <2>1, <2>2 DEF get_or
  <1> DEFINE limited == p.recent /\ p.regs > 2
             changed == p.uuid = Nothing \/ p.pk # m.pk \/ p.ip # m.ip
             n == IF p.recent THEN p.regs + 1 ELSE 1
             counted == [p EXCEPT !.regs = n, !.recent = TRUE]
             updated == [counted EXCEPT !.uuid = "me", !.pk = m.pk, !.ip = m.ip, !.addr = m.ip]
             stored == [uuid |-> "me", pk |-> m.pk, ip |-> m.ip]
  <1>6. row \in [Ids -> {Absent} \cup RowType] /\ 1 \in Ids
    BY <1>1, KeepOnlineAssumption DEF Types, Ids
  <1>7. CASE Mismatch(p, m) \/ limited
    <2>1. PICK result \in {"UUID_MISMATCH", "TOO_FREQUENT"} :
            /\ result = "UUID_MISMATCH" => Mismatch(p, m)
            /\ Takes(m, [kind |-> "pk", result |-> result])
            /\ mem' = [mem EXCEPT ![m.id] = p] /\ row' = row
      BY <1>7 DEF HandleRegisterPk
    <2> DEFINE response == [kind |-> "pk", result |-> result]
    <2>2. response \in ToClient /\ response.result = result BY DEF ToClient, Results
    <2> HIDE DEF p
    <2>3. keys = 0 /\ row[1].uuid # "other" => ~Mismatch(p, m) /\ Own(row[1])
      BY <1>1, <1>5 DEF Mismatch, Own, Mine
    <2>4. Takes(m, response) /\ row'[1].uuid = row[1].uuid BY <2>1
    <2> HIDE DEF response
    <2>5. keys = 0 /\ row[1].uuid # "other" => Own(p) /\ Own(row'[1]) /\ response.result # "UUID_MISMATCH"
      BY <1>5, <2>1, <2>2, <2>3
    <2>6. m.id = 1 /\ row[1].uuid = "other" => p = Absent \/ p.uuid = "other" BY <1>4
    <2>7. mem' = [mem EXCEPT ![m.id] = p] /\ row' \in [Ids -> {Absent} \cup RowType]
      BY <1>6, <2>1
    <2> QED BY Zenon, <1>3, <2>2, <2>4, <2>5, <2>6, <2>7, HandlerInv
  <1>8. CASE ~Mismatch(p, m) /\ ~limited
    <2> DEFINE response == [kind |-> "pk", result |-> "OK"]
               q == IF changed THEN updated ELSE counted
    <2>1. /\ Takes(m, response) /\ mem' = [mem EXCEPT ![m.id] = q]
          /\ row' = IF changed THEN [row EXCEPT ![m.id] = stored] ELSE row
      BY <1>8 DEF HandleRegisterPk
    <2> HIDE DEF p
    <2>2. counted \in PeerType /\ counted.uuid = p.uuid /\ counted.pk = p.pk
      <3>1. n \in Nat BY <1>3 DEF PeerType
      <3> HIDE DEF n
      <3> QED BY Zenon, <1>3, <3>1 DEF PeerType
    <2> HIDE DEF counted
    <2>3. updated \in PeerType /\ updated.uuid = "me" /\ updated.pk = m.pk
      BY Zenon, <1>2, <2>2 DEF PeerType
    <2>4. stored \in RowType /\ stored.uuid = "me" /\ stored.pk = m.pk BY <1>2 DEF RowType
    <2>5. response \in ToClient /\ response.result = "OK" BY DEF ToClient, Results
    <2>6. m.id = 1 => row[1].uuid # "other"
      <3>1. ~Mismatch(p, m) BY <1>8
      <3>2. "other" # "me" /\ "other" # Nothing BY KeepOnlineAssumption
      <3> QED BY <1>4, <3>1, <3>2 DEF Mismatch
    <2> HIDE DEF response, updated, stored, changed
    <2>7. row' \in [Ids -> {Absent} \cup RowType]
      BY <1>2, <1>6, <2>1, <2>4
    <2>8. row'[1] = IF m.id = 1 /\ changed THEN stored ELSE row[1] BY <1>2, <1>6, <2>1
    <2>9. row'[1].uuid = "other" <=> row[1].uuid = "other" BY <2>4, <2>6, <2>8
    <2>10. keys = 0 /\ row[1].uuid # "other" => Own(q) /\ Own(row'[1])
      <3>1. (q.uuid = "me" /\ q.pk = m.pk) \/ (q.uuid = p.uuid /\ q.pk = p.pk) BY <2>2, <2>3
      <3>2. keys = 0 /\ row[1].uuid # "other" => Own(row[1]) BY <1>1 DEF Mine
      <3> QED BY <1>5, <2>4, <2>8, <3>1, <3>2 DEF Own
    <2>11. q \in PeerType BY <2>2, <2>3
    <2> HIDE DEF q
    <2> QED BY Zenon, <2>1, <2>5, <2>6, <2>7, <2>9, <2>10, <2>11, HandlerInv
  <1> QED BY <1>7, <1>8

LEMMA RestInv == ASSUME IInv, Restart \/ Lose \/ (\E i \in Ids : Quiet(i)) \/ UNCHANGED vars PROVE IInv'
  <1>1. Types /\ Theirs /\ Mine BY DEF IInv
  <1>2. 1 \in Ids BY KeepOnlineAssumption DEF Ids
  <1>3. UNCHANGED <<id, pk, ip, keys, row>> /\ up' \subseteq up /\ down' \subseteq down
    BY DEF Restart, Lose, Quiet, vars, client, bounds
  <1>4. /\ mem' \in [Ids -> {Absent} \cup PeerType]
        /\ mem'[1] = Absent \/ (mem'[1].uuid = mem[1].uuid /\ mem'[1].pk = mem[1].pk
                                /\ (mem[1] = Absent => mem'[1] = Absent))
    <2>1. CASE Restart BY <1>2, <2>1 DEF Restart
    <2>2. CASE Lose \/ UNCHANGED vars BY <1>1, <2>2 DEF Lose, vars, Types
    <2>3. ASSUME NEW i \in Ids, Quiet(i)
          PROVE  /\ mem' \in [Ids -> {Absent} \cup PeerType]
                 /\ mem'[1].uuid = mem[1].uuid /\ mem'[1].pk = mem[1].pk
                 /\ mem[1] = Absent => mem'[1] = Absent
      <3> DEFINE q == [mem[i] EXCEPT !.recent = FALSE]
      <3>1. mem[i] # Absent /\ mem' = [mem EXCEPT ![i] = q] BY <2>3 DEF Quiet
      <3>2. mem[i] \in PeerType BY <1>1, <3>1 DEF Types
      <3>3. q \in PeerType /\ q.uuid = mem[i].uuid /\ q.pk = mem[i].pk BY Zenon, <3>2 DEF PeerType
      <3> HIDE DEF q
      <3> QED BY <1>1, <1>2, <3>1, <3>3 DEF Types
    <2> QED BY <2>1, <2>2, <2>3
  <1>5. Types' BY <1>1, <1>3, <1>4 DEF Types
  <1>6. Theirs' BY <1>1, <1>3, <1>4 DEF Theirs
  <1>7. Mine' BY <1>1, <1>3, <1>4 DEF Mine, Own, Absent
  <1> QED BY <1>5, <1>6, <1>7 DEF IInv

LEMMA StepInv == IInv /\ [Next]_vars => IInv'
  <1> SUFFICES ASSUME IInv, [Next]_vars PROVE IInv' OBVIOUS
  <1>1. CASE ServerPeer BY <1>1, PeerHandlerInv DEF ServerPeer
  <1>2. CASE ServerPk BY <1>2, PkHandlerInv DEF ServerPk
  <1> QED BY <1>1, <1>2, ClientInv, RestInv DEF Next

\* A machine whose id belongs to nobody else keeps it, whatever packets are
\* lost or late, wherever it moves and however often hbbs restarts, as long as
\* its key stays.
THEOREM KeepOnlineKeepsId == Spec => []KeepsId
  <1>1. IInv => KeepsId BY DEF IInv, Mine, KeepsId
  <1> QED BY <1>1, InitInv, StepInv, PTL DEF Spec
=============================================================================
