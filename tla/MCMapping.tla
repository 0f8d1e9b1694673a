----------------------------- MODULE MCMapping ------------------------------
(* The port mappings of a window: the listener of one (PortForwardListener)   *)
(* and the logins of all of them (MappingLogin), each over variables of its   *)
(* own.                                                                       *)
EXTENDS Naturals, Sequences

CONSTANTS Mappings, Nobody, Probes, MaxConns, MaxPrompts,
          MuxEnabled, PreReadLimit, MaxTunnels, MaxAccepts

VARIABLES
    l_phase, l_state, l_made, l_loops, l_conn, l_prebuf, l_eof, l_accepts, l_ui, l_removed,
    m_lc, m_turn, m_waiters, m_pc, m_job, m_hash, m_pending, m_login, m_conns, m_ui, m_prompts

L == INSTANCE PortForwardListener WITH
    phase <- l_phase, state <- l_state, made <- l_made, loops <- l_loops, conn <- l_conn,
    prebuf <- l_prebuf, local_eof <- l_eof, accepts <- l_accepts, ui <- l_ui,
    removed <- l_removed

M == INSTANCE MappingLogin WITH
    lc <- m_lc, turn <- m_turn, waiters <- m_waiters, pc <- m_pc, job <- m_job,
    hash <- m_hash, pending <- m_pending, login <- m_login, conns <- m_conns, ui <- m_ui,
    prompts <- m_prompts

ASSUME MappingAssumption == Nobody \notin Mappings

listenerVars == <<l_phase, l_state, l_made, l_loops, l_conn, l_prebuf, l_eof, l_accepts, l_ui,
                  l_removed>>
loginVars == <<m_lc, m_turn, m_waiters, m_pc, m_job, m_hash, m_pending, m_login, m_conns, m_ui,
               m_prompts>>

-----------------------------------------------------------------------------
(* The properties of the instantiated modules, stated there.                  *)

(* No listener is left holding a dead tunnel.                                 *)
NeverPinned == L!NeverPinned

(* A loop resets its own tunnel on its way out, never a later one.            *)
ResetIsOwn == L!ResetIsOwn

(* The tunnels of a stopped listener end, unless a send never returns.        *)
StopEndsTunnels == L!StopEndsTunnels

(* A login carries its own mapping's target, flag and challenge.              *)
LoginIsOwn == M!LoginIsOwn

(* A password typed before the Hash came answers that Hash.                   *)
TypedAnswers == M!TypedAnswers

(* Every mapping that asks for its turn gets to log in.                       *)
TurnComes == M!TurnComes
=============================================================================
