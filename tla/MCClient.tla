------------------------------ MODULE MCClient ------------------------------
(* State machines of the client for TLC, checked in one run: a connection     *)
(* attempt and the messages on a WebRTC stream (MCConnection), the listener   *)
(* of a port mapping and the logins of a window's mappings (MCMapping).  They *)
(* share no state: `which' says whose behaviour this is, and the others stay  *)
(* as they began.                                                             *)
EXTENDS MCConnection, MCMapping

VARIABLE which

allVars == <<which, vars, listenerVars, loginVars, framingVars>>

MCInit ==
    /\ Init /\ L!Init /\ M!Init /\ F!Init
    /\ which \in {"connect", "listener", "login", "framing"}
    /\ which # "connect" =>
         path = "punch" /\ ~force /\ ~relay_server /\ \A l \in Legs : leg[l] = "off"
    /\ which # "framing" => f_cap = 1 /\ \A s \in Clones : ~f_timed[s]

MCNext ==
    /\ UNCHANGED which
    /\ \/ /\ which = "connect" /\ Next
          /\ UNCHANGED <<listenerVars, loginVars, framingVars>>
       \/ /\ which = "listener" /\ L!Next
          /\ UNCHANGED <<vars, loginVars, framingVars>>
       \/ /\ which = "login" /\ M!Next
          /\ UNCHANGED <<vars, listenerVars, framingVars>>
       \/ /\ which = "framing" /\ F!Next
          /\ UNCHANGED <<vars, listenerVars, loginVars>>

(* Each component's own fairness: what it asks for is disabled in the initial *)
(* state of a component that does not run.                                    *)
MCSpec ==
    /\ MCInit /\ [][MCNext]_allVars
    /\ WF_vars(WindowEnds) /\ L!Fairness /\ M!Fairness /\ F!Fairness
=============================================================================
