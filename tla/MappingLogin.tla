----------------------------- MODULE MappingLogin -----------------------------
(***************************************************************************)
(* The mappings of one port-forward window log in concurrently over one    *)
(* shared LoginConfigHandler.  Each login is built from what the handler   *)
(* holds at that moment: the target and the multiplex flag                 *)
(* (create_login_msg) and, for a typed password, the challenge             *)
(* (handle_login_from_ui).  login_with_hash and login_from_ui therefore    *)
(* fill it and send under port_forward_login_turn.                         *)
(*                                                                         *)
(* A step ends where the code may suspend: at the lock, inside handle_hash *)
(* before the login is built, at the send.  A mapping stands for its       *)
(* target.  Which password a login carries is left out, only whether it    *)
(* was made for the Hash ("hash") or for a typed password ("ui").          *)
(***************************************************************************)
EXTENDS Naturals, Sequences

CONSTANTS
    Mappings,   \* the window's mappings
    Nobody,     \* no mapping
    Probes,     \* those that log in asking for the tunnel
    MaxConns,   \* bound: connections a mapping makes
    MaxPrompts  \* bound: passwords typed

NoHash == [of |-> Nobody, conn |-> 0]
Hash(m, k) == [of |-> m, conn |-> k]

VARIABLES
    lc,      \* the shared handler: port_forward, port_forward_multiplex, hash
    turn,    \* who holds port_forward_login_turn
    waiters, \* the lock's queue
    pc,      \* pc[m]: "idle", "open", "queued", "filled", "built"
    job,     \* job[m]: "hash" or "ui", what m logs in for
    hash,    \* hash[m]: the challenge of m's connection
    pending, \* pending[m]: a password typed before the Hash came
    login,   \* login[m]: the request m has built
    conns,   \* conns[m]: connections made
    ui,      \* ui[m]: typed passwords on their way to m
    prompts  \* passwords typed so far

vars == <<lc, turn, waiters, pc, job, hash, pending, login, conns, ui, prompts>>

NoLogin == [target |-> Nobody, multiplex |-> FALSE, challenge |-> NoHash]

Init ==
    /\ lc = [target |-> Nobody, multiplex |-> FALSE, hash |-> NoHash]
    /\ turn = Nobody /\ waiters = <<>>
    /\ pc = [m \in Mappings |-> "idle"]
    /\ job = [m \in Mappings |-> "hash"]
    /\ hash = [m \in Mappings |-> NoHash]
    /\ pending = [m \in Mappings |-> FALSE]
    /\ login = [m \in Mappings |-> NoLogin]
    /\ conns = [m \in Mappings |-> 0]
    /\ ui = [m \in Mappings |-> 0]
    /\ prompts = 0

-----------------------------------------------------------------------------
\* A mapping's connection is up; its Hash is on the way.
Start(m) ==
    /\ pc[m] = "idle" /\ conns[m] < MaxConns
    /\ conns' = [conns EXCEPT ![m] = @ + 1]
    /\ pc' = [pc EXCEPT ![m] = "open"]
    /\ hash' = [hash EXCEPT ![m] = NoHash]
    /\ pending' = [pending EXCEPT ![m] = FALSE]
    /\ UNCHANGED <<lc, turn, waiters, job, login, ui, prompts>>

\* The login loop ends: accepted, refused for good, reset or timed out.
Finish(m) ==
    /\ pc[m] = "open"
    /\ pc' = [pc EXCEPT ![m] = "idle"]
    /\ UNCHANGED <<lc, turn, waiters, job, hash, pending, login, conns, ui, prompts>>

\* The window's prompt: io_loop broadcasts what was typed to every mapping.
TypePassword ==
    /\ prompts < MaxPrompts
    /\ prompts' = prompts + 1
    /\ ui' = [m \in Mappings |-> ui[m] + 1]
    /\ UNCHANGED <<lc, turn, waiters, pc, job, hash, pending, login, conns>>

\* Both logins begin by waiting for the turn.
Queue(m, what) ==
    /\ pc' = [pc EXCEPT ![m] = "queued"]
    /\ job' = [job EXCEPT ![m] = what]
    /\ waiters' = Append(waiters, m)

\* hash_arrived: a kept password answers the challenge, or the handler's does.
HashArrivesAlone(m) ==
    /\ pc[m] = "open" /\ hash[m] = NoHash
    /\ hash' = [hash EXCEPT ![m] = Hash(m, conns[m])]
    /\ pending' = [pending EXCEPT ![m] = FALSE]
    /\ Queue(m, "hash")
    /\ UNCHANGED <<lc, turn, login, conns, ui, prompts>>

HashArrives(m) ==
    /\ pc[m] = "open" /\ hash[m] = NoHash
    /\ hash' = [hash EXCEPT ![m] = Hash(m, conns[m])]
    /\ pending' = [pending EXCEPT ![m] = FALSE]
    /\ Queue(m, IF pending[m] THEN "ui" ELSE "hash")
    /\ UNCHANGED <<lc, turn, login, conns, ui, prompts>>

\* A typed password reaches a mapping that is logging in ...
TakeTyped(m) ==
    /\ pc[m] = "open" /\ ui[m] > 0
    /\ ui' = [ui EXCEPT ![m] = @ - 1]
    /\ \/ /\ hash[m] /= NoHash
          /\ Queue(m, "ui") /\ UNCHANGED pending
       \/ /\ hash[m] = NoHash
          /\ pending' = [pending EXCEPT ![m] = TRUE]
          /\ UNCHANGED <<pc, job, waiters>>
    /\ UNCHANGED <<lc, turn, hash, login, conns, prompts>>

\* ... or its accept loop, which has no use for it.
IgnoreTyped(m) ==
    /\ pc[m] = "idle" /\ ui[m] > 0
    /\ ui' = [ui EXCEPT ![m] = @ - 1]
    /\ UNCHANGED <<lc, turn, waiters, pc, job, hash, pending, login, conns, prompts>>

\* The turn is granted in the order it was asked for, and the handler filled.
\* handle_hash starts by storing the hash, login_from_ui stores it itself.
TurnNotTaken(m) == m \in Mappings
TurnIsMine(m) == turn = Nobody /\ Head(waiters) = m

Fill(m) ==
    /\ pc[m] = "queued" /\ waiters /= <<>>
    /\ TurnIsMine(m)
    /\ turn' = m
    /\ waiters' = SelectSeq(waiters, LAMBDA w : w /= m)
    /\ lc' = [target |-> m, multiplex |-> m \in Probes, hash |-> hash[m]]
    /\ pc' = [pc EXCEPT ![m] = "filled"]
    /\ UNCHANGED <<job, hash, pending, login, conns, ui, prompts>>

\* What answers the challenge: handle_hash was given its own, the typed
\* password's login reads the handler's.
ChallengeAnswered(m) == IF job[m] = "hash" THEN hash[m] ELSE lc.hash

\* create_login_msg, from what the handler holds now.
Build(m) ==
    /\ pc[m] = "filled"
    /\ login' = [login EXCEPT ![m] = [target |-> lc.target, multiplex |-> lc.multiplex,
                                     challenge |-> ChallengeAnswered(m)]]
    /\ pc' = [pc EXCEPT ![m] = "built"]
    /\ UNCHANGED <<lc, turn, waiters, job, hash, pending, conns, ui, prompts>>

\* The send is over and the turn is given up: handle_hash stores its hash once
\* more, or ends the login if the send failed.
SendLoginKeepingTurn(m) ==
    /\ pc[m] = "built"
    /\ pc' = [pc EXCEPT ![m] = "open"]
    /\ UNCHANGED <<lc, turn, waiters, job, hash, pending, login, conns, ui, prompts>>

SendLogin(m) ==
    /\ pc[m] = "built"
    /\ turn' = Nobody
    /\ \/ /\ lc' = IF job[m] = "hash" THEN [lc EXCEPT !.hash = hash[m]] ELSE lc
          /\ pc' = [pc EXCEPT ![m] = "open"]
       \/ /\ job[m] = "hash"
          /\ pc' = [pc EXCEPT ![m] = "idle"]
          /\ UNCHANGED lc
    /\ UNCHANGED <<waiters, job, hash, pending, login, conns, ui, prompts>>

-----------------------------------------------------------------------------
Next ==
    \/ TypePassword
    \/ \E m \in Mappings :
        \/ Start(m) \/ Finish(m) \/ HashArrives(m) \/ TakeTyped(m) \/ IgnoreTyped(m)
        \/ Fill(m) \/ Build(m) \/ SendLogin(m)

Spec == Init /\ [][Next]_vars

\* The lock is granted when free, the code between two awaits runs, a send ends,
\* and the read timeout ends a login whose Hash does not come.
Fairness ==
    \A m \in Mappings :
        /\ WF_vars(Fill(m)) /\ WF_vars(Build(m)) /\ WF_vars(SendLogin(m))
        /\ WF_vars(HashArrives(m) \/ (hash[m] = NoHash /\ Finish(m)))

FairSpec == Spec /\ Fairness

-----------------------------------------------------------------------------
Hashes == {NoHash} \cup {Hash(m, k) : m \in Mappings, k \in 1..MaxConns}

\* Types; nobody waits for the turn twice.
TypeOK ==
    /\ turn \in Mappings \cup {Nobody}
    /\ waiters \in Seq(Mappings)
    /\ \A i, j \in DOMAIN waiters : waiters[i] = waiters[j] => i = j
    /\ \A m \in Mappings :
        /\ pc[m] \in {"idle", "open", "queued", "filled", "built"}
        /\ job[m] \in {"hash", "ui"} /\ hash[m] \in Hashes /\ pending[m] \in BOOLEAN
        /\ conns[m] \in 0..MaxConns /\ ui[m] \in 0..MaxPrompts
    /\ \A r \in {login[m] : m \in Mappings} :
        /\ r.target \in Mappings \cup {Nobody} /\ r.multiplex \in BOOLEAN
        /\ r.challenge \in Hashes

\* A login carries its own mapping's target and flag and answers the challenge
\* of its own connection, however the mappings interleave.
LoginIsOwn ==
    \A m \in Mappings : pc[m] = "built" =>
        /\ login[m].target = m /\ login[m].multiplex = (m \in Probes)
        /\ login[m].challenge = hash[m] /\ hash[m] = Hash(m, conns[m])

\* A password typed while a mapping's Hash was on its way answers that Hash, if
\* the Hash comes at all.
TypedAnswers ==
    \A m \in Mappings :
        pending[m] ~> (pc[m] = "built" /\ job[m] = "ui") \/ pc[m] = "idle"

\* Every mapping that asks for its turn gets to log in.
TurnComes == \A m \in Mappings : pc[m] = "queued" ~> pc[m] = "built"
=============================================================================
