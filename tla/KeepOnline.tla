----------------------------- MODULE KeepOnline -----------------------------
(* One client keeping itself registered with hbbs over UDP: the loop of       *)
(* RendezvousMediator::start_udp (client/src/rendezvous_mediator.rs) composed *)
(* with the RegisterPeer and RegisterPk handlers of hbbs                      *)
(* (server/src/rendezvous_server.rs, io_loop: one packet at a time) across a  *)
(* network that loses, delays and reorders.  Module Registration looks at     *)
(* hbbs's side of RegisterPk under concurrency; here the question is whether  *)
(* the two ends converge.                                                     *)
(*                                                                            *)
(* Machines: "me", and "other", which may own the client's first id.  Ids are *)
(* numbered; update_id draws one nobody has.  Timers are abstract: Tick is    *)
(* the timer of the loop finding that a registration is due or has timed out. *)
(* NOT_DEPLOYED, which this server never answers, the latency display, the    *)
(* per-address blocker and the DNS refresh are left out.                      *)
EXTENDS Naturals

CONSTANTS Ips, Pks,      \* the addresses and the key pairs of the client
          Home,          \* the address it starts from
          Loopback,      \* the addresses that are hbbs's own machine
          MaxIds,        \* bound: ids the client may go through
          MaxMoves, MaxRestarts, MaxKeys,  \* bounds: changes of address, restarts, config syncs
          Nothing

ASSUME KeepOnlineAssumption ==
    /\ MaxIds \in Nat \ {0} /\ Pks # {} /\ Home \in Ips /\ Loopback \subseteq Ips
    /\ Nothing \notin {"me", "other"}

VARIABLES
    id, pk, ip,      \* the client's id, key and address
    confirmed,       \* key_confirmed and keys_confirmed[host]: both are set and cleared together
    SENT_REGISTER_PK,
    up, down,        \* packets to the server and to the client
    mem, row,        \* hbbs: the peer map and the table, by id
    moves, restarts, keys

client == <<id, pk, ip, confirmed, SENT_REGISTER_PK>>
bounds == <<moves, restarts, keys>>
vars == <<client, up, down, mem, row, bounds>>

Ids == 1..MaxIds
Absent == [uuid |-> Nothing]
Loaded(r) == [uuid |-> r.uuid, pk |-> r.pk, ip |-> r.ip, addr |-> Nothing, regs |-> 0, recent |-> FALSE]
(* LockPeer::default()                                                        *)
Empty == [uuid |-> Nothing, pk |-> Nothing, ip |-> Nothing, addr |-> Nothing, regs |-> 0, recent |-> FALSE]

Init ==
    /\ id = 1 /\ ip = Home /\ pk = (CHOOSE p \in Pks : TRUE)   \* whichever
    /\ SENT_REGISTER_PK = FALSE
    /\ up = {} /\ down = {}
    /\ mem = [i \in Ids |-> Absent]
    /\ \E r \in {Absent, [uuid |-> "other", pk |-> Nothing, ip |-> Nothing]}
             \cup {[uuid |-> "me", pk |-> pk, ip |-> a] : a \in Ips} :
         /\ row = [i \in Ids |-> IF i = 1 THEN r ELSE Absent]
         /\ confirmed \in {FALSE, r.uuid = "me"}    \* persisted with the key it confirmed
    /\ moves = 0 /\ restarts = 0 /\ keys = 0

-----------------------------------------------------------------------------
(* The client *)

(* Two packets of a kind are sent seconds apart: the network keeps, delays    *)
(* and loses them, and reorders packets of different kinds, but an older one  *)
(* does not outlive the next of its kind.                                     *)
Sent(packets, m) == {n \in packets : n.kind # m.kind} \cup {m}

(* register_pk *)
RegisterPk(i) == [kind |-> "pk", id |-> i, pk |-> pk, ip |-> ip]

(* register_peer: RegisterPk while the key is not confirmed                   *)
register_peer ==
    IF confirmed
    THEN up' = Sent(up, [kind |-> "peer", id |-> id, ip |-> ip]) /\ UNCHANGED SENT_REGISTER_PK
    ELSE up' = Sent(up, RegisterPk(id)) /\ SENT_REGISTER_PK' = TRUE

Tick ==
    /\ register_peer
    /\ UNCHANGED <<id, pk, ip, confirmed, down, mem, row, bounds>>

(* handle_resp, RegisterPeerResponse                                          *)
OnPeerResponse(m) ==
    /\ m \in down /\ m.kind = "peer" /\ down' = down \ {m}
    /\ IF m.request_pk
       THEN up' = Sent(up, RegisterPk(id)) /\ SENT_REGISTER_PK' = TRUE
       ELSE UNCHANGED <<up, SENT_REGISTER_PK>>
    /\ UNCHANGED <<id, pk, ip, confirmed, mem, row, bounds>>

(* handle_resp, RegisterPkResponse: OK, UUID_MISMATCH (handle_uuid_mismatch), *)
(* or TOO_FREQUENT, which is only logged                                      *)
OnPkResponse(m) ==
    /\ m \in down /\ m.kind = "pk" /\ down' = down \ {m}
    /\ CASE m.result = "OK" ->
              confirmed' = TRUE /\ UNCHANGED <<id, up, SENT_REGISTER_PK>>
         [] m.result = "UUID_MISMATCH" ->
              /\ confirmed' = FALSE
              /\ id < MaxIds /\ id' = id + 1
              /\ up' = Sent(up, RegisterPk(id + 1)) /\ SENT_REGISTER_PK' = TRUE
         [] m.result = "TOO_FREQUENT" ->
              UNCHANGED <<id, confirmed, up, SENT_REGISTER_PK>>
    /\ UNCHANGED <<pk, ip, mem, row, bounds>>

(* The configuration is synced from the root process and brings another key;  *)
(* CheckIfResendPk withdraws the confirmation.                                *)
SyncConfig ==
    /\ keys < MaxKeys /\ keys' = keys + 1
    /\ pk' \in Pks \ {pk}
    /\ confirmed' \in IF SENT_REGISTER_PK THEN {FALSE}
                      ELSE {FALSE, row[id].uuid = "me" /\ row[id].pk = pk'}
    /\ UNCHANGED <<id, ip, SENT_REGISTER_PK, up, down, mem, row, moves, restarts>>

(* The client's address changes under it.                                     *)
Move ==
    /\ moves < MaxMoves /\ moves' = moves + 1
    /\ ip' \in Ips \ {ip}
    /\ UNCHANGED <<id, pk, confirmed, SENT_REGISTER_PK, up, down, mem, row, restarts, keys>>

-----------------------------------------------------------------------------
(* hbbs *)

Takes(m, response) ==
    /\ m \in up /\ up' = up \ {m}
    /\ down' = Sent(down, response)
    /\ UNCHANGED <<client, bounds>>

(* update_addr: a peer whose address changed is not moved there, it is asked  *)
(* for its key, unless the new address is a loopback one.  Mutant: it is      *)
(* neither moved nor asked.                                                   *)
IpChange(old, a) ==
    /\ IF old.addr # Nothing THEN a # old.addr ELSE a # old.ip
    /\ a \notin Loopback

update_addr_m(m) ==
    LET old == mem[m.id]
        request_pk == old = Absent \/ old.pk = Nothing
    IN  /\ Takes(m, [kind |-> "peer", request_pk |-> request_pk])
        /\ mem' = IF request_pk \/ IpChange(old, m.ip) THEN mem ELSE [mem EXCEPT ![m.id].addr = m.ip]
update_addr(m) ==
    LET old == mem[m.id]
        request_pk == old = Absent \/ old.pk = Nothing \/ IpChange(old, m.ip)
    IN  /\ Takes(m, [kind |-> "peer", request_pk |-> request_pk])
        /\ mem' = IF request_pk THEN mem ELSE [mem EXCEPT ![m.id].addr = m.ip]

HandleRegisterPeer(m) ==
    /\ m \in up /\ m.kind = "peer"
    /\ update_addr(m)
    /\ UNCHANGED row

(* PeerMap::get_or                                                            *)
get_or(i) == IF mem[i] # Absent THEN mem[i] ELSE IF row[i] # Absent THEN Loaded(row[i]) ELSE Empty

(* The identity check of RegisterPk.  Mutant: a new address is enough to      *)
(* refuse.                                                                    *)
Mismatch_m(p, m) == p.uuid # Nothing /\ (p.uuid # "me" \/ p.ip # m.ip)
Mismatch(p, m) == p.uuid # Nothing /\ (p.uuid # "me" \/ (p.ip # m.ip /\ p.pk # m.pk))

(* update_pk is called only when something changed, and only it moves the     *)
(* address; reg_pk allows three registrations no more than six seconds apart. *)
HandleRegisterPk(m) ==
    /\ m \in up /\ m.kind = "pk"
    /\ LET p == get_or(m.id)
           limited == p.recent /\ p.regs > 2
           changed == p.uuid = Nothing \/ p.pk # m.pk \/ p.ip # m.ip
           counted == [p EXCEPT !.regs = IF p.recent THEN @ + 1 ELSE 1, !.recent = TRUE]
           updated == [counted EXCEPT !.uuid = "me", !.pk = m.pk, !.ip = m.ip, !.addr = m.ip]
       IN CASE Mismatch(p, m) ->
                 /\ Takes(m, [kind |-> "pk", result |-> "UUID_MISMATCH"])
                 /\ mem' = [mem EXCEPT ![m.id] = p] /\ UNCHANGED row
            [] ~Mismatch(p, m) /\ limited ->
                 /\ Takes(m, [kind |-> "pk", result |-> "TOO_FREQUENT"])
                 /\ mem' = [mem EXCEPT ![m.id] = p] /\ UNCHANGED row
            [] OTHER ->
                 /\ Takes(m, [kind |-> "pk", result |-> "OK"])
                 /\ mem' = [mem EXCEPT ![m.id] = IF changed THEN updated ELSE counted]
                 /\ row' = IF changed THEN [row EXCEPT ![m.id] = [uuid |-> "me", pk |-> m.pk, ip |-> m.ip]]
                           ELSE row

(* More than six seconds pass without a counted registration of id i.         *)
Quiet(i) ==
    /\ mem[i] # Absent /\ mem[i].recent
    /\ mem' = [mem EXCEPT ![i].recent = FALSE]
    /\ UNCHANGED <<client, up, down, row, bounds>>

Restart ==
    /\ restarts < MaxRestarts /\ restarts' = restarts + 1
    /\ mem' = [i \in Ids |-> Absent]
    /\ UNCHANGED <<client, up, down, row, moves, keys>>

Lose ==
    /\ \/ \E m \in up : up' = up \ {m} /\ UNCHANGED down
       \/ \E m \in down : down' = down \ {m} /\ UNCHANGED up
    /\ UNCHANGED <<client, mem, row, bounds>>

-----------------------------------------------------------------------------
ServerPeer == \E m \in up : HandleRegisterPeer(m)
ServerPk == \E m \in up : HandleRegisterPk(m)
ClientPeer == \E m \in down : OnPeerResponse(m)
ClientPk(result) == \E m \in down : m.kind = "pk" /\ m.result = result /\ OnPkResponse(m)
Results == {"OK", "UUID_MISMATCH", "TOO_FREQUENT"}

Next ==
    \/ Tick \/ ServerPeer \/ ServerPk \/ ClientPeer \/ \E r \in Results : ClientPk(r)
    \/ SyncConfig \/ Move \/ Restart \/ Lose
    \/ \E i \in Ids : Quiet(i)

(* The loop's timer keeps ticking, packets of a kind that is sent again and   *)
(* again get through now and then, and time passes.                           *)
Spec ==
    /\ Init /\ [][Next]_vars
    /\ WF_vars(Tick)
    /\ SF_vars(ServerPeer) /\ SF_vars(ServerPk) /\ SF_vars(ClientPeer)
    /\ \A r \in Results : SF_vars(ClientPk(r))
    /\ \A i \in Ids : WF_vars(Quiet(i))

-----------------------------------------------------------------------------
Located == mem[id].uuid = "me" /\ mem[id].addr = ip
Registered == Located /\ mem[id].pk = pk

(* A peer that hbbs moved to a loopback address without a RegisterPk, and     *)
(* that is back where its last RegisterPk came from: it is asked for its key, *)
(* the key is found unchanged, and only a changed one moves the address.      *)
Stranded == mem[id].uuid = "me" /\ mem[id].addr \in Loopback /\ mem[id].ip = ip

(* Whatever is lost or reordered, and after the last move, restart, config    *)
(* sync or refused id, hbbs ends up with the client's address under the       *)
(* client's id, so that a punch hole request finds it, and with its key       *)
(* unless a sync has changed that (NewKeyRegistered).  The one exception is a *)
(* client that has come back from a loopback address (Stranded).              *)
StaysRegistered ==
    <>[](/\ Located \/ Stranded
         /\ keys = 0 => mem[id].pk = pk)

(* A machine whose id belongs to nobody else keeps it: no loss, no late       *)
(* packet from an old address and no restart makes hbbs refuse it and the     *)
(* client draw a new id.                                                      *)
KeepsId == keys = 0 /\ row[1].uuid # "other" => id = 1

(* "detects pk changes and triggers a re-registration": after a config sync   *)
(* hbbs ends up with the new key.                                             *)
NewKeyRegistered == keys = MaxKeys ~> Registered
=============================================================================
