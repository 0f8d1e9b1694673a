---------------------------- MODULE Registration ----------------------------
(***************************************************************************)
(* hbbs's registration of ONE peer id: PeerMap (server/src/peer.rs), the   *)
(* peer table (server/src/database.rs) and the two RegisterPk handlers of  *)
(* server/src/rendezvous_server.rs.                                        *)
(*                                                                         *)
(* UDP packets are handled one at a time by io_loop; every TCP connection  *)
(* (the VLESS listener) is a task of its own on a multi-threaded runtime,  *)
(* so is every lookup of the id for a punch hole or a signed key.  A step  *)
(* is what a task does under one lock or in one database statement.        *)
(*                                                                         *)
(* A Peer object is shared by Arc, so the map may be made to point to a    *)
(* new object while a task still works on the old one: `objs' is the heap, *)
(* `cur' the object the map holds.  The id's row is written once and never *)
(* deleted, so a guid is only "known or not".  socket_addr, last_reg_time  *)
(* and IP_CHANGES, which no decision of these handlers reads, are left out.*)
(***************************************************************************)
EXTENDS Naturals, FiniteSets

CONSTANTS Udp,        \* {the io_loop} or {}: UDP RegisterPk
          Tcp,        \* the authenticated TCP connections
          Lookups,    \* tasks that only look the id up
          Devices,    \* the machines that use the id; also their uuids
          Keys,       \* each machine's key pairs, numbered
          Ips,        \* the addresses UDP packets come from
          Gateway,    \* the one address TCP registrations come from
          Nothing,    \* an empty uuid, key, address or row
          MaxRegs,    \* what reg_pk may reach before RegisterPk is TOO_FREQUENT: 2
          DbMayFail   \* whether a database statement may fail

ASSUME RegistrationAssumption ==
    /\ \A t, u \in Udp : t = u
    /\ Udp \cap Tcp = {} /\ Lookups \cap (Udp \cup Tcp) = {}
    /\ Nothing \notin Devices \cup Ips \cup {Gateway}
    /\ MaxRegs \in Nat /\ DbMayFail \in BOOLEAN

VARIABLES cur, objs, row, tasks

vars == <<cur, objs, row, tasks>>

Tasks == Udp \cup Tcp \cup Lookups

Pks == Devices \X Keys

Heap == 1..(Cardinality(Tasks) + 1)

Identity == [uuid: Devices, pk: Pks, ip: Ips \cup {Gateway}]

NoIdentity == [uuid |-> Nothing, pk |-> Nothing, ip |-> Nothing]

Fresh(id, known) == [id |-> id, known |-> known, regs |-> 0, recent |-> FALSE]

\* The states in which a task has nothing in hand; "ok", "refused" and "error"
\* remember the answer it gave last.
Resting == {"idle", "ok", "refused", "error"}

Task(at, obj, req) ==
    [at |-> at, obj |-> obj, req |-> req, loaded |-> NoIdentity, changed |-> FALSE, regs |-> 0]

Idle == Task("idle", 0, NoIdentity)

Init ==
    /\ cur = 0
    /\ objs = [o \in Heap |-> Fresh(NoIdentity, FALSE)]
    /\ row = NoIdentity
    /\ tasks = [t \in Tasks |-> Idle]

\* An object nobody holds: what Arc::new may return.
Unheld(o) == o # cur /\ \A t \in Tasks : tasks[t].obj # o

Go(t, at) == tasks' = [tasks EXCEPT ![t].at = at]

\* The task is through; only the answer outlives it.
Answer(t, with) == tasks' = [tasks EXCEPT ![t] = Task(with, 0, tasks[t].req)]

\* What each handler answers when update_pk failed: the TCP one passes the
\* result on, the UDP one drops it.
AfterFailure(t) == IF t \in Udp THEN "ok" ELSE "error"

Requests(t) ==
    {r \in Identity : /\ r.pk[1] = r.uuid
                      /\ IF t \in Tcp THEN r.ip = Gateway ELSE r.ip \in Ips}

-----------------------------------------------------------------------------
\* The request is well formed; a UDP one also passed the limit on its address,
\* and PeerMap::get looks in the map first.
Begin(t, r) ==
    /\ t \in Udp \cup Tcp /\ tasks[t].at \in Resting
    /\ tasks' = [tasks EXCEPT ![t] = Task(IF cur = 0 THEN "fetch" ELSE "check", cur, r)]
    /\ UNCHANGED <<cur, objs, row>>

\* The address of a UDP packet has used up its allowance: TOO_FREQUENT.
Blocked(t, r) ==
    /\ t \in Udp /\ tasks[t].at \in Resting
    /\ tasks' = [tasks EXCEPT ![t] = Task("refused", 0, r)]
    /\ UNCHANGED <<cur, objs, row>>

\* A lookup misses the map; one that hits it changes nothing.
LookUp(t) ==
    /\ t \in Lookups /\ tasks[t].at = "idle" /\ cur = 0
    /\ Go(t, "fetch")
    /\ UNCHANGED <<cur, objs, row>>

\* PeerMap::get asks the database.  An error counts as "no such peer".
Fetch(t) ==
    /\ tasks[t].at = "fetch"
    /\ \/ /\ row # NoIdentity
          /\ tasks' = [tasks EXCEPT ![t].at = "adopt", ![t].loaded = row]
       \/ /\ row = NoIdentity \/ DbMayFail
          /\ IF t \in Lookups THEN Answer(t, "idle") ELSE Go(t, "make")
    /\ UNCHANGED <<cur, objs, row>>

\* PeerMap::get puts what it read into the map, whatever the map holds by now.
Adopt(t) ==
    /\ tasks[t].at = "adopt"
    /\ \E o \in Heap :
          /\ Unheld(o) /\ \A p \in Heap : Unheld(p) => o <= p
          /\ objs' = [objs EXCEPT ![o] = Fresh(tasks[t].loaded, TRUE)]
          /\ cur' = o
          /\ tasks' = [tasks EXCEPT ![t] =
                IF t \in Lookups THEN Idle ELSE Task("check", o, tasks[t].req)]
    /\ UNCHANGED row

\* PeerMap::get_or: under the map's lock, what another task put there or an
\* empty peer.
Make(t) ==
    /\ tasks[t].at = "make"
    /\ \/ /\ cur # 0
          /\ tasks' = [tasks EXCEPT ![t].at = "check", ![t].obj = cur]
          /\ UNCHANGED <<cur, objs>>
       \/ /\ cur = 0
          /\ \E o \in Heap :
                /\ Unheld(o) /\ \A p \in Heap : Unheld(p) => o <= p
                /\ objs' = [objs EXCEPT ![o] = Fresh(NoIdentity, FALSE)]
                /\ cur' = o
                /\ tasks' = [tasks EXCEPT ![t].at = "check", ![t].obj = o]
    /\ UNCHANGED row

-----------------------------------------------------------------------------
\* A variant that forgets to compare the uuids.
MismatchOfKey(p, r) == p.id.uuid = r.uuid /\ p.id.ip # r.ip /\ p.id.pk # r.pk

\* What the handlers conclude from the peer they hold: a request is refused
\* when it names another machine, or the same one at a new address with a new
\* key; otherwise it changes the registration or repeats it.
Mismatch(p, r) ==
    /\ p.id.uuid # Nothing
    /\ p.id.uuid # r.uuid \/ (p.id.ip # r.ip /\ p.id.pk # r.pk)

\* A variant that forgets to compare the keys.
ChangedAddress(p, r) == p.id.uuid = Nothing \/ p.id.ip # r.ip

Changed(p, r) == p.id # r

Check(t) ==
    /\ tasks[t].at = "check"
    /\ LET p == objs[tasks[t].obj]
           r == tasks[t].req
       IN IF Mismatch(p, r)
          THEN Answer(t, "refused")
          ELSE tasks' = [tasks EXCEPT ![t].at = "limit", ![t].changed = Changed(p, r)]
    /\ UNCHANGED <<cur, objs, row>>

\* reg_pk is read here and written back in Count: at most MaxRegs + 1
\* registrations no more than six seconds apart.
Limit(t) ==
    /\ tasks[t].at = "limit"
    /\ LET p == objs[tasks[t].obj]
       IN IF p.recent /\ p.regs > MaxRegs
          THEN Answer(t, "refused")
          ELSE tasks' = [tasks EXCEPT ![t].at = "count",
                                      ![t].regs = IF p.recent THEN p.regs + 1 ELSE 1]
    /\ UNCHANGED <<cur, objs, row>>

Count(t) ==
    /\ tasks[t].at = "count"
    /\ objs' = [objs EXCEPT ![tasks[t].obj].regs = tasks[t].regs,
                            ![tasks[t].obj].recent = TRUE]
    /\ IF tasks[t].changed THEN Go(t, "memory") ELSE Answer(t, "ok")
    /\ UNCHANGED <<cur, row>>

\* PeerMap::update_pk writes the shared object first and reads its guid.
WriteMemory(t) ==
    /\ tasks[t].at = "memory"
    /\ objs' = [objs EXCEPT ![tasks[t].obj].id = tasks[t].req]
    /\ Go(t, IF objs[tasks[t].obj].known THEN "update" ELSE "insert")
    /\ UNCHANGED <<cur, row>>

\* A variant without the unique index.
InsertReplacing(t) ==
    /\ tasks[t].at = "insert"
    /\ \/ row' = tasks[t].req /\ Go(t, "learn")
       \/ DbMayFail /\ Answer(t, AfterFailure(t)) /\ UNCHANGED row
    /\ UNCHANGED <<cur, objs>>

\* A variant that takes the guid before it knows the insert went through.
InsertAssumed(t) ==
    /\ tasks[t].at = "insert"
    /\ row = NoIdentity
    /\ row' \in {row, tasks[t].req} /\ Go(t, "learn")
    /\ UNCHANGED <<cur, objs>>

\* db.insert_peer: the unique index on id lets the first one through.
InsertPeer(t) ==
    /\ tasks[t].at = "insert"
    /\ \/ row = NoIdentity /\ row' = tasks[t].req /\ Go(t, "learn")
       \/ (row # NoIdentity \/ DbMayFail) /\ Answer(t, AfterFailure(t)) /\ UNCHANGED row
    /\ UNCHANGED <<cur, objs>>

\* The object learns the guid only after the insert.
LearnGuid(t) ==
    /\ tasks[t].at = "learn"
    /\ objs' = [objs EXCEPT ![tasks[t].obj].known = TRUE]
    /\ Answer(t, "ok")
    /\ UNCHANGED <<cur, row>>

\* db.update_pk sets pk and info, not uuid.
UpdatePk(t) ==
    /\ tasks[t].at = "update"
    /\ \/ row' = [row EXCEPT !.pk = tasks[t].req.pk, !.ip = tasks[t].req.ip] /\ Answer(t, "ok")
       \/ DbMayFail /\ Answer(t, AfterFailure(t)) /\ UNCHANGED row
    /\ UNCHANGED <<cur, objs>>

\* More than six seconds pass without a counted registration.
Quiet ==
    /\ \E o \in Heap : objs[o].recent
    /\ objs' = [o \in Heap |-> [objs[o] EXCEPT !.recent = FALSE]]
    /\ UNCHANGED <<cur, row, tasks>>

\* hbbs stops at any point and starts again with what the database holds.
Restart ==
    /\ cur' = 0
    /\ objs' = [o \in Heap |-> Fresh(NoIdentity, FALSE)]
    /\ tasks' = [t \in Tasks |-> Idle]
    /\ UNCHANGED row

Next ==
    \/ \E t \in Tasks : \/ \E r \in Requests(t) : Begin(t, r) \/ Blocked(t, r)
                        \/ LookUp(t) \/ Fetch(t) \/ Adopt(t) \/ Make(t)
                        \/ Check(t) \/ Limit(t) \/ Count(t)
                        \/ WriteMemory(t) \/ InsertPeer(t) \/ LearnGuid(t) \/ UpdatePk(t)
    \/ Quiet
    \/ Restart

Spec == Init /\ [][Next]_vars

-----------------------------------------------------------------------------
\* Every field has its type, and the per-peer counter of RegisterPk stays
\* within the limiter's bound.
TypeOK ==
    /\ cur \in Heap \cup {0}
    /\ objs \in [Heap -> [id: Identity \cup {NoIdentity}, known: BOOLEAN,
                          regs: 0..(MaxRegs + 1), recent: BOOLEAN]]
    /\ row \in Identity \cup {NoIdentity}
    /\ \A t \in Tasks : tasks[t] \in
          [at: Resting \cup {"fetch", "adopt", "make", "check", "limit", "count",
                             "memory", "insert", "learn", "update"},
           obj: Heap \cup {0}, req: Identity \cup {NoIdentity},
           loaded: Identity \cup {NoIdentity}, changed: BOOLEAN, regs: 0..(MaxRegs + 1)]

\* A peer object that carries a guid stands for a row of the table: otherwise
\* update_pk's UPDATE would match no row and still be answered OK
\* (peer.rs:115-132).  Failed inserts, racing inserts of the same id and
\* restarts included.
GuidHasRow ==
    \A o \in Heap : objs[o].known => row # NoIdentity

\* Whatever registrations race, fail or are cut off by a restart, the machine
\* the id was first stored for keeps it in the table (the unique index of
\* database.rs:84, and an UPDATE that leaves uuid alone).
RowKeepsMachine ==
    [][row # NoIdentity => row'.uuid = row.uuid]_vars

\* A task that answers OK in this step leaves its request in the row.
OkStored ==
    \A t \in Udp \cup Tcp :
        tasks[t].at \notin Resting /\ tasks'[t].at = "ok" =>
            row'.uuid = tasks[t].req.uuid /\ row'.pk = tasks[t].req.pk

\* A machine that is answered OK finds its uuid and key in the table at that
\* moment, so a restart of hbbs does not forget it.
OkIsPersisted == [][OkStored]_vars

\* The stored key is a key of the stored machine: RegisterPk validates the
\* identity before it stores a key under it.
RowIsOneMachine ==
    row # NoIdentity => row.pk[1] = row.uuid
=============================================================================
