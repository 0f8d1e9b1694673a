---------------------------- MODULE ServerProofs ----------------------------
(* Proofs about the two servers: the pairing of connections at hbbr and the  *)
(* registration of a peer id at hbbs.                                        *)
EXTENDS MCRegistration, RelayPairing, TLAPS

-----------------------------------------------------------------------------
(* Proofs about the registration of a peer id at hbbs, for any number of     *)
(* concurrent registrations and lookups, of machines, keys and addresses,    *)
(* with failing statements and restarts at any point.                        *)
(*                                                                           *)
(* The row of the table is written by two statements.  INSERT takes place    *)
(* only while there is no row; UPDATE leaves the uuid alone, but on a table  *)
(* without the row it would do nothing and be answered OK.  IInv says that   *)
(* no task is on its way to an UPDATE, or to learning a guid, before the row *)
(* is there (Ahead), and that no peer object carries a guid before then.     *)

Steps == {"fetch", "adopt", "make", "check", "limit", "count",
          "memory", "insert", "learn", "update"}

TaskType ==
    [at: Resting \cup Steps, obj: Heap \cup {0}, req: Identity \cup {NoIdentity},
     loaded: Identity \cup {NoIdentity}, changed: BOOLEAN, regs: 0..(MaxRegs + 1)]

ObjType ==
    [id: Identity \cup {NoIdentity}, known: BOOLEAN, regs: 0..(MaxRegs + 1), recent: BOOLEAN]

Types ==
    /\ cur \in Heap \cup {0}
    /\ objs \in [Heap -> ObjType]
    /\ row \in Identity \cup {NoIdentity}
    /\ tasks \in [Tasks -> TaskType]

\* What a task has in hand on its way.
InHand(t) ==
    /\ tasks[t].at \in Steps /\ t \notin Lookups => tasks[t].req \in Identity
    /\ tasks[t].at \in Steps \ {"fetch", "adopt"} => t \notin Lookups
    /\ tasks[t].at \in Steps \ {"fetch", "adopt", "make"} => tasks[t].obj \in Heap

\* The row is there before anything is done that relies on it.
Ahead(t) == tasks[t].at \in {"adopt", "learn", "update"} => row # NoIdentity

IInv == Types /\ (\A t \in Tasks : InHand(t) /\ Ahead(t)) /\ GuidHasRow

-----------------------------------------------------------------------------
\* A machine's uuid is not empty, so a stored identity is never the empty one.
LEMMA Identities ==
    /\ NoIdentity \notin Identity
    /\ \A r \in Identity : r.uuid \in Devices
    /\ \A r, s \in Identity : [r EXCEPT !.pk = s.pk, !.ip = s.ip] \in Identity
  BY Zenon, RegistrationAssumption DEF Identity, NoIdentity

LEMMA IdleType ==
    /\ Idle \in TaskType /\ Idle.at = "idle"
    /\ Fresh(NoIdentity, FALSE) \in ObjType /\ ~Fresh(NoIdentity, FALSE).known
  BY RegistrationAssumption DEF Idle, Task, TaskType, Resting, NoIdentity, Fresh, ObjType

\* hbbs starts with an empty table and an empty map.
LEMMA InitInv == Init => IInv
  <1> SUFFICES ASSUME Init PROVE IInv OBVIOUS
  <1>1. Types BY Zenon, IdleType DEF Init, Types
  <1>2. \A t \in Tasks : InHand(t) /\ Ahead(t)
    BY IdleType DEF Init, InHand, Ahead, Steps
  <1>3. GuidHasRow BY Zenon, IdleType DEF Init, GuidHasRow
  <1> QED BY <1>1, <1>2, <1>3 DEF IInv

\* What it takes for one task's step to preserve IInv: the task's new record
\* is typed and has in hand what it needs, the others stay, and neither the
\* row nor a guid gets lost or comes out of nothing.
LEMMA TaskInv ==
    ASSUME IInv, NEW t \in Tasks, NEW rec \in TaskType,
           tasks' = [tasks EXCEPT ![t] = rec],
           cur' \in Heap \cup {0}, objs' \in [Heap -> ObjType],
           row' \in Identity \cup {NoIdentity},
           row # NoIdentity => row' # NoIdentity,
           \A o \in Heap : objs'[o].known => objs[o].known \/ row' # NoIdentity,
           rec.at \in Steps /\ t \notin Lookups => rec.req \in Identity,
           rec.at \in Steps \ {"fetch", "adopt"} => t \notin Lookups,
           rec.at \in Steps \ {"fetch", "adopt", "make"} => rec.obj \in Heap,
           rec.at \in {"adopt", "learn", "update"} => row' # NoIdentity
    PROVE  IInv'
  <1>1. Types' BY DEF IInv, Types
  <1>2. ASSUME NEW u \in Tasks PROVE (InHand(u) /\ Ahead(u))'
    <2>1. tasks'[u] = IF u = t THEN rec ELSE tasks[u] BY DEF IInv, Types
    <2>2. InHand(u) /\ Ahead(u) BY DEF IInv
    <2>3. CASE u = t BY <2>1, <2>3 DEF InHand, Ahead
    <2>4. CASE u # t BY <2>1, <2>2, <2>4 DEF InHand, Ahead
    <2> QED BY <2>3, <2>4
  <1>3. GuidHasRow' BY DEF IInv, GuidHasRow
  <1> QED BY <1>1, <1>2, <1>3 DEF IInv

\* The answer ends the task.
LEMMA AnswerInv ==
    ASSUME IInv, NEW t \in Tasks, NEW with \in Resting, Answer(t, with),
           cur' = cur, objs' \in [Heap -> ObjType],
           row' \in Identity \cup {NoIdentity},
           row # NoIdentity => row' # NoIdentity,
           \A o \in Heap : objs'[o].known => objs[o].known \/ row' # NoIdentity
    PROVE  IInv'
  <1> DEFINE rec == Task(with, 0, tasks[t].req)
  <1>1. tasks[t].req \in Identity \cup {NoIdentity} BY DEF IInv, Types, TaskType
  <1>2. rec \in TaskType /\ rec.at = with
    BY <1>1, RegistrationAssumption DEF TaskType, Task
  <1>3. with \notin Steps BY DEF Resting, Steps
  <1>4. tasks' = [tasks EXCEPT ![t] = rec] BY DEF Answer
  <1>5. cur' \in Heap \cup {0} BY DEF IInv, Types
  <1>6. {"adopt", "learn", "update"} \subseteq Steps BY DEF Steps
  <1> HIDE DEF rec
  <1> QED BY Zenon, <1>2, <1>3, <1>4, <1>5, <1>6, TaskInv

LEMMA BeginInv ==
    ASSUME IInv, NEW t \in Tasks, NEW r \in Requests(t), Begin(t, r) \/ Blocked(t, r)
    PROVE  IInv'
  <1>1. r \in Identity /\ UNCHANGED <<cur, objs, row>> BY DEF Requests, Begin, Blocked
  <1>2. t \notin Lookups BY RegistrationAssumption DEF Begin, Blocked
  <1>3. Types BY DEF IInv
  <1>4. CASE Begin(t, r)
    <2> DEFINE rec == Task(IF cur = 0 THEN "fetch" ELSE "check", cur, r)
    <2>1. rec \in TaskType BY <1>1, <1>3, RegistrationAssumption DEF Types, TaskType, Task, Steps
    <2>2. rec.at \in {"fetch", "check"} /\ rec.req = r /\ (rec.at = "check" => rec.obj \in Heap)
      BY <1>3 DEF Task, Types
    <2>3. tasks' = [tasks EXCEPT ![t] = rec] BY <1>4 DEF Begin
    <2> HIDE DEF rec
    <2> QED BY Zenon, <1>1, <1>2, <1>3, <2>1, <2>2, <2>3, TaskInv DEF Types, Steps
  <1>5. CASE Blocked(t, r)
    <2> DEFINE rec == Task("refused", 0, r)
    <2>1. rec \in TaskType /\ rec.at = "refused"
      BY <1>1, RegistrationAssumption DEF TaskType, Task, Resting
    <2>2. tasks' = [tasks EXCEPT ![t] = rec] BY <1>5 DEF Blocked
    <2> HIDE DEF rec
    <2> QED BY Zenon, <1>1, <1>3, <2>1, <2>2, TaskInv DEF Types, Steps
  <1> QED BY <1>4, <1>5

\* PeerMap::get and get_or.  What is adopted was read from a row.
LEMMA GetInv ==
    ASSUME IInv, NEW t \in Tasks, LookUp(t) \/ Fetch(t) \/ Adopt(t) \/ Make(t)
    PROVE  IInv'
  <1> USE DEF Steps
  <1>1. Types /\ InHand(t) /\ Ahead(t) /\ GuidHasRow BY DEF IInv
  <1>2. tasks[t] \in TaskType BY <1>1 DEF Types
  <1>3. CASE LookUp(t)
    <2> DEFINE rec == [tasks[t] EXCEPT !.at = "fetch"]
    <2>1. rec \in TaskType /\ rec.at = "fetch" BY <1>2 DEF TaskType
    <2>2. tasks' = [tasks EXCEPT ![t] = rec] /\ t \in Lookups /\ UNCHANGED <<cur, objs, row>>
      BY <1>3 DEF LookUp, Go
    <2> HIDE DEF rec
    <2> QED BY Zenon, <1>1, <2>1, <2>2, TaskInv DEF Types
  <1>4. CASE Fetch(t)
    <2>0. tasks[t].at = "fetch" /\ UNCHANGED <<cur, objs, row>> BY <1>4 DEF Fetch
    <2>1. CASE row # NoIdentity /\ tasks' = [tasks EXCEPT ![t].at = "adopt", ![t].loaded = row]
      <3> DEFINE rec == [tasks[t] EXCEPT !.at = "adopt", !.loaded = row]
      <3>1. rec \in TaskType /\ rec.at = "adopt" /\ rec.req = tasks[t].req
        BY Zenon, <1>1, <1>2 DEF TaskType, Types
      <3>2. tasks' = [tasks EXCEPT ![t] = rec] BY Zenon, <1>1, <2>1 DEF Types
      <3> HIDE DEF rec
      <3> QED BY Zenon, <1>1, <2>0, <2>1, <3>1, <3>2, TaskInv DEF Types, InHand
    <2>2. CASE t \in Lookups /\ Answer(t, "idle")
      BY <1>1, <2>0, <2>2, AnswerInv DEF Types, Resting
    <2>3. CASE t \notin Lookups /\ Go(t, "make")
      <3> DEFINE rec == [tasks[t] EXCEPT !.at = "make"]
      <3>1. rec \in TaskType /\ rec.at = "make" /\ rec.req = tasks[t].req BY <1>2 DEF TaskType
      <3>2. tasks' = [tasks EXCEPT ![t] = rec] BY <2>3 DEF Go
      <3> HIDE DEF rec
      <3> QED BY Zenon, <1>1, <2>0, <2>3, <3>1, <3>2, TaskInv DEF Types, InHand
    <2> QED BY <1>4, <2>1, <2>2, <2>3 DEF Fetch
  <1>5. CASE Adopt(t)
    <2>1. PICK o \in Heap :
            /\ objs' = [objs EXCEPT ![o] = Fresh(tasks[t].loaded, TRUE)]
            /\ cur' = o
            /\ tasks' = [tasks EXCEPT ![t] =
                           IF t \in Lookups THEN Idle ELSE Task("check", o, tasks[t].req)]
      BY Zenon, <1>5 DEF Adopt
    <2>2. row' = row /\ row # NoIdentity /\ tasks[t].at = "adopt" BY <1>1, <1>5 DEF Adopt, Ahead
    <2>3. Fresh(tasks[t].loaded, TRUE) \in ObjType
      BY <1>2, RegistrationAssumption DEF Fresh, ObjType, TaskType
    <2> DEFINE rec == IF t \in Lookups THEN Idle ELSE Task("check", o, tasks[t].req)
    <2>4. rec \in TaskType BY <1>2, RegistrationAssumption, IdleType DEF TaskType, Task
    <2>5. \/ t \in Lookups /\ rec.at = "idle"
          \/ t \notin Lookups /\ rec.at = "check" /\ rec.obj = o /\ rec.req = tasks[t].req
      BY IdleType DEF Task
    <2>6. tasks' = [tasks EXCEPT ![t] = rec] BY <2>1
    <2> HIDE DEF rec
    <2>7. objs' \in [Heap -> ObjType] BY Zenon, <1>1, <2>1, <2>3 DEF Types
    <2>8. row' # NoIdentity /\ row' \in Identity /\ cur' \in Heap BY <1>1, <2>1, <2>2 DEF Types
    <2>9. t \notin Lookups => tasks[t].req \in Identity BY <1>1, <2>2 DEF InHand
    <2> QED BY Zenon, <2>4, <2>5, <2>6, <2>7, <2>8, <2>9, TaskInv
  <1>6. CASE Make(t)
    <2>0. tasks[t].at = "make" /\ row' = row BY <1>6 DEF Make
    <2>1. PICK o \in Heap : cur' = o /\ tasks' = [tasks EXCEPT ![t].at = "check", ![t].obj = o]
      BY Zenon, <1>1, <1>6 DEF Make, Types
    <2>2. objs' = objs \/ \E p \in Heap : objs' = [objs EXCEPT ![p] = Fresh(NoIdentity, FALSE)]
      BY Zenon, <1>6 DEF Make
    <2>3. /\ objs' \in [Heap -> ObjType]
          /\ \A p \in Heap : objs'[p].known => objs[p].known
      BY Zenon, <1>1, <2>2, IdleType DEF Types
    <2> DEFINE rec == [tasks[t] EXCEPT !.at = "check", !.obj = o]
    <2>4. rec \in TaskType /\ rec.at = "check" /\ rec.req = tasks[t].req /\ rec.obj = o
      BY Zenon, <1>2 DEF TaskType
    <2>5. tasks' = [tasks EXCEPT ![t] = rec] BY Zenon, <1>1, <2>1 DEF Types
    <2> HIDE DEF rec
    <2>6. tasks[t].req \in Identity /\ t \notin Lookups BY <1>1, <2>0, RegistrationAssumption DEF InHand
    <2>7. row' \in Identity \cup {NoIdentity} /\ cur' \in Heap \cup {0} BY <1>1, <2>0, <2>1 DEF Types
    <2> QED BY Zenon, <2>0, <2>3, <2>4, <2>5, <2>6, <2>7, TaskInv
  <1> QED BY <1>3, <1>4, <1>5, <1>6

\* The checks of the handlers, and update_pk's write to the object in memory.
LEMMA HandleInv ==
    ASSUME IInv, NEW t \in Tasks, Check(t) \/ Limit(t) \/ Count(t) \/ WriteMemory(t)
    PROVE  IInv'
  <1> USE DEF Steps
  <1>1. Types /\ InHand(t) /\ Ahead(t) /\ GuidHasRow BY DEF IInv
  <1>2. tasks[t] \in TaskType /\ tasks[t].obj \in Heap /\ tasks[t].req \in Identity /\ t \notin Lookups
    BY <1>1 DEF Types, InHand, Check, Limit, Count, WriteMemory
  <1> DEFINE p == objs[tasks[t].obj]
  <1>3. p \in ObjType BY <1>1, <1>2 DEF Types
  <1>4. CASE Check(t)
    <2>0. UNCHANGED <<cur, objs, row>> BY <1>4 DEF Check
    <2>1. CASE Answer(t, "refused") BY <1>1, <2>0, <2>1, AnswerInv DEF Types, Resting
    <2>2. CASE tasks' = [tasks EXCEPT ![t].at = "limit", ![t].changed = Changed(p, tasks[t].req)]
      <3> DEFINE rec == [tasks[t] EXCEPT !.at = "limit", !.changed = Changed(p, tasks[t].req)]
      <3>0. Changed(p, tasks[t].req) \in BOOLEAN BY DEF Changed
      <3>1. rec \in TaskType /\ rec.at = "limit" /\ rec.req = tasks[t].req /\ rec.obj = tasks[t].obj
        BY Zenon, <1>2, <3>0 DEF TaskType
      <3>2. tasks' = [tasks EXCEPT ![t] = rec] BY Zenon, <1>1, <2>2 DEF Types
      <3> HIDE DEF rec
      <3> QED BY Zenon, <1>1, <1>2, <2>0, <3>1, <3>2, TaskInv DEF Types
    <2> QED BY <1>4, <2>1, <2>2 DEF Check
  <1>5. CASE Limit(t)
    <2>0. UNCHANGED <<cur, objs, row>> BY <1>5 DEF Limit
    <2>1. CASE Answer(t, "refused") BY <1>1, <2>0, <2>1, AnswerInv DEF Types, Resting
    <2>2. CASE ~Answer(t, "refused")
      <3> DEFINE n == IF p.recent THEN p.regs + 1 ELSE 1
                 rec == [tasks[t] EXCEPT !.at = "count", !.regs = n]
      <3>1. ~(p.recent /\ p.regs > MaxRegs)
            /\ tasks' = [tasks EXCEPT ![t].at = "count", ![t].regs = n]
        BY <1>5, <2>2 DEF Limit
      <3>2. n \in 0..(MaxRegs + 1) BY <1>3, <3>1, RegistrationAssumption DEF ObjType
      <3> HIDE DEF n
      <3>3. rec \in TaskType /\ rec.at = "count" /\ rec.req = tasks[t].req /\ rec.obj = tasks[t].obj
        BY Zenon, <1>2, <3>2 DEF TaskType
      <3>4. tasks' = [tasks EXCEPT ![t] = rec] BY Zenon, <1>1, <3>1 DEF Types
      <3> HIDE DEF rec
      <3> QED BY Zenon, <1>1, <1>2, <2>0, <3>3, <3>4, TaskInv DEF Types
    <2> QED BY <2>1, <2>2
  <1>6. CASE Count(t)
    <2>0. UNCHANGED <<cur, row>> BY <1>6 DEF Count
    <2>1. objs' \in [Heap -> ObjType] /\ \A o \in Heap : objs'[o].known = objs[o].known
      <3> DEFINE q == [p EXCEPT !.regs = tasks[t].regs, !.recent = TRUE]
      <3>1. q \in ObjType /\ q.known = p.known BY Zenon, <1>2, <1>3 DEF ObjType, TaskType
      <3>2. objs' = [objs EXCEPT ![tasks[t].obj] = q] BY Zenon, <1>1, <1>2, <1>6 DEF Count, Types
      <3> HIDE DEF q
      <3> QED BY <1>1, <1>2, <3>1, <3>2 DEF Types
    <2>2. CASE Answer(t, "ok") BY <1>1, <2>0, <2>1, <2>2, AnswerInv DEF Types, Resting
    <2>3. CASE Go(t, "memory")
      <3> DEFINE rec == [tasks[t] EXCEPT !.at = "memory"]
      <3>1. rec \in TaskType /\ rec.at = "memory" /\ rec.req = tasks[t].req /\ rec.obj = tasks[t].obj
        BY <1>2 DEF TaskType
      <3>2. tasks' = [tasks EXCEPT ![t] = rec] BY <2>3 DEF Go
      <3> HIDE DEF rec
      <3> QED BY Zenon, <1>1, <1>2, <2>0, <2>1, <3>1, <3>2, TaskInv DEF Types
    <2> QED BY <1>6, <2>2, <2>3 DEF Count
  <1>7. CASE WriteMemory(t)
    <2>0. UNCHANGED <<cur, row>> BY <1>7 DEF WriteMemory
    <2>1. objs' \in [Heap -> ObjType] /\ \A o \in Heap : objs'[o].known = objs[o].known
      <3> DEFINE q == [p EXCEPT !.id = tasks[t].req]
      <3>1. q \in ObjType /\ q.known = p.known BY <1>2, <1>3 DEF ObjType
      <3>2. objs' = [objs EXCEPT ![tasks[t].obj] = q] BY <1>7 DEF WriteMemory
      <3> HIDE DEF q
      <3> QED BY <1>1, <1>2, <3>1, <3>2 DEF Types
    <2> DEFINE at == IF p.known THEN "update" ELSE "insert"
               rec == [tasks[t] EXCEPT !.at = at]
    <2>2. at \in {"update", "insert"} /\ (at = "update" => row # NoIdentity)
      BY <1>1, <1>2 DEF GuidHasRow
    <2>3. tasks' = [tasks EXCEPT ![t] = rec] BY <1>7 DEF WriteMemory, Go
    <2> HIDE DEF at
    <2>4. rec \in TaskType /\ rec.at = at /\ rec.req = tasks[t].req /\ rec.obj = tasks[t].obj
      BY <1>2, <2>2 DEF TaskType
    <2> HIDE DEF rec
    <2> QED BY Zenon, <1>1, <1>2, <2>0, <2>1, <2>2, <2>3, <2>4, TaskInv DEF Types
  <1> QED BY <1>4, <1>5, <1>6, <1>7

\* The statements.  After either the row is there for good, and the guid is
\* learnt only then.
LEMMA StoreInv ==
    ASSUME IInv, NEW t \in Tasks, InsertPeer(t) \/ LearnGuid(t) \/ UpdatePk(t)
    PROVE  IInv'
  <1> USE DEF Steps
  <1>1. Types /\ InHand(t) /\ Ahead(t) /\ GuidHasRow BY DEF IInv
  <1>2. tasks[t] \in TaskType /\ tasks[t].obj \in Heap /\ tasks[t].req \in Identity /\ t \notin Lookups
    BY <1>1 DEF Types, InHand, InsertPeer, LearnGuid, UpdatePk
  <1>3. AfterFailure(t) \in Resting BY DEF AfterFailure, Resting
  <1>4. CASE InsertPeer(t)
    <2>0. UNCHANGED <<cur, objs>> BY <1>4 DEF InsertPeer
    <2>1. CASE row' = tasks[t].req /\ Go(t, "learn")
      <3> DEFINE rec == [tasks[t] EXCEPT !.at = "learn"]
      <3>1. rec \in TaskType /\ rec.at = "learn" /\ rec.req = tasks[t].req /\ rec.obj = tasks[t].obj
        BY <1>2 DEF TaskType
      <3>2. tasks' = [tasks EXCEPT ![t] = rec] BY <2>1 DEF Go
      <3>3. row' \in Identity /\ row' # NoIdentity BY Zenon, <1>2, <2>1, Identities
      <3> HIDE DEF rec
      <3> QED BY Zenon, <1>1, <1>2, <2>0, <3>1, <3>2, <3>3, TaskInv DEF Types
    <2>2. CASE Answer(t, AfterFailure(t)) /\ UNCHANGED row
      BY <1>1, <1>3, <2>0, <2>2, AnswerInv DEF Types
    <2> QED BY <1>4, <2>1, <2>2 DEF InsertPeer
  <1>5. CASE LearnGuid(t)
    <2>0. UNCHANGED <<cur, row>> /\ row # NoIdentity /\ Answer(t, "ok")
      BY <1>1, <1>5 DEF LearnGuid, Ahead
    <2> DEFINE q == [objs[tasks[t].obj] EXCEPT !.known = TRUE]
    <2>1. q \in ObjType
      <3>1. objs[tasks[t].obj] \in ObjType BY <1>1, <1>2 DEF Types
      <3> QED BY Zenon, <3>1 DEF ObjType
    <2>2. objs' = [objs EXCEPT ![tasks[t].obj] = q] BY <1>5 DEF LearnGuid
    <2> HIDE DEF q
    <2>3. objs' \in [Heap -> ObjType] BY Zenon, <1>1, <2>1, <2>2 DEF Types
    <2> QED BY <1>1, <2>0, <2>3, AnswerInv DEF Types, Resting
  <1>6. CASE UpdatePk(t)
    <2>0. UNCHANGED <<cur, objs>> /\ row # NoIdentity BY <1>1, <1>6 DEF UpdatePk, Ahead
    <2>1. CASE row' = [row EXCEPT !.pk = tasks[t].req.pk, !.ip = tasks[t].req.ip] /\ Answer(t, "ok")
      <3>1. row' \in Identity BY Zenon, <1>1, <1>2, <2>0, <2>1, Identities DEF Types
      <3> QED BY Zenon, <1>1, <2>0, <2>1, <3>1, Identities, AnswerInv DEF Types, Resting
    <2>2. CASE Answer(t, AfterFailure(t)) /\ UNCHANGED row
      BY <1>1, <1>3, <2>0, <2>2, AnswerInv DEF Types
    <2> QED BY <1>6, <2>1, <2>2 DEF UpdatePk
  <1> QED BY <1>4, <1>5, <1>6

\* Time passes, or hbbs starts again with what the table holds.
LEMMA RestInv == ASSUME IInv, Quiet \/ Restart \/ UNCHANGED vars PROVE IInv'
  <1>1. CASE Quiet
    <2>1. objs' = [o \in Heap |-> [objs[o] EXCEPT !.recent = FALSE]] /\ UNCHANGED <<cur, row, tasks>>
      BY <1>1 DEF Quiet
    <2>2. \A o \in Heap : objs'[o] \in ObjType /\ objs'[o].known = objs[o].known
      BY Zenon, <2>1 DEF IInv, Types, ObjType
    <2> QED BY <2>1, <2>2 DEF IInv, Types, InHand, Ahead, GuidHasRow
  <1>2. CASE Restart
    <2>1. Types' BY Zenon, <1>2, IdleType DEF Restart, IInv, Types
    <2>2. (\A t \in Tasks : InHand(t) /\ Ahead(t))' BY <1>2, IdleType DEF Restart, InHand, Ahead, Steps
    <2>3. GuidHasRow' BY Zenon, <1>2, IdleType DEF Restart, GuidHasRow
    <2> QED BY <2>1, <2>2, <2>3 DEF IInv
  <1>3. CASE UNCHANGED vars BY <1>3 DEF vars, IInv, Types, InHand, Ahead, GuidHasRow
  <1> QED BY <1>1, <1>2, <1>3

LEMMA StepInv == IInv /\ [Next]_vars => IInv'
  <1> SUFFICES ASSUME IInv, [Next]_vars PROVE IInv' OBVIOUS
  <1>1. CASE Quiet \/ Restart \/ UNCHANGED vars BY <1>1, RestInv
  <1>2. ASSUME NEW t \in Tasks, NEW r \in Requests(t), Begin(t, r) \/ Blocked(t, r) PROVE IInv'
    BY <1>2, BeginInv
  <1> QED BY <1>1, <1>2, GetInv, HandleInv, StoreInv DEF Next

LEMMA Inductive == Spec => []IInv
  BY InitInv, StepInv, PTL DEF Spec

-----------------------------------------------------------------------------
\* Types, and the per-peer counter of RegisterPk within its bound, although it
\* is read and written back in two steps.
THEOREM RegistrationTypes == Spec => []TypeOK
  <1>1. IInv => TypeOK BY DEF IInv, Types, TypeOK, TaskType, ObjType, Steps
  <1> QED BY <1>1, Inductive, PTL

\* No peer object carries a guid that the table has no row for.
THEOREM RegistrationGuidHasRow == Spec => []GuidHasRow
  BY Inductive, PTL DEF IInv

\* The machine an id was first stored for keeps it in the table.
THEOREM RegistrationRowKeepsMachine == Spec => RowKeepsMachine
  <1>1. IInv /\ [Next]_vars => [row # NoIdentity => row'.uuid = row.uuid]_vars
    <2> SUFFICES ASSUME IInv, Next, row # NoIdentity PROVE row'.uuid = row.uuid
      BY DEF vars
    <2>1. row \in Identity BY DEF IInv, Types
    <2>2. ASSUME NEW t \in Tasks, UpdatePk(t) PROVE row'.uuid = row.uuid
      BY Zenon, <2>1, <2>2 DEF UpdatePk, Identity
    <2>3. ASSUME NEW t \in Tasks, LookUp(t) \/ Fetch(t) \/ Adopt(t) \/ Make(t) PROVE row' = row
      BY Zenon, <2>3 DEF LookUp, Fetch, Adopt, Make
    <2>4. ASSUME NEW t \in Tasks, Check(t) \/ Limit(t) \/ Count(t) \/ WriteMemory(t) PROVE row' = row
      BY <2>4 DEF Check, Limit, Count, WriteMemory
    <2>5. ASSUME NEW t \in Tasks, InsertPeer(t) \/ LearnGuid(t) PROVE row' = row
      BY <2>5 DEF InsertPeer, LearnGuid
    <2>6. ASSUME NEW t \in Tasks, NEW r \in Requests(t), Begin(t, r) \/ Blocked(t, r)
          PROVE  row' = row
      BY <2>6 DEF Begin, Blocked
    <2>7. Quiet \/ Restart => row' = row BY Zenon DEF Quiet, Restart
    <2> QED BY <2>2, <2>3, <2>4, <2>5, <2>6, <2>7 DEF Next
  <1> QED BY <1>1, Inductive, PTL DEF Spec, RowKeepsMachine

-----------------------------------------------------------------------------
(* The packets of UDP are handled one by one.  As long as the database works *)
(* (the instance Serial) the peer in the map then agrees with the row         *)
(* whenever io_loop waits for a packet, and on the way through a handler the  *)
(* two differ only as far as the step reached says (Stage).                   *)

SerialTask ==
    [at: Resting \cup Steps, obj: Serial!Heap \cup {0},
     req: Serial!Identity \cup {NoIdentity}, loaded: Serial!Identity \cup {NoIdentity},
     changed: BOOLEAN, regs: Nat]

SerialObj ==
    [id: Serial!Identity \cup {NoIdentity}, known: BOOLEAN, regs: Nat, recent: BOOLEAN]

SerialTypes ==
    /\ cur \in Serial!Heap \cup {0}
    /\ objs \in [Serial!Heap -> SerialObj]
    /\ row \in Serial!Identity \cup {NoIdentity}
    /\ tasks \in [Udp -> SerialTask]

\* The peer of the map is what the table holds.
Synced ==
    /\ cur # 0 /\ objs[cur].id = row
    /\ objs[cur].known <=> row # NoIdentity

\* Where a handler stands, and what it may rely on there.
Stage(t) ==
    /\ tasks[t].at \in Resting => cur = 0 \/ Synced
    /\ tasks[t].at \in Steps => tasks[t].req \in Serial!Requests(t)
    /\ tasks[t].at \in {"fetch", "adopt", "make"} => cur = 0
    /\ tasks[t].at = "adopt" => tasks[t].loaded = row /\ row # NoIdentity
    /\ tasks[t].at = "make" => row = NoIdentity
    /\ tasks[t].at \in Steps \ {"fetch", "adopt", "make"} => tasks[t].obj = cur /\ cur # 0
    /\ tasks[t].at \in {"check", "limit", "count", "memory"} => Synced
    /\ tasks[t].at \in {"limit", "count"} => (tasks[t].changed <=> row # tasks[t].req)
    /\ tasks[t].at \in {"limit", "count", "memory"} => row.uuid \in {Nothing, tasks[t].req.uuid}
    /\ tasks[t].at \in {"insert", "learn", "update"} => objs[cur].id = tasks[t].req
    /\ tasks[t].at = "insert" => row = NoIdentity /\ ~objs[cur].known
    /\ tasks[t].at = "learn" => row = tasks[t].req
    /\ tasks[t].at = "update" =>
          row # NoIdentity /\ objs[cur].known /\ row.uuid = tasks[t].req.uuid

SerialInv == SerialTypes /\ RowIsOneMachine /\ \A t \in Udp : Stage(t)

LEMMA SerialFacts ==
    /\ Serial!Tasks = Udp
    /\ NoIdentity \notin Serial!Identity
    /\ Serial!NoIdentity = NoIdentity /\ Serial!Resting = Resting
    /\ \A r \in Serial!Identity : r.uuid \in Devices /\ r.uuid # Nothing
    /\ \A r, q \in Serial!Identity : [r EXCEPT !.pk = q.pk, !.ip = q.ip] \in Serial!Identity
    /\ \A t \in Udp : \A r \in Serial!Requests(t) : r \in Serial!Identity /\ r.pk[1] = r.uuid
    /\ \A t, u \in Udp : t = u
  BY Zenon, RegistrationAssumption
     DEF Serial!Tasks, Serial!Identity, NoIdentity, Serial!NoIdentity, Resting, Serial!Resting,
         Serial!Requests

LEMMA SerialIdle ==
    /\ Serial!Idle \in SerialTask /\ Serial!Idle.at = "idle"
    /\ Serial!Fresh(NoIdentity, FALSE) \in SerialObj
  BY DEF Serial!Idle, Serial!Task, Serial!NoIdentity, NoIdentity, SerialTask, Resting,
         Serial!Fresh, SerialObj

\* hbbs starts, at first or again, with an empty map and nothing under way.
LEMMA SerialStart ==
    ASSUME row' \in Serial!Identity \cup {NoIdentity}, RowIsOneMachine', cur' = 0,
           objs' = [o \in Serial!Heap |-> Serial!Fresh(NoIdentity, FALSE)],
           tasks' = [t \in Udp |-> Serial!Idle]
    PROVE  SerialInv'
  <1>1. SerialTypes' BY Zenon, SerialIdle DEF SerialTypes
  <1>2. ASSUME NEW t \in Udp PROVE Stage(t)'
    <2>1. tasks'[t].at = "idle" BY SerialIdle
    <2> QED BY Zenon, <2>1 DEF Stage, Steps, Resting
  <1> QED BY <1>1, <1>2 DEF SerialInv

LEMMA SerialInit == Serial!Init => SerialInv
  <1> SUFFICES ASSUME Serial!Init PROVE SerialInv OBVIOUS
  <1>1. SerialTypes BY Zenon, SerialIdle, SerialFacts DEF SerialTypes, Serial!Init
  <1>2. ASSUME NEW t \in Udp PROVE Stage(t)
    <2>1. tasks[t].at = "idle" /\ cur = 0 BY Zenon, SerialIdle, SerialFacts DEF Serial!Init
    <2> QED BY <2>1 DEF Stage, Steps, Resting
  <1>3. RowIsOneMachine BY Zenon, SerialFacts DEF RowIsOneMachine, Serial!Init
  <1> QED BY <1>1, <1>2, <1>3 DEF SerialInv

\* The only task is the one that steps.
LEMMA SerialStep ==
    ASSUME SerialInv, NEW t \in Udp, NEW rec \in SerialTask,
           tasks' = [tasks EXCEPT ![t] = rec],
           cur' \in Serial!Heap \cup {0}, objs' \in [Serial!Heap -> SerialObj],
           row' \in Serial!Identity \cup {NoIdentity}, RowIsOneMachine',
           tasks'[t] = rec => Stage(t)'
    PROVE  SerialInv'
  <1>1. tasks'[t] = rec BY DEF SerialInv, SerialTypes
  <1>2. SerialTypes' BY DEF SerialInv, SerialTypes
  <1>3. \A u \in Udp : Stage(u)' BY Zenon, <1>1, SerialFacts
  <1> QED BY <1>2, <1>3 DEF SerialInv

\* A handler ends with the map and the table in agreement.
LEMMA SerialAnswer ==
    ASSUME SerialInv, NEW t \in Udp, NEW with \in Resting, Serial!Answer(t, with),
           cur' = cur, objs' \in [Serial!Heap -> SerialObj],
           row' \in Serial!Identity \cup {NoIdentity}, RowIsOneMachine', Synced'
    PROVE  SerialInv'
  <1> DEFINE rec == Serial!Task(with, 0, tasks[t].req)
  <1>1. tasks[t].req \in Serial!Identity \cup {NoIdentity} BY DEF SerialInv, SerialTypes, SerialTask
  <1>2. rec \in SerialTask /\ rec.at = with
    BY Zenon, <1>1, SerialFacts DEF SerialTask, Serial!Task
  <1>3. tasks' = [tasks EXCEPT ![t] = rec] BY DEF Serial!Answer
  <1>4. cur' \in Serial!Heap \cup {0} BY DEF SerialInv, SerialTypes
  <1> HIDE DEF rec
  <1>5. tasks'[t] = rec => Stage(t)' BY <1>2 DEF Stage, Resting, Steps
  <1> QED BY Zenon, <1>2, <1>3, <1>4, <1>5, SerialStep

LEMMA SerialBegin ==
    ASSUME SerialInv, NEW t \in Udp, NEW r \in Serial!Requests(t),
           Serial!Begin(t, r) \/ Serial!Blocked(t, r)
    PROVE  SerialInv'
  <1>1. /\ tasks[t].at \in Resting /\ UNCHANGED <<cur, objs, row>>
        /\ r \in Serial!Identity
    BY Zenon, SerialFacts DEF Serial!Begin, Serial!Blocked
  <1>2. SerialTypes /\ RowIsOneMachine /\ Stage(t) BY DEF SerialInv
  <1>3. cur = 0 \/ Synced BY Zenon, <1>1, <1>2 DEF Stage
  <1>4. (cur = 0)' \/ Synced' BY <1>1, <1>3 DEF Synced
  <1>5. /\ cur' \in Serial!Heap \cup {0} /\ objs' \in [Serial!Heap -> SerialObj]
        /\ row' \in Serial!Identity \cup {NoIdentity} /\ RowIsOneMachine'
    BY <1>1, <1>2 DEF SerialTypes, RowIsOneMachine
  <1>6. CASE Serial!Begin(t, r)
    <2> DEFINE rec == Serial!Task(IF cur = 0 THEN "fetch" ELSE "check", cur, r)
    <2>1. /\ rec \in SerialTask /\ rec.req = r
          /\ \/ rec.at = "fetch" /\ cur = 0
             \/ rec.at = "check" /\ cur # 0 /\ rec.obj = cur
      BY Zenon, <1>1, <1>2, SerialFacts DEF SerialTypes, SerialTask, Serial!Task, Steps
    <2>2. tasks' = [tasks EXCEPT ![t] = rec] BY <1>6 DEF Serial!Begin
    <2> HIDE DEF rec
    <2>3. tasks'[t] = rec => Stage(t)'
      BY Zenon, <1>1, <1>4, <2>1, SerialFacts DEF Stage, Resting, Steps
    <2> QED BY Zenon, <1>5, <2>1, <2>2, <2>3, SerialStep
  <1>7. CASE Serial!Blocked(t, r)
    <2> DEFINE rec == Serial!Task("refused", 0, r)
    <2>1. rec \in SerialTask /\ rec.at = "refused"
      BY Zenon, <1>1, SerialFacts DEF SerialTask, Serial!Task, Resting
    <2>2. tasks' = [tasks EXCEPT ![t] = rec] BY <1>7 DEF Serial!Blocked
    <2> HIDE DEF rec
    <2>3. tasks'[t] = rec => Stage(t)' BY <1>4, <2>1 DEF Stage, Resting, Steps
    <2> QED BY Zenon, <1>5, <2>1, <2>2, <2>3, SerialStep
  <1> QED BY <1>6, <1>7

\* PeerMap::get and get_or: the new object holds the row, or nothing when there
\* is none.
LEMMA SerialGet ==
    ASSUME SerialInv, NEW t \in Udp, Serial!Fetch(t) \/ Serial!Adopt(t) \/ Serial!Make(t)
    PROVE  SerialInv'
  <1>1. SerialTypes /\ RowIsOneMachine /\ Stage(t) BY DEF SerialInv
  <1>2. tasks[t] \in SerialTask BY <1>1 DEF SerialTypes
  <1>3. row' = row /\ cur = 0 /\ tasks[t].at \in {"fetch", "adopt", "make"}
    BY Zenon, <1>1 DEF Serial!Fetch, Serial!Adopt, Serial!Make, Stage, Steps
  <1>4. row' \in Serial!Identity \cup {NoIdentity} /\ RowIsOneMachine'
    BY <1>1, <1>3 DEF SerialTypes, RowIsOneMachine
  <1>5. tasks[t].req \in Serial!Requests(t) /\ tasks[t].req \in Serial!Identity
    BY Zenon, <1>1, <1>3, SerialFacts DEF Stage, Steps
  <1>6. CASE Serial!Fetch(t)
    <2>0. tasks[t].at = "fetch" /\ UNCHANGED <<cur, objs>> BY <1>6 DEF Serial!Fetch
    <2>1. PICK at \in {"adopt", "make"}, id \in Serial!Identity \cup {NoIdentity} :
            /\ tasks' = [tasks EXCEPT ![t] = [tasks[t] EXCEPT !.at = at, !.loaded = id]]
            /\ at = "adopt" => row # NoIdentity /\ id = row
            /\ at = "make" => row = NoIdentity
      <3>1. CASE row # NoIdentity
        <4>1. tasks' = [tasks EXCEPT ![t] = [tasks[t] EXCEPT !.at = "adopt", !.loaded = row]]
          BY Zenon, <1>1, <1>6, <3>1, SerialFacts DEF Serial!Fetch, SerialTypes
        <4> QED BY Zenon, <1>1, <3>1, <4>1 DEF SerialTypes
      <3>2. CASE row = NoIdentity
        <4> DEFINE rec == [tasks[t] EXCEPT !.at = "make"]
        <4>1. tasks' = [tasks EXCEPT ![t] = rec]
          BY Zenon, <1>6, <3>2, SerialFacts DEF Serial!Fetch, Serial!Go
        <4>2. rec = [tasks[t] EXCEPT !.at = "make", !.loaded = tasks[t].loaded]
          BY Zenon, <1>2 DEF SerialTask
        <4>3. tasks[t].loaded \in Serial!Identity \cup {NoIdentity} BY <1>2 DEF SerialTask
        <4> QED BY Zenon, <3>2, <4>1, <4>2, <4>3
      <3> QED BY Zenon, <3>1, <3>2
    <2> DEFINE rec == [tasks[t] EXCEPT !.at = at, !.loaded = id]
    <2>2. rec \in SerialTask /\ rec.at = at /\ rec.loaded = id /\ rec.req = tasks[t].req
      BY Zenon, <1>2 DEF SerialTask, Steps
    <2> HIDE DEF rec
    <2>3. tasks'[t] = rec => Stage(t)'
      BY <1>3, <1>5, <2>0, <2>1, <2>2 DEF Stage, Resting, Steps, Serial!Requests
    <2>4. cur' \in Serial!Heap \cup {0} /\ objs' \in [Serial!Heap -> SerialObj]
      BY <1>1, <2>0 DEF SerialTypes
    <2> QED BY Zenon, <1>4, <2>1, <2>2, <2>3, <2>4, SerialStep DEF rec
  <1>7. ASSUME NEW o \in Serial!Heap, NEW known \in BOOLEAN, NEW rec \in SerialTask,
               objs' = [objs EXCEPT ![o] = Serial!Fresh(row, known)], cur' = o,
               known <=> row # NoIdentity,
               tasks' = [tasks EXCEPT ![t] = rec],
               rec.at = "check", rec.obj = o, rec.req = tasks[t].req
        PROVE  SerialInv'
    <2> DEFINE f == Serial!Fresh(row, known)
    <2>1. f \in SerialObj /\ f.id = row /\ f.known = known
      BY <1>1 DEF Serial!Fresh, SerialObj, SerialTypes
    <2> HIDE DEF f
    <2>2. objs' \in [Serial!Heap -> SerialObj] /\ objs'[o] = f BY <1>1, <1>7, <2>1 DEF SerialTypes, f
    <2>3. o # 0 BY DEF Serial!Heap
    <2>4. Synced' BY <1>3, <1>7, <2>1, <2>2, <2>3 DEF Synced
    <2>5. tasks'[t] = rec => Stage(t)'
      BY Zenon, <1>5, <1>7, <2>3, <2>4 DEF Stage, Resting, Steps, Serial!Requests
    <2> QED BY Zenon, <1>4, <1>7, <2>2, <2>5, SerialStep
  <1>8. CASE Serial!Adopt(t)
    <2>1. tasks[t].loaded = row /\ row # NoIdentity BY Zenon, <1>1, <1>8 DEF Serial!Adopt, Stage
    <2>2. PICK o \in Serial!Heap :
            /\ objs' = [objs EXCEPT ![o] = Serial!Fresh(row, TRUE)]
            /\ cur' = o
            /\ tasks' = [tasks EXCEPT ![t] = Serial!Task("check", o, tasks[t].req)]
      BY Zenon, <1>8, <2>1 DEF Serial!Adopt
    <2> DEFINE rec == Serial!Task("check", o, tasks[t].req)
    <2>3. rec \in SerialTask /\ rec.at = "check" /\ rec.obj = o /\ rec.req = tasks[t].req
      BY Zenon, <1>2, SerialFacts DEF SerialTask, Serial!Task, Steps
    <2> HIDE DEF rec
    <2> QED BY Zenon, <1>7, <2>1, <2>2, <2>3 DEF rec
  <1>9. CASE Serial!Make(t)
    <2>1. row = NoIdentity BY <1>1, <1>9 DEF Serial!Make, Stage
    <2>2. PICK o \in Serial!Heap :
            /\ objs' = [objs EXCEPT ![o] = Serial!Fresh(row, FALSE)]
            /\ cur' = o
            /\ tasks' = [tasks EXCEPT ![t] = [tasks[t] EXCEPT !.at = "check", !.obj = o]]
      BY Zenon, <1>1, <1>3, <1>9, <2>1, SerialFacts DEF Serial!Make, SerialTypes
    <2> DEFINE rec == [tasks[t] EXCEPT !.at = "check", !.obj = o]
    <2>3. rec \in SerialTask /\ rec.at = "check" /\ rec.obj = o /\ rec.req = tasks[t].req
      BY Zenon, <1>2 DEF SerialTask, Steps
    <2> HIDE DEF rec
    <2> QED BY Zenon, <1>7, <2>1, <2>2, <2>3 DEF rec
  <1> QED BY <1>6, <1>8, <1>9

\* The checks: the handler goes on only with a request of the row's machine.
LEMMA SerialCheck ==
    ASSUME SerialInv, NEW t \in Udp, Serial!Check(t) \/ Serial!Limit(t)
    PROVE  SerialInv'
  <1>1. SerialTypes /\ RowIsOneMachine /\ Stage(t) BY DEF SerialInv
  <1>2. tasks[t] \in SerialTask BY <1>1 DEF SerialTypes
  <1>3. UNCHANGED <<cur, objs, row>> /\ tasks[t].at \in {"check", "limit"}
    BY DEF Serial!Check, Serial!Limit
  <1>4. Synced /\ tasks[t].obj = cur /\ tasks[t].req \in Serial!Requests(t)
    BY <1>1, <1>3 DEF Stage, Steps
  <1>5. Synced' BY <1>3, <1>4 DEF Synced
  <1>6. /\ cur' \in Serial!Heap \cup {0} /\ objs' \in [Serial!Heap -> SerialObj]
        /\ row' \in Serial!Identity \cup {NoIdentity} /\ RowIsOneMachine'
    BY <1>1, <1>3 DEF SerialTypes, RowIsOneMachine
  <1>7. CASE Serial!Answer(t, "refused")
    BY <1>3, <1>5, <1>6, <1>7, SerialAnswer DEF Resting
  <1>8. ASSUME NEW rec \in SerialTask, tasks' = [tasks EXCEPT ![t] = rec],
               rec.at \in {"limit", "count"}, rec.req = tasks[t].req, rec.obj = tasks[t].obj,
               rec.changed <=> row # rec.req, row.uuid \in {Nothing, rec.req.uuid}
        PROVE  SerialInv'
    <2>1. tasks'[t] = rec => Stage(t)'
      BY Zenon, <1>3, <1>4, <1>5, <1>8 DEF Stage, Resting, Steps, Synced, Serial!Requests
    <2> QED BY Zenon, <1>6, <1>8, <2>1, SerialStep
  <1>9. CASE Serial!Check(t) /\ ~Serial!Answer(t, "refused")
    <2> DEFINE p == objs[cur]
               c == Serial!Changed(p, tasks[t].req)
               rec == [tasks[t] EXCEPT !.at = "limit", !.changed = c]
    <2>1. ~Serial!Mismatch(p, tasks[t].req) /\ tasks' = [tasks EXCEPT ![t] = rec]
      BY Zenon, <1>1, <1>4, <1>9 DEF Serial!Check, SerialTypes
    <2>2. p.id = row BY <1>4 DEF Synced
    <2>3. row.uuid \in {Nothing, tasks[t].req.uuid} BY <2>1, <2>2 DEF Serial!Mismatch
    <2>4. c \in BOOLEAN /\ (c <=> row # tasks[t].req) BY <2>2 DEF Serial!Changed
    <2> HIDE DEF c
    <2>5. /\ rec \in SerialTask /\ rec.at = "limit" /\ rec.req = tasks[t].req
          /\ rec.obj = tasks[t].obj /\ rec.changed = c
      BY Zenon, <1>2, <2>4 DEF SerialTask, Steps
    <2> HIDE DEF rec
    <2> QED BY Zenon, <1>8, <2>1, <2>3, <2>4, <2>5
  <1>10. CASE Serial!Limit(t) /\ ~Serial!Answer(t, "refused")
    <2>0. PICK n : /\ n = IF objs[tasks[t].obj].recent THEN objs[tasks[t].obj].regs + 1 ELSE 1
                   /\ tasks' = [tasks EXCEPT ![t].at = "count", ![t].regs = n]
      BY <1>10 DEF Serial!Limit
    <2>1. cur \in Serial!Heap BY <1>1, <1>4 DEF Synced, SerialTypes
    <2>2. objs[tasks[t].obj] \in SerialObj BY <1>1, <1>4, <2>1 DEF SerialTypes
    <2>3. n \in Nat BY <2>0, <2>2 DEF SerialObj
    <2> DEFINE rec == [tasks[t] EXCEPT !.at = "count", !.regs = n]
    <2>4. /\ rec \in SerialTask /\ rec.at = "count" /\ rec.req = tasks[t].req
          /\ rec.obj = tasks[t].obj /\ rec.changed = tasks[t].changed
      BY Zenon, <1>2, <2>3 DEF SerialTask, Steps
    <2>5. tasks' = [tasks EXCEPT ![t] = rec] BY Zenon, <1>1, <2>0 DEF SerialTypes
    <2> HIDE DEF rec
    <2>6. (tasks[t].changed <=> row # tasks[t].req) /\ row.uuid \in {Nothing, tasks[t].req.uuid}
      BY <1>1, <1>10 DEF Serial!Limit, Stage
    <2> QED BY Zenon, <1>8, <2>4, <2>5, <2>6
  <1> QED BY <1>7, <1>9, <1>10

\* The object in memory changes; the row follows with the statement.
LEMMA SerialMemory ==
    ASSUME SerialInv, NEW t \in Udp, Serial!Count(t) \/ Serial!WriteMemory(t)
    PROVE  SerialInv'
  <1>1. SerialTypes /\ RowIsOneMachine /\ Stage(t) BY DEF SerialInv
  <1>2. tasks[t] \in SerialTask BY <1>1 DEF SerialTypes
  <1>3. UNCHANGED <<cur, row>> /\ tasks[t].at \in {"count", "memory"}
    BY DEF Serial!Count, Serial!WriteMemory
  <1>4. Synced /\ tasks[t].obj = cur /\ tasks[t].req \in Serial!Requests(t)
        /\ row.uuid \in {Nothing, tasks[t].req.uuid}
    BY Zenon, <1>1, <1>3 DEF Stage, Steps
  <1>5. cur \in Serial!Heap /\ cur # 0 BY Zenon, <1>1, <1>4 DEF Synced, SerialTypes
  <1>6. /\ cur' \in Serial!Heap \cup {0}
        /\ row' \in Serial!Identity \cup {NoIdentity} /\ RowIsOneMachine'
    BY <1>1, <1>3 DEF SerialTypes, RowIsOneMachine
  <1>7. objs[cur] \in SerialObj BY <1>1, <1>5 DEF SerialTypes
  <1>8. tasks[t].req \in Serial!Identity /\ tasks[t].req # NoIdentity BY Zenon, <1>4, SerialFacts
  <1>9. CASE Serial!Count(t)
    <2> DEFINE q == [objs[cur] EXCEPT !.regs = tasks[t].regs, !.recent = TRUE]
    <2>1. q \in SerialObj /\ q.id = objs[cur].id /\ q.known = objs[cur].known
      BY Zenon, <1>2, <1>7 DEF SerialObj, SerialTask
    <2>2. objs' = [objs EXCEPT ![cur] = q] BY Zenon, <1>1, <1>4, <1>5, <1>9 DEF Serial!Count, SerialTypes
    <2> HIDE DEF q
    <2>3. objs' \in [Serial!Heap -> SerialObj] /\ objs'[cur] = q
      BY <1>1, <1>5, <2>1, <2>2 DEF SerialTypes
    <2>4. Synced' BY <1>3, <1>4, <2>1, <2>3 DEF Synced
    <2>5. CASE Serial!Answer(t, "ok")
      BY <1>3, <1>6, <2>3, <2>4, <2>5, SerialAnswer DEF Resting
    <2>6. CASE Serial!Go(t, "memory")
      <3> DEFINE rec == [tasks[t] EXCEPT !.at = "memory"]
      <3>1. rec \in SerialTask /\ rec.at = "memory" /\ rec.req = tasks[t].req /\ rec.obj = tasks[t].obj
        BY <1>2 DEF SerialTask, Steps
      <3>2. tasks' = [tasks EXCEPT ![t] = rec] BY <2>6 DEF Serial!Go
      <3> HIDE DEF rec
      <3>3. tasks'[t] = rec => Stage(t)'
        BY Zenon, <1>3, <1>4, <1>5, <2>4, <3>1 DEF Stage, Resting, Steps, Serial!Requests
      <3> QED BY Zenon, <1>6, <2>3, <3>1, <3>2, <3>3, SerialStep
    <2> QED BY <1>9, <2>5, <2>6 DEF Serial!Count
  <1>10. CASE Serial!WriteMemory(t)
    <2> DEFINE q == [objs[cur] EXCEPT !.id = tasks[t].req]
    <2>1. q \in SerialObj /\ q.id = tasks[t].req /\ q.known = objs[cur].known
      BY <1>7, <1>8 DEF SerialObj
    <2>2. objs' = [objs EXCEPT ![cur] = q] BY <1>4, <1>10 DEF Serial!WriteMemory
    <2> HIDE DEF q
    <2>3. objs' \in [Serial!Heap -> SerialObj] /\ objs'[cur] = q
      BY <1>1, <1>5, <2>1, <2>2 DEF SerialTypes
    <2> DEFINE at == IF objs[cur].known THEN "update" ELSE "insert"
               rec == [tasks[t] EXCEPT !.at = at]
    <2>4. at \in {"update", "insert"} /\ (at = "update" <=> objs[cur].known)
      OBVIOUS
    <2>5. tasks' = [tasks EXCEPT ![t] = rec] BY <1>4, <1>10 DEF Serial!WriteMemory, Serial!Go
    <2> HIDE DEF at
    <2>6. rec \in SerialTask /\ rec.at = at /\ rec.req = tasks[t].req /\ rec.obj = tasks[t].obj
      BY <1>2, <2>4 DEF SerialTask, Steps
    <2> HIDE DEF rec
    <2>7. objs[cur].known <=> row # NoIdentity BY <1>4 DEF Synced
    <2>8. row # NoIdentity => row.uuid = tasks[t].req.uuid BY Zenon, <1>1, <1>4, SerialFacts DEF SerialTypes
    <2>9. tasks'[t] = rec => Stage(t)'
      BY Zenon, <1>3, <1>4, <1>5, <2>1, <2>3, <2>4, <2>6, <2>7, <2>8
         DEF Stage, Resting, Steps, Serial!Requests
    <2> QED BY Zenon, <1>6, <2>3, <2>5, <2>6, <2>9, SerialStep
  <1> QED BY <1>9, <1>10

\* The statements bring the row to what the object holds.
LEMMA SerialStore ==
    ASSUME SerialInv, NEW t \in Udp,
           Serial!InsertPeer(t) \/ Serial!LearnGuid(t) \/ Serial!UpdatePk(t)
    PROVE  SerialInv' /\ row' = tasks[t].req
  <1>1. SerialTypes /\ RowIsOneMachine /\ Stage(t) BY DEF SerialInv
  <1>2. tasks[t] \in SerialTask BY <1>1 DEF SerialTypes
  <1>3. cur' = cur /\ tasks[t].at \in {"insert", "learn", "update"}
    BY DEF Serial!InsertPeer, Serial!LearnGuid, Serial!UpdatePk
  <1>4. /\ tasks[t].obj = cur /\ cur # 0 /\ tasks[t].req \in Serial!Requests(t)
        /\ objs[cur].id = tasks[t].req
    BY Zenon, <1>1, <1>3 DEF Stage, Steps
  <1>5. cur \in Serial!Heap /\ cur' \in Serial!Heap \cup {0} BY <1>1, <1>3, <1>4 DEF SerialTypes
  <1>6. /\ tasks[t].req \in Serial!Identity /\ tasks[t].req # NoIdentity
        /\ tasks[t].req.pk[1] = tasks[t].req.uuid
    BY Zenon, <1>4, SerialFacts
  <1>7. row' = tasks[t].req
    <2>1. CASE Serial!InsertPeer(t)
      BY Zenon, <1>1, <2>1, SerialFacts DEF Serial!InsertPeer, Stage
    <2>2. CASE Serial!LearnGuid(t) BY <1>1, <2>2 DEF Serial!LearnGuid, Stage
    <2>3. CASE Serial!UpdatePk(t)
      <3>1. row' = [row EXCEPT !.pk = tasks[t].req.pk, !.ip = tasks[t].req.ip]
        BY <2>3 DEF Serial!UpdatePk
      <3>2. row \in Serial!Identity /\ row.uuid = tasks[t].req.uuid
        BY <1>1, <2>3 DEF Serial!UpdatePk, Stage, SerialTypes
      <3> QED BY Zenon, <1>6, <3>1, <3>2 DEF Serial!Identity
    <2> QED BY <2>1, <2>2, <2>3
  <1>8. row' \in Serial!Identity /\ row' # NoIdentity /\ RowIsOneMachine'
    BY <1>6, <1>7 DEF RowIsOneMachine
  <1>9. CASE Serial!InsertPeer(t)
    <2>1. objs' = objs /\ Serial!Go(t, "learn")
      BY Zenon, <1>1, <1>9, SerialFacts DEF Serial!InsertPeer, Stage
    <2> DEFINE rec == [tasks[t] EXCEPT !.at = "learn"]
    <2>2. rec \in SerialTask /\ rec.at = "learn" /\ rec.req = tasks[t].req /\ rec.obj = tasks[t].obj
      BY <1>2 DEF SerialTask, Steps
    <2>3. tasks' = [tasks EXCEPT ![t] = rec] BY <2>1 DEF Serial!Go
    <2> HIDE DEF rec
    <2>4. tasks'[t] = rec => Stage(t)'
      BY Zenon, <1>3, <1>4, <1>7, <2>1, <2>2 DEF Stage, Resting, Steps, Serial!Requests
    <2>5. objs' \in [Serial!Heap -> SerialObj] BY <1>1, <2>1 DEF SerialTypes
    <2> QED BY Zenon, <1>5, <1>7, <1>8, <2>2, <2>3, <2>4, <2>5, SerialStep
  <1>10. CASE Serial!LearnGuid(t)
    <2> DEFINE q == [objs[cur] EXCEPT !.known = TRUE]
    <2>1. objs[cur] \in SerialObj BY <1>1, <1>5 DEF SerialTypes
    <2>2. q \in SerialObj /\ q.id = objs[cur].id /\ q.known BY Zenon, <2>1 DEF SerialObj
    <2>3. objs' = [objs EXCEPT ![cur] = q] BY <1>4, <1>10 DEF Serial!LearnGuid
    <2> HIDE DEF q
    <2>4. objs' \in [Serial!Heap -> SerialObj] /\ objs'[cur] = q
      BY <1>1, <1>5, <2>2, <2>3 DEF SerialTypes
    <2>5. Synced' BY Zenon, <1>3, <1>4, <1>7, <1>8, <2>2, <2>4 DEF Synced
    <2>6. Serial!Answer(t, "ok") BY <1>10 DEF Serial!LearnGuid
    <2> QED BY Zenon, <1>3, <1>7, <1>8, <2>4, <2>5, <2>6, SerialAnswer DEF Resting
  <1>11. CASE Serial!UpdatePk(t)
    <2>1. objs' = objs /\ Serial!Answer(t, "ok") BY <1>11 DEF Serial!UpdatePk
    <2>2. objs[cur].known BY <1>1, <1>11 DEF Serial!UpdatePk, Stage
    <2>3. Synced' BY Zenon, <1>3, <1>4, <1>7, <1>8, <2>1, <2>2 DEF Synced
    <2>4. objs' \in [Serial!Heap -> SerialObj] BY <1>1, <2>1 DEF SerialTypes
    <2> QED BY Zenon, <1>3, <1>7, <1>8, <2>1, <2>3, <2>4, SerialAnswer DEF Resting
  <1> QED BY <1>9, <1>10, <1>11

LEMMA SerialRest ==
    ASSUME SerialInv, Serial!Quiet \/ Serial!Restart \/ UNCHANGED vars
    PROVE  SerialInv'
  <1>1. SerialTypes /\ RowIsOneMachine BY DEF SerialInv
  <1>2. CASE Serial!Quiet
    <2>1. /\ objs' = [o \in Serial!Heap |-> [objs[o] EXCEPT !.recent = FALSE]]
          /\ UNCHANGED <<cur, row, tasks>>
      BY <1>2 DEF Serial!Quiet
    <2>2. ASSUME NEW o \in Serial!Heap
          PROVE  objs'[o] \in SerialObj /\ objs'[o].id = objs[o].id /\ objs'[o].known = objs[o].known
      <3>1. objs[o] \in SerialObj BY <1>1 DEF SerialTypes
      <3> QED BY Zenon, <2>1, <3>1 DEF SerialObj
    <2>3. SerialTypes' /\ RowIsOneMachine' BY <1>1, <2>1, <2>2 DEF SerialTypes, RowIsOneMachine
    <2>4. cur # 0 => objs'[cur].id = objs[cur].id /\ objs'[cur].known = objs[cur].known
      BY <1>1, <2>2 DEF SerialTypes
    <2>5. Synced <=> Synced' BY <2>1, <2>4 DEF Synced
    <2>6. ASSUME NEW t \in Udp PROVE Stage(t)'
      <3>1. Stage(t) BY DEF SerialInv
      <3> QED BY <2>1, <2>4, <2>5, <3>1 DEF Stage, Steps, Serial!Requests
    <2> QED BY <2>3, <2>6 DEF SerialInv
  <1>3. CASE Serial!Restart
    BY Zenon, <1>1, <1>3, SerialStart, SerialFacts DEF Serial!Restart, SerialTypes, RowIsOneMachine
  <1>4. CASE UNCHANGED vars
    <2>1. SerialTypes' /\ RowIsOneMachine' BY <1>1, <1>4 DEF vars, SerialTypes, RowIsOneMachine
    <2>2. Synced <=> Synced' BY <1>4 DEF vars, Synced
    <2>3. ASSUME NEW t \in Udp PROVE Stage(t)'
      <3>1. Stage(t) BY DEF SerialInv
      <3> QED BY Zenon, <1>4, <2>2, <3>1 DEF vars, Stage, Serial!Requests
    <2> QED BY <2>1, <2>3 DEF SerialInv
  <1> QED BY <1>2, <1>3, <1>4

LEMMA SerialNext ==
    ASSUME SerialInv, Serial!Next \/ UNCHANGED vars
    PROVE  SerialInv'
  <1>1. ASSUME NEW t \in Udp, NEW r \in Serial!Requests(t),
               Serial!Begin(t, r) \/ Serial!Blocked(t, r)
        PROVE  SerialInv'
    BY <1>1, SerialBegin
  <1>2. \A t \in Udp : ~Serial!LookUp(t) BY DEF Serial!LookUp
  <1> QED BY Zenon, <1>1, <1>2, SerialFacts, SerialGet, SerialCheck, SerialMemory, SerialStore, SerialRest
          DEF Serial!Next

-----------------------------------------------------------------------------
LEMMA ModesInv ==
    MCSpec => [](mode \in {"race", "serial"} /\ (mode = "race" => IInv)
                 /\ (mode = "serial" => SerialInv))
  <1> DEFINE Inv == /\ mode \in {"race", "serial"}
                    /\ mode = "race" => IInv
                    /\ mode = "serial" => SerialInv
  <1>1. MCInit => Inv BY InitInv, SerialInit DEF MCInit
  <1>2. Inv /\ [MCNext]_<<mode, vars>> => Inv'
    <2> SUFFICES ASSUME Inv, [MCNext]_<<mode, vars>> PROVE Inv' OBVIOUS
    <2>1. mode' = mode /\ (mode = "race" => [Next]_vars)
          /\ (mode = "serial" => Serial!Next \/ UNCHANGED vars)
      BY DEF MCNext
    <2> QED BY <2>1, StepInv, SerialNext
  <1> QED BY <1>1, <1>2, PTL DEF MCSpec

\* Races, failed statements and restarts included, no peer object carries a
\* guid that the table has no row for.
THEOREM RaceGuids == MCSpec => []RaceGuidHasRow
  <1>1. (mode = "race" => IInv) => RaceGuidHasRow BY DEF RaceGuidHasRow, IInv
  <1> QED BY <1>1, ModesInv, PTL

\* Handled one by one, with a database that works and with restarts at any
\* point, packets of any machines with any keys never leave a key in the row
\* that is not the row's machine's own.
THEOREM SerialRows == MCSpec => []SerialRowIsOneMachine
  <1>1. (mode = "serial" => SerialInv) => SerialRowIsOneMachine
    BY DEF SerialRowIsOneMachine, SerialInv
  <1> QED BY <1>1, ModesInv, PTL

\* A packet that is answered OK is in the row when the answer goes out.
THEOREM SerialOks == MCSpec => SerialOkIsPersisted
  <1>1. (mode = "serial" => SerialInv) /\ [MCNext]_<<mode, vars>>
        => [mode = "serial" => Serial!OkStored]_vars
    <2> SUFFICES ASSUME mode = "serial", SerialInv, Serial!Next, NEW t \in Udp,
                        tasks[t].at \notin Resting, tasks'[t].at = "ok"
                 PROVE  row'.uuid = tasks[t].req.uuid /\ row'.pk = tasks[t].req.pk
      BY Zenon, SerialFacts DEF MCNext, Serial!OkStored
    <2>1. SerialTypes /\ Stage(t) BY DEF SerialInv
    <2>2. tasks[t] \in SerialTask /\ tasks \in [Udp -> SerialTask] BY <2>1 DEF SerialTypes
    <2>3. CASE Serial!Quiet \/ Serial!Restart
      <3>1. tasks' = tasks \/ tasks'[t].at = "idle"
        BY Zenon, <2>3, SerialFacts, SerialIdle DEF Serial!Quiet, Serial!Restart
      <3> QED BY <3>1 DEF Resting
    <2>4. CASE \E r \in Serial!Requests(t) : Serial!Begin(t, r) \/ Serial!Blocked(t, r)
      BY Zenon, <2>4, SerialFacts DEF Serial!Begin, Serial!Blocked
    <2>5. CASE Serial!Fetch(t) \/ Serial!Adopt(t)
      <3>1. PICK rec : tasks' = [tasks EXCEPT ![t] = rec] /\ rec.at \in {"adopt", "make", "check"}
        <4>1. CASE Serial!Adopt(t) BY <4>1 DEF Serial!Adopt, Serial!Task
        <4>2. CASE Serial!Fetch(t)
          <5> DEFINE r1 == [tasks[t] EXCEPT !.at = "adopt", !.loaded = row]
                     r2 == [tasks[t] EXCEPT !.at = "make"]
          <5>1. r1.at = "adopt" /\ r2.at = "make" BY <2>2 DEF SerialTask
          <5>2. tasks' = [tasks EXCEPT ![t] = r1] \/ tasks' = [tasks EXCEPT ![t] = r2]
            BY <2>2, <4>2 DEF Serial!Fetch, Serial!Go
          <5> HIDE DEF r1, r2
          <5> QED BY <5>1, <5>2
        <4> QED BY <2>5, <4>1, <4>2
      <3>2. tasks'[t] = rec BY <2>2, <3>1
      <3> QED BY <3>1, <3>2
    <2>6. CASE Serial!Make(t)
      <3>1. PICK o : tasks' = [tasks EXCEPT ![t].at = "check", ![t].obj = o]
        BY Zenon, <2>6 DEF Serial!Make
      <3> QED BY <2>2, <3>1 DEF SerialTask
    <2>7. CASE Serial!Check(t) \/ Serial!Limit(t)
      <3>1. CASE Serial!Answer(t, "refused") BY <2>2, <3>1 DEF Serial!Answer, Serial!Task
      <3>2. CASE ~Serial!Answer(t, "refused")
        <4>1. PICK n, c : \/ tasks' = [tasks EXCEPT ![t].at = "limit", ![t].changed = c]
                          \/ tasks' = [tasks EXCEPT ![t].at = "count", ![t].regs = n]
          BY <2>7, <3>2 DEF Serial!Check, Serial!Limit
        <4> QED BY <2>2, <4>1 DEF SerialTask
      <3> QED BY <3>1, <3>2
    <2>8. CASE Serial!Count(t)
      <3>1. CASE tasks[t].changed
        <4>1. tasks' = [tasks EXCEPT ![t].at = "memory"] BY <2>8, <3>1 DEF Serial!Count, Serial!Go
        <4> QED BY <2>2, <4>1 DEF SerialTask
      <3>2. CASE ~tasks[t].changed BY <2>1, <2>8, <3>2 DEF Serial!Count, Stage
      <3> QED BY <3>1, <3>2
    <2>9. CASE Serial!WriteMemory(t)
      <3>1. PICK at \in {"update", "insert"} : tasks' = [tasks EXCEPT ![t].at = at]
        BY <2>9 DEF Serial!WriteMemory, Serial!Go
      <3> QED BY <2>2, <3>1 DEF SerialTask
    <2>10. CASE Serial!InsertPeer(t) \/ Serial!LearnGuid(t) \/ Serial!UpdatePk(t)
      BY <2>10, SerialStore
    <2>11. \A u \in Udp : u = t /\ ~Serial!LookUp(u) BY Zenon, SerialFacts DEF Serial!LookUp
    <2> QED BY Zenon, <2>3, <2>4, <2>5, <2>6, <2>7, <2>8, <2>9, <2>10, <2>11, SerialFacts DEF Serial!Next
  <1> QED BY <1>1, ModesInv, PTL DEF MCSpec, SerialOkIsPersisted

-----------------------------------------------------------------------------
(* Proofs about hbbr's pairing, for any number of connections, relay uuids   *)
(* and client addresses.                                                     *)
(*                                                                           *)
(* That a relay has its streams to itself depends on where every stream of   *)
(* the map comes from: a stream in PEERS belongs to a task that sleeps, is   *)
(* filed under the uuid that task asked for, and is nobody's partner.  RelayIInv  *)
(* says so; the cases that matter are the two steps that touch streams of    *)
(* other tasks, Enqueue (which replaces a waiter) and Wake (which drops      *)
(* whatever waits for the uuid).                                             *)

Waiting == {"new", "reading", "looking", "queueing"}

StreamTypes ==
    /\ pc \in [Conns -> Waiting \cup Paired \cup {"sleeping", "done"}]
    /\ from \in [Conns -> Addrs] /\ key \in [Conns -> Conns \cup Addrs]
    /\ uuid \in [Conns -> Uuids]
    /\ home \in [Conns -> {"task", "map", "lent", "closed"}]
    /\ PEERS \in [Uuids -> Conns \cup {Nobody}]
    /\ partner \in [Conns -> Conns \cup {Nobody}]
    /\ USAGE \subseteq Conns \cup Addrs /\ BLOCKLIST \subseteq Addrs

\* A task that has not queued its stream still owns it.
OwnStream == \A c \in Conns : pc[c] \in Waiting => home[c] = "task"

\* A stream in the map is a sleeping task's, under its own uuid.
InMap ==
    /\ \A u \in Uuids : PEERS[u] # Nobody =>
          pc[PEERS[u]] = "sleeping" /\ uuid[PEERS[u]] = u /\ home[PEERS[u]] = "map"
    /\ \A c \in Conns : home[c] = "map" => PEERS[uuid[c]] = c

\* A relay owns its task's stream and one that was taken from the map.
Owned ==
    \A c \in Conns : pc[c] \in Paired =>
        home[c] = "task" /\ partner[c] \in Conns /\ home[partner[c]] = "lent"

Unshared ==
    \A c, d \in Conns : c # d /\ pc[c] \in Paired /\ pc[d] \in Paired =>
        partner[c] # partner[d]

RelayIInv == StreamTypes /\ OwnStream /\ InMap /\ Owned /\ Unshared /\ UsageIsLive

-----------------------------------------------------------------------------
\* hbbr starts with nothing in PEERS and nothing in USAGE.
LEMMA RelayInitInv == RelayInit => RelayIInv
  <1> SUFFICES ASSUME RelayInit PROVE RelayIInv OBVIOUS
  <1>1. (CHOOSE i \in Addrs : TRUE) \in Addrs /\ (CHOOSE u \in Uuids : TRUE) \in Uuids
    BY RelayAssumption
  <1>2. StreamTypes BY <1>1 DEF RelayInit, StreamTypes, Waiting, Paired, Running
  <1> QED BY <1>2, RelayAssumption
        DEF RelayInit, RelayIInv, OwnStream, InMap, Owned, Unshared, UsageIsLive, Waiting, Paired, Running

\* A socket is accepted or refused, and its request read.
LEMMA AcceptInv == ASSUME RelayIInv, NEW c \in Conns, Accept(c) PROVE RelayIInv'
  <1> USE DEF RelayIInv, Waiting, Paired, Running
  <1>1. StreamTypes' BY DEF Accept, StreamTypes, Closed
  <1>2. OwnStream' BY DEF Accept, StreamTypes, OwnStream, Closed
  <1>3. InMap' BY RelayAssumption DEF Accept, StreamTypes, OwnStream, InMap, Closed
  <1>4. Owned' BY DEF Accept, StreamTypes, OwnStream, Owned, Closed
  <1>5. Unshared' BY DEF Accept, StreamTypes, Unshared, Closed
  <1>6. UsageIsLive'
    <2> SUFFICES ASSUME NEW k \in USAGE
                 PROVE \E d \in Conns : key'[d] = k /\ pc'[d] \in Running \cup {"leaving"}
      BY DEF UsageIsLive, Accept
    <2>1. PICK d \in Conns : key[d] = k /\ pc[d] \in Running \cup {"leaving"} BY DEF UsageIsLive
    <2>2. d # c BY <2>1 DEF Accept
    <2>3. key'[d] = key[d] /\ pc'[d] = pc[d] BY <2>2 DEF Accept, StreamTypes
    <2> QED BY <2>1, <2>3
  <1> QED BY <1>1, <1>2, <1>3, <1>4, <1>5, <1>6

LEMMA RequestInv == ASSUME RelayIInv, NEW c \in Conns, Request(c) PROVE RelayIInv'
  <1> USE DEF RelayIInv, Waiting, Paired, Running
  <1>1. StreamTypes' BY DEF Request, StreamTypes, Closed, Returns
  <1>2. OwnStream' BY DEF Request, StreamTypes, OwnStream, Closed, Returns
  <1>3. InMap' BY RelayAssumption DEF Request, StreamTypes, OwnStream, InMap, Closed, Returns
  <1>4. Owned' BY DEF Request, StreamTypes, OwnStream, Owned, Closed, Returns
  <1>5. Unshared' BY DEF Request, StreamTypes, Unshared, Closed, Returns
  <1>6. UsageIsLive' BY DEF Request, StreamTypes, UsageIsLive, Returns
  <1> QED BY <1>1, <1>2, <1>3, <1>4, <1>5, <1>6

\* The stream taken over was in the map, so that no other relay has it.
LEMMA TakeWaitingInv == ASSUME RelayIInv, NEW c \in Conns, TakeWaiting(c) PROVE RelayIInv'
  <1> USE DEF RelayIInv, Waiting, Paired, Running
  <1> DEFINE p == PEERS[uuid[c]]
  <1>0. uuid[c] \in Uuids /\ p \in Conns \cup {Nobody} /\ pc[c] = "looking" /\ home[c] = "task"
    BY DEF StreamTypes, TakeWaiting, OwnStream
  <1>a. CASE p # Nobody
    <2>1. /\ p \in Conns /\ pc[p] = "sleeping" /\ home[p] = "map" /\ p # c
          /\ partner' = [partner EXCEPT ![c] = p] /\ home' = [home EXCEPT ![p] = "lent"]
          /\ pc' = [pc EXCEPT ![c] = "pairing"] /\ PEERS' = [PEERS EXCEPT ![uuid[c]] = Nobody]
          /\ UNCHANGED <<from, key, uuid, USAGE, BLOCKLIST>>
      BY <1>0, <1>a DEF InMap, TakeWaiting, TakenOut
    <2>2. StreamTypes' BY <1>0, <2>1 DEF StreamTypes
    <2>3. OwnStream' BY <1>0, <2>1 DEF StreamTypes, OwnStream
    <2>4. InMap' BY <1>0, <2>1, RelayAssumption DEF StreamTypes, InMap
    <2>5. Owned' BY <1>0, <2>1 DEF StreamTypes, Owned
    <2>6. Unshared' BY <1>0, <2>1 DEF StreamTypes, Owned, Unshared
    <2>7. UsageIsLive' BY <1>0, <2>1 DEF StreamTypes, UsageIsLive
    <2> QED BY <2>2, <2>3, <2>4, <2>5, <2>6, <2>7
  <1>b. CASE p = Nobody
    <2>1. /\ PEERS' = PEERS /\ pc' = [pc EXCEPT ![c] = "queueing"]
          /\ UNCHANGED <<from, key, uuid, home, partner, USAGE, BLOCKLIST>>
      BY <1>0, <1>b DEF TakeWaiting, TakenOut, StreamTypes
    <2> QED BY <1>0, <2>1, RelayAssumption DEF StreamTypes, OwnStream, InMap, Owned, Unshared, UsageIsLive
  <1> QED BY <1>a, <1>b

\* The stream replaced was a waiter's, not a relay's.
LEMMA EnqueueInv == ASSUME RelayIInv, NEW c \in Conns, Enqueue(c) PROVE RelayIInv'
  <1> USE DEF RelayIInv, Waiting, Paired, Running
  <1> DEFINE q == PEERS[uuid[c]]
  <1>1. /\ uuid[c] \in Uuids /\ q \in Conns \cup {Nobody} /\ pc[c] = "queueing" /\ home[c] = "task"
        /\ q \in Conns => pc[q] = "sleeping" /\ home[q] = "map" /\ uuid[q] = uuid[c]
        /\ \A d \in Conns : home'[d] = IF d = c THEN "map" ELSE IF d = q THEN "closed" ELSE home[d]
        /\ home' \in [Conns -> {"task", "map", "lent", "closed"}]
        /\ PEERS' = [PEERS EXCEPT ![uuid[c]] = c] /\ pc' = [pc EXCEPT ![c] = "sleeping"]
        /\ UNCHANGED <<from, key, uuid, partner, USAGE, BLOCKLIST>>
    BY RelayAssumption DEF StreamTypes, Enqueue, OwnStream, InMap, Closed
  <1>2. StreamTypes' BY <1>1 DEF StreamTypes
  <1>3. OwnStream' BY <1>1 DEF StreamTypes, OwnStream
  <1>4. InMap' BY <1>1, RelayAssumption DEF StreamTypes, InMap
  <1>5. Owned' BY <1>1 DEF StreamTypes, Owned
  <1>6. Unshared' BY <1>1 DEF StreamTypes, Unshared
  <1>7. UsageIsLive' BY <1>1 DEF StreamTypes, UsageIsLive
  <1> QED BY <1>2, <1>3, <1>4, <1>5, <1>6, <1>7

\* Whatever the timer finds in the map is a waiter's stream.
LEMMA WakeInv == ASSUME RelayIInv, NEW c \in Conns, Wake(c) PROVE RelayIInv'
  <1> USE DEF RelayIInv, Waiting, Paired, Running
  <1> DEFINE q == PEERS[uuid[c]]
  <1>1. /\ uuid[c] \in Uuids /\ q \in Conns \cup {Nobody} /\ pc[c] = "sleeping"
        /\ q \in Conns => pc[q] = "sleeping" /\ home[q] = "map" /\ uuid[q] = uuid[c]
        /\ \A d \in Conns : home'[d] = IF d = q THEN "closed" ELSE home[d]
        /\ home' \in [Conns -> {"task", "map", "lent", "closed"}]
        /\ PEERS' = [PEERS EXCEPT ![uuid[c]] = Nobody] /\ pc' = [pc EXCEPT ![c] = "done"]
        /\ key' = [key EXCEPT ![c] = c] /\ partner' = [partner EXCEPT ![c] = Nobody]
        /\ UNCHANGED <<from, uuid, USAGE, BLOCKLIST>>
    BY RelayAssumption DEF StreamTypes, Wake, InMap, Closed, TakenOut, Returns
  <1>2. StreamTypes' BY <1>1 DEF StreamTypes
  <1>3. OwnStream' BY <1>1 DEF StreamTypes, OwnStream
  <1>4. InMap' BY <1>1, RelayAssumption DEF StreamTypes, InMap
  <1>5. Owned' BY <1>1 DEF StreamTypes, Owned
  <1>6. Unshared' BY <1>1 DEF StreamTypes, Unshared
  <1>7. UsageIsLive' BY <1>1 DEF StreamTypes, UsageIsLive
  <1> QED BY <1>2, <1>3, <1>4, <1>5, <1>6, <1>7

\* A task of its own accounts for its relay, leaves it, or is told to.
LEMMA StartRelayInv == ASSUME RelayIInv, NEW c \in Conns, StartRelay(c) PROVE RelayIInv'
  <1> USE DEF RelayIInv, Waiting, Paired, Running
  <1>1. StreamTypes' BY DEF StartRelay, StreamTypes
  <1>2. OwnStream' /\ InMap' /\ Owned' /\ Unshared'
    BY RelayAssumption DEF StartRelay, StreamTypes, OwnStream, InMap, Owned, Unshared
  <1>3. UsageIsLive' BY DEF StartRelay, StreamTypes, UsageIsLive
  <1> QED BY <1>1, <1>2, <1>3

\* A relay keeps its streams and its key from one place of its loop to the next.
LEMMA GoesInv ==
    ASSUME RelayIInv, NEW c \in Conns, pc[c] \in Running,
           NEW b \in Running \cup {"leaving"}, pc' = [pc EXCEPT ![c] = b],
           USAGE' \in {USAGE, USAGE \cup {key[c]}},
           UNCHANGED <<from, key, uuid, home, PEERS, partner, BLOCKLIST>>
    PROVE  RelayIInv'
  <1> USE DEF RelayIInv, Waiting, Paired, Running
  <1>1. StreamTypes' BY DEF StreamTypes
  <1>2. OwnStream' /\ Owned' /\ Unshared' BY DEF StreamTypes, OwnStream, Owned, Unshared
  <1>3. InMap' BY RelayAssumption DEF StreamTypes, InMap
  <1>4. UsageIsLive' BY DEF StreamTypes, UsageIsLive
  <1> QED BY <1>1, <1>2, <1>3, <1>4

LEMMA RelayLoopInv == ASSUME RelayIInv, NEW c \in Conns, RelayStep(c) PROVE RelayIInv'
  <1> USE DEF Running
  <1>1. CASE Forward(c) \/ Forwarded(c) \/ Tick(c) \/ RelayBreaks(c) \/ TurnUnchecked(c)
    BY <1>1, GoesInv DEF Forward, Forwarded, Tick, RelayBreaks, TurnUnchecked, RelayGoes
  <1>2. CASE TurnChecked(c) BY <1>2, GoesInv DEF TurnChecked
  <1> QED BY <1>1, <1>2 DEF RelayStep

\* What a relay closes as it ends is nobody else's, and an accounting entry it
\* shared goes, while one of another key stays with the relay it counts.
LEMMA LeaveInv == ASSUME RelayIInv, NEW c \in Conns, Leave(c) PROVE RelayIInv'
  <1> USE DEF RelayIInv, Waiting, Paired, Running
  <1> DEFINE q == partner[c]
  <1>1. /\ pc[c] = "leaving" /\ home[c] = "task" /\ q \in Conns /\ home[q] = "lent"
        /\ \A d \in Conns : home'[d] = IF d \in {c, q} THEN "closed" ELSE home[d]
        /\ home' \in [Conns -> {"task", "map", "lent", "closed"}]
        /\ pc' = [pc EXCEPT ![c] = "done"] /\ USAGE' = USAGE \ {key[c]}
        /\ key' = [key EXCEPT ![c] = c] /\ partner' = [partner EXCEPT ![c] = Nobody]
        /\ UNCHANGED <<from, uuid, PEERS, BLOCKLIST>>
    BY DEF StreamTypes, Leave, Owned, Closed, Returns
  <1>2. StreamTypes' BY <1>1 DEF StreamTypes
  <1>3. OwnStream' BY <1>1 DEF StreamTypes, OwnStream
  <1>4. InMap' BY <1>1, RelayAssumption DEF StreamTypes, InMap
  <1>5. Owned' BY <1>1 DEF StreamTypes, Owned, Unshared
  <1>6. Unshared' BY <1>1 DEF StreamTypes, Unshared
  <1>7. UsageIsLive' BY <1>1 DEF StreamTypes, UsageIsLive
  <1> QED BY <1>2, <1>3, <1>4, <1>5, <1>6, <1>7

LEMMA RelayStepInv == RelayIInv /\ [RelayNext]_relayVars => RelayIInv'
  <1> SUFFICES ASSUME RelayIInv, [RelayNext]_relayVars PROVE RelayIInv' OBVIOUS
  <1>1. ASSUME NEW c \in Conns, Accept(c) \/ TaskStep(c) \/ RelayStep(c) PROVE RelayIInv'
    BY <1>1, AcceptInv, RequestInv, TakeWaitingInv, EnqueueInv, WakeInv, StartRelayInv, RelayLoopInv,
       LeaveInv DEF TaskStep
  <1>2. ASSUME NEW i \in Addrs, Block(i) PROVE RelayIInv'
    BY <1>2 DEF Block, RelayIInv, StreamTypes, OwnStream, InMap, Owned, Unshared, UsageIsLive
  <1>3. CASE UNCHANGED relayVars
    BY <1>3 DEF relayVars, RelayIInv, StreamTypes, OwnStream, InMap, Owned, Unshared, UsageIsLive
  <1> QED BY <1>1, <1>2, <1>3 DEF RelayNext

-----------------------------------------------------------------------------
\* The inductive invariant holds in every behaviour of hbbr (make_pair_).
THEOREM RelayInvariant == RelaySpec => []RelayIInv
  BY RelayInitInv, RelayStepInv, PTL DEF RelaySpec

\* StreamTypes, and a stream is in the map exactly as its task says.
THEOREM RelayTypesHold == RelaySpec => []RelayTypeOK
  <1>1. RelayIInv => RelayTypeOK
    BY RelayAssumption DEF RelayIInv, StreamTypes, InMap, RelayTypeOK, Waiting, Paired, Running
  <1> QED BY <1>1, RelayInvariant, PTL

\* Nothing is left in PEERS for good (relay_server.rs, the sleep and remove at
\* the end of make_pair_).
THEOREM RelayEntryHasTimer == RelaySpec => []EntryHasTimer
  <1>1. RelayIInv => EntryHasTimer BY DEF RelayIInv, InMap, EntryHasTimer
  <1> QED BY <1>1, RelayInvariant, PTL

\* No timer, newcomer or other relay touches the streams of a running relay.
THEOREM RelayStreams == RelaySpec => []RelayOwnsStreams
  <1>1. RelayIInv => RelayOwnsStreams
    <2> SUFFICES ASSUME RelayIInv, NEW c \in Conns, pc[c] \in Paired
                 PROVE  /\ home[c] = "task" /\ home[partner[c]] = "lent"
                        /\ \A d \in Conns \ {c} :
                               pc[d] \in Paired => {c, partner[c]} \cap {d, partner[d]} = {}
      BY Zenon DEF RelayOwnsStreams
    <2>1. /\ home[c] = "task" /\ home[partner[c]] = "lent"
          /\ \A d \in Conns : pc[d] \in Paired => home[d] = "task" /\ home[partner[d]] = "lent"
      BY Zenon DEF RelayIInv, Owned
    <2>2. ASSUME NEW d \in Conns \ {c}, pc[d] \in Paired PROVE {c, partner[c]} \cap {d, partner[d]} = {}
      <3>1. partner[c] # partner[d] /\ c # d BY Zenon, <2>2 DEF RelayIInv, Unshared
      <3>2. c # partner[d] /\ d # partner[c]
        <4>1. home[d] = "task" /\ home[partner[d]] = "lent" BY Zenon, <2>1, <2>2
        <4> QED BY ONLY <2>1, <4>1
      <3> QED BY ONLY <3>1, <3>2
    <2> QED BY Zenon, <2>1, <2>2
  <1> QED BY <1>1, RelayInvariant, PTL

\* USAGE never counts a relay that has ended.
THEOREM RelayUsage == RelaySpec => []UsageIsLive
  BY RelayInvariant, PTL DEF RelayIInv
=============================================================================
