---------------------- MODULE PortForwardMuxRefinement ----------------------
(* The multiplexed tunnel implements the channels it promises                *)
(* (ForwardedChannel), for any number of channels and frames and any length  *)
(* of the queues.  PortForwardMuxSteps shows it of each step, given the laws *)
(* of queues and links; this module proves those laws and concludes.         *)
EXTENDS PortForwardMuxSteps, PortForwardMuxProofs, FiniteSetTheorems

(* What ForwardedChannel promises about the streams of a channel, with st,   *)
(* sn, rc and cl for its state, sent, received and closed.                   *)
Kept(st, sn, rc, cl) ==
    \A s \in Side, c \in Ids :
        /\ rc[s][c] <= sn[Peer(s)][c]
        /\ cl[s][c] => rc[s][c] = sn[Peer(s)][c] /\ st[Peer(s)][c] = "ended"

Table(S) == [Side -> [Ids -> S]]

\* Starting and ending: an end that was told of the other's close stays right,
\* since only an end that has not ended yet changes its state.
LEMMA KeptState ==
    ASSUME NEW st \in Table({"idle", "open", "ended"}), NEW sn, NEW rc, NEW cl,
           NEW s \in Side, NEW c \in Ids, NEW v, Kept(st, sn, rc, cl), st[s][c] # "ended"
    PROVE  Kept([st EXCEPT ![s][c] = v], sn, rc, cl)
  <1> DEFINE new == [st EXCEPT ![s][c] = v]
  <1>1. ASSUME NEW t \in Side, NEW e \in Ids, st[t][e] = "ended" PROVE new[t][e] = "ended"
    BY <1>1 DEF Table
  <1> HIDE DEF new
  <1> QED BY Zenon, <1>1, PeerFacts DEF Kept, new

\* Sending: the other end was not told of a close.
LEMMA KeptSend ==
    ASSUME NEW st, NEW sn \in Table(Nat), NEW rc \in Table(Nat), NEW cl,
           NEW s \in Side, NEW c \in Ids, Kept(st, sn, rc, cl), st[s][c] # "ended"
    PROVE  Kept(st, [sn EXCEPT ![s][c] = @ + 1], rc, cl)
  <1> DEFINE new == [sn EXCEPT ![s][c] = @ + 1]
  <1>1. \A t \in Side, e \in Ids : /\ sn[t][e] \in Nat /\ rc[t][e] \in Nat
                                   /\ new[t][e] = IF t = s /\ e = c THEN sn[t][e] + 1 ELSE sn[t][e]
    BY DEF Table
  <1> HIDE DEF new
  <1>2. ASSUME NEW t \in Side, NEW e \in Ids
        PROVE  /\ rc[t][e] <= new[Peer(t)][e]
               /\ cl[t][e] => rc[t][e] = new[Peer(t)][e] /\ st[Peer(t)][e] = "ended"
    <2>1. /\ rc[t][e] <= sn[Peer(t)][e]
          /\ cl[t][e] => rc[t][e] = sn[Peer(t)][e] /\ st[Peer(t)][e] = "ended"
      BY DEF Kept
    <2>2. rc[t][e] \in Nat /\ sn[Peer(t)][e] \in Nat /\ Peer(t) \in Side BY <1>1, PeerFacts
    <2>3. CASE Peer(t) = s /\ e = c
      <3>1. new[Peer(t)][e] = sn[Peer(t)][e] + 1 /\ ~cl[t][e] BY Zenon, <1>1, <2>1, <2>2, <2>3
      <3> QED BY <2>1, <2>2, <3>1
    <2>4. CASE ~(Peer(t) = s /\ e = c)
      <3>1. new[Peer(t)][e] = sn[Peer(t)][e] BY Zenon, <1>1, <2>2, <2>4
      <3> QED BY Zenon, <2>1, <3>1
    <2> QED BY <2>3, <2>4
  <1> QED BY Zenon, <1>2 DEF Kept, new

\* Receiving: something was sent that had not been received.
LEMMA KeptReceive ==
    ASSUME NEW st, NEW sn \in Table(Nat), NEW rc \in Table(Nat), NEW cl,
           NEW s \in Side, NEW c \in Ids, Kept(st, sn, rc, cl), ~cl[s][c], rc[s][c] < sn[Peer(s)][c]
    PROVE  Kept(st, sn, [rc EXCEPT ![s][c] = @ + 1], cl)
  <1> DEFINE new == [rc EXCEPT ![s][c] = @ + 1]
  <1>1. \A t \in Side, e \in Ids : /\ sn[t][e] \in Nat /\ rc[t][e] \in Nat
                                   /\ new[t][e] = IF t = s /\ e = c THEN rc[t][e] + 1 ELSE rc[t][e]
    BY DEF Table
  <1> HIDE DEF new
  <1>2. ASSUME NEW t \in Side, NEW e \in Ids
        PROVE  /\ new[t][e] <= sn[Peer(t)][e]
               /\ cl[t][e] => new[t][e] = sn[Peer(t)][e] /\ st[Peer(t)][e] = "ended"
    <2>1. /\ rc[t][e] <= sn[Peer(t)][e]
          /\ cl[t][e] => rc[t][e] = sn[Peer(t)][e] /\ st[Peer(t)][e] = "ended"
      BY DEF Kept
    <2>2. rc[t][e] \in Nat /\ sn[Peer(t)][e] \in Nat BY <1>1, PeerFacts
    <2>3. CASE t = s /\ e = c
      <3>1. new[t][e] = rc[t][e] + 1 /\ ~cl[t][e] /\ rc[t][e] < sn[Peer(t)][e] BY Zenon, <1>1, <2>3
      <3> QED BY <2>2, <3>1
    <2>4. CASE ~(t = s /\ e = c)
      <3>1. new[t][e] = rc[t][e] BY Zenon, <1>1, <2>4
      <3> QED BY Zenon, <2>1, <3>1
    <2> QED BY <2>3, <2>4
  <1> QED BY Zenon, <1>2 DEF Kept, new

\* Being told of the other's close, when all was received.
LEMMA KeptClose ==
    ASSUME NEW st, NEW sn, NEW rc, NEW cl \in Table(BOOLEAN), NEW s \in Side, NEW c \in Ids,
           Kept(st, sn, rc, cl), rc[s][c] = sn[Peer(s)][c], st[Peer(s)][c] = "ended"
    PROVE  Kept(st, sn, rc, [cl EXCEPT ![s][c] = TRUE])
  <1> DEFINE new == [cl EXCEPT ![s][c] = TRUE]
  <1>1. ASSUME NEW t \in Side, NEW e \in Ids, new[t][e], ~cl[t][e] PROVE t = s /\ e = c
    BY <1>1 DEF Table
  <1> HIDE DEF new
  <1>2. ASSUME NEW t \in Side, NEW e \in Ids
        PROVE  /\ rc[t][e] <= sn[Peer(t)][e]
               /\ new[t][e] => rc[t][e] = sn[Peer(t)][e] /\ st[Peer(t)][e] = "ended"
    BY Zenon, <1>1 DEF Kept
  <1> QED BY Zenon, <1>2 DEF Kept, new

(* Queues.                                                                   *)

LEMMA CountFinite ==
    ASSUME NEW S, NEW q \in Seq(S), NEW e
    PROVE  IsFiniteSet({i \in 1..Len(q) : q[i] = e}) /\ Count(q, e) \in Nat
  <1>1. Len(q) \in Nat OBVIOUS
  <1>2. IsFiniteSet(1..Len(q)) BY <1>1, FS_Interval
  <1>3. {i \in 1..Len(q) : q[i] = e} \in SUBSET (1..Len(q)) OBVIOUS
  <1>4. IsFiniteSet({i \in 1..Len(q) : q[i] = e}) BY <1>2, <1>3, FS_Subset, Zenon
  <1> QED BY <1>4, FS_CardinalityType DEF Count

LEMMA CountEmpty == \A e : Count(<<>>, e) = 0
  <1> TAKE e
  <1>1. {i \in 1..Len(<<>>) : <<>>[i] = e} = {} OBVIOUS
  <1> QED BY <1>1, FS_EmptySet DEF Count

LEMMA CountZero ==
    ASSUME NEW S, NEW q \in Seq(S), NEW e
    PROVE  Count(q, e) = 0 <=> \A i \in 1..Len(q) : q[i] # e
  <1> DEFINE P == {i \in 1..Len(q) : q[i] = e}
  <1>1. IsFiniteSet(P) BY Zenon, CountFinite
  <1>2. Count(q, e) = Cardinality(P) BY DEF Count
  <1>3. Cardinality(P) = 0 <=> P = {} BY Zenon, <1>1, FS_EmptySet
  <1> QED BY <1>2, <1>3

LEMMA CountAppend ==
    ASSUME NEW S, NEW q \in Seq(S), NEW f \in S, NEW e
    PROVE  Count(Append(q, f), e) = IF f = e THEN Count(q, e) + 1 ELSE Count(q, e)
  <1> DEFINE P == {i \in 1..Len(q) : q[i] = e}
             r == Append(q, f)
             R == {i \in 1..Len(r) : r[i] = e}
             n == Len(q) + 1
  <1>1. IsFiniteSet(P) BY Zenon, CountFinite
  <1>2. Len(q) \in Nat /\ Len(r) = n /\ r[n] = f /\ \A i \in 1..Len(q) : r[i] = q[i] OBVIOUS
  <1>3. n \notin P BY <1>2
  <1>4. CASE f = e
    <2>1. R = P \cup {n} BY <1>2, <1>4
    <2>2. Cardinality(P \cup {n}) = Cardinality(P) + 1 BY Zenon, <1>1, <1>3, FS_AddElement
    <2> QED BY Zenon, <1>4, <2>1, <2>2 DEF Count
  <1>5. CASE f # e
    <2>1. R = P BY <1>2, <1>5
    <2> QED BY Zenon, <1>5, <2>1 DEF Count
  <1> QED BY <1>4, <1>5

LEMMA CountTail ==
    ASSUME NEW S, NEW q \in Seq(S), q # <<>>, NEW e
    PROVE  Count(q, e) = IF Head(q) = e THEN Count(Tail(q), e) + 1 ELSE Count(Tail(q), e)
  <1> DEFINE r == Tail(q)
             P == {i \in 1..Len(q) : q[i] = e}
             R == {i \in 1..Len(r) : r[i] = e}
             T == P \ {1}
             f == [i \in R |-> i + 1]
  <1>1. r \in Seq(S) /\ Len(q) \in Nat \ {0} /\ Len(r) = Len(q) - 1 /\ Head(q) = q[1]
        /\ \A i \in 1..(Len(q) - 1) : r[i] = q[i + 1]
    OBVIOUS
  <1>2. IsFiniteSet(P) /\ IsFiniteSet(R) /\ Count(r, e) \in Nat
    BY Zenon, <1>1, CountFinite
  <1>3. f \in Bijection(R, T)
    <2> HIDE DEF r
    <2>1. \A i \in R : i + 1 \in T BY <1>1
    <2>2. f \in [R -> T] BY <2>1
    <2>3. \A j \in T : j - 1 \in R /\ f[j - 1] = j BY <1>1
    <2>4. \A i, j \in R : f[i] = f[j] => i = j BY <1>1
    <2> QED BY <2>2, <2>3, <2>4 DEF Bijection, Injection, Surjection, IsInjective
  <1>4. Cardinality(T) = Cardinality(R)
    BY Zenon, <1>2, <1>3, FS_Bijection DEF ExistsBijection
  <1>5. Cardinality(T) = IF 1 \in P THEN Cardinality(P) - 1 ELSE Cardinality(P)
    BY Zenon, <1>2, FS_RemoveElement
  <1>6. Cardinality(P) \in Nat BY <1>2, FS_CardinalityType
  <1>7. 1 \in P <=> Head(q) = e BY <1>1
  <1>8. Count(q, e) = Cardinality(P) /\ Count(r, e) = Cardinality(R) BY DEF Count
  <1>9. CASE Head(q) = e
    <2>1. Cardinality(R) = Cardinality(P) - 1 BY <1>4, <1>5, <1>7, <1>9, Zenon
    <2>2. \A m, n \in Nat : n = m - 1 => m = n + 1 OBVIOUS
    <2>3. Cardinality(R) \in Nat BY <1>2, FS_CardinalityType, Zenon
    <2>4. Cardinality(P) = Cardinality(R) + 1 BY <1>6, <2>1, <2>2, <2>3, Zenon
    <2> QED BY <1>8, <1>9, <2>4, Zenon
  <1>10. CASE Head(q) # e
    <2>1. Cardinality(R) = Cardinality(P) BY <1>4, <1>5, <1>7, <1>10, Zenon
    <2> QED BY <1>8, <1>10, <2>1, Zenon
  <1> QED BY <1>9, <1>10

LEMMA MeetsEmpty == \A E : ~Meets(<<>>, E)
  BY DEF Meets

LEMMA MeetsAppend ==
    ASSUME NEW S, NEW q \in Seq(S), NEW f \in S, NEW E
    PROVE  Meets(Append(q, f), E) <=> Meets(q, E) \/ f \in E
  <1> DEFINE r == Append(q, f)
  <1>1. Len(q) \in Nat /\ Len(r) = Len(q) + 1 /\ r[Len(q) + 1] = f
        /\ \A i \in 1..Len(q) : r[i] = q[i]
    OBVIOUS
  <1> HIDE DEF r
  <1>2. Meets(r, E) <=> Meets(q, E) \/ f \in E
    <2>1. ASSUME NEW i \in 1..Len(q), q[i] \in E PROVE Meets(r, E)
      <3>1. i \in 1..Len(r) /\ r[i] \in E BY <1>1, <2>1
      <3> QED BY <3>1 DEF Meets
    <2>2. ASSUME f \in E PROVE Meets(r, E)
      <3>1. Len(q) + 1 \in 1..Len(r) /\ r[Len(q) + 1] \in E BY <1>1, <2>2
      <3> QED BY <3>1 DEF Meets
    <2>3. ASSUME NEW i \in 1..Len(r), r[i] \in E PROVE Meets(q, E) \/ f \in E
      <3>1. i = Len(q) + 1 \/ i \in 1..Len(q) BY <1>1
      <3> QED BY <1>1, <2>3, <3>1 DEF Meets
    <2> QED BY <2>1, <2>2, <2>3 DEF Meets
  <1> QED BY <1>2 DEF r

LEMMA MeetsTail ==
    ASSUME NEW S, NEW q \in Seq(S), q # <<>>, NEW E
    PROVE  Meets(q, E) <=> Head(q) \in E \/ Meets(Tail(q), E)
  <1> DEFINE r == Tail(q)
  <1>1. Len(q) \in Nat \ {0} /\ Len(r) = Len(q) - 1 /\ Head(q) = q[1]
        /\ \A i \in 1..(Len(q) - 1) : r[i] = q[i + 1]
    OBVIOUS
  <1> HIDE DEF r
  <1>2. ASSUME NEW i \in 1..Len(q), q[i] \in E PROVE Head(q) \in E \/ Meets(r, E)
    <2>1. CASE i = 1 BY <1>1, <1>2, <2>1
    <2>2. CASE i # 1
      <3>1. i - 1 \in 1..Len(r) /\ r[i - 1] = q[i] BY <1>1, <2>2
      <3> QED BY <1>2, <3>1 DEF Meets
    <2> QED BY <2>1, <2>2
  <1>3. ASSUME NEW i \in 1..Len(r), r[i] \in E PROVE Meets(q, E)
    <2>1. i + 1 \in 1..Len(q) /\ q[i + 1] = r[i] BY <1>1
    <2> QED BY <1>3, <2>1 DEF Meets
  <1>4. Head(q) \in E => Meets(q, E) BY <1>1 DEF Meets
  <1> QED BY <1>2, <1>3, <1>4 DEF Meets, r

LEMMA TidyEmpty == \A E, e : Tidy(<<>>, E, e)
  BY DEF Tidy

LEMMA TidyAppend ==
    ASSUME NEW S, NEW q \in Seq(S), NEW f \in S, NEW E, NEW e, Tidy(q, E, e),
           f = e => ~Meets(q, E)
    PROVE  Tidy(Append(q, f), E, e)
  <1> DEFINE r == Append(q, f)
  <1>1. Len(q) \in Nat /\ Len(r) = Len(q) + 1 /\ r[Len(q) + 1] = f
        /\ \A i \in 1..Len(q) : r[i] = q[i]
    OBVIOUS
  <1> HIDE DEF r
  <1>2. ASSUME NEW i \in 1..Len(r), NEW j \in 1..Len(r), i < j, r[i] \in E PROVE r[j] # e
    <2>1. i \in 1..Len(q) /\ r[i] = q[i] BY <1>1, <1>2
    <2>2. CASE j \in 1..Len(q) BY <1>1, <1>2, <2>1, <2>2 DEF Tidy
    <2>3. CASE j = Len(q) + 1
      <3>1. Meets(q, E) BY <1>2, <2>1 DEF Meets
      <3> QED BY <1>1, <2>3, <3>1
    <2> QED BY <1>1, <2>2, <2>3
  <1> QED BY <1>2 DEF Tidy, r

LEMMA TidyTail ==
    ASSUME NEW S, NEW q \in Seq(S), q # <<>>, NEW E, NEW e, Tidy(q, E, e)
    PROVE  Tidy(Tail(q), E, e) /\ (Head(q) \in E => Count(Tail(q), e) = 0)
  <1> DEFINE r == Tail(q)
  <1>1. Len(q) \in Nat \ {0} /\ Len(r) = Len(q) - 1 /\ Head(q) = q[1] /\ r \in Seq(S)
        /\ \A i \in 1..(Len(q) - 1) : r[i] = q[i + 1]
    OBVIOUS
  <1> HIDE DEF r
  <1>2. ASSUME NEW i \in 1..Len(r), NEW j \in 1..Len(r), i < j, r[i] \in E PROVE r[j] # e
    <2>1. /\ i + 1 \in 1..Len(q) /\ j + 1 \in 1..Len(q) /\ i + 1 < j + 1
          /\ r[i] = q[i + 1] /\ r[j] = q[j + 1]
      BY <1>1, <1>2
    <2> QED BY <1>2, <2>1 DEF Tidy
  <1>3. ASSUME Head(q) \in E, NEW j \in 1..Len(r) PROVE r[j] # e
    <2>1. 1 \in 1..Len(q) /\ j + 1 \in 1..Len(q) /\ 1 < j + 1 /\ r[j] = q[j + 1] BY <1>1
    <2> QED BY <1>1, <1>3, <2>1 DEF Tidy
  <1>4. Head(q) \in E => Count(r, e) = 0 BY <1>1, <1>3, CountZero
  <1> QED BY <1>2, <1>4 DEF Tidy, r

-----------------------------------------------------------------------------
(* One receiving end of one channel.                                         *)

LEMMA TakenNat ==
    ASSUME NEW x \in Channels
    PROVE  /\ Taken(x) \in Nat /\ Count(x.inbox, "data") \in Nat /\ x.sent \in Nat
           /\ x.inbox \in Seq(Payloads) /\ x.pending \in Nat /\ x.written \in Nat
  <1>1. x.inbox \in Seq(Payloads) /\ x.pending \in Nat /\ x.written \in Nat /\ x.sent \in Nat
    BY DEF Channels, Payloads
  <1>2. Count(x.inbox, "data") \in Nat BY Zenon, <1>1, CountFinite
  <1> QED BY <1>1, <1>2 DEF Taken

LEMMA AlikeAppend ==
    ASSUME NEW q \in Seq(Frames), NEW f \in Frames, NEW c
    PROVE  /\ Idle(f, c) => Alike(q, Append(q, f), c)
           /\ f # Frame("open", c) => SameOpens(q, Append(q, f), c)
  <1>1. Count(Append(q, f), Data(c)) =
            IF f = Data(c) THEN Count(q, Data(c)) + 1 ELSE Count(q, Data(c))
    BY CountAppend
  <1>2. Meets(Append(q, f), Lasts(c)) <=> Meets(q, Lasts(c)) \/ f \in Lasts(c) BY MeetsAppend
  <1>3. f # Data(c) /\ Tidy(q, Lasts(c), Data(c)) => Tidy(Append(q, f), Lasts(c), Data(c))
    BY TidyAppend
  <1>4. f # Frame("open", c) => SameOpens(q, Append(q, f), c) BY CountAppend DEF SameOpens
  <1> QED BY <1>1, <1>2, <1>3, <1>4 DEF Alike, Idle

LEMMA AlikeTail ==
    ASSUME NEW q \in Seq(Frames), q # <<>>, NEW c
    PROVE  /\ Idle(Head(q), c) => Alike(q, Tail(q), c)
           /\ Head(q) # Frame("open", c) => SameOpens(q, Tail(q), c)
  <1>1. Count(q, Data(c)) =
            IF Head(q) = Data(c) THEN Count(Tail(q), Data(c)) + 1 ELSE Count(Tail(q), Data(c))
    BY CountTail
  <1>2. Meets(q, Lasts(c)) <=> Head(q) \in Lasts(c) \/ Meets(Tail(q), Lasts(c)) BY MeetsTail
  <1>3. Tidy(q, Lasts(c), Data(c)) => Tidy(Tail(q), Lasts(c), Data(c)) BY TidyTail
  <1>4. Head(q) # Frame("open", c) => SameOpens(q, Tail(q), c) BY CountTail DEF SameOpens
  <1> QED BY <1>1, <1>2, <1>3, <1>4 DEF Alike, Idle

LEMMA LinkAlike ==
    ASSUME NEW x, NEW y, NEW q, NEW d, NEW r, NEW e, NEW run, NEW there, NEW c,
           Link(x, y, q, d, run, there, c), Alike(q, r, c), Alike(d, e, c)
    PROVE  Link(x, y, r, e, run, there, c)
  BY DEF Link, Ordered, Counted, Alike

LEMMA LinkMilder ==
    ASSUME NEW x \in Channels, NEW z \in Channels, NEW y \in Channels,
           NEW q \in Seq(Frames), NEW d \in Seq(Frames), NEW run, NEW there, NEW c,
           Link(x, y, q, d, run, there, c), Milder(x, z)
    PROVE  Link(z, y, q, d, run, there, c)
  <1>1. Taken(x) \in Nat /\ Taken(z) \in Nat /\ y.sent \in Nat BY TakenNat
  <1>2. Count(q, Data(c)) \in Nat /\ Count(d, Data(c)) \in Nat BY Zenon, CountFinite
  <1>3. Counted(z, y, q, d, run, there, c) BY <1>1, <1>2 DEF Link, Counted, Milder
  <1>4. Closed(z, y) BY DEF Link, Closed, Milder
  <1> QED BY <1>3, <1>4 DEF Link

LEMMA LinkSender ==
    ASSUME NEW x, NEW y, NEW z, NEW q, NEW d, NEW run, NEW there, NEW c,
           Link(x, y, q, d, run, there, c), Stays(y, z)
    PROVE  Link(x, z, q, d, run, there, c)
  BY DEF Link, Ordered, Counted, Closed, Stays

\* One more data frame is sent; on its way to a loop that reads no more it is
\* lost.
LEMMA LinkData ==
    ASSUME NEW x \in Channels, NEW y \in Channels, NEW z \in Channels,
           NEW q \in Seq(Frames), NEW d \in Seq(Frames), NEW r, NEW e,
           NEW run, NEW there, NEW c \in Ids,
           Link(x, y, q, d, run, there, c), y.task # "done", z.sent = y.sent + 1,
           \/ r = q /\ e = Append(d, Data(c))
           \/ d = <<>> /\ e = <<>> /\ r = Append(q, Data(c))
           \/ d = <<>> /\ e = <<>> /\ r = q /\ ~run
    PROVE  Link(x, z, r, e, run, there, c)
  <1>1. Taken(x) \in Nat /\ y.sent \in Nat BY TakenNat
  <1>2. Count(q, Data(c)) \in Nat /\ Count(d, Data(c)) \in Nat BY Zenon, CountFinite
  <1>3. ~Meets(q, Lasts(c)) /\ ~Meets(d, Lasts(c)) BY DEF Link, Ordered
  <1>4. \A p \in Seq(Frames) :
            /\ Count(Append(p, Data(c)), Data(c)) = Count(p, Data(c)) + 1
            /\ Meets(Append(p, Data(c)), Lasts(c)) <=> Meets(p, Lasts(c))
            /\ Tidy(p, Lasts(c), Data(c)) /\ ~Meets(p, Lasts(c))
                => Tidy(Append(p, Data(c)), Lasts(c), Data(c))
    BY FrameFacts, CountAppend, MeetsAppend, TidyAppend
  <1>5. /\ ~Meets(r, Lasts(c)) /\ ~Meets(e, Lasts(c))
        /\ Tidy(r, Lasts(c), Data(c)) /\ Tidy(e, Lasts(c), Data(c))
        /\ \/ Count(r, Data(c)) + Count(e, Data(c)) = Count(q, Data(c)) + Count(d, Data(c)) + 1
           \/ Count(r, Data(c)) + Count(e, Data(c)) = Count(q, Data(c)) + Count(d, Data(c)) /\ ~run
    <2>1. Tidy(q, Lasts(c), Data(c)) /\ Tidy(d, Lasts(c), Data(c)) BY DEF Link, Ordered
    <2>2. CASE r = q /\ e = Append(d, Data(c)) BY <1>2, <1>3, <1>4, <2>1, <2>2
    <2>3. CASE e = d /\ r = Append(q, Data(c)) BY <1>2, <1>3, <1>4, <2>1, <2>3
    <2>4. CASE e = d /\ r = q /\ ~run BY <1>3, <2>1, <2>4
    <2> QED BY <2>2, <2>3, <2>4
  <1>6. Counted(x, z, r, e, run, there, c)
    <2> DEFINE way == Count(q, Data(c)) + Count(d, Data(c))
               now == Count(r, Data(c)) + Count(e, Data(c))
    <2>1. Taken(x) + way <= y.sent /\ (run /\ Listens(x) /\ there => Taken(x) + way = y.sent)
      BY DEF Link, Counted
    <2>2. way \in Nat /\ (now = way + 1 \/ (now = way /\ ~run)) BY <1>2, <1>5
    <2> HIDE DEF way, now
    <2>3. Taken(x) + now <= z.sent BY <1>1, <2>1, <2>2
    <2>4. ASSUME run, Listens(x), there \/ Meets(r, Lasts(c)) PROVE Taken(x) + now = z.sent
      <3>1. there BY <1>5, <2>4
      <3> QED BY <1>1, <2>1, <2>2, <2>4, <3>1
    <2> QED BY <2>3, <2>4 DEF Counted, now
  <1>7. Closed(x, z) BY DEF Link, Closed
  <1>8. Ordered(z, r, e, c) BY <1>5 DEF Ordered
  <1> QED BY <1>6, <1>7, <1>8 DEF Link

\* The sender's last frame.
LEMMA LinkLast ==
    ASSUME NEW q \in Seq(Frames), NEW d \in Seq(Frames), NEW c \in Ids,
           NEW f, NEW x, NEW y, NEW z, NEW r, NEW e, NEW run,
           Link(x, y, q, d, run, TRUE, c), Quits(y, z), f \in Lasts(c), SentOn(q, d, r, e, f)
    PROVE  Link(x, z, r, e, run, TRUE, c)
  <1>1. f \in Frames /\ f # Data(c) BY FrameFacts
  <1>2. \A p \in Seq(Frames) :
            /\ Count(Append(p, f), Data(c)) = Count(p, Data(c))
            /\ Tidy(p, Lasts(c), Data(c)) => Tidy(Append(p, f), Lasts(c), Data(c))
    BY <1>1, CountAppend, TidyAppend
  <1>3. Count(<<>>, Data(c)) = 0 /\ ~Meets(<<>>, Lasts(c)) BY CountEmpty, MeetsEmpty
  <1>4. Count(r, Data(c)) = Count(q, Data(c)) /\ Count(e, Data(c)) = Count(d, Data(c))
        /\ (Tidy(q, Lasts(c), Data(c)) => Tidy(r, Lasts(c), Data(c)))
        /\ (Tidy(d, Lasts(c), Data(c)) => Tidy(e, Lasts(c), Data(c)))
    BY Zenon, <1>2 DEF SentOn
  <1>5. Ordered(z, r, e, c) BY <1>3, <1>4 DEF SentOn, Quits, Link, Ordered
  <1>6. Counted(x, z, r, e, run, TRUE, c) BY <1>4 DEF Quits, Link, Counted
  <1>7. Closed(x, z) BY DEF Quits, Link, Closed
  <1> QED BY Zenon, <1>5, <1>6, <1>7 DEF Link

\* A data frame arrives: it is taken, or the end listens no more.
LEMMA LinkArrives ==
    ASSUME NEW x \in Channels, NEW z \in Channels, NEW y \in Channels,
           NEW q \in Seq(Frames), NEW d \in Seq(Frames), NEW run, NEW there, NEW c \in Ids,
           Link(x, y, q, d, run, there, c), q # <<>>, Head(q) = Data(c),
           Taken(z) <= Taken(x) + 1,
           Listens(z) => Listens(x) /\ Taken(z) = Taken(x) + 1,
           Tidy(z.inbox, {"close"}, "data"),
           InboxOpen(z) /\ Meets(z.inbox, {"close"}) =>
                /\ InboxOpen(x) /\ Meets(x.inbox, {"close"})
                /\ Taken(z) = Taken(x) /\ (z.entry => x.entry)
    PROVE  Link(z, y, Tail(q), d, run, there, c)
  <1>1. Taken(x) \in Nat /\ Taken(z) \in Nat /\ y.sent \in Nat BY TakenNat
  <1>2. Tail(q) \in Seq(Frames) OBVIOUS
  <1>3. Count(Tail(q), Data(c)) \in Nat /\ Count(d, Data(c)) \in Nat BY Zenon, <1>2, CountFinite
  <1>4. Count(q, Data(c)) = Count(Tail(q), Data(c)) + 1 BY CountTail
  <1>5. Meets(q, Lasts(c)) <=> Meets(Tail(q), Lasts(c)) BY MeetsTail, FrameFacts
  <1>6. Tidy(q, Lasts(c), Data(c)) => Tidy(Tail(q), Lasts(c), Data(c)) BY TidyTail
  <1>7. Ordered(y, Tail(q), d, c) BY <1>5, <1>6 DEF Link, Ordered
  <1>8. Counted(z, y, Tail(q), d, run, there, c)
    <2> DEFINE way == Count(Tail(q), Data(c)) + Count(d, Data(c))
               go == run /\ Listens(x) /\ (there \/ Meets(Tail(q), Lasts(c)))
    <2>1. Count(q, Data(c)) + Count(d, Data(c)) = way + 1 /\ way \in Nat BY <1>3, <1>4
    <2>2. Taken(x) + (way + 1) <= y.sent BY <2>1 DEF Link, Counted
    <2>3. go => Taken(x) + (way + 1) = y.sent BY <1>5, <2>1 DEF Link, Counted
    <2> HIDE DEF way
    <2>4. Taken(z) + way <= y.sent BY <1>1, <2>1, <2>2
    <2>5. ASSUME go, Listens(z) PROVE Taken(z) + way = y.sent BY <1>1, <2>1, <2>3, <2>5
    <2> QED BY <2>4, <2>5 DEF Counted, way
  <1>9. Closed(z, y) BY DEF Link, Closed
  <1> QED BY <1>7, <1>8, <1>9 DEF Link

\* A closing frame arrives: nothing is behind it, so that an end that listens
\* has had everything.
LEMMA LinkCloses ==
    ASSUME NEW x \in Channels, NEW y \in Channels, NEW q \in Seq(Frames),
           NEW d \in Seq(Frames), NEW there, NEW c \in Ids,
           Link(x, y, q, d, TRUE, there, c), q # <<>>, Head(q) \in Lasts(c),
           x.task = "none" => ~x.entry
    PROVE  Link(IF x.entry THEN Dropped(Delivered(x, "close")) ELSE x,
                y, Tail(q), d, TRUE, there, c)
  <1>1. Taken(x) \in Nat /\ y.sent \in Nat /\ x.inbox \in Seq(Payloads) BY TakenNat
  <1>2. Tail(q) \in Seq(Frames) OBVIOUS
  <1>3. Meets(q, Lasts(c)) BY MeetsTail
  <1>4. Count(d, Data(c)) = 0 /\ y.task = "done" BY <1>3 DEF Link, Ordered
  <1>5. Count(Tail(q), Data(c)) = 0 /\ Tidy(Tail(q), Lasts(c), Data(c))
    BY TidyTail DEF Link, Ordered
  <1>6. Count(q, Data(c)) = 0 BY <1>5, CountTail, FrameFacts
  <1>7. Ordered(y, Tail(q), d, c) BY <1>4, <1>5 DEF Link, Ordered
  <1>8. Counted(x, y, Tail(q), d, TRUE, there, c)
    BY <1>3, <1>5, <1>6 DEF Link, Counted
  <1>9. Link(x, y, Tail(q), d, TRUE, there, c) BY Zenon, <1>7, <1>8 DEF Link
  <1>10. CASE x.entry
    <2> DEFINE z == Dropped(Delivered(x, "close"))
    <2>1. CASE InboxOpen(x)
      <3>1. Taken(x) = y.sent
        BY <1>1, <1>3, <1>4, <1>6, <1>10, <2>1 DEF Link, Counted, Listens
      <3>2. z = [x EXCEPT !.inbox = Append(@, "close"), !.entry = FALSE]
        BY <2>1 DEF Dropped, Delivered, Channels
      <3>3. /\ z.inbox = Append(x.inbox, "close") /\ ~z.entry /\ z.task = x.task
            /\ z.written = x.written /\ z.pending = x.pending
        BY Zenon, <3>2 DEF Channels
      <3> HIDE DEF z
      <3>4. Count(z.inbox, "data") = Count(x.inbox, "data")
        <4>1. "close" \in Payloads /\ "close" # "data" BY DEF Payloads
        <4> QED BY <3>3, <4>1, <1>1, CountAppend
      <3>5. Taken(z) = Taken(x) BY <3>3, <3>4 DEF Taken
      <3>6. Tidy(z.inbox, {"close"}, "data")
        BY <3>3, <1>1, TidyAppend DEF Payloads, Link, Closed
      <3>7. Closed(z, y) BY <3>1, <3>3, <3>5, <3>6, <1>4 DEF Closed
      <3>8. ~Listens(z) BY <3>3, <1>10 DEF Listens
      <3>9. Counted(z, y, Tail(q), d, TRUE, there, c)
        BY <3>5, <3>8, <1>8 DEF Counted
      <3> QED BY Zenon, <1>7, <1>10, <3>7, <3>9 DEF Link, z
    <2>2. CASE ~InboxOpen(x)
      <3>1. z = [x EXCEPT !.entry = FALSE] BY <2>2 DEF Dropped, Delivered
      <3>2. /\ z.inbox = x.inbox /\ ~z.entry /\ z.task = x.task /\ z.down = x.down
            /\ z.written = x.written /\ z.pending = x.pending
        BY <3>1 DEF Channels
      <3>3. Taken(z) = Taken(x) /\ ~InboxOpen(z) /\ ~Listens(z)
        BY <3>2, <2>2, <1>10 DEF Taken, InboxOpen, Listens
      <3>4. Closed(z, y) BY <3>2, <3>3, <1>9 DEF Link, Closed
      <3>5. Counted(z, y, Tail(q), d, TRUE, there, c) BY <3>3, <1>8 DEF Counted
      <3> QED BY Zenon, <1>7, <1>10, <3>4, <3>5 DEF Link
    <2> QED BY Zenon, <2>1, <2>2
  <1> QED BY Zenon, <1>9, <1>10

\* The receiver's loop breaks.
LEMMA LinkStops ==
    ASSUME NEW x \in Channels, NEW y \in Channels, NEW q \in Seq(Frames),
           NEW d \in Seq(Frames), NEW run, NEW there, NEW c,
           Link(x, y, q, d, run, there, c)
    PROVE  Link(x, y, <<>>, d, FALSE, there, c)
  <1>1. Taken(x) \in Nat /\ y.sent \in Nat BY TakenNat
  <1>2. Count(q, Data(c)) \in Nat /\ Count(d, Data(c)) \in Nat BY Zenon, CountFinite
  <1>3. Count(<<>>, Data(c)) = 0 BY CountEmpty
  <1>4. ~Meets(<<>>, Lasts(c)) BY MeetsEmpty
  <1>5. Tidy(<<>>, Lasts(c), Data(c)) BY TidyEmpty
  <1>6. Ordered(y, <<>>, d, c) BY <1>4, <1>5 DEF Link, Ordered
  <1>7. Counted(x, y, <<>>, d, FALSE, there, c) BY <1>1, <1>2, <1>3 DEF Link, Counted
  <1> QED BY Zenon, <1>6, <1>7 DEF Link

\* The sender's loop returns and drops what is queued.
LEMMA LinkLeaves ==
    ASSUME NEW x \in Channels, NEW y \in Channels, NEW q \in Seq(Frames),
           NEW d \in Seq(Frames), NEW run, NEW there, NEW c,
           Link(x, y, q, d, run, there, c)
    PROVE  Link(x, y, q, <<>>, run, FALSE, c)
  <1>1. Taken(x) \in Nat /\ y.sent \in Nat BY TakenNat
  <1>2. Count(q, Data(c)) \in Nat /\ Count(d, Data(c)) \in Nat BY Zenon, CountFinite
  <1>3. Count(<<>>, Data(c)) = 0 BY CountEmpty
  <1>4. ~Meets(<<>>, Lasts(c)) BY MeetsEmpty
  <1>5. Tidy(<<>>, Lasts(c), Data(c)) BY TidyEmpty
  <1>6. Ordered(y, q, <<>>, c) BY <1>3, <1>4, <1>5 DEF Link, Ordered
  <1>7. Counted(x, y, q, <<>>, run, FALSE, c)
    BY <1>1, <1>2, <1>3 DEF Link, Ordered, Counted
  <1> QED BY Zenon, <1>6, <1>7 DEF Link

\* A frame goes from the sender's queue to the stream, or is lost.
LEMMA LinkPumps ==
    ASSUME NEW x \in Channels, NEW y \in Channels, NEW q \in Seq(Frames),
           NEW d \in Seq(Frames), NEW run, NEW c,
           Link(x, y, q, d, run, TRUE, c), d # <<>>
    PROVE  /\ Link(x, y, Append(q, Head(d)), Tail(d), run, TRUE, c)
           /\ ~run => Link(x, y, q, Tail(d), run, TRUE, c)
  <1> DEFINE f == Head(d)
             way == Count(q, Data(c)) + Count(d, Data(c))
  <1>1. Taken(x) \in Nat /\ y.sent \in Nat BY TakenNat
  <1>2. f \in Frames /\ Tail(d) \in Seq(Frames) OBVIOUS
  <1>3. Count(q, Data(c)) \in Nat /\ Count(Tail(d), Data(c)) \in Nat BY Zenon, <1>2, CountFinite
  <1>4. /\ Count(d, Data(c)) =
            IF f = Data(c) THEN Count(Tail(d), Data(c)) + 1 ELSE Count(Tail(d), Data(c))
        /\ Count(Append(q, f), Data(c)) =
            IF f = Data(c) THEN Count(q, Data(c)) + 1 ELSE Count(q, Data(c))
    BY <1>2, CountTail, CountAppend
  <1>5. /\ Meets(d, Lasts(c)) <=> f \in Lasts(c) \/ Meets(Tail(d), Lasts(c))
        /\ Meets(Append(q, f), Lasts(c)) <=> Meets(q, Lasts(c)) \/ f \in Lasts(c)
    BY <1>2, MeetsTail, MeetsAppend
  <1>6. /\ Tidy(Tail(d), Lasts(c), Data(c))
        /\ f \in Lasts(c) => Count(Tail(d), Data(c)) = 0
    BY TidyTail DEF Link, Ordered
  <1>7. f = Data(c) => ~Meets(q, Lasts(c))
    BY <1>3, <1>4 DEF Link, Ordered
  <1>8. Tidy(Append(q, f), Lasts(c), Data(c)) BY <1>2, <1>7, TidyAppend DEF Link, Ordered
  <1> HIDE DEF f
  <1>9. Meets(q, Lasts(c)) => Count(Tail(d), Data(c)) = 0
    BY <1>3, <1>4 DEF Link, Ordered
  <1>10. Ordered(y, Append(q, f), Tail(d), c) /\ Ordered(y, q, Tail(d), c)
    BY <1>5, <1>6, <1>8, <1>9 DEF Link, Ordered
  <1>11. Count(Append(q, f), Data(c)) + Count(Tail(d), Data(c)) = way BY <1>3, <1>4
  <1>12. Counted(x, y, Append(q, f), Tail(d), run, TRUE, c)
    BY <1>11 DEF Link, Counted
  <1>13. ~run => Counted(x, y, q, Tail(d), run, TRUE, c)
    BY <1>1, <1>3, <1>4 DEF Link, Counted
  <1> QED BY Zenon, <1>10, <1>12, <1>13 DEF Link, f

-----------------------------------------------------------------------------
LEMMA LawsHold == LinkLaws
  <1>1. CountFiniteLaw BY Zenon, CountFinite DEF CountFiniteLaw
  <1>2. CountEmptyLaw BY CountEmpty DEF CountEmptyLaw
  <1>3. CountZeroLaw BY CountZero DEF CountZeroLaw
  <1>4. CountAppendLaw BY CountAppend DEF CountAppendLaw
  <1>5. CountTailLaw BY CountTail DEF CountTailLaw
  <1>6. MeetsEmptyLaw BY MeetsEmpty DEF MeetsEmptyLaw
  <1>7. MeetsAppendLaw BY MeetsAppend DEF MeetsAppendLaw
  <1>8. MeetsTailLaw BY MeetsTail DEF MeetsTailLaw
  <1>9. TidyEmptyLaw BY TidyEmpty DEF TidyEmptyLaw
  <1>10. TidyAppendLaw BY TidyAppend DEF TidyAppendLaw
  <1>11. TidyTailLaw BY TidyTail DEF TidyTailLaw
  <1>12. TakenNatLaw BY TakenNat DEF TakenNatLaw
  <1>13. AlikeAppendLaw BY AlikeAppend DEF AlikeAppendLaw
  <1>14. AlikeTailLaw BY AlikeTail DEF AlikeTailLaw
  <1>15. LinkAlikeLaw BY LinkAlike DEF LinkAlikeLaw
  <1>16. LinkMilderLaw BY LinkMilder DEF LinkMilderLaw
  <1>17. LinkSenderLaw BY LinkSender DEF LinkSenderLaw
  <1>18. LinkDataLaw BY LinkData DEF LinkDataLaw
  <1>19. LinkLastLaw
    <2> USE DEF LinkLastLaw
    <2> TAKE q, d \in Seq(Frames), c \in Ids
    <2> TAKE f, x, y, z, r, e, run
    <2> HAVE /\ Link(x, y, q, d, run, TRUE, c) /\ Quits(y, z)
             /\ f \in Lasts(c) /\ SentOn(q, d, r, e, f)
    <2> QED BY Zenon, LinkLast
  <1>20. LinkArrivesLaw BY LinkArrives DEF LinkArrivesLaw
  <1>21. LinkClosesLaw
    <2> SUFFICES ASSUME NEW x \in Channels, NEW y \in Channels, NEW q \in Seq(Frames),
                        NEW d \in Seq(Frames), NEW c \in Ids, NEW there,
                        Link(x, y, q, d, TRUE, there, c), q # <<>>, Head(q) \in Lasts(c),
                        x.task = "none" => ~x.entry
                 PROVE  Link(IF x.entry THEN Dropped(Delivered(x, "close")) ELSE x,
                             y, Tail(q), d, TRUE, there, c)
      BY Zenon DEF LinkClosesLaw
    <2> QED BY Zenon, LinkCloses
  <1>22. LinkStopsLaw BY Zenon, LinkStops DEF LinkStopsLaw
  <1>23. LinkLeavesLaw BY Zenon, LinkLeaves DEF LinkLeavesLaw
  <1>24. LinkPumpsLaw BY Zenon, LinkPumps DEF LinkPumpsLaw
  <1>25. OverLaw BY Ends1 DEF OverLaw
  <1>26. ItemsLaw BY Zenon, Items DEF ItemsLaw
  <1>27. HeadKnownLaw BY Zenon, HeadKnown DEF HeadKnownLaw
  <1>28. InvariantLaw BY InitInv, StepInv DEF InvariantLaw
  <1> QED BY <1>1, <1>2, <1>3, <1>4, <1>5, <1>6, <1>7, <1>8, <1>9, <1>10, <1>11, <1>12,
            <1>13, <1>14, <1>15, <1>16, <1>17, <1>18, <1>19, <1>20, <1>21, <1>22, <1>23, <1>24,
            <1>25, <1>26, <1>27, <1>28
    DEF LinkLaws

\* Every behaviour of the two demultiplexers, their queues and their channel
\* tasks is one the promise allows: nothing is written to a socket that the
\* other end did not send, in order and once; the controlled end starts after
\* the controller's; and whoever reads the peer's close or refusal
\* (relay_tunnel_to_socket's PeerClosed) has written all that the peer sent,
\* whatever is lost when a loop breaks, a channel is dropped or a task ends.
THEOREM MuxImplementsChannel == Spec => ImplementsChannel
  <1>1. Init => RInv /\ Channel!Init BY LawsHold, InitRefines
  <1>2. RInv /\ [Next]_vars => RInv' /\ [Channel!Next]_(Channel!chanVars) BY LawsHold, StepRefines
  <1> QED BY <1>1, <1>2, PTL DEF Spec, ImplementsChannel, Channel!Spec

\* What the two users of a channel see at any time.
AKept == Kept(AState, ASent, AReceived, AClosed)

LEMMA SeenTypes ==
    ASSUME IInv
    PROVE  /\ AState \in Table({"idle", "open", "ended"}) /\ AClosed \in Table(BOOLEAN)
           /\ ASent \in Table(Nat) /\ AReceived \in Table(Nat)
  <1>1. \A s \in Side, c \in Ids : ch[s][c].sent \in Nat /\ ch[s][c].written \in Nat
    BY StateTypes DEF Channels
  <1>2. \A s \in Side, c \in Ids :
            /\ Seen(ch[s][c].task) \in {"idle", "open", "ended"}
            /\ (ch[s][c].down = "PeerClosed") \in BOOLEAN
    BY DEF Seen
  <1>3. AState \in Table({"idle", "open", "ended"}) BY Zenon, <1>2 DEF AState, Table
  <1>4. AClosed \in Table(BOOLEAN) BY Zenon, <1>2 DEF AClosed, Table
  <1>5. ASent \in Table(Nat) /\ AReceived \in Table(Nat) BY Zenon, <1>1 DEF ASent, AReceived, Table
  <1> QED BY <1>3, <1>4, <1>5

LEMMA PromiseStep == ASSUME IInv, AKept, Allowed PROVE AKept'
  <1>1. CASE UNCHANGED Channel!chanVars
    <2>1. AState' = AState /\ ASent' = ASent /\ AReceived' = AReceived /\ AClosed' = AClosed
      BY Zenon, <1>1 DEF Channel!chanVars, AState, ASent, AReceived, AClosed
    <2> QED BY Zenon, <2>1 DEF AKept
  <1>2. CASE Channel!Next
    <2>1. PICK s \in Side, c \in Ids :
              \/ Channel!Start(s, c) \/ Channel!Send(s, c) \/ Channel!Receive(s, c)
              \/ Channel!LearnClose(s, c) \/ Channel!End(s, c)
      BY Zenon, <1>2, SameSides DEF Channel!Next
    <2>2. Channel!Other(s) = Peer(s) BY Zenon, SameSides
    <2>3. CASE Channel!Start(s, c) \/ Channel!End(s, c)
      <3>1. /\ AState[s][c] # "ended" /\ \E v : AState' = [AState EXCEPT ![s][c] = v]
            /\ ASent' = ASent /\ AReceived' = AReceived /\ AClosed' = AClosed
        <4>1. CASE Channel!Start(s, c)
          BY <4>1 DEF Channel!Start, AState, ASent, AReceived, AClosed
        <4>2. CASE Channel!End(s, c)
          BY <4>2 DEF Channel!End, AState, ASent, AReceived, AClosed
        <4> QED BY <2>3, <4>1, <4>2
      <3>2. PICK v : AState' = [AState EXCEPT ![s][c] = v] BY Zenon, <3>1
      <3>3. Kept([AState EXCEPT ![s][c] = v], ASent, AReceived, AClosed)
        BY Zenon, <3>1, SeenTypes, KeptState DEF AKept
      <3> QED BY Zenon, <3>1, <3>2, <3>3 DEF AKept
    <2>4. CASE Channel!Send(s, c)
      <3>1. /\ AState[s][c] # "ended" /\ ASent' = [ASent EXCEPT ![s][c] = @ + 1]
            /\ AState' = AState /\ AReceived' = AReceived /\ AClosed' = AClosed
        BY <2>4 DEF Channel!Send, AState, ASent, AReceived, AClosed
      <3> QED BY Zenon, <3>1, SeenTypes, KeptSend DEF AKept
    <2>5. CASE Channel!Receive(s, c)
      <3>1. /\ ~AClosed[s][c] /\ AReceived[s][c] < ASent[Peer(s)][c]
            /\ AReceived' = [AReceived EXCEPT ![s][c] = @ + 1]
            /\ AState' = AState /\ ASent' = ASent /\ AClosed' = AClosed
        BY Zenon, <2>2, <2>5 DEF Channel!Receive, AState, ASent, AReceived, AClosed
      <3> QED BY Zenon, <3>1, SeenTypes, KeptReceive DEF AKept
    <2>6. CASE Channel!LearnClose(s, c)
      <3>1. /\ AReceived[s][c] = ASent[Peer(s)][c] /\ AState[Peer(s)][c] = "ended"
            /\ AClosed' = [AClosed EXCEPT ![s][c] = TRUE]
            /\ AState' = AState /\ ASent' = ASent /\ AReceived' = AReceived
        BY Zenon, <2>2, <2>6 DEF Channel!LearnClose, AState, ASent, AReceived, AClosed
      <3> QED BY Zenon, <3>1, SeenTypes, KeptClose DEF AKept
    <2> QED BY Zenon, <2>1, <2>3, <2>4, <2>5, <2>6
  <1> QED BY Zenon, <1>1, <1>2 DEF Allowed

\* No end has written more frames to its socket than the other end sent, and
\* an end that left with PeerClosed has written every one of them; the sender
\* is over and will send no more.
StreamsComplete ==
    \A s \in Side, c \in Ids :
        /\ ch[s][c].written <= ch[Peer(s)][c].sent
        /\ ch[s][c].down = "PeerClosed" =>
               ch[s][c].written = ch[Peer(s)][c].sent /\ ch[Peer(s)][c].task = "done"

\* What the refinement is worth to the users of a forwarded port: a close that
\* relay_tunnel_to_socket reports as the peer's (PeerClosed) cuts nothing off,
\* in either direction, at any later time.
THEOREM MuxStreamsComplete == Spec => []StreamsComplete
  <1>1. Init => RInv /\ AKept
    <2> SUFFICES ASSUME Init PROVE RInv /\ AKept OBVIOUS
    <2>1. RInv BY LawsHold, InitRefines
    <2>2. \A s \in Side, c \in Ids : ch[s][c] = NoChannel BY DEF Init
    <2>3. \A s \in Side, c \in Ids :
              AReceived[s][c] = 0 /\ ASent[s][c] = 0 /\ ~AClosed[s][c]
      BY <2>2, NoChannelFacts DEF AReceived, ASent, AClosed
    <2>4. AKept BY <2>3, PeerFacts DEF AKept, Kept
    <2> QED BY <2>1, <2>4
  <1>2. RInv /\ AKept /\ [Next]_vars => RInv' /\ AKept'
    <2> SUFFICES ASSUME RInv, AKept, [Next]_vars PROVE RInv' /\ AKept' OBVIOUS
    <2>1. RInv' /\ Allowed BY LawsHold, StepRefines DEF Allowed
    <2>2. IInv BY DEF RInv
    <2> QED BY Zenon, <2>1, <2>2, PromiseStep
  <1>3. RInv /\ AKept => StreamsComplete
    <2> SUFFICES ASSUME RInv, AKept, NEW s \in Side, NEW c \in Ids
                 PROVE  /\ ch[s][c].written <= ch[Peer(s)][c].sent
                        /\ ch[s][c].down = "PeerClosed" =>
                               ch[s][c].written = ch[Peer(s)][c].sent /\ ch[Peer(s)][c].task = "done"
      BY Zenon DEF StreamsComplete
    <2>1. Peer(s) \in Side BY PeerFacts
    <2>2. /\ AReceived[s][c] = ch[s][c].written /\ ASent[Peer(s)][c] = ch[Peer(s)][c].sent
          /\ AClosed[s][c] = (ch[s][c].down = "PeerClosed")
          /\ AState[Peer(s)][c] = Seen(ch[Peer(s)][c].task)
      BY <2>1 DEF AReceived, ASent, AClosed, AState
    <2>3. \A k : Seen(k) = "ended" => k = "done" BY DEF Seen
    <2> QED BY Zenon, <2>2, <2>3 DEF AKept, Kept
  <1> QED BY <1>1, <1>2, <1>3, PTL DEF Spec
=============================================================================
