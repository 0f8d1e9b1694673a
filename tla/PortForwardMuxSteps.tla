------------------------- MODULE PortForwardMuxSteps -------------------------
(* The multiplexed tunnel implements the channels it promises                *)
(* (ForwardedChannel), for any number of channels and frames and any length  *)
(* of the queues.                                                            *)
(*                                                                           *)
(* What has to be shown is that an end never writes a frame that was not     *)
(* sent, and that an end that reads the peer's close has written all that    *)
(* was.  Frames are therefore counted on their way.  Seen from one receiving *)
(* end of a channel (Link), the frames it took and those still coming are at *)
(* most the frames sent, and exactly those as long as it listens and nothing *)
(* was thrown away; a closing frame comes last; and once it is in the        *)
(* receiver's queue the exact count is in.                                   *)
EXTENDS PortForwardMuxInvariant, TLAPS

Count(q, e) == Cardinality({i \in 1..Len(q) : q[i] = e})
Meets(q, E) == \E i \in 1..Len(q) : q[i] \in E

\* No e stands behind an element of E.
Tidy(q, E, e) == \A i, j \in 1..Len(q) : i < j /\ q[i] \in E => q[j] # e

Data(c) == Frame("data", c)
Lasts(c) == {Frame("close", c), Frame("refused", c)}

\* The frames an end has had from the other, written or not.
Taken(x) == x.written + x.pending + Count(x.inbox, "data")

\* An end that no frame passes by: it has not been announced yet, or is in the
\* map and reads.
Listens(x) == x.task = "none" \/ (x.entry /\ InboxOpen(x))

\* Nothing follows a closing frame, and its sender is through.
Ordered(y, q, d, c) ==
    /\ Tidy(q, Lasts(c), Data(c)) /\ Tidy(d, Lasts(c), Data(c))
    /\ Meets(q, Lasts(c)) => Count(d, Data(c)) = 0
    /\ Meets(q, Lasts(c)) \/ Meets(d, Lasts(c)) => y.task = "done"

\* Receiving end x, sending end y, the frames on the stream (q) and before it
\* (d); run: the receiver's loop reads, there: the sender's has not returned.
Counted(x, y, q, d, run, there, c) ==
    LET way == Count(q, Data(c)) + Count(d, Data(c)) IN
    /\ Taken(x) + way <= y.sent
    /\ run /\ Listens(x) /\ (there \/ Meets(q, Lasts(c))) => Taken(x) + way = y.sent

\* A close in the receiver's queue is the last item and says the truth.
Closed(x, y) ==
    /\ Tidy(x.inbox, {"close"}, "data")
    /\ InboxOpen(x) /\ Meets(x.inbox, {"close"}) =>
            ~x.entry /\ Taken(x) = y.sent /\ y.task = "done"

Link(x, y, q, d, run, there, c) ==
    Ordered(y, q, d, c) /\ Counted(x, y, q, d, run, there, c) /\ Closed(x, y)

Behind(t) == IF t = "srv" THEN dataQ ELSE <<>>

Links ==
    \A t \in Side, c \in Ids :
        Link(ch[t][c], ch[Peer(t)][c], stream[t], Behind(t), loop[t] = "run",
             loop[Peer(t)] # "gone", c)

\* x: the controlled end, y: the controller's.  One `open', before x starts.
Once(x, y, q, d, c) ==
    LET opens == Count(q, Frame("open", c)) + Count(d, Frame("open", c)) IN
    /\ opens <= 1
    /\ x.task # "none" => opens = 0 /\ y.task \notin {"none", "opening"}
    /\ y.task \in {"none", "opening"} => opens = 0

OpensOnce == \A c \in Ids : Once(ch["srv"][c], ch["ctl"][c], stream["srv"], dataQ, c)

Fresh == \A c \in Ids : c >= nextId => ch["ctl"][c].task = "none"
Blank == \A s \in Side, c \in Ids : ch[s][c].task = "none" => ch[s][c] = NoChannel
CtrlUpdates == \A i \in 1..Len(ctrlQ) : ctrlQ[i].kind = "update"

Rest == Links /\ OpensOnce /\ Fresh /\ Blank /\ CtrlUpdates
RInv == IInv /\ Rest


-----------------------------------------------------------------------------
(* What the steps below rely on, of queues and of one receiving end.  These  *)
(* laws speak of no state; PortForwardMuxRefinement proves them (LawsHold).  *)

Payloads == {"data", "close", "violation"}

\* Two queues that are the same to channel c.
Alike(q, r, c) ==
    /\ Count(r, Data(c)) = Count(q, Data(c))
    /\ Meets(r, Lasts(c)) <=> Meets(q, Lasts(c))
    /\ Tidy(q, Lasts(c), Data(c)) => Tidy(r, Lasts(c), Data(c))
SameOpens(q, r, c) == Count(r, Frame("open", c)) = Count(q, Frame("open", c))

\* A frame that is no data and closes nothing, or is another channel's.
Idle(f, c) == f # Data(c) /\ f \notin Lasts(c)

\* The receiver does no more than use up what it has, or stop listening.
Milder(x, z) ==
    /\ Taken(z) <= Taken(x)
    /\ Listens(z) => Listens(x) /\ Taken(z) = Taken(x)
    /\ Tidy(z.inbox, {"close"}, "data")
    /\ InboxOpen(z) /\ Meets(z.inbox, {"close"}) =>
            /\ InboxOpen(x) /\ Meets(x.inbox, {"close"})
            /\ Taken(z) = Taken(x) /\ (z.entry => x.entry)

\* The sender goes on, or ends.
Stays(y, z) == z.sent = y.sent /\ (y.task = "done" => z.task = "done")

CountFiniteLaw == \A S, e : \A q \in Seq(S) : Count(q, e) \in Nat
CountEmptyLaw == \A e : Count(<<>>, e) = 0
CountZeroLaw ==
    \A S, e : \A q \in Seq(S) : Count(q, e) = 0 <=> \A i \in 1..Len(q) : q[i] # e
CountAppendLaw ==
    \A S, e : \A q \in Seq(S), f \in S :
        Count(Append(q, f), e) = IF f = e THEN Count(q, e) + 1 ELSE Count(q, e)
CountTailLaw ==
    \A S, e : \A q \in Seq(S) : q # <<>> =>
        Count(q, e) = IF Head(q) = e THEN Count(Tail(q), e) + 1 ELSE Count(Tail(q), e)
MeetsEmptyLaw == \A E : ~Meets(<<>>, E)
MeetsAppendLaw ==
    \A S, E : \A q \in Seq(S), f \in S : Meets(Append(q, f), E) <=> Meets(q, E) \/ f \in E
MeetsTailLaw ==
    \A S, E : \A q \in Seq(S) : q # <<>> =>
        (Meets(q, E) <=> Head(q) \in E \/ Meets(Tail(q), E))
TidyEmptyLaw == \A E, e : Tidy(<<>>, E, e)
TidyAppendLaw ==
    \A S, E, e : \A q \in Seq(S), f \in S :
        Tidy(q, E, e) /\ (f = e => ~Meets(q, E)) => Tidy(Append(q, f), E, e)
TidyTailLaw ==
    \A S, E, e : \A q \in Seq(S) : q # <<>> /\ Tidy(q, E, e) =>
        Tidy(Tail(q), E, e) /\ (Head(q) \in E => Count(Tail(q), e) = 0)
TakenNatLaw ==
    \A x \in Channels :
        /\ Taken(x) \in Nat /\ Count(x.inbox, "data") \in Nat /\ x.sent \in Nat
        /\ x.inbox \in Seq(Payloads) /\ x.pending \in Nat /\ x.written \in Nat
AlikeAppendLaw ==
    \A q \in Seq(Frames), f \in Frames : \A c :
        /\ Idle(f, c) => Alike(q, Append(q, f), c)
        /\ f # Frame("open", c) => SameOpens(q, Append(q, f), c)
AlikeTailLaw ==
    \A q \in Seq(Frames) : \A c : q # <<>> =>
        /\ Idle(Head(q), c) => Alike(q, Tail(q), c)
        /\ Head(q) # Frame("open", c) => SameOpens(q, Tail(q), c)

\* Queues alike make no difference.
LinkAlikeLaw ==
    \A x, y, q, d, r, e, run, there, c :
        Link(x, y, q, d, run, there, c) /\ Alike(q, r, c) /\ Alike(d, e, c) =>
            Link(x, y, r, e, run, there, c)
LinkMilderLaw ==
    \A x, z, y \in Channels, q, d \in Seq(Frames) : \A run, there, c :
        Link(x, y, q, d, run, there, c) /\ Milder(x, z) => Link(z, y, q, d, run, there, c)
LinkSenderLaw ==
    \A x, y, z, q, d, run, there, c :
        Link(x, y, q, d, run, there, c) /\ Stays(y, z) => Link(x, z, q, d, run, there, c)

\* One more data frame is sent; on its way to a loop that reads no more it is
\* lost.
LinkDataLaw ==
    \A x, y, z \in Channels, q, d \in Seq(Frames), c \in Ids : \A r, e, run, there :
        /\ Link(x, y, q, d, run, there, c) /\ y.task # "done" /\ z.sent = y.sent + 1
        /\ \/ r = q /\ e = Append(d, Data(c))
           \/ d = <<>> /\ e = <<>> /\ r = Append(q, Data(c))
           \/ d = <<>> /\ e = <<>> /\ r = q /\ ~run
        => Link(x, z, r, e, run, there, c)

\* f is sent: it joins the ordered queue d, or goes straight to the stream q,
\* or is lost with it.
SentOn(q, d, r, e, f) ==
    \/ r = q /\ e = Append(d, f)
    \/ d = <<>> /\ e = <<>> /\ r = Append(q, f)
    \/ d = <<>> /\ e = <<>> /\ r = q

Quits(y, z) == z.task = "done" /\ z.sent = y.sent

\* The sender's last frame.
LinkLastLaw ==
    \A q, d \in Seq(Frames), c \in Ids : \A f, x, y, z, r, e, run :
        /\ Link(x, y, q, d, run, TRUE, c) /\ Quits(y, z)
        /\ f \in Lasts(c) /\ SentOn(q, d, r, e, f)
        => Link(x, z, r, e, run, TRUE, c)

\* A data frame arrives: it is taken, or the end listens no more.
LinkArrivesLaw ==
    \A x, z, y \in Channels, q, d \in Seq(Frames), c \in Ids : \A run, there :
        /\ Link(x, y, q, d, run, there, c) /\ q # <<>> /\ Head(q) = Data(c)
        /\ Taken(z) <= Taken(x) + 1
        /\ Listens(z) => Listens(x) /\ Taken(z) = Taken(x) + 1
        /\ Tidy(z.inbox, {"close"}, "data")
        /\ InboxOpen(z) /\ Meets(z.inbox, {"close"}) =>
                /\ InboxOpen(x) /\ Meets(x.inbox, {"close"})
                /\ Taken(z) = Taken(x) /\ (z.entry => x.entry)
        => Link(z, y, Tail(q), d, run, there, c)

\* A closing frame arrives: nothing is behind it, so that an end that listens
\* has had everything.
LinkClosesLaw ==
    \A x, y \in Channels, q, d \in Seq(Frames), c \in Ids : \A there :
        /\ Link(x, y, q, d, TRUE, there, c) /\ q # <<>> /\ Head(q) \in Lasts(c)
        /\ x.task = "none" => ~x.entry
        => Link(IF x.entry THEN Dropped(Delivered(x, "close")) ELSE x,
                y, Tail(q), d, TRUE, there, c)

\* The receiver's loop breaks.
LinkStopsLaw ==
    \A x, y \in Channels, q, d \in Seq(Frames) : \A run, there, c :
        Link(x, y, q, d, run, there, c) => Link(x, y, <<>>, d, FALSE, there, c)

\* The sender's loop returns and drops what is queued.
LinkLeavesLaw ==
    \A x, y \in Channels, q, d \in Seq(Frames) : \A run, there, c :
        Link(x, y, q, d, run, there, c) => Link(x, y, q, <<>>, run, FALSE, c)

\* A frame goes from the sender's queue to the stream, or is lost.
LinkPumpsLaw ==
    \A x, y \in Channels, q, d \in Seq(Frames) : \A run, c :
        Link(x, y, q, d, run, TRUE, c) /\ d # <<>> =>
            /\ Link(x, y, Append(q, Head(d)), Tail(d), run, TRUE, c)
            /\ ~run => Link(x, y, q, Tail(d), run, TRUE, c)

\* What PortForwardMuxProofs shows of the ends of a channel and of IInv.
OverLaw ==
    \A x \in Channels, s \in Side :
        /\ Over(s, x) \in Channels /\ Over(s, x).task = "done"
        /\ Dropped(x) \in Channels /\ Dropped(x).task = x.task /\ ~Dropped(x).entry

ItemsLaw ==
    \A x \in Channels :
        /\ \A i \in {"data", "close", "violation"} : Delivered(x, i) \in Channels
        /\ HasChunk(x) => /\ TakeChunk(x) \in Channels
                          /\ TakeChunk(x).task = x.task /\ TakeChunk(x).entry = x.entry
        /\ ~HasChunk(x) => InboxEnd(x) \in Ends

HeadKnownLaw ==
    \A s \in Side, c \in Ids : \A k :
        IInv /\ Arrives(s, k, c) /\ k # "open" => Known(ch, c)

InvariantLaw == (Init => IInv) /\ (IInv /\ [Next]_vars => IInv')

LinkLaws ==
    /\ OverLaw /\ ItemsLaw /\ HeadKnownLaw /\ InvariantLaw
    /\ CountFiniteLaw /\ CountEmptyLaw /\ CountZeroLaw /\ CountAppendLaw /\ CountTailLaw
    /\ MeetsEmptyLaw /\ MeetsAppendLaw /\ MeetsTailLaw
    /\ TidyEmptyLaw /\ TidyAppendLaw /\ TidyTailLaw
    /\ TakenNatLaw /\ AlikeAppendLaw /\ AlikeTailLaw
    /\ LinkAlikeLaw /\ LinkMilderLaw /\ LinkSenderLaw /\ LinkDataLaw /\ LinkLastLaw
    /\ LinkArrivesLaw /\ LinkClosesLaw /\ LinkStopsLaw /\ LinkLeavesLaw /\ LinkPumpsLaw

LEMMA BothSides == "ctl" \in Side /\ "srv" \in Side /\ \A s \in Side : s = "ctl" \/ s = "srv"
  BY DEF Side

LEMMA FrameFacts ==
    /\ \A c \in Ids : /\ Data(c) \in Frames /\ Lasts(c) \subseteq Frames
                      /\ Data(c) \notin Lasts(c) /\ Frame("open", c) # Data(c)
                      /\ Frame("open", c) \notin Lasts(c) /\ Frame("open", c) \in Frames
    /\ \A k, l, c, d : Frame(k, c) = Frame(l, d) <=> k = l /\ c = d
    /\ \A f \in Frames : f = Frame(f.kind, f.id)
  BY DEF Frames, Frame, Data, Lasts

-----------------------------------------------------------------------------
(* What a step does to all ends and queues.                                  *)

QueuesAlike ==
    \A t \in Side, e \in Ids :
        Alike(stream[t], stream'[t], e) /\ Alike(Behind(t), Behind(t)', e)
OpensAlike ==
    \A e \in Ids : SameOpens(stream["srv"], stream'["srv"], e) /\ SameOpens(dataQ, dataQ', e)

LEMMA PeerFacts ==
    \A s \in Side : /\ Peer(s) \in Side /\ Peer(s) # s /\ Peer(Peer(s)) = s
                    /\ \A t \in Side : t = s \/ t = Peer(s)
  BY DEF Side, Peer

LEMMA StateTypes ==
    ASSUME IInv
    PROVE  /\ \A t \in Side, c \in Ids : ch[t][c] \in Channels
           /\ \A t \in Side : stream[t] \in Seq(Frames) /\ Behind(t) \in Seq(Frames)
  <1>1. <<>> \in Seq(Frames) OBVIOUS
  <1> QED BY <1>1 DEF IInv, Types, Behind

LEMMA LinkOf ==
    ASSUME RInv, NEW s \in Side, NEW c \in Ids
    PROVE  /\ Link(ch[s][c], ch[Peer(s)][c], stream[s], Behind(s), loop[s] = "run",
                   loop[Peer(s)] # "gone", c)
           /\ Link(ch[Peer(s)][c], ch[s][c], stream[Peer(s)], Behind(Peer(s)),
                   loop[Peer(s)] = "run", loop[s] # "gone", c)
           /\ Tidy(ch[s][c].inbox, {"close"}, "data")
  <1>1. Links BY DEF RInv, Rest
  <1>2. Peer(s) \in Side /\ Peer(Peer(s)) = s BY PeerFacts
  <1>3. Link(ch[s][c], ch[Peer(s)][c], stream[s], Behind(s), loop[s] = "run",
             loop[Peer(s)] # "gone", c)
    BY <1>1, Zenon DEF Links
  <1>4. Link(ch[Peer(s)][c], ch[Peer(Peer(s))][c], stream[Peer(s)], Behind(Peer(s)),
             loop[Peer(s)] = "run", loop[Peer(Peer(s))] # "gone", c)
    BY <1>1, <1>2, Zenon DEF Links
  <1>5. Tidy(ch[s][c].inbox, {"close"}, "data") BY <1>3, Zenon DEF Link, Closed
  <1> QED BY <1>2, <1>3, <1>4, <1>5, Zenon

\* One end of one channel changes: its two directions have to be looked at.
LEMMA LinksBy ==
    ASSUME LinkLaws, RInv, NEW s \in Side, NEW c \in Ids, NEW z,
           ch' = [ch EXCEPT ![s][c] = z], loop' = loop,
           Link(z, ch[Peer(s)][c], stream'[s], Behind(s)', loop[s] = "run",
                loop[Peer(s)] # "gone", c),
           Link(ch[Peer(s)][c], z, stream'[Peer(s)], Behind(Peer(s))', loop[Peer(s)] = "run",
                loop[s] # "gone", c),
           \A t \in Side, e \in Ids : e # c =>
                Alike(stream[t], stream'[t], e) /\ Alike(Behind(t), Behind(t)', e)
    PROVE  Links'
  <1> SUFFICES ASSUME NEW t \in Side, NEW e \in Ids
               PROVE  Link(ch'[t][e], ch'[Peer(t)][e], stream'[t], Behind(t)', loop[t] = "run",
                           loop[Peer(t)] # "gone", e)
    BY DEF Links
  <1>1. \A u \in Side, d \in Ids : ch'[u][d] = IF u = s /\ d = c THEN z ELSE ch[u][d]
    BY DEF RInv, IInv, Types
  <1>2. CASE e # c
    <2>1. ch'[t][e] = ch[t][e] /\ ch'[Peer(t)][e] = ch[Peer(t)][e]
      BY <1>1, <1>2, PeerFacts
    <2>2. Link(ch[t][e], ch[Peer(t)][e], stream[t], Behind(t), loop[t] = "run",
               loop[Peer(t)] # "gone", e)
      BY LinkOf
    <2>3. Link(ch[t][e], ch[Peer(t)][e], stream'[t], Behind(t)', loop[t] = "run",
               loop[Peer(t)] # "gone", e)
      BY <1>2, <2>2 DEF LinkLaws, LinkAlikeLaw
    <2> QED BY <2>1, <2>3
  <1>3. CASE e = c /\ t = s
    <2>1. ch'[t][e] = z /\ ch'[Peer(t)][e] = ch[Peer(s)][c] BY <1>1, <1>3, PeerFacts
    <2> QED BY <2>1, <1>3
  <1>4. CASE e = c /\ t = Peer(s)
    <2>1. ch'[t][e] = ch[Peer(s)][c] /\ ch'[Peer(t)][e] = z /\ Peer(t) = s
      BY <1>1, <1>4, PeerFacts
    <2> QED BY <2>1, <1>4
  <1> QED BY <1>2, <1>3, <1>4, PeerFacts

LEMMA RestBy ==
    ASSUME RInv, NEW s \in Side, NEW c \in Ids, NEW z,
           ch' = [ch EXCEPT ![s][c] = z], nextId' = nextId, OpensAlike,
           ch[s][c].task # "none", z.task # "none",
           z.task = "opening" => ch[s][c].task = "opening"
    PROVE  OpensOnce' /\ Fresh' /\ Blank'
  <1>1. \A u \in Side, d \in Ids : ch'[u][d] = IF u = s /\ d = c THEN z ELSE ch[u][d]
    BY DEF RInv, IInv, Types
  <1>2. Fresh' BY <1>1, BothSides DEF RInv, Rest, Fresh
  <1>3. Blank' BY <1>1 DEF RInv, Rest, Blank
  <1>4. ASSUME NEW e \in Ids
        PROVE  Once(ch'["srv"][e], ch'["ctl"][e], stream'["srv"], dataQ', e)
    <2>1. Once(ch["srv"][e], ch["ctl"][e], stream["srv"], dataQ, e)
      BY DEF RInv, Rest, OpensOnce
    <2>2. /\ Count(stream'["srv"], Frame("open", e)) = Count(stream["srv"], Frame("open", e))
          /\ Count(dataQ', Frame("open", e)) = Count(dataQ, Frame("open", e))
      BY DEF OpensAlike, SameOpens
    <2>3. /\ ch'["srv"][e].task # "none" => ch["srv"][e].task # "none"
          /\ ch'["ctl"][e].task \in {"none", "opening"} => ch["ctl"][e].task \in {"none", "opening"}
      BY <1>1, BothSides
    <2> QED BY <2>1, <2>2, <2>3 DEF Once
  <1> QED BY <1>2, <1>3, <1>4 DEF OpensOnce

LEMMA MeetsOther ==
    ASSUME LinkLaws, NEW S, NEW E, NEW q \in Seq(S), NEW f \in S, f \notin E
    PROVE  Meets(Append(q, f), E) <=> Meets(q, E)
  <1>1. Meets(Append(q, f), E) <=> Meets(q, E) \/ f \in E BY DEF LinkLaws, MeetsAppendLaw
  <1> QED BY <1>1

LEMMA CountedNone ==
    ASSUME NEW x, NEW y, NEW q, NEW d, NEW run, NEW there, NEW c,
           Taken(x) = 0, y.sent = 0, Count(q, Data(c)) = 0, Count(d, Data(c)) = 0
    PROVE  Counted(x, y, q, d, run, there, c)
  BY DEF Counted

\* `open's get lost or wander from the queue to the stream, and none is added.
LEMMA OnceFewer ==
    ASSUME NEW x, NEW y, NEW v, NEW w, NEW q, NEW d, NEW r, NEW b, NEW c, Once(x, y, q, d, c),
           v.task = x.task, w.task = y.task,
           Count(q, Frame("open", c)) + Count(d, Frame("open", c)) \in Nat,
           Count(r, Frame("open", c)) + Count(b, Frame("open", c)) \in Nat,
           Count(r, Frame("open", c)) + Count(b, Frame("open", c))
               <= Count(q, Frame("open", c)) + Count(d, Frame("open", c))
    PROVE  Once(v, w, r, b, c)
  BY DEF Once

LEMMA OnceNone ==
    ASSUME NEW x, NEW y, NEW q, NEW d, NEW c, Count(q, Frame("open", c)) + Count(d, Frame("open", c)) = 0,
           y.task \notin {"none", "opening"} \/ x.task = "none"
    PROVE  Once(x, y, q, d, c)
  BY DEF Once

Shrunk(r, q) == r = q \/ r = <<>>

LEMMA OnceTasks ==
    ASSUME NEW x, NEW y, NEW v, NEW w, NEW q, NEW d, NEW c, Once(x, y, q, d, c),
           v.task = x.task, w.task = y.task
    PROVE  Once(v, w, q, d, c)
  BY DEF Once

LEMMA OnceLost ==
    ASSUME LinkLaws, NEW x, NEW y, NEW q \in Seq(Frames), NEW d \in Seq(Frames), NEW r, NEW b, NEW c,
           Once(x, y, q, d, c), Shrunk(r, q), Shrunk(b, d)
    PROVE  Once(x, y, r, b, c)
  <1> DEFINE g == Frame("open", c)
  <1>1. Count(q, g) \in Nat /\ Count(d, g) \in Nat /\ Count(<<>>, g) = 0
    BY DEF LinkLaws, CountFiniteLaw, CountEmptyLaw
  <1>2. /\ Count(r, g) = Count(q, g) \/ Count(r, g) = 0
        /\ Count(b, g) = Count(d, g) \/ Count(b, g) = 0
    BY Zenon, <1>1 DEF Shrunk
  <1>3. /\ Count(q, g) + Count(d, g) \in Nat /\ Count(r, g) + Count(b, g) \in Nat
        /\ Count(r, g) + Count(b, g) <= Count(q, g) + Count(d, g)
    <2> HIDE DEF g
    <2> QED BY <1>1, <1>2
  <1> QED BY Zenon, <1>3, OnceFewer

\* The step of a task that sends nothing the channels count.
LEMMA MildLinks ==
    ASSUME LinkLaws, RInv, NEW s \in Side, NEW c \in Ids, NEW z \in Channels,
           ch' = [ch EXCEPT ![s][c] = z], loop' = loop, QueuesAlike,
           Milder(ch[s][c], z), Stays(ch[s][c], z)
    PROVE  Links'
  <1> DEFINE x == ch[s][c]
             y == ch[Peer(s)][c]
             p == Peer(s)
  <1>1. /\ x \in Channels /\ y \in Channels
        /\ \A t \in Side : stream[t] \in Seq(Frames) /\ Behind(t) \in Seq(Frames)
    BY PeerFacts, StateTypes DEF RInv
  <1>2. /\ Alike(stream[s], stream'[s], c) /\ Alike(Behind(s), Behind(s)', c)
        /\ Alike(stream[p], stream'[p], c) /\ Alike(Behind(p), Behind(p)', c)
    BY PeerFacts DEF QueuesAlike
  <1>3. Link(z, y, stream[s], Behind(s), loop[s] = "run", loop[p] # "gone", c)
    BY <1>1, LinkOf DEF LinkLaws, LinkMilderLaw
  <1>4. Link(z, y, stream'[s], Behind(s)', loop[s] = "run", loop[p] # "gone", c)
    BY <1>2, <1>3 DEF LinkLaws, LinkAlikeLaw
  <1>5. Link(y, z, stream[p], Behind(p), loop[p] = "run", loop[s] # "gone", c)
    BY LinkOf DEF LinkLaws, LinkSenderLaw
  <1>6. Link(y, z, stream'[p], Behind(p)', loop[p] = "run", loop[s] # "gone", c)
    BY <1>2, <1>5 DEF LinkLaws, LinkAlikeLaw
  <1> QED BY Zenon, <1>4, <1>6, LinksBy DEF QueuesAlike

LEMMA MildStep ==
    ASSUME LinkLaws, RInv, NEW s \in Side, NEW c \in Ids, NEW z \in Channels,
           ch' = [ch EXCEPT ![s][c] = z], loop' = loop, nextId' = nextId,
           QueuesAlike, OpensAlike, CtrlUpdates',
           Milder(ch[s][c], z), Stays(ch[s][c], z),
           ch[s][c].task # "none", z.task # "none",
           z.task = "opening" => ch[s][c].task = "opening"
    PROVE  Rest'
  BY Zenon, MildLinks, RestBy DEF Rest

LEMMA AlikeSame == \A q, c : Alike(q, q, c) /\ SameOpens(q, q, c)
  BY DEF Alike, SameOpens

LEMMA SameQueues ==
    ASSUME UNCHANGED <<dataQ, stream>> PROVE QueuesAlike /\ OpensAlike
  BY AlikeSame DEF QueuesAlike, OpensAlike, Behind

\* A frame that is neither open, data nor closing.
LEMMA IdleFrames ==
    \A c \in Ids, k \in {"update", "opened"} :
        /\ Frame(k, c) \in Frames
        /\ \A e : Idle(Frame(k, c), e) /\ Frame(k, c) # Frame("open", e)
  BY FrameFacts DEF Idle, Data, Lasts, Frames, Frame

LEMMA IdleToCtl ==
    ASSUME LinkLaws, IInv, NEW c \in Ids, NEW k \in {"update", "opened"},
           stream' = Sent("ctl", Frame(k, c)), dataQ' = dataQ
    PROVE  QueuesAlike /\ OpensAlike
  <1> DEFINE f == Frame(k, c)
  <1>1. f \in Frames /\ \A e : Idle(f, e) BY IdleFrames
  <1>2. /\ stream'["srv"] = stream["srv"]
        /\ stream'["ctl"] = stream["ctl"] \/ stream'["ctl"] = Append(stream["ctl"], f)
    BY BothSides DEF Sent, IInv, Types
  <1> HIDE DEF f
  <1>3. stream["ctl"] \in Seq(Frames) BY BothSides, StateTypes
  <1>4. \A e \in Ids : Alike(stream["ctl"], stream'["ctl"], e)
    BY Zenon, <1>1, <1>2, <1>3, AlikeSame DEF LinkLaws, AlikeAppendLaw
  <1>5. \A t \in Side : Behind(t)' = Behind(t) BY DEF Behind
  <1>6. OpensAlike BY <1>2, AlikeSame DEF OpensAlike
  <1>7. QueuesAlike BY <1>2, <1>4, <1>5, BothSides, AlikeSame DEF QueuesAlike
  <1> QED BY <1>6, <1>7

LEMMA CtrlAppend ==
    ASSUME IInv, CtrlUpdates, NEW c \in Ids, ctrlQ' = Append(ctrlQ, Frame("update", c))
    PROVE  CtrlUpdates'
  <1> DEFINE f == Frame("update", c)
  <1>1. f \in Frames /\ f.kind = "update" /\ ctrlQ \in Seq(Frames)
    BY DEF Frame, Frames, IInv, Types
  <1>2. ctrlQ' = Append(ctrlQ, f) OBVIOUS
  <1> HIDE DEF f
  <1>3. /\ Len(ctrlQ') = Len(ctrlQ) + 1 /\ ctrlQ'[Len(ctrlQ) + 1] = f /\ Len(ctrlQ) \in Nat
        /\ \A i \in 1..Len(ctrlQ) : ctrlQ'[i] = ctrlQ[i]
    BY <1>1, <1>2
  <1> SUFFICES ASSUME NEW i \in 1..Len(ctrlQ') PROVE ctrlQ'[i].kind = "update"
    BY DEF CtrlUpdates
  <1>4. i = Len(ctrlQ) + 1 \/ i \in 1..Len(ctrlQ) BY <1>3
  <1> QED BY <1>1, <1>3, <1>4 DEF CtrlUpdates

-----------------------------------------------------------------------------
(* What the operators on one end do to it.                                   *)

LEMMA MilderSame ==
    ASSUME LinkLaws, NEW x \in Channels, NEW z \in Channels,
           z.inbox = x.inbox, z.pending = x.pending, z.written = x.written,
           z.entry => x.entry, InboxOpen(z) => InboxOpen(x), z.task # "none",
           Tidy(x.inbox, {"close"}, "data")
    PROVE  Milder(x, z)
  <1>1. Taken(z) = Taken(x) /\ Taken(x) \in Nat BY DEF Taken, LinkLaws, TakenNatLaw
  <1> QED BY <1>1 DEF Milder, Listens

LEMMA MilderOver ==
    ASSUME LinkLaws, NEW x \in Channels, NEW s \in Side
    PROVE  LET z == Over(s, x) IN
           /\ z \in Channels /\ Milder(x, z) /\ Stays(x, z) /\ z.task = "done"
           /\ z.written = x.written /\ z.down = x.down
  <1> DEFINE z == Over(s, x)
  <1>1. z \in Channels /\ z.task = "done" BY DEF LinkLaws, OverLaw
  <1>2. /\ z.inbox = <<>> /\ z.pending = 0 /\ z.written = x.written /\ z.sent = x.sent
        /\ z.down = x.down
    BY DEF Over, Dropped, Finished, Channels
  <1> HIDE DEF z
  <1>3. Count(z.inbox, "data") = 0 /\ ~Meets(z.inbox, {"close"})
        /\ Tidy(z.inbox, {"close"}, "data")
    BY <1>2 DEF LinkLaws, CountEmptyLaw, MeetsEmptyLaw, TidyEmptyLaw
  <1>4. Taken(z) <= Taken(x) BY <1>2, <1>3 DEF Taken, LinkLaws, TakenNatLaw
  <1>5. ~Listens(z) BY <1>1 DEF Listens, InboxOpen
  <1>6. Milder(x, z) BY <1>3, <1>4, <1>5 DEF Milder
  <1> QED BY <1>1, <1>2, <1>6 DEF Stays, z

\* A frame goes from the queue to the socket, to the buffer, or nowhere.
LEMMA TakeFirst ==
    ASSUME LinkLaws, NEW x \in Channels, NextItem(x) = "data", Tidy(x.inbox, {"close"}, "data")
    PROVE  /\ x.inbox # <<>> /\ Tail(x.inbox) \in Seq({"data", "close", "violation"})
           /\ Count(x.inbox, "data") = Count(Tail(x.inbox), "data") + 1
           /\ Count(Tail(x.inbox), "data") \in Nat
           /\ Meets(Tail(x.inbox), {"close"}) <=> Meets(x.inbox, {"close"})
           /\ Tidy(Tail(x.inbox), {"close"}, "data")
  <1>1. x.inbox # <<>> /\ Head(x.inbox) = "data" BY DEF NextItem
  <1>2. x.inbox \in Seq(Payloads) BY DEF LinkLaws, TakenNatLaw
  <1>3. Tail(x.inbox) \in Seq(Payloads) BY <1>1, <1>2
  <1>4. Count(x.inbox, "data") = Count(Tail(x.inbox), "data") + 1
    BY <1>1, <1>2 DEF LinkLaws, CountTailLaw
  <1>5. Meets(Tail(x.inbox), {"close"}) <=> Meets(x.inbox, {"close"})
    <2>1. Head(x.inbox) \notin {"close"} BY <1>1
    <2> QED BY <1>1, <1>2, <2>1 DEF LinkLaws, MeetsTailLaw
  <1>6. Tidy(Tail(x.inbox), {"close"}, "data") BY <1>1, <1>2 DEF LinkLaws, TidyTailLaw
  <1>7. Count(Tail(x.inbox), "data") \in Nat BY Zenon, <1>3 DEF LinkLaws, CountFiniteLaw
  <1> QED BY <1>1, <1>3, <1>4, <1>5, <1>6, <1>7 DEF Payloads

LEMMA ChunkTaken ==
    ASSUME LinkLaws, NEW x \in Channels, HasChunk(x), Tidy(x.inbox, {"close"}, "data")
    PROVE  LET z == TakeChunk(x) IN
           /\ z \in Channels /\ Taken(x) = Taken(z) + 1
           /\ z.entry = x.entry /\ z.task = x.task /\ z.down = x.down
           /\ z.sent = x.sent /\ z.written = x.written
           /\ Meets(z.inbox, {"close"}) <=> Meets(x.inbox, {"close"})
           /\ Tidy(z.inbox, {"close"}, "data")
  <1> DEFINE z == TakeChunk(x)
  <1>1. z \in Channels /\ z.task = x.task /\ z.entry = x.entry BY DEF LinkLaws, ItemsLaw
  <1>2. z.down = x.down /\ z.sent = x.sent /\ z.written = x.written
    BY DEF TakeChunk, Channels
  <1>3. CASE x.pending > 0
    <2>1. z = [x EXCEPT !.pending = @ - 1] BY <1>3 DEF TakeChunk
    <2>2. z.pending = x.pending - 1 /\ z.inbox = x.inbox BY <2>1 DEF Channels
    <2> HIDE DEF z
    <2>3. Taken(x) = Taken(z) + 1 BY <1>2, <2>2 DEF Taken, LinkLaws, TakenNatLaw
    <2> QED BY <1>1, <1>2, <2>2, <2>3 DEF z
  <1>4. CASE ~(x.pending > 0)
    <2>1. NextItem(x) = "data" BY <1>4 DEF HasChunk
    <2>2. z = [x EXCEPT !.inbox = Tail(@)] BY <1>4 DEF TakeChunk
    <2>3. z.pending = x.pending /\ z.inbox = Tail(x.inbox) BY <2>2 DEF Channels
    <2> HIDE DEF z
    <2>4. Count(x.inbox, "data") = Count(z.inbox, "data") + 1
          /\ (Meets(z.inbox, {"close"}) <=> Meets(x.inbox, {"close"}))
          /\ Tidy(z.inbox, {"close"}, "data") /\ Count(z.inbox, "data") \in Nat
      BY <2>1, <2>3, TakeFirst
    <2>5. Taken(x) = Taken(z) + 1 BY <1>2, <2>3, <2>4 DEF Taken, LinkLaws, TakenNatLaw
    <2> QED BY <1>1, <1>2, <2>4, <2>5 DEF z
  <1> QED BY <1>3, <1>4

-----------------------------------------------------------------------------
(* What one end's step is to the users of the channel.                       *)

Allowed == [Channel!Next]_(Channel!chanVars)

AState == [s \in Side |-> [c \in Ids |-> Seen(ch[s][c].task)]]
ASent == [s \in Side |-> [c \in Ids |-> ch[s][c].sent]]
AReceived == [s \in Side |-> [c \in Ids |-> ch[s][c].written]]
AClosed == [s \in Side |-> [c \in Ids |-> ch[s][c].down = "PeerClosed"]]

LEMMA SameSides == Side = Channel!Ends /\ \A s : Peer(s) = Channel!Other(s)
  BY DEF Side, Peer, Channel!Ends, Channel!Other

\* Two ends that their users cannot tell apart.
Twins(x, z) ==
    /\ Seen(z.task) = Seen(x.task) /\ z.sent = x.sent /\ z.written = x.written
    /\ z.down = "PeerClosed" <=> x.down = "PeerClosed"

LEMMA Stutters ==
    ASSUME \A t \in Side, e \in Ids : Twins(ch[t][e], ch'[t][e])
    PROVE  Allowed
  <1>1. AState' = AState BY DEF AState, Twins
  <1>2. ASent' = ASent BY DEF ASent, Twins
  <1>3. AReceived' = AReceived BY DEF AReceived, Twins
  <1>4. AClosed' = AClosed BY Zenon DEF AClosed, Twins
  <1> QED BY <1>1, <1>2, <1>3, <1>4 DEF Allowed, Channel!chanVars, AState, ASent, AReceived, AClosed

LEMMA Updated ==
    ASSUME NEW s \in Side, NEW c \in Ids, NEW a, NEW b, NEW v,
           a = [t \in Side |-> [e \in Ids |-> a[t][e]]],
           b = [t \in Side |-> [e \in Ids |-> b[t][e]]],
           \A t \in Side, e \in Ids : b[t][e] = IF t = s /\ e = c THEN v ELSE a[t][e]
    PROVE  b = [a EXCEPT ![s][c] = v]
  <1> DEFINE w == [a EXCEPT ![s][c] = v]
  <1>1. DOMAIN a = Side /\ DOMAIN b = Side /\ DOMAIN w = Side OBVIOUS
  <1>2. ASSUME NEW t \in Side PROVE b[t] = w[t]
    <2>1. /\ b[t] = [e \in Ids |-> b[t][e]] /\ a[t] = [e \in Ids |-> a[t][e]]
      OBVIOUS
    <2>2. w[t] = IF t = s THEN [a[t] EXCEPT ![c] = v] ELSE a[t] BY Zenon
    <2> QED BY <2>1, <2>2
  <1> QED BY Zenon, <1>1, <1>2

\* One end of one channel changes.
LEMMA OneEnd ==
    ASSUME NEW s \in Side, NEW c \in Ids, NEW z,
           \A t \in Side, e \in Ids : (t = s /\ e = c) \/ Twins(ch[t][e], ch'[t][e]),
           ch'[s][c] = z
    PROVE  /\ AState' = [AState EXCEPT ![s][c] = Seen(z.task)]
           /\ ASent' = [ASent EXCEPT ![s][c] = z.sent]
           /\ AReceived' = [AReceived EXCEPT ![s][c] = z.written]
           /\ AClosed' = [AClosed EXCEPT ![s][c] = (z.down = "PeerClosed")]
  <1>1. AState' = [AState EXCEPT ![s][c] = Seen(z.task)]
    <2>1. /\ AState = [t \in Side |-> [e \in Ids |-> AState[t][e]]]
          /\ AState' = [t \in Side |-> [e \in Ids |-> AState'[t][e]]]
      BY DEF AState
    <2>2. \A t \in Side, e \in Ids :
            AState'[t][e] = IF t = s /\ e = c THEN Seen(z.task) ELSE AState[t][e]
      BY DEF AState, Twins
    <2> QED BY <2>1, <2>2, Updated
  <1>2. ASent' = [ASent EXCEPT ![s][c] = z.sent]
    <2>1. /\ ASent = [t \in Side |-> [e \in Ids |-> ASent[t][e]]]
          /\ ASent' = [t \in Side |-> [e \in Ids |-> ASent'[t][e]]]
      BY DEF ASent
    <2>2. \A t \in Side, e \in Ids :
            ASent'[t][e] = IF t = s /\ e = c THEN z.sent ELSE ASent[t][e]
      BY DEF ASent, Twins
    <2> QED BY <2>1, <2>2, Updated
  <1>3. AReceived' = [AReceived EXCEPT ![s][c] = z.written]
    <2>1. /\ AReceived = [t \in Side |-> [e \in Ids |-> AReceived[t][e]]]
          /\ AReceived' = [t \in Side |-> [e \in Ids |-> AReceived'[t][e]]]
      BY DEF AReceived
    <2>2. \A t \in Side, e \in Ids :
            AReceived'[t][e] = IF t = s /\ e = c THEN z.written ELSE AReceived[t][e]
      BY DEF AReceived, Twins
    <2> QED BY <2>1, <2>2, Updated
  <1>4. AClosed' = [AClosed EXCEPT ![s][c] = (z.down = "PeerClosed")]
    <2>1. /\ AClosed = [t \in Side |-> [e \in Ids |-> AClosed[t][e]]]
          /\ AClosed' = [t \in Side |-> [e \in Ids |-> AClosed'[t][e]]]
      BY DEF AClosed
    <2>2. \A t \in Side, e \in Ids :
            AClosed'[t][e] = IF t = s /\ e = c THEN z.down = "PeerClosed" ELSE AClosed[t][e]
      BY DEF AClosed, Twins
    <2> QED BY <2>1, <2>2, Updated
  <1> QED BY <1>1, <1>2, <1>3, <1>4

LEMMA OneSame ==
    ASSUME NEW s \in Side, NEW c \in Ids
    PROVE  /\ AState[s][c] = Seen(ch[s][c].task) /\ ASent[s][c] = ch[s][c].sent
           /\ AReceived[s][c] = ch[s][c].written
           /\ AClosed[s][c] = (ch[s][c].down = "PeerClosed")
           /\ [AState EXCEPT ![s][c] = Seen(ch[s][c].task)] = AState
           /\ [ASent EXCEPT ![s][c] = ch[s][c].sent] = ASent
           /\ [AReceived EXCEPT ![s][c] = ch[s][c].written] = AReceived
           /\ [AClosed EXCEPT ![s][c] = (ch[s][c].down = "PeerClosed")] = AClosed
  BY Zenon DEF AState, ASent, AReceived, AClosed

\* The steps the promise allows, seen at the end that takes them.
Move(x, y, z, s) ==
    \/ \* Start
       /\ x.task = "none" /\ z.task # "none" /\ (s = "srv" => y.task # "none")
       /\ z.sent = x.sent /\ z.written = x.written /\ (z.down = "PeerClosed" <=> x.down = "PeerClosed")
    \/ \* Send
       /\ Seen(x.task) = "open" /\ Seen(z.task) = "open" /\ z.sent = x.sent + 1
       /\ z.written = x.written /\ (z.down = "PeerClosed" <=> x.down = "PeerClosed")
    \/ \* Receive
       /\ Seen(x.task) = "open" /\ Seen(z.task) = "open" /\ x.down # "PeerClosed"
       /\ x.written < y.sent /\ z.written = x.written + 1 /\ z.sent = x.sent
       /\ z.down # "PeerClosed"
    \/ \* LearnClose
       /\ Seen(x.task) = "open" /\ Seen(z.task) = "open" /\ x.down # "PeerClosed"
       /\ y.task = "done" /\ x.written = y.sent /\ z.down = "PeerClosed"
       /\ z.written = x.written /\ z.sent = x.sent
    \/ \* End
       /\ Seen(x.task) = "open" /\ z.task = "done" /\ z.sent = x.sent
       /\ z.written = x.written /\ (z.down = "PeerClosed" <=> x.down = "PeerClosed")

LEMMA Moves ==
    ASSUME IInv, NEW s \in Side, NEW c \in Ids, NEW z,
           \A t \in Side, e \in Ids : (t = s /\ e = c) \/ Twins(ch[t][e], ch'[t][e]),
           ch'[s][c] = z, Move(ch[s][c], ch[Peer(s)][c], z, s)
    PROVE  Allowed
  <1> DEFINE x == ch[s][c]
             y == ch[Peer(s)][c]
  <1>0. Peer(s) \in Side /\ Peer(s) = Channel!Other(s) /\ s \in Channel!Ends
    BY PeerFacts, SameSides
  <1>1. /\ AState' = [AState EXCEPT ![s][c] = Seen(z.task)]
        /\ ASent' = [ASent EXCEPT ![s][c] = z.sent]
        /\ AReceived' = [AReceived EXCEPT ![s][c] = z.written]
        /\ AClosed' = [AClosed EXCEPT ![s][c] = (z.down = "PeerClosed")]
    BY OneEnd
  <1>2. /\ AState[s][c] = Seen(x.task) /\ ASent[s][c] = x.sent
        /\ AReceived[s][c] = x.written /\ AClosed[s][c] = (x.down = "PeerClosed")
        /\ AState[Peer(s)][c] = Seen(y.task) /\ ASent[Peer(s)][c] = y.sent
        /\ [AState EXCEPT ![s][c] = Seen(x.task)] = AState
        /\ [ASent EXCEPT ![s][c] = x.sent] = ASent
        /\ [AReceived EXCEPT ![s][c] = x.written] = AReceived
        /\ [AClosed EXCEPT ![s][c] = (x.down = "PeerClosed")] = AClosed
    BY <1>0, OneSame
  <1>3. \A k \in {"none", "done"} : Seen(k) = IF k = "none" THEN "idle" ELSE "ended"
    BY DEF Seen
  <1>4. CASE /\ x.task = "none" /\ z.task # "none" /\ (s = "srv" => y.task # "none")
             /\ z.sent = x.sent /\ z.written = x.written
             /\ (z.down = "PeerClosed" <=> x.down = "PeerClosed")
    <2>1. Seen(z.task) \in {"open", "ended"} BY <1>4 DEF Seen
    <2>2. s = "srv" => AState["ctl"][c] # "idle"
      <3>1. s = "srv" => Peer(s) = "ctl" BY DEF Peer
      <3>2. s = "srv" => Seen(y.task) # "idle" BY <1>4 DEF Seen
      <3> QED BY <1>2, <3>1, <3>2
    <2>3. AState[s][c] = "idle" BY <1>2, <1>3, <1>4
    <2>4. AClosed' = AClosed
      <3>1. (z.down = "PeerClosed") = (x.down = "PeerClosed") BY <1>4
      <3> QED BY <1>1, <1>2, <3>1
    <2>5. ASent' = ASent /\ AReceived' = AReceived BY <1>1, <1>2, <1>4
    <2>6. Channel!Start(s, c)
      BY Zenon, <1>1, <2>1, <2>2, <2>3, <2>4, <2>5
      DEF Channel!Start, AState, ASent, AReceived, AClosed
    <2> QED BY <1>0, <2>6 DEF Allowed, Channel!Next
  <1>5. CASE /\ Seen(x.task) = "open" /\ Seen(z.task) = "open" /\ z.sent = x.sent + 1
             /\ z.written = x.written /\ (z.down = "PeerClosed" <=> x.down = "PeerClosed")
    <2>1. AClosed' = AClosed
      <3>1. (z.down = "PeerClosed") = (x.down = "PeerClosed") BY <1>5
      <3> QED BY <1>1, <1>2, <3>1
    <2>2. AState' = AState /\ AReceived' = AReceived BY <1>1, <1>2, <1>5
    <2>3. ASent' = [ASent EXCEPT ![s][c] = @ + 1] BY <1>1, <1>2, <1>5
    <2>4. Channel!Send(s, c)
      BY Zenon, <1>2, <1>5, <2>1, <2>2, <2>3 DEF Channel!Send, AState, ASent, AReceived, AClosed
    <2> QED BY <1>0, <2>4 DEF Allowed, Channel!Next
  <1>6. CASE /\ Seen(x.task) = "open" /\ Seen(z.task) = "open" /\ x.down # "PeerClosed"
             /\ x.written < y.sent /\ z.written = x.written + 1 /\ z.sent = x.sent
             /\ z.down # "PeerClosed"
    <2>1. AClosed' = AClosed
      <3>1. (z.down = "PeerClosed") = (x.down = "PeerClosed") BY <1>6
      <3> QED BY <1>1, <1>2, <3>1
    <2>2. AState' = AState /\ ASent' = ASent BY <1>1, <1>2, <1>6
    <2>3. AReceived' = [AReceived EXCEPT ![s][c] = @ + 1] BY <1>1, <1>2, <1>6
    <2>4. ~AClosed[s][c] /\ AReceived[s][c] < ASent[Channel!Other(s)][c] /\ AState[s][c] = "open"
      BY Zenon, <1>0, <1>2, <1>6
    <2>5. Channel!Receive(s, c)
      BY Zenon, <2>1, <2>2, <2>3, <2>4 DEF Channel!Receive, AState, ASent, AReceived, AClosed
    <2> QED BY Zenon, <1>0, <2>5 DEF Allowed, Channel!Next
  <1>7. CASE /\ Seen(x.task) = "open" /\ Seen(z.task) = "open" /\ x.down # "PeerClosed"
             /\ y.task = "done" /\ x.written = y.sent /\ z.down = "PeerClosed"
             /\ z.written = x.written /\ z.sent = x.sent
    <2>1. AState' = AState /\ ASent' = ASent /\ AReceived' = AReceived BY <1>1, <1>2, <1>7
    <2>2. AClosed' = [AClosed EXCEPT ![s][c] = TRUE] BY Zenon, <1>1, <1>7
    <2>3. /\ ~AClosed[s][c] /\ AState[s][c] = "open" /\ AState[Channel!Other(s)][c] = "ended"
          /\ AReceived[s][c] = ASent[Channel!Other(s)][c]
      <3>1. Seen(y.task) = "ended" BY Zenon, <1>7 DEF Seen
      <3>2. ~AClosed[s][c] /\ AState[s][c] = "open" BY Zenon, <1>2, <1>7
      <3>3. AState[Channel!Other(s)][c] = "ended" BY Zenon, <1>0, <1>2, <3>1
      <3>4. AReceived[s][c] = ASent[Channel!Other(s)][c] BY Zenon, <1>0, <1>2, <1>7
      <3> QED BY Zenon, <3>2, <3>3, <3>4
    <2>4. Channel!LearnClose(s, c)
      BY Zenon, <2>1, <2>2, <2>3 DEF Channel!LearnClose, AState, ASent, AReceived, AClosed
    <2> QED BY <1>0, <2>4 DEF Allowed, Channel!Next
  <1>8. CASE /\ Seen(x.task) = "open" /\ z.task = "done" /\ z.sent = x.sent
             /\ z.written = x.written /\ (z.down = "PeerClosed" <=> x.down = "PeerClosed")
    <2>1. AClosed' = AClosed
      <3>1. (z.down = "PeerClosed") = (x.down = "PeerClosed") BY <1>8
      <3> QED BY <1>1, <1>2, <3>1
    <2>2. ASent' = ASent /\ AReceived' = AReceived BY <1>1, <1>2, <1>8
    <2>3. AState' = [AState EXCEPT ![s][c] = "ended"] BY Zenon, <1>1, <1>3, <1>8
    <2>4. Channel!End(s, c)
      BY Zenon, <1>2, <1>8, <2>1, <2>2, <2>3 DEF Channel!End, AState, ASent, AReceived, AClosed
    <2> QED BY Zenon, <1>0, <2>4 DEF Allowed, Channel!Next
  <1> QED BY <1>4, <1>5, <1>6, <1>7, <1>8 DEF Move

LEMMA OneMoves ==
    ASSUME IInv, NEW s \in Side, NEW c \in Ids, NEW z, ch' = [ch EXCEPT ![s][c] = z],
           Move(ch[s][c], ch[Peer(s)][c], z, s) \/ Twins(ch[s][c], z)
    PROVE  Allowed
  <1>1. \A u \in Side, d \in Ids : ch'[u][d] = IF u = s /\ d = c THEN z ELSE ch[u][d]
    BY DEF IInv, Types
  <1>2. \A t \in Side, e \in Ids : (t = s /\ e = c) \/ Twins(ch[t][e], ch'[t][e])
    BY <1>1 DEF Twins
  <1>3. ch'[s][c] = z BY <1>1
  <1>4. CASE Twins(ch[s][c], z)
    <2>1. \A t \in Side, e \in Ids : Twins(ch[t][e], ch'[t][e]) BY <1>2, <1>3, <1>4
    <2> QED BY <2>1, Stutters
  <1> QED BY <1>2, <1>3, <1>4, Moves

-----------------------------------------------------------------------------
(* One lemma for each operation.                                             *)

LEMMA CtrlSame == ASSUME RInv, UNCHANGED ctrlQ PROVE CtrlUpdates'
  BY DEF RInv, Rest, CtrlUpdates

\* What a task does without sending.
LEMMA Alone ==
    ASSUME LinkLaws, RInv, NEW s \in Side, NEW c \in Ids, NEW z \in Channels,
           ch' = [ch EXCEPT ![s][c] = z], UNCHANGED <<dataQ, ctrlQ, stream, loop, nextId>>,
           Milder(ch[s][c], z), Stays(ch[s][c], z),
           ch[s][c].task # "none", z.task # "none",
           z.task = "opening" => ch[s][c].task = "opening",
           Move(ch[s][c], ch[Peer(s)][c], z, s) \/ Twins(ch[s][c], z)
    PROVE  Rest' /\ Allowed
  <1>1. QueuesAlike /\ OpensAlike BY SameQueues
  <1>2. CtrlUpdates' BY CtrlSame
  <1>3. Rest' BY Zenon, <1>1, <1>2, MildStep
  <1>4. Allowed BY Zenon, OneMoves DEF RInv
  <1> QED BY <1>3, <1>4

LEMMA UpRefines ==
    ASSUME LinkLaws, RInv, NEW s \in Side, NEW c \in Ids, NEW u \in {"run", "holding"} \cup Ends,
           ch' = [ch EXCEPT ![s][c].up = u], ch[s][c].task = "running",
           UNCHANGED <<dataQ, ctrlQ, stream, loop, nextId>>
    PROVE  Rest' /\ Allowed
  <1> DEFINE x == ch[s][c]
             z == [x EXCEPT !.up = u]
  <1>1. x \in Channels /\ Tidy(x.inbox, {"close"}, "data") BY StateTypes, LinkOf DEF RInv
  <1>2. /\ z \in Channels /\ z.task = x.task /\ z.entry = x.entry /\ z.inbox = x.inbox
        /\ z.pending = x.pending /\ z.sent = x.sent /\ z.written = x.written /\ z.down = x.down
    BY <1>1 DEF Channels
  <1>3. ch' = [ch EXCEPT ![s][c] = z] OBVIOUS
  <1> HIDE DEF z
  <1>4. Milder(x, z) BY <1>1, <1>2, MilderSame DEF InboxOpen
  <1>5. Stays(x, z) /\ Twins(x, z) BY <1>2 DEF Stays, Twins
  <1> QED BY Zenon, <1>2, <1>3, <1>4, <1>5, Alone

LEMMA DownRefines ==
    ASSUME LinkLaws, RInv, NEW s \in Side, NEW c \in Ids, NEW d \in Ends,
           ch' = [ch EXCEPT ![s][c].down = d], ch[s][c].task = "running", ch[s][c].down = "run",
           UNCHANGED <<dataQ, ctrlQ, stream, loop, nextId>>,
           d = "PeerClosed" => ch[Peer(s)][c].task = "done" /\ ch[s][c].written = ch[Peer(s)][c].sent
    PROVE  Rest' /\ Allowed
  <1> DEFINE x == ch[s][c]
             y == ch[Peer(s)][c]
             z == [x EXCEPT !.down = d]
  <1>1. x \in Channels /\ Tidy(x.inbox, {"close"}, "data") BY StateTypes, LinkOf DEF RInv
  <1>2. /\ z \in Channels /\ z.task = "running" /\ z.entry = x.entry /\ z.inbox = x.inbox
        /\ z.pending = x.pending /\ z.sent = x.sent /\ z.written = x.written /\ z.down = d
    BY <1>1 DEF Channels
  <1>3. ch' = [ch EXCEPT ![s][c] = z] OBVIOUS
  <1>4. d # "run" BY DEF Ends
  <1> HIDE DEF z
  <1>5. Milder(x, z) BY <1>1, <1>2, <1>4, MilderSame DEF InboxOpen
  <1>6. Stays(x, z) BY <1>2 DEF Stays
  <1>7. Move(x, y, z, s) \/ Twins(x, z)
    <2>1. Seen("running") = "open" BY DEF Seen
    <2>2. CASE d = "PeerClosed" BY <1>2, <2>1, <2>2 DEF Move
    <2>3. CASE d # "PeerClosed" BY <1>2, <2>3 DEF Twins
    <2> QED BY <2>2, <2>3
  <1> QED BY Zenon, <1>2, <1>3, <1>5, <1>6, <1>7, Alone

\* A half that has nothing left to write reads a close: all is written.
LEMMA CloseSaysAll ==
    ASSUME LinkLaws, RInv, NEW s \in Side, NEW c \in Ids, InboxOpen(ch[s][c]), ~HasChunk(ch[s][c]),
           NextItem(ch[s][c]) = "close"
    PROVE  ch[Peer(s)][c].task = "done" /\ ch[s][c].written = ch[Peer(s)][c].sent
  <1> DEFINE x == ch[s][c]
             q == x.inbox
  <1>1. x \in Channels BY StateTypes DEF RInv
  <1>2. q \in Seq(Payloads) /\ q # <<>> /\ Head(q) = "close"
    BY <1>1 DEF NextItem, LinkLaws, TakenNatLaw
  <1>3. Tidy(q, {"close"}, "data") /\ Closed(x, ch[Peer(s)][c])
    BY Zenon, LinkOf DEF Link, Closed
  <1> HIDE DEF q
  <1>4. 1 \in 1..Len(q) /\ q[1] = "close" /\ Len(q) \in Nat BY <1>2
  <1>5. Meets(q, {"close"}) BY <1>4 DEF Meets
  <1>6. \A j \in 1..Len(q) : q[j] # "data"
    <2> SUFFICES ASSUME NEW j \in 1..Len(q) PROVE q[j] # "data" OBVIOUS
    <2>1. CASE j = 1 BY <2>1, <1>4
    <2>2. CASE 1 < j BY <2>2, <1>3, <1>4 DEF Tidy
    <2> QED BY <2>1, <2>2
  <1>7. Count(q, "data") = 0 BY <1>2, <1>6 DEF LinkLaws, CountZeroLaw
  <1>8. x.pending = 0 BY <1>1 DEF HasChunk, LinkLaws, TakenNatLaw
  <1>9. Taken(x) = x.written BY <1>1, <1>7, <1>8 DEF Taken, q, LinkLaws, TakenNatLaw
  <1> QED BY <1>3, <1>5, <1>9 DEF Closed, q

LEMMA ReadInboxEndRefines ==
    ASSUME LinkLaws, RInv, NEW s \in Side, NEW c \in Ids, ReadInboxEnd(s, c)
    PROVE  Rest' /\ Allowed
  <1> DEFINE x == ch[s][c]
             d == InboxEnd(x)
  <1>0. /\ x.task = "running" /\ x.down = "run" /\ ~HasChunk(x)
        /\ ch' = [ch EXCEPT ![s][c].down = d]
        /\ UNCHANGED <<dataQ, ctrlQ, stream, loop, nextId>>
    BY DEF ReadInboxEnd
  <1>1. x \in Channels BY StateTypes DEF RInv
  <1>2. d \in Ends BY <1>0, <1>1 DEF LinkLaws, ItemsLaw
  <1>3. d = "PeerClosed" => NextItem(x) = "close"
    <2>1. NextItem(x) \in {"data", "close", "violation", "none"}
      BY <1>1 DEF NextItem, Channels
    <2> QED BY <1>0, <2>1 DEF InboxEnd, HasChunk
  <1>4. InboxOpen(x) BY <1>0 DEF InboxOpen
  <1> HIDE DEF d
  <1> QED BY Zenon, <1>0, <1>2, <1>3, <1>4, CloseSaysAll, DownRefines

LEMMA WriteFailsRefines ==
    ASSUME LinkLaws, RInv, NEW s \in Side, NEW c \in Ids, WriteFails(s, c)
    PROVE  Rest' /\ Allowed
  <1> DEFINE x == ch[s][c]
             w == TakeChunk(x)
             z == [w EXCEPT !.down = "LocalEof"]
  <1>0. /\ x.task = "running" /\ x.down = "run" /\ HasChunk(x)
        /\ ch' = [ch EXCEPT ![s][c] = z]
        /\ UNCHANGED <<dataQ, ctrlQ, stream, loop, nextId>>
    BY DEF WriteFails
  <1>1. x \in Channels /\ Tidy(x.inbox, {"close"}, "data") BY StateTypes, LinkOf DEF RInv
  <1>2. /\ w \in Channels /\ Taken(x) = Taken(w) + 1 /\ w.task = x.task
        /\ w.sent = x.sent /\ w.written = x.written /\ Tidy(w.inbox, {"close"}, "data")
    BY <1>0, <1>1, ChunkTaken
  <1> HIDE DEF w
  <1>3. /\ z \in Channels /\ z.task = "running" /\ z.inbox = w.inbox /\ z.pending = w.pending
        /\ z.sent = x.sent /\ z.written = x.written /\ z.down = "LocalEof" /\ w.written = x.written
    BY <1>0, <1>2 DEF Channels, Ends
  <1> HIDE DEF z
  <1>4. Taken(z) = Taken(w) /\ Taken(w) \in Nat BY <1>2, <1>3 DEF Taken, LinkLaws, TakenNatLaw
  <1>5. ~InboxOpen(z) /\ ~Listens(z) BY <1>3 DEF InboxOpen, Listens
  <1>6. Milder(x, z) BY SMTT(30), <1>2, <1>3, <1>4, <1>5 DEF Milder
  <1>7. Stays(x, z) /\ Twins(x, z) BY <1>0, <1>3 DEF Stays, Twins
  <1> QED BY Zenon, <1>0, <1>3, <1>6, <1>7, Alone

LEMMA HalfRefines ==
    ASSUME LinkLaws, RInv, NEW s \in Side, NEW c \in Ids,
           \/ ReadSocket(s, c) \/ ReadEof(s, c) \/ WriteFails(s, c) \/ ReadInboxEnd(s, c)
           \/ CancelUp(s, c) \/ CancelDown(s, c)
    PROVE  Rest' /\ Allowed
  <1>1. CASE ReadSocket(s, c) BY Zenon, <1>1, UpRefines DEF ReadSocket
  <1>2. CASE ReadEof(s, c) BY Zenon, <1>2, UpRefines DEF ReadEof, Ends
  <1>3. CASE CancelUp(s, c) BY Zenon, <1>3, UpRefines DEF CancelUp, Ends
  <1>4. CASE CancelDown(s, c)
    <2>1. "Cancelled" \in Ends /\ "Cancelled" # "PeerClosed" BY DEF Ends
    <2> QED BY Zenon, <1>4, <2>1, DownRefines DEF CancelDown
  <1> QED BY <1>1, <1>2, <1>3, <1>4, WriteFailsRefines, ReadInboxEndRefines

\* A frame that is written was sent.
LEMMA WriteSocketRefines ==
    ASSUME LinkLaws, RInv, NEW s \in Side, NEW c \in Ids, WriteSocket(s, c)
    PROVE  Rest' /\ Allowed
  <1> DEFINE x == ch[s][c]
             y == ch[Peer(s)][c]
             w == TakeChunk(x)
             v == [w EXCEPT !.written = @ + 1]
             f == Frame("update", c)
  <1>0. x.task = "running" /\ x.down = "run" /\ HasChunk(x) /\ UNCHANGED <<dataQ, loop, nextId>>
    BY DEF WriteSocket
  <1>1. /\ x \in Channels /\ Tidy(x.inbox, {"close"}, "data") /\ y \in Channels
        /\ stream[s] \in Seq(Frames) /\ Behind(s) \in Seq(Frames)
    BY StateTypes, LinkOf, PeerFacts DEF RInv
  <1>2. /\ w \in Channels /\ Taken(x) = Taken(w) + 1 /\ w.task = x.task /\ w.entry = x.entry
        /\ w.down = x.down /\ w.sent = x.sent /\ w.written = x.written
        /\ Meets(w.inbox, {"close"}) <=> Meets(x.inbox, {"close"})
        /\ Tidy(w.inbox, {"close"}, "data")
    BY <1>0, <1>1, ChunkTaken
  <1> HIDE DEF w
  <1>3. x.written < y.sent
    <2> DEFINE n == Count(stream[s], Data(c))
               m == Count(Behind(s), Data(c))
    <2>1. n \in Nat /\ m \in Nat BY <1>1 DEF LinkLaws, CountFiniteLaw
    <2>2. Taken(x) + (n + m) <= y.sent BY Zenon, LinkOf DEF Link, Counted
    <2> HIDE DEF n, m
    <2>3. Taken(w) >= w.written BY SMTT(30), <1>2 DEF Taken, LinkLaws, TakenNatLaw
    <2>4. Taken(w) \in Nat /\ w.written \in Nat /\ y.sent \in Nat
      BY <1>1, <1>2 DEF LinkLaws, TakenNatLaw
    <2>5. Taken(x) = Taken(w) + 1 /\ w.written = x.written BY <1>2
    <2> QED BY SMTT(30), <2>1, <2>2, <2>3, <2>4, <2>5
  <1>4. ASSUME NEW k \in {"run", "TunnelGone"}, NEW z, z = [v EXCEPT !.down = k]
        PROVE  z \in Channels /\ Milder(x, z) /\ Stays(x, z) /\ Move(x, y, z, s) /\ z.task = "running"
    <2>1. /\ z \in Channels /\ z.task = "running" /\ z.entry = x.entry /\ z.inbox = w.inbox
          /\ z.pending = w.pending /\ z.sent = x.sent /\ z.written = w.written + 1 /\ z.down = k
      <3>1. w \in Channels /\ w.task = "running" /\ w.entry = x.entry /\ w.sent = x.sent
        BY <1>0, <1>2
      <3>2. /\ v \in Channels /\ v.task = "running" /\ v.entry = x.entry /\ v.inbox = w.inbox
            /\ v.pending = w.pending /\ v.sent = x.sent /\ v.written = w.written + 1
        BY <3>1 DEF Channels
      <3>3. k \in {"run"} \cup Ends BY DEF Ends
      <3> HIDE DEF v
      <3> QED BY <1>4, <3>2, <3>3 DEF Channels
    <2>2. Taken(z) = Taken(x) /\ Taken(x) \in Nat
      <3>1. /\ Count(w.inbox, "data") \in Nat /\ w.pending \in Nat /\ w.written \in Nat
            /\ Taken(w) = w.written + w.pending + Count(w.inbox, "data")
        BY <1>2 DEF Taken, LinkLaws, TakenNatLaw
      <3>2. Taken(z) = w.written + 1 + w.pending + Count(w.inbox, "data") BY <2>1 DEF Taken
      <3>3. Taken(x) = Taken(w) + 1 BY <1>2
      <3> QED BY <3>1, <3>2, <3>3
    <2>3. Milder(x, z) BY SMTT(30), <1>0, <1>2, <2>1, <2>2 DEF Milder, Listens, InboxOpen
    <2>4. Stays(x, z) BY <1>0, <2>1 DEF Stays
    <2>5. Seen("running") = "open" BY DEF Seen
    <2>6. Move(x, y, z, s) BY Zenon, <1>0, <1>2, <1>3, <2>1, <2>5 DEF Move
    <2> QED BY <2>1, <2>3, <2>4, <2>6
  <1>5. PICK k \in {"run", "TunnelGone"} : ch' = [ch EXCEPT ![s][c] = [v EXCEPT !.down = k]]
    <2>1. v = [v EXCEPT !.down = "run"] BY Zenon, <1>0, <1>2 DEF Channels
    <2>2. \/ ch' = [ch EXCEPT ![s][c] = v]
          \/ ch' = [ch EXCEPT ![s][c] = [v EXCEPT !.down = "TunnelGone"]]
      BY DEF WriteSocket, w
    <2> HIDE DEF v
    <2> QED BY <2>1, <2>2
  <1>6. PICK z : z = [v EXCEPT !.down = k] OBVIOUS
  <1>7. /\ z \in Channels /\ Milder(x, z) /\ Stays(x, z) /\ Move(x, y, z, s) /\ z.task = "running"
        /\ ch' = [ch EXCEPT ![s][c] = z]
    BY Zenon, <1>4, <1>5, <1>6
  <1>8. QueuesAlike /\ OpensAlike /\ CtrlUpdates'
    <2>1. CASE UNCHANGED <<ctrlQ, stream>> BY <1>0, <2>1, SameQueues, CtrlSame
    <2>2. CASE s = "ctl" /\ ctrlQ' = Append(ctrlQ, f) /\ UNCHANGED stream
      BY <1>0, <2>2, SameQueues, CtrlAppend DEF RInv, Rest
    <2>3. CASE s = "srv" /\ stream' = Sent("ctl", f) /\ UNCHANGED ctrlQ
      BY <1>0, <2>3, IdleToCtl, CtrlSame DEF RInv
    <2> QED BY <2>1, <2>2, <2>3 DEF WriteSocket, SendControl
  <1>9. Rest' BY Zenon, <1>0, <1>7, <1>8, MildStep
  <1>10. Allowed BY Zenon, <1>7, OneMoves DEF RInv
  <1> QED BY <1>9, <1>10

-----------------------------------------------------------------------------
LEMMA JoinHalvesRefines ==
    ASSUME LinkLaws, RInv, NEW s \in Side, NEW c \in Ids, JoinHalves(s, c)
    PROVE  Rest' /\ Allowed
  <1> DEFINE x == ch[s][c]
             w == [x EXCEPT !.task = "closing"]
             o == Over(s, x)
  <1>0. /\ x.task = "running" /\ UNCHANGED <<dataQ, ctrlQ, stream, loop, nextId>>
        /\ ch' = [ch EXCEPT ![s][c] = w] \/ ch' = [ch EXCEPT ![s][c] = o]
    BY Zenon DEF JoinHalves
  <1>1. x \in Channels /\ Tidy(x.inbox, {"close"}, "data") BY StateTypes, LinkOf DEF RInv
  <1>2. Seen("running") = "open" /\ Seen("closing") = "open" BY DEF Seen
  <1>3. CASE ch' = [ch EXCEPT ![s][c] = w]
    <2>1. /\ w \in Channels /\ w.task = "closing" /\ w.entry = x.entry /\ w.inbox = x.inbox
          /\ w.pending = x.pending /\ w.sent = x.sent /\ w.written = x.written /\ w.down = x.down
      BY <1>1 DEF Channels
    <2> HIDE DEF w
    <2>2. Milder(x, w) BY <1>1, <2>1, MilderSame DEF InboxOpen
    <2>3. Stays(x, w) /\ Twins(x, w) BY <1>0, <1>2, <2>1 DEF Stays, Twins
    <2> QED BY Zenon, <1>0, <1>3, <2>1, <2>2, <2>3, Alone
  <1>4. CASE ch' = [ch EXCEPT ![s][c] = o]
    <2>1. /\ o \in Channels /\ Milder(x, o) /\ Stays(x, o) /\ o.task = "done"
          /\ o.written = x.written /\ o.down = x.down
      BY <1>1, MilderOver
    <2> HIDE DEF o
    <2>2. Move(x, ch[Peer(s)][c], o, s) BY <1>0, <1>2, <2>1 DEF Move, Stays
    <2> QED BY Zenon, <1>0, <1>4, <2>1, <2>2, Alone
  <1> QED BY <1>0, <1>3, <1>4

\* send_ordered: the frame is last on its way, or lost on a loop that has
\* stopped reading.
LEMMA OrderedSent ==
    ASSUME LinkLaws, IInv, NEW s \in Side, NEW f \in Frames, SendOrdered(s, f)
    PROVE  LET p == Peer(s) IN
           /\ stream'[s] = stream[s] /\ Behind(s)' = Behind(s)
           /\ \/ stream'[p] = stream[p] /\ Behind(p)' = Append(Behind(p), f)
              \/ /\ Behind(p) = <<>> /\ Behind(p)' = <<>>
                 /\ stream'[p] = Append(stream[p], f)
              \/ /\ Behind(p) = <<>> /\ Behind(p)' = <<>>
                 /\ stream'[p] = stream[p] /\ loop[p] # "run"
           /\ \A t \in Side, e \in Ids : Idle(f, e) =>
                  Alike(stream[t], stream'[t], e) /\ Alike(Behind(t), Behind(t)', e)
           /\ stream'["srv"] = stream["srv"]
           /\ dataQ' = dataQ \/ dataQ' = Append(dataQ, f)
           /\ \A e \in Ids : f # Frame("open", e) => SameOpens(dataQ, dataQ', e)
  <1> DEFINE p == Peer(s)
  <1>1. /\ stream'[s] = stream[s] /\ Behind(s)' = Behind(s)
        /\ \/ stream'[p] = stream[p] /\ Behind(p)' = Append(Behind(p), f)
           \/ /\ Behind(p) = <<>> /\ Behind(p)' = <<>>
              /\ stream'[p] = Append(stream[p], f)
           \/ /\ Behind(p) = <<>> /\ Behind(p)' = <<>>
              /\ stream'[p] = stream[p] /\ loop[p] # "run"
        /\ stream'["srv"] = stream["srv"]
        /\ dataQ' = dataQ \/ dataQ' = Append(dataQ, f)
    BY DEF SendOrdered, Sent, Behind, Peer, Side, IInv, Types
  <1>2. /\ stream[p] \in Seq(Frames) /\ Behind(p) \in Seq(Frames) /\ dataQ \in Seq(Frames)
    BY StateTypes, PeerFacts DEF IInv, Types
  <1> HIDE DEF p
  <1>3. ASSUME NEW e \in Ids, Idle(f, e)
        PROVE  Alike(stream[p], stream'[p], e) /\ Alike(Behind(p), Behind(p)', e)
    <2>1. Alike(stream[p], Append(stream[p], f), e) /\ Alike(Behind(p), Append(Behind(p), f), e)
      BY <1>2, <1>3 DEF LinkLaws, AlikeAppendLaw
    <2> QED BY Zenon, <1>1, <2>1, AlikeSame
  <1>4. \A t \in Side, e \in Ids : Idle(f, e) =>
            Alike(stream[t], stream'[t], e) /\ Alike(Behind(t), Behind(t)', e)
    BY SMTT(30), <1>1, <1>3, AlikeSame, PeerFacts DEF p
  <1>5. \A e \in Ids : f # Frame("open", e) => SameOpens(dataQ, dataQ', e)
    BY Zenon, <1>1, <1>2, AlikeSame DEF LinkLaws, AlikeAppendLaw
  <1> QED BY Zenon, <1>1, <1>4, <1>5 DEF p

LEMMA LinkThere ==
    ASSUME NEW x, NEW y, NEW q, NEW d, NEW run, NEW there, NEW c, there
    PROVE  Link(x, y, q, d, run, there, c) <=> Link(x, y, q, d, run, TRUE, c)
  BY DEF Link, Counted

LEMMA LinkRun ==
    ASSUME NEW x, NEW y, NEW q, NEW d, NEW run, NEW there, NEW c, run
    PROVE  Link(x, y, q, d, run, there, c) <=> Link(x, y, q, d, TRUE, there, c)
  BY DEF Link, Counted

\* The task ends with a closing frame, or finds the sink gone.
LEMMA LastRefines ==
    ASSUME LinkLaws, RInv, NEW s \in Side, NEW c \in Ids, NEW f \in Lasts(c), Seen(ch[s][c].task) = "open",
           ch' = [ch EXCEPT ![s][c] = Over(s, ch[s][c])], UNCHANGED <<ctrlQ, loop, nextId>>,
           UNCHANGED <<dataQ, stream>> \/ (~SinkGone(s) /\ SendOrdered(s, f))
    PROVE  Rest' /\ Allowed
  <1> DEFINE x == ch[s][c]
             p == Peer(s)
             y == ch[p][c]
             z == Over(s, x)
  <1>1. /\ x \in Channels /\ y \in Channels /\ p \in Side
        /\ stream[s] \in Seq(Frames) /\ Behind(s) \in Seq(Frames)
        /\ stream[p] \in Seq(Frames) /\ Behind(p) \in Seq(Frames)
    BY StateTypes, PeerFacts DEF RInv
  <1>2. /\ z \in Channels /\ Milder(x, z) /\ Stays(x, z) /\ z.task = "done"
        /\ z.written = x.written /\ z.down = x.down
    BY <1>1, MilderOver
  <1>3. x.task # "none" BY DEF Seen
  <1> HIDE DEF z
  <1>4. Move(x, y, z, s) BY <1>2 DEF Move, Stays
  <1>5. ch' = [ch EXCEPT ![s][c] = z] BY DEF z
  <1>6. CASE UNCHANGED <<dataQ, stream>> BY Zenon, <1>2, <1>3, <1>4, <1>5, <1>6, Alone
  <1>7. CASE ~SinkGone(s) /\ SendOrdered(s, f)
    <2>1. f \in Frames /\ \A e \in Ids : (e # c => Idle(f, e)) /\ f # Frame("open", e)
      BY FrameFacts DEF Lasts, Idle, Data
    <2>2. /\ stream'[s] = stream[s] /\ Behind(s)' = Behind(s)
          /\ \/ stream'[p] = stream[p] /\ Behind(p)' = Append(Behind(p), f)
             \/ Behind(p) = <<>> /\ Behind(p)' = <<>> /\ stream'[p] = Append(stream[p], f)
             \/ Behind(p) = <<>> /\ Behind(p)' = <<>> /\ stream'[p] = stream[p]
          /\ \A t \in Side, e \in Ids : Idle(f, e) =>
                Alike(stream[t], stream'[t], e) /\ Alike(Behind(t), Behind(t)', e)
          /\ stream'["srv"] = stream["srv"]
          /\ \A e \in Ids : f # Frame("open", e) => SameOpens(dataQ, dataQ', e)
      BY <1>7, <2>1, OrderedSent DEF RInv
    <2>3. OpensAlike BY <2>1, <2>2, AlikeSame DEF OpensAlike
    <2>4. Link(z, y, stream'[s], Behind(s)', loop[s] = "run", loop[p] # "gone", c)
      <3>1. Link(x, y, stream[s], Behind(s), loop[s] = "run", loop[p] # "gone", c) BY LinkOf
      <3>2. Link(z, y, stream[s], Behind(s), loop[s] = "run", loop[p] # "gone", c)
        BY ONLY Zenon, <1>1, LinkLaws, <1>2, <3>1 DEF LinkLaws, LinkMilderLaw
      <3> QED BY <2>2, <3>2
    <2>5. Link(y, z, stream'[p], Behind(p)', loop[p] = "run", loop[s] # "gone", c)
      <3>1. loop[s] # "gone" BY <1>7 DEF SinkGone
      <3>2. Link(y, x, stream[p], Behind(p), loop[p] = "run", TRUE, c)
        BY Zenon, <3>1, LinkOf, LinkThere
      <3>3. Link(y, z, stream'[p], Behind(p)', loop[p] = "run", TRUE, c)
        <4>1. Quits(x, z) BY <1>2 DEF Stays, Quits
        <4>2. SentOn(stream[p], Behind(p), stream'[p], Behind(p)', f) BY Zenon, <2>2 DEF SentOn
        <4>3. stream[p] \in Seq(Frames) /\ Behind(p) \in Seq(Frames) BY <1>1
        <4> HIDE DEF x, y, p
        <4> QED BY Zenon, <3>2, <4>1, <4>2, <4>3 DEF LinkLaws, LinkLastLaw
      <3> QED BY Zenon, <3>1, <3>3, LinkThere
    <2>6. Links'
      <3>1. \A t \in Side, e \in Ids : e # c =>
                Alike(stream[t], stream'[t], e) /\ Alike(Behind(t), Behind(t)', e)
        BY <2>1, <2>2
      <3>2. loop' = loop OBVIOUS
      <3> HIDE DEF x, y, p
      <3> QED BY ONLY Zenon, LinkLaws, RInv, s \in Side, c \in Ids, <1>5, <2>4, <2>5, <3>1, <3>2, LinksBy DEF x, y, p
    <2>7. OpensOnce' /\ Fresh' /\ Blank' BY Zenon, <1>2, <1>3, <1>5, <2>3, RestBy
    <2>8. Allowed BY Zenon, <1>4, <1>5, OneMoves DEF RInv
    <2> QED BY <2>6, <2>7, <2>8, CtrlSame DEF Rest
  <1> QED BY <1>6, <1>7

LEMMA SendCloseRefines ==
    ASSUME LinkLaws, RInv, NEW s \in Side, NEW c \in Ids, SendClose(s, c)
    PROVE  Rest' /\ Allowed
  <1>1. Frame("close", c) \in Lasts(c) BY DEF Lasts
  <1>2. Seen(ch[s][c].task) = "open" BY DEF SendClose, Seen
  <1>3. /\ ch' = [ch EXCEPT ![s][c] = Over(s, ch[s][c])] /\ UNCHANGED <<ctrlQ, loop, nextId>>
        /\ UNCHANGED <<dataQ, stream>> \/ (~SinkGone(s) /\ SendOrdered(s, Frame("close", c)))
    BY DEF SendClose
  <1> QED BY Zenon, <1>1, <1>2, <1>3, LastRefines

LEMMA SendDataRefines ==
    ASSUME LinkLaws, RInv, NEW s \in Side, NEW c \in Ids, SendData(s, c)
    PROVE  Rest' /\ Allowed
  <1> DEFINE x == ch[s][c]
             p == Peer(s)
             y == ch[p][c]
             f == Data(c)
             z == [x EXCEPT !.up = "run", !.sent = @ + 1]
  <1>0. x.task = "running" /\ UNCHANGED <<ctrlQ, loop, nextId>> BY DEF SendData
  <1>1. CASE /\ ch' = [ch EXCEPT ![s][c].up = "TunnelGone"]
             /\ UNCHANGED <<dataQ, stream>>
    BY Zenon, <1>0, <1>1, UpRefines DEF Ends
  <1>2. CASE /\ ~SinkGone(s) /\ SendOrdered(s, f)
             /\ ch' = [ch EXCEPT ![s][c].up = "run", ![s][c].sent = @ + 1]
    <2>1. /\ x \in Channels /\ y \in Channels /\ p \in Side /\ Tidy(x.inbox, {"close"}, "data")
          /\ stream[s] \in Seq(Frames) /\ Behind(s) \in Seq(Frames)
          /\ stream[p] \in Seq(Frames) /\ Behind(p) \in Seq(Frames)
      BY Zenon, StateTypes, PeerFacts, LinkOf DEF RInv
    <2>2. /\ z \in Channels /\ z.task = "running" /\ z.entry = x.entry /\ z.inbox = x.inbox
          /\ z.pending = x.pending /\ z.sent = x.sent + 1 /\ z.written = x.written
          /\ z.down = x.down
      <3>1. x \in Channels BY <2>1
      <3>2. /\ z.task = "running" /\ z.entry = x.entry /\ z.inbox = x.inbox
            /\ z.pending = x.pending /\ z.sent = x.sent + 1 /\ z.written = x.written
            /\ z.down = x.down
        BY <1>0, <3>1 DEF Channels
      <3>3. x.sent + 1 \in Nat BY SMTT(30), <3>1 DEF Channels
      <3>4. z \in Channels BY Zenon, <3>1, <3>3 DEF Channels
      <3> QED BY <3>2, <3>4
    <2>3. ch' = [ch EXCEPT ![s][c] = z] BY Zenon, <1>2 DEF RInv, IInv, Types
    <2> HIDE DEF z
    <2>4. f \in Frames /\ \A e \in Ids : (e # c => Idle(f, e)) /\ f # Frame("open", e)
      BY FrameFacts DEF Lasts, Idle, Data
    <2>5. /\ stream'[s] = stream[s] /\ Behind(s)' = Behind(s)
          /\ \/ stream'[p] = stream[p] /\ Behind(p)' = Append(Behind(p), f)
             \/ Behind(p) = <<>> /\ Behind(p)' = <<>> /\ stream'[p] = Append(stream[p], f)
             \/ /\ Behind(p) = <<>> /\ Behind(p)' = <<>> /\ stream'[p] = stream[p]
                /\ loop[p] # "run"
          /\ \A t \in Side, e \in Ids : Idle(f, e) =>
                Alike(stream[t], stream'[t], e) /\ Alike(Behind(t), Behind(t)', e)
          /\ stream'["srv"] = stream["srv"]
          /\ \A e \in Ids : f # Frame("open", e) => SameOpens(dataQ, dataQ', e)
      BY <1>2, <2>4, OrderedSent DEF RInv
    <2>6. OpensAlike BY <2>4, <2>5, AlikeSame DEF OpensAlike
    <2>7. Milder(x, z) BY Zenon, <1>0, <2>1, <2>2, MilderSame DEF InboxOpen
    <2>8. Link(z, y, stream'[s], Behind(s)', loop[s] = "run", loop[p] # "gone", c)
      <3>1. Link(x, y, stream[s], Behind(s), loop[s] = "run", loop[p] # "gone", c) BY LinkOf
      <3>2. Link(z, y, stream[s], Behind(s), loop[s] = "run", loop[p] # "gone", c)
        BY Zenon, <2>1, <2>2, <2>7, <3>1 DEF LinkLaws, LinkMilderLaw
      <3> QED BY Zenon, <2>5, <3>2
    <2>9. Link(y, z, stream'[p], Behind(p)', loop[p] = "run", loop[s] # "gone", c)
      <3>1. Link(y, x, stream[p], Behind(p), loop[p] = "run", loop[s] # "gone", c)
        BY Zenon, LinkOf
      <3>2. x.task # "done" BY <1>0
      <3>3. \/ stream'[p] = stream[p] /\ Behind(p)' = Append(Behind(p), Data(c))
            \/ Behind(p) = <<>> /\ Behind(p)' = <<>> /\ stream'[p] = Append(stream[p], Data(c))
            \/ /\ Behind(p) = <<>> /\ Behind(p)' = <<>> /\ stream'[p] = stream[p]
               /\ ~(loop[p] = "run")
        BY Zenon, <2>5
      <3> QED BY Zenon, <2>1, <2>2, <3>1, <3>2, <3>3 DEF LinkLaws, LinkDataLaw
    <2>10. Links'
      <3>1. \A t \in Side, e \in Ids : e # c =>
                Alike(stream[t], stream'[t], e) /\ Alike(Behind(t), Behind(t)', e)
        BY Zenon, <2>4, <2>5
      <3> QED BY Zenon, <1>0, <2>3, <2>8, <2>9, <3>1, LinksBy
    <2>11. OpensOnce' /\ Fresh' /\ Blank' BY Zenon, <1>0, <2>2, <2>3, <2>6, RestBy
    <2>12. Move(x, y, z, s) BY <1>0, <2>2 DEF Move, Seen
    <2>13. Allowed BY Zenon, <2>3, <2>12, OneMoves DEF RInv
    <2> QED BY <1>0, <2>10, <2>11, <2>13, CtrlSame DEF Rest
  <1> QED BY <1>1, <1>2 DEF SendData, Data

\* The one `open' of a channel.
LEMMA SendOpenRefines ==
    ASSUME LinkLaws, RInv, NEW c \in Ids, SendOpen(c)
    PROVE  Rest' /\ Allowed
  <1> DEFINE x == ch["ctl"][c]
             y == ch["srv"][c]
             f == Frame("open", c)
             z == [x EXCEPT !.task = "running"]
             o == Over("ctl", x)
  <1>0. x.task = "opening" /\ UNCHANGED <<ctrlQ, loop, nextId>> BY DEF SendOpen
  <1>1. x \in Channels /\ Tidy(x.inbox, {"close"}, "data") BY StateTypes, LinkOf, BothSides DEF RInv
  <1>2. Peer("ctl") = "srv" /\ "ctl" \in Side /\ "srv" \in Side BY DEF Peer, Side
  <1>3. Seen("opening") = "open" /\ Seen("running") = "open" BY DEF Seen
  <1>4. CASE ch' = [ch EXCEPT !["ctl"][c] = o] /\ UNCHANGED <<dataQ, stream>>
    <2>1. /\ o \in Channels /\ Milder(x, o) /\ Stays(x, o) /\ o.task = "done"
          /\ o.written = x.written /\ o.down = x.down
      BY <1>1, <1>2, MilderOver
    <2> HIDE DEF o
    <2>2. Move(x, ch[Peer("ctl")][c], o, "ctl") BY <1>0, <1>3, <2>1 DEF Move, Stays
    <2> QED BY Zenon, <1>0, <1>2, <1>4, <2>1, <2>2, Alone
  <1>5. CASE /\ SendOrdered("ctl", f) /\ ch' = [ch EXCEPT !["ctl"][c].task = "running"]
    <2>1. /\ z \in Channels /\ z.task = "running" /\ z.entry = x.entry /\ z.inbox = x.inbox
          /\ z.pending = x.pending /\ z.sent = x.sent /\ z.written = x.written /\ z.down = x.down
      BY <1>1 DEF Channels
    <2>2. ch' = [ch EXCEPT !["ctl"][c] = z] BY <1>5
    <2> HIDE DEF z
    <2>3. Milder(x, z) BY <1>0, <1>1, <2>1, MilderSame DEF InboxOpen
    <2>4. Stays(x, z) /\ Twins(x, z) BY <1>0, <1>3, <2>1 DEF Stays, Twins
    <2>5. f \in Frames /\ \A e \in Ids : Idle(f, e) /\ (e # c => f # Frame("open", e))
      BY FrameFacts DEF Lasts, Idle, Data
    <2>6. /\ QueuesAlike /\ stream'["srv"] = stream["srv"]
          /\ \A e \in Ids : f # Frame("open", e) => SameOpens(dataQ, dataQ', e)
      BY <1>2, <1>5, <2>5, OrderedSent DEF RInv, QueuesAlike
    <2>7. dataQ' = Append(dataQ, f) /\ dataQ \in Seq(Frames) /\ stream["srv"] \in Seq(Frames)
      BY <1>2, <1>5 DEF SendOrdered, RInv, IInv, Types
    <2>8. Links' BY Zenon, <1>0, <1>2, <2>1, <2>2, <2>3, <2>4, <2>6, MildLinks
    <2>9. \A u \in Side, d \in Ids : ch'[u][d] = IF u = "ctl" /\ d = c THEN z ELSE ch[u][d]
      BY <2>2 DEF RInv, IInv, Types
    <2>10. Fresh' BY <1>0, <1>2, <2>9 DEF RInv, Rest, Fresh
    <2>11. Blank' BY <1>0, <2>1, <2>9 DEF RInv, Rest, Blank
    <2>12. ASSUME NEW e \in Ids
           PROVE  Once(ch'["srv"][e], ch'["ctl"][e], stream'["srv"], dataQ', e)
      <3>1. Once(ch["srv"][e], ch["ctl"][e], stream["srv"], dataQ, e)
        BY DEF RInv, Rest, OpensOnce
      <3>2. ch'["srv"][e] = ch["srv"][e] BY <1>2, <2>9
      <3>3. CASE e # c
        <4>1. ch'["ctl"][e] = ch["ctl"][e] BY <1>2, <2>9, <3>3
        <4>2. Count(dataQ', Frame("open", e)) = Count(dataQ, Frame("open", e))
          BY <2>5, <2>6, <3>3 DEF SameOpens
        <4> QED BY <2>6, <3>1, <3>2, <4>1, <4>2 DEF Once
      <3>4. CASE e = c
        <4>1. ch'["ctl"][e] = z BY <1>2, <2>9, <3>4
        <4> DEFINE n == Count(stream["srv"], f)
                   m == Count(dataQ, f)
        <4>2. n \in Nat /\ m \in Nat BY <2>7 DEF LinkLaws, CountFiniteLaw
        <4>3. n + m = 0 /\ ch["srv"][c].task = "none" BY <1>0, <3>1, <3>4 DEF Once
        <4>4. Count(dataQ', f) = m + 1 BY <2>5, <2>7 DEF LinkLaws, CountAppendLaw
        <4>5. Count(stream'["srv"], f) + Count(dataQ', f) = 1
          <5> HIDE DEF n, m
          <5> QED BY SMTT(30), <2>6, <4>2, <4>3, <4>4 DEF n, m
        <4>6. z.task \notin {"none", "opening"} BY <2>1
        <4> QED BY SMTT(30), <3>2, <3>4, <4>1, <4>3, <4>5, <4>6 DEF Once
      <3> QED BY <3>3, <3>4
    <2>13. Allowed BY Zenon, <1>2, <2>2, <2>4, OneMoves DEF RInv
    <2> QED BY Zenon, <1>0, <2>8, <2>10, <2>11, <2>12, <2>13, CtrlSame DEF Rest, OpensOnce
  <1> QED BY <1>0, <1>4, <1>5 DEF SendOpen

\* run_controlled_channel, until the target is connected.
LEMMA ConnectingRefines ==
    ASSUME LinkLaws, RInv, NEW c \in Ids, ConnectingCommand(c) \/ Connected(c) \/ ConnectFails(c)
    PROVE  Rest' /\ Allowed
  <1> DEFINE x == ch["srv"][c]
             o == Over("srv", x)
             b == [x EXCEPT !.inbox = Tail(@), !.pending = @ + 1]
             r == [x EXCEPT !.task = "running"]
  <1>0. /\ x.task = "connecting" /\ UNCHANGED <<dataQ, ctrlQ, loop, nextId>>
        /\ "srv" \in Side /\ Peer("srv") = "ctl"
    BY DEF ConnectingCommand, Connected, ConnectFails, Connectable, Side, Peer
  <1>1. x \in Channels /\ Tidy(x.inbox, {"close"}, "data") BY Zenon, <1>0, StateTypes, LinkOf DEF RInv
  <1>2. Seen("connecting") = "open" /\ Seen("running") = "open" BY DEF Seen
  <1>3. /\ Frame("close", c) \in Lasts(c) /\ Frame("refused", c) \in Lasts(c)
        /\ \A f : stream' = Sent("ctl", f) /\ UNCHANGED dataQ => SendOrdered("srv", f)
    BY DEF Lasts, SendOrdered
  <1>4. \/ /\ ch' = [ch EXCEPT !["srv"][c] = o]
           /\ \/ UNCHANGED stream
              \/ /\ ~SinkGone("srv")
                 /\ stream' = Sent("ctl", Frame("close", c)) \/ stream' = Sent("ctl", Frame("refused", c))
        \/ NextItem(x) = "data" /\ ch' = [ch EXCEPT !["srv"][c] = b] /\ UNCHANGED stream
        \/ /\ ch' = [ch EXCEPT !["srv"][c].task = "running"]
           /\ stream' = Sent("ctl", Frame("opened", c))
    BY DEF ConnectingCommand, Connected, ConnectFails
  <1>5. CASE /\ ch' = [ch EXCEPT !["srv"][c] = o]
             /\ \/ UNCHANGED stream
                \/ /\ ~SinkGone("srv")
                   /\ stream' = Sent("ctl", Frame("close", c)) \/ stream' = Sent("ctl", Frame("refused", c))
    <2> HIDE DEF o
    <2>1. ch' = [ch EXCEPT !["srv"][c] = Over("srv", ch["srv"][c])] /\ Seen(x.task) = "open"
      BY <1>0, <1>2, <1>5 DEF o
    <2>2. CASE UNCHANGED stream
      BY Zenon, <1>0, <1>3, <2>1, <2>2, LastRefines
    <2>3. CASE ~SinkGone("srv") /\ stream' = Sent("ctl", Frame("close", c))
      BY Zenon, <1>0, <1>3, <2>1, <2>3, LastRefines
    <2>4. CASE ~SinkGone("srv") /\ stream' = Sent("ctl", Frame("refused", c))
      BY Zenon, <1>0, <1>3, <2>1, <2>4, LastRefines
    <2> QED BY <1>5, <2>2, <2>3, <2>4
  <1>6. CASE NextItem(x) = "data" /\ ch' = [ch EXCEPT !["srv"][c] = b] /\ UNCHANGED stream
    <2>1. /\ x.inbox # <<>> /\ Tail(x.inbox) \in Seq({"data", "close", "violation"})
          /\ Count(x.inbox, "data") = Count(Tail(x.inbox), "data") + 1
          /\ Count(Tail(x.inbox), "data") \in Nat
          /\ Meets(Tail(x.inbox), {"close"}) <=> Meets(x.inbox, {"close"})
          /\ Tidy(Tail(x.inbox), {"close"}, "data")
      BY <1>1, <1>6, TakeFirst
    <2>2. /\ b.task = x.task /\ b.entry = x.entry /\ b.inbox = Tail(x.inbox)
          /\ b.pending = x.pending + 1 /\ b.sent = x.sent /\ b.written = x.written
          /\ b.down = x.down
      <3>1. x \in Channels BY <1>1
      <3> QED BY <3>1 DEF Channels
    <2>3. b \in Channels
      <3>1. x \in Channels /\ Tail(x.inbox) \in Seq({"data", "close", "violation"}) BY <1>1, <2>1
      <3>2. x.pending + 1 \in Nat BY <3>1 DEF Channels
      <3> QED BY Zenon, <3>1, <3>2 DEF Channels
    <2> HIDE DEF b
    <2>4. Taken(b) = Taken(x) /\ Taken(x) \in Nat
      <3>1. /\ Count(x.inbox, "data") = Count(b.inbox, "data") + 1
            /\ Count(b.inbox, "data") \in Nat
        BY <2>1, <2>2
      <3>2. /\ x.pending \in Nat /\ x.written \in Nat /\ Taken(x) \in Nat
        BY <1>1 DEF LinkLaws, TakenNatLaw
      <3>3. b.pending = x.pending + 1 /\ b.written = x.written BY <2>2
      <3> QED BY SMTT(30), <3>1, <3>2, <3>3 DEF Taken
    <2>5. Taken(b) <= Taken(x) BY <2>4
    <2>6. Milder(x, b) BY Zenon, <2>1, <2>2, <2>4, <2>5 DEF Milder, Listens, InboxOpen
    <2>7. Stays(x, b) /\ Twins(x, b) BY Zenon, <1>0, <2>2 DEF Stays, Twins
    <2> QED BY Zenon, <1>0, <1>6, <2>2, <2>3, <2>6, <2>7, Alone
  <1>7. CASE /\ ch' = [ch EXCEPT !["srv"][c].task = "running"]
             /\ stream' = Sent("ctl", Frame("opened", c))
    <2>1. /\ r \in Channels /\ r.task = "running" /\ r.entry = x.entry /\ r.inbox = x.inbox
          /\ r.pending = x.pending /\ r.sent = x.sent /\ r.written = x.written /\ r.down = x.down
      BY <1>1 DEF Channels
    <2>2. ch' = [ch EXCEPT !["srv"][c] = r] BY <1>7
    <2> HIDE DEF r
    <2>3. Milder(x, r) BY <1>0, <1>1, <2>1, MilderSame DEF InboxOpen
    <2>4. Stays(x, r) /\ Twins(x, r) BY <1>0, <1>2, <2>1 DEF Stays, Twins
    <2>5. QueuesAlike /\ OpensAlike BY <1>0, <1>7, IdleToCtl DEF RInv
    <2>6. Rest' BY Zenon, <1>0, <2>1, <2>2, <2>3, <2>4, <2>5, MildStep, CtrlSame
    <2>7. Allowed BY Zenon, <1>0, <2>2, <2>4, OneMoves DEF RInv
    <2> QED BY <2>6, <2>7
  <1> QED BY <1>4, <1>5, <1>6, <1>7

-----------------------------------------------------------------------------
(* The demultiplexers and the loops.                                         *)

LEMMA StillStep ==
    ASSUME LinkLaws, RInv, UNCHANGED <<ch, loop, nextId>>, QueuesAlike, OpensAlike, CtrlUpdates'
    PROVE  Rest' /\ Allowed
  <1>1. ASSUME NEW t \in Side, NEW e \in Ids
        PROVE  Link(ch[t][e], ch[Peer(t)][e], stream'[t], Behind(t)', loop[t] = "run",
                    loop[Peer(t)] # "gone", e)
    <2>1. Link(ch[t][e], ch[Peer(t)][e], stream[t], Behind(t), loop[t] = "run",
               loop[Peer(t)] # "gone", e)
      BY LinkOf
    <2> QED BY Zenon, <2>1 DEF QueuesAlike, LinkLaws, LinkAlikeLaw
  <1>2. Links' BY Zenon, <1>1 DEF Links
  <1>3. OpensOnce' BY DEF RInv, Rest, OpensOnce, Once, OpensAlike, SameOpens
  <1>4. Fresh' /\ Blank' BY DEF RInv, Rest, Fresh, Blank
  <1>5. \A t \in Side, e \in Ids : Twins(ch[t][e], ch'[t][e]) BY DEF Twins
  <1> QED BY <1>2, <1>3, <1>4, <1>5, Stutters DEF Rest

\* A frame leaves the stream.
LEMMA HeadTaken ==
    ASSUME LinkLaws, IInv, NEW s \in Side, NEW k, NEW c \in Ids, Arrives(s, k, c), stream' = Consumed(s),
           dataQ' = dataQ
    PROVE  LET f == Frame(k, c) IN
           /\ stream[s] \in Seq(Frames) /\ stream[s] # <<>> /\ Head(stream[s]) = f
           /\ loop[s] = "run" /\ f \in Frames
           /\ stream'[s] = Tail(stream[s]) /\ stream'[Peer(s)] = stream[Peer(s)]
           /\ \A t \in Side : Behind(t)' = Behind(t)
           /\ \A t \in Side, e \in Ids : Idle(f, e) =>
                  Alike(stream[t], stream'[t], e) /\ Alike(Behind(t), Behind(t)', e)
           /\ (\A e \in Ids : f # Frame("open", e)) => OpensAlike
  <1> DEFINE f == Frame(k, c)
  <1>1. stream[s] # <<>> /\ Head(stream[s]) = f /\ loop[s] = "run" BY DEF Arrives
  <1>2. stream[s] \in Seq(Frames) /\ stream \in [Side -> Seq(Frames)] BY DEF IInv, Types
  <1>3. f \in Frames BY <1>1, <1>2
  <1>4. stream'[s] = Tail(stream[s]) /\ stream'[Peer(s)] = stream[Peer(s)]
    BY <1>2, PeerFacts DEF Consumed
  <1>5. \A t \in Side : Behind(t)' = Behind(t) BY DEF Behind
  <1> HIDE DEF f
  <1>6. \A t \in Side, e \in Ids : Idle(f, e) =>
            Alike(stream[t], stream'[t], e) /\ Alike(Behind(t), Behind(t)', e)
    <2> SUFFICES ASSUME NEW t \in Side, NEW e \in Ids, Idle(f, e)
                 PROVE  Alike(stream[t], stream'[t], e) /\ Alike(Behind(t), Behind(t)', e)
      OBVIOUS
    <2>1. Alike(stream[s], Tail(stream[s]), e) BY <1>1, <1>2 DEF LinkLaws, AlikeTailLaw
    <2> QED BY Zenon, <1>4, <1>5, <2>1, AlikeSame, PeerFacts
  <1>7. ASSUME \A e \in Ids : f # Frame("open", e) PROVE OpensAlike
    <2>1. ASSUME NEW e \in Ids PROVE SameOpens(stream["srv"], stream'["srv"], e)
      <3>1. CASE s = "srv" BY Zenon, <1>1, <1>2, <1>4, <1>7, <3>1 DEF LinkLaws, AlikeTailLaw
      <3>2. CASE s # "srv"
        <4>1. Peer(s) = "srv" BY <3>2, BothSides DEF Peer
        <4> QED BY <1>4, <4>1, AlikeSame
      <3> QED BY <3>1, <3>2
    <2> QED BY <2>1, AlikeSame DEF OpensAlike
  <1> QED BY Zenon, <1>1, <1>2, <1>3, <1>4, <1>5, <1>6, <1>7 DEF f

LEMMA OnCreditRefines ==
    ASSUME LinkLaws, RInv, NEW s \in Side, NEW c \in Ids, OnCredit(s, c)
    PROVE  Rest' /\ Allowed
  <1>1. PICK k \in {"update", "opened"} : Arrives(s, k, c) BY DEF OnCredit
  <1>2. UNCHANGED <<ch, dataQ, ctrlQ, loop, nextId>> /\ stream' = Consumed(s) BY DEF OnCredit
  <1> DEFINE f == Frame(k, c)
  <1>3. \A e \in Ids : Idle(f, e) /\ f # Frame("open", e) BY IdleFrames
  <1>4. /\ \A t \in Side, e \in Ids : Idle(f, e) =>
                Alike(stream[t], stream'[t], e) /\ Alike(Behind(t), Behind(t)', e)
        /\ (\A e \in Ids : f # Frame("open", e)) => OpensAlike
    BY Zenon, <1>1, <1>2, HeadTaken DEF RInv
  <1> HIDE DEF f
  <1>5. QueuesAlike /\ OpensAlike BY <1>3, <1>4 DEF QueuesAlike
  <1> QED BY <1>2, <1>5, CtrlSame, StillStep

LEMMA PumpControlRefines == ASSUME LinkLaws, RInv, PumpControl PROVE Rest' /\ Allowed
  <1> DEFINE f == Head(ctrlQ)
  <1>1. /\ ctrlQ # <<>> /\ ctrlQ' = Tail(ctrlQ) /\ stream' = Sent("srv", f)
        /\ UNCHANGED <<ch, dataQ, loop, nextId>>
    BY DEF PumpControl
  <1>2. ctrlQ \in Seq(Frames) /\ stream \in [Side -> Seq(Frames)] BY DEF RInv, IInv, Types
  <1>3. /\ f = ctrlQ[1] /\ 1 \in 1..Len(ctrlQ) /\ f \in Frames /\ Len(ctrlQ) \in Nat
        /\ Len(Tail(ctrlQ)) = Len(ctrlQ) - 1
        /\ \A i \in 1..(Len(ctrlQ) - 1) : Tail(ctrlQ)[i] = ctrlQ[i + 1]
    BY <1>1, <1>2
  <1>4. f = Frame("update", f.id) /\ f.id \in Ids
    BY <1>3, FrameFacts DEF RInv, Rest, CtrlUpdates, Frames
  <1>5. CtrlUpdates'
    <2> SUFFICES ASSUME NEW i \in 1..Len(ctrlQ') PROVE ctrlQ'[i].kind = "update"
      BY DEF CtrlUpdates
    <2>1. i \in 1..(Len(ctrlQ) - 1) /\ i + 1 \in 1..Len(ctrlQ) BY <1>1, <1>3
    <2> QED BY <1>1, <1>3, <2>1 DEF RInv, Rest, CtrlUpdates
  <1> HIDE DEF f
  <1>6. \A e \in Ids : Idle(f, e) /\ f # Frame("open", e) BY <1>4, IdleFrames
  <1>7. /\ stream'["ctl"] = stream["ctl"]
        /\ stream'["srv"] = stream["srv"] \/ stream'["srv"] = Append(stream["srv"], f)
    BY <1>1, <1>2, BothSides DEF Sent
  <1>8. stream["srv"] \in Seq(Frames) BY <1>2, BothSides
  <1>9. \A e \in Ids : Alike(stream["srv"], stream'["srv"], e) /\ SameOpens(stream["srv"], stream'["srv"], e)
    BY Zenon, <1>3, <1>6, <1>7, <1>8, AlikeSame DEF LinkLaws, AlikeAppendLaw
  <1>10. \A t \in Side : Behind(t)' = Behind(t) BY <1>1 DEF Behind
  <1>11. QueuesAlike BY <1>7, <1>9, <1>10, BothSides, AlikeSame DEF QueuesAlike
  <1>12. OpensAlike BY <1>1, <1>9, AlikeSame DEF OpensAlike
  <1> QED BY <1>1, <1>5, <1>11, <1>12, StillStep

\* A frame for a channel that its receiver knows arrives.
LEMMA ArriveStep ==
    ASSUME LinkLaws, RInv, NEW s \in Side, NEW k \in {"data", "close", "refused"}, NEW c \in Ids,
           Arrives(s, k, c), stream' = Consumed(s), UNCHANGED <<dataQ, ctrlQ, loop, nextId>>,
           NEW z, ch' = [ch EXCEPT ![s][c] = z],
           Stays(ch[s][c], z), Twins(ch[s][c], z), z.task = ch[s][c].task, ch[s][c].task # "none",
           Link(z, ch[Peer(s)][c], Tail(stream[s]), Behind(s), loop[s] = "run",
                loop[Peer(s)] # "gone", c)
    PROVE  Rest' /\ Allowed
  <1> DEFINE x == ch[s][c]
             p == Peer(s)
             y == ch[p][c]
             f == Frame(k, c)
  <1>1. /\ stream'[s] = Tail(stream[s]) /\ stream'[p] = stream[p]
        /\ \A t \in Side : Behind(t)' = Behind(t)
        /\ \A t \in Side, e \in Ids : Idle(f, e) =>
               Alike(stream[t], stream'[t], e) /\ Alike(Behind(t), Behind(t)', e)
        /\ (\A e \in Ids : f # Frame("open", e)) => OpensAlike
    BY HeadTaken DEF RInv
  <1>2. \A e \in Ids : f # Frame("open", e) /\ (e # c => Idle(f, e))
    BY FrameFacts DEF Idle, Data, Lasts
  <1> HIDE DEF f
  <1>3. OpensAlike BY <1>1, <1>2
  <1>4. p \in Side BY PeerFacts
  <1>5. Link(z, y, stream'[s], Behind(s)', loop[s] = "run", loop[p] # "gone", c) BY <1>1
  <1>6. Link(y, x, stream[p], Behind(p), loop[p] = "run", loop[s] # "gone", c) BY LinkOf
  <1>7. Link(y, z, stream'[p], Behind(p)', loop[p] = "run", loop[s] # "gone", c)
    BY <1>1, <1>4, <1>6 DEF LinkLaws, LinkSenderLaw
  <1>8. \A t \in Side, e \in Ids : e # c =>
            Alike(stream[t], stream'[t], e) /\ Alike(Behind(t), Behind(t)', e)
    BY <1>1, <1>2
  <1>9. loop' = loop /\ nextId' = nextId /\ ctrlQ' = ctrlQ OBVIOUS
  <1>10. Links' BY Zenon, <1>5, <1>7, <1>8, <1>9, LinksBy
  <1>11. OpensOnce' /\ Fresh' /\ Blank' BY Zenon, <1>3, <1>9, RestBy
  <1>12. Allowed BY Zenon, OneMoves DEF RInv
  <1> QED BY <1>9, <1>10, <1>11, <1>12, CtrlSame DEF Rest

\* Whoever gets a frame other than `open' has the channel, or had it.
LEMMA ReceiverKnows ==
    ASSUME LinkLaws, RInv, NEW s \in Side, NEW k, NEW c \in Ids, Arrives(s, k, c), k # "open"
    PROVE  ch[s][c].task # "none"
  <1>1. ch["srv"][c].task # "none" BY DEF RInv, Known, LinkLaws, HeadKnownLaw
  <1>2. ch["ctl"][c].task # "none" BY <1>1 DEF RInv, Rest, OpensOnce, Once
  <1> QED BY <1>1, <1>2, BothSides

LEMMA OnDataRefines ==
    ASSUME LinkLaws, RInv, NEW s \in Side, NEW c \in Ids, OnData(s, c)
    PROVE  Rest' /\ Allowed
  <1> DEFINE x == ch[s][c]
             y == ch[Peer(s)][c]
             q == stream[s]
  <1>0. Arrives(s, "data", c) /\ stream' = Consumed(s) /\ UNCHANGED <<dataQ, ctrlQ, loop, nextId>>
    BY DEF OnData
  <1>1. /\ x \in Channels /\ y \in Channels /\ Behind(s) \in Seq(Frames) /\ ch \in [Side -> [Ids -> Channels]]
    BY StateTypes, PeerFacts DEF RInv, IInv, Types
  <1>2. q \in Seq(Frames) /\ q # <<>> /\ Head(q) = Data(c)
    BY <1>0, HeadTaken DEF RInv, Data
  <1>3. x.task # "none" BY <1>0, ReceiverKnows
  <1>4. /\ Tidy(x.inbox, {"close"}, "data") /\ Closed(x, y)
        /\ Link(x, y, q, Behind(s), loop[s] = "run", loop[Peer(s)] # "gone", c)
    BY Zenon, LinkOf DEF Link
  <1>5. Taken(x) \in Nat /\ x.inbox \in Seq(Payloads) BY <1>1 DEF LinkLaws, TakenNatLaw
  <1>6. ASSUME NEW z \in Channels, ch' = [ch EXCEPT ![s][c] = z], z.task = x.task,
               z.sent = x.sent, z.written = x.written, z.down = x.down,
               Taken(z) <= Taken(x) + 1,
               Listens(z) => Listens(x) /\ Taken(z) = Taken(x) + 1,
               Tidy(z.inbox, {"close"}, "data"),
               InboxOpen(z) /\ Meets(z.inbox, {"close"}) =>
                    /\ InboxOpen(x) /\ Meets(x.inbox, {"close"})
                    /\ Taken(z) = Taken(x) /\ (z.entry => x.entry)
        PROVE  Rest' /\ Allowed
    <2>1. Link(z, y, Tail(q), Behind(s), loop[s] = "run", loop[Peer(s)] # "gone", c)
      BY Zenon, <1>1, <1>2, <1>4, <1>6 DEF LinkLaws, LinkArrivesLaw
    <2>2. Stays(x, z) /\ Twins(x, z) BY <1>6 DEF Stays, Twins
    <2> QED BY Zenon, <1>0, <1>3, <1>6, <2>1, <2>2, ArriveStep
  <1>7. CASE ~x.entry /\ UNCHANGED ch
    <2>1. ch' = [ch EXCEPT ![s][c] = x] BY <1>1, <1>7
    <2>2. ~Listens(x) BY <1>3, <1>7 DEF Listens
    <2>3. Taken(x) <= Taken(x) + 1 BY <1>5
    <2> QED BY Zenon, <1>1, <1>4, <1>6, <2>1, <2>2, <2>3
  <1>8. CASE x.entry /\ InboxOpen(x) /\ ch' = [ch EXCEPT ![s][c] = Delivered(x, "data")]
    <2> DEFINE z == Delivered(x, "data")
    <2>1. z = [x EXCEPT !.inbox = Append(@, "data")] BY <1>8 DEF Delivered
    <2>2. /\ z.inbox = Append(x.inbox, "data") /\ z.entry = x.entry /\ z.task = x.task
          /\ z.down = x.down /\ z.pending = x.pending /\ z.sent = x.sent /\ z.written = x.written
      BY <1>1, <2>1 DEF Channels
    <2>3. z \in Channels BY <1>1 DEF LinkLaws, ItemsLaw
    <2> HIDE DEF z
    <2>4. "data" \in Payloads /\ "data" \notin {"close"} BY DEF Payloads
    <2>5. ~Meets(x.inbox, {"close"}) BY <1>4, <1>8 DEF Closed
    <2>6. Count(z.inbox, "data") = Count(x.inbox, "data") + 1
      BY SMTT(30), <1>5, <2>2, <2>4 DEF LinkLaws, CountAppendLaw
    <2>7. ~Meets(z.inbox, {"close"}) BY <1>5, <2>2, <2>4, <2>5 DEF LinkLaws, MeetsAppendLaw
    <2>8. Tidy(z.inbox, {"close"}, "data")
      BY Zenon, <1>4, <1>5, <2>2, <2>4, <2>5 DEF LinkLaws, TidyAppendLaw
    <2>9. Taken(z) = Taken(x) + 1
      <3>1. x.written \in Nat /\ x.pending \in Nat /\ Count(x.inbox, "data") \in Nat
        BY <1>1 DEF LinkLaws, TakenNatLaw
      <3>2. z.written = x.written /\ z.pending = x.pending BY <2>2
      <3> QED BY <2>6, <3>1, <3>2 DEF Taken
    <2>10. Listens(x) BY <1>8 DEF Listens
    <2>11. ch' = [ch EXCEPT ![s][c] = z] BY <1>8 DEF z
    <2>12. Taken(z) <= Taken(x) + 1 BY <1>5, <2>9
    <2> QED BY Zenon, <1>6, <2>2, <2>3, <2>7, <2>8, <2>9, <2>10, <2>11, <2>12
  <1>9. CASE x.entry /\ ~InboxOpen(x) /\ ch' = [ch EXCEPT ![s][c] = Dropped(x)]
    <2> DEFINE z == Dropped(x)
    <2>1. /\ z.inbox = x.inbox /\ ~z.entry /\ z.task = x.task
          /\ z.down = x.down /\ z.pending = x.pending /\ z.sent = x.sent /\ z.written = x.written
      BY <1>1 DEF Channels, Dropped
    <2>2. z \in Channels BY <1>1 DEF LinkLaws, OverLaw
    <2>3. ch' = [ch EXCEPT ![s][c] = z] BY <1>9
    <2> HIDE DEF z
    <2>4. ~InboxOpen(z) /\ ~Listens(z) BY <1>3, <1>9, <2>1 DEF InboxOpen, Listens
    <2>5. Taken(z) = Taken(x) BY <2>1 DEF Taken
    <2>6. Taken(z) <= Taken(x) + 1 BY <1>5, <2>5
    <2>7. Tidy(z.inbox, {"close"}, "data") BY Zenon, <1>4, <2>1
    <2> QED BY Zenon, <1>6, <2>1, <2>2, <2>3, <2>4, <2>6, <2>7
  <1>10. CASE x.entry /\ ch' = [ch EXCEPT ![s][c] = Dropped(Delivered(x, "violation"))]
    <2> DEFINE w == Delivered(x, "violation")
               z == Dropped(w)
    <2>1. /\ w \in Channels /\ w.task = x.task /\ w.sent = x.sent /\ w.written = x.written
          /\ w.down = x.down /\ w.pending = x.pending
          /\ w.inbox = IF InboxOpen(x) THEN Append(x.inbox, "violation") ELSE x.inbox
      <3>1. w \in Channels BY <1>1 DEF LinkLaws, ItemsLaw
      <3> QED BY <1>1, <3>1 DEF Channels, Delivered
    <2> HIDE DEF w
    <2>2. /\ z.inbox = w.inbox /\ ~z.entry /\ z.task = x.task
          /\ z.down = x.down /\ z.pending = x.pending /\ z.sent = x.sent /\ z.written = x.written
      BY <2>1 DEF Channels, Dropped
    <2>3. z \in Channels BY Zenon, <2>1 DEF LinkLaws, OverLaw
    <2>4. ch' = [ch EXCEPT ![s][c] = z] BY <1>10 DEF w
    <2> HIDE DEF z
    <2>5. ~Listens(z) /\ (InboxOpen(z) <=> InboxOpen(x)) BY <1>3, <2>2 DEF InboxOpen, Listens
    <2>6. InboxOpen(x) => ~Meets(x.inbox, {"close"}) BY <1>4, <1>10 DEF Closed
    <2>7. "violation" \in Payloads /\ "violation" # "data" /\ "violation" \notin {"close"}
      BY DEF Payloads
    <2>8. /\ Count(Append(x.inbox, "violation"), "data") = Count(x.inbox, "data")
          /\ Tidy(Append(x.inbox, "violation"), {"close"}, "data")
          /\ Meets(Append(x.inbox, "violation"), {"close"}) <=> Meets(x.inbox, {"close"})
      <3>1. Count(Append(x.inbox, "violation"), "data") = Count(x.inbox, "data")
        BY Zenon, <1>5, <2>7 DEF LinkLaws, CountAppendLaw
      <3>2. Tidy(Append(x.inbox, "violation"), {"close"}, "data")
        BY Zenon, <1>4, <1>5, <2>7 DEF LinkLaws, TidyAppendLaw
      <3>3. Meets(Append(x.inbox, "violation"), {"close"}) <=> Meets(x.inbox, {"close"})
        BY Zenon, <1>5, <2>7, MeetsOther
      <3> QED BY Zenon, <3>1, <3>2, <3>3
    <2>9. Count(z.inbox, "data") = Count(x.inbox, "data") /\ Tidy(z.inbox, {"close"}, "data")
      BY Zenon, <1>4, <2>1, <2>2, <2>8
    <2>10. InboxOpen(z) => ~Meets(z.inbox, {"close"}) BY Zenon, <2>1, <2>2, <2>5, <2>6, <2>8
    <2>11. Taken(z) = Taken(x) BY <2>2, <2>9 DEF Taken
    <2>12. Taken(z) <= Taken(x) + 1 BY <1>5, <2>11
    <2> QED BY Zenon, <1>6, <2>2, <2>3, <2>4, <2>5, <2>9, <2>10, <2>12
  <1> QED BY <1>7, <1>8, <1>9, <1>10 DEF OnData

\* A close, or the controlled side's refusal.
LEMMA OnLastRefines ==
    ASSUME LinkLaws, RInv, NEW s \in Side, NEW c \in Ids, OnClose(s, c) \/ (s = "ctl" /\ OnRefused(c))
    PROVE  Rest' /\ Allowed
  <1> DEFINE x == ch[s][c]
             y == ch[Peer(s)][c]
             q == stream[s]
             w == Delivered(x, "close")
             z == IF x.entry THEN Dropped(w) ELSE x
  <1>1. PICK k \in {"close", "refused"} : Arrives(s, k, c) BY DEF OnClose, OnRefused
  <1>2. /\ stream' = Consumed(s) /\ UNCHANGED <<dataQ, ctrlQ, loop, nextId>>
        /\ ch' = [ch EXCEPT ![s][c] = z]
    BY DEF OnClose, OnRefused
  <1>3. x \in Channels /\ y \in Channels /\ Behind(s) \in Seq(Frames)
    BY StateTypes, PeerFacts DEF RInv
  <1>4. q \in Seq(Frames) /\ q # <<>> /\ Head(q) \in Lasts(c) /\ loop[s] = "run"
    BY <1>1, <1>2, HeadTaken DEF RInv, Lasts
  <1>5. x.task # "none" BY <1>1, ReceiverKnows
  <1>6. Link(z, y, Tail(q), Behind(s), loop[s] = "run", loop[Peer(s)] # "gone", c)
    <2>1. Link(x, y, q, Behind(s), TRUE, loop[Peer(s)] # "gone", c)
      BY Zenon, <1>4, LinkOf, LinkRun
    <2>2. Link(z, y, Tail(q), Behind(s), TRUE, loop[Peer(s)] # "gone", c)
      BY Zenon, <1>3, <1>4, <1>5, <2>1 DEF LinkLaws, LinkClosesLaw
    <2> HIDE DEF z
    <2> QED BY Zenon, <1>4, <2>2, LinkRun
  <1>7. z.task = x.task /\ z.sent = x.sent /\ z.written = x.written /\ z.down = x.down
    <2>1. w.task = x.task /\ w.sent = x.sent /\ w.written = x.written /\ w.down = x.down
      BY <1>3 DEF Channels, Delivered
    <2>2. w \in Channels BY Zenon, <1>3 DEF LinkLaws, ItemsLaw
    <2> HIDE DEF w
    <2> QED BY <2>1, <2>2 DEF Dropped, Channels
  <1> HIDE DEF z
  <1>8. Stays(x, z) /\ Twins(x, z) BY <1>7 DEF Stays, Twins
  <1> QED BY Zenon, <1>1, <1>2, <1>5, <1>6, <1>7, <1>8, ArriveStep

-----------------------------------------------------------------------------
LEMMA NoChannelFacts ==
    /\ NoChannel \in Channels /\ NoChannel.task = "none" /\ ~NoChannel.entry
    /\ NoChannel.inbox = <<>> /\ NoChannel.pending = 0 /\ NoChannel.sent = 0
    /\ NoChannel.written = 0 /\ NoChannel.down = "run"
  <1>1. <<>> \in Seq({"data", "close", "violation"}) OBVIOUS
  <1> QED BY Zenon, <1>1 DEF NoChannel, Channels

\* An end that is announced listens as it did before.
LEMMA MilderStart ==
    ASSUME LinkLaws, NEW z \in Channels, z.inbox = <<>>, z.pending = 0, z.written = 0
    PROVE  Milder(NoChannel, z)
  <1>1. Count(<<>>, "data") = 0 /\ ~Meets(<<>>, {"close"}) /\ Tidy(<<>>, {"close"}, "data")
    BY DEF LinkLaws, CountEmptyLaw, MeetsEmptyLaw, TidyEmptyLaw
  <1>2. Taken(z) = 0 /\ Taken(NoChannel) = 0 BY <1>1, NoChannelFacts DEF Taken
  <1>3. Listens(NoChannel) BY NoChannelFacts DEF Listens
  <1> QED BY <1>1, <1>2, <1>3 DEF Milder

LEMMA OpenRefines == ASSUME LinkLaws, RInv, Open PROVE Rest' /\ Allowed
  <1> DEFINE c == nextId
             z == [NoChannel EXCEPT !.entry = TRUE, !.task = "opening"]
  <1>1. /\ c \in Ids /\ UNCHANGED <<dataQ, ctrlQ, stream, loop>> /\ nextId' = c + 1
        /\ ch' = [ch EXCEPT !["ctl"][c].entry = TRUE, !["ctl"][c].task = "opening"]
    BY DEF Open, Ids, RInv, IInv, Types
  <1>2. ch["ctl"][c].task = "none" BY <1>1 DEF RInv, Rest, Fresh, Ids
  <1>3. ch["ctl"][c] = NoChannel BY <1>1, <1>2, BothSides DEF RInv, Rest, Blank
  <1>4. ch' = [ch EXCEPT !["ctl"][c] = z]
    <2>1. ch' = [ch EXCEPT !["ctl"][c] = [ch["ctl"][c] EXCEPT !.entry = TRUE, !.task = "opening"]]
      BY Zenon, <1>1, BothSides DEF RInv, IInv, Types
    <2> QED BY <1>3, <2>1
  <1>5. /\ z \in Channels /\ z.task = "opening" /\ z.inbox = <<>> /\ z.pending = 0
        /\ z.sent = 0 /\ z.written = 0 /\ z.down = "run"
    BY Zenon, NoChannelFacts DEF Channels
  <1> HIDE DEF z
  <1>6. Milder(ch["ctl"][c], z) BY <1>3, <1>5, MilderStart
  <1>7. Stays(ch["ctl"][c], z) BY <1>3, <1>5, NoChannelFacts DEF Stays
  <1>8. QueuesAlike /\ OpensAlike BY <1>1, SameQueues
  <1>9. Links' BY Zenon, <1>1, <1>4, <1>5, <1>6, <1>7, <1>8, BothSides, MildLinks
  <1>10. \A u \in Side, d \in Ids : ch'[u][d] = IF u = "ctl" /\ d = c THEN z ELSE ch[u][d]
    BY <1>4, <1>1 DEF RInv, IInv, Types
  <1>11. Blank' BY <1>5, <1>10 DEF RInv, Rest, Blank
  <1>12. Fresh'
    <2> SUFFICES ASSUME NEW d \in Ids, d >= nextId' PROVE ch'["ctl"][d].task = "none"
      BY DEF Fresh
    <2>1. d >= nextId /\ d # c BY <1>1 DEF Ids
    <2> QED BY <1>10, <2>1, BothSides DEF RInv, Rest, Fresh
  <1>13. ASSUME NEW e \in Ids
         PROVE  Once(ch'["srv"][e], ch'["ctl"][e], stream'["srv"], dataQ', e)
    <2>1. Once(ch["srv"][e], ch["ctl"][e], stream["srv"], dataQ, e)
      BY DEF RInv, Rest, OpensOnce
    <2>2. /\ ch'["srv"][e] = ch["srv"][e]
          /\ ch'["ctl"][e].task \in {"none", "opening"} => ch["ctl"][e].task \in {"none", "opening"}
      BY <1>2, <1>10, BothSides
    <2> QED BY Zenon, <1>1, <2>1, <2>2 DEF Once
  <1>14. Move(ch["ctl"][c], ch[Peer("ctl")][c], z, "ctl")
    BY <1>2, <1>3, <1>5, NoChannelFacts DEF Move
  <1>15. Allowed BY Zenon, <1>1, <1>4, <1>14, BothSides, OneMoves DEF RInv
  <1> QED BY Zenon, <1>1, <1>9, <1>11, <1>12, <1>13, <1>15, CtrlSame DEF Rest, OpensOnce

\* tunnel_loop sends what is first in the ordered queue.
LEMMA PumpDataRefines == ASSUME LinkLaws, RInv, PumpData PROVE Rest' /\ Allowed
  <1> DEFINE f == Head(dataQ)
             q == stream["srv"]
  <1>1. /\ dataQ # <<>> /\ dataQ' = Tail(dataQ) /\ stream' = Sent("srv", f)
        /\ UNCHANGED <<ch, ctrlQ, loop, nextId>> /\ loop["ctl"] = "run"
    BY DEF PumpData
  <1>2. /\ dataQ \in Seq(Frames) /\ q \in Seq(Frames) /\ stream \in [Side -> Seq(Frames)]
        /\ \A t \in Side, e \in Ids : ch[t][e] \in Channels
    BY BothSides, StateTypes DEF RInv, IInv, Types
  <1>3. f \in Frames /\ Tail(dataQ) \in Seq(Frames) BY <1>1, <1>2
  <1>4. /\ stream'["ctl"] = stream["ctl"]
        /\ \/ loop["srv"] = "run" /\ stream'["srv"] = Append(q, f)
           \/ loop["srv"] # "run" /\ stream'["srv"] = q
    BY <1>1, <1>2, BothSides DEF Sent
  <1>5. Peer("srv") = "ctl" /\ Peer("ctl") = "srv" /\ "srv" \in Side /\ "ctl" \in Side
    BY DEF Peer, Side
  <1>6. Behind("srv") = dataQ /\ Behind("srv")' = Tail(dataQ) /\ Behind("ctl")' = Behind("ctl")
    BY <1>1 DEF Behind
  <1>7. ASSUME NEW e \in Ids
        PROVE  Link(ch["srv"][e], ch["ctl"][e], stream'["srv"], Behind("srv")',
                    loop["srv"] = "run", loop["ctl"] # "gone", e)
    <2> DEFINE x == ch["srv"][e]
               y == ch["ctl"][e]
    <2>1. loop["ctl"] # "gone" BY <1>1
    <2>2. Link(x, y, q, dataQ, loop["srv"] = "run", loop["ctl"] # "gone", e)
      BY <1>5, <1>6, LinkOf
    <2>3. Link(x, y, q, dataQ, loop["srv"] = "run", TRUE, e) BY Zenon, <2>1, <2>2, LinkThere
    <2>4. x \in Channels /\ y \in Channels BY <1>2, <1>5
    <2>5. /\ Link(x, y, Append(q, f), Tail(dataQ), loop["srv"] = "run", TRUE, e)
          /\ ~(loop["srv"] = "run") => Link(x, y, q, Tail(dataQ), loop["srv"] = "run", TRUE, e)
      BY Zenon, <1>1, <1>2, <2>3, <2>4 DEF LinkLaws, LinkPumpsLaw
    <2>6. Link(x, y, stream'["srv"], Tail(dataQ), loop["srv"] = "run", TRUE, e)
      BY Zenon, <1>4, <2>5
    <2> QED BY Zenon, <1>6, <2>1, <2>6, LinkThere
  <1>8. ASSUME NEW e \in Ids
        PROVE  Link(ch["ctl"][e], ch["srv"][e], stream'["ctl"], Behind("ctl")',
                    loop["ctl"] = "run", loop["srv"] # "gone", e)
    BY Zenon, <1>4, <1>5, <1>6, LinkOf
  <1>9. Links' BY <1>1, <1>5, <1>7, <1>8, BothSides DEF Links
  <1>10. ASSUME NEW e \in Ids
         PROVE  Once(ch["srv"][e], ch["ctl"][e], stream'["srv"], dataQ', e)
    <2> DEFINE g == Frame("open", e)
               n == Count(q, g)
               m == Count(Tail(dataQ), g)
    <2>1. Once(ch["srv"][e], ch["ctl"][e], q, dataQ, e) BY DEF RInv, Rest, OpensOnce
    <2>2. n \in Nat /\ m \in Nat BY Zenon, <1>2, <1>3 DEF LinkLaws, CountFiniteLaw
    <2>3. Count(dataQ, g) = IF f = g THEN m + 1 ELSE m BY <1>1, <1>2 DEF LinkLaws, CountTailLaw
    <2>4. Count(Append(q, f), g) = IF f = g THEN n + 1 ELSE n
      BY <1>2, <1>3 DEF LinkLaws, CountAppendLaw
    <2>5. /\ Count(stream'["srv"], g) = n \/ Count(stream'["srv"], g) = IF f = g THEN n + 1 ELSE n
          /\ Count(dataQ', g) = m
      BY Zenon, <1>1, <1>4, <2>4
    <2> HIDE DEF n, m
    <2>6. /\ Count(stream'["srv"], g) + Count(dataQ', g) <= n + Count(dataQ, g)
          /\ Count(stream'["srv"], g) + Count(dataQ', g) \in Nat
      BY <2>2, <2>3, <2>5
    <2>7. n + Count(dataQ, g) \in Nat BY <2>2, <2>3
    <2> QED BY Zenon, <2>1, <2>6, <2>7, OnceFewer DEF n
  <1>11. OpensOnce' BY <1>1, <1>10 DEF OpensOnce
  <1>12. Fresh' /\ Blank' BY <1>1 DEF RInv, Rest, Fresh, Blank
  <1>13. \A t \in Side, e \in Ids : Twins(ch[t][e], ch'[t][e]) BY <1>1 DEF Twins
  <1> QED BY <1>1, <1>9, <1>11, <1>12, <1>13, CtrlSame, Stutters DEF Rest

LEMMA DroppedMilder ==
    ASSUME LinkLaws, NEW x \in Channels, Tidy(x.inbox, {"close"}, "data"), x.task = "none" => ~x.entry
    PROVE  LET z == Dropped(x) IN
           /\ z \in Channels /\ z.task = x.task /\ ~z.entry
           /\ Milder(x, z) /\ Stays(x, z) /\ Twins(x, z) /\ (~x.entry => z = x)
           /\ z.inbox = x.inbox /\ z.pending = x.pending /\ z.sent = x.sent
           /\ z.written = x.written /\ z.down = x.down
  <1> DEFINE z == Dropped(x)
  <1>1. z \in Channels /\ z.task = x.task /\ ~z.entry BY BothSides DEF LinkLaws, OverLaw
  <1>2. /\ z.inbox = x.inbox /\ z.pending = x.pending /\ z.sent = x.sent
        /\ z.written = x.written /\ z.down = x.down
    BY DEF Dropped, Channels
  <1>3. ~x.entry => z = x
    <2>1. ~x.entry => x.entry = FALSE BY DEF Channels
    <2> QED BY <2>1 DEF Dropped, Channels
  <1> HIDE DEF z
  <1>4. Taken(z) = Taken(x) /\ Taken(x) \in Nat BY Zenon, <1>2 DEF Taken, LinkLaws, TakenNatLaw
  <1>5. Taken(z) <= Taken(x) BY <1>4
  <1>6. InboxOpen(z) <=> InboxOpen(x) BY <1>1, <1>2 DEF InboxOpen
  <1>7. Listens(z) => Listens(x) BY <1>1 DEF Listens
  <1>8. Milder(x, z) BY <1>1, <1>2, <1>4, <1>5, <1>6, <1>7 DEF Milder
  <1>9. Stays(x, z) /\ Twins(x, z) BY <1>1, <1>2 DEF Stays, Twins
  <1> QED BY <1>1, <1>2, <1>3, <1>8, <1>9 DEF z

\* The loop breaks: the map is cleared and nothing is read any more.
LEMMA CloseAllRefines == ASSUME LinkLaws, RInv, NEW s \in Side, CloseAll(s) PROVE Rest' /\ Allowed
  <1> DEFINE p == Peer(s)
  <1>1. /\ UNCHANGED <<dataQ, ctrlQ, nextId>> /\ loop[s] = "run"
        /\ loop' = [loop EXCEPT ![s] = "closing"]
        /\ ch' = [ch EXCEPT ![s] = [c \in Ids |-> Dropped(ch[s][c])]]
        /\ stream' = [stream EXCEPT ![s] = <<>>]
    BY DEF CloseAll
  <1>2. /\ ch \in [Side -> [Ids -> Channels]] /\ stream \in [Side -> Seq(Frames)]
        /\ loop \in [Side -> {"run", "closing", "gone"}]
        /\ \A t \in Side, e \in Ids : ch[t][e] \in Channels
        /\ \A t \in Side : stream[t] \in Seq(Frames) /\ Behind(t) \in Seq(Frames)
    BY StateTypes DEF RInv, IInv, Types
  <1>3. /\ p \in Side /\ p # s /\ Peer(p) = s /\ \A t \in Side : t = s \/ t = p
    BY PeerFacts
  <1>4. /\ \A e \in Ids : ch'[s][e] = Dropped(ch[s][e]) /\ ch'[p][e] = ch[p][e]
        /\ stream'[s] = <<>> /\ stream'[p] = stream[p]
        /\ loop'[s] = "closing" /\ loop'[p] = loop[p]
    BY <1>1, <1>2, <1>3
  <1>5. \A t \in Side : Behind(t)' = Behind(t) BY <1>1 DEF Behind
  <1> HIDE DEF p
  <1>6. ASSUME NEW e \in Ids
        PROVE  /\ ch'[s][e] \in Channels /\ ch'[s][e].task = ch[s][e].task
               /\ Milder(ch[s][e], ch'[s][e]) /\ Stays(ch[s][e], ch'[s][e])
               /\ Twins(ch[s][e], ch'[s][e]) /\ (~ch[s][e].entry => ch'[s][e] = ch[s][e])
    <2>1. Tidy(ch[s][e].inbox, {"close"}, "data") BY Zenon, LinkOf
    <2>2. ch[s][e].task = "none" => ~ch[s][e].entry
      BY NoChannelFacts DEF RInv, Rest, Blank
    <2>3. ch'[s][e] = Dropped(ch[s][e]) /\ ch[s][e] \in Channels BY Zenon, <1>2, <1>4
    <2> DEFINE x == ch[s][e]
    <2>4. /\ Dropped(x) \in Channels /\ Dropped(x).task = x.task
          /\ Milder(x, Dropped(x)) /\ Stays(x, Dropped(x))
          /\ Twins(x, Dropped(x)) /\ (~x.entry => Dropped(x) = x)
      BY Zenon, <2>1, <2>2, <2>3, DroppedMilder
    <2> QED BY Zenon, <2>3, <2>4
  <1>7. ASSUME NEW e \in Ids
        PROVE  Link(ch'[s][e], ch'[p][e], stream'[s], Behind(s)', loop'[s] = "run",
                    loop'[p] # "gone", e)
    <2>1. Link(ch[s][e], ch[p][e], stream[s], Behind(s), loop[s] = "run", loop[p] # "gone", e)
      BY Zenon, LinkOf DEF p
    <2>2. Link(ch[s][e], ch[p][e], <<>>, Behind(s), FALSE, loop[p] # "gone", e)
      BY Zenon, <1>2, <1>3, <2>1 DEF LinkLaws, LinkStopsLaw
    <2>3. <<>> \in Seq(Frames) OBVIOUS
    <2>4. Link(ch'[s][e], ch[p][e], <<>>, Behind(s), FALSE, loop[p] # "gone", e)
      BY Zenon, <1>2, <1>3, <1>6, <2>2, <2>3 DEF LinkLaws, LinkMilderLaw
    <2>5. (loop'[s] = "run") = FALSE BY <1>4
    <2> QED BY Zenon, <1>3, <1>4, <1>5, <2>4, <2>5
  <1>8. ASSUME NEW e \in Ids
        PROVE  Link(ch'[p][e], ch'[s][e], stream'[p], Behind(p)', loop'[p] = "run",
                    loop'[s] # "gone", e)
    <2>1. Link(ch[p][e], ch[s][e], stream[p], Behind(p), loop[p] = "run", loop[s] # "gone", e)
      BY Zenon, LinkOf DEF p
    <2>2. Link(ch[p][e], ch'[s][e], stream[p], Behind(p), loop[p] = "run", loop[s] # "gone", e)
      BY Zenon, <1>6, <2>1 DEF LinkLaws, LinkSenderLaw
    <2>3. (loop'[s] # "gone") = TRUE /\ (loop[s] # "gone") = TRUE BY <1>1, <1>4
    <2> QED BY Zenon, <1>3, <1>4, <1>5, <2>2, <2>3
  <1>9. Links' BY Zenon, <1>3, <1>7, <1>8 DEF Links, p
  <1>10. \A t \in Side, e \in Ids : /\ ch'[t][e].task = ch[t][e].task
                                    /\ Twins(ch[t][e], ch'[t][e])
                                    /\ ~ch[t][e].entry => ch'[t][e] = ch[t][e]
    <2>1. \A e \in Ids : ch'[p][e] = ch[p][e] /\ Twins(ch[p][e], ch'[p][e]) BY Zenon, <1>4 DEF Twins
    <2> QED BY Zenon, <1>3, <1>6, <2>1
  <1>11. Fresh' BY <1>1, <1>10, BothSides DEF RInv, Rest, Fresh
  <1>12. Blank' BY Zenon, <1>10, NoChannelFacts DEF RInv, Rest, Blank
  <1>13. OpensOnce'
    <2> SUFFICES ASSUME NEW e \in Ids
                 PROVE  Once(ch'["srv"][e], ch'["ctl"][e], stream'["srv"], dataQ', e)
      BY DEF OpensOnce
    <2>1. Once(ch["srv"][e], ch["ctl"][e], stream["srv"], dataQ, e)
      BY DEF RInv, Rest, OpensOnce
    <2>2. ch'["srv"][e].task = ch["srv"][e].task /\ ch'["ctl"][e].task = ch["ctl"][e].task
      BY Zenon, <1>10, BothSides
    <2>3. Shrunk(stream'["srv"], stream["srv"]) /\ Shrunk(dataQ', dataQ)
      BY <1>1, <1>3, <1>4, BothSides DEF Shrunk
    <2>4. dataQ \in Seq(Frames) /\ stream["srv"] \in Seq(Frames) BY <1>2, BothSides DEF RInv, IInv, Types
    <2>5. Once(ch["srv"][e], ch["ctl"][e], stream'["srv"], dataQ', e)
      BY Zenon, <2>1, <2>3, <2>4, OnceLost
    <2> QED BY Zenon, <2>2, <2>5, OnceTasks
  <1> QED BY <1>1, <1>9, <1>10, <1>11, <1>12, <1>13, CtrlSame, Stutters DEF Rest

\* The loop returns: its queues and sinks are gone.
LEMMA LoopGoneRefines == ASSUME LinkLaws, RInv, NEW s \in Side, LoopGone(s) PROVE Rest' /\ Allowed
  <1> DEFINE p == Peer(s)
  <1>1. /\ UNCHANGED <<ch, stream, nextId>> /\ loop[s] = "closing"
        /\ loop' = [loop EXCEPT ![s] = "gone"]
        /\ dataQ' = (IF s = "ctl" THEN <<>> ELSE dataQ)
        /\ ctrlQ' = (IF s = "ctl" THEN <<>> ELSE ctrlQ)
    BY DEF LoopGone
  <1>2. /\ loop \in [Side -> {"run", "closing", "gone"}]
        /\ \A t \in Side, e \in Ids : ch[t][e] \in Channels
        /\ \A t \in Side : stream[t] \in Seq(Frames) /\ Behind(t) \in Seq(Frames)
        /\ dataQ \in Seq(Frames)
    BY StateTypes DEF RInv, IInv, Types
  <1>3. /\ p \in Side /\ p # s /\ Peer(p) = s /\ \A t \in Side : t = s \/ t = p
    BY PeerFacts
  <1>4. loop'[s] = "gone" /\ loop'[p] = loop[p] BY <1>1, <1>2, <1>3
  <1>5. Behind(s)' = Behind(s) /\ Behind(p)' = <<>>
    BY <1>1, BothSides DEF Behind, p, Peer
  <1> HIDE DEF p
  <1>6. ASSUME NEW e \in Ids
        PROVE  Link(ch[s][e], ch[p][e], stream[s], Behind(s)', loop'[s] = "run",
                    loop'[p] # "gone", e)
    <2>1. Link(ch[s][e], ch[p][e], stream[s], Behind(s), loop[s] = "run", loop[p] # "gone", e)
      BY Zenon, LinkOf DEF p
    <2>2. (loop'[s] = "run") = FALSE /\ (loop[s] = "run") = FALSE BY <1>1, <1>4
    <2> QED BY Zenon, <1>4, <1>5, <2>1, <2>2
  <1>7. ASSUME NEW e \in Ids
        PROVE  Link(ch[p][e], ch[s][e], stream[p], Behind(p)', loop'[p] = "run",
                    loop'[s] # "gone", e)
    <2>1. Link(ch[p][e], ch[s][e], stream[p], Behind(p), loop[p] = "run", loop[s] # "gone", e)
      BY Zenon, LinkOf DEF p
    <2>2. Link(ch[p][e], ch[s][e], stream[p], <<>>, loop[p] = "run", FALSE, e)
      BY Zenon, <1>2, <1>3, <2>1 DEF LinkLaws, LinkLeavesLaw
    <2>3. (loop'[s] # "gone") = FALSE BY <1>4
    <2> QED BY Zenon, <1>4, <1>5, <2>2, <2>3
  <1>8. Links' BY <1>1, <1>3, <1>6, <1>7 DEF Links, p
  <1>9. Fresh' /\ Blank' BY <1>1 DEF RInv, Rest, Fresh, Blank
  <1>10. CtrlUpdates' BY SMTT(30), <1>1 DEF RInv, Rest, CtrlUpdates
  <1>11. OpensOnce'
    <2> SUFFICES ASSUME NEW e \in Ids
                 PROVE  Once(ch["srv"][e], ch["ctl"][e], stream["srv"], dataQ', e)
      BY <1>1 DEF OpensOnce
    <2>1. Once(ch["srv"][e], ch["ctl"][e], stream["srv"], dataQ, e)
      BY DEF RInv, Rest, OpensOnce
    <2>2. /\ Shrunk(dataQ', dataQ) /\ Shrunk(stream["srv"], stream["srv"])
          /\ stream["srv"] \in Seq(Frames) /\ dataQ \in Seq(Frames)
      BY Zenon, <1>1, <1>2, BothSides DEF Shrunk
    <2> QED BY Zenon, <2>1, <2>2, OnceLost
  <1>12. \A t \in Side, e \in Ids : Twins(ch[t][e], ch'[t][e]) BY <1>1 DEF Twins
  <1> QED BY Zenon, <1>8, <1>9, <1>10, <1>11, <1>12, Stutters DEF Rest

\* on_open: the ended channels leave the map, and the channel starts or is
\* refused.
LEMMA OnOpenRefines == ASSUME LinkLaws, RInv, NEW c \in Ids, OnOpen(c) PROVE Rest' /\ Allowed
  <1> DEFINE f == Frame("open", c)
             g == Frame("refused", c)
             q == stream["srv"]
             r == Retained
             z1 == [NoChannel EXCEPT !.task = "done"]
             z2 == [NoChannel EXCEPT !.entry = TRUE, !.task = "connecting"]
  <1>1. /\ UNCHANGED <<dataQ, ctrlQ, loop, nextId>> /\ loop["srv"] = "run"
        /\ q # <<>> /\ Head(q) = f
    BY DEF OnOpen, Arrives
  <1>2. /\ ch \in [Side -> [Ids -> Channels]] /\ stream \in [Side -> Seq(Frames)]
        /\ dataQ \in Seq(Frames)
        /\ \A t \in Side, e \in Ids : ch[t][e] \in Channels
        /\ \A t \in Side : stream[t] \in Seq(Frames) /\ Behind(t) \in Seq(Frames)
    BY StateTypes DEF RInv, IInv, Types
  <1>3. /\ "srv" \in Side /\ "ctl" \in Side /\ Peer("srv") = "ctl" /\ Peer("ctl") = "srv"
        /\ q \in Seq(Frames)
    BY <1>2 DEF Side, Peer
  <1>4. /\ f \in Frames /\ \A e \in Ids : Idle(f, e) /\ (e # c => f # Frame("open", e))
        /\ g \in Frames /\ g \in Lasts(c) /\ \A e \in Ids : e # c => Idle(g, e)
    BY SMTT(30), FrameFacts DEF Lasts, Idle, Data
  <1>5. ASSUME NEW e \in Ids
        PROVE  Tidy(ch["srv"][e].inbox, {"close"}, "data") /\ (ch["srv"][e].task = "none" => ~ch["srv"][e].entry)
    <2>1. Tidy(ch["srv"][e].inbox, {"close"}, "data") BY <1>3, LinkOf
    <2>2. ch["srv"][e].task = "none" => ~ch["srv"][e].entry
      BY <1>3, NoChannelFacts DEF RInv, Rest, Blank
    <2> QED BY Zenon, <2>1, <2>2
  \* Before: one `open', the controlled end unused, the controller's started.
  <1>6. /\ Count(q, f) + Count(dataQ, f) <= 1
        /\ ch["srv"][c].task # "none" => Count(q, f) + Count(dataQ, f) = 0
        /\ ch["ctl"][c].task \in {"none", "opening"} => Count(q, f) + Count(dataQ, f) = 0
    BY Zenon DEF RInv, Rest, OpensOnce, Once
  <1>7. /\ Count(q, f) = Count(Tail(q), f) + 1 /\ Count(Tail(q), f) \in Nat
        /\ Count(dataQ, f) \in Nat
    <2>1. Tail(q) \in Seq(Frames) BY SMTT(30), <1>1, <1>3
    <2> QED BY Zenon, <1>1, <1>2, <1>3, <2>1 DEF LinkLaws, CountTailLaw, CountFiniteLaw
  <1>8. Count(Tail(q), f) + Count(dataQ, f) = 0 /\ Count(q, f) + Count(dataQ, f) # 0
    <2> HIDE DEF f, q
    <2> QED BY SMTT(30), <1>6, <1>7
  <1>9. ch["srv"][c] = NoChannel /\ ch["ctl"][c].task \notin {"none", "opening"}
    BY Zenon, <1>3, <1>6, <1>8 DEF RInv, Rest, Blank
  \* The map without the ended ones.
  <1>10. ASSUME NEW e \in Ids
         PROVE  /\ r[e] \in Channels /\ r[e].task = ch["srv"][e].task
                /\ Milder(ch["srv"][e], r[e]) /\ Stays(ch["srv"][e], r[e])
                /\ Twins(ch["srv"][e], r[e]) /\ (~ch["srv"][e].entry => r[e] = ch["srv"][e])
    <2> DEFINE x == ch["srv"][e]
    <2>1. x \in Channels BY <1>2, <1>3
    <2>2. r[e] = x \/ r[e] = Dropped(x) BY DEF Retained
    <2>3. /\ Dropped(x) \in Channels /\ Dropped(x).task = x.task
          /\ Milder(x, Dropped(x)) /\ Stays(x, Dropped(x))
          /\ Twins(x, Dropped(x)) /\ (~x.entry => Dropped(x) = x)
      BY Zenon, <1>5, <2>1, DroppedMilder
    <2>4. Milder(x, x)
      <3>1. Taken(x) <= Taken(x) BY <2>1 DEF LinkLaws, TakenNatLaw
      <3> QED BY Zenon, <1>5, <3>1 DEF Milder
    <2>5. Stays(x, x) /\ Twins(x, x) BY DEF Stays, Twins
    <2> HIDE DEF r
    <2> QED BY Zenon, <2>1, <2>2, <2>3, <2>4, <2>5
  <1>11. r[c] = NoChannel BY Zenon, <1>9, <1>10, NoChannelFacts
  <1>12. r = [e \in Ids |-> r[e]] BY DEF Retained
  <1>13. stream' = [stream EXCEPT !["srv"] = Tail(q)] \/ stream' = [stream EXCEPT !["srv"] = Tail(q), !["ctl"] = Append(@, g)]
    BY <1>2, <1>3 DEF OnOpen, Consumed
  <1>14. \/ /\ ch' = [ch EXCEPT !["srv"] = [r EXCEPT ![c] = z1]]
         \/ /\ ch' = [ch EXCEPT !["srv"] = [r EXCEPT ![c] = z2]]
            /\ stream' = [stream EXCEPT !["srv"] = Tail(q)]
    <2>1. \/ ch' = [ch EXCEPT !["srv"] = [r EXCEPT ![c].task = "done"]]
          \/ /\ ch' = [ch EXCEPT !["srv"] = [r EXCEPT ![c].entry = TRUE, ![c].task = "connecting"]]
             /\ stream' = [stream EXCEPT !["srv"] = Tail(q)]
      BY Zenon DEF OnOpen, Consumed
    <2>2. [r EXCEPT ![c].task = "done"] = [r EXCEPT ![c] = z1]
      <3> HIDE DEF r
      <3> QED BY <1>11
    <2>3. [r EXCEPT ![c].entry = TRUE, ![c].task = "connecting"] = [r EXCEPT ![c] = z2]
      <3> HIDE DEF r
      <3> QED BY Zenon, <1>11, <1>12
    <2> HIDE DEF r, z1, z2
    <2> QED BY Zenon, <2>1, <2>2, <2>3
  <1>15. /\ z1 \in Channels /\ z1.task = "done" /\ z1.inbox = <<>> /\ z1.pending = 0
         /\ z1.sent = 0 /\ z1.written = 0 /\ z1.down = "run"
         /\ z2 \in Channels /\ z2.task = "connecting" /\ z2.inbox = <<>> /\ z2.pending = 0
         /\ z2.sent = 0 /\ z2.written = 0 /\ z2.down = "run"
    BY Zenon, NoChannelFacts DEF Channels
  <1> HIDE DEF r, z1, z2, f, g
  <1>16. PICK z \in {z1, z2} :
            /\ ch' = [ch EXCEPT !["srv"] = [r EXCEPT ![c] = z]]
            /\ z = z1 \/ stream' = [stream EXCEPT !["srv"] = Tail(q)]
    BY <1>14
  <1>17. /\ z \in Channels /\ z.task # "none" /\ z.inbox = <<>> /\ z.pending = 0
         /\ z.sent = 0 /\ z.written = 0 /\ z.down = "run" /\ (z = z1 => z.task = "done")
    BY <1>15
  <1>18. /\ \A e \in Ids : ch'["ctl"][e] = ch["ctl"][e]
         /\ \A e \in Ids : ch'["srv"][e] = IF e = c THEN z ELSE r[e]
    BY <1>2, <1>3, <1>12, <1>16
  <1>19. /\ stream'["srv"] = Tail(q)
         /\ \/ stream'["ctl"] = stream["ctl"]
            \/ z = z1 /\ stream'["ctl"] = Append(stream["ctl"], g)
    BY <1>2, <1>3, <1>13, <1>16
  <1>20. ASSUME NEW e \in Ids
         PROVE  /\ ch'["srv"][e] \in Channels /\ Milder(ch["srv"][e], ch'["srv"][e])
                /\ Stays(ch["srv"][e], ch'["srv"][e])
    <2>1. CASE e = c
      <3>1. Milder(NoChannel, z) BY <1>17, MilderStart
      <3>2. Stays(NoChannel, z) BY <1>17, NoChannelFacts DEF Stays
      <3> QED BY Zenon, <1>9, <1>17, <1>18, <2>1, <3>1, <3>2
    <2>2. CASE e # c BY Zenon, <1>10, <1>18, <2>2
    <2> QED BY <2>1, <2>2
  <1>21. Behind("srv")' = Behind("srv") /\ Behind("ctl") = <<>> /\ Behind("ctl")' = <<>>
    BY <1>1 DEF Behind
  <1>22. ASSUME NEW e \in Ids
         PROVE  Link(ch'["srv"][e], ch'["ctl"][e], stream'["srv"], Behind("srv")',
                     loop["srv"] = "run", loop["ctl"] # "gone", e)
    <2> DEFINE x == ch["srv"][e]
               y == ch["ctl"][e]
    <2>1. Link(x, y, q, Behind("srv"), loop["srv"] = "run", loop["ctl"] # "gone", e)
      BY <1>3, LinkOf
    <2>2. Alike(q, Tail(q), e) /\ Tail(q) \in Seq(Frames)
      <3>1. Tail(q) \in Seq(Frames) BY <1>1, <1>3
      <3> HIDE DEF q
      <3>2. Alike(q, Tail(q), e) BY Zenon, <1>1, <1>3, <1>4 DEF LinkLaws, AlikeTailLaw
      <3> QED BY <3>1, <3>2
    <2>3. Link(x, y, Tail(q), Behind("srv"), loop["srv"] = "run", loop["ctl"] # "gone", e)
      BY <2>1, <2>2, AlikeSame DEF LinkLaws, LinkAlikeLaw
    <2>4. Link(ch'["srv"][e], y, Tail(q), Behind("srv"), loop["srv"] = "run", loop["ctl"] # "gone", e)
      BY Zenon, <1>2, <1>3, <1>20, <2>2, <2>3 DEF LinkLaws, LinkMilderLaw
    <2> QED BY Zenon, <1>18, <1>19, <1>21, <2>4
  <1>23. ASSUME NEW e \in Ids
         PROVE  Link(ch'["ctl"][e], ch'["srv"][e], stream'["ctl"], Behind("ctl")',
                     loop["ctl"] = "run", loop["srv"] # "gone", e)
    <2> DEFINE x == ch["ctl"][e]
               y == ch["srv"][e]
               w == ch'["srv"][e]
               p == stream["ctl"]
    <2>1. Link(x, y, p, <<>>, loop["ctl"] = "run", loop["srv"] # "gone", e)
      BY <1>3, <1>21, LinkOf
    <2>2. Link(x, w, p, <<>>, loop["ctl"] = "run", loop["srv"] # "gone", e)
      BY Zenon, <1>20, <2>1 DEF LinkLaws, LinkSenderLaw
    <2>3. CASE stream'["ctl"] = p BY Zenon, <1>18, <1>21, <2>2, <2>3
    <2>4. CASE z = z1 /\ stream'["ctl"] = Append(p, g) /\ e # c
      <3>1. Alike(p, Append(p, g), e) BY <1>2, <1>3, <1>4, <2>4 DEF LinkLaws, AlikeAppendLaw
      <3>2. Link(x, w, Append(p, g), <<>>, loop["ctl"] = "run", loop["srv"] # "gone", e)
        BY Zenon, <2>2, <3>1, AlikeSame DEF LinkLaws, LinkAlikeLaw
      <3> QED BY Zenon, <1>18, <1>21, <2>4, <3>2
    <2>5. CASE z = z1 /\ stream'["ctl"] = Append(p, g) /\ e = c
      <3>1. Quits(y, w)
        BY Zenon, <1>9, <1>17, <1>18, <2>5, NoChannelFacts DEF Quits
      <3>2. loop["srv"] # "gone" BY <1>1
      <3>3. Link(x, y, p, <<>>, loop["ctl"] = "run", TRUE, e) BY Zenon, <2>1, <3>2, LinkThere
      <3>4. g \in Lasts(e) /\ p \in Seq(Frames) /\ <<>> \in Seq(Frames)
        BY <1>2, <1>3, <1>4, <2>5
      <3>5. Link(x, w, Append(p, g), <<>>, loop["ctl"] = "run", TRUE, e)
        <4> HIDE DEF x, y, w, p
        <4>1. SentOn(p, <<>>, Append(p, g), <<>>, g) BY Zenon DEF SentOn
        <4> QED BY Zenon, <3>1, <3>3, <3>4, <4>1 DEF LinkLaws, LinkLastLaw
      <3>6. Link(x, w, Append(p, g), <<>>, loop["ctl"] = "run", loop["srv"] # "gone", e)
        BY Zenon, <3>2, <3>5, LinkThere
      <3> QED BY Zenon, <1>18, <1>21, <2>5, <3>6
    <2> QED BY Zenon, <1>19, <2>3, <2>4, <2>5
  <1>24. Links' BY Zenon, <1>1, <1>3, <1>22, <1>23, BothSides DEF Links
  <1>25. Fresh' BY <1>1, <1>18 DEF RInv, Rest, Fresh
  <1>26. Blank'
    <2>1. ASSUME NEW e \in Ids, ch'["srv"][e].task = "none" PROVE ch'["srv"][e] = NoChannel
      <3>1. e # c BY <1>17, <1>18, <2>1
      <3>2. ch'["srv"][e] = r[e] /\ ch["srv"][e].task = "none" BY Zenon, <1>10, <1>18, <2>1, <3>1
      <3>3. ch["srv"][e] = NoChannel BY <1>3, <3>2 DEF RInv, Rest, Blank
      <3> QED BY Zenon, <1>10, <3>2, <3>3, NoChannelFacts
    <2>2. \A e \in Ids : ch["ctl"][e].task = "none" => ch["ctl"][e] = NoChannel
      BY <1>3 DEF RInv, Rest, Blank
    <2> QED BY Zenon, <1>18, <2>1, <2>2, BothSides DEF Blank
  <1>27. ASSUME NEW e \in Ids
         PROVE  Once(ch'["srv"][e], ch'["ctl"][e], stream'["srv"], dataQ', e)
    <2>1. CASE e = c
      <3>1. Count(stream'["srv"], f) + Count(dataQ', f) = 0 BY Zenon, <1>1, <1>8, <1>19
      <3>2. ch'["ctl"][e].task \notin {"none", "opening"} BY Zenon, <1>9, <1>18, <2>1
      <3> QED BY Zenon, <2>1, <3>1, <3>2, OnceNone DEF f
    <2>2. CASE e # c
      <3>1. Once(ch["srv"][e], ch["ctl"][e], q, dataQ, e) BY DEF RInv, Rest, OpensOnce
      <3>2. SameOpens(q, Tail(q), e)
        <4>1. Head(q) # Frame("open", e) BY Zenon, <1>1, <1>4, <2>2
        <4> QED BY Zenon, <1>1, <1>3, <4>1 DEF LinkLaws, AlikeTailLaw
      <3>3. ch'["srv"][e].task = ch["srv"][e].task /\ ch'["ctl"][e] = ch["ctl"][e]
        BY Zenon, <1>10, <1>18, <2>2
      <3> QED BY Zenon, <1>1, <1>19, <3>1, <3>2, <3>3 DEF Once, SameOpens
    <2> QED BY <2>1, <2>2
  <1>28. Move(ch["srv"][c], ch[Peer("srv")][c], z, "srv")
    BY Zenon, <1>3, <1>9, <1>17, NoChannelFacts DEF Move
  <1>29. \A t \in Side, e \in Ids : (t = "srv" /\ e = c) \/ Twins(ch[t][e], ch'[t][e])
    <2>1. \A e \in Ids : Twins(ch["ctl"][e], ch'["ctl"][e]) BY Zenon, <1>18 DEF Twins
    <2>2. \A e \in Ids : e = c \/ Twins(ch["srv"][e], ch'["srv"][e]) BY Zenon, <1>10, <1>18
    <2> QED BY Zenon, <2>1, <2>2, BothSides
  <1>30. Allowed
    <2>1. ch'["srv"][c] = z BY Zenon, <1>18
    <2> QED BY Zenon, <1>3, <1>28, <1>29, <2>1, Moves DEF RInv
  <1> QED BY Zenon, <1>1, <1>24, <1>25, <1>26, <1>27, <1>30, CtrlSame DEF Rest, OpensOnce

-----------------------------------------------------------------------------
LEMMA InitRefines == ASSUME LinkLaws PROVE Init => RInv /\ Channel!Init
  <1> SUFFICES ASSUME Init PROVE RInv /\ Channel!Init OBVIOUS
  <1>1. /\ \A t \in Side, e \in Ids : ch[t][e] = NoChannel
        /\ \A t \in Side : stream[t] = <<>> /\ Behind(t) = <<>> /\ loop[t] = "run"
        /\ dataQ = <<>> /\ ctrlQ = <<>>
    BY DEF Init, Behind
  <1>2. /\ \A e : Count(<<>>, e) = 0
        /\ \A E : ~Meets(<<>>, E)
        /\ \A E, e : Tidy(<<>>, E, e)
    BY DEF LinkLaws, CountEmptyLaw, MeetsEmptyLaw, TidyEmptyLaw
  <1>3. Taken(NoChannel) = 0 BY <1>2, NoChannelFacts DEF Taken
  <1>4. ASSUME NEW c, NEW run, NEW there
        PROVE  Link(NoChannel, NoChannel, <<>>, <<>>, run, there, c)
    <2>1. Ordered(NoChannel, <<>>, <<>>, c) BY <1>2 DEF Ordered
    <2>2. Counted(NoChannel, NoChannel, <<>>, <<>>, run, there, c)
      BY Zenon, <1>2, <1>3, NoChannelFacts, CountedNone
    <2>3. Closed(NoChannel, NoChannel) BY <1>2, NoChannelFacts DEF Closed
    <2> QED BY <2>1, <2>2, <2>3 DEF Link
  <1>5. ASSUME NEW s \in Side, NEW c \in Ids
        PROVE  Link(ch[s][c], ch[Peer(s)][c], stream[s], Behind(s), loop[s] = "run", loop[Peer(s)] # "gone", c)
    <2>1. /\ ch[s][c] = NoChannel /\ ch[Peer(s)][c] = NoChannel
          /\ stream[s] = <<>> /\ Behind(s) = <<>>
      BY Zenon, <1>1, PeerFacts
    <2>2. Link(NoChannel, NoChannel, <<>>, <<>>, loop[s] = "run", loop[Peer(s)] # "gone", c)
      BY Zenon, <1>4
    <2> QED BY <2>1, <2>2
  <1>6. OpensOnce
    <2>1. ASSUME NEW c \in Ids PROVE Once(NoChannel, NoChannel, <<>>, <<>>, c)
      <3>1. Count(<<>>, Frame("open", c)) + Count(<<>>, Frame("open", c)) = 0 BY <1>2
      <3> QED BY Zenon, <3>1, NoChannelFacts, OnceNone
    <2> QED BY Zenon, <1>1, <2>1, BothSides DEF OpensOnce
  <1>7. Fresh /\ Blank /\ CtrlUpdates BY SMTT(30), <1>1, NoChannelFacts, BothSides DEF Fresh, Blank, CtrlUpdates
  <1>8. RInv BY Zenon, <1>5, <1>6, <1>7 DEF RInv, Rest, Links, LinkLaws, InvariantLaw
  <1>9. Seen("none") = "idle" BY DEF Seen
  <1>10. /\ AState = [s \in Side |-> [c \in Ids |-> "idle"]]
         /\ ASent = [s \in Side |-> [c \in Ids |-> 0]]
         /\ AReceived = [s \in Side |-> [c \in Ids |-> 0]]
    BY SMTT(30), <1>1, <1>9, NoChannelFacts DEF AState, ASent, AReceived
  <1>11. AClosed = [s \in Side |-> [c \in Ids |-> FALSE]]
    <2>1. \A s \in Side, c \in Ids : (ch[s][c].down = "PeerClosed") = FALSE
      BY <1>1, NoChannelFacts
    <2> QED BY Zenon, <2>1 DEF AClosed
  <1>12. Channel!Init
    BY Zenon, <1>10, <1>11, SameSides DEF Channel!Init, Channel!All, AState, ASent, AReceived, AClosed
  <1> QED BY <1>8, <1>12

LEMMA StepRefines ==
    ASSUME LinkLaws PROVE RInv /\ [Next]_vars => RInv' /\ [Channel!Next]_(Channel!chanVars)
  <1> SUFFICES ASSUME RInv, [Next]_vars PROVE RInv' /\ Allowed BY DEF Allowed
  <1>1. CASE UNCHANGED vars
    <2>1. UNCHANGED <<dataQ, stream>> /\ UNCHANGED <<ch, loop, nextId>> /\ UNCHANGED ctrlQ
      BY <1>1 DEF vars
    <2>2. Rest' /\ Allowed BY <2>1, SameQueues, CtrlSame, StillStep
    <2> QED BY <2>2 DEF RInv, LinkLaws, InvariantLaw
  <1>2. CASE Next
    <2>1. ASSUME NEW c \in Ids,
                 \/ SendOpen(c) \/ ConnectingCommand(c) \/ Connected(c) \/ ConnectFails(c)
                 \/ OnRefused(c) \/ OnOpen(c)
          PROVE  Rest' /\ Allowed
      BY <2>1, SendOpenRefines, ConnectingRefines, OnLastRefines, OnOpenRefines, BothSides
    <2>2. ASSUME NEW s \in Side, NEW c \in Ids,
                 ReadSocket(s, c) \/ ReadEof(s, c) \/ WriteSocket(s, c) \/ WriteFails(s, c)
          PROVE  Rest' /\ Allowed
      BY <2>2, HalfRefines, WriteSocketRefines
    <2>3. ASSUME NEW s \in Side, NEW c \in Ids, TaskStep(s, c) PROVE Rest' /\ Allowed
      BY <2>3, SendDataRefines, HalfRefines, JoinHalvesRefines, SendCloseRefines DEF TaskStep
    <2>4. ASSUME NEW s \in Side, NEW c \in Ids, FrameStep(s, c) PROVE Rest' /\ Allowed
      BY <2>4, OnDataRefines, OnLastRefines, OnCreditRefines DEF FrameStep
    <2>5. ASSUME NEW s \in Side, BreakLocally(s) \/ LoopGone(s) PROVE Rest' /\ Allowed
      BY <2>5, CloseAllRefines, LoopGoneRefines DEF BreakLocally
    <2>6. Rest' /\ Allowed
      BY <1>2, <2>1, <2>2, <2>3, <2>4, <2>5, OpenRefines, PumpDataRefines, PumpControlRefines
      DEF Next
    <2> QED BY <2>6 DEF RInv, LinkLaws, InvariantLaw
  <1> QED BY <1>1, <1>2

=============================================================================
