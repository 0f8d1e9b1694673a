------------------------ MODULE PortForwardMuxProofs ------------------------
(* Proofs about the channels of a multiplexed tunnel, for any number of      *)
(* channels and frames and any length of the queues: IInv is inductive.      *)
EXTENDS PortForwardMuxInvariant, TLAPS

-----------------------------------------------------------------------------
LEMMA Sides == "ctl" \in Side /\ "srv" \in Side /\ \A s \in Side : s = "ctl" \/ s = "srv"
  BY DEF Side

LEMMA Elements ==
    /\ \A f \in Frames : f.id \in Ids
    /\ \A q \in Seq(Frames) : Len(q) \in Nat /\ \A i \in 1..Len(q) : q[i] \in Frames /\ q[i].id \in Ids
  <1>1. \A f \in Frames : f.id \in Ids BY DEF Frames
  <1> QED BY <1>1

\* A tunnel starts without channels.
LEMMA InitInv == Init => IInv
  <1> SUFFICES ASSUME Init PROVE IInv OBVIOUS
  <1>1. NoChannel \in Channels /\ ~Sending(NoChannel) /\ ~Full(NoChannel) /\ ~NoChannel.entry
    BY DEF NoChannel, Channels, Sending, Full
  <1>2. Types BY <1>1 DEF Init, Types
  <1> QED BY <1>1, <1>2, Sides
        DEF Init, IInv, Silent, FromSrv, InboxKnown, Answers, Ahead, Queued, Started, LiveEntries

\* What a step may do to the channels: the peer forgets none, a task that goes
\* on sending was sending before or has its `open' in the queue, and what a
\* task finds in its queue comes from a peer that knows the channel.
ChOk ==
    /\ ch' \in [Side -> [Ids -> Channels]]
    /\ \A c \in Ids : Known(ch, c) => Known(ch', c)
    /\ \A c \in Ids : Sending(ch'["ctl"][c]) =>
            Sending(ch["ctl"][c]) \/ Announces(dataQ', Len(dataQ'), c)
    /\ \A c \in Ids : Full(ch'["ctl"][c]) => Full(ch["ctl"][c]) \/ Known(ch', c)
    /\ LiveEntries'

LEMMA ChSame == ASSUME IInv, UNCHANGED ch PROVE ChOk
  BY DEF IInv, Types, ChOk, Known, LiveEntries

\* One end of one channel changes.
LEMMA ChOne ==
    ASSUME IInv, NEW s \in Side, NEW c \in Ids, NEW x \in Channels,
           ch' = [ch EXCEPT ![s][c] = x],
           s = "srv" => (ch[s][c].task # "none" => x.task # "none"),
           s = "ctl" => /\ Sending(x) => Sending(ch[s][c]) \/ Announces(dataQ', Len(dataQ'), c)
                        /\ Full(x) => Full(ch[s][c]) \/ Known(ch, c)
                        /\ x.entry => x.task \notin {"none", "done"}
    PROVE  ChOk /\ (x.task # "none" /\ s = "srv" => Known(ch', c))
  <1>1. ch' \in [Side -> [Ids -> Channels]] BY DEF IInv, Types
  <1>2. \A t \in Side, d \in Ids : ch'[t][d] = IF t = s /\ d = c THEN x ELSE ch[t][d]
    BY DEF IInv, Types
  <1>3. \A d \in Ids : Known(ch, d) => Known(ch', d) BY <1>2, Sides DEF Known
  <1>4. \A d \in Ids : Sending(ch'["ctl"][d]) =>
                        Sending(ch["ctl"][d]) \/ Announces(dataQ', Len(dataQ'), d)
    BY <1>2, Sides
  <1>5. \A d \in Ids : Full(ch'["ctl"][d]) => Full(ch["ctl"][d]) \/ Known(ch', d)
    <2> TAKE d \in Ids
    <2>1. CASE s = "ctl" /\ d = c BY Zenon, <1>2, <1>3, <2>1, Sides
    <2>2. CASE ~(s = "ctl" /\ d = c) BY <1>2, <2>2, Sides
    <2> QED BY <2>1, <2>2
  <1>6. LiveEntries' BY <1>2, Sides DEF IInv, LiveEntries
  <1> QED BY <1>1, <1>2, <1>3, <1>4, <1>5, <1>6 DEF ChOk, Known

-----------------------------------------------------------------------------
(* What the channels' change leaves of each conjunct while the queue it is    *)
(* about stays, grows at its end, or loses its head.                          *)

LEMMA FromSrvKept ==
    ASSUME IInv, ChOk,
           \/ stream'["ctl"] = stream["ctl"]
           \/ stream["ctl"] # <<>> /\ stream'["ctl"] = Tail(stream["ctl"])
           \/ stream'["ctl"] = <<>>
           \/ \E f \in Frames : stream'["ctl"] = Append(stream["ctl"], f) /\ Known(ch', f.id)
    PROVE  FromSrv'
  <1>1. stream["ctl"] \in Seq(Frames) BY Sides DEF IInv, Types
  <1>2. \A i \in 1..Len(stream["ctl"]) : stream["ctl"][i].id \in Ids /\ Known(ch', stream["ctl"][i].id)
    BY <1>1, Elements DEF IInv, FromSrv, ChOk
  <1>3. CASE stream'["ctl"] = stream["ctl"] BY <1>2, <1>3 DEF FromSrv
  <1>4. CASE stream["ctl"] # <<>> /\ stream'["ctl"] = Tail(stream["ctl"])
    <2>1. \A i \in 1..Len(stream'["ctl"]) : i + 1 \in 1..Len(stream["ctl"]) /\ stream'["ctl"][i] = stream["ctl"][i + 1]
      BY <1>1, <1>4
    <2> QED BY <1>2, <2>1 DEF FromSrv
  <1>5. CASE stream'["ctl"] = <<>> BY <1>5 DEF FromSrv
  <1>6. ASSUME NEW f \in Frames, stream'["ctl"] = Append(stream["ctl"], f), Known(ch', f.id) PROVE FromSrv'
    <2>1. \A i \in 1..Len(stream'["ctl"]) : stream'["ctl"][i] = f \/ (i \in 1..Len(stream["ctl"]) /\ stream'["ctl"][i] = stream["ctl"][i])
      BY <1>1, <1>6
    <2> QED BY <1>2, <1>6, <2>1 DEF FromSrv
  <1> QED BY <1>3, <1>4, <1>5, <1>6

LEMMA AnswersKept ==
    ASSUME IInv, ChOk,
           \/ ctrlQ' = ctrlQ
           \/ ctrlQ # <<>> /\ ctrlQ' = Tail(ctrlQ)
           \/ ctrlQ' = <<>>
           \/ \E f \in Frames : ctrlQ' = Append(ctrlQ, f) /\ Known(ch', f.id)
    PROVE  Answers'
  <1>1. ctrlQ \in Seq(Frames) BY DEF IInv, Types
  <1>2. \A i \in 1..Len(ctrlQ) : ctrlQ[i].id \in Ids /\ Known(ch', ctrlQ[i].id)
    BY <1>1, Elements DEF IInv, Answers, ChOk
  <1>3. CASE ctrlQ' = ctrlQ BY <1>2, <1>3 DEF Answers
  <1>4. CASE ctrlQ # <<>> /\ ctrlQ' = Tail(ctrlQ)
    <2>1. \A i \in 1..Len(ctrlQ') : i + 1 \in 1..Len(ctrlQ) /\ ctrlQ'[i] = ctrlQ[i + 1]
      BY <1>1, <1>4
    <2> QED BY <1>2, <2>1 DEF Answers
  <1>5. CASE ctrlQ' = <<>> BY <1>5 DEF Answers
  <1>6. ASSUME NEW f \in Frames, ctrlQ' = Append(ctrlQ, f), Known(ch', f.id) PROVE Answers'
    <2>1. \A i \in 1..Len(ctrlQ') : ctrlQ'[i] = f \/ (i \in 1..Len(ctrlQ) /\ ctrlQ'[i] = ctrlQ[i])
      BY <1>1, <1>6
    <2> QED BY <1>2, <1>6, <2>1 DEF Answers
  <1> QED BY <1>3, <1>4, <1>5, <1>6

LEMMA InboxKept == ASSUME IInv, ChOk PROVE InboxKnown'
  BY DEF IInv, ChOk, InboxKnown

\* The stream to the peer, and what is queued behind it.
LEMMA StreamKept ==
    ASSUME IInv, ChOk, UNCHANGED <<dataQ, loop>>, stream'["srv"] = stream["srv"]
    PROVE  Silent' /\ Ahead' /\ Queued' /\ Started'
  <1>0. dataQ \in Seq(Frames) /\ stream["srv"] \in Seq(Frames) BY Sides DEF IInv, Types
  <1>1. \A c : OnStream(stream', c) <=> OnStream(stream, c) BY DEF OnStream, Announces
  <1>2. Silent' BY DEF IInv, Silent
  <1>3. Ahead' BY <1>0, Elements DEF IInv, ChOk, Ahead
  <1>4. Queued' BY <1>0, <1>1, Elements DEF IInv, ChOk, Queued
  <1>5. Started' BY <1>1 DEF IInv, ChOk, Started
  <1> QED BY <1>2, <1>3, <1>4, <1>5

\* The peer takes the head of the stream, and knows its channel by then.
LEMMA StreamPopped ==
    ASSUME IInv, ChOk, UNCHANGED <<dataQ, loop>>, stream["srv"] # <<>>, loop["srv"] = "run",
           stream'["srv"] = Tail(stream["srv"]), Known(ch', Head(stream["srv"]).id)
    PROVE  Silent' /\ Ahead' /\ Queued' /\ Started'
  <1> DEFINE q == stream["srv"]
  <1>0. dataQ \in Seq(Frames) /\ q \in Seq(Frames) BY Sides DEF IInv, Types
  <1>1. /\ Len(Tail(q)) = Len(q) - 1 /\ Len(q) \in Nat \ {0} /\ q[1] = Head(q)
        /\ \A i \in 1..(Len(q) - 1) : Tail(q)[i] = q[i + 1]
    BY <1>0
  <1>2. \A c, n : n \in 1..Len(q) /\ Announces(q, n, c) =>
            Known(ch', c) \/ Announces(Tail(q), n - 1, c)
    <2> SUFFICES ASSUME NEW c, NEW n \in 1..Len(q), NEW j \in 1..n, q[j] = Frame("open", c)
                 PROVE  Known(ch', c) \/ Announces(Tail(q), n - 1, c)
      BY DEF Announces
    <2>1. CASE j = 1 BY <1>1, <2>1 DEF Frame
    <2>2. CASE j # 1
      <3>1. j - 1 \in 1..(n - 1) /\ Tail(q)[j - 1] = q[j] BY <1>1, <2>2
      <3> QED BY <3>1 DEF Announces
    <2> QED BY <2>1, <2>2
  <1>3. \A c : OnStream(stream, c) => Known(ch', c) \/ OnStream(stream', c)
    BY <1>1, <1>2 DEF OnStream
  <1>4. Silent' BY DEF Silent
  <1>5. Ahead'
    <2> SUFFICES ASSUME NEW i \in 1..(Len(q) - 1)
                 PROVE  Known(ch', Tail(q)[i].id) \/ Announces(Tail(q), i, Tail(q)[i].id)
      BY <1>1 DEF Ahead
    <2>1. i + 1 \in 1..Len(q) /\ Tail(q)[i] = q[i + 1] /\ q[i + 1] \in Frames BY <1>0, <1>1
    <2>2. Known(ch, q[i + 1].id) \/ Announces(q, i + 1, q[i + 1].id) BY <2>1 DEF IInv, Ahead
    <2>3. Known(ch, q[i + 1].id) => Known(ch', q[i + 1].id) BY <2>1 DEF ChOk, Frames
    <2>4. (i + 1) - 1 = i OBVIOUS
    <2> QED BY <1>2, <2>1, <2>2, <2>3, <2>4
  <1>6. Queued' BY <1>0, <1>3, Elements DEF IInv, ChOk, Queued
  <1>7. Started' BY <1>3 DEF IInv, ChOk, Started
  <1> QED BY <1>4, <1>5, <1>6, <1>7

\* A task puts a frame into the ordered queue: its `open', or one that
\* follows it.
LEMMA DataPushed ==
    ASSUME IInv, ChOk, UNCHANGED loop, stream'["srv"] = stream["srv"],
           NEW f \in Frames, dataQ' = Append(dataQ, f),
           \/ f = Frame("open", f.id)
           \/ Sending(ch["ctl"][f.id]) /\ loop["ctl"] # "gone"
    PROVE  Silent' /\ Ahead' /\ Queued' /\ Started'
  <1>0. dataQ \in Seq(Frames) /\ stream["srv"] \in Seq(Frames) /\ f.id \in Ids
    BY Sides, Elements DEF IInv, Types
  <1>1. \A c : OnStream(stream', c) <=> OnStream(stream, c) BY DEF OnStream, Announces
  <1>2. Silent' BY DEF IInv, Silent
  <1>3. Ahead' BY <1>0, Elements DEF IInv, ChOk, Ahead
  <1>4. /\ Len(dataQ') = Len(dataQ) + 1 /\ Len(dataQ) \in Nat /\ dataQ'[Len(dataQ) + 1] = f
        /\ \A i \in 1..Len(dataQ) : dataQ'[i] = dataQ[i]
    BY <1>0
  <1>5. \A c, n : n \in 1..Len(dataQ) /\ Announces(dataQ, n, c) =>
                    Announces(dataQ', n, c) /\ Announces(dataQ', Len(dataQ) + 1, c)
    BY <1>4 DEF Announces
  <1>6. Announces(dataQ, Len(dataQ), f.id) => Announces(dataQ', Len(dataQ) + 1, f.id)
    BY <1>4 DEF Announces
  <1>7. f = Frame("open", f.id) => Announces(dataQ', Len(dataQ) + 1, f.id)
    BY <1>4 DEF Announces
  <1>8. Queued'
    <2> SUFFICES ASSUME loop["srv"] = "run", NEW i \in 1..(Len(dataQ) + 1)
                 PROVE  LET c == dataQ'[i].id IN
                          Known(ch', c) \/ OnStream(stream', c) \/ Announces(dataQ', i, c)
      BY <1>4 DEF Queued
    <2>1. CASE i \in 1..Len(dataQ)
      <3>1. dataQ'[i] = dataQ[i] /\ dataQ[i].id \in Ids BY <1>0, <1>4, <2>1, Elements
      <3>2. \/ Known(ch, dataQ[i].id) \/ OnStream(stream, dataQ[i].id)
            \/ Announces(dataQ, i, dataQ[i].id)
        BY <2>1 DEF IInv, Queued
      <3> QED BY <1>1, <1>5, <2>1, <3>1, <3>2 DEF ChOk
    <2>2. CASE i = Len(dataQ) + 1
      <3>1. dataQ'[i] = f BY <1>4, <2>2
      <3>2. Sending(ch["ctl"][f.id]) /\ loop["ctl"] # "gone" =>
              Known(ch, f.id) \/ OnStream(stream, f.id) \/ Announces(dataQ, Len(dataQ), f.id)
        BY <1>0 DEF IInv, Started
      <3> QED BY <1>0, <1>1, <1>6, <1>7, <2>2, <3>1, <3>2 DEF ChOk
    <2> QED BY <1>4, <2>1, <2>2
  <1>9. Started'
    <2> SUFFICES ASSUME loop["srv"] = "run", loop["ctl"] # "gone", NEW c \in Ids,
                        Sending(ch'["ctl"][c])
                 PROVE  Known(ch', c) \/ OnStream(stream', c) \/ Announces(dataQ', Len(dataQ'), c)
      BY DEF Started
    <2>1. CASE Announces(dataQ', Len(dataQ'), c) BY <2>1
    <2>2. CASE Sending(ch["ctl"][c])
      <3>1. Known(ch, c) \/ OnStream(stream, c) \/ Announces(dataQ, Len(dataQ), c)
        BY <2>2 DEF IInv, Started
      <3>2. Announces(dataQ, Len(dataQ), c) => Announces(dataQ', Len(dataQ'), c)
        BY <1>4 DEF Announces
      <3> QED BY <1>1, <3>1, <3>2 DEF ChOk
    <2> QED BY <2>1, <2>2 DEF ChOk
  <1> QED BY <1>2, <1>3, <1>8, <1>9

\* A frame is put on the stream behind what is there.
LEMMA Pushed ==
    ASSUME IInv, ChOk, UNCHANGED loop, loop["srv"] = "run",
           NEW f \in Frames, stream'["srv"] = Append(stream["srv"], f),
           Known(ch', f.id) \/ OnStream(stream, f.id) \/ f = Frame("open", f.id)
    PROVE  /\ Silent' /\ Ahead' /\ \A c : OnStream(stream, c) => OnStream(stream', c)
           /\ f = Frame("open", f.id) => OnStream(stream', f.id)
  <1> DEFINE q == stream["srv"]
             r == stream'["srv"]
  <1>0. q \in Seq(Frames) /\ f.id \in Ids BY Sides, Elements DEF IInv, Types
  <1>1. /\ Len(r) = Len(q) + 1 /\ Len(q) \in Nat /\ r[Len(q) + 1] = f
        /\ \A i \in 1..Len(q) : r[i] = q[i]
    BY <1>0
  <1>2. \A c, n : n \in 1..Len(q) /\ Announces(q, n, c) => Announces(r, n, c)
    BY <1>1 DEF Announces
  <1>3. \A c : OnStream(stream, c) => OnStream(stream', c)
    BY <1>1 DEF OnStream, Announces
  <1>4. f = Frame("open", f.id) => OnStream(stream', f.id)
    BY <1>1 DEF OnStream, Announces
  <1>5. Ahead'
    <2> SUFFICES ASSUME NEW i \in 1..(Len(q) + 1)
                 PROVE  Known(ch', r[i].id) \/ Announces(r, i, r[i].id)
      BY <1>1 DEF Ahead
    <2>1. CASE i \in 1..Len(q)
      <3>1. r[i] = q[i] /\ q[i].id \in Ids BY <1>0, <1>1, <2>1, Elements
      <3>2. Known(ch, q[i].id) \/ Announces(q, i, q[i].id) BY <2>1 DEF IInv, Ahead
      <3> QED BY <1>2, <2>1, <3>1, <3>2 DEF ChOk
    <2>2. CASE i = Len(q) + 1
      <3>1. r[i] = f /\ i = Len(r) BY <1>1, <2>2
      <3> QED BY <1>3, <1>4, <3>1 DEF OnStream
    <2> QED BY <1>1, <2>1, <2>2
  <1>6. Silent' BY DEF Silent
  <1> QED BY <1>3, <1>4, <1>5, <1>6

\* tunnel_loop moves a frame to the stream, from one queue or the other; a
\* peer that no longer reads gets nothing.
LEMMA PumpDataInv == ASSUME IInv, PumpData PROVE IInv'
  <1> DEFINE f == Head(dataQ)
  <1>0. /\ dataQ \in Seq(Frames) /\ dataQ # <<>> /\ stream \in [Side -> Seq(Frames)]
        /\ UNCHANGED <<ch, ctrlQ, loop, nextId>> /\ dataQ' = Tail(dataQ)
        /\ stream' = IF loop["srv"] = "run" THEN [stream EXCEPT !["srv"] = Append(@, f)] ELSE stream
    BY DEF IInv, Types, PumpData, Sent
  <1>1. /\ Len(dataQ) \in Nat \ {0} /\ Len(dataQ') = Len(dataQ) - 1 /\ f = dataQ[1]
        /\ \A i \in 1..(Len(dataQ) - 1) : dataQ'[i] = dataQ[i + 1]
    BY <1>0
  <1>2. f \in Frames /\ f.id \in Ids /\ dataQ' \in Seq(Frames) /\ stream' \in [Side -> Seq(Frames)]
    BY <1>0, <1>1, Elements, Sides
  <1>3. ChOk BY <1>0, ChSame
  <1>4. Types' BY <1>0, <1>2 DEF IInv, Types
  <1>5. stream'["ctl"] = stream["ctl"] BY <1>0, Sides
  <1>6. FromSrv' /\ Answers' /\ InboxKnown'
    BY <1>0, <1>3, <1>5, FromSrvKept, AnswersKept, InboxKept
  <1>7. CASE loop["srv"] # "run"
    <2>1. stream' = stream BY <1>0, <1>7
    <2>2. Silent' /\ Ahead' BY <1>0, <2>1 DEF IInv, Silent, Ahead, Announces
    <2>3. Queued' /\ Started' BY <1>0, <1>7 DEF Queued, Started
    <2> QED BY <1>3, <1>4, <1>6, <2>2, <2>3 DEF IInv, ChOk
  <1>8. CASE loop["srv"] = "run"
    <2>1. stream'["srv"] = Append(stream["srv"], f) BY <1>0, <1>8, Sides
    <2>2. Known(ch, f.id) \/ OnStream(stream, f.id) \/ Announces(dataQ, 1, f.id)
      BY <1>1, <1>8 DEF IInv, Queued
    <2>3. Announces(dataQ, 1, f.id) => f = Frame("open", f.id) BY <1>1 DEF Announces
    <2>4. UNCHANGED loop /\ (Known(ch', f.id) \/ OnStream(stream, f.id) \/ f = Frame("open", f.id))
      BY <1>0, <2>2, <2>3
    <2>5. /\ Silent' /\ Ahead' /\ \A c : OnStream(stream, c) => OnStream(stream', c)
          /\ f = Frame("open", f.id) => OnStream(stream', f.id)
      BY <1>2, <1>3, <1>8, <2>1, <2>4, Pushed
    <2>6. \A c, n : n \in 1..Len(dataQ) /\ Announces(dataQ, n, c) =>
              OnStream(stream', c) \/ Announces(dataQ', n - 1, c)
      <3> SUFFICES ASSUME NEW c, NEW n \in 1..Len(dataQ), NEW j \in 1..n, dataQ[j] = Frame("open", c)
                   PROVE  OnStream(stream', c) \/ Announces(dataQ', n - 1, c)
        BY DEF Announces
      <3>1. CASE j = 1
        <4>1. f = Frame("open", c) /\ f.id = c BY <1>1, <3>1 DEF Frame
        <4> QED BY <2>5, <4>1
      <3>2. CASE j # 1
        <4>1. j - 1 \in 1..(n - 1) /\ dataQ'[j - 1] = dataQ[j] BY <1>1, <3>2
        <4> QED BY <4>1 DEF Announces
      <3> QED BY <3>1, <3>2
    <2>7. Queued'
      <3> SUFFICES ASSUME NEW i \in 1..(Len(dataQ) - 1)
                   PROVE  LET c == dataQ'[i].id IN
                            Known(ch', c) \/ OnStream(stream', c) \/ Announces(dataQ', i, c)
        BY <1>1 DEF Queued
      <3>1. i + 1 \in 1..Len(dataQ) /\ dataQ'[i] = dataQ[i + 1] /\ (i + 1) - 1 = i BY <1>1
      <3>2. LET c == dataQ[i + 1].id IN
              Known(ch, c) \/ OnStream(stream, c) \/ Announces(dataQ, i + 1, c)
        BY <1>8, <3>1 DEF IInv, Queued
      <3> QED BY Zenon, <1>0, <2>5, <2>6, <3>1, <3>2
    <2>8. Started'
      <3> SUFFICES ASSUME NEW c \in Ids, Sending(ch["ctl"][c])
                   PROVE  Known(ch', c) \/ OnStream(stream', c) \/ Announces(dataQ', Len(dataQ'), c)
        BY Zenon, <1>0 DEF Started
      <3>1. loop["ctl"] = "run" BY DEF PumpData
      <3>2. Known(ch, c) \/ OnStream(stream, c) \/ Announces(dataQ, Len(dataQ), c)
        BY <1>8, <3>1 DEF IInv, Started
      <3>3. Len(dataQ) \in 1..Len(dataQ) BY <1>1
      <3> QED BY Zenon, <1>0, <1>1, <2>5, <2>6, <3>2, <3>3
    <2> QED BY <1>3, <1>4, <1>6, <2>5, <2>7, <2>8 DEF IInv, ChOk
  <1> QED BY <1>7, <1>8

LEMMA PumpControlInv == ASSUME IInv, PumpControl PROVE IInv'
  <1> DEFINE f == Head(ctrlQ)
  <1>0. /\ ctrlQ \in Seq(Frames) /\ ctrlQ # <<>> /\ stream \in [Side -> Seq(Frames)]
        /\ UNCHANGED <<ch, dataQ, loop, nextId>> /\ ctrlQ' = Tail(ctrlQ)
        /\ stream' = IF loop["srv"] = "run" THEN [stream EXCEPT !["srv"] = Append(@, f)] ELSE stream
    BY DEF IInv, Types, PumpControl, Sent
  <1>1. f = ctrlQ[1] /\ 1 \in 1..Len(ctrlQ) /\ Len(ctrlQ) \in Nat BY <1>0
  <1>2. f \in Frames /\ f.id \in Ids /\ ctrlQ' \in Seq(Frames) /\ stream' \in [Side -> Seq(Frames)]
    BY <1>0, <1>1, Elements, Sides
  <1>3. ChOk /\ UNCHANGED loop BY <1>0, ChSame
  <1>4. Types' BY <1>0, <1>2 DEF IInv, Types
  <1>5. stream'["ctl"] = stream["ctl"] BY <1>0, Sides
  <1>6. FromSrv' /\ Answers' /\ InboxKnown'
    BY <1>0, <1>3, <1>5, FromSrvKept, AnswersKept, InboxKept
  <1>7. CASE loop["srv"] # "run"
    <2>1. stream' = stream BY <1>0, <1>7
    <2>2. UNCHANGED <<dataQ, loop>> /\ stream'["srv"] = stream["srv"] BY <1>0, <2>1
    <2>3. Silent' /\ Ahead' /\ Queued' /\ Started' BY <1>3, <2>2, StreamKept
    <2> QED BY <1>3, <1>4, <1>6, <2>3 DEF IInv, ChOk
  <1>8. CASE loop["srv"] = "run"
    <2>1. stream'["srv"] = Append(stream["srv"], f) BY <1>0, <1>8, Sides
    <2>2. Known(ch, f.id) BY <1>1 DEF IInv, Answers
    <2>3. Known(ch', f.id) BY <1>0, <2>2
    <2>4. Silent' /\ Ahead' /\ \A c : OnStream(stream, c) => OnStream(stream', c)
      BY <1>2, <1>3, <1>8, <2>1, <2>3, Pushed
    <2>5. Queued' BY Zenon, <1>0, <2>4 DEF IInv, Queued
    <2>6. Started' BY Zenon, <1>0, <2>4 DEF IInv, Started
    <2> QED BY <1>3, <1>4, <1>6, <2>4, <2>5, <2>6 DEF IInv, ChOk
  <1> QED BY <1>7, <1>8

\* A loop ends: nothing more is read at that end, and then nothing sent.
LEMMA CloseAllInv == ASSUME IInv, NEW s \in Side, CloseAll(s) PROVE IInv'
  <1>0. /\ UNCHANGED <<dataQ, ctrlQ, nextId>> /\ loop[s] = "run"
        /\ ch' = [ch EXCEPT ![s] = [c \in Ids |-> Dropped(ch[s][c])]]
        /\ stream' = [stream EXCEPT ![s] = <<>>]
        /\ loop' = [loop EXCEPT ![s] = "closing"]
    BY DEF CloseAll
  <1>1. \A x \in Channels : /\ Dropped(x) \in Channels /\ Dropped(x).task = x.task
                            /\ Dropped(x).inbox = x.inbox /\ Dropped(x).pending = x.pending
                            /\ Dropped(x).entry = FALSE
    BY Zenon DEF Dropped, Channels
  <1>2. \A t \in Side, c \in Ids : ch'[t][c] = IF t = s THEN Dropped(ch[s][c]) ELSE ch[t][c]
    BY <1>0 DEF IInv, Types
  <1>3. ch' \in [Side -> [Ids -> Channels]] BY <1>0, <1>1 DEF IInv, Types
  <1>4. \A t \in Side, c \in Ids :
          /\ ch'[t][c].task = ch[t][c].task
          /\ ch'[t][c].inbox = ch[t][c].inbox /\ ch'[t][c].pending = ch[t][c].pending
          /\ ch'[t][c].entry => ch[t][c].entry
    <2> TAKE t \in Side, c \in Ids
    <2>1. ch[t][c] \in Channels BY DEF IInv, Types
    <2>2. CASE t = s BY <1>1, <1>2, <2>1, <2>2
    <2>3. CASE t # s
      <3>1. ch'[t][c] = ch[t][c] BY <1>2, <2>3
      <3> QED BY <3>1
    <2> QED BY <2>2, <2>3
  <1>5. ChOk BY <1>3, <1>4, Sides DEF IInv, ChOk, Known, Sending, Full, LiveEntries
  <1>6. Types' BY <1>0, <1>3 DEF IInv, Types
  <1>7. stream'["ctl"] = stream["ctl"] \/ stream'["ctl"] = <<>> BY <1>0, Sides DEF IInv, Types
  <1>8. FromSrv' /\ Answers' /\ InboxKnown'
    BY <1>0, <1>5, <1>7, FromSrvKept, AnswersKept, InboxKept
  <1>9. CASE s = "srv"
    <2>1. stream'["srv"] = <<>> /\ loop'["srv"] # "run" BY <1>0, <1>9, Sides DEF IInv, Types
    <2>2. Silent' /\ Ahead' /\ Queued' /\ Started'
      BY <2>1 DEF Silent, Ahead, Queued, Started
    <2> QED BY <1>5, <1>6, <1>8, <2>2 DEF IInv, ChOk
  <1>10. CASE s = "ctl"
    <2>1. stream'["srv"] = stream["srv"] /\ loop'["srv"] = loop["srv"]
      BY <1>0, <1>10, Sides DEF IInv, Types
    <2>2. \A c : OnStream(stream', c) <=> OnStream(stream, c) BY <2>1 DEF OnStream, Announces
    <2>3. \A c \in Ids : Known(ch', c) <=> Known(ch, c) BY <1>4, Sides DEF Known
    <2>4. dataQ \in Seq(Frames) /\ stream["srv"] \in Seq(Frames) BY Sides DEF IInv, Types
    <2>5. Silent' BY <2>1 DEF IInv, Silent
    <2>6. Ahead' BY <2>1, <2>3, <2>4, Elements DEF IInv, Ahead
    <2>7. Queued' BY Zenon, <1>0, <2>1, <2>2, <2>3, <2>4, Elements DEF IInv, Queued
    <2>8. Started' BY Zenon, <1>0, <1>4, <1>10, <2>1, <2>2, <2>3, Sides DEF IInv, Started, Sending
    <2> QED BY <1>5, <1>6, <1>8, <2>5, <2>6, <2>7, <2>8 DEF IInv, ChOk
  <1> QED BY <1>9, <1>10, Sides

LEMMA LoopGoneInv == ASSUME IInv, NEW s \in Side, LoopGone(s) PROVE IInv'
  <1>0. /\ UNCHANGED <<ch, stream, nextId>> /\ loop[s] = "closing"
        /\ loop' = [loop EXCEPT ![s] = "gone"]
        /\ dataQ' = (IF s = "ctl" THEN <<>> ELSE dataQ)
        /\ ctrlQ' = (IF s = "ctl" THEN <<>> ELSE ctrlQ)
    BY DEF LoopGone
  <1>1. ChOk BY <1>0, ChSame
  <1>2. Types' BY <1>0 DEF IInv, Types
  <1>3. FromSrv' /\ Answers' /\ InboxKnown'
    BY <1>0, <1>1, FromSrvKept, AnswersKept, InboxKept
  <1>4. \A t \in Side : loop'[t] = "run" => loop[t] = "run" BY <1>0 DEF IInv, Types
  <1>5. s = "ctl" => loop'["ctl"] = "gone" BY <1>0 DEF IInv, Types
  <1>6. Silent' /\ Ahead'
    <2>1. loop["srv"] # "run" <=> loop'["srv"] # "run" BY <1>0, Sides DEF IInv, Types
    <2> QED BY <1>0, <2>1 DEF IInv, Silent, Ahead, Announces
  <1>7. CASE s = "ctl"
    <2>1. Queued' BY <1>0, <1>7 DEF Queued
    <2>2. Started' BY <1>5, <1>7 DEF Started
    <2> QED BY <1>1, <1>2, <1>3, <1>6, <2>1, <2>2 DEF IInv, ChOk
  <1>8. CASE s = "srv"
    <2>1. loop'["srv"] # "run" BY <1>0, <1>8, Sides DEF IInv, Types
    <2>2. Queued' /\ Started' BY <2>1 DEF Queued, Started
    <2> QED BY <1>1, <1>2, <1>3, <1>6, <2>2 DEF IInv, ChOk
  <1> QED BY <1>7, <1>8, Sides

-----------------------------------------------------------------------------
(* The five things a step of a task or of a demultiplexer does with frames. *)

LEMMA Quiet ==
    ASSUME IInv, ChOk, UNCHANGED <<dataQ, ctrlQ, stream, loop>>, nextId' \in Nat \ {0}
    PROVE  IInv'
  <1>1. Types' BY DEF IInv, Types, ChOk
  <1>2. FromSrv' /\ Answers' /\ InboxKnown' BY FromSrvKept, AnswersKept, InboxKept
  <1>3. UNCHANGED <<dataQ, loop>> /\ stream'["srv"] = stream["srv"] OBVIOUS
  <1>4. Silent' /\ Ahead' /\ Queued' /\ Started' BY <1>3, StreamKept
  <1> QED BY <1>1, <1>2, <1>4 DEF IInv, ChOk

LEMMA SentToCtl ==
    ASSUME IInv, ChOk, UNCHANGED <<dataQ, ctrlQ, loop, nextId>>,
           NEW f \in Frames, stream' = Sent("ctl", f), Known(ch', f.id)
    PROVE  IInv'
  <1>1. \/ stream' = stream
        \/ stream' = [stream EXCEPT !["ctl"] = Append(@, f)]
    BY DEF Sent
  <1>2. stream \in [Side -> Seq(Frames)] BY DEF IInv, Types
  <1>3. stream' \in [Side -> Seq(Frames)] /\ stream'["srv"] = stream["srv"]
    <2>1. Append(stream["ctl"], f) \in Seq(Frames) BY <1>2, Sides
    <2> QED BY Zenon, <1>1, <1>2, <2>1, Sides
  <1>4. stream'["ctl"] = stream["ctl"] \/ stream'["ctl"] = Append(stream["ctl"], f)
    BY <1>1, <1>2, Sides
  <1>5. Types' BY <1>3 DEF IInv, Types, ChOk
  <1>6. FromSrv' /\ Answers' /\ InboxKnown' BY <1>4, FromSrvKept, AnswersKept, InboxKept
  <1>7. UNCHANGED <<dataQ, loop>> OBVIOUS
  <1>8. Silent' /\ Ahead' /\ Queued' /\ Started' BY <1>3, <1>7, StreamKept
  <1> QED BY <1>5, <1>6, <1>8 DEF IInv, ChOk

LEMMA SentOrdered ==
    ASSUME IInv, ChOk, UNCHANGED <<ctrlQ, stream, loop, nextId>>,
           NEW f \in Frames, dataQ' = Append(dataQ, f),
           \/ f = Frame("open", f.id)
           \/ Sending(ch["ctl"][f.id]) /\ loop["ctl"] # "gone"
    PROVE  IInv'
  <1>1. Types' BY DEF IInv, Types, ChOk
  <1>2. FromSrv' /\ Answers' /\ InboxKnown' BY FromSrvKept, AnswersKept, InboxKept
  <1>3. UNCHANGED loop /\ stream'["srv"] = stream["srv"] OBVIOUS
  <1>4. Silent' /\ Ahead' /\ Queued' /\ Started' BY <1>3, DataPushed
  <1> QED BY <1>1, <1>2, <1>4 DEF IInv, ChOk

LEMMA SentControl ==
    ASSUME IInv, ChOk, UNCHANGED <<dataQ, stream, loop, nextId>>,
           NEW f \in Frames, ctrlQ' = Append(ctrlQ, f), Known(ch', f.id)
    PROVE  IInv'
  <1>1. Types' BY DEF IInv, Types, ChOk
  <1>2. FromSrv' /\ Answers' /\ InboxKnown' BY FromSrvKept, AnswersKept, InboxKept
  <1>3. UNCHANGED <<dataQ, loop>> /\ stream'["srv"] = stream["srv"] OBVIOUS
  <1>4. Silent' /\ Ahead' /\ Queued' /\ Started' BY <1>3, StreamKept
  <1> QED BY <1>1, <1>2, <1>4 DEF IInv, ChOk

LEMMA Received ==
    ASSUME IInv, ChOk, UNCHANGED <<dataQ, ctrlQ, loop, nextId>>, NEW s \in Side,
           loop[s] = "run", stream[s] # <<>>, stream' = Consumed(s),
           s = "srv" => Known(ch', Head(stream[s]).id)
    PROVE  IInv'
  <1>1. stream \in [Side -> Seq(Frames)] /\ stream[s] \in Seq(Frames) BY DEF IInv, Types
  <1>2. Tail(stream[s]) \in Seq(Frames) BY <1>1
  <1>3. stream' = [stream EXCEPT ![s] = Tail(stream[s])] BY DEF Consumed
  <1>4. Types' BY <1>1, <1>2, <1>3 DEF IInv, Types, ChOk
  <1>5. UNCHANGED <<dataQ, loop>> OBVIOUS
  <1>6. CASE s = "ctl"
    <2>1. stream'["srv"] = stream["srv"] /\ stream'["ctl"] = Tail(stream["ctl"])
      BY <1>1, <1>3, <1>6, Sides
    <2>2. stream["ctl"] # <<>> BY <1>6
    <2>3. FromSrv' /\ Answers' /\ InboxKnown' BY <2>1, <2>2, FromSrvKept, AnswersKept, InboxKept
    <2>4. Silent' /\ Ahead' /\ Queued' /\ Started' BY <1>5, <2>1, StreamKept
    <2> QED BY <1>4, <2>3, <2>4 DEF IInv, ChOk
  <1>7. CASE s = "srv"
    <2>1. stream'["ctl"] = stream["ctl"] /\ stream'["srv"] = Tail(stream["srv"])
      BY <1>1, <1>3, <1>7, Sides
    <2>2. stream["srv"] # <<>> /\ loop["srv"] = "run" /\ Known(ch', Head(stream["srv"]).id) BY <1>7
    <2>3. FromSrv' /\ Answers' /\ InboxKnown' BY <2>1, FromSrvKept, AnswersKept, InboxKept
    <2>4. Silent' /\ Ahead' /\ Queued' /\ Started' BY <1>5, <2>1, <2>2, StreamPopped
    <2> QED BY <1>4, <2>3, <2>4 DEF IInv, ChOk
  <1> QED BY <1>6, <1>7, Sides

\* What the operators on one end of a channel do to it.
LEMMA Ends1 ==
    ASSUME NEW x \in Channels, NEW s \in Side
    PROVE  /\ Finished(x) \in Channels /\ Finished(x).task = "done" /\ ~Full(Finished(x))
           /\ Over(s, x) \in Channels /\ Over(s, x).task = "done" /\ ~Full(Over(s, x))
           /\ s = "ctl" => ~Over(s, x).entry
           /\ Dropped(x) \in Channels /\ Dropped(x).task = x.task /\ ~Dropped(x).entry
           /\ Full(Dropped(x)) => Full(x)
  <1>1. Finished(x) \in Channels /\ Finished(x).task = "done" /\ ~Full(Finished(x))
    <2>1. /\ Finished(x).task = "done" /\ Finished(x).inbox = <<>> /\ Finished(x).pending = 0
      BY DEF Finished, Channels
    <2>2. Finished(x) \in Channels
      <3>1. <<>> \in Seq({"data", "close", "violation"}) /\ 0 \in Nat OBVIOUS
      <3> QED BY Zenon, <3>1 DEF Finished, Channels
    <2> QED BY <2>1, <2>2 DEF Full
  <1>2. \A y \in Channels : /\ Dropped(y) \in Channels /\ Dropped(y).task = y.task /\ ~Dropped(y).entry
                            /\ Full(Dropped(y)) => Full(y)
    BY Zenon DEF Dropped, Channels, Full
  <1> QED BY <1>1, <1>2 DEF Over

LEMMA Items ==
    ASSUME NEW x \in Channels
    PROVE  /\ \A i \in {"data", "close", "violation"} :
                  /\ Delivered(x, i) \in Channels
                  /\ Delivered(x, i).task = x.task /\ Delivered(x, i).entry = x.entry
           /\ HasChunk(x) => /\ TakeChunk(x) \in Channels /\ Full(x)
                             /\ TakeChunk(x).task = x.task /\ TakeChunk(x).entry = x.entry
           /\ ~HasChunk(x) => InboxEnd(x) \in Ends
  <1>1. x.inbox \in Seq({"data", "close", "violation"}) /\ x.pending \in Nat BY DEF Channels
  <1>2. ASSUME NEW i \in {"data", "close", "violation"}
        PROVE  /\ Delivered(x, i) \in Channels
               /\ Delivered(x, i).task = x.task /\ Delivered(x, i).entry = x.entry
    <2>1. Append(x.inbox, i) \in Seq({"data", "close", "violation"}) BY <1>1, <1>2
    <2> QED BY Zenon, <2>1 DEF Delivered, Channels
  <1>3. ASSUME HasChunk(x)
        PROVE  /\ TakeChunk(x) \in Channels /\ Full(x)
               /\ TakeChunk(x).task = x.task /\ TakeChunk(x).entry = x.entry
    <2>1. CASE x.pending > 0
      <3>1. x.pending - 1 \in Nat BY <1>1, <2>1
      <3> QED BY <2>1, <3>1 DEF TakeChunk, Channels, Full
    <2>2. CASE ~(x.pending > 0)
      <3>1. x.inbox # <<>> BY <1>3, <2>2 DEF HasChunk, NextItem
      <3>2. Tail(x.inbox) \in Seq({"data", "close", "violation"}) BY <1>1, <3>1
      <3> QED BY Zenon, <2>2, <3>1, <3>2 DEF TakeChunk, Channels, Full
    <2> QED BY <2>1, <2>2
  <1>4. ASSUME ~HasChunk(x) PROVE InboxEnd(x) \in Ends
    <2>1. x.inbox # <<>> => Head(x.inbox) \in {"data", "close", "violation"} BY <1>1
    <2> QED BY <1>4, <2>1 DEF InboxEnd, NextItem, HasChunk, Ends
  <1> QED BY <1>2, <1>3, <1>4

\* The entry stays or goes, the task goes on.
LEMMA ChMild ==
    ASSUME IInv, NEW s \in Side, NEW c \in Ids, NEW x \in Channels,
           ch' = [ch EXCEPT ![s][c] = x],
           x.task = ch[s][c].task, x.entry => ch[s][c].entry,
           Full(x) => Full(ch[s][c]) \/ Known(ch, c)
    PROVE  ChOk
  <1>1. Sending(x) => Sending(ch[s][c]) BY DEF Sending
  <1>2. s = "ctl" => (x.entry => x.task \notin {"none", "done"}) BY DEF IInv, LiveEntries
  <1> QED BY Zenon, <1>1, <1>2, ChOne

LEMMA ChOver ==
    ASSUME IInv, NEW s \in Side, NEW c \in Ids, ch' = [ch EXCEPT ![s][c] = Over(s, @)]
    PROVE  ChOk /\ (s = "srv" => Known(ch', c))
  <1> DEFINE x == Over(s, ch[s][c])
  <1>1. ch[s][c] \in Channels BY DEF IInv, Types
  <1>2. x \in Channels /\ x.task = "done" /\ ~Full(x) /\ (s = "ctl" => ~x.entry) BY <1>1, Ends1
  <1>3. ~Sending(x) /\ x.task # "none" BY <1>2 DEF Sending
  <1>4. ch' = [ch EXCEPT ![s][c] = x] OBVIOUS
  <1> HIDE DEF x
  <1> QED BY Zenon, <1>2, <1>3, <1>4, ChOne

-----------------------------------------------------------------------------
(* One lemma for each operation. *)

LEMMA OpenInv == ASSUME IInv, Open PROVE IInv'
  <1> DEFINE x == [ch["ctl"][nextId] EXCEPT !.entry = TRUE, !.task = "opening"]
             y == ch["ctl"][nextId]
  <1>0. UNCHANGED <<dataQ, ctrlQ, stream, loop>> /\ nextId' \in Nat \ {0} BY DEF IInv, Types, Open
  <1>1. nextId \in Ids BY MuxAssumption DEF Open, IInv, Types, Ids
  <1>2. y \in Channels BY <1>1, Sides DEF IInv, Types
  <1>3. x \in Channels /\ x.task = "opening" /\ x.inbox = y.inbox /\ x.pending = y.pending
    BY Zenon, <1>2 DEF Channels
  <1>4. ch' = [ch EXCEPT !["ctl"][nextId] = x] BY Zenon DEF Open
  <1>5. ~Sending(x) /\ (Full(x) => Full(y)) BY <1>3 DEF Sending, Full
  <1> HIDE DEF x
  <1>6. ChOk BY Zenon, <1>1, <1>3, <1>4, <1>5, ChOne, Sides
  <1> QED BY <1>0, <1>6, Quiet

LEMMA SendOpenInv == ASSUME IInv, NEW c \in Ids, SendOpen(c) PROVE IInv'
  <1>0. ch["ctl"][c].task = "opening" /\ UNCHANGED <<ctrlQ, loop, nextId>> BY DEF SendOpen
  <1>1. nextId' \in Nat \ {0} BY <1>0 DEF IInv, Types
  <1>2. CASE SinkGone("ctl")
    <2>1. ch' = [ch EXCEPT !["ctl"][c] = Over("ctl", @)] /\ UNCHANGED <<dataQ, stream>>
      BY <1>2 DEF SendOpen
    <2>2. ChOk BY Zenon, <2>1, ChOver, Sides
    <2> QED BY <1>0, <1>1, <2>1, <2>2, Quiet
  <1>3. CASE ~SinkGone("ctl")
    <2> DEFINE x == [ch["ctl"][c] EXCEPT !.task = "running"]
               f == Frame("open", c)
    <2>1. dataQ' = Append(dataQ, f) /\ UNCHANGED stream /\ ch' = [ch EXCEPT !["ctl"][c] = x]
      BY <1>3 DEF SendOpen, SendOrdered
    <2>2. ch["ctl"][c] \in Channels BY Sides DEF IInv, Types
    <2>3. x \in Channels /\ x.task = "running" /\ x.inbox = ch["ctl"][c].inbox
            /\ x.pending = ch["ctl"][c].pending
      BY <2>2 DEF Channels
    <2>4. Full(x) => Full(ch["ctl"][c]) BY <2>3 DEF Full
    <2>5. f \in Frames /\ f.id = c BY DEF Frames, Frame
    <2>6. Announces(dataQ', Len(dataQ'), c)
      <3>1. dataQ \in Seq(Frames) BY DEF IInv, Types
      <3>2. Len(dataQ') = Len(dataQ) + 1 /\ dataQ'[Len(dataQ) + 1] = f /\ Len(dataQ) \in Nat
        BY <2>1, <2>5, <3>1
      <3> QED BY <3>2 DEF Announces
    <2> HIDE DEF x
    <2>7. ChOk BY Zenon, <2>1, <2>3, <2>4, <2>6, ChOne, Sides
    <2> HIDE DEF f
    <2>8. f = Frame("open", f.id) BY <2>5 DEF f
    <2> QED BY <1>0, <2>1, <2>5, <2>7, <2>8, SentOrdered
  <1> QED BY <1>2, <1>3

\* The halves read, end, or are cancelled, and the task joins them.
LEMMA HalfInv ==
    ASSUME IInv, NEW s \in Side, NEW c \in Ids,
           \/ ReadSocket(s, c) \/ ReadEof(s, c) \/ WriteFails(s, c) \/ ReadInboxEnd(s, c)
           \/ CancelUp(s, c) \/ CancelDown(s, c)
    PROVE  IInv'
  <1> DEFINE y == ch[s][c]
  <1>0. UNCHANGED <<dataQ, ctrlQ, stream, loop, nextId>> /\ nextId' \in Nat \ {0}
    BY DEF ReadSocket, ReadEof, WriteFails, ReadInboxEnd, CancelUp, CancelDown, IInv, Types
  <1>1. y \in Channels BY DEF IInv, Types
  <1>2. ASSUME NEW u \in {"run", "holding"} \cup Ends, ch' = [ch EXCEPT ![s][c].up = u] PROVE ChOk
    <2> DEFINE x == [y EXCEPT !.up = u]
    <2>1. x \in Channels /\ x.task = y.task /\ x.entry = y.entry
            /\ x.inbox = y.inbox /\ x.pending = y.pending
      BY <1>1, <1>2 DEF Channels
    <2>2. ch' = [ch EXCEPT ![s][c] = x] BY <1>2
    <2>3. Full(x) => Full(y) BY <2>1 DEF Full
    <2> HIDE DEF x
    <2> QED BY Zenon, <2>1, <2>2, <2>3, ChMild
  <1>3. ASSUME NEW d \in {"run"} \cup Ends, NEW z \in Channels,
               z.task = y.task, z.entry = y.entry, Full(z) => Full(y),
               ch' = [ch EXCEPT ![s][c] = [z EXCEPT !.down = d]]
        PROVE  ChOk
    <2> DEFINE x == [z EXCEPT !.down = d]
    <2>1. x \in Channels /\ x.task = y.task /\ x.entry = y.entry
            /\ x.inbox = z.inbox /\ x.pending = z.pending
      BY <1>3 DEF Channels
    <2>2. ch' = [ch EXCEPT ![s][c] = x] BY <1>3
    <2>3. Full(x) => Full(y) BY <1>3, <2>1 DEF Full
    <2> HIDE DEF x
    <2> QED BY Zenon, <2>1, <2>2, <2>3, ChMild
  <1>4. ReadSocket(s, c) => ChOk BY Zenon, <1>2 DEF ReadSocket
  <1>5. ReadEof(s, c) => ChOk BY <1>2 DEF ReadEof, Ends
  <1>6. CancelUp(s, c) => ChOk BY <1>2 DEF CancelUp, Ends
  <1>7. CancelDown(s, c) => ChOk BY Zenon, <1>1, <1>3 DEF CancelDown, Ends
  <1>8. ReadInboxEnd(s, c) => ChOk
    <2>1. ~HasChunk(y) => InboxEnd(y) \in Ends BY <1>1, Items
    <2> QED BY Zenon, <1>1, <1>3, <2>1 DEF ReadInboxEnd
  <1>9. WriteFails(s, c) => ChOk
    <2>1. HasChunk(y) => /\ TakeChunk(y) \in Channels /\ Full(y)
                         /\ TakeChunk(y).task = y.task /\ TakeChunk(y).entry = y.entry
      BY <1>1, Items
    <2>2. "LocalEof" \in Ends BY DEF Ends
    <2> QED BY Zenon, <1>3, <2>1, <2>2 DEF WriteFails
  <1>10. ChOk BY <1>4, <1>5, <1>6, <1>7, <1>8, <1>9
  <1> QED BY <1>0, <1>10, Quiet

LEMMA SendDataInv == ASSUME IInv, NEW s \in Side, NEW c \in Ids, SendData(s, c) PROVE IInv'
  <1> DEFINE y == ch[s][c]
             f == Frame("data", c)
  <1>0. y.task = "running" /\ UNCHANGED <<ctrlQ, loop, nextId>> /\ nextId' \in Nat \ {0}
    BY DEF SendData, IInv, Types
  <1>1. y \in Channels BY DEF IInv, Types
  <1>2. CASE SinkGone(s)
    <2> DEFINE x == [y EXCEPT !.up = "TunnelGone"]
    <2>1. ch' = [ch EXCEPT ![s][c] = x] /\ UNCHANGED <<dataQ, stream>> BY <1>2 DEF SendData
    <2>2. x \in Channels /\ x.task = y.task /\ x.entry = y.entry /\ x.inbox = y.inbox /\ x.pending = y.pending
      BY <1>1 DEF Channels, Ends
    <2>3. Full(x) => Full(y) BY <2>2 DEF Full
    <2> HIDE DEF x
    <2>4. ChOk BY Zenon, <2>1, <2>2, <2>3, ChMild
    <2> QED BY <1>0, <2>1, <2>4, Quiet
  <1>3. CASE ~SinkGone(s)
    <2> DEFINE x == [y EXCEPT !.up = "run", !.sent = @ + 1]
    <2>1. ch' = [ch EXCEPT ![s][c] = x] /\ SendOrdered(s, f)
      <3>1. SendOrdered(s, f) /\ ch' = [ch EXCEPT ![s][c].up = "run", ![s][c].sent = @ + 1]
        BY <1>3, Zenon DEF SendData
      <3>2. ch \in [Side -> [Ids -> Channels]] BY DEF IInv, Types
      <3> QED BY <1>1, <3>1, <3>2 DEF Channels
    <2>2. x \in Channels /\ x.task = y.task /\ x.entry = y.entry /\ x.inbox = y.inbox /\ x.pending = y.pending
      <3>1. y.sent + 1 \in Nat BY <1>1 DEF Channels
      <3>2. x \in Channels BY Zenon, <1>1, <3>1 DEF Channels
      <3> QED BY <1>1, <3>2 DEF Channels
    <2>3. Full(x) => Full(y) BY <2>2 DEF Full
    <2> HIDE DEF x
    <2>4. ChOk BY Zenon, <2>1, <2>2, <2>3, ChMild
    <2>5. f \in Frames /\ f.id = c BY DEF Frames, Frame
    <2> HIDE DEF f
    <2>6. CASE s = "ctl"
      <3>1. dataQ' = Append(dataQ, f) /\ UNCHANGED stream BY <2>1, <2>6 DEF SendOrdered
      <3>2. Sending(ch["ctl"][f.id]) /\ loop["ctl"] # "gone"
        BY <1>0, <1>3, <2>5, <2>6 DEF Sending, SinkGone
      <3> QED BY <1>0, <2>4, <2>5, <3>1, <3>2, SentOrdered
    <2>7. CASE s = "srv"
      <3>1. stream' = Sent("ctl", f) /\ UNCHANGED dataQ BY <2>1, <2>7 DEF SendOrdered
      <3>2. Known(ch', f.id) BY <1>0, <2>4, <2>5, <2>7 DEF ChOk, Known
      <3> QED BY <1>0, <2>4, <2>5, <3>1, <3>2, SentToCtl
    <2> QED BY <2>6, <2>7, Sides
  <1> QED BY <1>2, <1>3

LEMMA WriteSocketInv == ASSUME IInv, NEW s \in Side, NEW c \in Ids, WriteSocket(s, c) PROVE IInv'
  <1> DEFINE y == ch[s][c]
             z == TakeChunk(y)
             x == [z EXCEPT !.written = @ + 1]
             f == Frame("update", c)
  <1>0. y.task = "running" /\ HasChunk(y) /\ UNCHANGED <<dataQ, loop, nextId>> /\ nextId' \in Nat \ {0}
    BY DEF WriteSocket, IInv, Types
  <1>1. y \in Channels BY DEF IInv, Types
  <1>2. z \in Channels /\ Full(y) /\ z.task = y.task /\ z.entry = y.entry BY <1>0, <1>1, Items
  <1>3. x \in Channels /\ x.task = y.task /\ x.entry = y.entry
    <2> HIDE DEF z
    <2> QED BY <1>2 DEF Channels
  <1>4. \/ ch' = [ch EXCEPT ![s][c] = x] /\ UNCHANGED <<ctrlQ, stream>>
        \/ ch' = [ch EXCEPT ![s][c] = x] /\ SendControl(s, f)
        \/ ch' = [ch EXCEPT ![s][c] = [x EXCEPT !.down = "TunnelGone"]] /\ UNCHANGED <<ctrlQ, stream>>
    BY DEF WriteSocket
  <1>5. f \in Frames /\ f.id = c BY DEF Frames, Frame
  <1> HIDE DEF x, z, f
  <1>6. ch' = [ch EXCEPT ![s][c] = x] => ChOk
    <2>1. x.task = ch[s][c].task /\ (x.entry => ch[s][c].entry) /\ Full(ch[s][c]) BY <1>2, <1>3
    <2> QED BY ONLY Zenon, IInv, <1>3, <2>1, s \in Side, c \in Ids, ChMild
  <1>7. CASE ch' = [ch EXCEPT ![s][c] = x] /\ UNCHANGED <<ctrlQ, stream>>
    BY <1>0, <1>6, <1>7, Quiet
  <1>8. CASE ch' = [ch EXCEPT ![s][c] = x] /\ SendControl(s, f)
    <2>0. ChOk BY <1>6, <1>8
    <2>1. CASE s = "ctl"
      <3>1. ctrlQ' = Append(ctrlQ, f) /\ UNCHANGED stream BY <1>8, <2>1 DEF SendControl
      <3>2. Known(ch', f.id) BY <1>2, <1>5, <2>0, <2>1 DEF IInv, InboxKnown, ChOk
      <3> QED BY <1>0, <1>5, <2>0, <3>1, <3>2, SentControl
    <2>2. CASE s = "srv"
      <3>1. stream' = Sent("ctl", f) /\ UNCHANGED ctrlQ BY <1>8, <2>2 DEF SendControl
      <3>2. Known(ch', f.id) BY <1>0, <1>5, <2>0, <2>2 DEF ChOk, Known
      <3> QED BY <1>0, <1>5, <2>0, <3>1, <3>2, SentToCtl
    <2> QED BY <2>1, <2>2, Sides
  <1>9. CASE ch' = [ch EXCEPT ![s][c] = [x EXCEPT !.down = "TunnelGone"]] /\ UNCHANGED <<ctrlQ, stream>>
    <2> DEFINE w == [x EXCEPT !.down = "TunnelGone"]
    <2>1. w \in Channels /\ w.task = y.task /\ w.entry = y.entry BY <1>3 DEF Channels, Ends
    <2>2. ch' = [ch EXCEPT ![s][c] = w] BY <1>9
    <2> HIDE DEF w
    <2>3. ChOk BY Zenon, <1>2, <2>1, <2>2, ChMild
    <2> QED BY <1>0, <1>9, <2>3, Quiet
  <1> QED BY <1>4, <1>7, <1>8, <1>9

LEMMA JoinHalvesInv == ASSUME IInv, NEW s \in Side, NEW c \in Ids, JoinHalves(s, c) PROVE IInv'
  <1> DEFINE y == ch[s][c]
             x == [y EXCEPT !.task = "closing"]
  <1>0. UNCHANGED <<dataQ, ctrlQ, stream, loop, nextId>> /\ nextId' \in Nat \ {0} /\ y.task = "running"
    BY DEF JoinHalves, IInv, Types
  <1>1. ch' = [ch EXCEPT ![s][c] = x] \/ ch' = [ch EXCEPT ![s][c] = Over(s, @)] BY Zenon DEF JoinHalves
  <1>2. y \in Channels BY DEF IInv, Types
  <1>3. x \in Channels /\ x.task = "closing" /\ x.inbox = y.inbox /\ x.pending = y.pending
    BY <1>2 DEF Channels
  <1>4. Sending(y) /\ (Full(x) => Full(y)) BY <1>0, <1>3 DEF Sending, Full
  <1> HIDE DEF x
  <1>5. ChOk BY <1>1, <1>3, <1>4, ChOne, ChOver
  <1> QED BY <1>0, <1>5, Quiet

LEMMA SendCloseInv == ASSUME IInv, NEW s \in Side, NEW c \in Ids, SendClose(s, c) PROVE IInv'
  <1> DEFINE f == Frame("close", c)
  <1>0. /\ ch[s][c].task = "closing" /\ UNCHANGED <<ctrlQ, loop, nextId>> /\ nextId' \in Nat \ {0}
        /\ ch' = [ch EXCEPT ![s][c] = Over(s, @)]
        /\ UNCHANGED <<dataQ, stream>> \/ (~SinkGone(s) /\ SendOrdered(s, f))
    BY DEF SendClose, IInv, Types
  <1>1. ChOk /\ (s = "srv" => Known(ch', c)) BY Zenon, <1>0, ChOver
  <1>2. f \in Frames /\ f.id = c BY DEF Frames, Frame
  <1> HIDE DEF f
  <1>3. CASE UNCHANGED <<dataQ, stream>> BY <1>0, <1>1, <1>3, Quiet
  <1>4. CASE ~SinkGone(s) /\ SendOrdered(s, f)
    <2>1. CASE s = "ctl"
      <3>1. dataQ' = Append(dataQ, f) /\ UNCHANGED stream BY <1>4, <2>1 DEF SendOrdered
      <3>2. Sending(ch["ctl"][f.id]) /\ loop["ctl"] # "gone"
        BY <1>0, <1>2, <1>4, <2>1 DEF Sending, SinkGone
      <3> QED BY <1>0, <1>1, <1>2, <3>1, <3>2, SentOrdered
    <2>2. CASE s = "srv"
      <3>1. stream' = Sent("ctl", f) /\ UNCHANGED dataQ BY <1>4, <2>2 DEF SendOrdered
      <3>2. Known(ch', f.id) BY <1>1, <1>2, <2>2
      <3> QED BY Zenon, <1>0, <1>1, <1>2, <3>1, <3>2, SentToCtl
    <2> QED BY <2>1, <2>2, Sides
  <1> QED BY <1>0, <1>3, <1>4

\* run_controlled_channel: what it sends is of a channel the peer knows.
LEMMA ConnectingInv ==
    ASSUME IInv, NEW c \in Ids, ConnectingCommand(c) \/ Connected(c) \/ ConnectFails(c)
    PROVE  IInv'
  <1> DEFINE y == ch["srv"][c]
  <1>0. UNCHANGED <<dataQ, ctrlQ, loop, nextId>> /\ nextId' \in Nat \ {0} /\ y.task = "connecting"
    BY DEF ConnectingCommand, Connected, ConnectFails, Connectable, IInv, Types
  <1>1. y \in Channels BY Sides DEF IInv, Types
  <1>2. /\ stream' = stream \/ \E k \in {"close", "opened", "refused"} : stream' = Sent("ctl", Frame(k, c))
        /\ \/ ch' = [ch EXCEPT !["srv"][c] = Over("srv", @)]
           \/ ch' = [ch EXCEPT !["srv"][c] = [y EXCEPT !.task = "running"]]
           \/ /\ NextItem(y) = "data"
              /\ ch' = [ch EXCEPT !["srv"][c] = [y EXCEPT !.inbox = Tail(@), !.pending = @ + 1]]
    BY DEF ConnectingCommand, Connected, ConnectFails
  <1>3. ChOk
    <2>1. CASE ch' = [ch EXCEPT !["srv"][c] = Over("srv", @)] BY Zenon, <2>1, ChOver, Sides
    <2>2. CASE ch' = [ch EXCEPT !["srv"][c] = [y EXCEPT !.task = "running"]]
      <3> DEFINE x == [y EXCEPT !.task = "running"]
      <3>1. x \in Channels /\ x.task # "none" BY <1>1 DEF Channels
      <3>2. ch' = [ch EXCEPT !["srv"][c] = x] BY <2>2
      <3> HIDE DEF x
      <3> QED BY Zenon, <3>1, <3>2, ChOne, Sides
    <2>3. CASE /\ NextItem(y) = "data"
               /\ ch' = [ch EXCEPT !["srv"][c] = [y EXCEPT !.inbox = Tail(@), !.pending = @ + 1]]
      <3> DEFINE x == [y EXCEPT !.inbox = Tail(@), !.pending = @ + 1]
      <3>1. y.inbox # <<>> BY <2>3 DEF NextItem
      <3>2. y.pending + 1 \in Nat /\ Tail(y.inbox) \in Seq({"data", "close", "violation"})
        <4>1. y.inbox \in Seq({"data", "close", "violation"}) /\ y.pending \in Nat
          BY <1>1 DEF Channels
        <4> QED BY <3>1, <4>1
      <3>3. x \in Channels BY Zenon, <1>1, <3>2 DEF Channels
      <3>4. x.task # "none" BY <1>0, <1>1 DEF Channels
      <3>5. ch' = [ch EXCEPT !["srv"][c] = x] BY <2>3
      <3> HIDE DEF x
      <3> QED BY Zenon, <3>3, <3>4, <3>5, ChOne, Sides
    <2> QED BY <1>2, <2>1, <2>2, <2>3
  <1>4. CASE stream' = stream BY <1>0, <1>3, <1>4, Quiet
  <1>5. ASSUME NEW k \in {"close", "opened", "refused"}, stream' = Sent("ctl", Frame(k, c)) PROVE IInv'
    <2> DEFINE f == Frame(k, c)
    <2>1. f \in Frames /\ f.id = c BY DEF Frames, Frame
    <2>2. stream' = Sent("ctl", f) BY <1>5
    <2> HIDE DEF f
    <2>3. Known(ch', f.id) BY <1>0, <1>3, <2>1 DEF ChOk, Known
    <2> QED BY <1>0, <1>3, <2>1, <2>2, <2>3, SentToCtl
  <1> QED BY <1>2, <1>4, <1>5

\* A frame is taken off the stream.  The peer has seen the `open' of its
\* channel, and so has the controller, whose frames come from there.
LEMMA HeadKnown ==
    ASSUME IInv, NEW s \in Side, NEW k, NEW c \in Ids, Arrives(s, k, c), s = "srv" => k # "open"
    PROVE  Known(ch, c) /\ stream[s] # <<>> /\ Head(stream[s]).id = c /\ loop[s] = "run"
  <1>1. /\ stream[s] \in Seq(Frames) /\ stream[s] # <<>> /\ loop[s] = "run"
        /\ Head(stream[s]) = Frame(k, c)
    BY DEF IInv, Types, Arrives
  <1>2. 1 \in 1..Len(stream[s]) /\ stream[s][1] = Frame(k, c) BY <1>1
  <1>3. Frame(k, c).id = c /\ Frame(k, c).kind = k BY DEF Frame
  <1>4. CASE s = "ctl" BY <1>1, <1>2, <1>3, <1>4 DEF IInv, FromSrv
  <1>5. CASE s = "srv"
    <2>1. Known(ch, c) \/ Announces(stream["srv"], 1, c) BY <1>2, <1>3, <1>5 DEF IInv, Ahead
    <2>2. ~Announces(stream["srv"], 1, c)
      <3>1. stream["srv"][1] = Frame("open", c) => k = "open" BY <1>2, <1>5 DEF Frame
      <3> QED BY <1>5, <3>1 DEF Announces
    <2> QED BY <1>1, <1>3, <2>1, <2>2
  <1> QED BY <1>4, <1>5, Sides

LEMMA FrameInv ==
    ASSUME IInv, NEW s \in Side, NEW c \in Ids,
           OnData(s, c) \/ OnClose(s, c) \/ OnCredit(s, c) \/ (s = "ctl" /\ OnRefused(c))
    PROVE  IInv'
  <1> DEFINE y == ch[s][c]
  <1>0. UNCHANGED <<dataQ, ctrlQ, loop, nextId>> /\ stream' = Consumed(s)
    BY DEF OnData, OnClose, OnCredit, OnRefused
  <1>1. Known(ch, c) /\ stream[s] # <<>> /\ Head(stream[s]).id = c /\ loop[s] = "run"
    <2>1. \E k \in {"data", "close", "update", "opened", "refused"} : Arrives(s, k, c)
      BY DEF OnData, OnClose, OnCredit, OnRefused
    <2> QED BY <2>1, HeadKnown
  <1>2. y \in Channels BY DEF IInv, Types
  <1>3. \/ UNCHANGED ch
        \/ ch' = [ch EXCEPT ![s][c] = Delivered(y, "data")]
        \/ ch' = [ch EXCEPT ![s][c] = Dropped(y)]
        \/ ch' = [ch EXCEPT ![s][c] = Dropped(Delivered(y, "violation"))]
        \/ ch' = [ch EXCEPT ![s][c] = Dropped(Delivered(y, "close"))]
        \/ ch' = [ch EXCEPT ![s][c] = y]
    BY DEF OnData, OnClose, OnCredit, OnRefused
  <1>4. ASSUME NEW x \in Channels, x.task = y.task, x.entry => y.entry, ch' = [ch EXCEPT ![s][c] = x]
        PROVE  ChOk
    BY Zenon, <1>1, <1>4, ChMild
  <1>5. \A z \in Channels : Dropped(z) \in Channels /\ Dropped(z).task = z.task /\ ~Dropped(z).entry
    BY Ends1
  <1>6. \A i \in {"data", "close", "violation"} :
          /\ Delivered(y, i) \in Channels
          /\ Delivered(y, i).task = y.task /\ Delivered(y, i).entry = y.entry
    BY <1>2, Items
  <1>7. ChOk BY <1>2, <1>3, <1>4, <1>5, <1>6, ChSame
  <1>8. s = "srv" => Known(ch', Head(stream[s]).id) BY <1>1, <1>7 DEF ChOk
  <1> QED BY <1>0, <1>1, <1>7, <1>8, Received

\* on_open: the ended channels leave the map, the new one is known.
LEMMA OnOpenInv == ASSUME IInv, NEW c \in Ids, OnOpen(c) PROVE IInv'
  <1> DEFINE g == Frame("refused", c)
             q == stream["srv"]
             r == Retained
  <1>0. /\ UNCHANGED <<dataQ, ctrlQ, loop, nextId>> /\ loop["srv"] = "run"
        /\ q # <<>> /\ Head(q) = Frame("open", c)
    BY DEF OnOpen, Arrives
  <1>1. stream \in [Side -> Seq(Frames)] /\ q \in Seq(Frames) BY Sides DEF IInv, Types
  <1>2. g \in Frames /\ g.id = c /\ Head(q).id = c BY <1>0 DEF Frames, Frame
  <1>3. /\ r \in [Ids -> Channels]
        /\ \A d \in Ids : r[d].task = ch["srv"][d].task
    <2>1. ASSUME NEW d \in Ids PROVE r[d] \in Channels /\ r[d].task = ch["srv"][d].task
      <3>1. ch["srv"][d] \in Channels BY Sides DEF IInv, Types
      <3>2. Dropped(ch["srv"][d]) \in Channels /\ Dropped(ch["srv"][d]).task = ch["srv"][d].task
        BY <3>1, Ends1, Sides
      <3> QED BY <3>1, <3>2 DEF Retained
    <2>2. r = [d \in Ids |-> r[d]] BY DEF Retained
    <2> HIDE DEF r
    <2> QED BY <2>1, <2>2
  <1> HIDE DEF r
  <1>4. PICK x \in Channels : x.task # "none" /\ ch' = [ch EXCEPT !["srv"] = [r EXCEPT ![c] = x]]
    <2> DEFINE x1 == [r[c] EXCEPT !.task = "done"]
               x2 == [r[c] EXCEPT !.entry = TRUE, !.task = "connecting"]
    <2>1. r[c] \in Channels BY <1>3
    <2>2. x1 \in Channels /\ x1.task # "none" /\ x2 \in Channels /\ x2.task # "none"
      BY Zenon, <2>1 DEF Channels
    <2>3. \/ ch' = [ch EXCEPT !["srv"] = [r EXCEPT ![c] = x1]]
          \/ ch' = [ch EXCEPT !["srv"] = [r EXCEPT ![c] = x2]]
      BY Zenon DEF OnOpen, r
    <2> HIDE DEF x1, x2
    <2> QED BY <2>2, <2>3
  <1>5. /\ ch'["ctl"] = ch["ctl"] /\ ch'["srv"] = [r EXCEPT ![c] = x]
        /\ ch' \in [Side -> [Ids -> Channels]]
    BY <1>3, <1>4, Sides DEF IInv, Types
  <1>6. \A d \in Ids : ch'["srv"][d].task = IF d = c THEN x.task ELSE ch["srv"][d].task
    BY <1>3, <1>5
  <1>7. Known(ch', c) /\ \A d \in Ids : Known(ch, d) => Known(ch', d) BY <1>4, <1>6 DEF Known
  <1>8. ChOk BY <1>5, <1>7 DEF ChOk, IInv, LiveEntries
  <1>9. /\ stream'["srv"] = Tail(q) /\ stream' \in [Side -> Seq(Frames)]
        /\ stream'["ctl"] = stream["ctl"] \/ stream'["ctl"] = Append(stream["ctl"], g)
    <2>1. Tail(q) \in Seq(Frames) /\ Append(stream["ctl"], g) \in Seq(Frames)
      BY <1>0, <1>1, <1>2, Sides
    <2>2. \/ stream' = [stream EXCEPT !["srv"] = Tail(q)]
          \/ stream' = [[stream EXCEPT !["srv"] = Tail(q)] EXCEPT !["ctl"] = Append(@, g)]
      BY DEF OnOpen, Consumed
    <2> HIDE DEF g
    <2> QED BY Zenon, <1>1, <2>1, <2>2, Sides
  <1>10. Types' BY <1>0, <1>5, <1>9 DEF IInv, Types
  <1>11. Known(ch', g.id) /\ Known(ch', Head(stream["srv"]).id) /\ UNCHANGED <<dataQ, loop>>
    BY <1>0, <1>2, <1>7
  <1> HIDE DEF g
  <1>12. FromSrv' /\ Answers' /\ InboxKnown'
    BY <1>0, <1>2, <1>8, <1>9, <1>11, FromSrvKept, AnswersKept, InboxKept
  <1>13. Silent' /\ Ahead' /\ Queued' /\ Started'
    BY <1>0, <1>8, <1>9, <1>11, StreamPopped
  <1> QED BY <1>8, <1>10, <1>12, <1>13 DEF IInv, ChOk

-----------------------------------------------------------------------------
LEMMA StepInv == IInv /\ [Next]_vars => IInv'
  <1> SUFFICES ASSUME IInv, [Next]_vars PROVE IInv' OBVIOUS
  <1>1. CASE UNCHANGED vars
    <2>1. UNCHANGED <<dataQ, ctrlQ, stream, loop>> /\ UNCHANGED ch /\ nextId' \in Nat \ {0}
      BY <1>1 DEF vars, IInv, Types
    <2> QED BY <2>1, ChSame, Quiet
  <1>2. CASE Open BY <1>2, OpenInv
  <1>3. ASSUME NEW c \in Ids,
               \/ SendOpen(c) \/ ConnectingCommand(c) \/ Connected(c) \/ ConnectFails(c)
               \/ OnRefused(c) \/ OnOpen(c)
        PROVE  IInv'
    BY <1>3, SendOpenInv, ConnectingInv, FrameInv, OnOpenInv, Sides
  <1>4. ASSUME NEW s \in Side, NEW c \in Ids,
               ReadSocket(s, c) \/ ReadEof(s, c) \/ WriteSocket(s, c) \/ WriteFails(s, c)
        PROVE  IInv'
    BY <1>4, HalfInv, WriteSocketInv
  <1>5. ASSUME NEW s \in Side, NEW c \in Ids, TaskStep(s, c) PROVE IInv'
    BY <1>5, SendDataInv, HalfInv, JoinHalvesInv, SendCloseInv DEF TaskStep
  <1>6. ASSUME NEW s \in Side, NEW c \in Ids, FrameStep(s, c) PROVE IInv'
    BY <1>6, FrameInv DEF FrameStep
  <1>7. CASE PumpData \/ PumpControl BY <1>7, PumpDataInv, PumpControlInv
  <1>8. ASSUME NEW s \in Side, BreakLocally(s) \/ LoopGone(s) PROVE IInv'
    BY <1>8, CloseAllInv, LoopGoneInv DEF BreakLocally
  <1> QED BY <1>1, <1>2, <1>3, <1>4, <1>5, <1>6, <1>7, <1>8 DEF Next

\* The invariant, for any number of channels, frames and updates and any
\* length of the ordered queue.
THEOREM MuxInvariant == Spec => []IInv
  BY InitInv, StepInv, PTL DEF Spec

\* No frame reaches the controlled side ahead of its channel's `open', although
\* tunnel_loop serves the ordered and the control queue in any order.
THEOREM MuxOpenArrivesFirst == Spec => []OpenArrivesFirst
  <1>1. ASSUME IInv PROVE OpenArrivesFirst
    <2> DEFINE q == stream["srv"]
    <2> SUFFICES ASSUME q # <<>>, Head(q).kind # "open" PROVE Known(ch, Head(q).id)
      BY DEF OpenArrivesFirst, Known
    <2>1. q \in Seq(Frames) BY <1>1, Sides DEF IInv, Types
    <2>2. 1 \in 1..Len(q) /\ q[1] = Head(q) BY <2>1
    <2>3. Known(ch, q[1].id) \/ Announces(q, 1, q[1].id) BY <1>1, <2>2 DEF IInv, Ahead
    <2>4. ~Announces(q, 1, q[1].id) BY <2>2 DEF Announces, Frame
    <2> QED BY <2>2, <2>3, <2>4
  <1> QED BY <1>1, MuxInvariant, PTL

\* The controller's map never keeps a channel whose task is over, whichever of
\* the task, the peer's close and close_all takes it out.
THEOREM MuxNoDeadEntry == Spec => []NoDeadEntry
  <1>1. IInv => NoDeadEntry BY Sides DEF IInv, Types, LiveEntries, NoDeadEntry
  <1> QED BY <1>1, MuxInvariant, PTL
=============================================================================
