-------------------------- MODULE ChannelFlowProofs --------------------------
(***************************************************************************)
(* Credit of a port-forward channel is conserved, for every choice of the  *)
(* window sizes that satisfies WindowAssumption and every length of run.   *)
(*                                                                         *)
(* The argument: each frame carries, as history, the position its charge   *)
(* ends at.  Along every queue these positions are linked: the first frame *)
(* starts where the receiving end stands, each next one where the previous *)
(* one ends, and the last one ends where the sending end stands.  The      *)
(* counters of the code are then differences of positions.                 *)
(***************************************************************************)
EXTENDS ChannelFlow, TLAPS

\* The frames of s cover the charges from lo to hi without gap or overlap.
Linked(s, lo, hi) ==
    /\ s = <<>> => lo = hi
    /\ s /= <<>> => s[Len(s)].end = hi
    /\ \A i \in 1..Len(s) :
        /\ s[i].end = (IF i = 1 THEN lo ELSE s[i-1].end) + Charge(s[i].len)
        /\ lo <= s[i].end /\ s[i].end <= hi
    /\ \A i, j \in 1..Len(s) : i <= j => s[i].end <= s[j].end

\* What the i-th credit frame is worth to the sender: a window_update its
\* amount, the first `opened` the rest of the window, a later one nothing.
Worth(s, isOpen, i) ==
    IF s[i].kind = "update" THEN s[i].add
    ELSE IF ~isOpen /\ i = 1 THEN ChannelWindow - InitialWindow
    ELSE 0

\* The promises already on their way: the grant made before `opened` leaves
\* is not yet among them.
Advertised == IF phase = "granted" THEN InitialWindow ELSE promised

BackLinked ==
    /\ back = <<>> => granted = Advertised
    /\ back /= <<>> => back[Len(back)].end = Advertised
    /\ \A i \in 1..Len(back) :
        /\ back[i].end = (IF i = 1 THEN granted ELSE back[i-1].end) + Worth(back, opened, i)
        /\ granted <= back[i].end /\ back[i].end <= Advertised
        /\ back[i].kind = "opened" => back[i].add = ChannelWindow
    /\ \A i, j \in 1..Len(back) : i <= j => back[i].end <= back[j].end

SenderInv ==
    /\ sender = "read" => MinFrameCharge <= allow
    /\ sender /= "read" => allow = 0
    /\ credit + allow + sent = granted

ReceiverInv ==
    /\ ~overrun
    /\ remaining + accepted = promised
    /\ promised + drained = written + (IF phase = "connecting" THEN InitialWindow ELSE ChannelWindow)
    /\ drained <= written
    /\ drained = 0 \/ drained < UpdateThreshold

PhaseInv ==
    /\ phase /= "open" => dir = "up" /\ back = <<>> /\ ~opened /\ written = 0
    /\ ~opened /\ phase = "open" => back /= <<>> /\ back[1].kind = "opened"
    /\ phase = "connecting" =>
        /\ buffered <= Len(queue)
        /\ pendingLen = IF buffered = 0 THEN 0 ELSE queue[buffered].end

IInv ==
    /\ TypeOK
    /\ Linked(wire, accepted, sent)
    /\ Linked(queue, written, accepted)
    /\ BackLinked
    /\ SenderInv
    /\ ReceiverInv
    /\ PhaseInv

-----------------------------------------------------------------------------
(* Facts about the arithmetic of FlowWindow.                                *)

\* A frame costs at least the minimum charge and at least its length, and no
\* more than what a sender holding a minimum charge may read into it.
LEMMA ChargeFacts ==
    ASSUME NEW len \in Nat
    PROVE  /\ Charge(len) \in Nat
           /\ len <= Charge(len) /\ 1 <= Charge(len)
           /\ \A n \in Nat : len <= n /\ MinFrameCharge <= n => Charge(len) <= n
  BY WindowAssumption DEF Charge, Larger, WindowAssumption

\* Credit within the window is added exactly.
LEMMA CreditPlusExact ==
    ASSUME NEW c \in Nat, NEW n \in Nat, c + n <= ChannelWindow
    PROVE  CreditPlus(c, n) = c + n
  BY WindowAssumption DEF CreditPlus, SaturatingAdd, Smaller, MaxSendCredit, WindowAssumption

\* So is every counter of the receiver's.
LEMMA SaturatingAddExact ==
    ASSUME NEW a \in Nat, NEW b \in Nat, a + b <= ChannelWindow
    PROVE  SaturatingAdd(a, b) = a + b
  BY WindowAssumption DEF SaturatingAdd, Smaller, WindowAssumption

-----------------------------------------------------------------------------
(* Facts about linked queues.                                               *)

\* The fields of a frame, and of every frame of a queue.
LEMMA FrameFields ==
    ASSUME NEW f \in Frames
    PROVE  f.len \in Nat /\ f.end \in Nat /\ Charge(f.len) \in Nat /\ 1 <= Charge(f.len)
  <1>1. f.len \in Nat /\ f.end \in Nat
    BY WindowAssumption DEF Frames, WindowAssumption
  <1> QED BY <1>1, ChargeFacts

\* The same for the frame at any position of a queue.
LEMMA QueueFields ==
    ASSUME NEW s \in Seq(Frames), NEW i \in 1..Len(s)
    PROVE  s[i] \in Frames /\ s[i].len \in Nat /\ s[i].end \in Nat
  <1>1. s[i] \in Frames
    OBVIOUS
  <1> QED BY <1>1, FrameFields

\* A frame that starts where the queue ends can be appended.
LEMMA LinkedAppend ==
    ASSUME NEW s \in Seq(Frames), NEW lo \in Nat, NEW hi \in Nat, Linked(s, lo, hi),
           NEW f \in Frames, f.end = hi + Charge(f.len)
    PROVE  Linked(Append(s, f), lo, f.end)
  <1>1. f.len \in Nat /\ f.end \in Nat /\ Charge(f.len) \in Nat
    BY FrameFields
  <1>2. lo <= hi
    <2>1. CASE s = <<>>
      BY <2>1 DEF Linked
    <2>2. CASE s /= <<>>
      <3>1. 1 \in 1..Len(s)
        BY <2>2
      <3>2. s[1].end \in Nat
        BY <3>1, QueueFields
      <3> QED BY <3>1, <3>2 DEF Linked
    <2> QED BY <2>1, <2>2
  <1> DEFINE t == Append(s, f)
  <1>3. /\ t \in Seq(Frames) /\ Len(t) = Len(s) + 1 /\ t /= <<>>
        /\ \A i \in 1..Len(s) : t[i] = s[i]
        /\ t[Len(s) + 1] = f
    OBVIOUS
  <1>4. \A i \in 1..Len(s) : s[i].end \in Nat /\ s[i].end <= f.end
    BY <1>1, QueueFields DEF Linked
  <1>5. \A i \in 1..Len(t) :
          /\ t[i].end = (IF i = 1 THEN lo ELSE t[i-1].end) + Charge(t[i].len)
          /\ lo <= t[i].end /\ t[i].end <= f.end
    <2> SUFFICES ASSUME NEW i \in 1..Len(t)
                 PROVE /\ t[i].end = (IF i = 1 THEN lo ELSE t[i-1].end) + Charge(t[i].len)
                       /\ lo <= t[i].end /\ t[i].end <= f.end
      OBVIOUS
    <2>1. CASE i \in 1..Len(s)
      <3>1. t[i] = s[i] /\ (i /= 1 => t[i-1] = s[i-1])
        BY <2>1, <1>3
      <3> QED BY <2>1, <3>1, <1>4 DEF Linked
    <2>2. CASE i = Len(s) + 1
      <3>1. t[i] = f
        BY <2>2, <1>3
      <3>2. (IF i = 1 THEN lo ELSE t[i-1].end) = hi
        <4>1. CASE s = <<>>
          BY <4>1, <2>2 DEF Linked
        <4>2. CASE s /= <<>>
          <5>1. Len(s) \in 1..Len(s) /\ i - 1 = Len(s) /\ i /= 1
            BY <4>2, <2>2
          <5>2. t[i-1] = s[Len(s)]
            BY <5>1, <1>3
          <5> QED BY <5>1, <5>2, <4>2 DEF Linked
        <4> QED BY <4>1, <4>2
      <3> QED BY <3>1, <3>2, <1>1, <1>2
    <2> QED BY <1>3, <2>1, <2>2
  <1>6. \A i, j \in 1..Len(t) : i <= j => t[i].end <= t[j].end
    <2> SUFFICES ASSUME NEW i \in 1..Len(t), NEW j \in 1..Len(t), i <= j
                 PROVE t[i].end <= t[j].end
      OBVIOUS
    <2>1. CASE j \in 1..Len(s)
      BY <2>1, <1>3 DEF Linked
    <2>2. CASE j = Len(s) + 1
      BY <2>2, <1>3, <1>5
    <2> QED BY <1>3, <2>1, <2>2
  <1> QED BY <1>3, <1>5, <1>6 DEF Linked

\* The head of a linked queue starts at lo, and the rest is linked from its end.
LEMMA LinkedTail ==
    ASSUME NEW s \in Seq(Frames), s /= <<>>, NEW lo \in Nat, NEW hi \in Nat, Linked(s, lo, hi)
    PROVE  /\ Head(s) \in Frames
           /\ Head(s).end = lo + Charge(Head(s).len) /\ Head(s).end <= hi
           /\ Linked(Tail(s), Head(s).end, hi)
  <1> DEFINE t == Tail(s)
  <1>1. /\ 1 \in 1..Len(s) /\ Head(s) = s[1] /\ Head(s) \in Frames
        /\ t \in Seq(Frames) /\ Len(t) = Len(s) - 1
        /\ \A i \in 1..Len(t) : t[i] = s[i+1] /\ i + 1 \in 1..Len(s)
    OBVIOUS
  <1>2. Head(s).end = lo + Charge(Head(s).len) /\ Head(s).end <= hi
    BY <1>1 DEF Linked
  <1>3. t = <<>> => Head(s).end = hi
    <2> HAVE t = <<>>
    <2>1. Len(s) = 1
      BY <1>1
    <2> QED BY <2>1, <1>1 DEF Linked
  <1>4. t /= <<>> => t[Len(t)].end = hi
    BY <1>1 DEF Linked
  <1>5. \A i \in 1..Len(t) :
          /\ t[i].end = (IF i = 1 THEN Head(s).end ELSE t[i-1].end) + Charge(t[i].len)
          /\ Head(s).end <= t[i].end /\ t[i].end <= hi
    <2> SUFFICES ASSUME NEW i \in 1..Len(t)
                 PROVE /\ t[i].end = (IF i = 1 THEN Head(s).end ELSE t[i-1].end) + Charge(t[i].len)
                       /\ Head(s).end <= t[i].end /\ t[i].end <= hi
      OBVIOUS
    <2>1. t[i] = s[i+1] /\ i + 1 \in 1..Len(s) /\ 1 <= i + 1 /\ i + 1 /= 1 /\ (i + 1) - 1 = i
      BY <1>1
    <2>2. (IF i = 1 THEN Head(s).end ELSE t[i-1].end) = s[i].end
      BY <1>1
    <2> QED BY <2>1, <2>2, <1>1 DEF Linked
  <1>6. \A i, j \in 1..Len(t) : i <= j => t[i].end <= t[j].end
    BY <1>1 DEF Linked
  <1> QED BY <1>1, <1>2, <1>3, <1>4, <1>5, <1>6 DEF Linked

\* Positions along a linked queue grow.
LEMMA LinkedOrder ==
    ASSUME NEW s \in Seq(Frames), NEW lo \in Nat, NEW hi \in Nat, Linked(s, lo, hi)
    PROVE  lo <= hi
  <1>1. CASE s = <<>>
    BY <1>1 DEF Linked
  <1>2. CASE s /= <<>>
    <2>1. Head(s) \in Frames /\ Head(s).end = lo + Charge(Head(s).len) /\ Head(s).end <= hi
      BY <1>2, LinkedTail
    <2>2. Head(s).end \in Nat /\ Charge(Head(s).len) \in Nat
      BY <2>1, FrameFields
    <2> QED BY <2>1, <2>2
  <1> QED BY <1>1, <1>2

-----------------------------------------------------------------------------
(* The inductive invariant.                                                 *)

\* Where the positions stand relative to each other, and the bound on the
\* window that makes every addition exact.
LEMMA Positions ==
    ASSUME IInv
    PROVE  /\ written <= accepted /\ accepted <= sent
           /\ Advertised \in Nat /\ granted <= Advertised /\ Advertised <= promised
           /\ promised <= written + ChannelWindow
           /\ credit + allow + sent <= promised
  <1> USE DEF IInv
  <1>1. written <= accepted /\ accepted <= sent
    BY LinkedOrder DEF TypeOK
  <1>2. Advertised \in Nat /\ Advertised <= promised
    BY WindowAssumption DEF TypeOK, Advertised, ReceiverInv, PhaseInv, WindowAssumption
  <1>3. granted <= Advertised
    <2>1. CASE back = <<>>
      BY <2>1, <1>2 DEF BackLinked, TypeOK
    <2>2. CASE back /= <<>>
      <3>1. 1 \in 1..Len(back)
        BY <2>2 DEF TypeOK
      <3>2. back[1] \in CreditFrames
        BY <3>1 DEF TypeOK
      <3>3. back[1].end \in Nat
        BY <3>2 DEF CreditFrames
      <3> QED BY <3>1, <3>3, <1>2 DEF BackLinked, TypeOK
    <2> QED BY <2>1, <2>2
  <1>4. promised <= written + ChannelWindow
    BY WindowAssumption DEF TypeOK, ReceiverInv, WindowAssumption
  <1>5. credit + allow + sent <= promised
    BY <1>2, <1>3 DEF SenderInv, TypeOK
  <1> QED BY <1>1, <1>2, <1>3, <1>4, <1>5

\* The counters are natural numbers.
LEMMA Counters ==
    ASSUME TypeOK
    PROVE  /\ credit \in Nat /\ allow \in Nat /\ allow <= MaxFrame /\ MaxFrame \in Nat
           /\ sent \in Nat /\ accepted \in Nat /\ written \in Nat
           /\ promised \in Nat /\ granted \in Nat /\ remaining \in Nat /\ drained \in Nat
  BY WindowAssumption DEF TypeOK, WindowAssumption

\* The channel starts in a state of the invariant.
LEMMA InitIInv == Init => IInv
  <1> SUFFICES ASSUME Init PROVE IInv
    OBVIOUS
  <1>1. InitialGrant \in Nat /\ InitialWindow <= InitialGrant /\ InitialGrant <= ChannelWindow
    BY WindowAssumption DEF InitialGrant, WindowAssumption
  <1>2. credit = InitialGrant /\ remaining = InitialGrant
    BY <1>1, WindowAssumption
       DEF Init, NewCredit, EffectiveWindow, Larger, Smaller, MaxSendCredit, WindowAssumption
  <1>3. TypeOK
    <2>1. opened \in BOOLEAN /\ phase \in {"connecting", "granted", "open"}
      BY Zenon DEF Init
    <2>2. wire \in Seq(Frames) /\ queue \in Seq(Frames) /\ back \in Seq(CreditFrames)
      BY DEF Init
    <2>3. /\ credit \in Nat /\ allow \in 0..MaxFrame /\ buffered \in Nat /\ pendingLen \in Nat
          /\ remaining \in Nat /\ drained \in Nat /\ repeats \in Nat
          /\ sent \in Nat /\ accepted \in Nat /\ written \in Nat
          /\ promised \in Nat /\ granted \in Nat
      BY <1>1, <1>2, WindowAssumption DEF Init, WindowAssumption
    <2>4. dir \in {"up", "down"} /\ sender \in {"take", "read", "ended"} /\ overrun \in BOOLEAN
      BY Zenon DEF Init
    <2> QED BY <2>1, <2>2, <2>3, <2>4 DEF TypeOK
  <1>4. Linked(wire, accepted, sent) /\ Linked(queue, written, accepted)
    BY DEF Init, Linked
  <1>5. BackLinked
    BY DEF Init, BackLinked, Advertised
  <1>6. SenderInv
    BY <1>1, <1>2 DEF Init, SenderInv
  <1>7. ReceiverInv
    BY <1>1, <1>2, WindowAssumption DEF Init, ReceiverInv, InitialGrant, WindowAssumption
  <1>8. PhaseInv
    <2>1. CASE dir = "up"
      BY <2>1 DEF Init, PhaseInv
    <2>2. CASE dir = "down"
      BY <2>2 DEF Init, PhaseInv
    <2> QED BY <2>1, <2>2 DEF Init
  <1> QED BY <1>8, <1>3, <1>4, <1>5, <1>6, <1>7 DEF IInv

\* Steps of the sender that put nothing on the wire: the frames, the
\* receiver and the credit on its way are as before.
LEMMA SenderOnly ==
    ASSUME IInv, UNCHANGED <<dir, wire, queue, receiverVars, back, opened, repeats, overrun, history>>
    PROVE  /\ (Linked(wire, accepted, sent) /\ Linked(queue, written, accepted))'
           /\ (BackLinked /\ ReceiverInv /\ PhaseInv)'
  <1> USE DEF IInv, receiverVars, history
  <1>1. (Linked(wire, accepted, sent) /\ Linked(queue, written, accepted))'
    OBVIOUS
  <1>2. BackLinked'
    BY DEF BackLinked, Worth, Advertised
  <1>3. (ReceiverInv /\ PhaseInv)'
    BY DEF ReceiverInv, PhaseInv
  <1> QED BY <1>1, <1>2, <1>3

\* SendCredit::take moves credit into the sender's hand.
LEMMA TakeStep == ASSUME IInv, Take PROVE IInv'
  <1>1. Taken(credit) \in 0..MaxFrame /\ MinFrameCharge <= Taken(credit) /\ Taken(credit) <= credit
    BY WindowAssumption DEF IInv, TypeOK, Take, CanTake, Taken, Smaller, WindowAssumption
  <1>2. TypeOK'
    BY <1>1, WindowAssumption DEF IInv, TypeOK, Take, receiverVars, history, WindowAssumption
  <1>3. SenderInv'
    BY <1>1, Counters DEF IInv, SenderInv, Take, history
  <1> QED BY <1>2, <1>3, SenderOnly DEF IInv, Take

\* A refund never meets a cap: it is part of what was promised.
LEMMA RefundExact ==
    ASSUME IInv, NEW spent \in Nat, spent <= allow
    PROVE  /\ Refunded(spent) = credit + (allow - spent)
           /\ CreditPlus(credit, allow - spent) = credit + (allow - spent)
  <1>1. allow \in Nat /\ allow - spent \in Nat /\ credit \in Nat /\ sent \in Nat
    BY WindowAssumption DEF IInv, TypeOK, WindowAssumption
  <1>2. credit + (allow - spent) <= ChannelWindow
    BY <1>1, Positions, WindowAssumption DEF IInv, TypeOK, WindowAssumption
  <1>3. CreditPlus(credit, allow - spent) = credit + (allow - spent)
    BY <1>1, <1>2, CreditPlusExact
  <1> QED BY <1>1, <1>3 DEF Refunded

\* An end of file gives back all that was taken.
LEMMA ReadEofStep == ASSUME IInv, ReadEof PROVE IInv'
  <1>1. credit' = credit + allow /\ allow \in Nat
    BY RefundExact, WindowAssumption DEF ReadEof, IInv, TypeOK, WindowAssumption
  <1>2. TypeOK'
    BY <1>1, WindowAssumption DEF IInv, TypeOK, ReadEof, receiverVars, history, WindowAssumption
  <1>3. SenderInv'
    BY <1>1, Counters DEF IInv, SenderInv, ReadEof, history
  <1> QED BY <1>2, <1>3, SenderOnly DEF IInv, ReadEof

\* So does a cancelled half that had taken credit.
LEMMA CancelledStep == ASSUME IInv, Cancelled PROVE IInv'
  <1>1. allow \in Nat /\ allow - 0 = allow /\ credit \in Nat
    BY WindowAssumption DEF IInv, TypeOK, WindowAssumption
  <1>2. credit' = credit + allow
    BY <1>1, RefundExact DEF Cancelled, IInv, SenderInv
  <1>3. TypeOK'
    BY <1>1, <1>2, WindowAssumption DEF IInv, TypeOK, Cancelled, receiverVars, history, WindowAssumption
  <1>4. SenderInv'
    BY <1>1, <1>2, Counters DEF IInv, SenderInv, Cancelled, history
  <1> QED BY <1>3, <1>4, SenderOnly DEF IInv, Cancelled

\* A frame pays its charge out of what was taken.
LEMMA ReadStep == ASSUME IInv, NEW got \in 1..allow, Read(got) PROVE IInv'
  <1>1. /\ sender = "read" /\ allow \in Nat /\ MinFrameCharge <= allow /\ allow <= MaxFrame
        /\ got \in Nat /\ got \in 1..MaxFrame /\ credit \in Nat /\ sent \in Nat
    BY WindowAssumption DEF IInv, TypeOK, SenderInv, Read, WindowAssumption
  <1>2. Charge(got) \in Nat /\ Charge(got) <= allow
    BY <1>1, ChargeFacts
  <1>3. credit' = credit + (allow - Charge(got))
    BY <1>2, RefundExact DEF Read
  <1> DEFINE f == [len |-> got, end |-> sent + Charge(got)]
  <1>4. f \in Frames /\ f.end = sent + Charge(f.len) /\ wire' = Append(wire, f) /\ sent' = f.end
    BY <1>1, <1>2 DEF Frames, Read
  <1>5. credit' \in Nat /\ sent' \in Nat /\ wire' \in Seq(Frames)
    <2>1. credit' \in Nat /\ sent + Charge(got) \in Nat
      BY <1>1, <1>2, <1>3
    <2>2. wire \in Seq(Frames)
      BY DEF IInv, TypeOK
    <2> HIDE DEF f
    <2>3. wire' \in Seq(Frames)
      BY <2>2, <1>4
    <2> QED BY <2>1, <2>3, <1>4 DEF f
  <1>6. TypeOK'
    BY <1>5, WindowAssumption DEF IInv, TypeOK, Read, receiverVars, WindowAssumption
  <1>7. Linked(wire, accepted, sent)'
    <2>1. Linked(Append(wire, f), accepted, f.end)
      BY <1>4, LinkedAppend DEF IInv, TypeOK
    <2> QED BY <2>1, <1>4 DEF Read
  <1>8. Linked(queue, written, accepted)'
    BY DEF IInv, Read
  <1>9. BackLinked'
    BY DEF IInv, Read, BackLinked, Worth, Advertised, receiverVars
  <1>10. SenderInv'
    <2>1. credit + allow + sent = granted /\ allow' = 0 /\ sent' = sent + Charge(got) /\ granted' = granted
          /\ sender' = "take"
      BY DEF IInv, SenderInv, Read
    <2>2. credit' + allow' + sent' = granted'
      BY <1>1, <1>2, <1>3, <2>1
    <2> QED BY <2>1, <2>2 DEF SenderInv
  <1>11. (ReceiverInv /\ PhaseInv)'
    BY DEF IInv, Read, ReceiverInv, PhaseInv, receiverVars
  <1> QED BY <1>6, <1>7, <1>8, <1>9, <1>10, <1>11 DEF IInv

\* A credit frame is worth exactly what it adds to the sender's credit.
LEMMA ReceiveCreditStep == ASSUME IInv, ReceiveCredit PROVE IInv'
  <1> DEFINE f == Head(back)
             t == Tail(back)
  <1>1. back \in Seq(CreditFrames) /\ back /= <<>> /\ back' = t
    BY DEF ReceiveCredit, IInv, TypeOK
  <1>2. /\ 1 \in 1..Len(back) /\ f = back[1] /\ f \in CreditFrames
        /\ t \in Seq(CreditFrames) /\ Len(t) = Len(back) - 1
        /\ \A i \in 1..Len(t) : t[i] = back[i+1] /\ i + 1 \in 1..Len(back)
    BY <1>1
  <1>3. f.kind \in {"opened", "update"} /\ f.add \in Nat /\ f.end \in Nat
    BY <1>2 DEF CreditFrames
  <1>4. /\ f.end = granted + Worth(back, opened, 1) /\ f.end <= Advertised
        /\ f.kind = "opened" => f.add = ChannelWindow
    BY <1>2 DEF IInv, BackLinked
  <1>5. /\ phase = "open" /\ Advertised = promised
        /\ ~opened => f.kind = "opened"
    BY <1>1, <1>2 DEF IInv, TypeOK, PhaseInv, Advertised
  <1>6. Worth(back, opened, 1) \in Nat
    BY <1>2, <1>3, WindowAssumption DEF Worth, WindowAssumption
  <1>7. CreditPlus(credit, Worth(back, opened, 1)) = credit + Worth(back, opened, 1)
    <2>1. credit + Worth(back, opened, 1) <= ChannelWindow
      BY <1>4, <1>5, <1>6, Positions, Counters, WindowAssumption DEF IInv, SenderInv, WindowAssumption
    <2> QED BY <2>1, <1>6, CreditPlusExact, Counters DEF IInv
  <1>8. CreditAfter(f) = credit + Worth(back, opened, 1)
    <2>1. CASE f.kind = "update"
      BY <2>1, <1>2, <1>7 DEF CreditAfter, Worth
    <2>2. CASE f.kind = "opened" /\ ~opened
      <3>1. InitialRaise(f.add) = ChannelWindow - InitialWindow
        BY <2>2, <1>4, WindowAssumption DEF InitialRaise, EffectiveWindow, Larger, WindowAssumption
      <3>2. Worth(back, opened, 1) = ChannelWindow - InitialWindow
        BY <2>2, <1>2 DEF Worth
      <3> QED BY <2>2, <3>1, <3>2, <1>6, <1>7, Counters DEF CreditAfter, IInv
    <2>3. CASE f.kind = "opened" /\ opened
      <3>1. Worth(back, opened, 1) = 0
        BY <2>3, <1>2 DEF Worth
      <3>2. CreditAfter(f) = credit
        BY <2>3 DEF CreditAfter
      <3> QED BY <3>1, <3>2, Counters DEF IInv
    <2> QED BY <2>1, <2>2, <2>3, <1>3
  <1>9. credit' = credit + Worth(back, opened, 1) /\ granted' = granted + Worth(back, opened, 1) /\ granted' = f.end
    BY <1>8, <1>4 DEF ReceiveCredit
  <1>10. opened' = TRUE /\ (opened \in BOOLEAN)
    BY Zenon, <1>5 DEF ReceiveCredit, IInv, TypeOK
  <1>11. TypeOK'
    BY <1>1, <1>2, <1>6, <1>9, <1>10 DEF ReceiveCredit, IInv, TypeOK, receiverVars
  <1>12. (Linked(wire, accepted, sent) /\ Linked(queue, written, accepted))'
    BY DEF ReceiveCredit, IInv
  <1>13. SenderInv'
    <2>1. credit + allow + sent = granted /\ UNCHANGED <<sender, allow, sent>>
      BY DEF ReceiveCredit, IInv, SenderInv
    <2>2. credit' + allow' + sent' = granted'
      BY <2>1, <1>6, <1>9, Counters DEF IInv
    <2> QED BY <2>1, <2>2 DEF IInv, SenderInv
  <1>14. ReceiverInv'
    BY DEF ReceiveCredit, IInv, ReceiverInv, receiverVars
  <1>15. PhaseInv'
    BY <1>5, <1>10 DEF ReceiveCredit, PhaseInv, receiverVars
  <1>16. BackLinked'
    <2>1. Advertised' = Advertised
      BY DEF ReceiveCredit, Advertised, receiverVars
    <2>2. \A i \in 1..Len(t) : Worth(back', opened', i) = Worth(back, opened, i+1)
      BY <1>1, <1>2, <1>10 DEF Worth
    <2>3. back' = <<>> => granted' = Advertised'
      <3> HAVE back' = <<>>
      <3>1. Len(back) = 1
        BY <1>1, <1>2
      <3> QED BY <3>1, <2>1, <1>1, <1>2, <1>9 DEF IInv, BackLinked
    <2>4. back' /= <<>> => back'[Len(back')].end = Advertised'
      BY <1>1, <1>2, <2>1 DEF IInv, BackLinked
    <2>5. \A i \in 1..Len(t) :
            /\ t[i].end = (IF i = 1 THEN granted' ELSE t[i-1].end) + Worth(back', opened', i)
            /\ granted' <= t[i].end /\ t[i].end <= Advertised'
            /\ t[i].kind = "opened" => t[i].add = ChannelWindow
      <3> SUFFICES ASSUME NEW i \in 1..Len(t)
                   PROVE /\ t[i].end = (IF i = 1 THEN granted' ELSE t[i-1].end) + Worth(back', opened', i)
                         /\ granted' <= t[i].end /\ t[i].end <= Advertised'
                         /\ t[i].kind = "opened" => t[i].add = ChannelWindow
        OBVIOUS
      <3>1. t[i] = back[i+1] /\ i + 1 \in 1..Len(back) /\ 1 <= i + 1 /\ i + 1 /= 1 /\ (i + 1) - 1 = i
        BY <1>2
      <3>2. (IF i = 1 THEN granted' ELSE t[i-1].end) = back[i].end
        BY <1>2, <1>9
      <3> QED BY <3>1, <3>2, <2>1, <2>2, <1>2, <1>9 DEF IInv, BackLinked
    <2>6. \A i, j \in 1..Len(t) : i <= j => t[i].end <= t[j].end
      BY <1>2 DEF IInv, BackLinked
    <2> QED BY Zenon, <2>3, <2>4, <2>5, <2>6, <1>1 DEF BackLinked
  <1> QED BY <1>11, <1>12, <1>13, <1>14, <1>15, <1>16 DEF IInv

\* The frame at the head of the wire always fits the receiver's window.
LEMMA DeliverStep == ASSUME IInv, Deliver PROVE IInv'
  <1> DEFINE f == Head(wire)
  <1>1. wire \in Seq(Frames) /\ wire /= <<>> /\ queue \in Seq(Frames)
    BY DEF Deliver, IInv, TypeOK
  <1>2. /\ f \in Frames /\ f.end = accepted + Charge(f.len) /\ f.end <= sent
        /\ Linked(Tail(wire), f.end, sent)
    BY <1>1, LinkedTail, Counters DEF IInv
  <1>3. f.len \in Nat /\ f.end \in Nat /\ Charge(f.len) \in Nat
    BY <1>2, FrameFields
  <1>4. Accepts(remaining, f.len) /\ ~overrun
    BY <1>2, <1>3, Positions, Counters DEF Accepts, IInv, ReceiverInv
  <1>5. /\ remaining' = remaining - Charge(f.len)
        /\ queue' = Append(queue, f) /\ accepted' = f.end
        /\ overrun' = FALSE /\ wire' = Tail(wire)
    BY Zenon, <1>4 DEF Deliver
  <1>6. remaining' \in Nat /\ accepted' \in Nat /\ wire' \in Seq(Frames) /\ queue' \in Seq(Frames)
    <2>1. wire' \in Seq(Frames) /\ queue' \in Seq(Frames)
      BY <1>1, <1>2, <1>5
    <2>2. remaining' \in Nat /\ accepted' \in Nat
      BY <1>3, <1>4, <1>5, Counters DEF Accepts, IInv
    <2> QED BY <2>1, <2>2
  <1>7. TypeOK'
    BY <1>5, <1>6 DEF Deliver, IInv, TypeOK, senderVars
  <1>8. Linked(wire, accepted, sent)'
    BY <1>2, <1>5 DEF Deliver
  <1>9. Linked(queue, written, accepted)'
    <2>1. Linked(Append(queue, f), written, f.end)
      BY <1>1, <1>2, LinkedAppend, Counters DEF IInv
    <2> QED BY <2>1, <1>5 DEF Deliver
  <1>10. BackLinked'
    BY DEF Deliver, IInv, BackLinked, Worth, Advertised, senderVars
  <1>11. SenderInv'
    BY DEF Deliver, IInv, SenderInv, senderVars
  <1>12. ReceiverInv'
    <2>1. remaining' + accepted' = promised'
      BY <1>2, <1>3, <1>5, Counters DEF Deliver, IInv, ReceiverInv
    <2> QED BY <2>1, <1>5 DEF Deliver, IInv, ReceiverInv
  <1>13. PhaseInv'
    <2>1. Len(queue') = Len(queue) + 1 /\ \A i \in 1..Len(queue) : queue'[i] = queue[i]
      BY <1>1, <1>2, <1>5
    <2>2. phase = "connecting" => buffered <= Len(queue')
      BY <2>1, <1>1 DEF IInv, PhaseInv, TypeOK
    <2>3. phase = "connecting" => pendingLen = IF buffered = 0 THEN 0 ELSE queue'[buffered].end
      BY <2>1, <1>1 DEF IInv, PhaseInv, TypeOK
    <2> QED BY Zenon, <2>2, <2>3 DEF Deliver, IInv, PhaseInv, senderVars
  <1> QED BY <1>7, <1>8, <1>9, <1>10, <1>11, <1>12, <1>13 DEF IInv

\* What is buffered while connecting fits INITIAL_WINDOW.
LEMMA BufferStep == ASSUME IInv, Buffer PROVE IInv'
  <1> DEFINE b == buffered + 1
             f == queue[b]
  <1>1. /\ queue \in Seq(Frames) /\ buffered \in Nat /\ b \in 1..Len(queue)
        /\ phase = "connecting" /\ written = 0
    BY DEF Buffer, IInv, TypeOK, PhaseInv
  <1>2. f \in Frames /\ f.end \in Nat /\ Charge(f.len) \in Nat
    BY <1>1, QueueFields, FrameFields
  <1>3. f.end = pendingLen + Charge(f.len) /\ f.end <= accepted
    BY <1>1 DEF IInv, PhaseInv, Linked
  <1>4. accepted <= InitialWindow
    BY <1>1, Counters, WindowAssumption DEF IInv, ReceiverInv, WindowAssumption
  <1>5. PendingFits(pendingLen, f.len)
    BY <1>2, <1>3, <1>4, Counters, WindowAssumption DEF PendingFits, IInv, WindowAssumption
  <1>6. buffered' = b /\ pendingLen' = f.end /\ overrun' = overrun /\ overrun = FALSE
    BY <1>3, <1>5 DEF Buffer, IInv, ReceiverInv, TypeOK
  <1>7. TypeOK'
    BY <1>1, <1>2, <1>6 DEF Buffer, IInv, TypeOK, senderVars, history
  <1>8. (Linked(wire, accepted, sent) /\ Linked(queue, written, accepted))'
    BY DEF Buffer, IInv, history
  <1>9. BackLinked'
    BY DEF Buffer, IInv, BackLinked, Worth, Advertised, senderVars, history
  <1>10. SenderInv'
    BY DEF Buffer, IInv, SenderInv, senderVars, history
  <1>11. ReceiverInv'
    BY <1>6 DEF Buffer, IInv, ReceiverInv, history
  <1>12. PhaseInv'
    BY <1>1, <1>6 DEF Buffer, IInv, PhaseInv, senderVars, history
  <1> QED BY <1>7, <1>8, <1>9, <1>10, <1>11, <1>12 DEF IInv

\* The window is widened before `opened` leaves.
LEMMA GrantStep == ASSUME IInv, Grant PROVE IInv'
  <1>1. /\ phase = "connecting" /\ phase' = "granted" /\ dir = "up"
        /\ back = <<>> /\ ~opened /\ written = 0
    BY DEF Grant, IInv, PhaseInv
  <1>2. drained = 0 /\ promised = InitialWindow
    BY <1>1, Counters, WindowAssumption DEF IInv, ReceiverInv, WindowAssumption
  <1> DEFINE n == ChannelWindow - InitialWindow
  <1>3. n \in Nat /\ remaining + n <= ChannelWindow
    BY <1>2, Counters, WindowAssumption DEF IInv, ReceiverInv, WindowAssumption
  <1>4. remaining' = remaining + n /\ promised' = ChannelWindow
    BY <1>2, <1>3, SaturatingAddExact, Counters, WindowAssumption
       DEF Grant, WidenedBy, IInv, WindowAssumption
  <1>5. TypeOK'
    <2>1. remaining' \in Nat /\ promised' \in Nat /\ buffered' = 0 /\ pendingLen' = 0
      BY <1>3, <1>4, Counters, WindowAssumption DEF Grant, IInv, WindowAssumption
    <2> QED BY <2>1, <1>1 DEF Grant, IInv, TypeOK, senderVars
  <1>6. (Linked(wire, accepted, sent) /\ Linked(queue, written, accepted))'
    BY DEF Grant, IInv
  <1>7. BackLinked'
    <2>1. back' = <<>> /\ granted' = InitialWindow /\ Advertised' = InitialWindow
      BY <1>1, <1>2 DEF Grant, IInv, BackLinked, Advertised
    <2> QED BY <2>1 DEF BackLinked
  <1>8. SenderInv'
    BY DEF Grant, IInv, SenderInv, senderVars
  <1>9. ReceiverInv'
    <2>1. remaining' + accepted' = promised'
      <3>1. accepted' = accepted /\ remaining + accepted = InitialWindow
        BY <1>2 DEF Grant, IInv, ReceiverInv
      <3>2. remaining \in Nat /\ accepted \in Nat
        BY Counters DEF IInv
      <3> QED BY <3>1, <3>2, <1>3, <1>4, WindowAssumption DEF WindowAssumption
    <2>2. promised' + drained' = written' + ChannelWindow
      BY <1>1, <1>2, <1>4, WindowAssumption DEF Grant, WindowAssumption
    <2> QED BY <2>1, <2>2, <1>1 DEF Grant, IInv, ReceiverInv
  <1>10. PhaseInv'
    BY <1>1 DEF Grant, PhaseInv, senderVars
  <1> QED BY <1>5, <1>6, <1>7, <1>8, <1>9, <1>10 DEF IInv

\* A credit frame that promises what it is worth can be sent.
LEMMA BackAppend ==
    ASSUME IInv, NEW f \in CreditFrames, back' = Append(back, f),
           granted' = granted, opened' = opened,
           NEW w \in Nat, Worth(back', opened', Len(back) + 1) = w,
           Advertised' = Advertised + w, f.end = Advertised',
           f.kind = "opened" => f.add = ChannelWindow
    PROVE  BackLinked'
  <1> DEFINE t == Append(back, f)
             last == Len(back) + 1
  <1>1. back \in Seq(CreditFrames) /\ Advertised \in Nat /\ granted \in Nat /\ granted <= Advertised
    BY Positions, Counters DEF IInv, TypeOK
  <1>2. /\ t \in Seq(CreditFrames) /\ Len(t) = last /\ t /= <<>> /\ t[last] = f
        /\ last \in Nat /\ \A i \in 1..Len(back) : t[i] = back[i]
    BY <1>1
  <1>3. \A i \in 1..Len(back) : back[i].end \in Nat /\ Worth(back', opened', i) = Worth(back, opened, i)
    <2> TAKE i \in 1..Len(back)
    <2>1. back[i] \in CreditFrames
      BY SMTT(30), <1>1
    <2>2. back[i].end \in Nat
      BY <2>1 DEF CreditFrames
    <2> QED BY <2>2, <1>2 DEF Worth
  <1>4. \A i \in 1..Len(t) :
          /\ t[i].end = (IF i = 1 THEN granted ELSE t[i-1].end) + Worth(back', opened', i)
          /\ granted <= t[i].end /\ t[i].end <= Advertised'
          /\ t[i].kind = "opened" => t[i].add = ChannelWindow
    <2> SUFFICES ASSUME NEW i \in 1..Len(t)
                 PROVE /\ t[i].end = (IF i = 1 THEN granted ELSE t[i-1].end) + Worth(back', opened', i)
                       /\ granted <= t[i].end /\ t[i].end <= Advertised'
                       /\ t[i].kind = "opened" => t[i].add = ChannelWindow
      OBVIOUS
    <2>1. CASE i \in 1..Len(back)
      <3>1. t[i] = back[i] /\ (i /= 1 => t[i-1] = back[i-1]) /\ Worth(back', opened', i) = Worth(back, opened, i)
        BY SMTT(30), <2>1, <1>1, <1>2, <1>3
      <3>2. /\ back[i].end = (IF i = 1 THEN granted ELSE back[i-1].end) + Worth(back, opened, i)
            /\ granted <= back[i].end /\ back[i].end <= Advertised
            /\ back[i].kind = "opened" => back[i].add = ChannelWindow
        BY <2>1 DEF IInv, BackLinked
      <3>3. back[i].end \in Nat
        BY <2>1, <1>3
      <3> QED BY <3>1, <3>2, <3>3, <1>1
    <2>2. CASE i = last
      <3>1. (IF i = 1 THEN granted ELSE t[i-1].end) = Advertised
        <4>1. CASE back = <<>>
          BY <4>1, <2>2 DEF IInv, BackLinked
        <4>2. CASE back /= <<>>
          <5>1. Len(back) \in 1..Len(back) /\ i - 1 = Len(back) /\ i /= 1
            BY <4>2, <2>2, <1>1
          <5> QED BY <5>1, <4>2, <1>2 DEF IInv, BackLinked
        <4> QED BY <4>1, <4>2
      <3>2. t[i] = f /\ Worth(back', opened', i) = w
        BY <2>2, <1>2
      <3>3. granted <= Advertised + w /\ Advertised' = Advertised + w
        BY <1>1
      <3> QED BY <3>1, <3>2, <3>3, <1>1
    <2> QED BY SMTT(30), <1>1, <1>2, <2>1, <2>2
  <1>5. \A i, j \in 1..Len(t) : i <= j => t[i].end <= t[j].end
    <2> SUFFICES ASSUME NEW i \in 1..Len(t), NEW j \in 1..Len(t), i <= j
                 PROVE t[i].end <= t[j].end
      OBVIOUS
    <2>1. CASE j \in 1..Len(back)
      BY <2>1, <1>1, <1>2 DEF IInv, BackLinked
    <2>2. CASE j = last
      BY <2>2, <1>2, <1>4
    <2> QED BY <1>1, <1>2, <2>1, <2>2
  <1> QED BY Zenon, <1>2, <1>4, <1>5 DEF BackLinked

\* `opened` carries what Grant has promised.
LEMMA SendOpenedStep == ASSUME IInv, SendOpened PROVE IInv'
  <1> DEFINE f == [kind |-> "opened", add |-> ChannelWindow, end |-> promised]
             w == ChannelWindow - InitialWindow
  <1>1. /\ phase = "granted" /\ phase' = "open" /\ dir = "up"
        /\ back = <<>> /\ ~opened /\ written = 0 /\ back' = Append(back, f)
    BY DEF SendOpened, IInv, PhaseInv
  <1>2. promised = ChannelWindow /\ promised' = promised /\ w \in Nat
    BY <1>1, Counters, WindowAssumption DEF SendOpened, IInv, ReceiverInv, history, WindowAssumption
  <1>3. /\ f \in CreditFrames /\ back' \in Seq(CreditFrames) /\ Len(back') = 1
        /\ back'[1] = f /\ back' /= <<>> /\ Len(back) = 0
    BY <1>1, <1>2, WindowAssumption DEF CreditFrames, WindowAssumption
  <1>4. TypeOK'
    BY <1>1, <1>3 DEF SendOpened, IInv, TypeOK, senderVars, history
  <1>5. (Linked(wire, accepted, sent) /\ Linked(queue, written, accepted))'
    BY DEF SendOpened, IInv, history
  <1>6. BackLinked'
    <2>1. Advertised = InitialWindow /\ Advertised' = ChannelWindow
      BY <1>1, <1>2 DEF Advertised
    <2>2. UNCHANGED <<granted, opened>>
      BY DEF SendOpened, senderVars, history
    <2>3. Worth(back', opened', Len(back) + 1) = w
      BY <1>1, <1>3, <2>2 DEF Worth
    <2>4. Advertised' = Advertised + w /\ f.end = Advertised'
      BY <1>2, <2>1, WindowAssumption DEF WindowAssumption
    <2> QED BY <1>1, <1>2, <1>3, <2>2, <2>3, <2>4, BackAppend
  <1>7. SenderInv'
    BY DEF SendOpened, IInv, SenderInv, senderVars, history
  <1>8. ReceiverInv'
    BY <1>1 DEF SendOpened, IInv, ReceiverInv, history
  <1>9. PhaseInv'
    BY <1>1, <1>3 DEF SendOpened, PhaseInv
  <1> QED BY <1>4, <1>5, <1>6, <1>7, <1>8, <1>9 DEF IInv

\* A repeated `opened` is worth nothing: another one is ahead of it.
LEMMA RepeatOpenedStep == ASSUME IInv, RepeatOpened PROVE IInv'
  <1> DEFINE f == [kind |-> "opened", add |-> ChannelWindow, end |-> promised]
  <1>1. phase = "open" /\ phase' = phase /\ back' = Append(back, f) /\ UNCHANGED <<granted, opened, promised>>
    BY DEF RepeatOpened, receiverVars, senderVars, history
  <1>2. f \in CreditFrames /\ back \in Seq(CreditFrames)
    BY Counters, WindowAssumption DEF CreditFrames, IInv, TypeOK, WindowAssumption
  <1>3. /\ back' \in Seq(CreditFrames) /\ Len(back') = Len(back) + 1 /\ back'[Len(back) + 1] = f
        /\ Len(back) \in Nat /\ back' /= <<>>
        /\ back /= <<>> => back'[1] = back[1] /\ Len(back) + 1 /= 1
    BY <1>1, <1>2
  <1>4. TypeOK'
    BY <1>3 DEF RepeatOpened, IInv, TypeOK, senderVars, receiverVars, history
  <1>5. (Linked(wire, accepted, sent) /\ Linked(queue, written, accepted))'
    BY DEF RepeatOpened, IInv, history
  <1>6. BackLinked'
    <2>1. Advertised = promised /\ Advertised' = promised /\ Advertised \in Nat
      BY <1>1, Counters DEF Advertised, IInv
    <2>2. opened \/ back /= <<>>
      BY <1>1 DEF IInv, PhaseInv
    <2>3. Worth(back', opened', Len(back) + 1) = 0
      BY <1>1, <1>3, <2>2 DEF Worth
    <2>4. Advertised' = Advertised + 0 /\ f.end = Advertised' /\ 0 \in Nat
      BY <2>1
    <2> QED BY <1>1, <1>2, <2>3, <2>4, BackAppend
  <1>7. SenderInv'
    BY DEF RepeatOpened, IInv, SenderInv, senderVars, history
  <1>8. ReceiverInv'
    BY DEF RepeatOpened, IInv, ReceiverInv, receiverVars, history
  <1>9. PhaseInv'
    BY SMTT(30), <1>1, <1>3 DEF RepeatOpened, IInv, PhaseInv, receiverVars, senderVars, history
  <1> QED BY <1>4, <1>5, <1>6, <1>7, <1>8, <1>9 DEF IInv

\* Writing a frame moves its charge from the queue to drained, and once
\* enough was drained back into the window.
LEMMA WriteStep == ASSUME IInv, Write PROVE IInv'
  <1> DEFINE f == Head(queue)
             total == DrainedBy(drained, f.len)
             due == UpdateDue(total)
             u == [kind |-> "update", add |-> total, end |-> promised + total]
  <1>1. phase = "open" /\ phase' = "open" /\ queue \in Seq(Frames) /\ queue /= <<>> /\ back \in Seq(CreditFrames)
    BY DEF Write, IInv, TypeOK
  <1>2. /\ f \in Frames /\ f.end = written + Charge(f.len) /\ f.end <= accepted
        /\ Linked(Tail(queue), f.end, accepted)
    BY <1>1, LinkedTail, Counters DEF IInv
  <1>3. f.len \in Nat /\ f.end \in Nat /\ Charge(f.len) \in Nat
    BY <1>2, FrameFields
  <1>4. promised + drained = written + ChannelWindow /\ remaining + accepted = promised /\ drained <= written
    BY <1>1 DEF IInv, ReceiverInv
  <1>5. total = drained + Charge(f.len) /\ total \in Nat
    <2>1. drained + Charge(f.len) <= ChannelWindow
      BY <1>2, <1>3, <1>4, Counters, WindowAssumption DEF IInv, WindowAssumption
    <2> QED BY <2>1, <1>3, SaturatingAddExact, Counters DEF DrainedBy, IInv
  <1>6. WidenedBy(remaining, total) = remaining + total
    <2>1. remaining + total <= ChannelWindow
      BY <1>2, <1>3, <1>4, <1>5, Counters, WindowAssumption DEF IInv, WindowAssumption
    <2> QED BY <2>1, <1>5, SaturatingAddExact, Counters DEF WidenedBy, IInv
  <1>7. /\ written' = f.end /\ queue' = Tail(queue) /\ accepted' = accepted
        /\ drained' = IF due THEN 0 ELSE total
        /\ remaining' = IF due THEN remaining + total ELSE remaining
        /\ promised' = IF due THEN promised + total ELSE promised
        /\ back' = IF due THEN Append(back, u) ELSE back
    BY Zenon, <1>6 DEF Write
  <1> DEFINE c == Charge(f.len)
  <1>7a. /\ written' = written + c /\ accepted' = accepted /\ c \in Nat
         /\ written \in Nat /\ drained \in Nat /\ remaining \in Nat
         /\ promised \in Nat /\ accepted \in Nat /\ ChannelWindow \in Nat
         /\ \/ /\ drained' = 0
               /\ remaining' = remaining + (drained + c) /\ promised' = promised + (drained + c)
            \/ drained' = drained + c /\ remaining' = remaining /\ promised' = promised
    BY Zenon, <1>2, <1>3, <1>5, <1>7, Counters, WindowAssumption DEF IInv, WindowAssumption
  <1>8. u \in CreditFrames
    <2>1. promised \in Nat /\ total \in Nat BY Zenon, <1>5, <1>7a
    <2> HIDE DEF total, c
    <2> QED BY <2>1 DEF CreditFrames
  <1>9. TypeOK'
    <2>1. queue' \in Seq(Frames) /\ back' \in Seq(CreditFrames)
      <3> HIDE DEF f, u, due, total
      <3>1. queue' \in Seq(Frames)
        BY <1>1, <1>7
      <3>2. back' \in Seq(CreditFrames)
        BY <1>1, <1>7, <1>8
      <3> QED BY <3>1, <3>2
    <2>2. written' \in Nat /\ drained' \in Nat /\ remaining' \in Nat /\ promised' \in Nat
      <3> HIDE DEF c
      <3> QED BY <1>7a
    <2> QED BY Zenon, <2>1, <2>2 DEF Write, IInv, TypeOK, senderVars
  <1>10. Linked(wire, accepted, sent)'
    BY Zenon DEF Write, IInv
  <1>11. Linked(queue, written, accepted)'
    BY Zenon, <1>2, <1>7
  <1>12. BackLinked'
    <2>1. UNCHANGED <<granted, opened>> /\ Advertised = promised /\ Advertised' = promised'
      BY Zenon, <1>1 DEF Write, senderVars, Advertised
    <2>2. CASE due
      <3>1. back' = Append(back, u) /\ Advertised' = Advertised + total /\ u.end = Advertised'
        BY <2>1, <2>2, <1>7
      <3>2. back'[Len(back) + 1] = u
        BY <3>1, <1>1, <1>8
      <3>3. Worth(back', opened', Len(back) + 1) = total
        <4>1. u.kind = "update" /\ u.add = total BY Zenon
        <4> HIDE DEF u, total
        <4> QED BY Zenon, <3>2, <4>1 DEF Worth
      <3> QED BY Zenon, <2>1, <3>1, <3>3, <1>5, <1>8, BackAppend
    <2>3. CASE ~due
      BY Zenon, <2>1, <2>3, <1>7 DEF IInv, BackLinked
    <2> QED BY <2>2, <2>3
  <1>13. SenderInv'
    BY Zenon DEF Write, IInv, SenderInv, senderVars
  <1>14. ReceiverInv'
    <2>1. remaining' + accepted' = promised' /\ promised' + drained' = written' + ChannelWindow
      <3> HIDE DEF c
      <3> QED BY <1>4, <1>7a
    <2>2. drained' <= written'
      <3> HIDE DEF c
      <3> QED BY <1>4, <1>7a
    <2>3. drained' = 0 \/ drained' < UpdateThreshold
      BY <1>5, <1>7, WindowAssumption DEF UpdateDue, WindowAssumption
    <2>4. ~overrun' /\ phase' = "open"
      BY Zenon, <1>1 DEF Write, IInv, ReceiverInv
    <2> QED BY <2>1, <2>2, <2>3, <2>4 DEF ReceiverInv
  <1>15. PhaseInv'
    <2>1. ~opened' => back' /= <<>> /\ back'[1].kind = "opened"
      <3> HAVE ~opened'
      <3>1. back /= <<>> /\ back[1].kind = "opened" /\ Len(back) >= 1
        BY SMTT(30), <1>1 DEF Write, senderVars, IInv, PhaseInv
      <3>2. back' = back \/ back' = Append(back, u)
        BY <1>7
      <3> QED BY <3>1, <3>2, <1>1, <1>8
    <2> QED BY <2>1, <1>1 DEF PhaseInv
  <1> QED BY <1>9, <1>10, <1>11, <1>12, <1>13, <1>14, <1>15 DEF IInv

\* Every step preserves the invariant.
LEMMA NextIInv == IInv /\ [Next]_vars => IInv'
  <1> SUFFICES ASSUME IInv, [Next]_vars PROVE IInv'
    OBVIOUS
  <1>1. CASE Take BY <1>1, TakeStep
  <1>2. CASE \E got \in 1..allow : Read(got) BY <1>2, ReadStep
  <1>3. CASE ReadEof BY <1>3, ReadEofStep
  <1>4. CASE Cancelled BY <1>4, CancelledStep
  <1>5. CASE ReceiveCredit BY <1>5, ReceiveCreditStep
  <1>6. CASE Deliver BY <1>6, DeliverStep
  <1>7. CASE Buffer BY <1>7, BufferStep
  <1>8. CASE Grant BY <1>8, GrantStep
  <1>9. CASE SendOpened BY <1>9, SendOpenedStep
  <1>10. CASE Write BY <1>10, WriteStep
  <1>11. CASE RepeatOpened BY <1>11, RepeatOpenedStep
  <1>12. CASE UNCHANGED vars
    <2>1. UNCHANGED <<dir, wire, queue, receiverVars, back, opened, repeats, overrun, history>>
          /\ UNCHANGED <<sender, credit, allow>>
      BY <1>12 DEF vars, senderVars
    <2>2. TypeOK' /\ SenderInv'
      BY <2>1 DEF IInv, TypeOK, SenderInv, receiverVars, history
    <2> QED BY <2>1, <2>2, SenderOnly DEF IInv
  <1> QED BY <1>1, <1>2, <1>3, <1>4, <1>5, <1>6, <1>7, <1>8, <1>9, <1>10, <1>11, <1>12 DEF Next

\* The invariant holds throughout, whatever the window sizes.
THEOREM FlowInvariant == Spec => []IInv
  BY InitIInv, NextIInv, PTL DEF Spec

\* Every variable keeps its type: in particular no frame exceeds MAX_FRAME.
THEOREM FlowTypeOK == Spec => []TypeOK
  <1>1. IInv => TypeOK
    BY DEF IInv
  <1> QED BY <1>1, FlowInvariant, PTL

\* Two ends that follow the code never close a channel for a violation.
THEOREM FlowNoOverrun == Spec => []NoOverrun
  <1>1. IInv => NoOverrun
    BY DEF IInv, ReceiverInv, NoOverrun
  <1> QED BY <1>1, FlowInvariant, PTL

\* SendCredit loses no credit and creates none: what the sender has, has
\* reserved and has spent is what it was granted.
THEOREM FlowCreditConserved == Spec => []CreditConserved
  <1>1. IInv => CreditConserved
    BY DEF IInv, SenderInv, CreditConserved
  <1> QED BY <1>1, FlowInvariant, PTL

\* RecvWindow promises what it can take: its counter is exactly what it
\* promised less what it accepted, through every update and repeated `opened'.
THEOREM FlowWindowConserved == Spec => []WindowConserved
  <1>1. IInv => WindowConserved
    BY DEF IInv, ReceiverInv, WindowConserved
  <1> QED BY <1>1, FlowInvariant, PTL

\* What is between the two sockets never costs more than CHANNEL_WINDOW.
THEOREM FlowInFlightBounded == Spec => []InFlightBounded
  <1>1. IInv => InFlightBounded
    <2> SUFFICES ASSUME IInv PROVE InFlightBounded
      OBVIOUS
    <2>1. sent <= promised /\ promised <= written + ChannelWindow
      BY Positions, Counters DEF IInv
    <2> QED BY <2>1, Counters, WindowAssumption DEF InFlightBounded, IInv, WindowAssumption
  <1> QED BY <1>1, FlowInvariant, PTL

\* An idle channel can always send again.
THEOREM FlowNoStall == Spec => []NoStall
  <1>1. IInv => NoStall
    <2> SUFFICES ASSUME IInv, phase = "open", wire = <<>>, queue = <<>>, back = <<>>, sender = "take"
                 PROVE  CanTake(credit)
      BY DEF NoStall
    <2>1. accepted = sent /\ written = accepted /\ granted = promised
      BY DEF IInv, Linked, BackLinked, Advertised
    <2>2. allow = 0 /\ credit + allow + sent = granted
      BY DEF IInv, SenderInv
    <2>3. promised + drained = written + ChannelWindow /\ (drained = 0 \/ drained < UpdateThreshold)
      BY DEF IInv, ReceiverInv
    <2>4. credit + drained = ChannelWindow
      BY <2>1, <2>2, <2>3, Counters, WindowAssumption DEF IInv, WindowAssumption
    <2>5. credit \in Nat /\ drained \in Nat BY Zenon, Counters DEF IInv
    <2> QED BY <2>3, <2>4, <2>5, WindowAssumption DEF CanTake, WindowAssumption
  <1> QED BY <1>1, FlowInvariant, PTL

\* The safety half of EverythingWritten.
NothingLost == wire = <<>> /\ queue = <<>> => written = sent /\ accepted = sent

\* No charge is lost or counted twice between the sender's SendCredit and the
\* local socket: when nothing is under way, what was sent has been written.
THEOREM FlowNothingLost == Spec => []NothingLost
  <1>1. IInv => NothingLost
    BY DEF IInv, Linked, NothingLost
  <1> QED BY <1>1, FlowInvariant, PTL
=============================================================================
