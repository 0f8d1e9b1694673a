-------------------------- MODULE ConnectionProofs --------------------------
(* Proofs about a connection attempt and about the messages on a WebRTC       *)
(* stream, each for its own specification and for every value of its          *)
(* constants.  F! and f_ are the messages; the names of a connection attempt  *)
(* have no prefix.                                                            *)
EXTENDS MCConnection, TLAPS

-----------------------------------------------------------------------------
(* Messages on a WebRTC stream, for any number of clones, messages and        *)
(* fragments.                                                                 *)
(*                                                                            *)
(* What the peer reads is f_acc followed by f_wire.  The invariant says that  *)
(* neighbours in it belong together (Begun, Joined, Chained), that a message  *)
(* in the middle of being written is where the stream stands (Writing), and   *)
(* that an unfinished one has somebody to keep others away: its writer, the   *)
(* teardown with the permit, or a connection that is closed (Torn).  The last *)
(* needs the teardown to keep its permit until its own close() is through     *)
(* (Closing).                                                                 *)
Frag == [by: Clones, no: Nat, part: Nat \ {0}, end: BOOLEAN]

FTypes ==
    /\ f_at \in [Clones -> {"idle", "connect", "gate", "inner", "write"}]
    /\ f_wrote \in [Clones -> Nat] /\ f_sent \in [Clones -> Nat]
    /\ f_permit \in Clones \cup {F!Free, F!Teardown}
    /\ f_wire \in Seq(Frag) /\ f_acc \in Seq(Frag) /\ f_delivered \in Seq(Seq(Frag))

\* The permit is held from the gate to the end of the send.
Gate ==
    \A s \in Clones :
        /\ f_at[s] \in {"inner", "write"} <=> f_permit = s
        /\ f_at[s] \in {"connect", "gate", "inner"} => f_wrote[s] = 0

\* Who closes is settled when a close() latches.
Latched == f_close = "no" <=> f_closer = F!Free

Closing ==
    /\ f_close \in {"told", "done"} => f_state = "Closed"
    /\ F!Teardown \in f_tasks => f_permit = F!Teardown
    /\ f_close \in {"latched", "told"} => f_permit = F!Teardown /\ F!Teardown \notin f_tasks
    /\ f_close \in {"no", "latched", "told", "done"}

\* Fragment g comes after fragment f.
Follows(f, g) ==
    IF f.end THEN g.part = 1 ELSE g.part = f.part + 1 /\ g.by = f.by /\ g.no = f.no

Begun ==
    \A i \in 1..Len(f_acc) :
        /\ f_acc[i].part = i /\ ~f_acc[i].end
        /\ f_acc[i].by = f_acc[1].by /\ f_acc[i].no = f_acc[1].no

Joined ==
    f_wire # <<>> =>
        IF f_acc = <<>> THEN f_wire[1].part = 1 ELSE Follows(f_acc[Len(f_acc)], f_wire[1])

Chained == \A i \in 1..(Len(f_wire) - 1) : Follows(f_wire[i], f_wire[i + 1])

LastFrag == IF f_wire # <<>> THEN f_wire[Len(f_wire)] ELSE f_acc[Len(f_acc)]

\* How many fragments of an unfinished message the stream ends with.
OpenParts ==
    IF f_wire = <<>> THEN Len(f_acc)
    ELSE IF f_wire[Len(f_wire)].end THEN 0 ELSE f_wire[Len(f_wire)].part

Writing ==
    \A s \in Clones : f_at[s] = "write" =>
        /\ f_wrote[s] = OpenParts
        /\ OpenParts > 0 => LastFrag.by = s /\ LastFrag.no = f_sent[s]

Torn ==
    OpenParts > 0 =>
        \/ f_permit = F!Teardown \/ f_close = "done"
        \/ \E s \in Clones : f_at[s] = "write"

Stream == Begun /\ Joined /\ Chained /\ Writing /\ Torn

FInv ==
    /\ FTypes /\ Gate /\ Latched
    /\ f_closer # F!Other => Closing /\ (f_ended \/ Stream) /\ F!NoSplice

\* Nothing has been sent yet.
LEMMA FInitInv == F!Init => FInv
  <1> SUFFICES ASSUME F!Init PROVE FInv OBVIOUS
  <1>1. FTypes BY DEF F!Init, FTypes, F!Free
  <1>2. Gate BY FramingAssumption DEF F!Init, Gate
  <1>3. Latched /\ Closing BY DEF F!Init, Latched, Closing
  <1>4. OpenParts = 0 BY DEF F!Init, OpenParts
  <1>5. Begun /\ Joined /\ Chained BY SMTT(30) DEF F!Init, Begun, Joined, Chained
  <1>6. Writing /\ Torn BY <1>4 DEF F!Init, Writing, Torn
  <1>7. F!NoSplice BY DEF F!Init, F!NoSplice
  <1> QED BY <1>1, <1>2, <1>3, <1>5, <1>6, <1>7 DEF FInv, Stream

\* What a step that touches neither the wire nor the receiver leaves alone.
LEMMA SameStream ==
    ASSUME UNCHANGED <<f_wire, f_acc>>
    PROVE  /\ OpenParts' = OpenParts /\ LastFrag' = LastFrag
           /\ Begun' = Begun /\ Joined' = Joined /\ Chained' = Chained
  <1>1. OpenParts' = OpenParts /\ LastFrag' = LastFrag BY DEF OpenParts, LastFrag
  <1>2. Begun' = Begun BY DEF Begun
  <1>3. Joined' = Joined BY DEF Joined, Follows
  <1>4. Chained' = Chained BY DEF Chained, Follows
  <1> QED BY <1>1, <1>2, <1>3, <1>4

LEMMA OpenPartsNat == FTypes => OpenParts \in Nat
  <1> SUFFICES ASSUME FTypes PROVE OpenParts \in Nat OBVIOUS
  <1>1. f_wire # <<>> => f_wire[Len(f_wire)] \in Frag BY DEF FTypes
  <1>2. f_wire # <<>> => f_wire[Len(f_wire)].part \in Nat BY <1>1 DEF Frag
  <1>3. Len(f_acc) \in Nat BY DEF FTypes
  <1> QED BY <1>2, <1>3 DEF OpenParts

\* Steps of a clone that holds no permit.
LEMMA AwaySteps ==
    ASSUME FInv, NEW s \in Clones, F!SendBytes(s) \/ F!ConnectWait(s) \/ F!GateTimeout(s)
    PROVE  FInv'
  <1>1. UNCHANGED <<f_permit, f_state, f_tasks, f_closer, f_close>>
        /\ UNCHANGED <<f_wire, f_acc, f_delivered, f_ended>>
    BY DEF F!SendBytes, F!ConnectWait, F!GateTimeout, F!closeVars, F!recvVars
  <1>2. \E where \in {"idle", "connect", "gate"} : f_at' = [f_at EXCEPT ![s] = where]
    BY Zenon DEF F!SendBytes, F!ConnectWait, F!GateTimeout, F!Go
  <1>3. f_at[s] \in {"idle", "connect", "gate"}
    BY DEF F!SendBytes, F!ConnectWait, F!GateTimeout
  <1>4. \/ f_at[s] # "idle" /\ UNCHANGED <<f_wrote, f_sent>>
        \/ /\ f_wrote' = [f_wrote EXCEPT ![s] = 0] /\ f_sent' = [f_sent EXCEPT ![s] = @ + 1]
    BY DEF F!SendBytes, F!ConnectWait, F!GateTimeout
  <1>5. FTypes'
    <2>1. f_at' \in [Clones -> {"idle", "connect", "gate", "inner", "write"}]
      BY <1>2 DEF FInv, FTypes
    <2>2. f_wrote \in [Clones -> Nat] /\ f_sent \in [Clones -> Nat] BY DEF FInv, FTypes
    <2>3. f_wrote' \in [Clones -> Nat] /\ f_sent' \in [Clones -> Nat] BY <1>4, <2>2
    <2> QED BY <1>1, <2>1, <2>3 DEF FInv, FTypes
  <1>6. \A c \in Clones : c # s =>
            f_at'[c] = f_at[c] /\ f_wrote'[c] = f_wrote[c] /\ f_sent'[c] = f_sent[c]
    BY <1>2, <1>4 DEF FInv, FTypes
  <1>7. f_at'[s] \in {"idle", "connect", "gate"}
    BY <1>2 DEF FInv, FTypes
  <1>8. f_at'[s] \in {"connect", "gate"} => f_wrote'[s] = 0
    BY <1>3, <1>4, <1>7 DEF FInv, FTypes, Gate
  <1>9. Gate' BY Zenon, <1>1, <1>3, <1>6, <1>7, <1>8 DEF FInv, Gate
  <1>10. ASSUME Stream PROVE Stream'
    <2>1. Writing' BY Zenon, <1>1, <1>6, <1>7, <1>10, SameStream DEF Stream, Writing
    <2>2. Torn' BY Zenon, <1>1, <1>3, <1>6, <1>10, SameStream DEF Stream, Torn
    <2> QED BY <1>1, <1>10, <2>1, <2>2, SameStream DEF Stream
  <1>11. Latched' = Latched /\ Closing' = Closing /\ F!NoSplice' = F!NoSplice
    BY <1>1 DEF Latched, Closing, F!NoSplice
  <1> QED BY <1>1, <1>5, <1>9, <1>10, <1>11 DEF FInv

\* The permit is free, or is given back before a fragment is written.
LEMMA GateSteps ==
    ASSUME FInv, NEW s \in Clones, F!Acquire(s) \/ F!Inner(s) PROVE FInv'
  <1>1. UNCHANGED <<f_wrote, f_sent, f_state, f_tasks, f_closer, f_close>>
        /\ UNCHANGED <<f_wire, f_acc, f_delivered, f_ended>>
    BY DEF F!Acquire, F!Inner, F!closeVars, F!recvVars
  <1>2. \/ /\ f_at[s] = "gate" /\ f_permit = F!Free
           /\ f_permit' = s /\ f_at' = [f_at EXCEPT ![s] = "inner"]
        \/ /\ f_at[s] = "inner" /\ f_permit = s
           /\ f_permit' = F!Free /\ f_at' = [f_at EXCEPT ![s] = "idle"]
        \/ /\ f_at[s] = "inner" /\ f_permit = s /\ f_state = "Open"
           /\ f_permit' = s /\ f_at' = [f_at EXCEPT ![s] = "write"]
    BY DEF F!Acquire, F!Inner, F!Return, F!Go, FInv, Gate
  <1>3. F!Free \notin Clones /\ F!Teardown \notin Clones /\ F!Free # F!Teardown
    BY FramingAssumption DEF F!Free, F!Teardown
  <1>4. FTypes' BY Zenon, <1>1, <1>2 DEF FInv, FTypes
  <1>5. Gate' BY <1>1, <1>2, <1>3 DEF FInv, FTypes, Gate
  <1>6. f_permit # F!Teardown /\ f_permit' # F!Teardown
    BY <1>2, <1>3
  <1>7. (Closing => Closing') /\ Latched' = Latched BY <1>1, <1>6 DEF Closing, Latched
  <1>8. ASSUME Stream, Closing PROVE Stream'
    <2>1. \A c \in Clones : f_at[c] = "write" => f_at'[c] = "write" /\ c # s
      BY <1>2 DEF FInv, FTypes
    <2>2. Torn' BY <1>1, <1>6, <1>8, <2>1, SameStream DEF Stream, Torn
    <2>3. \A c \in Clones : f_at[c] = "write" => f_permit = c BY DEF FInv, Gate
    <2>4. ASSUME f_at'[s] = "write" PROVE OpenParts = 0 /\ f_wrote'[s] = 0
      <3>1. f_at[s] = "inner" /\ f_permit = s /\ f_state = "Open"
        BY <1>2, <2>4 DEF FInv, FTypes
      <3>2. f_close # "done" BY <3>1, <1>8 DEF Closing
      <3>3. ~(OpenParts > 0) BY <3>1, <3>2, <2>3, <1>6, <1>8 DEF Stream, Torn
      <3>4. OpenParts \in Nat BY OpenPartsNat DEF FInv
      <3> QED BY SMTT(30), <3>1, <3>3, <3>4, <1>1 DEF FInv, Gate
    <2>5. \A c \in Clones : c # s => f_at'[c] = f_at[c] BY <1>2 DEF FInv, FTypes
    <2>6. Writing' BY SMTT(30), <1>1, <1>8, <2>4, <2>5, SameStream DEF Stream, Writing
    <2> QED BY <1>1, <1>8, <2>2, <2>6, SameStream DEF Stream
  <1>9. F!NoSplice' = F!NoSplice BY <1>1 DEF F!NoSplice
  <1> QED BY <1>1, <1>4, <1>5, <1>7, <1>8, <1>9 DEF FInv

\* A fragment goes behind those of its own message, or behind a whole one.
LEMMA WriteInv == ASSUME FInv, NEW s \in Clones, F!Write(s) PROVE FInv'
  <1> DEFINE last == f_wrote[s] + 1 = f_size[s]
             frag == [by |-> s, no |-> f_sent[s], part |-> f_wrote[s] + 1, end |-> last]
             n == Len(f_wire)
  <1>1. UNCHANGED <<f_sent, f_state, f_tasks, f_closer, f_close, f_acc, f_delivered, f_ended>>
    BY DEF F!Write, F!closeVars, F!recvVars
  <1>2. /\ f_at[s] = "write" /\ f_wire' = Append(f_wire, frag)
        /\ f_wrote' = [f_wrote EXCEPT ![s] = @ + 1]
    BY Zenon DEF F!Write
  <1>3. f_permit = s BY <1>2 DEF FInv, Gate
  <1>4. \/ last /\ f_at' = [f_at EXCEPT ![s] = "idle"] /\ f_permit' = F!Free
        \/ ~last /\ UNCHANGED <<f_at, f_permit>>
    BY <1>3 DEF F!Write, F!Return, F!Go
  <1>5. F!Free \notin Clones /\ F!Teardown \notin Clones /\ F!Free # F!Teardown
    BY FramingAssumption DEF F!Free, F!Teardown
  <1>6. frag \in Frag /\ frag.by = s /\ frag.no = f_sent[s] /\ frag.end = last
        /\ frag.part = f_wrote[s] + 1 /\ f_wrote[s] \in Nat
    BY SMTT(30) DEF FInv, FTypes, Frag
  <1> HIDE DEF last, frag
  <1>7. FTypes'
    <2>1. f_wire' \in Seq(Frag) BY SMTT(30), <1>2, <1>6 DEF FInv, FTypes
    <2>2. f_wrote' \in [Clones -> Nat] BY <1>2 DEF FInv, FTypes
    <2>3. f_at' \in [Clones -> {"idle", "connect", "gate", "inner", "write"}]
          /\ f_permit' \in Clones \cup {F!Free, F!Teardown}
      BY Zenon, <1>4 DEF FInv, FTypes
    <2> QED BY <1>1, <2>1, <2>2, <2>3 DEF FInv, FTypes
  <1>8. \A c \in Clones : c # s => f_at'[c] = f_at[c] /\ f_wrote'[c] = f_wrote[c]
    BY <1>2, <1>4 DEF FInv, FTypes
  <1>9. f_at'[s] = (IF last THEN "idle" ELSE "write") /\ f_wrote'[s] = f_wrote[s] + 1
    BY <1>2, <1>4 DEF FInv, FTypes
  <1>10. Gate' BY <1>3, <1>4, <1>5, <1>8, <1>9 DEF FInv, Gate
  <1>11. (Closing => Closing') /\ Latched' = Latched
    BY <1>1, <1>3, <1>4, <1>5 DEF Closing, Latched
  <1>12. ASSUME Stream PROVE Stream'
    <2>1. n \in Nat /\ Len(f_wire') = n + 1 /\ f_wire'[n + 1] = frag /\ f_wire' # <<>>
          /\ \A i \in 1..n : f_wire'[i] = f_wire[i]
      <3>1. f_wire \in Seq(Frag) BY DEF FInv, FTypes
      <3> QED BY SMTT(30), <3>1, <1>2, <1>6
    <2>2. (n > 0 <=> f_wire # <<>>) /\ (Len(f_acc) > 0 <=> f_acc # <<>>) /\ Len(f_acc) \in Nat
      BY DEF FInv, FTypes
    <2>3. /\ f_wrote[s] = OpenParts
          /\ OpenParts > 0 => LastFrag.by = s /\ LastFrag.no = f_sent[s]
      BY <1>2, <1>12 DEF Stream, Writing
    <2>4. OpenParts' = (IF last THEN 0 ELSE f_wrote[s] + 1) /\ LastFrag' = frag
      BY <2>1, <1>6 DEF OpenParts, LastFrag
    <2>5. Begun' BY <1>1, <1>12 DEF Stream, Begun
    <2>6. Chained'
      <3>1. SUFFICES ASSUME NEW i \in 1..n PROVE Follows(f_wire'[i], f_wire'[i + 1])
        BY <2>1 DEF Chained
      <3>2. CASE i < n
        BY <3>2, <2>1, <1>12 DEF Stream, Chained
      <3>3. CASE i = n
        <4>1. f_wire # <<>> /\ f_wire[n] \in Frag BY SMTT(30), <3>3, <2>1, <2>2 DEF FInv, FTypes
        <4>2. OpenParts = (IF f_wire[n].end THEN 0 ELSE f_wire[n].part) /\ LastFrag = f_wire[n]
          BY <4>1 DEF OpenParts, LastFrag
        <4>3. f_wire[n].part \in Nat \ {0} BY <4>1 DEF Frag
        <4>4. Follows(f_wire[n], frag) BY SMTT(30), <4>2, <4>3, <2>3, <1>6 DEF Follows
        <4> QED BY <4>4, <3>3, <2>1
      <3> QED BY <3>2, <3>3, <2>1
    <2>7. Joined'
      <3>1. CASE f_wire # <<>>
        <4>1. f_wire'[1] = f_wire[1] BY <3>1, <2>1, <2>2
        <4> QED BY Zenon, <4>1, <3>1, <1>1, <1>12 DEF Stream, Joined
      <3>2. CASE f_wire = <<>>
        <4>1. f_wire'[1] = frag BY <3>2, <2>1
        <4>2. OpenParts = Len(f_acc) /\ LastFrag = f_acc[Len(f_acc)]
          BY <3>2 DEF OpenParts, LastFrag
        <4>3. f_acc # <<>> =>
                f_acc[Len(f_acc)].part = Len(f_acc) /\ ~f_acc[Len(f_acc)].end
          BY <2>2, <1>12 DEF Stream, Begun
        <4>4. f_acc = <<>> => frag.part = 1 BY SMTT(30), <4>2, <2>2, <2>3, <1>6
        <4>5. f_acc # <<>> => Follows(f_acc[Len(f_acc)], frag)
          BY <4>2, <4>3, <2>2, <2>3, <1>6 DEF Follows
        <4> QED BY Zenon, <4>1, <4>4, <4>5, <1>1 DEF Joined
      <3> QED BY <3>1, <3>2
    <2>8. \A c \in Clones : f_at'[c] = "write" => c = s
      BY <1>3, <1>8, <1>9 DEF FInv, Gate
    <2>9. Writing' BY Zenon, <2>4, <2>8, <1>1, <1>6, <1>9 DEF Writing
    <2>10. Torn' BY SMTT(30), <2>4, <1>9 DEF Torn
    <2> QED BY <2>5, <2>6, <2>7, <2>9, <2>10 DEF Stream
  <1>13. F!NoSplice' = F!NoSplice BY <1>1 DEF F!NoSplice
  <1> QED BY <1>1, <1>7, <1>10, <1>11, <1>12, <1>13 DEF FInv

\* A send that ends early hands its permit to the teardown, unless no fragment
\* of its message is written.
LEMMA FailSteps ==
    ASSUME FInv, NEW s \in Clones, F!WriteFails(s) \/ F!SendTimeout(s) PROVE FInv'
  <1>1. UNCHANGED <<f_wrote, f_sent, f_state, f_closer, f_close>>
        /\ UNCHANGED <<f_wire, f_acc, f_delivered, f_ended>>
    BY Zenon DEF F!WriteFails, F!SendTimeout, F!recvVars
  <1>2. f_at[s] \in {"inner", "write"} /\ f_permit = s
    BY DEF F!WriteFails, F!SendTimeout, FInv, Gate
  <1>3. f_at' = [f_at EXCEPT ![s] = "idle"]
    BY DEF F!WriteFails, F!SendTimeout, F!TearDown, F!Return, F!Go
  <1>4. \/ f_permit' = F!Teardown /\ f_tasks' = f_tasks \cup {F!Teardown}
        \/ /\ f_permit' = F!Free /\ f_tasks' = f_tasks
           /\ f_at[s] = "write" /\ ~(f_wrote[s] > 0)
    BY <1>2 DEF F!WriteFails, F!SendTimeout, F!TearDown, F!Return
  <1>5. F!Free \notin Clones /\ F!Teardown \notin Clones /\ F!Free # F!Teardown
    BY FramingAssumption DEF F!Free, F!Teardown
  <1>6. FTypes' BY <1>1, <1>3, <1>4 DEF FInv, FTypes
  <1>7. f_at'[s] = "idle" /\ \A c \in Clones : c # s => f_at'[c] = f_at[c]
    BY <1>3 DEF FInv, FTypes
  <1>8. Gate' BY Zenon, <1>1, <1>2, <1>4, <1>5, <1>7 DEF FInv, Gate
  <1>9. (Closing => Closing') /\ Latched' = Latched
    BY Zenon, <1>1, <1>2, <1>4, <1>5 DEF Closing, Latched
  <1>10. ASSUME Stream PROVE Stream'
    <2>1. Writing' BY Zenon, <1>1, <1>7, <1>10, SameStream DEF Stream, Writing
    <2>2. Torn'
      <3>1. CASE f_permit' = F!Teardown BY <3>1 DEF Torn
      <3>2. CASE f_at[s] = "write" /\ ~(f_wrote[s] > 0)
        <4>1. ~(OpenParts > 0) BY Zenon, <3>2, <1>10 DEF Stream, Writing
        <4> QED BY <4>1, <1>1, SameStream DEF Torn
      <3> QED BY <3>1, <3>2, <1>4
    <2> QED BY <1>1, <1>10, <2>1, <2>2, SameStream DEF Stream
  <1>11. F!NoSplice' = F!NoSplice BY <1>1 DEF F!NoSplice
  <1> QED BY <1>1, <1>6, <1>8, <1>9, <1>10, <1>11 DEF FInv

\* The peer connection opens and closes; the teardown's permit goes back only
\* when the connection it waited for is closed.
LEMMA CloseSteps ==
    ASSUME FInv,
           F!Opens \/ F!OtherCloses \/ F!CloseTells \/ F!CloseReturns
             \/ F!CloseStarts(F!Teardown) \/ F!CloseStarts(F!Other)
    PROVE  FInv'
  <1> USE DEF F!Free, F!Teardown, F!Other
  <1>1. UNCHANGED <<f_at, f_wrote, f_sent, f_wire, f_acc, f_delivered, f_ended>>
    BY Zenon DEF F!Opens, F!OtherCloses, F!CloseTells, F!CloseReturns, F!CloseStarts, F!sendVars,
           F!recvVars
  <1>2. f_permit' = f_permit \/ (f_permit = F!Teardown /\ f_permit' = F!Free)
    <2>1. CASE F!Opens \/ F!OtherCloses \/ F!CloseTells
      BY <2>1 DEF F!Opens, F!OtherCloses, F!CloseTells
    <2>2. CASE F!CloseReturns BY <2>2 DEF F!CloseReturns, F!Release
    <2>3. CASE F!CloseStarts(F!Teardown) BY <2>3 DEF F!CloseStarts, F!Release
    <2>4. CASE F!CloseStarts(F!Other) BY <2>4 DEF F!CloseStarts, F!Release
    <2> QED BY <2>1, <2>2, <2>3, <2>4
  <1>3. F!Free \notin Clones /\ F!Teardown \notin Clones BY FramingAssumption
  <1>4. FTypes' BY <1>1, <1>2 DEF FInv, FTypes
  <1>5. Gate' BY <1>1, <1>2, <1>3 DEF FInv, Gate
  <1>6. (f_closer' # F!Other => f_closer # F!Other) /\ Latched'
    <2> USE DEF FInv, Latched
    <2>1. CASE F!Opens \/ F!OtherCloses BY <2>1 DEF F!Opens, F!OtherCloses, F!closeVars
    <2>2. CASE F!CloseTells \/ F!CloseReturns BY <2>2 DEF F!CloseTells, F!CloseReturns
    <2>3. CASE F!CloseStarts(F!Teardown) BY <2>3 DEF F!CloseStarts
    <2>4. CASE F!CloseStarts(F!Other) BY <2>4 DEF F!CloseStarts
    <2> QED BY <2>1, <2>2, <2>3, <2>4
  <1>7. ASSUME f_closer' # F!Other, Closing
        PROVE  Closing' /\ (f_permit' = f_permit \/ f_close' = "done")
               /\ (f_close = "done" => f_close' = "done")
    <2> USE DEF Closing, Latched, FInv
    <2>1. CASE F!Opens BY <2>1, <1>7 DEF F!Opens, F!closeVars
    <2>2. CASE F!OtherCloses BY <2>2, <1>7 DEF F!OtherCloses
    <2>3. CASE F!CloseTells BY <2>3, <1>7 DEF F!CloseTells
    <2>4. CASE F!CloseReturns BY <2>4, <1>7 DEF F!CloseReturns, F!Release
    <2>5. CASE F!CloseStarts(F!Teardown) BY <2>5, <1>7 DEF F!CloseStarts, F!Release
    <2>6. CASE F!CloseStarts(F!Other) BY <2>6, <1>7 DEF F!CloseStarts, F!Release
    <2> QED BY <2>1, <2>2, <2>3, <2>4, <2>5, <2>6
  <1>8. ASSUME f_closer' # F!Other, Closing, Stream PROVE Stream'
    <2>1. Writing' BY <1>1, <1>8, SameStream DEF Stream, Writing
    <2>2. Torn' BY <1>1, <1>7, <1>8, SameStream DEF Stream, Torn
    <2> QED BY <1>1, <1>8, <2>1, <2>2, SameStream DEF Stream
  <1>9. f_closer' # F!Other /\ F!NoSplice => F!NoSplice'
    BY <1>1, <1>6 DEF F!NoSplice
  <1> QED BY <1>1, <1>4, <1>5, <1>6, <1>7, <1>8, <1>9 DEF FInv

\* The end of the channel drops what has not been put together.
LEMMA ReadEndsInv == ASSUME FInv, F!ReadEnds PROVE FInv'
  <1>1. UNCHANGED <<f_at, f_wrote, f_sent, f_permit, f_state, f_tasks, f_closer, f_close>>
        /\ f_ended' /\ f_acc' = <<>> /\ f_wire' = <<>> /\ f_delivered' = f_delivered
    BY DEF F!ReadEnds, F!sendVars, F!closeVars
  <1>2. FTypes' BY <1>1 DEF FInv, FTypes
  <1>3. /\ Gate' = Gate /\ Latched' = Latched /\ Closing' = Closing
        /\ F!NoSplice' = F!NoSplice
    BY Zenon, <1>1 DEF Gate, Latched, Closing, F!NoSplice
  <1> QED BY <1>1, <1>2, <1>3 DEF FInv

\* A message put together from fragments that belong together is whole.
LEMMA ReadWhole ==
    ASSUME FTypes, Begun, Joined, f_wire # <<>>, f_wire[1].end
    PROVE  F!Whole(Append(f_acc, f_wire[1]))
  <1> DEFINE m == Append(f_acc, f_wire[1])
             k == Len(f_acc)
  <1>1. f_acc \in Seq(Frag) /\ f_wire[1] \in Frag BY DEF FTypes
  <1>2. k \in Nat /\ Len(m) = k + 1 /\ DOMAIN m = 1..(k + 1) /\ m[k + 1] = f_wire[1]
        /\ \A i \in 1..k : m[i] = f_acc[i]
    BY SMTT(30), <1>1
  <1>3. k = 0 <=> f_acc = <<>> BY <1>1
  <1>4. m[k + 1].part = k + 1 /\ (k > 0 => m[k + 1].by = m[1].by /\ m[k + 1].no = m[1].no)
    <2>1. CASE k = 0 BY SMTT(30), <2>1, <1>2, <1>3 DEF Joined
    <2>2. CASE k # 0
      <3>1. Follows(f_acc[k], f_wire[1]) BY <2>2, <1>3 DEF Joined
      <3>2. /\ f_acc[k].part = k /\ ~f_acc[k].end
            /\ f_acc[k].by = f_acc[1].by /\ f_acc[k].no = f_acc[1].no
        BY SMTT(30), <2>2, <1>2 DEF Begun
      <3>3. m[1] = f_acc[1] BY SMTT(30), <2>2, <1>2
      <3> QED BY <3>1, <3>2, <3>3, <1>2 DEF Follows
    <2> QED BY <2>1, <2>2
  <1>5. \A i \in 1..k : /\ m[i].part = i /\ ~m[i].end
                        /\ m[i].by = m[1].by /\ m[i].no = m[1].no
    BY SMTT(30), <1>2 DEF Begun
  <1> HIDE DEF m
  <1>6. \A i \in 1..(k + 1) : m[i].part = i /\ m[i].by = m[1].by /\ m[i].no = m[1].no
    BY SMTT(30), <1>2, <1>4, <1>5
  <1>7. \A i \in 1..(k + 1) : m[i].end <=> i = k + 1 BY SMTT(30), <1>2, <1>5
  <1>8. F!Whole(m) BY <1>2, <1>6, <1>7 DEF F!Whole
  <1> QED BY <1>8 DEF m

LEMMA AppendSeq == ASSUME NEW S, NEW q \in Seq(S), NEW e \in S PROVE Append(q, e) \in Seq(S)
  OBVIOUS

\* What the receiver has left, and what it keeps, still belong together.
LEMMA ReadInv == ASSUME FInv, F!Read PROVE FInv'
  <1> DEFINE f == f_wire[1]
  <1>1. UNCHANGED <<f_at, f_wrote, f_sent, f_permit, f_state, f_tasks, f_closer, f_close>>
    BY DEF F!Read, F!sendVars, F!closeVars
  <1>2. f_wire # <<>> /\ f_wire \in Seq(Frag) /\ f_acc \in Seq(Frag) /\ ~f_ended
        /\ f_delivered \in Seq(Seq(Frag))
    BY DEF F!Read, FInv, FTypes
  <1>3. f \in Frag /\ Head(f_wire) = f BY <1>2
  <1>4. f_wire' = Tail(f_wire) BY DEF F!Read
  <1>5. \/ f_acc' = <<>> /\ f_ended' /\ f_delivered' = f_delivered
        \/ f.end /\ f_acc' = <<>> /\ f_delivered' = Append(f_delivered, Append(f_acc, f))
        \/ ~f.end /\ f_acc' = Append(f_acc, f) /\ f_delivered' = f_delivered
    BY <1>3 DEF F!Read
  <1>6. f_wire' \in Seq(Frag) /\ Len(f_wire') = Len(f_wire) - 1 /\ Len(f_wire) \in Nat \ {0}
        /\ \A i \in 1..(Len(f_wire) - 1) : f_wire'[i] = f_wire[i + 1]
    BY <1>2, <1>4
  <1> HIDE DEF f
  <1>7. f_acc' \in Seq(Frag) /\ f_delivered' \in Seq(Seq(Frag))
    <2>1. Append(f_acc, f) \in Seq(Frag) BY <1>2, <1>3
    <2> DEFINE m == Append(f_acc, f)
    <2> HIDE DEF m
    <2>2. m \in Seq(Frag) BY <2>1 DEF m
    <2>3. Append(f_delivered, m) \in Seq(Seq(Frag)) BY <1>2, <2>2, AppendSeq
    <2>4. f_delivered' \in {f_delivered, Append(f_delivered, m)} /\ f_acc' \in {<<>>, m}
      BY <1>5 DEF m
    <2>5. <<>> \in Seq(Frag) OBVIOUS
    <2> QED BY <1>2, <2>2, <2>3, <2>4, <2>5, Zenon
  <1>8. FTypes' BY <1>1, <1>6, <1>7 DEF FInv, FTypes
  <1>9. Gate' = Gate /\ Latched' = Latched /\ Closing' = Closing
    BY <1>1 DEF Gate, Latched, Closing
  <1>10. ASSUME Stream, ~f_ended' PROVE Stream'
    <2>1. /\ Len(f_acc) \in Nat /\ (f_wire' # <<>> <=> Len(f_wire) > 1)
          /\ (f_acc = <<>> <=> Len(f_acc) = 0)
      BY <1>2, <1>6
    <2>2. Chained'
      <3> SUFFICES ASSUME NEW i \in 1..(Len(f_wire') - 1)
                   PROVE  Follows(f_wire'[i], f_wire'[i + 1])
        BY DEF Chained
      <3>1. i + 1 \in 1..(Len(f_wire) - 1) /\ i \in 1..(Len(f_wire) - 1) BY SMTT(30), <1>6
      <3>2. f_wire'[i] = f_wire[i + 1] /\ f_wire'[i + 1] = f_wire[i + 1 + 1] BY <1>6, <3>1
      <3>3. Follows(f_wire[i + 1], f_wire[i + 1 + 1]) BY <3>1, <1>10 DEF Stream, Chained
      <3> QED BY <3>2, <3>3
    <2>3. f_wire' # <<>> => f_wire'[1] = f_wire[2] /\ Follows(f, f_wire[2])
      BY <2>1, <1>6, <1>10 DEF Stream, Chained, f
    <2>4. f_wire' # <<>> => f_wire'[Len(f_wire')] = f_wire[Len(f_wire)]
      BY <2>1, <1>6
    <2>5. CASE f.end /\ f_acc' = <<>>
      <3>1. Begun' BY <2>5 DEF Begun
      <3>2. Joined' BY <2>3, <2>5 DEF Joined, Follows
      <3>3. OpenParts' = OpenParts /\ (OpenParts > 0 => LastFrag' = LastFrag)
        <4>1. CASE f_wire' # <<>> BY <4>1, <2>4, <1>2 DEF OpenParts, LastFrag
        <4>2. CASE f_wire' = <<>>
          <5>1. Len(f_wire) = 1 BY <4>2, <2>1, <1>6
          <5>2. OpenParts = 0 BY <5>1, <2>5, <1>2 DEF OpenParts, f
          <5>3. OpenParts' = 0 BY <4>2, <2>5 DEF OpenParts
          <5> QED BY <5>2, <5>3
        <4> QED BY <4>1, <4>2
      <3>4. Writing' /\ Torn' BY <3>3, <1>1, <1>10 DEF Stream, Writing, Torn
      <3> QED BY <2>2, <3>1, <3>2, <3>4 DEF Stream
    <2>6. CASE ~f.end /\ f_acc' = Append(f_acc, f)
      <3>1. Len(f_acc') = Len(f_acc) + 1 /\ f_acc'[Len(f_acc) + 1] = f /\ f_acc' # <<>>
            /\ \A i \in 1..Len(f_acc) : f_acc'[i] = f_acc[i]
        BY <2>6, <1>2, <1>3
      <3>2. /\ f.part = Len(f_acc) + 1
            /\ f_acc # <<>> => f.by = f_acc[1].by /\ f.no = f_acc[1].no
        <4>1. CASE f_acc = <<>> BY SMTT(30), <4>1, <2>1, <1>2, <1>10 DEF Stream, Joined, f
        <4>2. CASE f_acc # <<>>
          <5>1. Follows(f_acc[Len(f_acc)], f) BY <4>2, <1>2, <1>10 DEF Stream, Joined, f
          <5>2. Len(f_acc) \in 1..Len(f_acc) BY <4>2, <2>1
          <5> QED BY <5>1, <5>2, <4>2, <1>10 DEF Stream, Begun, Follows
        <4> QED BY <4>1, <4>2
      <3>3. Begun'
        <4> SUFFICES ASSUME NEW i \in 1..Len(f_acc')
                     PROVE  /\ f_acc'[i].part = i /\ ~f_acc'[i].end
                            /\ f_acc'[i].by = f_acc'[1].by /\ f_acc'[i].no = f_acc'[1].no
          BY DEF Begun
        <4>1. CASE i \in 1..Len(f_acc)
          <5>1. f_acc'[i] = f_acc[i] /\ f_acc'[1] = f_acc[1] BY <4>1, <3>1, <2>1
          <5> QED BY <5>1, <4>1, <1>10 DEF Stream, Begun
        <4>2. CASE i = Len(f_acc) + 1
          <5>1. f_acc'[i] = f BY <4>2, <3>1
          <5>2. CASE f_acc = <<>> BY SMTT(30), <5>1, <5>2, <4>2, <3>2, <2>1, <2>6
          <5>3. CASE f_acc # <<>>
            <6>1. f_acc'[1] = f_acc[1] BY <5>3, <3>1, <2>1
            <6> QED BY <6>1, <5>1, <5>3, <4>2, <3>2, <2>6
          <5> QED BY <5>2, <5>3
        <4> QED BY SMTT(30), <4>1, <4>2, <3>1, <2>1
      <3>4. Joined' BY <2>3, <3>1 DEF Joined
      <3>5. OpenParts' = OpenParts /\ LastFrag' = LastFrag
        <4>1. CASE f_wire' # <<>> BY <4>1, <2>4, <1>2 DEF OpenParts, LastFrag
        <4>2. CASE f_wire' = <<>>
          <5>1. f_wire[Len(f_wire)] = f BY <4>2, <2>1, <1>6 DEF f
          <5>2. OpenParts = f.part /\ LastFrag = f BY <5>1, <2>6, <1>2 DEF OpenParts, LastFrag
          <5>3. OpenParts' = Len(f_acc) + 1 /\ LastFrag' = f
            BY <4>2, <3>1 DEF OpenParts, LastFrag
          <5> QED BY <5>2, <5>3, <3>2
        <4> QED BY <4>1, <4>2
      <3>6. Writing' /\ Torn' BY <3>5, <1>1, <1>10 DEF Stream, Writing, Torn
      <3> QED BY <2>2, <3>3, <3>4, <3>6 DEF Stream
    <2> QED BY <1>5, <1>10, <2>5, <2>6
  <1>11. ASSUME f_closer # F!Other, Stream, F!NoSplice PROVE F!NoSplice'
    <2>1. CASE f_delivered' = f_delivered BY <2>1, <1>1, <1>11 DEF F!NoSplice
    <2>2. CASE f.end /\ f_delivered' = Append(f_delivered, Append(f_acc, f))
      <3> DEFINE m == Append(f_acc, f)
      <3>1. F!Whole(m) BY <2>2, <1>2, <1>11, ReadWhole DEF FInv, Stream, f
      <3>2. /\ DOMAIN f_delivered' = 1..(Len(f_delivered) + 1) /\ Len(f_delivered) \in Nat
            /\ DOMAIN f_delivered = 1..Len(f_delivered)
            /\ f_delivered'[Len(f_delivered) + 1] = m
            /\ \A i \in 1..Len(f_delivered) : f_delivered'[i] = f_delivered[i]
        <4>1. m \in Seq(Frag) BY <1>2, <1>3
        <4> HIDE DEF m
        <4>2. f_delivered' = Append(f_delivered, m) BY <2>2 DEF m
        <4> QED BY SMTT(30), <4>1, <4>2, <1>2
      <3> HIDE DEF m
      <3> SUFFICES ASSUME NEW i \in DOMAIN f_delivered' PROVE F!Whole(f_delivered'[i])
        BY Zenon DEF F!NoSplice, F!Whole
      <3>3. CASE i = Len(f_delivered) + 1
        <4>1. f_delivered'[i] = m BY <3>2, <3>3
        <4> QED BY <4>1, <3>1
      <3>4. CASE i \in 1..Len(f_delivered)
        <4>1. f_delivered'[i] = f_delivered[i] /\ i \in DOMAIN f_delivered BY <3>2, <3>4
        <4>2. F!Whole(f_delivered[i]) BY <4>1, <1>11 DEF F!NoSplice
        <4> QED BY <4>1, <4>2
      <3> QED BY SMTT(30), <3>2, <3>3, <3>4
    <2> QED BY <1>5, <2>1, <2>2
  <1> QED BY <1>1, <1>2, <1>8, <1>9, <1>10, <1>11 DEF FInv

LEMMA FStep == FInv /\ [F!Next]_F!vars => FInv'
  <1> SUFFICES ASSUME FInv, [F!Next]_F!vars PROVE FInv' OBVIOUS
  <1>1. CASE UNCHANGED F!vars
    <2>1. UNCHANGED <<f_at, f_wrote, f_sent, f_permit, f_state, f_tasks, f_closer, f_close>>
          /\ UNCHANGED <<f_wire, f_acc, f_delivered, f_ended>>
      BY <1>1 DEF F!vars, F!sendVars, F!closeVars, F!recvVars
    <2>2. /\ FTypes' = FTypes /\ Gate' = Gate /\ Latched' = Latched /\ Closing' = Closing
          /\ F!NoSplice' = F!NoSplice
      BY Zenon, <2>1 DEF FTypes, Gate, Latched, Closing, F!NoSplice
    <2>3. Stream => Stream'
      BY Zenon, <2>1, SameStream DEF Stream, Writing, Torn
    <2> QED BY <2>1, <2>2, <2>3 DEF FInv
  <1>2. CASE F!Next
    BY <1>2, AwaySteps, GateSteps, WriteInv, FailSteps, CloseSteps, ReadInv, ReadEndsInv
       DEF F!Next, F!SendStep, F!CloseRuns
  <1> QED BY <1>1, <1>2

-----------------------------------------------------------------------------
\* No timeout, failed write or waiting clone makes the receiver put two
\* messages together into one (webrtc.rs, send_bytes and next): for any number
\* of clones and messages, of any length, and for any bound on what is received.
THEOREM FramingNoSplice == F!Spec => []NoSplice
  <1>1. FInv => NoSplice BY DEF FInv, NoSplice, F!NoSplice
  <1> QED BY <1>1, FInitInv, FStep, PTL DEF F!Spec

-----------------------------------------------------------------------------
(* A connection attempt, for every set of attempts raced.  The invariant says *)
(* who owns the offerer's peer connection at each stage (OwnerInv), what the  *)
(* race remembers of the attempts that ended (RaceInv), and that the direct   *)
(* flag travels with the connection it describes (FlagInv).                   *)

(* The pc is closed by the guard or by dropping a WebRTC connection, so as   *)
(* long as it is open one of them, or the caller, has it.                    *)
OwnerInv ==
    /\ pc = "none" <=> leg[W] = "off"
    /\ guard => leg[W] # "off"
    /\ pc = "open" => guard \/ (phase = "returned" /\ conn.leg = W)
    /\ phase = "race" =>
         /\ conn = None
         /\ leg[W] = "racing" => pc = "open"
         /\ held.leg = W => pc = "open" /\ leg[W] = "won"
    /\ phase \in {"raced", "secure", "secured"} /\ conn.leg = W => pc = "open" /\ guard
    /\ phase = "request" => conn.leg # W
    /\ phase \in {"secure", "secured", "returned"} => conn # None
    /\ phase \in {"fallback", "fallback_secure"} => pc = "closed" /\ conn # None
    /\ phase = "returned" /\ conn.leg = W => pc = "open"
    /\ over => ~guard
    /\ phase \in {"failed", "cancelled"} => conn = None
    /\ phase \notin {"race", "failed", "cancelled"} => held = None

(* In a race that is still on, an attempt that won is held, and the recorded *)
(* errors tell the truth about the side they stand for.                      *)
RaceInv ==
    phase = "race" =>
        /\ (\E l \in Legs : leg[l] = "won") => held # None
        /\ webrtc_err => leg[W] = "failed"
        /\ others_err => others_fut = {}
        /\ ~prefer => held = None

FlagInv == phase \notin {"failed", "cancelled"} /\ direct => conn # None /\ conn.p2p

Inv == TypeOK /\ OwnerInv /\ RaceInv /\ FlagInv

-----------------------------------------------------------------------------
(* A connection is not None, and None is nobody's.                           *)
LEMMA NoneIsNoConn == None \notin Conns /\ None.leg # W
  BY LegsDiffer DEF None, Conns, Legs

(* Every initial state, with any subset of the attempts started.             *)
LEMMA InitInv == Init => Inv
  <1> SUFFICES ASSUME Init PROVE Inv
    OBVIOUS
  <1>1. TypeOK
    BY Zenon, LegsDiffer DEF Init, TypeOK, Legs
  <1>2. OwnerInv
    BY Zenon, NoneIsNoConn DEF Init, OwnerInv, Legs, over
  <1>3. RaceInv
    BY DEF Init, RaceInv, others_fut
  <1>4. FlagInv
    BY DEF Init, FlagInv
  <1> QED
    BY <1>1, <1>2, <1>3, <1>4 DEF Inv

-----------------------------------------------------------------------------
(* One attempt ends.  The race's bookkeeping is what this step can disturb.  *)
LEMMA LegEndsInv ==
    ASSUME Inv, NEW l \in Legs, LegEnds(l) PROVE Inv'
  <1> USE NoneIsNoConn, LegsDiffer DEF LegEnds, inputs, Delivers, Legs
  <1>1. CASE prefer /\ PreferOk(l)
    <2>1. PICK p \in BOOLEAN :
             /\ leg' = [leg EXCEPT ![l] = "won"]
             /\ IF l = W THEN WebRtcOk([leg |-> l, p2p |-> p])
                ELSE OthersOk([leg |-> l, p2p |-> p], others_fut \ {l})
             /\ UNCHANGED <<webrtc_err, others_err>>
      BY Zenon, <1>1 DEF PreferOk
    <2> DEFINE c == [leg |-> l, p2p |-> p]
    <2>2. c \in Conns /\ c.leg = l /\ c.p2p = p
      BY Zenon DEF Conns
    <2>3. CASE Commit(c) /\ UNCHANGED window_started
      <3>1. TypeOK'
        BY Zenon, <2>1, <2>2, <2>3 DEF Inv, TypeOK, Commit, Drop
      <3>2. OwnerInv'
        BY Zenon, <2>1, <2>2, <2>3 DEF Inv, TypeOK, OwnerInv, Commit, Drop, over
      <3>3. RaceInv' /\ FlagInv'
        BY Zenon, <2>1, <2>2, <2>3 DEF RaceInv, FlagInv, Commit
      <3> QED
        BY Zenon, <3>1, <3>2, <3>3 DEF Inv
    <2>4. CASE Hold(c)
      <3>1. TypeOK'
        BY Zenon, <2>1, <2>2, <2>4 DEF Inv, TypeOK, Hold, Drop
      <3>2. OwnerInv'
        BY Zenon, <2>1, <2>2, <2>4 DEF Inv, TypeOK, OwnerInv, Hold, Drop, over
      <3>3. RaceInv'
        BY Zenon, <1>1, <2>1, <2>2, <2>4 DEF Inv, TypeOK, RaceInv, Hold, Drop, others_fut, prefer
      <3>4. FlagInv'
        BY Zenon, <2>1, <2>4 DEF Inv, FlagInv, Hold
      <3> QED
        BY Zenon, <3>1, <3>2, <3>3, <3>4 DEF Inv
    <2> QED
      BY Zenon, <2>1, <2>3, <2>4 DEF WebRtcOk, OthersOk
  <1>2. CASE prefer /\ PreferErr(l)
    <2>1. leg' = [leg EXCEPT ![l] = "failed"]
      BY Zenon, <1>2 DEF PreferErr
    <2>2. CASE Wait
      <3>1. TypeOK' /\ OwnerInv' /\ FlagInv'
        BY Zenon, <1>2, <2>1, <2>2 DEF Inv, TypeOK, OwnerInv, FlagInv, Wait, over, PreferErr, WebRtcErr, OthersErr
      <3>2. RaceInv'
        BY Zenon, <1>2, <2>1, <2>2 DEF Inv, TypeOK, RaceInv, OwnerInv, Wait, PreferErr, WebRtcErr, OthersErr, Commit, GiveUp, others_fut, prefer
      <3> QED
        BY Zenon, <3>1, <3>2 DEF Inv
    <2>3. CASE held # None /\ Commit(held) /\ UNCHANGED <<others_err, window_started>>
      <3>0. held \in Conns /\ held.p2p \in BOOLEAN
        BY Zenon, <2>3 DEF Inv, TypeOK, Conns
      <3>3. webrtc_err' \in BOOLEAN
        BY Zenon, <1>2 DEF PreferErr, WebRtcErr, OthersErr, Inv, TypeOK
      <3>1. TypeOK'
        BY Zenon, <2>1, <2>3, <3>0, <3>3 DEF Inv, TypeOK, Commit, Drop
      <3>2. OwnerInv' /\ RaceInv' /\ FlagInv'
        BY Zenon, <2>1, <2>3, <3>0 DEF Inv, TypeOK, OwnerInv, RaceInv, FlagInv, Commit, Drop, over
      <3> QED
        BY Zenon, <3>1, <3>2 DEF Inv
    <2>4. CASE GiveUp
      <3>1. phase = "race" /\ phase' = "raced" /\ UNCHANGED <<held, conn, direct, pc, guard>>
        BY <2>4 DEF GiveUp
      <3>2. ~Wait /\ (held # None => ~Commit(held)) BY Zenon, <3>1, NoneIsNoConn DEF Wait, Commit, Inv, TypeOK, OwnerInv
      <3>3. {webrtc_err', others_err', window_started'} \subseteq BOOLEAN
        BY Zenon, <1>2, <3>2 DEF PreferErr, WebRtcErr, OthersErr, Inv, TypeOK
      <3>4. held = None BY <1>2, <2>4, <3>2 DEF PreferErr, WebRtcErr, OthersErr, Inv, RaceInv, OwnerInv
      <3>5. TypeOK' BY Zenon, <2>1, <3>1, <3>3 DEF Inv, TypeOK
      <3>6. OwnerInv' BY <2>1, <3>1, <3>4 DEF Inv, TypeOK, OwnerInv, over
      <3>7. RaceInv' /\ FlagInv' BY Zenon, <3>1 DEF Inv, RaceInv, FlagInv
      <3> QED BY Zenon, <3>5, <3>6, <3>7 DEF Inv
    <2> QED
      BY Zenon, <1>2, <2>2, <2>3, <2>4 DEF PreferErr, WebRtcErr, OthersErr
  <1>3. CASE ~prefer /\ FirstOk(l)
    <2>1. PICK p \in BOOLEAN :
             /\ leg' = [leg EXCEPT ![l] = "won"]
             /\ Commit([leg |-> l, p2p |-> p])
             /\ UNCHANGED <<webrtc_err, others_err, window_started>>
      BY Zenon, <1>3 DEF FirstOk
    <2> DEFINE c == [leg |-> l, p2p |-> p]
    <2>2. c \in Conns /\ c.leg = l /\ c.p2p = p
      BY Zenon DEF Conns
    <2>3. held = None
      BY Zenon, <1>3 DEF Inv, RaceInv
    <2> QED
      BY Zenon, <2>1, <2>2, <2>3 DEF Inv, TypeOK, OwnerInv, RaceInv, FlagInv, Commit, Drop, over
  <1>4. CASE ~prefer /\ FirstErr(l)
    <2>3. held = None
      BY <1>4 DEF Inv, RaceInv
    <2>1. TypeOK' /\ OwnerInv' /\ FlagInv'
      BY Zenon, <1>4, <2>3 DEF FirstErr, Inv, TypeOK, OwnerInv, FlagInv, Wait, GiveUp, over
    <2>2. RaceInv'
      BY Zenon, <1>4 DEF FirstErr, Inv, TypeOK, RaceInv, Wait, GiveUp, others_fut, prefer
    <2> QED
      BY Zenon, <2>1, <2>2 DEF Inv
  <1> QED
    BY Zenon, <1>1, <1>2, <1>3, <1>4

(* The window runs out: what it holds is taken.                              *)
LEMMA WindowEndsInv == ASSUME Inv, WindowEnds PROVE Inv'
  <1> USE NoneIsNoConn, LegsDiffer DEF WindowEnds, inputs, Legs
  <1>1. CASE held # None
    <2>1. held \in Conns /\ held.p2p \in BOOLEAN
      BY Zenon, <1>1 DEF Inv, TypeOK, Conns
    <2>2. TypeOK'
      BY <1>1, <2>1 DEF Inv, TypeOK, Commit, Drop
    <2>3. OwnerInv' /\ RaceInv' /\ FlagInv'
      BY Zenon, <1>1, <2>1 DEF Inv, TypeOK, OwnerInv, RaceInv, FlagInv, Commit, Drop, over
    <2> QED
      BY <2>2, <2>3 DEF Inv
  <1>2. CASE held = None
    BY Zenon, <1>2 DEF Inv, TypeOK, OwnerInv, RaceInv, FlagInv, over, others_fut, prefer
  <1> QED
    BY <1>1, <1>2

-----------------------------------------------------------------------------
(* Leaving early closes the pc, whoever owns it.                             *)
LEMMA ExitInv ==
    ASSUME Inv, phase \notin {"failed", "cancelled"},
           NEW how \in {"failed", "cancelled"}, Exit(how)
    PROVE  Inv'
  <1> USE NoneIsNoConn, LegsDiffer DEF Exit, DropGuard, inputs, race
  <1>1. TypeOK'
    BY Zenon DEF Inv, TypeOK
  <1>2. OwnerInv'
    <2>1. held' = held /\ (phase = "race" => conn = None) /\ leg' = leg
      BY DEF Inv, OwnerInv
    <2>2. guard \/ conn.leg = W \/ held.leg = W => leg[W] # "off"
      BY DEF Inv, TypeOK, OwnerInv
    <2>3. ~(guard \/ conn.leg = W \/ held.leg = W) => pc # "open"
      BY DEF Inv, OwnerInv
    <2>4. (pc' = "closed" /\ leg[W] # "off") \/ (pc' = pc /\ pc # "open")
      BY <2>2, <2>3
    <2> QED
      BY <2>1, <2>4 DEF Inv, OwnerInv, over
  <1>3. RaceInv' /\ FlagInv'
    BY DEF RaceInv, FlagInv
  <1> QED
    BY <1>1, <1>2, <1>3 DEF Inv

LEMMA RelayIsConn == RelayConn \in Conns /\ RelayConn.leg # W /\ RelayConn.p2p = FALSE
  BY LegsDiffer DEF RelayConn, Conns, Legs

(* The steps after the race.                                                 *)
LEMMA AfterRaceInv ==
    ASSUME Inv, Override \/ request_relay \/ secure_connection \/ Fallback \/ Return PROVE Inv'
  <1> USE NoneIsNoConn, RelayIsConn, LegsDiffer DEF inputs, race
  <1>1. CASE Exit("failed")
    BY Zenon, <1>1, ExitInv DEF Override, request_relay, secure_connection, Fallback, Return
  <1>2. CASE Override /\ ~Exit("failed")
    <2>1. /\ phase = "raced" /\ phase' \in {"request", "secure"}
          /\ phase' = "request" => path = "punch" /\ ((force /\ conn.leg # W) \/ conn = None)
          /\ phase' = "secure" => conn # None
          /\ UNCHANGED <<inputs, race, conn, direct, guard, pc>>
      BY Zenon, <1>2 DEF Override, Inv, TypeOK
    <2>2. TypeOK' /\ RaceInv' /\ FlagInv'
      BY Zenon, <2>1 DEF Inv, TypeOK, RaceInv, FlagInv
    <2>3. OwnerInv'
      BY Zenon, <2>1 DEF Inv, TypeOK, OwnerInv, over
    <2> QED
      BY <2>2, <2>3 DEF Inv
  <1>3. CASE request_relay /\ ~Exit("failed")
    <2>1. TypeOK' /\ RaceInv' /\ FlagInv'
      BY Zenon, <1>3 DEF request_relay, Drop, Inv, TypeOK, RaceInv, FlagInv
    <2>2. OwnerInv'
      BY <1>3 DEF request_relay, Drop, Inv, TypeOK, OwnerInv, over
    <2> QED
      BY <2>1, <2>2 DEF Inv
  <1>4. CASE secure_connection /\ ~Exit("failed")
    <2>1. TypeOK'
      BY Zenon, <1>4 DEF secure_connection, DropGuard, Inv, TypeOK
    <2>3. RaceInv' /\ FlagInv'
      BY <1>4 DEF secure_connection, DropGuard, Inv, RaceInv, FlagInv
    <2>2. OwnerInv'
      <3>1. phase = "secure" /\ UNCHANGED <<conn, leg, held>> /\ OwnerInv /\ conn # None
        BY Zenon, <1>4 DEF secure_connection, Inv, OwnerInv
      <3>2. CASE phase' = "secured" /\ UNCHANGED <<guard, pc>>
        BY <3>1, <3>2 DEF OwnerInv, over
      <3>3. CASE conn.leg = W /\ phase' = "fallback" /\ DropGuard({})
        BY Zenon, <3>1, <3>3 DEF OwnerInv, over, DropGuard
      <3> QED BY <1>4, <3>2, <3>3 DEF secure_connection
    <2> QED
      BY <2>1, <2>2, <2>3 DEF Inv
  <1>5. CASE Fallback /\ ~Exit("failed")
    <2>1. TypeOK'
      BY Zenon, <1>5 DEF Fallback, Drop, Inv, TypeOK
    <2>3. RaceInv' /\ FlagInv'
      BY <1>5 DEF Fallback, Drop, Inv, RaceInv, FlagInv
    <2>2. OwnerInv'
      BY Zenon, <1>5 DEF Fallback, Drop, Inv, TypeOK, OwnerInv, over
    <2> QED
      BY <2>1, <2>2, <2>3 DEF Inv
  <1>6. CASE Return
    <2>1. TypeOK'
      BY Zenon, <1>6 DEF Return, DropGuard, Inv, TypeOK
    <2>3. RaceInv' /\ FlagInv'
      <3>1. phase = "secured" /\ phase' = "returned" /\ conn' = conn /\ (direct' => direct)
        BY <1>6 DEF Return
      <3>2. RaceInv' BY <3>1 DEF RaceInv
      <3>3. FlagInv' BY Zenon, <3>1 DEF Inv, FlagInv
      <3> QED BY <3>2, <3>3
    <2>2. OwnerInv'
      <3>1. phase = "secured" /\ phase' = "returned" /\ UNCHANGED <<conn, leg, held>>
            /\ OwnerInv /\ conn # None
        BY Zenon, <1>6 DEF Return, Inv, OwnerInv
      <3>2. CASE conn.leg = W /\ guard' = FALSE /\ pc' = pc
        BY Zenon, <3>1, <3>2 DEF OwnerInv, over
      <3>3. CASE conn.leg # W /\ DropGuard({})
        BY Zenon, <3>1, <3>3 DEF OwnerInv, over, DropGuard
      <3> QED BY Zenon, <1>6, <3>2, <3>3 DEF Return
    <2> QED
      BY <2>1, <2>2, <2>3 DEF Inv
  <1> QED
    BY <1>1, <1>2, <1>3, <1>4, <1>5, <1>6

(* Every step keeps the invariant.                                           *)
LEMMA NextInv == Inv /\ [Next]_vars => Inv'
  <1> SUFFICES ASSUME Inv, [Next]_vars PROVE Inv'
    OBVIOUS
  <1>1. CASE UNCHANGED vars
    <2>1. TypeOK' /\ FlagInv' BY Zenon, <1>1 DEF Inv, TypeOK, FlagInv, vars, inputs, race
    <2>2. OwnerInv' BY Zenon, <1>1 DEF Inv, OwnerInv, vars, inputs, race, over
    <2>3. RaceInv' BY <1>1 DEF Inv, RaceInv, vars, inputs, race, others_fut, prefer
    <2> QED BY <2>1, <2>2, <2>3 DEF Inv
  <1>2. CASE Cancelled
    BY <1>2, ExitInv DEF Cancelled
  <1> QED
    BY <1>1, <1>2, LegEndsInv, WindowEndsInv, AfterRaceInv DEF Next

(* The invariant holds in every reachable state.                             *)
THEOREM ConnectInvariant == Spec => []Inv
  BY InitInv, NextInv, PTL DEF Spec

(* Whatever the exit of the connection attempt (a return, an error, the      *)
(* outer race dropping it), the offerer's peer connection is alive exactly   *)
(* when the caller owns it.                                                  *)
THEOREM ConnectOwnsPc == Spec => []PcFollowsResult
  <1>1. Inv => PcFollowsResult
    BY Zenon DEF Inv, OwnerInv, PcFollowsResult, over
  <1> QED
    BY <1>1, ConnectInvariant, PTL

(* What is reported to the user as direct is direct.                         *)
THEOREM ConnectDirect == Spec => []DirectIsP2p
  <1>1. Inv => DirectIsP2p
    BY DEF Inv, FlagInv, DirectIsP2p
  <1> QED
    BY <1>1, ConnectInvariant, PTL

-----------------------------------------------------------------------------
(* Of the steps that end the race, only those of LegEnds and WindowEnds.     *)
LEMMA RaceEnds ==
    ASSUME Inv, [Next]_vars, phase = "race", phase' = "raced"
    PROVE  WindowEnds \/ \E l \in Legs : LegEnds(l)
  BY DEF Next, Override, request_relay, secure_connection, Fallback, Return, Cancelled, Exit, vars

(* A relayed connection wins a race only when nothing that could be direct   *)
(* is still in flight, or the preference window has run out.                 *)
THEOREM ConnectRelayIsLast == Spec => RelayIsLast
  <1>1. ASSUME Inv, [Next]_vars, phase = "race", phase' = "raced", prefer, conn' # None, ~conn'.p2p
        PROVE  expired' \/ \A l \in Legs : leg'[l] # "racing"
    <2>1. CASE WindowEnds
      BY <2>1 DEF WindowEnds
    <2>2. ASSUME NEW l \in Legs, LegEnds(l)
          PROVE  \A k \in Legs : leg'[k] # "racing"
      <3> USE <1>1, <2>2 DEF LegEnds
      <3>1. leg \in [Legs -> {"off", "racing", "failed", "won"}] /\ conn = None
        BY Zenon DEF Inv, TypeOK, OwnerInv
      <3>2. CASE PreferOk(l)
        <4>1. PICK p \in Delivers(l) :
                 /\ leg' = [leg EXCEPT ![l] = "won"]
                 /\ IF l = W THEN WebRtcOk([leg |-> l, p2p |-> p])
                    ELSE OthersOk([leg |-> l, p2p |-> p], others_fut \ {l})
          BY <3>2 DEF PreferOk
        <4>2. IF l = W THEN others_fut = {} ELSE ~webrtc_fut /\ others_fut \ {l} = {}
          BY Zenon, <4>1 DEF WebRtcOk, OthersOk, Commit, Hold
        <4> QED
          BY <3>1, <4>1, <4>2 DEF others_fut, webrtc_fut
      <3>3. CASE PreferErr(l)
        <4>1. IF l = W THEN others_fut = {} ELSE others_fut = {l} /\ leg[W] # "racing"
          BY Zenon, <3>1, <3>3 DEF PreferErr, WebRtcErr, OthersErr, Wait, GiveUp, Inv, RaceInv, webrtc_fut
        <4> QED
          BY <3>1, <3>3, <4>1 DEF PreferErr, others_fut
      <3> QED
        BY Zenon, <3>2, <3>3
    <2> QED
      BY <1>1, <2>1, <2>2, RaceEnds
  <1>2. Inv /\ [Next]_vars =>
          [phase = "race" /\ phase' = "raced" /\ prefer /\ conn' # None /\ ~conn'.p2p
             => expired' \/ \A l \in Legs : leg'[l] # "racing"]_vars
    BY <1>1
  <1> QED
    BY <1>2, ConnectInvariant, PTL DEF Spec, RelayIsLast

(* The race fails only when every attempt failed: the failure of one never   *)
(* discards the connection another one has made.                             *)
THEOREM ConnectNothingLost == Spec => NoConnectionLost
  <1>1. ASSUME Inv, [Next]_vars, phase = "race", phase' = "raced", conn' = None
        PROVE  \A l \in Legs : leg'[l] \in {"off", "failed"}
    <2> USE <1>1, NoneIsNoConn
    <2>1. leg \in [Legs -> {"off", "racing", "failed", "won"}]
      BY DEF Inv, TypeOK
    <2>2. ~WindowEnds
      BY DEF WindowEnds, Commit
    <2>3. PICK l \in Legs : LegEnds(l)
      BY <2>2, RaceEnds
    <2>4. \A p \in BOOLEAN : [leg |-> l, p2p |-> p] \in Conns
      BY DEF Conns
    <2>5. \A p \in BOOLEAN : ~Commit([leg |-> l, p2p |-> p])
      BY <2>4 DEF Commit
    <2>6. ~PreferOk(l) /\ ~FirstOk(l)
      BY Zenon, <2>5 DEF PreferOk, FirstOk, WebRtcOk, OthersOk, Hold, Delivers
    <2>7. CASE prefer /\ PreferErr(l)
      <3>1. /\ held = None
            /\ IF l = W THEN others_fut = {} ELSE others_fut = {l} /\ leg[W] # "racing"
        BY Zenon, <2>1, <2>7 DEF PreferErr, WebRtcErr, OthersErr, Wait, GiveUp, Commit, Inv, RaceInv, webrtc_fut
      <3> QED
        BY <2>1, <2>7, <3>1 DEF PreferErr, others_fut, Inv, RaceInv
    <2>8. CASE ~prefer /\ FirstErr(l)
      BY <2>1, <2>8 DEF FirstErr, Wait, Inv, RaceInv
    <2> QED
      BY Zenon, <2>3, <2>6, <2>7, <2>8 DEF LegEnds
  <1>2. Inv /\ [Next]_vars =>
          [phase = "race" /\ phase' = "raced" /\ conn' = None
             => \A l \in Legs : leg'[l] \in {"off", "failed"}]_vars
    BY <1>1
  <1> QED
    BY <1>2, ConnectInvariant, PTL DEF Spec, NoConnectionLost
=============================================================================
