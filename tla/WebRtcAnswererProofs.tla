------------------------ MODULE WebRtcAnswererProofs ------------------------
(* Proofs about the WebRTC session cache and the answerers, for any number   *)
(* of offers and cache keys.                                                 *)
(*                                                                           *)
(* The hand-over of a peer connection is a race between claims, adoptions    *)
(* and drops.  Its invariant SInv says what each party may rely on: an       *)
(* outstanding claim is counted (Claimed), who goes on with a connection has *)
(* marked it adopted (Owners), and nobody has, or finds in the cache, a      *)
(* connection whose builder has not inserted it yet (Built, Untouched).      *)
(* AInv adds how the tasks of the answerers follow their calls.              *)
EXTENDS WebRtcAnswerer, TLAPS

Early == {"idle", "lookup", "build", "insert"}
Late  == {"claimed", "adopting", "owned", "running", "dropped_last"}

Handed == \A c \in Calls : call[c] \in Late \/ c \in abandon => has[c] # NoPc

Built ==
  /\ \A c \in Calls : has[c] # NoPc => call[has[c]] \notin Early
  /\ \A k \in Keys : sessions[k] # NoPc => call[sessions[k]] \notin Early

Untouched == \A p \in Calls : call[p] \in Early => ~closing[p] /\ close[p] = "no"

Claimed == \A c \in Calls : call[c] \in {"claimed", "adopting"} => c \in pending[has[c]]

Owners == \A c \in Calls : call[c] \in {"adopting", "owned", "running"} => adopted[has[c]]

\* Nobody but the one reader closes the connection it reads from.
Readers ==
  \A c \in Calls : call[c] = "running" => rxTaken[has[c]] /\ close[has[c]] = "no"

\* Before it has a reader, a connection is closed only if it was condemned or
\* if its builder lost to another call, and then nobody can get at it.
Orphan(p) == (\A c \in Calls : has[c] # p) /\ (\A k \in Keys : sessions[k] # p)

Unclosed == \A p \in Calls : close[p] = "no" \/ rxTaken[p] \/ closing[p] \/ Orphan(p)

Watch == \A p \in Calls : state[p] = "Open" => opened[p]

SInv ==
  /\ TypeOK /\ Handed /\ Built /\ Untouched /\ Claimed /\ Owners
  /\ CondemnedIsUnwanted /\ Readers /\ OneReader /\ Unclosed /\ Watch

-----------------------------------------------------------------------------
\* No call has been made.
LEMMA SInit == Init => SInv
  <1> SUFFICES ASSUME Init PROVE SInv OBVIOUS
  <1>1. TypeOK BY DEF Init, TypeOK, CallStates
  <1>2. Handed /\ Built /\ Untouched /\ Claimed /\ Owners
    BY DEF Init, Handed, Built, Untouched, Claimed, Owners, Late, Early
  <1>3. CondemnedIsUnwanted /\ Readers /\ OneReader /\ Unclosed /\ Watch
    BY DEF Init, CondemnedIsUnwanted, Readers, OneReader, Unclosed, Watch
  <1> QED BY <1>1, <1>2, <1>3 DEF SInv

\* What is shared by the steps that move one call and touch nothing else.
LEMMA MoveInv ==
  ASSUME SInv, NEW c \in Calls, NEW s \in CallStates, call' = [call EXCEPT ![c] = s],
         UNCHANGED <<key, relay, has, sessions, pending, adopted, closing, abandon>>,
         UNCHANGED <<opened, disconnected, rxTaken, close, handler>>,
         state' \in [Calls -> {"none", "Pending", "Open", "Closed"}],
         \A p \in Calls : state'[p] = "Open" => state[p] = "Open",
         s \in Early => call[c] \in Early, s \notin Late
  PROVE  SInv'
  <1>1. TypeOK' BY Zenon DEF SInv, TypeOK
  <1>2. Handed' BY DEF SInv, TypeOK, Handed
  <1>3. Built' BY DEF SInv, TypeOK, Built
  <1>4. Untouched' BY DEF SInv, TypeOK, Untouched
  <1>5. Claimed' /\ Owners' BY DEF SInv, TypeOK, Claimed, Owners, Late
  <1>6. Readers' /\ OneReader' BY DEF SInv, TypeOK, Readers, OneReader, Late
  <1>7. CondemnedIsUnwanted' BY DEF SInv, TypeOK, CondemnedIsUnwanted
  <1>8. Unclosed' /\ Watch' BY DEF SInv, TypeOK, Unclosed, Orphan, Watch
  <1> QED BY <1>1, <1>2, <1>3, <1>4, <1>5, <1>6, <1>7, <1>8 DEF SInv

LEMMA NewInv == ASSUME SInv, NEW c \in Calls, New(c) PROVE SInv'
  BY Zenon, MoveInv DEF New, SInv, TypeOK, CallStates, Early, Late, handoffVars, pcVars

LEMMA BuildInv == ASSUME SInv, NEW c \in Calls, Build(c) PROVE SInv'
  <1>1. TypeOK BY DEF SInv
  <1>2. /\ state' \in [Calls -> {"none", "Pending", "Open", "Closed"}]
        /\ \A p \in Calls : state'[p] = "Open" => state[p] = "Open"
    BY <1>1 DEF Build, TypeOK
  <1>3. PICK s \in {"insert", "released"} : call' = [call EXCEPT ![c] = s] BY DEF Build
  <1>4. s \in CallStates /\ s \notin Late /\ (s \in Early => call[c] \in Early)
    BY DEF Build, CallStates, Early, Late
  <1> QED BY Zenon, <1>2, <1>3, <1>4, MoveInv DEF Build, handoffVars

\* A claim is only taken of a connection that nobody has condemned.
LEMMA ClaimInv ==
  ASSUME SInv, NEW c \in Calls, NEW p \in Calls, claim(c, p), call[c] \in Early, ~closing[p],
         p = c \/ \E k \in Keys : sessions[k] = p,
         UNCHANGED <<key, relay, adopted, closing, abandon>>,
         UNCHANGED <<state, opened, disconnected, rxTaken, handler>>,
         \/ sessions' = sessions
         \/ p = c /\ sessions' = [sessions EXCEPT ![key[c]] = c],
         \/ close' = close
         \/ p # c /\ close' = [close EXCEPT ![c] = IF @ = "no" THEN "asked" ELSE @]
  PROVE  SInv'
  <1>0. /\ pending' = [pending EXCEPT ![p] = @ \cup {c}] /\ has' = [has EXCEPT ![c] = p]
        /\ call' = [call EXCEPT ![c] = "claimed"]
    BY DEF claim
  <1>1. TypeOK' BY <1>0, NoPcAssumption DEF SInv, TypeOK, CallStates
  <1>2. Handed' BY <1>0, NoPcAssumption DEF SInv, TypeOK, Handed
  <1>3. Built' BY <1>0, NoPcAssumption DEF SInv, TypeOK, Built, Early
  <1>a. close[c] = "no" /\ Orphan(c) /\ (p # c => call[p] \notin Early)
    BY NoPcAssumption DEF SInv, Untouched, Built, Orphan
  <1>b. Unclosed'
    <2> SUFFICES ASSUME NEW q \in Calls, close'[q] # "no", ~rxTaken[q], ~closing[q]
                 PROVE  Orphan(q)'
      BY DEF Unclosed
    <2>1. CASE q = c
      <3>1. p # c /\ UNCHANGED sessions BY <1>a, <2>1 DEF SInv, TypeOK
      <3> QED BY <1>0, <1>a, <2>1, <3>1 DEF Orphan, SInv, TypeOK
    <2>2. CASE q # c
      <3>1. Orphan(q) BY <2>2 DEF SInv, TypeOK, Unclosed
      <3>2. q # p BY <2>2, <3>1 DEF Orphan
      <3> QED BY <1>0, <2>2, <3>1, <3>2 DEF Orphan, SInv, TypeOK
    <2> QED BY <2>1, <2>2
  <1>4. Untouched' BY <1>0 DEF SInv, TypeOK, Untouched, Early
  <1>5. Claimed' BY <1>0 DEF SInv, TypeOK, Claimed, Handed, Early
  <1>6. Owners' BY <1>0 DEF SInv, TypeOK, Owners
  <1>7. CondemnedIsUnwanted' BY <1>0 DEF SInv, TypeOK, CondemnedIsUnwanted
  <1>8. Readers'
    <2> SUFFICES ASSUME NEW d \in Calls, call'[d] = "running"
                 PROVE  rxTaken[has'[d]] /\ close'[has'[d]] = "no"
      BY DEF Readers
    <2>1. d # c /\ call[d] = "running" /\ has'[d] = has[d] BY <1>0 DEF SInv, TypeOK
    <2>2. has[d] # NoPc /\ has[d] \in Calls /\ rxTaken[has[d]] /\ close[has[d]] = "no"
      BY <2>1 DEF SInv, TypeOK, Handed, Readers, Late
    <2>3. has[d] # c BY <2>2 DEF SInv, Built
    <2> QED BY <2>1, <2>2, <2>3 DEF SInv, TypeOK
  <1>9. OneReader' /\ Watch' BY <1>0 DEF SInv, TypeOK, OneReader, Watch
  <1> QED BY <1>1, <1>2, <1>3, <1>4, <1>5, <1>6, <1>7, <1>8, <1>9, <1>b DEF SInv

LEMMA HitIsLive ==
  ASSUME SInv, NEW c \in Calls, Hit(c)
  PROVE  LET p == sessions[key[c]] IN
           p \in Calls /\ ~closing[p] /\ call[p] \notin Early /\ \E k \in Keys : sessions[k] = p
  BY DEF Hit, is_reusable_for, SInv, TypeOK, Built

LEMMA LookupInv == ASSUME SInv, NEW c \in Calls, Lookup(c) PROVE SInv'
  <1>1. CASE Hit(c)
    BY <1>1, HitIsLive, ClaimInv DEF Lookup, Early, pcVars
  <1>2. CASE ~Hit(c)
    BY <1>2, MoveInv DEF Lookup, SInv, TypeOK, CallStates, Early, Late, pcVars
  <1> QED BY <1>1, <1>2

LEMMA InsertInv == ASSUME SInv, NEW c \in Calls, Insert(c) PROVE SInv'
  <1>1. CASE Hit(c)
    <2>1. sessions[key[c]] # c BY <1>1, HitIsLive DEF Insert, Early
    <2> QED BY <1>1, <2>1, HitIsLive, ClaimInv DEF Insert, Early, close_detached
  <1>2. CASE ~Hit(c)
    <2>1. ~closing[c] BY DEF Insert, SInv, Untouched, Early
    <2> QED BY <1>2, <2>1, ClaimInv DEF Insert, Early
  <1> QED BY <1>1, <1>2

\* The hand-over.  A claim in hand keeps its connection from being condemned,
\* so that marking it adopted is never too late.
LEMMA AdoptInv == ASSUME SInv, NEW c \in Calls, AdoptStore(c) \/ AdoptRelease(c) PROVE SInv'
  <1> USE DEF SInv, TypeOK, Early, Late, pcVars
  <1>0. has[c] \in Calls /\ c \in pending[has[c]]
    BY DEF AdoptStore, AdoptRelease, Handed, Claimed
  <1>1. CASE AdoptStore(c)
    <2>1. TypeOK' BY <1>0, <1>1 DEF AdoptStore, CallStates
    <2>2. Handed' /\ Built' /\ Untouched' BY <1>1 DEF AdoptStore, Handed, Built, Untouched
    <2>3. Claimed' /\ Owners' BY <1>0, <1>1 DEF AdoptStore, Handed, Claimed, Owners
    <2>4. CondemnedIsUnwanted' BY <1>0, <1>1 DEF AdoptStore, CondemnedIsUnwanted
    <2>5. Readers' /\ OneReader' /\ Unclosed' /\ Watch'
      BY <1>1 DEF AdoptStore, Readers, OneReader, Unclosed, Orphan, Watch
    <2> QED BY <2>1, <2>2, <2>3, <2>4, <2>5
  <1>2. CASE AdoptRelease(c)
    <2>1. TypeOK' BY <1>0, <1>2 DEF AdoptRelease, CallStates
    <2>2. Handed' /\ Built' /\ Untouched' BY <1>2 DEF AdoptRelease, Handed, Built, Untouched
    <2>3. Claimed' /\ Owners' BY <1>0, <1>2 DEF AdoptRelease, Handed, Claimed, Owners
    <2>4. CondemnedIsUnwanted' BY <1>0, <1>2 DEF AdoptRelease, CondemnedIsUnwanted
    <2>5. Readers' /\ OneReader' /\ Unclosed' /\ Watch'
      BY <1>2 DEF AdoptRelease, Readers, OneReader, Unclosed, Orphan, Watch
    <2> QED BY <2>1, <2>2, <2>3, <2>4, <2>5
  <1> QED BY <1>1, <1>2

LEMMA DropInv == ASSUME SInv, NEW c \in Calls, DropRelease(c) \/ DropCheck(c) PROVE SInv'
  <1> USE DEF SInv, TypeOK, Early, Late, pcVars
  <1>0. has[c] \in Calls BY DEF DropRelease, DropCheck, Handed
  <1>1. CASE DropRelease(c)
    <2>1. TypeOK' BY <1>0, <1>1 DEF DropRelease, CallStates
    <2>2. Handed' /\ Built' /\ Untouched' BY <1>1 DEF DropRelease, Handed, Built, Untouched
    <2>3. Claimed' /\ Owners' BY <1>0, <1>1 DEF DropRelease, Handed, Claimed, Owners
    <2>4. CondemnedIsUnwanted' BY <1>0, <1>1 DEF DropRelease, CondemnedIsUnwanted
    <2>5. Readers' /\ OneReader' /\ Unclosed' /\ Watch'
      BY <1>1 DEF DropRelease, Readers, OneReader, Unclosed, Orphan, Watch
    <2> QED BY <2>1, <2>2, <2>3, <2>4, <2>5
  <1>2. CASE DropCheck(c)
    <2>1. TypeOK' BY <1>2 DEF DropCheck, CallStates
    <2>2. Handed' /\ Built' /\ Untouched' BY <1>0, <1>2, NoPcAssumption DEF DropCheck, Handed, Built, Untouched
    <2>3. Claimed' /\ Owners' /\ CondemnedIsUnwanted'
      BY <1>2 DEF DropCheck, Claimed, Owners, CondemnedIsUnwanted
    <2>4. Readers' /\ OneReader' /\ Unclosed' /\ Watch'
      BY <1>2 DEF DropCheck, Readers, OneReader, Unclosed, Orphan, Watch
    <2> QED BY <2>1, <2>2, <2>3, <2>4
  <1> QED BY <1>1, <1>2

\* What is condemned has no claim and was not adopted, hence has no reader.
LEMMA CondemnInv == ASSUME SInv, NEW c \in Calls, close_if_abandoned(c) PROVE SInv'
  <1> USE DEF SInv, TypeOK
  <1> DEFINE p == has[c]
  <1>0. p \in Calls /\ call[p] \notin Early BY DEF close_if_abandoned, Handed, Built
  <1>1. abandon' \subseteq abandon
        /\ UNCHANGED <<call, key, relay, has, sessions, pending, adopted, state, opened>>
        /\ UNCHANGED <<disconnected, rxTaken, handler>>
    BY DEF close_if_abandoned, callVars
  <1>2. CASE UNCHANGED <<closing, close>>
    BY <1>1, <1>2 DEF Handed, Built, Untouched, Claimed, Owners, CondemnedIsUnwanted, Readers,
                      OneReader, Unclosed, Orphan, Watch
  <1>3. CASE /\ pending[p] = {} /\ ~adopted[p] /\ closing' = [closing EXCEPT ![p] = TRUE]
             /\ close' = [close EXCEPT ![p] = IF @ = "no" THEN "asked" ELSE @]
    <2>1. TypeOK' BY <1>0, <1>1, <1>3
    <2>2. Handed' /\ Built' /\ Claimed' /\ Owners' /\ OneReader' /\ Watch'
      BY <1>1 DEF Handed, Built, Claimed, Owners, OneReader, Watch
    <2>3. Untouched' /\ CondemnedIsUnwanted' /\ Unclosed'
      BY <1>0, <1>1, <1>3 DEF Untouched, CondemnedIsUnwanted, Unclosed, Orphan
    <2>4. Readers' BY <1>1, <1>3 DEF Readers, Owners, Handed, Late
    <2> QED BY <2>1, <2>2, <2>3, <2>4
  <1> QED BY <1>2, <1>3 DEF close_if_abandoned, close_detached

LEMMA TakeInv == ASSUME SInv, NEW c \in Calls, take_local_ice_rx(c) PROVE SInv'
  <1> USE DEF SInv, TypeOK, Early, Late, handoffVars
  <1> DEFINE p == has[c]
  <1>0. /\ p \in Calls /\ call[c] = "owned" /\ adopted[p]
        /\ call' = [call EXCEPT ![c] = IF rxTaken[p] THEN "released" ELSE "running"]
        /\ rxTaken' = [rxTaken EXCEPT ![p] = TRUE]
        /\ UNCHANGED <<key, relay, has, sessions, pending, adopted, closing, abandon>>
        /\ UNCHANGED <<state, opened, disconnected, close, handler>>
    BY DEF take_local_ice_rx, Handed, Owners
  <1>1. TypeOK' BY <1>0 DEF CallStates
  <1>2. Handed' /\ Built' /\ Untouched' BY <1>0 DEF Handed, Built, Untouched
  <1>3. Claimed' /\ Owners' /\ CondemnedIsUnwanted' /\ Watch'
    BY <1>0 DEF Claimed, Owners, CondemnedIsUnwanted, Watch
  <1>4. OneReader' BY <1>0 DEF OneReader, Readers
  <1>5. Readers'
    <2>1. ~rxTaken[p] => close[p] = "no" BY <1>0 DEF Unclosed, Orphan, CondemnedIsUnwanted
    <2> QED BY <1>0, <2>1 DEF Readers, Handed
  <1>6. Unclosed' BY <1>0 DEF Unclosed, Orphan
  <1> QED BY <1>6, <1>1, <1>2, <1>3, <1>4, <1>5

\* The reader closes what it reads from; it is the only reader.
LEMMA EndInv == ASSUME SInv, NEW c \in Calls, SessionEnds(c) PROVE SInv'
  <1> USE DEF SInv, TypeOK, Early, Late, handoffVars
  <1> DEFINE p == has[c]
  <1>0. /\ p \in Calls /\ call[c] = "running" /\ rxTaken[p] /\ call[p] \notin Early
        /\ call' = [call EXCEPT ![c] = "released"]
        /\ close' = [close EXCEPT ![p] = IF @ = "no" THEN "asked" ELSE @]
        /\ UNCHANGED <<key, relay, has, sessions, pending, adopted, closing, abandon>>
        /\ UNCHANGED <<state, opened, disconnected, rxTaken, handler>>
    BY DEF SessionEnds, Handed, Readers, Built, close_detached
  <1>1. TypeOK' BY <1>0 DEF CallStates
  <1>2. Handed' /\ Built' /\ Untouched' BY <1>0 DEF Handed, Built, Untouched
  <1>3. Claimed' /\ Owners' /\ CondemnedIsUnwanted' /\ Watch'
    BY <1>0 DEF Claimed, Owners, CondemnedIsUnwanted, Watch
  <1>4. OneReader' BY <1>0 DEF OneReader
  <1>5. Readers' BY <1>0 DEF Readers, OneReader, Handed
  <1>6. Unclosed' BY <1>0 DEF Unclosed, Orphan
  <1> QED BY <1>1, <1>2, <1>3, <1>4, <1>5, <1>6

\* The network and pc.close() do not touch the hand-over.
LEMMA PcInv == ASSUME SInv, NEW p \in Calls, PcStep(p) PROVE SInv'
  <1> USE DEF SInv, TypeOK, callVars, handoffVars
  <1>0. UNCHANGED <<call, key, relay, has, pending, adopted, closing, abandon, rxTaken>>
    BY DEF PcStep, DcOpens, note_health, Fails, CloseFires, remove_sessions_for_peer, CloseReturns
  <1>1. \/ sessions' = sessions
        \/ sessions' = [k \in Keys |-> IF sessions[k] = p THEN NoPc ELSE sessions[k]]
    BY DEF PcStep, DcOpens, note_health, Fails, CloseFires, remove_sessions_for_peer, CloseReturns
  <1>2. \/ close' = close
        \/ close[p] # "no" /\ (\E v \in {"fired", "done"} : close' = [close EXCEPT ![p] = v])
    BY DEF PcStep, DcOpens, note_health, Fails, CloseFires, remove_sessions_for_peer, CloseReturns
  <1>3. TypeOK'
    <2>1. state' \in [Calls -> {"none", "Pending", "Open", "Closed"}]
      BY DEF PcStep, DcOpens, note_health, Fails, CloseFires, remove_sessions_for_peer, CloseReturns
    <2>2. opened' \in [Calls -> BOOLEAN]
      BY Zenon DEF PcStep, DcOpens, note_health, Fails, CloseFires, remove_sessions_for_peer, CloseReturns
    <2>3. disconnected' \in [Calls -> BOOLEAN]
      BY Zenon DEF PcStep, DcOpens, note_health, Fails, CloseFires, remove_sessions_for_peer, CloseReturns
    <2>4. handler' \in [Calls -> {"idle", "told"}]
      BY DEF PcStep, DcOpens, note_health, Fails, CloseFires, remove_sessions_for_peer, CloseReturns
    <2>5. sessions' \in [Keys -> Calls \cup {NoPc}] BY <1>1
    <2>6. close' \in [Calls -> {"no", "asked", "fired", "done"}] BY <1>2
    <2> QED BY <1>0, <2>1, <2>2, <2>3, <2>4, <2>5, <2>6
  <1>4. Watch'
    <2>1. CASE DcOpens(p) BY <2>1 DEF DcOpens, Watch
    <2>2. CASE Fails(p) BY <2>2 DEF Fails, Watch
    <2>3. CASE CloseFires(p) BY <2>3 DEF CloseFires, Watch
    <2>4. CASE UNCHANGED <<state, opened>> BY <2>4 DEF Watch
    <2> QED BY <2>1, <2>2, <2>3, <2>4 DEF PcStep, note_health, remove_sessions_for_peer, CloseReturns
  <1>5. Handed' /\ Claimed' /\ Owners' /\ CondemnedIsUnwanted' /\ OneReader'
    BY <1>0 DEF Handed, Claimed, Owners, CondemnedIsUnwanted, OneReader
  <1>6. Built' BY <1>0, <1>1 DEF Built
  <1>7. Untouched' BY <1>0, <1>2 DEF Untouched
  <1>8. Readers' BY <1>0, <1>2 DEF Readers, Handed, Late
  <1>9. Unclosed'
    <2>1. \A q \in Calls : close'[q] = "no" <=> close[q] = "no" BY <1>2
    <2>2. \A q \in Calls : Orphan(q) => Orphan(q)' BY <1>0, <1>1, NoPcAssumption DEF Orphan
    <2> QED BY <1>0, <2>1, <2>2 DEF Unclosed
  <1> QED BY <1>3, <1>4, <1>5, <1>6, <1>7, <1>8, <1>9

LEMMA StutterInv == ASSUME SInv, UNCHANGED vars PROVE SInv'
  <1> USE DEF vars, callVars, handoffVars, pcVars
  <1>1. TypeOK' /\ Handed' /\ Built' BY DEF SInv, TypeOK, Handed, Built
  <1>2. Untouched' /\ Claimed' /\ Owners' BY Zenon DEF SInv, Untouched, Claimed, Owners
  <1>3. CondemnedIsUnwanted' /\ Readers' /\ OneReader'
    BY Zenon DEF SInv, CondemnedIsUnwanted, Readers, OneReader
  <1>4. Unclosed' /\ Watch' BY Zenon DEF SInv, Unclosed, Orphan, Watch
  <1> QED BY <1>1, <1>2, <1>3, <1>4 DEF SInv

LEMMA CallInv == ASSUME SInv, NEW c \in Calls, CallStep(c) PROVE SInv'
  BY NewInv, LookupInv, BuildInv, InsertInv, AdoptInv, DropInv, CondemnInv, TakeInv, EndInv
     DEF CallStep

-----------------------------------------------------------------------------
(* The answerers.                                                            *)

Active == {"publish", "waiting", "connected", "failed", "session"}

AnswererTypes ==
  /\ slot \in [Calls -> {"none", "held", "teardown"}]
  /\ routes \in [Keys -> Calls \cup {NoPc}]
  /\ run \in [Calls -> Active \cup {"no", "over"}]

\* A spawned answerer runs the session of its call, and ends with it.
Follows ==
  \A c \in Calls :
    /\ run[c] \in Active <=> call[c] = "running"
    /\ run[c] = "over" => call[c] = "released" /\ has[c] # NoPc

\* Until it is settled whether there is an answerer, an offer holds a slot.
PaidFor == {"lookup", "build", "insert", "claimed", "adopting", "owned"}
Paid == \A c \in Calls : call[c] \in PaidFor => slot[c] = "held"

Reached == \A c \in Calls : run[c] \in {"connected", "session"} => opened[has[c]]

AInv == SInv /\ AnswererTypes /\ Follows /\ Paid /\ Reached /\ SlotStandsForPc

\* The types that the steps below need.
LEMMA AFacts ==
  ASSUME AInv
  PROVE  /\ call \in [Calls -> CallStates] /\ key \in [Calls -> Keys]
         /\ has \in [Calls -> Calls \cup {NoPc}]
         /\ opened \in [Calls -> BOOLEAN] /\ close \in [Calls -> {"no", "asked", "fired", "done"}]
         /\ \A c \in Calls : run[c] # "no" => has[c] \in Calls
  <1>1. /\ call \in [Calls -> CallStates] /\ key \in [Calls -> Keys]
        /\ has \in [Calls -> Calls \cup {NoPc}]
        /\ opened \in [Calls -> BOOLEAN] /\ close \in [Calls -> {"no", "asked", "fired", "done"}]
    BY DEF AInv, SInv, TypeOK
  <1>2. ASSUME NEW c \in Calls, run[c] # "no" PROVE has[c] # NoPc
    <2>1. run[c] = "over" \/ call[c] = "running" BY <1>2 DEF AInv, AnswererTypes, Follows
    <2>2. CASE run[c] = "over" BY <2>2 DEF AInv, Follows
    <2>3. CASE call[c] = "running" BY <2>3 DEF AInv, SInv, Handed, Late
    <2> QED BY Zenon, <2>1, <2>2, <2>3
  <1> QED BY <1>1, <1>2

LEMMA AInit == AnswererInit => AInv
  <1> SUFFICES ASSUME AnswererInit PROVE AInv OBVIOUS
  <1>1. SInv BY SInit DEF AnswererInit
  <1> QED BY <1>1 DEF AnswererInit, Init, AInv, AnswererTypes, Follows, Paid, PaidFor, Reached,
                   SlotStandsForPc, Active

\* Steps of the hand-over, before there is an answerer: the call moves, the
\* slot may go, no connection that an answerer has had is opened or closed
\* less than it was.
LEMMA BeforeInv ==
  ASSUME AInv, SInv', NEW c \in Calls, UNCHANGED <<routes, run>>,
         call[c] # "running", run[c] = "no",
         \A d \in Calls : d # c => call'[d] = call[d] /\ has'[d] = has[d],
         call'[c] # "running",
         slot' \in [Calls -> {"none", "held", "teardown"}],
         \A d \in Calls : d # c => slot'[d] = slot[d],
         call'[c] \in PaidFor => slot'[c] = "held",
         \A p \in Calls : opened[p] => opened'[p],
         \A p \in Calls : close[p] = "done" => close'[p] = "done"
  PROVE  AInv'
  <1>1. AnswererTypes' BY DEF AInv, AnswererTypes
  <1>2. Follows' BY DEF AInv, AnswererTypes, Follows, Active
  <1>3. \A d \in Calls : run[d] # "no" => d # c /\ has'[d] = has[d] /\ has[d] \in Calls
    BY AFacts
  <1>4. Reached' BY <1>3 DEF AInv, Reached
  <1>5. SlotStandsForPc'
    <2> SUFFICES ASSUME NEW d \in Calls, run[d] # "no"
                 PROVE  /\ run[d] \in {"publish", "waiting", "connected", "failed"} => slot'[d] = "held"
                        /\ run[d] = "over" /\ ~opened'[has'[d]] /\ close'[has'[d]] # "done"
                             => slot'[d] = "teardown"
      BY DEF SlotStandsForPc
    <2>1. slot'[d] = slot[d] /\ has'[d] = has[d] /\ has[d] \in Calls BY Zenon, <1>3
    <2> QED BY <2>1 DEF AInv, SlotStandsForPc
  <1>6. Paid' BY DEF AInv, Paid
  <1> QED BY <1>1, <1>2, <1>4, <1>5, <1>6 DEF AInv

\* Steps that move no call, answerer or slot.
LEMMA AsideInv ==
  ASSUME AInv, SInv', UNCHANGED <<call, has, slot, routes, run>>,
         \A p \in Calls : opened[p] => opened'[p],
         \A p \in Calls : close[p] = "done" => close'[p] = "done"
  PROVE  AInv'
  <1>1. \A d \in Calls : run[d] # "no" => has[d] \in Calls BY AFacts
  <1>2. AnswererTypes' /\ Follows' /\ Paid' BY DEF AInv, AnswererTypes, Follows, Paid
  <1>3. Reached' BY <1>1 DEF AInv, Reached
  <1>4. SlotStandsForPc' BY <1>1 DEF AInv, SlotStandsForPc
  <1> QED BY <1>2, <1>3, <1>4 DEF AInv

LEMMA NotYet ==
  ASSUME AInv, NEW c \in Calls, call[c] \notin {"running", "released"} PROVE run[c] = "no"
  BY DEF AInv, AnswererTypes, Follows

LEMMA OfferInv == ASSUME AInv, NEW c \in Calls, Offer(c) PROVE AInv'
  <1>0. call[c] = "idle" /\ run[c] = "no" BY NotYet DEF Offer, New
  <1>1. UNCHANGED <<has, opened, close, routes, run>>
    BY DEF Offer, New, pcVars, answererVars
  <1>2. SInv'
    <2>1. CASE New(c) BY <2>1, NewInv DEF AInv
    <2>2. CASE ~New(c)
      <3>1. /\ call' = [call EXCEPT ![c] = "released"]
            /\ UNCHANGED <<key, relay, has, sessions, handoffVars, pcVars>>
        BY <2>2 DEF Offer
      <3>2. state \in [Calls -> {"none", "Pending", "Open", "Closed"}] BY DEF AInv, SInv, TypeOK
      <3>3. "released" \in CallStates /\ "released" \notin Early \cup Late
        BY DEF CallStates, Early, Late
      <3>4. SInv BY DEF AInv
      <3> QED BY Zenon, <3>1, <3>2, <3>3, <3>4, MoveInv DEF handoffVars, pcVars
    <2> QED BY <2>1, <2>2
  <1>3. \/ call' = [call EXCEPT ![c] = "lookup"] /\ slot' = [slot EXCEPT ![c] = "held"]
        \/ call' = [call EXCEPT ![c] = "released"] /\ slot' = slot
    BY DEF Offer, New, answererVars
  <1>4. /\ \A d \in Calls : d # c => call'[d] = call[d] /\ has'[d] = has[d] /\ slot'[d] = slot[d]
        /\ call'[c] # "running" /\ (call'[c] \in PaidFor => slot'[c] = "held")
        /\ slot' \in [Calls -> {"none", "held", "teardown"}]
    BY <1>1, <1>3, AFacts DEF AInv, AnswererTypes, PaidFor
  <1> QED BY <1>0, <1>1, <1>2, <1>4, BeforeInv

LEMMA ObtainInv == ASSUME AInv, NEW c \in Calls, Obtain(c) \/ Cancelled(c) PROVE AInv'
  <1> DEFINE Dropped == slot' = [slot EXCEPT ![c] = "none"]
  <1>1. CallStep(c) BY DEF Obtain, Cancelled, CallStep
  <1>2. SInv' BY <1>1, CallInv DEF AInv
  <1>3. run[c] = "no" /\ call[c] \in PaidFor
    BY Zenon, NotYet DEF Obtain, Cancelled, Lookup, Insert, AdoptStore, AdoptRelease, Build, DropRelease,
                  PaidFor
  <1>4. UNCHANGED <<opened, routes, run>>
    BY Zenon DEF Obtain, Cancelled, Lookup, Insert, AdoptStore, AdoptRelease, Build, DropRelease,
           pcVars, answererVars
  <1>5. \A d \in Calls : d # c => call'[d] = call[d] /\ has'[d] = has[d]
    BY Zenon DEF Obtain, Cancelled, Lookup, Insert, AdoptStore, AdoptRelease, Build, DropRelease,
           claim, AInv, SInv, TypeOK
  <1>6. call'[c] # "running"
    BY Zenon DEF Obtain, Cancelled, Lookup, Insert, AdoptStore, AdoptRelease, Build, DropRelease,
           claim, AInv, SInv, TypeOK
  <1>7. \A p \in Calls : close[p] = "done" => close'[p] = "done"
    BY Zenon DEF Obtain, Cancelled, Lookup, Insert, AdoptStore, AdoptRelease, Build, DropRelease,
           close_detached, pcVars, AInv, SInv, TypeOK
  <1>8. slot' = slot \/ (Dropped /\ call'[c] \in {"released", "dropped_last"})
    BY DEF Obtain, Cancelled, DropRelease, DropSlot, answererVars, AInv, SInv, TypeOK
  <1>9. slot[c] = "held" BY Zenon, <1>3 DEF AInv, Paid
  <1>10. /\ \A d \in Calls : d # c => slot'[d] = slot[d]
         /\ call'[c] \in PaidFor => slot'[c] = "held"
         /\ slot' \in [Calls -> {"none", "held", "teardown"}]
    BY <1>8, <1>9 DEF AInv, AnswererTypes, PaidFor
  <1>11. call[c] # "running" BY Zenon, <1>3 DEF PaidFor
  <1> QED BY <1>2, <1>3, <1>4, <1>5, <1>6, <1>7, <1>10, <1>11, BeforeInv

LEMMA AbandonedInv == ASSUME AInv, NEW c \in Calls, Abandoned(c) PROVE AInv'
  <1>1. SInv' BY CallInv DEF Abandoned, CallStep, AInv
  <1>2. CASE DropCheck(c)
    <2>1. call[c] = "dropped_last" /\ run[c] = "no" BY <1>2, NotYet DEF DropCheck
    <2>2. call' = [call EXCEPT ![c] = "released"]
          /\ UNCHANGED <<has, opened, close, slot, routes, run>>
      BY <1>2 DEF Abandoned, DropCheck, pcVars, answererVars
    <2>3. /\ \A d \in Calls : d # c => call'[d] = call[d] /\ has'[d] = has[d]
          /\ call'[c] # "running" /\ call'[c] \notin PaidFor
          /\ slot \in [Calls -> {"none", "held", "teardown"}]
      BY <2>2 DEF AInv, SInv, TypeOK, AnswererTypes, PaidFor
    <2> QED BY <1>1, <2>1, <2>2, <2>3, BeforeInv
  <1>3. CASE close_if_abandoned(c)
    <2>1. UNCHANGED <<call, has, slot, routes, run, opened>>
      BY <1>3 DEF Abandoned, close_if_abandoned, callVars, answererVars
    <2>2. \A p \in Calls : close[p] = "done" => close'[p] = "done"
      BY <1>3 DEF close_if_abandoned, close_detached, AInv, SInv, TypeOK
    <2> QED BY <1>1, <2>1, <2>2, AsideInv
  <1> QED BY <1>2, <1>3 DEF Abandoned

LEMMA PcStepInv == ASSUME AInv, NEW p \in Calls, PcEvent(p) \/ PcCloses(p) PROVE AInv'
  <1>1. SInv' BY PcInv DEF PcEvent, PcCloses, PcStep, AInv
  <1>2. UNCHANGED <<call, has, slot, routes, run>>
    BY DEF PcEvent, PcCloses, DcOpens, note_health, Fails, CloseFires, remove_sessions_for_peer,
           callVars, answererVars
  <1>3. \A q \in Calls : opened[q] => opened'[q]
    <2>1. opened' = opened \/ opened' = [opened EXCEPT ![p] = TRUE]
      BY DEF PcEvent, PcCloses, DcOpens, note_health, Fails, CloseFires, remove_sessions_for_peer
    <2> QED BY <2>1, AFacts
  <1>4. \A q \in Calls : close[q] = "done" => close'[q] = "done"
    <2>1. close' = close \/ (close[p] = "asked" /\ close' = [close EXCEPT ![p] = "fired"])
      BY DEF PcEvent, PcCloses, DcOpens, note_health, Fails, CloseFires, remove_sessions_for_peer
    <2> QED BY <2>1, AFacts
  <1> QED BY Zenon, <1>1, <1>2, <1>3, <1>4, AsideInv

\* Of the owners of a connection one gets to be its answerer, with its slot.
LEMMA SpawnInv == ASSUME AInv, NEW c \in Calls, SpawnOnce(c) PROVE AInv'
  <1>1. SInv' BY CallInv DEF SpawnOnce, CallStep, AInv
  <1>2. /\ call[c] = "owned" /\ run[c] = "no" /\ slot[c] = "held"
        /\ UNCHANGED <<has, opened, close, routes>>
    BY NotYet DEF SpawnOnce, take_local_ice_rx, AInv, Paid, PaidFor
  <1>3. CASE call'[c] = "running"
    <2>1. /\ call' = [call EXCEPT ![c] = "running"] /\ run' = [run EXCEPT ![c] = "publish"]
          /\ UNCHANGED slot
      BY Zenon, <1>3 DEF SpawnOnce, take_local_ice_rx, AInv, SInv, TypeOK
    <2>2. AnswererTypes' BY <1>2, <2>1 DEF AInv, AnswererTypes, Active
    <2>3. Follows' BY <1>2, <2>1, AFacts DEF AInv, AnswererTypes, Follows, Active
    <2>4. Paid' BY <1>2, <2>1, AFacts DEF AInv, Paid, PaidFor
    <2>5. Reached' BY <1>2, <2>1 DEF AInv, AnswererTypes, Reached
    <2>6. SlotStandsForPc' BY <1>2, <2>1 DEF AInv, AnswererTypes, SlotStandsForPc
    <2> QED BY <1>1, <2>2, <2>3, <2>4, <2>5, <2>6 DEF AInv
  <1>4. CASE call'[c] # "running"
    <2>1. /\ call' = [call EXCEPT ![c] = "released"] /\ run' = run
          /\ slot' = [slot EXCEPT ![c] = "none"]
      BY Zenon, <1>4 DEF SpawnOnce, DropSlot, take_local_ice_rx, AInv, SInv, TypeOK
    <2>2. /\ \A d \in Calls : d # c => call'[d] = call[d] /\ has'[d] = has[d] /\ slot'[d] = slot[d]
          /\ call'[c] \notin PaidFor /\ slot' \in [Calls -> {"none", "held", "teardown"}]
      BY <1>2, <2>1 DEF AInv, SInv, TypeOK, AnswererTypes, PaidFor
    <2> QED BY Zenon, <1>1, <1>2, <1>4, <2>1, <2>2, BeforeInv
  <1> QED BY <1>3, <1>4

LEMMA WaitInv ==
  ASSUME AInv, NEW c \in Calls, Publish(c) \/ wait_connected(c) \/ Connected(c)
  PROVE  AInv'
  <1> USE DEF vars, callVars, handoffVars, pcVars
  <1>1. UNCHANGED vars BY Zenon DEF Publish, wait_connected, Connected
  <1>2. SInv' BY <1>1, StutterInv DEF AInv
  <1>3. /\ call[c] = "running" /\ has[c] \in Calls /\ key[c] \in Keys
    <2>1. run[c] \in {"publish", "waiting", "connected"} BY Zenon DEF Publish, wait_connected, Connected
    <2>2. call[c] = "running" BY <2>1 DEF AInv, Follows, Active
    <2> QED BY <2>1, <2>2, AFacts
  <1>4. CASE Publish(c)
    <2>1. /\ run[c] = "publish" /\ run' = [run EXCEPT ![c] = "waiting"] /\ UNCHANGED slot
          /\ routes' = [routes EXCEPT ![key[c]] = c]
      BY Zenon, <1>4 DEF Publish
    <2>2. AnswererTypes' /\ Follows' BY Zenon, <1>1, <1>3, <2>1 DEF AInv, AnswererTypes, Follows, Active
    <2>3. Paid' /\ Reached' BY Zenon, <1>1, <2>1 DEF AInv, AnswererTypes, Paid, Reached
    <2>4. SlotStandsForPc' BY Zenon, <1>1, <2>1 DEF AInv, AnswererTypes, SlotStandsForPc
    <2> QED BY <1>2, <2>2, <2>3, <2>4 DEF AInv
  <1>5. CASE wait_connected(c)
    <2>1. PICK s \in {"connected", "failed"} :
            run' = [run EXCEPT ![c] = s] /\ (s = "connected" => state[has[c]] = "Open")
      BY Zenon, <1>5 DEF wait_connected
    <2>2. s = "connected" => opened[has[c]] BY Zenon, <1>3, <2>1 DEF AInv, SInv, Watch
    <2>3. UNCHANGED <<slot, routes>> /\ run[c] = "waiting" BY Zenon, <1>5 DEF wait_connected
    <2>4. AnswererTypes' /\ Follows' /\ Paid'
      BY Zenon, <1>1, <1>3, <2>1, <2>3 DEF AInv, AnswererTypes, Follows, Paid, Active
    <2>5. Reached' BY Zenon, <1>1, <2>1, <2>2 DEF AInv, AnswererTypes, Reached
    <2>6. SlotStandsForPc' BY Zenon, <1>1, <2>1, <2>3 DEF AInv, AnswererTypes, SlotStandsForPc
    <2> QED BY <1>2, <2>4, <2>5, <2>6 DEF AInv
  <1>6. CASE Connected(c)
    <2>1. /\ run[c] = "connected" /\ run' = [run EXCEPT ![c] = "session"]
          /\ slot' = [slot EXCEPT ![c] = "none"]
          /\ routes' = [routes EXCEPT ![key[c]] = IF @ = c THEN NoPc ELSE @]
      BY Zenon, <1>6 DEF Connected, DropSlot, EvictRoute
    <2>2. AnswererTypes' /\ Follows' BY Zenon, <1>1, <1>3, <2>1 DEF AInv, AnswererTypes, Follows, Active
    <2>3. Paid' BY Zenon, <1>1, <1>3, <2>1 DEF AInv, AnswererTypes, Paid, PaidFor
    <2>4. Reached' BY Zenon, <1>1, <2>1 DEF AInv, AnswererTypes, Reached
    <2>5. SlotStandsForPc' BY Zenon, <1>1, <2>1 DEF AInv, AnswererTypes, SlotStandsForPc
    <2> QED BY <1>2, <2>2, <2>3, <2>4, <2>5 DEF AInv
  <1> QED BY <1>4, <1>5, <1>6

\* The answerer that gives up is its connection's only reader: the connection
\* is not being closed yet, and the slot goes with the teardown.
LEMMA OverInv == ASSUME AInv, NEW c \in Calls, Failed(c) \/ Leave(c) PROVE AInv'
  <1>1. SInv' BY Zenon, CallInv DEF Failed, Leave, CallStep, AInv
  <1>2. call[c] = "running" /\ has[c] \in Calls /\ key[c] \in Keys /\ close[has[c]] = "no"
    <2>1. call[c] = "running" /\ run[c] # "no" BY Zenon DEF Failed, Leave, SessionEnds
    <2> QED BY <2>1, AFacts DEF AInv, SInv, Readers
  <1>3. /\ call' = [call EXCEPT ![c] = "released"] /\ run' = [run EXCEPT ![c] = "over"]
        /\ UNCHANGED <<has, opened>>
    BY Zenon DEF Failed, Leave, SessionEnds
  <1>4. \A p \in Calls : close[p] = "done" => close'[p] = "done"
    <2>1. close' = [close EXCEPT ![has[c]] = IF @ = "no" THEN "asked" ELSE @]
      BY Zenon DEF Failed, Leave, SessionEnds, close_detached
    <2> QED BY <1>2, <2>1, AFacts
  <1>5. \/ run[c] = "failed" /\ slot' = [slot EXCEPT ![c] = "teardown"]
           /\ routes' = [routes EXCEPT ![key[c]] = IF @ = c THEN NoPc ELSE @]
        \/ run[c] = "session" /\ UNCHANGED <<slot, routes>>
    BY Zenon, <1>2 DEF Failed, Leave, EvictRoute
  <1>6. AnswererTypes'
    <2>1. run' \in [Calls -> Active \cup {"no", "over"}] BY <1>3 DEF AInv, AnswererTypes
    <2>2. slot' \in [Calls -> {"none", "held", "teardown"}] BY <1>5 DEF AInv, AnswererTypes
    <2>3. routes' \in [Keys -> Calls \cup {NoPc}] BY <1>2, <1>5 DEF AInv, AnswererTypes
    <2> QED BY <2>1, <2>2, <2>3 DEF AnswererTypes
  <1>7. Follows'
    BY Zenon, <1>2, <1>3, NoPcAssumption, AFacts DEF AInv, AnswererTypes, Follows, Active
  <1>8. Paid'
    <2> SUFFICES ASSUME NEW d \in Calls, call'[d] \in PaidFor PROVE slot'[d] = "held"
      BY Zenon DEF Paid
    <2>1. d # c /\ call'[d] = call[d] BY <1>3, AFacts DEF PaidFor
    <2>2. slot'[d] = slot[d] BY <1>5, <2>1 DEF AInv, AnswererTypes
    <2> QED BY Zenon, <2>1, <2>2 DEF AInv, Paid
  <1>9. Reached' BY <1>3 DEF AInv, AnswererTypes, Reached
  <1>10. SlotStandsForPc'
    <2> SUFFICES ASSUME NEW d \in Calls
                 PROVE  /\ run'[d] \in {"publish", "waiting", "connected", "failed"} => slot'[d] = "held"
                        /\ run'[d] = "over" /\ ~opened[has[d]] /\ close'[has[d]] # "done"
                             => slot'[d] = "teardown"
      BY <1>3 DEF SlotStandsForPc
    <2>1. CASE d = c BY <1>3, <1>5, <2>1 DEF AInv, AnswererTypes, Reached
    <2>2. CASE d # c
      <3>1. run'[d] = run[d] /\ slot'[d] = slot[d] BY <1>3, <1>5, <2>2 DEF AInv, AnswererTypes
      <3>2. run[d] = "over" => has[d] \in Calls BY AFacts
      <3> QED BY Zenon, <1>4, <3>1, <3>2 DEF AInv, SlotStandsForPc
    <2> QED BY <2>1, <2>2
  <1> QED BY <1>1, <1>6, <1>7, <1>8, <1>9, <1>10 DEF AInv

LEMMA TornDownInv == ASSUME AInv, NEW p \in Calls, TornDown(p) PROVE AInv'
  <1>1. SInv' BY Zenon, PcInv DEF TornDown, PcStep, AInv
  <1>2. /\ UNCHANGED <<call, has, opened, routes, run>>
        /\ close' = [close EXCEPT ![p] = "done"]
        /\ slot' = [c \in Calls |-> IF slot[c] = "teardown" /\ has[c] = p THEN "none" ELSE slot[c]]
    BY Zenon DEF TornDown, CloseReturns, callVars
  <1>3. AnswererTypes' /\ Follows' /\ Paid' /\ Reached'
    BY Zenon, <1>2 DEF AInv, AnswererTypes, Follows, Paid, Reached
  <1>4. SlotStandsForPc'
    <2> SUFFICES ASSUME NEW d \in Calls
                 PROVE  /\ run[d] \in {"publish", "waiting", "connected", "failed"} => slot'[d] = "held"
                        /\ run[d] = "over" /\ ~opened[has[d]] /\ close'[has[d]] # "done"
                             => slot'[d] = "teardown"
      BY Zenon, <1>2 DEF SlotStandsForPc
    <2>1. CASE run[d] \in {"publish", "waiting", "connected", "failed"}
      BY Zenon, <1>2, <2>1 DEF AInv, SlotStandsForPc
    <2>2. CASE run[d] = "over" /\ ~opened[has[d]] /\ close'[has[d]] # "done"
      <3>1. has[d] \in Calls BY <2>2, AFacts
      <3>2. has[d] # p /\ close'[has[d]] = close[has[d]] BY <1>2, <2>2, <3>1, AFacts
      <3> QED BY <1>2, <2>2, <3>2 DEF AInv, SlotStandsForPc
    <2> QED BY Zenon, <2>1, <2>2
  <1> QED BY <1>1, <1>3, <1>4 DEF AInv

LEMMA StepInv == AInv /\ [AnswererNext]_allVars => AInv'
  <1> SUFFICES ASSUME AInv, [AnswererNext]_allVars PROVE AInv' OBVIOUS
  <1>1. CASE UNCHANGED allVars
    <2>1. UNCHANGED vars BY <1>1 DEF allVars
    <2>2. UNCHANGED <<call, has, opened, close, slot, routes, run>>
      BY <1>1 DEF allVars, answererVars, vars, callVars, pcVars
    <2>3. SInv BY DEF AInv
    <2>4. SInv' BY <2>1, <2>3, StutterInv
    <2> QED BY <2>2, <2>4, AsideInv
  <1> QED BY <1>1, OfferInv, ObtainInv, AbandonedInv, SpawnInv, WaitInv, OverInv, TornDownInv,
             PcStepInv DEF AnswererNext

LEMMA Inductive == AnswererSpec => []AInv
  BY AInit, StepInv, PTL DEF AnswererSpec

-----------------------------------------------------------------------------
\* A connection that close_if_abandoned condemns has no owner, present or
\* future, whatever hits, adoptions and drops interleave (webrtc.rs).
THEOREM HandoffCondemned == AnswererSpec => []CondemnedIsUnwanted
  BY Inductive, PTL DEF AInv, SInv

\* However often an offer is repeated, one answerer reads its data channel.
THEOREM AnswererOneReader == AnswererSpec => []OneReader
  BY Inductive, PTL DEF AInv, SInv

\* A slot is not given back before the channel is open or torn down.
THEOREM AnswererSlots == AnswererSpec => []SlotStandsForPc
  BY Inductive, PTL DEF AInv

\* The clean-up of an answerer leaves the routes of the others.
THEOREM AnswererRoutes == AnswererSpec => RouteSurvives
  <1> DEFINE Kept == \A c \in Calls :
                       /\ run[c] = "waiting" /\ run'[c] = "waiting"
                       /\ routes[key[c]] = c
                       /\ routes'[key[c]] # c
                       => \E d \in Calls \ {c} : run[d] = "publish" /\ routes'[key[c]] = d
  <1>1. AInv /\ [AnswererNext]_allVars => [Kept]_allVars
    <2> SUFFICES ASSUME AInv, AnswererNext,
                        NEW c \in Calls, run[c] = "waiting", run'[c] = "waiting",
                        routes[key[c]] = c, routes'[key[c]] # c
                 PROVE  \E d \in Calls \ {c} : run[d] = "publish" /\ routes'[key[c]] = d
      OBVIOUS
    <2>1. key[c] \in Keys /\ DOMAIN routes = Keys BY DEF AInv, SInv, TypeOK, AnswererTypes
    <2>2. PICK d \in Calls : Publish(d) \/ Connected(d) \/ Failed(d)
      BY Zenon DEF AnswererNext, Offer, Obtain, Cancelled, Abandoned, SpawnOnce, wait_connected, Leave,
             TornDown, PcEvent, PcCloses, answererVars
    <2>3. CASE Publish(d) BY <2>1, <2>3 DEF Publish
    <2>4. CASE Connected(d) \/ Failed(d)
      <3>1. routes' = [routes EXCEPT ![key[d]] = IF @ = d THEN NoPc ELSE @] /\ d # c
        BY Zenon, <2>4 DEF Connected, Failed, EvictRoute
      <3> QED BY <2>1, <3>1
    <2> QED BY Zenon, <2>2, <2>3, <2>4
  <1> QED BY <1>1, Inductive, PTL DEF AnswererSpec, RouteSurvives
=============================================================================
