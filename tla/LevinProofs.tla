----------------------------- MODULE LevinProofs -----------------------------
(***************************************************************************)
(* Proofs about Levin, for any finite sets of calls, any queue limit and   *)
(* any number of requests of the peer.                                     *)
(*                                                                         *)
(* Shapes gives the variables their types but for the two counters.  RefInv*)
(* says what the counter of references counts: the calls between           *)
(* start_outer_call and finish_outer_call and the timers that are not off; *)
(* it gives NoUseAfterDestroy.  CbInv counts the callbacks of a call: one  *)
(* for its timer's end and one for an error.  StreamInv relates the end of *)
(* the send queue to the thread that holds m_send_lock.  AnswerInv ranks   *)
(* the calls in the order in which they took m_call_lock: requests, answers*)
(* and handlers all keep that order, so the first handler waits for the    *)
(* first answer.  It does so while m_call_lock keeps the calls apart, that *)
(* is until a call is made under a waiting invoke.                         *)
(***************************************************************************)
EXTENDS Levin, FiniteSetTheorems, TLAPS

Times   == {"none", "armed", "due", "closing", "off"}
Parts   == (Calls \X {"head", "body"}) \cup { <<Node, "packet">> }
Readers == [pc : {"read", "got", "off"}, msg : Closers \cup {Nobody}]

CallShapes ==
  /\ pc \in [Calls -> Labels] /\ got \in [Calls -> Calls \cup {Nobody}]
  /\ timer \in [Async -> Times] /\ handlers \in Seq(Async)
  /\ closer \in [Closers -> {"no", "empty", "busy", "done"}]
FlagShapes ==
  /\ bufReady \in BOOLEAN /\ writing \in BOOLEAN
  /\ shut \in BOOLEAN /\ releasing \in BOOLEAN /\ released \in BOOLEAN
  /\ wantClose \in BOOLEAN /\ closeCalled \in BOOLEAN /\ destroyed \in BOOLEAN
StreamShapes ==
  /\ invBuf \in Calls \cup {Nobody} /\ que \in Seq(Parts) /\ (writing => que # <<>>)
  /\ reader \in Readers
  /\ wire \in Seq(Calls) /\ inbox \in Seq(Closers) /\ incoming \in Nat
UnderShapes == under \in [Calls -> Sync \cup {Nobody}]
Shapes == CallShapes /\ FlagShapes /\ StreamShapes /\ UnderShapes

-----------------------------------------------------------------------------
(***************************************************************************)
(* Types.                                                                  *)
(***************************************************************************)
LEMMA Kinds ==
  /\ Async \in SUBSET Calls /\ Sync \in SUBSET Calls /\ Notify \in SUBSET Calls
  /\ Calls \in SUBSET Closers /\ Node \in Closers /\ Node \notin Calls
  /\ \A c \in Calls : c \in Async \/ c \in Sync \/ c \in Notify
BY CallsAssumption DEF Calls, Closers

\* The head and the rest of a queue.
LEMMA QueueFacts ==
  ASSUME NEW S, NEW s \in Seq(S), s # <<>>
  PROVE  /\ Head(s) \in S /\ Tail(s) \in Seq(S) /\ Len(Tail(s)) = Len(s) - 1 /\ Head(s) = s[1]
         /\ \A i \in 1..(Len(s) - 1) : Tail(s)[i] = s[i + 1]
         /\ Len(s) \in Nat \ {0}
OBVIOUS

\* Whom release_protocol cancels.
LEMMA ReleaseFacts ==
  ASSUME CallShapes, ReleaseProtocol
  PROVE  /\ timer' \in [Async -> Times] /\ handlers' = <<>> /\ released'
         /\ Armed \in SUBSET { c \in Async : timer[c] = "armed" }
         /\ \A c \in Async : timer'[c] = IF c \in Armed THEN "off" ELSE timer[c]
         /\ \A c \in Async : cb'[c] = IF c \in Armed THEN cb[c] + 1 ELSE cb[c]
         /\ cb' = [c \in Async |-> cb'[c]]
         /\ refs' = refs - Cardinality(Armed)
<1>1. timer \in [Async -> Times] /\ handlers \in Seq(Async)
  BY DEF CallShapes
<1>2. Range(handlers) \in SUBSET Async
  BY <1>1 DEF Range
<1>3. Armed \in SUBSET { c \in Async : timer[c] = "armed" }
  BY <1>2 DEF Armed
<1>4. timer' \in [Async -> Times] /\ \A c \in Async : timer'[c] = IF c \in Armed THEN "off" ELSE timer[c]
  BY <1>1, <1>2 DEF ReleaseProtocol, Armed, Times
<1> QED BY <1>3, <1>4 DEF ReleaseProtocol

LEMMA CallTypes ==
  ASSUME Shapes, [Next]_vars
  PROVE  CallShapes'
<1>0. CallShapes
  BY DEF Shapes
<1>1. CASE UNCHANGED << pc, got, timer, handlers, closer >>
  BY <1>0, <1>1 DEF CallShapes
<1>2. ASSUME NEW c \in Calls, NEW l \in Labels, Goto(c, l), UNCHANGED << got, timer, handlers, closer >>
      PROVE  CallShapes'
  BY <1>0, <1>2 DEF CallShapes, Goto
<1>3. ASSUME NEW c \in Calls, FindAndLock(c) \/ Enter(c) \/ SendHead(c) \/ SendBody(c) \/ SendOverflowed(c)
      PROVE  CallShapes'
  BY <1>2, <1>3 DEF FindAndLock, Enter, SendHead, SendBody, SendOverflowed, Failed, Labels, closeVars, timerVars
<1>4. ASSUME NEW c \in Async, AddHandler(c) PROVE CallShapes'
  <2>1. c \in Calls /\ handlers' \in Seq(Async) /\ timer' \in [Async -> Times]
    <3>1. handlers' \in {handlers, Append(handlers, c)} /\ timer' \in {timer, [timer EXCEPT ![c] = "armed"]}
      BY <1>4 DEF AddHandler
    <3>2. handlers \in Seq(Async) /\ timer \in [Async -> Times] /\ "armed" \in Times
      BY <1>0 DEF CallShapes, Times
    <3>3. handlers' \in Seq(Async)
      BY <3>1, <3>2
    <3>4. timer' \in [Async -> Times]
      BY <3>1, <3>2
    <3> QED BY <3>3, <3>4, Kinds
  <2>2. pc' \in [Calls -> Labels] /\ UNCHANGED << got, closer >>
    BY <1>0, <1>4, <2>1 DEF AddHandler, CallShapes, Goto, Labels, closeVars
  <2> QED BY <1>0, <2>1, <2>2 DEF CallShapes
<1>5. ASSUME NEW c \in Calls, SendOverflow(c) PROVE CallShapes'
  <2>1. ReleaseProtocol
    BY <1>5 DEF SendOverflow, Overflow
  <2>2. timer' \in [Async -> Times] /\ handlers' = <<>>
    BY <1>0, <2>1, ReleaseFacts
  <2>3. pc' \in [Calls -> Labels] /\ UNCHANGED << got, closer >>
    BY <1>0, <1>5 DEF SendOverflow, CallShapes, Goto, Labels
  <2> QED BY <1>0, <2>2, <2>3 DEF CallShapes
<1>6. ASSUME NEW c \in Async, ReportError(c) PROVE CallShapes'
  BY <1>2, <1>6, Kinds DEF ReportError, closeVars, Labels
<1>7. ASSUME NEW c \in Sync, InvokeReturns(c) PROVE CallShapes'
  <2>1. c \in Calls /\ invBuf \in Calls \cup {Nobody}
    BY Kinds DEF Shapes, StreamShapes
  <2> QED BY <1>0, <1>7, <2>1 DEF InvokeReturns, CallShapes, Goto, Labels, closeVars
<1>8. ASSUME NEW c \in Sync, InvokeTimeout(c) PROVE CallShapes'
  BY <1>0, <1>8, Kinds DEF InvokeTimeout, ReadQueSize, CallShapes, Goto, Labels, timerVars
<1>9. ASSUME NEW c \in Async, TimerExpires(c) \/ TimerRuns(c) PROVE CallShapes'
  <2>1. timer' \in [Async -> Times] /\ UNCHANGED << pc, got, handlers >>
    BY <1>0, <1>9 DEF TimerExpires, TimerRuns, CallShapes, Times, callVars
  <2>2. closer' \in [Closers -> {"no", "empty", "busy", "done"}]
    BY <1>0, <1>9 DEF TimerExpires, TimerRuns, ReadQueSize, CallShapes, closeVars
  <2> QED BY <1>0, <2>1, <2>2 DEF CallShapes
<1>10. CASE NodeCloses
  BY <1>0, <1>10, Kinds DEF NodeCloses, ReadQueSize, CallShapes, callVars, timerVars
<1>11. ASSUME NEW x \in Closers, CloseEnds(x) PROVE CallShapes'
  BY <1>0, <1>11, Kinds DEF CloseEnds, CallShapes, Goto, Labels, Times
<1>12. CASE Release \/ HandleRequestOverflow
  <2>1. ReleaseProtocol /\ UNCHANGED << pc, got, closer >>
    BY <1>12 DEF Release, HandleRequestOverflow, Overflow, callVars
  <2>2. timer' \in [Async -> Times] /\ handlers' = <<>>
    BY <1>0, <2>1, ReleaseFacts
  <2> QED BY <1>0, <2>1, <2>2 DEF CallShapes
<1>13. CASE HandleResponse
  <2>1. handlers # <<>> /\ reader.msg \in Calls
    BY <1>13 DEF HandleResponse
  <2>2. Head(handlers) \in Async /\ Head(handlers) \in Calls /\ Tail(handlers) \in Seq(Async)
    BY <1>0, <2>1, QueueFacts, Kinds DEF CallShapes
  <2> QED BY <1>0, <1>13, <2>1, <2>2 DEF HandleResponse, CallShapes, Times, closeVars, timerVars
<1>14. CASE Destroy
  <2>1. UNCHANGED << pc, got, closer >> /\ (UNCHANGED << timer, handlers >> \/ ReleaseProtocol)
    BY <1>14 DEF Destroy, callVars, timerVars
  <2>2. timer' \in [Async -> Times] /\ handlers' \in Seq(Async)
    <3>1. CASE UNCHANGED << timer, handlers >>
      BY <1>0, <3>1 DEF CallShapes
    <3>2. CASE ReleaseProtocol
      BY <1>0, <3>2, ReleaseFacts
    <3> QED BY <2>1, <3>1, <3>2
  <2> QED BY <1>0, <2>1, <2>2 DEF CallShapes
<1>15. CASE Write \/ HandleRecv \/ HandleSyncResponse \/ HandleRequest \/ ReadError \/ ReadEof
            \/ PeerAnswers \/ PeerInvokes \/ UNCHANGED vars
  BY <1>1, <1>15 DEF Write, HandleWrite, HandleWriteError, HandleRecv, HandleSyncResponse, HandleRequest,
       ReadError, ReadEof, PeerAnswers, PeerInvokes, vars, callVars, timerVars, closeVars
<1> QED BY <1>3, <1>4, <1>5, <1>6, <1>7, <1>8, <1>9, <1>10, <1>11, <1>12, <1>13, <1>14, <1>15
        DEF Next, CallStep, Read

LEMMA FlagTypes ==
  ASSUME Shapes, [Next]_vars
  PROVE  FlagShapes'
<1>0. FlagShapes
  BY DEF Shapes
<1>1. CASE UNCHANGED << bufReady, writing, closeVars, destroyed >>
  BY <1>0, <1>1 DEF FlagShapes, closeVars
<1>2. ASSUME NEW c \in Calls, FindAndLock(c) \/ SendOverflowed(c) PROVE FlagShapes'
  BY <1>1, <1>2 DEF FindAndLock, SendOverflowed, sendVars
<1>3. ASSUME NEW c \in Calls, Enter(c) PROVE FlagShapes'
  BY <1>0, <1>3 DEF Enter, FlagShapes, sendVars, closeVars
<1>4. ASSUME NEW c \in Calls, SendHead(c) \/ SendBody(c) PROVE FlagShapes'
  <2>1. writing' \in BOOLEAN
    BY <1>0, <1>4 DEF SendHead, SendBody, Enqueue, FlagShapes, sendVars
  <2> QED BY <1>0, <1>4, <2>1 DEF SendHead, SendBody, FlagShapes, closeVars
<1>5. ASSUME NEW c \in Async, AddHandler(c) \/ ReportError(c) \/ TimerExpires(c) PROVE FlagShapes'
  BY <1>1, <1>5 DEF AddHandler, ReportError, TimerExpires, sendVars, callVars
<1>6. ASSUME NEW c \in Calls, SendOverflow(c) PROVE FlagShapes'
  BY <1>0, <1>6 DEF SendOverflow, Overflow, ReleaseProtocol, FlagShapes, sendVars
<1>7. ASSUME NEW c \in Sync, InvokeReturns(c) PROVE FlagShapes'
  BY <1>1, <1>7 DEF InvokeReturns, sendVars
<1>8. ASSUME NEW c \in Sync, InvokeTimeout(c) PROVE FlagShapes'
  BY <1>0, <1>8 DEF InvokeTimeout, FlagShapes, sendVars
<1>9. ASSUME NEW c \in Async, TimerRuns(c) PROVE FlagShapes'
  BY <1>0, <1>9 DEF TimerRuns, FlagShapes, sendVars, callVars
<1>10. CASE NodeCloses
  BY <1>0, <1>10 DEF NodeCloses, FlagShapes, sendVars, callVars
<1>11. ASSUME NEW x \in Closers, CloseEnds(x) PROVE FlagShapes'
  <2>1. shut' \in BOOLEAN /\ releasing' \in BOOLEAN
    BY <1>0, <1>11 DEF CloseEnds, Shutdown, FlagShapes
  <2> QED BY <1>0, <1>11, <2>1 DEF CloseEnds, FlagShapes, sendVars
<1>12. CASE Release
  BY <1>0, <1>12 DEF Release, ReleaseProtocol, FlagShapes, sendVars, callVars
<1>13. CASE HandleRequestOverflow
  BY <1>0, <1>13 DEF HandleRequestOverflow, Overflow, ReleaseProtocol, FlagShapes, sendVars, callVars
<1>14. CASE HandleWrite
  <2>1. shut' \in BOOLEAN /\ releasing' \in BOOLEAN
    BY <1>0, <1>14 DEF HandleWrite, Shutdown, FlagShapes
  <2> QED BY <1>0, <1>14, <2>1 DEF HandleWrite, FlagShapes, callVars
<1>15. CASE HandleWriteError \/ ReadError
  BY <1>0, <1>15 DEF HandleWriteError, ReadError, Shutdown, FlagShapes, callVars, sendVars
<1>16. CASE HandleRecv \/ HandleSyncResponse \/ HandleRequest
  <2>1. shut' \in BOOLEAN /\ releasing' \in BOOLEAN /\ wantClose' \in BOOLEAN
    BY <1>0, <1>16 DEF HandleRecv, HandleSyncResponse, HandleRequest, WantClose, Shutdown, FlagShapes
  <2>2. bufReady' \in BOOLEAN /\ writing' \in BOOLEAN
    BY <1>0, <1>16 DEF HandleRecv, HandleSyncResponse, HandleRequest, Enqueue, FlagShapes, callVars, sendVars
  <2> QED BY <1>0, <1>16, <2>1, <2>2 DEF HandleRecv, HandleSyncResponse, HandleRequest, FlagShapes
<1>17. CASE Destroy
  <2>1. released' \in BOOLEAN
    BY <1>0, <1>17 DEF Destroy, ReleaseProtocol, FlagShapes
  <2> QED BY <1>0, <1>17, <2>1 DEF Destroy, FlagShapes, callVars, sendVars
<1>18. CASE HandleResponse \/ ReadEof \/ PeerAnswers \/ PeerInvokes \/ UNCHANGED vars
  BY <1>1, <1>18 DEF HandleResponse, ReadEof, PeerAnswers, PeerInvokes, vars, callVars, sendVars
<1> QED BY <1>2, <1>3, <1>4, <1>5, <1>6, <1>7, <1>8, <1>9, <1>10, <1>11, <1>12, <1>13, <1>14, <1>15,
           <1>16, <1>17, <1>18 DEF Next, CallStep, Read, Write

LEMMA StreamTypes ==
  ASSUME Shapes, [Next]_vars
  PROVE  StreamShapes'
<1>0. StreamShapes /\ writing \in BOOLEAN
  BY DEF Shapes, FlagShapes
<1>1. CASE UNCHANGED << invBuf, sendVars, reader, peerVars >>
  BY <1>0, <1>1 DEF StreamShapes, sendVars, peerVars
<1>2. ASSUME NEW c \in Calls, FindAndLock(c) \/ SendOverflowed(c) \/ Enter(c) \/ SendOverflow(c)
      PROVE  StreamShapes'
  BY <1>1, <1>2 DEF FindAndLock, SendOverflowed, Enter, SendOverflow
<1>3. ASSUME NEW p \in Parts, Enqueue(p)
      PROVE  que' \in Seq(Parts) /\ que' # <<>>
  BY <1>0, <1>3 DEF Enqueue, StreamShapes
<1>4. ASSUME NEW c \in Calls, SendHead(c) \/ SendBody(c) PROVE StreamShapes'
  <2>1. <<c, "head">> \in Parts /\ <<c, "body">> \in Parts
    BY Kinds DEF Parts
  <2>2. que' \in Seq(Parts) /\ (writing' => que' # <<>>)
    BY <1>0, <1>3, <1>4, <2>1 DEF SendHead, SendBody, StreamShapes, sendVars
  <2> QED BY <1>0, <1>4, <2>2 DEF SendHead, SendBody, StreamShapes, peerVars
<1>5. ASSUME NEW c \in Async, AddHandler(c) \/ ReportError(c) \/ TimerExpires(c) \/ TimerRuns(c)
      PROVE  StreamShapes'
  BY <1>1, <1>5 DEF AddHandler, ReportError, TimerExpires, TimerRuns, callVars
<1>6. ASSUME NEW c \in Sync, InvokeReturns(c) \/ InvokeTimeout(c) PROVE StreamShapes'
  BY <1>0, <1>6 DEF InvokeReturns, InvokeTimeout, StreamShapes, sendVars, peerVars
<1>7. ASSUME NEW x \in Closers, CloseEnds(x) PROVE StreamShapes'
  BY <1>1, <1>7 DEF CloseEnds
<1>8. CASE NodeCloses \/ Release \/ Destroy \/ UNCHANGED vars
  BY <1>1, <1>8 DEF NodeCloses, Release, Destroy, vars, callVars
<1>9. Reading \in Readers /\ NotReading \in Readers
  BY DEF Reading, NotReading, Readers
<1>10. CASE HandleRequestOverflow \/ ReadError \/ ReadEof
  BY <1>0, <1>9, <1>10 DEF HandleRequestOverflow, ReadError, ReadEof, StreamShapes, callVars, sendVars, peerVars
<1>11. CASE HandleWrite
  <2>1. que \in Seq(Parts) /\ que # <<>>
    BY <1>0, <1>11 DEF HandleWrite, StreamShapes
  <2>2. /\ Head(que) \in Parts /\ Tail(que) \in Seq(Parts) /\ Len(Tail(que)) = Len(que) - 1
        /\ Len(que) \in Nat
    BY <2>1, QueueFacts
  <2>3. que' \in Seq(Parts) /\ (writing' => que' # <<>>)
    <3>1. que' = Tail(que) /\ (writing' => Len(que) > 1)
      BY <1>11 DEF HandleWrite
    <3>2. Len(<<>>) = 0
      OBVIOUS
    <3>3. writing' => Len(que') # 0
      BY <2>2, <3>1
    <3> QED BY <2>2, <3>1, <3>2, <3>3
  <2>4. Head(que)[2] = "body" => Head(que)[1] \in Calls
    BY <2>2 DEF Parts
  <2>5. wire' \in Seq(Calls)
    BY <1>0, <1>11, <2>4 DEF HandleWrite, StreamShapes
  <2> QED BY <1>0, <1>11, <2>3, <2>5 DEF HandleWrite, StreamShapes, callVars
<1>12. CASE HandleWriteError
  BY <1>0, <1>12 DEF HandleWriteError, StreamShapes, callVars, peerVars
<1>13. CASE HandleRecv
  <2>1. Head(inbox) \in Closers /\ Tail(inbox) \in Seq(Closers)
    BY <1>0, <1>13, QueueFacts DEF HandleRecv, StreamShapes
  <2>2. reader' \in Readers
    BY <1>9, <1>13, <2>1 DEF HandleRecv, WantClose, Readers
  <2> QED BY <1>0, <1>13, <2>1, <2>2 DEF HandleRecv, StreamShapes, callVars, sendVars
<1>14. CASE HandleResponse
  BY <1>0, <1>9, <1>14 DEF HandleResponse, StreamShapes, sendVars, peerVars
<1>15. CASE HandleSyncResponse
  BY <1>0, <1>9, <1>15 DEF HandleSyncResponse, WantClose, StreamShapes, sendVars, peerVars
<1>16. CASE HandleRequest
  <2>1. <<Node, "packet">> \in Parts
    BY Kinds DEF Parts
  <2>2. que' \in Seq(Parts) /\ (writing' => que' # <<>>) /\ reader' \in Readers
    BY <1>0, <1>3, <1>9, <1>16, <2>1 DEF HandleRequest, WantClose, StreamShapes, sendVars
  <2> QED BY <1>0, <1>16, <2>2 DEF HandleRequest, StreamShapes, callVars, peerVars
<1>17. CASE PeerAnswers
  <2>1. Head(wire) \in Closers /\ Tail(wire) \in Seq(Calls)
    BY <1>0, <1>17, QueueFacts, Kinds DEF PeerAnswers, StreamShapes
  <2> QED BY <1>0, <1>17, <2>1 DEF PeerAnswers, StreamShapes, callVars, sendVars
<1>18. CASE PeerInvokes
  BY <1>0, <1>18, Kinds DEF PeerInvokes, StreamShapes, callVars, sendVars
<1> QED BY <1>2, <1>4, <1>5, <1>6, <1>7, <1>8, <1>10, <1>11, <1>12, <1>13, <1>14, <1>15,
           <1>16, <1>17, <1>18 DEF Next, CallStep, Read, Write

\* Who calls under whom is settled when the call is made.
LEMMA UnderStep ==
  ASSUME [Next]_vars
  PROVE  under' = under \/ \E c \in Calls : FindAndLock(c)
<1>1. ASSUME NEW c \in Calls, Enter(c) \/ SendHead(c) \/ SendBody(c) \/ SendOverflow(c) \/ SendOverflowed(c)
      PROVE  under' = under
  BY <1>1 DEF Enter, SendHead, SendBody, SendOverflow, SendOverflowed
<1>2. ASSUME NEW c \in Async, AddHandler(c) \/ ReportError(c) \/ TimerExpires(c) \/ TimerRuns(c)
      PROVE  under' = under
  BY <1>2 DEF AddHandler, ReportError, TimerExpires, TimerRuns, callVars
<1>3. ASSUME NEW c \in Sync, InvokeReturns(c) \/ InvokeTimeout(c) PROVE under' = under
  BY <1>3 DEF InvokeReturns, InvokeTimeout
<1>4. ASSUME NEW x \in Closers, CloseEnds(x) PROVE under' = under
  BY <1>4 DEF CloseEnds
<1>5. CASE NodeCloses \/ Release \/ Write \/ HandleRecv \/ Read \/ ReadError \/ ReadEof \/ Destroy
           \/ PeerAnswers \/ PeerInvokes \/ UNCHANGED vars
  BY <1>5 DEF NodeCloses, Release, Write, HandleWrite, HandleWriteError, HandleRecv, Read, HandleResponse,
       HandleSyncResponse, HandleRequest, HandleRequestOverflow, ReadError, ReadEof, Destroy,
       PeerAnswers, PeerInvokes, vars, callVars
<1> QED BY <1>1, <1>2, <1>3, <1>4, <1>5 DEF Next, CallStep

LEMMA UnderTypes ==
  ASSUME Shapes, [Next]_vars
  PROVE  UnderShapes'
<1>1. under \in [Calls -> Sync \cup {Nobody}]
  BY DEF Shapes, UnderShapes
<1>2. ASSUME NEW c \in Calls, FindAndLock(c) PROVE UnderShapes'
  <2>1. PICK s \in Runners \cup {Nobody} : under' = [under EXCEPT ![c] = s]
    BY <1>2 DEF FindAndLock
  <2>2. s \in Sync \cup {Nobody}
    BY DEF Runners
  <2> QED BY <1>1, <2>1, <2>2 DEF UnderShapes
<1> QED BY <1>1, <1>2, UnderStep DEF UnderShapes

LEMMA ShapesInit == Init => Shapes
<1> SUFFICES ASSUME Init PROVE Shapes
  OBVIOUS
<1>1. CallShapes
  BY DEF Init, CallShapes, Labels, Times
<1>2. FlagShapes
  BY DEF Init, FlagShapes
<1>3. Reading \in Readers
  BY DEF Reading, Readers
<1>4. StreamShapes
  BY <1>3 DEF Init, StreamShapes
<1>5. UnderShapes
  BY DEF Init, UnderShapes
<1> QED BY <1>1, <1>2, <1>4, <1>5 DEF Shapes

LEMMA ShapesStep ==
  ASSUME Shapes, [Next]_vars
  PROVE  Shapes'
BY CallTypes, FlagTypes, StreamTypes, UnderTypes DEF Shapes

-----------------------------------------------------------------------------
(***************************************************************************)
(* References.                                                             *)
(***************************************************************************)
Holding == {"ref", "head", "add", "body", "overflow", "err", "wait", "closing"}
Before  == {"idle", "refused", "ref", "head", "add"}
Held    == { c \in Calls : pc[c] \in Holding }
Running == {"armed", "due", "closing"}
Timed   == { c \in Async : timer[c] \in Running }

\* The counter counts, a handler's timer starts after its call has passed "add", and
\* whoever is inside close() does so as its call or as its timer.
CountInv == refs = Cardinality(Held) + Cardinality(Timed)
PlaceInv ==
  /\ \A c \in Async : pc[c] \in Before => timer[c] = "none"
  /\ \A c \in Async : closer[c] \in {"empty", "busy"} => timer[c] = "closing"
  /\ \A c \in Sync : closer[c] \in {"empty", "busy"} => pc[c] = "closing"
  /\ \A c \in Notify : closer[c] = "no"
  /\ destroyed => Held = {} /\ Timed = {} /\ closer[Node] \in {"no", "done"}
RefInv == CountInv /\ PlaceInv

LEMMA FiniteHolders ==
  /\ IsFiniteSet(Held) /\ IsFiniteSet(Timed) /\ Cardinality(Held) \in Nat /\ Cardinality(Timed) \in Nat
<1>1. IsFiniteSet(Calls) /\ Held \in SUBSET Calls /\ Timed \in SUBSET Calls
  BY CallsAssumption, Kinds DEF Held, Timed
<1>2. IsFiniteSet(Held) /\ IsFiniteSet(Timed)
  BY <1>1, FS_Subset
<1> QED BY <1>2, FS_CardinalityType

\* A call moves.
LEMMA MoveCount ==
  ASSUME CallShapes, NEW c \in Calls, NEW l \in Labels, Goto(c, l)
  PROVE  /\ Held' = (IF l \in Holding THEN Held \cup {c} ELSE Held \ {c})
         /\ Cardinality(Held') = (IF l \in Holding
                THEN IF pc[c] \in Holding THEN Cardinality(Held) ELSE Cardinality(Held) + 1
                ELSE IF pc[c] \in Holding THEN Cardinality(Held) - 1 ELSE Cardinality(Held))
<1>1. pc \in [Calls -> Labels] /\ pc' = [pc EXCEPT ![c] = l]
  BY DEF CallShapes, Goto
<1>2. Held' = (IF l \in Holding THEN Held \cup {c} ELSE Held \ {c})
  BY <1>1 DEF Held
<1>3. c \in Held <=> pc[c] \in Holding
  BY DEF Held
<1>4. /\ Cardinality(Held \cup {c}) = (IF c \in Held THEN Cardinality(Held) ELSE Cardinality(Held) + 1)
      /\ Cardinality(Held \ {c}) = (IF c \in Held THEN Cardinality(Held) - 1 ELSE Cardinality(Held))
  BY FiniteHolders, FS_AddElement, FS_RemoveElement
<1> QED BY <1>2, <1>3, <1>4

\* A timer moves.
LEMMA TimerCount ==
  ASSUME CallShapes, NEW c \in Async, NEW l \in Times, timer' = [timer EXCEPT ![c] = l]
  PROVE  /\ Timed' = (IF l \in Running THEN Timed \cup {c} ELSE Timed \ {c})
         /\ Cardinality(Timed') = (IF l \in Running
                THEN IF timer[c] \in Running THEN Cardinality(Timed) ELSE Cardinality(Timed) + 1
                ELSE IF timer[c] \in Running THEN Cardinality(Timed) - 1 ELSE Cardinality(Timed))
<1>1. timer \in [Async -> Times]
  BY DEF CallShapes
<1>2. Timed' = (IF l \in Running THEN Timed \cup {c} ELSE Timed \ {c})
  BY <1>1 DEF Timed
<1>3. c \in Timed <=> timer[c] \in Running
  BY DEF Timed
<1>4. /\ Cardinality(Timed \cup {c}) = (IF c \in Timed THEN Cardinality(Timed) ELSE Cardinality(Timed) + 1)
      /\ Cardinality(Timed \ {c}) = (IF c \in Timed THEN Cardinality(Timed) - 1 ELSE Cardinality(Timed))
  BY FiniteHolders, FS_AddElement, FS_RemoveElement
<1> QED BY <1>2, <1>3, <1>4

\* The timers that release_protocol cancels are no longer counted.
LEMMA ReleaseCount ==
  ASSUME CallShapes, ReleaseProtocol
  PROVE  /\ Timed' \in SUBSET Timed /\ Armed \in SUBSET Timed
         /\ Cardinality(Timed') = Cardinality(Timed) - Cardinality(Armed)
         /\ refs' = refs - Cardinality(Armed) /\ Cardinality(Armed) \in Nat
<1>1. /\ Armed \in SUBSET { c \in Async : timer[c] = "armed" }
      /\ \A c \in Async : timer'[c] = IF c \in Armed THEN "off" ELSE timer[c]
      /\ refs' = refs - Cardinality(Armed)
  BY ReleaseFacts
<1>2. Armed \in SUBSET Timed /\ Timed' = Timed \ Armed
  BY <1>1 DEF Timed, Running
<1>3. Timed \cap Armed = Armed /\ IsFiniteSet(Armed) /\ Cardinality(Armed) \in Nat
  BY <1>2, FiniteHolders, FS_Subset, FS_CardinalityType
<1>4. Cardinality(Timed \ Armed) = Cardinality(Timed) - Cardinality(Timed \cap Armed)
  BY FiniteHolders, FS_Difference
<1> QED BY <1>1, <1>2, <1>3, <1>4

LEMMA CountStep ==
  ASSUME Shapes, CountInv, PlaceInv, [Next]_vars
  PROVE  CountInv'
<1>0. CallShapes /\ Cardinality(Held) \in Nat /\ Cardinality(Timed) \in Nat
  BY FiniteHolders DEF Shapes
<1>1. CASE UNCHANGED << pc, timer, refs >>
  BY <1>1 DEF CountInv, Held, Timed
<1>2. ASSUME NEW c \in Calls, NEW l \in Labels, Goto(c, l), timer' = timer, pc[c] \in Holding,
             refs' = IF l \in Holding THEN refs ELSE refs - 1
      PROVE  CountInv'
  <2>1. Timed' = Timed
    BY <1>2 DEF Timed
  <2> QED BY <1>0, <1>2, <2>1, MoveCount DEF CountInv
<1>3. ASSUME NEW c \in Async, NEW l \in Times, timer' = [timer EXCEPT ![c] = l], pc' = pc,
             timer[c] \in Running,
             refs' = IF l = "off" THEN refs - 1 ELSE refs, l \in {"due", "closing", "off"}
      PROVE  CountInv'
  <2>1. Held' = Held
    BY <1>3 DEF Held
  <2>2. Cardinality(Timed') = IF l = "off" THEN Cardinality(Timed) - 1 ELSE Cardinality(Timed)
    BY <1>0, <1>3, TimerCount DEF Running
  <2> QED BY <1>0, <1>3, <2>1, <2>2 DEF CountInv
<1>4. ASSUME NEW c \in Calls, FindAndLock(c) PROVE CountInv'
  <2>1. Timed' = Timed /\ pc[c] = "idle"
    BY <1>4 DEF FindAndLock, Timed
  <2>2. CASE shut
    BY <1>0, <1>4, <2>1, <2>2, MoveCount DEF FindAndLock, Labels, Holding, CountInv
  <2>3. CASE ~shut
    BY <1>0, <1>4, <2>1, <2>3, MoveCount DEF FindAndLock, Labels, Holding, CountInv
  <2> QED BY <2>2, <2>3
<1>5. ASSUME NEW c \in Calls, Enter(c) PROVE CountInv'
  BY <1>2, <1>5 DEF Enter, timerVars, Labels, Holding
<1>6. ASSUME NEW c \in Calls, SendHead(c) \/ SendBody(c) \/ SendOverflowed(c) PROVE CountInv'
  <2>1. timer' = timer /\ pc[c] \in Holding
    BY <1>6 DEF SendHead, SendBody, SendOverflowed, timerVars, Holding
  <2>2. \E l \in Labels : Goto(c, l) /\ refs' = IF l \in Holding THEN refs ELSE refs - 1
    <3>1. CASE SendHead(c)
      BY <3>1 DEF SendHead, Failed, LeftBy, timerVars, Holding, Labels
    <3>2. CASE SendBody(c)
      BY <3>2 DEF SendBody, Failed, LeftBy, timerVars, Holding, Labels
    <3>3. CASE SendOverflowed(c)
      BY <3>3 DEF SendOverflowed, Failed, LeftBy, Holding, Labels
    <3> QED BY <1>6, <3>1, <3>2, <3>3
  <2> QED BY <1>2, <2>1, <2>2
<1>7. ASSUME NEW c \in Async, AddHandler(c) PROVE CountInv'
  <2>1. c \in Calls /\ pc[c] = "add" /\ timer[c] = "none"
    BY <1>7, Kinds DEF AddHandler, PlaceInv, Before
  <2>2. CASE released \/ shut
    <3>1. Goto(c, "err") /\ UNCHANGED << timer, refs >>
      BY <1>7, <2>2 DEF AddHandler
    <3> QED BY <1>2, <2>1, <3>1 DEF Labels, Holding
  <2>3. CASE ~released /\ ~shut
    <3>1. Goto(c, "body") /\ timer' = [timer EXCEPT ![c] = "armed"] /\ refs' = refs + 1
      BY <1>7, <2>3 DEF AddHandler
    <3>2. Cardinality(Held') = Cardinality(Held)
      BY <1>0, <2>1, <3>1, MoveCount DEF Labels, Holding
    <3>3. Cardinality(Timed') = Cardinality(Timed) + 1
      BY <1>0, <2>1, <3>1, TimerCount DEF Times, Running
    <3> QED BY <1>0, <3>1, <3>2, <3>3 DEF CountInv
  <2> QED BY <2>2, <2>3
<1>8. ASSUME NEW c \in Calls, SendOverflow(c) PROVE CountInv'
  <2>1. Goto(c, "overflow") /\ pc[c] \in Holding /\ ReleaseProtocol
    BY <1>8 DEF SendOverflow, Overflow, Holding
  <2>2. Cardinality(Held') = Cardinality(Held)
    BY <1>0, <2>1, MoveCount DEF Labels, Holding
  <2> QED BY <1>0, <2>1, <2>2, ReleaseCount DEF CountInv
<1>9. ASSUME NEW c \in Async, ReportError(c) PROVE CountInv'
  BY <1>2, <1>9, Kinds DEF ReportError, Labels, Holding
<1>10. ASSUME NEW c \in Sync, InvokeReturns(c) PROVE CountInv'
  BY <1>2, <1>10, Kinds DEF InvokeReturns, Labels, Holding
<1>11. ASSUME NEW c \in Sync, InvokeTimeout(c) PROVE CountInv'
  BY <1>2, <1>11, Kinds DEF InvokeTimeout, timerVars, Labels, Holding
<1>12. ASSUME NEW c \in Async, TimerExpires(c) \/ TimerRuns(c) PROVE CountInv'
  BY <1>3, <1>12 DEF TimerExpires, TimerRuns, callVars, Times, Running
<1>13. ASSUME NEW x \in Closers, CloseEnds(x) PROVE CountInv'
  <2>1. CASE x = Node
    BY <1>1, <1>13, <2>1, Kinds DEF CloseEnds
  <2>2. CASE x \in Sync
    <3>1. Goto(x, "failed") /\ refs' = refs - 1 /\ timer' = timer /\ pc[x] = "closing"
      BY <1>13, <2>2, CallsAssumption DEF CloseEnds, PlaceInv, Calls, Closers
    <3> QED BY <1>2, <2>2, <3>1, Kinds DEF Labels, Holding
  <2>3. CASE x \in Async
    <3>1. timer' = [timer EXCEPT ![x] = "off"] /\ refs' = refs - 1 /\ pc' = pc /\ timer[x] = "closing"
      BY <1>13, <2>3, CallsAssumption DEF CloseEnds, PlaceInv, Calls, Closers
    <3> QED BY <1>3, <2>3, <3>1 DEF Times, Running
  <2> QED BY <1>13, <2>1, <2>2, <2>3 DEF CloseEnds
<1>14. CASE pc' = pc /\ ReleaseProtocol
  <2>1. Held' = Held
    BY <1>14 DEF Held
  <2> QED BY <1>0, <1>14, <2>1, ReleaseCount DEF CountInv
<1>15. CASE Release \/ HandleRequestOverflow \/ Destroy
  BY <1>1, <1>14, <1>15 DEF Release, HandleRequestOverflow, Overflow, Destroy, callVars, timerVars
<1>16. CASE HandleResponse
  <2>1. handlers # <<>>
    BY <1>16 DEF HandleResponse
  <2>2. Head(handlers) \in Async
    BY <1>0, <2>1, QueueFacts DEF CallShapes
  <2> QED BY <1>1, <1>3, <1>16, <2>2 DEF HandleResponse, timerVars, Times, Running
<1>17. CASE NodeCloses \/ Write \/ HandleRecv \/ HandleSyncResponse \/ HandleRequest \/ ReadError \/ ReadEof
            \/ PeerAnswers \/ PeerInvokes \/ UNCHANGED vars
  BY <1>1, <1>17 DEF NodeCloses, Write, HandleWrite, HandleWriteError, HandleRecv, HandleSyncResponse,
       HandleRequest, ReadError, ReadEof, PeerAnswers, PeerInvokes, vars, callVars, timerVars
<1> QED BY <1>4, <1>5, <1>6, <1>7, <1>8, <1>9, <1>10, <1>11, <1>12, <1>13, <1>15, <1>16, <1>17
        DEF Next, CallStep, Read

LEMMA PlaceStep ==
  ASSUME Shapes, CountInv, PlaceInv, [Next]_vars
  PROVE  PlaceInv'
<1>0. /\ CallShapes /\ pc \in [Calls -> Labels] /\ timer \in [Async -> Times]
      /\ closer \in [Closers -> {"no", "empty", "busy", "done"}]
      /\ handlers \in Seq(Async)
  BY DEF Shapes, CallShapes
<1>1. CASE UNCHANGED << pc, timer, closer, destroyed >>
  BY <1>1 DEF PlaceInv, Held, Timed
<1>2. ASSUME NEW c \in Calls, NEW l \in Labels, Goto(c, l), UNCHANGED << timer, closer, destroyed >>,
             ~destroyed, pc[c] # "closing", l \in Before => pc[c] \in Before
      PROVE  PlaceInv'
  <2>1. \A d \in Calls : pc'[d] = IF d = c THEN l ELSE pc[d]
    BY <1>0, <1>2 DEF Goto
  <2> QED BY <1>2, <2>1, Kinds DEF PlaceInv
<1>3. \A c \in Calls : destroyed => pc[c] \notin Holding
  BY DEF PlaceInv, Held
<1>4. \A c \in Async : destroyed => timer[c] \notin {"armed", "due", "closing"}
  BY DEF PlaceInv, Timed, Running
<1>5. ASSUME NEW c \in Calls, FindAndLock(c) PROVE PlaceInv'
  BY <1>2, <1>5 DEF FindAndLock, closeVars, Labels, Before
<1>6. ASSUME NEW c \in Calls, Enter(c) PROVE PlaceInv'
  BY <1>2, <1>3, <1>6 DEF Enter, closeVars, timerVars, Labels, Before, Holding
<1>7. ASSUME NEW c \in Calls, SendHead(c) \/ SendBody(c) \/ SendOverflowed(c) PROVE PlaceInv'
  <2>1. UNCHANGED << timer, closer, destroyed >> /\ pc[c] \in {"head", "body", "overflow"}
    BY <1>7 DEF SendHead, SendBody, SendOverflowed, timerVars, closeVars
  <2>2. \E l \in Labels : Goto(c, l) /\ (l \in Before => pc[c] \in Before)
    <3>1. CASE SendHead(c)
      BY <3>1 DEF SendHead, Failed, Labels, Before
    <3>2. CASE SendBody(c)
      BY <3>2 DEF SendBody, Failed, Labels, Before
    <3>3. CASE SendOverflowed(c)
      BY <3>3 DEF SendOverflowed, Failed, Labels, Before
    <3> QED BY <1>7, <3>1, <3>2, <3>3
  <2> QED BY <1>2, <1>3, <2>1, <2>2 DEF Holding
<1>8. ASSUME NEW c \in Async, AddHandler(c) PROVE PlaceInv'
  <2>1. c \in Calls /\ pc[c] = "add" /\ UNCHANGED << closer, destroyed >> /\ ~destroyed
    BY <1>3, <1>8, Kinds DEF AddHandler, closeVars, Holding
  <2>2. \A d \in Calls : pc'[d] = IF d = c THEN pc'[c] ELSE pc[d]
    BY <1>0, <1>8 DEF AddHandler, Goto
  <2>3. pc'[c] \in {"err", "body"}
    BY <1>0, <1>8, <2>1 DEF AddHandler, Goto
  <2>4. \A d \in Async : d # c => timer'[d] = timer[d]
    BY <1>0, <1>8 DEF AddHandler
  <2>5. timer[c] # "closing"
    BY <2>1 DEF PlaceInv, Before
  <2> QED BY <2>1, <2>2, <2>3, <2>4, <2>5, Kinds DEF PlaceInv, Before
<1>9. ASSUME ReleaseProtocol, UNCHANGED closer, destroyed' => destroyed, \A d \in Calls : pc'[d] \in Before => pc[d] \in Before,
             \A d \in Calls : pc[d] = "closing" => pc'[d] = "closing", destroyed => pc' = pc
      PROVE  PlaceInv'
  <2>1. /\ \A d \in Async : timer'[d] = timer[d] \/ (timer[d] = "armed" /\ timer'[d] = "off")
        /\ Timed' \in SUBSET Timed
    BY <1>0, <1>9, ReleaseFacts, ReleaseCount
  <2>2. destroyed => Held' = Held
    BY <1>9 DEF Held
  <2> QED BY <1>9, <2>1, <2>2, Kinds DEF PlaceInv
<1>10. ASSUME NEW c \in Calls, SendOverflow(c) PROVE PlaceInv'
  <2>1. /\ pc[c] \in {"head", "body"} /\ ReleaseProtocol /\ UNCHANGED << closer, destroyed >>
        /\ \A d \in Calls : pc'[d] = IF d = c THEN "overflow" ELSE pc[d]
    BY <1>0, <1>10 DEF SendOverflow, Overflow, Goto
  <2>2. ~destroyed
    BY <1>3, <2>1 DEF Holding
  <2> QED BY <1>9, <2>1, <2>2 DEF Before
<1>11. ASSUME NEW c \in Async, ReportError(c) PROVE PlaceInv'
  BY <1>2, <1>3, <1>11, Kinds DEF ReportError, closeVars, Labels, Holding, Before
<1>12. ASSUME NEW c \in Sync, InvokeReturns(c) PROVE PlaceInv'
  BY <1>2, <1>3, <1>12, Kinds DEF InvokeReturns, closeVars, Labels, Holding, Before
<1>13. ASSUME NEW c \in Sync, InvokeTimeout(c) PROVE PlaceInv'
  <2>1. /\ c \in Calls /\ c \notin Async /\ c \notin Notify /\ pc[c] = "wait" /\ ~destroyed /\ destroyed' = destroyed
        /\ timer' = timer
    BY <1>3, <1>13, Kinds, CallsAssumption DEF InvokeTimeout, Holding, timerVars
  <2>2. /\ \A d \in Calls : pc'[d] = IF d = c THEN "closing" ELSE pc[d]
        /\ \A d \in Closers : d # c => closer'[d] = closer[d]
    BY <1>0, <1>13 DEF InvokeTimeout, Goto, ReadQueSize
  <2> QED BY <2>1, <2>2, Kinds DEF PlaceInv, Before
<1>14. ASSUME NEW c \in Async, TimerExpires(c) PROVE PlaceInv'
  <2>1. timer[c] = "armed" /\ UNCHANGED << pc, closer, destroyed >> /\ ~destroyed
    BY <1>4, <1>14 DEF TimerExpires, closeVars, callVars
  <2>2. \A d \in Async : timer'[d] = IF d = c THEN "due" ELSE timer[d]
    BY <1>0, <1>14 DEF TimerExpires
  <2> QED BY <2>1, <2>2 DEF PlaceInv
<1>15. ASSUME NEW c \in Async, TimerRuns(c) PROVE PlaceInv'
  <2>1. timer[c] = "due" /\ UNCHANGED << pc, destroyed >> /\ ~destroyed /\ c \notin Sync /\ c \notin Notify
    BY <1>4, <1>15, CallsAssumption DEF TimerRuns, callVars
  <2>2. /\ \A d \in Async : timer'[d] = IF d = c THEN "closing" ELSE timer[d]
        /\ \A d \in Closers : d # c => closer'[d] = closer[d]
    BY <1>0, <1>15 DEF TimerRuns, ReadQueSize
  <2> QED BY <2>1, <2>2, Kinds DEF PlaceInv
<1>16. CASE NodeCloses
  <2>1. /\ ~destroyed /\ UNCHANGED << pc, timer, destroyed >>
        /\ \A d \in Closers : d # Node => closer'[d] = closer[d]
    BY <1>0, <1>16 DEF NodeCloses, ReadQueSize, callVars, timerVars
  <2> QED BY <2>1, Kinds DEF PlaceInv
<1>17. ASSUME NEW x \in Closers, CloseEnds(x) PROVE PlaceInv'
  <2>1. /\ closer[x] \in {"empty", "busy"} /\ destroyed' = destroyed
        /\ \A d \in Closers : closer'[d] = IF d = x THEN "done" ELSE closer[d]
    BY <1>0, <1>17 DEF CloseEnds
  <2>2. CASE x = Node
    BY <1>17, <2>1, <2>2, Kinds DEF CloseEnds, PlaceInv, Held, Timed
  <2>3. CASE x \in Sync
    <3>1. Goto(x, "failed") /\ timer' = timer /\ pc[x] = "closing" /\ x \in Calls
      BY <1>17, <2>3, Kinds, CallsAssumption DEF CloseEnds, PlaceInv
    <3>2. ~destroyed /\ \A d \in Calls : pc'[d] = IF d = x THEN "failed" ELSE pc[d]
      BY <1>0, <1>3, <3>1 DEF Goto, Holding
    <3>3. x \notin Notify
      BY <2>3, CallsAssumption
    <3> QED BY <2>1, <3>1, <3>2, <3>3, Kinds DEF PlaceInv, Before
  <2>4. CASE x \in Async
    <3>1. timer' = [timer EXCEPT ![x] = "off"] /\ pc' = pc /\ timer[x] = "closing"
      BY <1>17, <2>4, Kinds, CallsAssumption DEF CloseEnds, PlaceInv
    <3>2. ~destroyed /\ \A d \in Async : timer'[d] = IF d = x THEN "off" ELSE timer[d]
      BY <1>0, <1>4, <2>4, <3>1
    <3>3. x \notin Notify /\ x \notin Sync
      BY <2>4, CallsAssumption
    <3> QED BY <2>1, <3>1, <3>2, <3>3, Kinds DEF PlaceInv
  <2> QED BY <1>17, <2>2, <2>3, <2>4 DEF CloseEnds
<1>18. CASE Release \/ HandleRequestOverflow
  BY <1>9, <1>18 DEF Release, HandleRequestOverflow, Overflow, callVars
<1>19. CASE HandleResponse
  <2>1. handlers # <<>> /\ UNCHANGED << pc, closer, destroyed >>
    BY <1>19 DEF HandleResponse, closeVars
  <2>2. Head(handlers) \in Async
    BY <1>0, <2>1, QueueFacts
  <2>3. CASE timer' = timer
    BY <1>1, <2>1, <2>3
  <2>4. CASE timer' # timer
    <3>1. timer[Head(handlers)] = "armed" /\ timer' = [timer EXCEPT ![Head(handlers)] = "off"]
      BY <1>19, <2>4 DEF HandleResponse, timerVars
    <3>2. ~destroyed /\ \A d \in Async : timer'[d] = IF d = Head(handlers) THEN "off" ELSE timer[d]
      BY <1>0, <1>4, <2>2, <3>1
    <3> QED BY <2>1, <2>2, <3>1, <3>2 DEF PlaceInv
  <2> QED BY <2>3, <2>4
<1>20. CASE Destroy
  <2>1. /\ Held = {} /\ Timed = {}
    <3>1. Cardinality(Held) = 0 /\ Cardinality(Timed) = 0
      BY <1>20, FiniteHolders DEF Destroy, CountInv
    <3> QED BY <3>1, FiniteHolders, FS_EmptySet
  <2>2. UNCHANGED << pc, closer >> /\ closer[Node] \in {"no", "done"} /\ (timer' = timer \/ ReleaseProtocol)
    BY <1>20 DEF Destroy, callVars, timerVars
  <2>3. \A d \in Async : timer'[d] = timer[d]
    <3>1. CASE timer' = timer
      BY <3>1
    <3>2. CASE ReleaseProtocol
      BY <1>0, <2>1, <3>2, ReleaseFacts, ReleaseCount
    <3> QED BY <2>2, <3>1, <3>2
  <2>4. Held' = {} /\ Timed' = {}
    BY <2>1, <2>2, <2>3 DEF Held, Timed
  <2> QED BY <2>2, <2>3, <2>4 DEF PlaceInv
<1>21. CASE Write \/ HandleRecv \/ HandleSyncResponse \/ HandleRequest \/ ReadError \/ ReadEof
            \/ PeerAnswers \/ PeerInvokes \/ UNCHANGED vars
  BY <1>1, <1>21 DEF Write, HandleWrite, HandleWriteError, HandleRecv, HandleSyncResponse,
       HandleRequest, ReadError, ReadEof, PeerAnswers, PeerInvokes, vars, callVars, timerVars, closeVars
<1> QED BY <1>5, <1>6, <1>7, <1>8, <1>10, <1>11, <1>12, <1>13, <1>14, <1>15, <1>16, <1>17, <1>18, <1>19,
           <1>20, <1>21 DEF Next, CallStep, Read

LEMMA RefInit == Init => RefInv
<1> SUFFICES ASSUME Init PROVE RefInv
  OBVIOUS
<1>1. Held = {} /\ Timed = {}
  BY DEF Init, Held, Timed, Holding, Running
<1>2. Cardinality({}) = 0
  BY FS_EmptySet
<1>3. CountInv
  BY <1>1, <1>2 DEF Init, CountInv
<1>4. PlaceInv
  BY <1>1, Kinds DEF Init, PlaceInv
<1> QED BY <1>3, <1>4 DEF RefInv

\* The connection is destroyed only when no call, timer or close() uses it, and nothing
\* begins to use it afterwards: m_self_refs counts exactly the calls and the timers
\* that do, whichever of answer, timeout, overflow and shutdown ends them.
THEOREM ObjectOutlivesUsers == Spec => []NoUseAfterDestroy
<1>1. Shapes /\ RefInv => NoUseAfterDestroy
  <2> SUFFICES ASSUME Shapes, RefInv, destroyed PROVE NoUseAfterDestroy
    BY DEF NoUseAfterDestroy
  <2>1. PlaceInv /\ pc \in [Calls -> Labels] /\ timer \in [Async -> Times]
        /\ closer \in [Closers -> {"no", "empty", "busy", "done"}]
    BY DEF RefInv, Shapes, CallShapes
  <2>2. \A c \in Calls : pc[c] \in {"idle", "refused", "sent", "failed"}
    BY <2>1 DEF PlaceInv, Held, Holding, Labels
  <2>3. \A c \in Async : timer[c] \in {"none", "off"}
    BY <2>1 DEF PlaceInv, Timed, Times, Running
  <2>4. \A x \in Closers : closer[x] \in {"no", "done"}
    <3> TAKE x \in Closers
    <3>1. x = Node \/ x \in Async \/ x \in Sync \/ x \in Notify
      BY Kinds DEF Closers
    <3> QED BY <2>1, <2>2, <2>3, <3>1, Kinds DEF PlaceInv
  <2> QED BY <2>2, <2>3, <2>4 DEF NoUseAfterDestroy
<1>2. Shapes /\ RefInv /\ [Next]_vars => RefInv'
  BY CountStep, PlaceStep DEF RefInv
<1> QED BY ShapesInit, ShapesStep, RefInit, <1>1, <1>2, PTL DEF Spec

-----------------------------------------------------------------------------
(***************************************************************************)
(* Callbacks.                                                              *)
(***************************************************************************)
Over == {"closing", "off"}
Calling(c) == (IF timer[c] \in Over THEN 1 ELSE 0) + (IF pc[c] = "failed" THEN 1 ELSE 0)

\* A callback is called when the timer ends, by an answer, by its expiry or by the end
\* of the connection, and when the call itself fails.
CbInv == cb = [c \in Async |-> Calling(c)]

LEMMA CbStep ==
  ASSUME Shapes, PlaceInv, CbInv, [Next]_vars
  PROVE  CbInv'
<1>0. /\ CallShapes /\ pc \in [Calls -> Labels] /\ timer \in [Async -> Times]
      /\ handlers \in Seq(Async)
      /\ cb = [c \in Async |-> Calling(c)] /\ \A c \in Async : cb[c] = Calling(c)
  BY DEF Shapes, CallShapes, CbInv
<1>1. ASSUME cb' = cb,
             \A c \in Async : (timer'[c] \in Over <=> timer[c] \in Over) /\ (pc'[c] = "failed" <=> pc[c] = "failed")
      PROVE  CbInv'
  BY <1>1 DEF CbInv, Calling
<1>2. CASE UNCHANGED << cb, timer, pc >>
  BY <1>1, <1>2
<1>3. ASSUME NEW c \in Calls, NEW l \in Labels, Goto(c, l), UNCHANGED << cb, timer >>,
             c \in Async => l # "failed" /\ pc[c] # "failed"
      PROVE  CbInv'
  BY <1>0, <1>1, <1>3, Kinds DEF Goto
<1>4. ASSUME NEW c \in Async, cb' = [cb EXCEPT ![c] = @ + 1], pc' = pc, NEW l \in Over,
             timer[c] \notin Over, timer' = [timer EXCEPT ![c] = l]
      PROVE  CbInv'
  <2>1. \A d \in Async : timer'[d] = IF d = c THEN l ELSE timer[d]
    BY <1>0, <1>4
  <2>2. \A d \in Async : Calling(d)' = IF d = c THEN cb[d] + 1 ELSE cb[d]
    BY <1>0, <1>4, <2>1 DEF Calling
  <2>3. cb' = [d \in Async |-> IF d = c THEN cb[d] + 1 ELSE cb[d]]
    BY <1>0, <1>4
  <2> QED BY <2>2, <2>3 DEF CbInv
<1>5. ASSUME NEW c \in Calls, FindAndLock(c) \/ Enter(c) \/ SendHead(c) \/ SendBody(c) \/ SendOverflowed(c)
      PROVE  CbInv'
  <2>1. UNCHANGED << cb, timer >> /\ pc[c] # "failed"
    BY <1>5 DEF FindAndLock, Enter, SendHead, SendBody, SendOverflowed, timerVars
  <2>2. \E l \in Labels : Goto(c, l) /\ (c \in Async => l # "failed")
    <3>1. CASE FindAndLock(c) \/ Enter(c)
      BY <3>1 DEF FindAndLock, Enter, Labels
    <3>2. CASE SendHead(c) \/ SendOverflowed(c)
      BY <3>2 DEF SendHead, SendOverflowed, Failed, Labels
    <3>3. CASE SendBody(c)
      BY <3>3 DEF SendBody, Failed, Labels
    <3> QED BY <1>5, <3>1, <3>2, <3>3
  <2> QED BY <1>3, <2>1, <2>2
<1>6. ASSUME NEW c \in Async, AddHandler(c) PROVE CbInv'
  <2>1. c \in Calls /\ cb' = cb /\ pc[c] = "add" /\ timer[c] = "none"
    BY <1>6, Kinds DEF AddHandler, PlaceInv, Before
  <2>2. \A d \in Async : timer'[d] = timer[d] \/ (d = c /\ timer'[d] = "armed")
    BY <1>0, <1>6 DEF AddHandler
  <2>3. \A d \in Async : pc'[d] = pc[d] \/ (d = c /\ pc'[d] \in {"err", "body"})
    BY <1>0, <1>6, Kinds DEF AddHandler, Goto
  <2> QED BY <1>1, <2>1, <2>2, <2>3 DEF Over
<1>7. ASSUME ReleaseProtocol, \A c \in Async : pc'[c] = "failed" <=> pc[c] = "failed"
      PROVE  CbInv'
  <2>1. /\ Armed \in SUBSET { c \in Async : timer[c] = "armed" }
        /\ \A c \in Async : timer'[c] = IF c \in Armed THEN "off" ELSE timer[c]
        /\ \A c \in Async : cb'[c] = IF c \in Armed THEN cb[c] + 1 ELSE cb[c]
        /\ cb' = [c \in Async |-> cb'[c]]
    BY <1>0, <1>7, ReleaseFacts
  <2>2. ASSUME NEW c \in Async PROVE cb'[c] = Calling(c)'
    <3>1. c \in Armed => timer[c] = "armed" /\ timer'[c] = "off" /\ cb'[c] = cb[c] + 1
      BY <2>1
    <3>2. c \notin Armed => timer'[c] = timer[c] /\ cb'[c] = cb[c]
      BY <2>1
    <3>3. cb[c] = Calling(c) /\ (pc'[c] = "failed" <=> pc[c] = "failed")
      BY <1>0, <1>7
    <3> QED BY <3>1, <3>2, <3>3 DEF Calling, Over
  <2> QED BY <2>1, <2>2 DEF CbInv
<1>8. ASSUME NEW c \in Calls, SendOverflow(c) PROVE CbInv'
  <2>1. ReleaseProtocol /\ pc[c] # "failed" /\ Goto(c, "overflow")
    BY <1>8 DEF SendOverflow, Overflow
  <2>2. \A d \in Async : pc'[d] = "failed" <=> pc[d] = "failed"
    BY <1>0, <2>1, Kinds DEF Goto
  <2> QED BY <1>7, <2>1, <2>2
<1>9. ASSUME NEW c \in Async, ReportError(c) PROVE CbInv'
  <2>1. pc[c] = "err" /\ cb' = [cb EXCEPT ![c] = @ + 1] /\ timer' = timer
    BY <1>9 DEF ReportError
  <2>2. \A d \in Async : pc'[d] = IF d = c THEN "failed" ELSE pc[d]
    BY <1>0, <1>9, Kinds DEF ReportError, Goto
  <2>3. \A d \in Async : Calling(d)' = IF d = c THEN cb[d] + 1 ELSE cb[d]
    BY <1>0, <2>1, <2>2 DEF Calling
  <2>4. cb' = [d \in Async |-> IF d = c THEN cb[d] + 1 ELSE cb[d]]
    BY <1>0, <2>1
  <2> QED BY <2>3, <2>4 DEF CbInv
<1>10. ASSUME NEW c \in Sync, InvokeReturns(c) \/ InvokeTimeout(c) PROVE CbInv'
  <2>1. c \in Calls /\ c \notin Async /\ UNCHANGED << cb, timer >>
    BY <1>10, Kinds, CallsAssumption DEF InvokeReturns, InvokeTimeout, timerVars
  <2>2. \E l \in Labels : Goto(c, l)
    BY <1>10 DEF InvokeReturns, InvokeTimeout, Labels
  <2> QED BY <1>3, <2>1, <2>2
<1>11. ASSUME NEW c \in Async, TimerExpires(c) PROVE CbInv'
  <2>1. UNCHANGED << cb, pc >> /\ timer[c] = "armed"
    BY <1>11 DEF TimerExpires, callVars
  <2>2. \A d \in Async : timer'[d] = IF d = c THEN "due" ELSE timer[d]
    BY <1>0, <1>11 DEF TimerExpires
  <2> QED BY <1>1, <2>1, <2>2 DEF Over
<1>12. ASSUME NEW c \in Async, TimerRuns(c) PROVE CbInv'
  BY <1>4, <1>12 DEF TimerRuns, Over, callVars
<1>13. ASSUME NEW x \in Closers, CloseEnds(x) PROVE CbInv'
  <2>0. cb' = cb
    BY <1>13 DEF CloseEnds
  <2>1. CASE x = Node
    BY <1>2, <1>13, <2>0, <2>1, Kinds DEF CloseEnds
  <2>2. CASE x \in Sync
    <3>1. Goto(x, "failed") /\ timer' = timer /\ x \in Calls /\ x \notin Async
      BY <1>13, <2>2, Kinds, CallsAssumption DEF CloseEnds
    <3> QED BY <1>3, <2>0, <3>1 DEF Labels
  <2>3. CASE x \in Async
    <3>1. timer' = [timer EXCEPT ![x] = "off"] /\ pc' = pc /\ timer[x] = "closing"
      BY <1>13, <2>3, Kinds, CallsAssumption DEF CloseEnds, PlaceInv
    <3>2. \A d \in Async : timer'[d] = IF d = x THEN "off" ELSE timer[d]
      BY <1>0, <3>1
    <3> QED BY <1>1, <2>0, <3>1, <3>2 DEF Over
  <2> QED BY <1>13, <2>1, <2>2, <2>3 DEF CloseEnds
<1>14. CASE Release \/ HandleRequestOverflow \/ Destroy
  BY <1>2, <1>7, <1>14 DEF Release, HandleRequestOverflow, Overflow, Destroy, callVars, timerVars
<1>15. CASE HandleResponse
  <2>1. handlers # <<>> /\ pc' = pc
    BY <1>15 DEF HandleResponse
  <2>2. Head(handlers) \in Async
    BY <1>0, <2>1, QueueFacts
  <2> QED BY <1>2, <1>4, <1>15, <2>1, <2>2 DEF HandleResponse, timerVars, Over
<1>16. CASE NodeCloses \/ Write \/ HandleRecv \/ HandleSyncResponse \/ HandleRequest \/ ReadError \/ ReadEof
            \/ PeerAnswers \/ PeerInvokes \/ UNCHANGED vars
  BY <1>2, <1>16 DEF NodeCloses, Write, HandleWrite, HandleWriteError, HandleRecv, HandleSyncResponse,
       HandleRequest, ReadError, ReadEof, PeerAnswers, PeerInvokes, vars, callVars, timerVars
<1> QED BY <1>5, <1>6, <1>8, <1>9, <1>10, <1>11, <1>12, <1>13, <1>14, <1>15, <1>16 DEF Next, CallStep, Read

LEMMA CbInit == Init => CbInv
<1> SUFFICES ASSUME Init PROVE CbInv
  OBVIOUS
<1>1. \A c \in Async : timer[c] = "none" /\ pc[c] = "idle"
  BY Kinds DEF Init
<1>2. \A c \in Async : Calling(c) = 0
  BY <1>1 DEF Calling, Over
<1> QED BY <1>2 DEF Init, CbInv

\* A callback is called once, whichever of the answer, the timer, an overflow of the send
\* queue and the end of the connection comes first; twice only for a call that failed
\* after its timer had been started.
THEOREM CallbackCalledOnce == Spec => []CallbackOnce
<1>1. CbInv => CallbackOnce
  <2> SUFFICES ASSUME CbInv, NEW c \in Async, cb[c] > 1 PROVE timer[c] # "none" /\ pc[c] = "failed"
    BY DEF CallbackOnce
  <2>1. cb[c] = Calling(c)
    BY DEF CbInv
  <2> QED BY <2>1 DEF Calling, Over
<1>2. Shapes /\ RefInv /\ [Next]_vars => RefInv'
  BY CountStep, PlaceStep DEF RefInv
<1>3. Shapes /\ RefInv /\ CbInv /\ [Next]_vars => CbInv'
  BY CbStep DEF RefInv
<1> QED BY ShapesInit, ShapesStep, RefInit, CbInit, <1>1, <1>2, <1>3, PTL DEF Spec

\* Every variable keeps its type; in particular the number of references never becomes
\* negative: release() never finds m_self_refs empty.
THEOREM TypeCorrect == Spec => []TypeOK
<1>1. Shapes /\ RefInv /\ CbInv => TypeOK
  <2> SUFFICES ASSUME Shapes, RefInv, CbInv PROVE TypeOK
    OBVIOUS
  <2>1. refs \in Nat
    BY FiniteHolders DEF RefInv, CountInv
  <2>2. cb \in [Async -> 0..2]
    BY DEF CbInv, Calling
  <2>3. Parts \in SUBSET (Closers \X {"head", "body", "packet"})
    BY Kinds DEF Parts
  <2>4. que \in Seq(Closers \X {"head", "body", "packet"})
    BY <2>3 DEF Shapes, StreamShapes
  <2>5. CallShapes /\ FlagShapes /\ StreamShapes /\ UnderShapes
    BY DEF Shapes
  <2> QED BY <2>1, <2>2, <2>4, <2>5 DEF TypeOK, CallShapes, FlagShapes, StreamShapes, UnderShapes, Times, Readers
<1>2. Shapes /\ RefInv /\ [Next]_vars => RefInv'
  BY CountStep, PlaceStep DEF RefInv
<1>3. Shapes /\ RefInv /\ CbInv /\ [Next]_vars => CbInv'
  BY CbStep DEF RefInv
<1> QED BY ShapesInit, ShapesStep, RefInit, CbInit, <1>1, <1>2, <1>3, PTL DEF Spec

-----------------------------------------------------------------------------
(***************************************************************************)
(* The stream.                                                             *)
(***************************************************************************)
\* Until the connection is shut down, the send queue ends in a header exactly as long as
\* the thread whose packet it begins holds m_send_lock, which no two threads do.
StreamInv ==
  /\ PacketsWhole
  /\ releasing \/ released => shut
  /\ \A c, d \in Calls : HasSendLock(c) /\ HasSendLock(d) => c = d
  /\ ~shut /\ que # <<>> =>
       /\ que[Len(que)][2] = "head" => \E c \in Calls : HasSendLock(c)
       /\ \A c \in Calls : HasSendLock(c) => que[Len(que)] = <<c, "head">>

\* Appending a part that fits the last one keeps the packets whole.
LEMMA AppendPart ==
  ASSUME que \in Seq(Parts), NEW p \in Parts, que' = Append(que, p), PacketsWhole,
         que # <<>> => /\ que[Len(que)][2] = "head" => p = <<que[Len(que)][1], "body">>
                       /\ p[2] = "body" => que[Len(que)] = <<p[1], "head">>
  PROVE  PacketsWhole' /\ que' # <<>> /\ que'[Len(que')] = p
<1>1. /\ Len(que') = Len(que) + 1 /\ Len(que) \in Nat /\ que'[Len(que) + 1] = p
      /\ \A i \in 1..Len(que) : que'[i] = que[i]
  OBVIOUS
<1>2. que = <<>> <=> Len(que) = 0
  OBVIOUS
<1>3. ASSUME NEW i \in 1..(Len(que') - 1)
      PROVE  /\ que'[i][2] = "head" => que'[i + 1] = <<que'[i][1], "body">>
             /\ que'[i + 1][2] = "body" => que'[i] = <<que'[i + 1][1], "head">>
  <2>1. CASE i = Len(que)
    <3>1. que # <<>> /\ que'[i] = que[Len(que)] /\ que'[i + 1] = p
      BY <1>1, <1>2, <2>1
    <3> QED BY <3>1
  <2>2. CASE i # Len(que)
    <3>1. i \in 1..(Len(que) - 1) /\ que'[i] = que[i] /\ que'[i + 1] = que[i + 1]
      BY <1>1, <2>2
    <3> QED BY <3>1 DEF PacketsWhole
  <2> QED BY <2>1, <2>2
<1>4. PacketsWhole'
  BY <1>3 DEF PacketsWhole
<1>5. que' # <<>> /\ que'[Len(que')] = p
  BY <1>1
<1> QED BY <1>4, <1>5

LEMMA StreamStep ==
  ASSUME Shapes, PlaceInv, StreamInv, [Next]_vars
  PROVE  StreamInv'
<1>0. /\ pc \in [Calls -> Labels] /\ que \in Seq(Parts) /\ (writing => que # <<>>)
      /\ shut \in BOOLEAN /\ releasing \in BOOLEAN /\ released \in BOOLEAN
  BY DEF Shapes, CallShapes, StreamShapes, FlagShapes
\* A step that sends nothing and gives up the lock only after a shutdown.
<1>1. ASSUME que' = que, shut => shut', releasing' \/ released' => shut',
             \A c \in Calls : HasSendLock(c)' => HasSendLock(c),
             shut' \/ \A c \in Calls : HasSendLock(c) => HasSendLock(c)'
      PROVE  StreamInv'
  <2>1. PacketsWhole'
    BY <1>1 DEF StreamInv, PacketsWhole
  <2> QED BY <1>1, <2>1 DEF StreamInv
<1>2. CASE UNCHANGED << pc, que >> /\ (shut => shut') /\ (releasing' \/ released' => shut')
  BY <1>1, <1>2 DEF HasSendLock
<1>3. ASSUME NEW c \in Calls, NEW l \in Labels, Goto(c, l), UNCHANGED << que, shut, releasing, released >>,
             l \notin {"add", "body"}, pc[c] \in {"add", "body"} => shut
      PROVE  StreamInv'
  <2>1. \A d \in Calls : pc'[d] = IF d = c THEN l ELSE pc[d]
    BY <1>0, <1>3 DEF Goto
  <2> QED BY <1>1, <1>3, <2>1 DEF HasSendLock, StreamInv
<1>4. ASSUME NEW c \in Calls, FindAndLock(c) \/ Enter(c) \/ SendOverflowed(c) PROVE StreamInv'
  BY <1>3, <1>4 DEF FindAndLock, Enter, SendOverflowed, Failed, sendVars, closeVars, Labels
<1>5. ASSUME NEW c \in Calls, SendHead(c) PROVE StreamInv'
  <2>1. pc[c] = "head" /\ \A d \in Calls : ~HasSendLock(d)
    BY <1>5 DEF SendHead, SendLockFree
  <2>2. CASE Enqueue(<<c, "head">>)
    <3>1. /\ que' = Append(que, <<c, "head">>) /\ ~shut
      BY <2>2 DEF Enqueue
    <3>2. Goto(c, IF c \in Async THEN "add" ELSE "body") /\ UNCHANGED << shut, releasing, released >>
      BY <1>5, <3>1 DEF SendHead, closeVars
    <3>3. \A d \in Calls : HasSendLock(d)' <=> d = c
      BY <1>0, <2>1, <3>2 DEF Goto, HasSendLock
    <3>4. <<c, "head">> \in Parts
      BY DEF Parts
    <3>5. que # <<>> => que[Len(que)][2] # "head"
      BY <2>1, <3>1 DEF StreamInv
    <3>6. PacketsWhole' /\ que' # <<>> /\ que'[Len(que')] = <<c, "head">>
      BY <1>0, <3>1, <3>4, <3>5, AppendPart DEF StreamInv
    <3> QED BY <3>2, <3>3, <3>6 DEF StreamInv
  <2>3. CASE ~Enqueue(<<c, "head">>)
    <3>1. shut /\ Failed(c) /\ UNCHANGED << sendVars, closeVars >>
      BY <1>5, <2>3 DEF SendHead
    <3> QED BY <1>3, <2>1, <3>1 DEF Failed, sendVars, closeVars, Labels
  <2> QED BY <2>2, <2>3
<1>6. ASSUME NEW c \in Async, AddHandler(c) PROVE StreamInv'
  <2>1. c \in Calls /\ pc[c] = "add" /\ UNCHANGED << que, shut, releasing, released >>
    BY <1>6, Kinds DEF AddHandler, sendVars, closeVars
  <2>2. CASE released \/ shut
    <3>1. Goto(c, "err") /\ shut
      BY <1>6, <2>2 DEF AddHandler, StreamInv
    <3> QED BY <1>3, <2>1, <3>1 DEF Labels
  <2>3. CASE ~released /\ ~shut
    <3>1. Goto(c, "body")
      BY <1>6, <2>3 DEF AddHandler
    <3>2. \A d \in Calls : HasSendLock(d)' <=> HasSendLock(d)
      BY <1>0, <2>1, <3>1 DEF Goto, HasSendLock
    <3> QED BY <1>1, <2>1, <3>2 DEF StreamInv
  <2> QED BY <2>2, <2>3
<1>7. ASSUME NEW c \in Calls, SendBody(c) PROVE StreamInv'
  <2>1. pc[c] = "body" /\ HasSendLock(c)
    BY <1>7 DEF SendBody, HasSendLock
  <2>2. CASE Enqueue(<<c, "body">>)
    <3>1. que' = Append(que, <<c, "body">>) /\ ~shut
      BY <2>2 DEF Enqueue
    <3>2. Goto(c, IF c \in Sync THEN "wait" ELSE "sent") /\ UNCHANGED << shut, releasing, released >>
      BY <1>7, <3>1 DEF SendBody, closeVars
    <3>3. \A d \in Calls : ~HasSendLock(d)'
      BY <1>0, <2>1, <3>2 DEF Goto, HasSendLock, StreamInv
    <3>4. <<c, "body">> \in Parts
      BY DEF Parts
    <3>5. que # <<>> => que[Len(que)] = <<c, "head">>
      BY <2>1, <3>1 DEF StreamInv
    <3>6. PacketsWhole' /\ que' # <<>> /\ que'[Len(que')] = <<c, "body">>
      BY <1>0, <3>1, <3>4, <3>5, AppendPart DEF StreamInv
    <3> QED BY <3>2, <3>3, <3>6 DEF StreamInv
  <2>3. CASE ~Enqueue(<<c, "body">>)
    <3>1. shut /\ Failed(c) /\ UNCHANGED << sendVars, closeVars >>
      BY <1>7, <2>3 DEF SendBody
    <3> QED BY <1>3, <2>1, <3>1 DEF Failed, sendVars, closeVars, Labels
  <2> QED BY <2>2, <2>3
<1>8. ASSUME NEW c \in Calls, SendOverflow(c) PROVE StreamInv'
  <2>1. que' = que /\ shut' /\ Goto(c, "overflow")
    BY <1>8 DEF SendOverflow, Overflow, sendVars
  <2>2. \A d \in Calls : HasSendLock(d)' => HasSendLock(d)
    BY <1>0, <2>1 DEF Goto, HasSendLock
  <2> QED BY <1>1, <2>1, <2>2
<1>9. ASSUME NEW c \in Async, ReportError(c) PROVE StreamInv'
  BY <1>3, <1>9, Kinds DEF ReportError, sendVars, closeVars, Labels
<1>10. ASSUME NEW c \in Sync, InvokeReturns(c) \/ InvokeTimeout(c) PROVE StreamInv'
  BY <1>3, <1>10, Kinds DEF InvokeReturns, InvokeTimeout, sendVars, closeVars, Labels
<1>11. ASSUME NEW c \in Async, TimerExpires(c) \/ TimerRuns(c) PROVE StreamInv'
  BY <1>2, <1>11 DEF TimerExpires, TimerRuns, callVars, sendVars, closeVars, StreamInv
<1>12. ASSUME Shutdown \/ UNCHANGED << shut, releasing >>, UNCHANGED released
       PROVE  (shut => shut') /\ (releasing' \/ released' => shut')
  BY <1>0, <1>12 DEF Shutdown, StreamInv
<1>13. ASSUME NEW x \in Closers, CloseEnds(x) PROVE StreamInv'
  <2>1. CASE x \in Sync /\ Goto(x, "failed")
    <3>1. /\ que' = que /\ (shut => shut') /\ (releasing' \/ released' => shut')
      BY <1>12, <1>13 DEF CloseEnds, sendVars
    <3>2. x \in Calls /\ pc' = [pc EXCEPT ![x] = "failed"] /\ pc[x] = "closing"
      BY <1>13, <2>1, Kinds DEF CloseEnds, Goto, PlaceInv
    <3>3. \A d \in Calls : pc'[d] = IF d = x THEN "failed" ELSE pc[d]
      BY <1>0, <3>2
    <3>4. \A d \in Calls : HasSendLock(d)' <=> HasSendLock(d)
      BY <3>2, <3>3 DEF HasSendLock
    <3> QED BY <1>1, <3>1, <3>4
  <2>2. CASE pc' = pc
    BY <1>2, <1>12, <1>13, <2>2 DEF CloseEnds, sendVars
  <2> QED BY <1>13, <2>1, <2>2 DEF CloseEnds
<1>14. CASE NodeCloses \/ Release \/ Destroy
  <2>1. UNCHANGED << pc, que >> /\ (shut => shut') /\ (releasing' \/ released' => shut')
    BY <1>14 DEF NodeCloses, Release, Destroy, callVars, sendVars, StreamInv
  <2> QED BY <1>2, <2>1
<1>15. CASE HandleWriteError \/ ReadError \/ HandleRecv \/ HandleSyncResponse
  BY <1>2, <1>12, <1>15 DEF HandleWriteError, ReadError, HandleRecv, HandleSyncResponse, WantClose, callVars, sendVars
<1>16. CASE HandleWrite
  <2>1. que # <<>> /\ que' = Tail(que) /\ pc' = pc /\ ~shut
    BY <1>0, <1>16 DEF HandleWrite, callVars
  <2>2. (shut => shut') /\ (releasing' \/ released' => shut')
    BY <1>12, <1>16 DEF HandleWrite
  <2>3. /\ Len(que') = Len(que) - 1 /\ Len(que) \in Nat \ {0}
        /\ \A i \in 1..(Len(que) - 1) : que'[i] = que[i + 1]
    BY <1>0, <2>1, QueueFacts
  <2>4. ASSUME NEW i \in 1..(Len(que') - 1)
        PROVE  /\ que'[i][2] = "head" => que'[i + 1] = <<que'[i][1], "body">>
               /\ que'[i + 1][2] = "body" => que'[i] = <<que'[i + 1][1], "head">>
    <3>1. que'[i] = que[i + 1] /\ que'[i + 1] = que[(i + 1) + 1] /\ i + 1 \in 1..(Len(que) - 1)
      BY <2>3
    <3> QED BY <3>1 DEF StreamInv, PacketsWhole
  <2>5. PacketsWhole'
    BY <2>4 DEF PacketsWhole
  <2>6. que' # <<>> => que'[Len(que')] = que[Len(que)]
    <3>1. que' # <<>> => Len(que') # 0
      BY <1>0, <2>1, QueueFacts
    <3> QED BY <2>3, <3>1
  <2> QED BY <2>1, <2>2, <2>5, <2>6 DEF StreamInv, HasSendLock
<1>17. CASE HandleRequest
  <2>1. pc' = pc /\ \A d \in Calls : ~HasSendLock(d)
    BY <1>17 DEF HandleRequest, SendLockFree, callVars
  <2>2. CASE Enqueue(<<Node, "packet">>)
    <3>1. que' = Append(que, <<Node, "packet">>) /\ ~shut /\ UNCHANGED << shut, releasing, released >>
      BY <1>17, <2>2 DEF HandleRequest, Enqueue
    <3>2. <<Node, "packet">> \in Parts
      BY DEF Parts
    <3>3. que # <<>> => que[Len(que)][2] # "head"
      BY <2>1, <3>1 DEF StreamInv
    <3>4. PacketsWhole' /\ que' # <<>> /\ que'[Len(que')] = <<Node, "packet">>
      BY <1>0, <3>1, <3>2, <3>3, AppendPart DEF StreamInv
    <3> QED BY <2>1, <3>1, <3>4 DEF StreamInv, HasSendLock
  <2>3. CASE ~Enqueue(<<Node, "packet">>)
    BY <1>2, <1>12, <1>17, <2>1, <2>3 DEF HandleRequest, WantClose, sendVars
  <2> QED BY <2>2, <2>3
<1>18. CASE HandleRequestOverflow
  BY <1>2, <1>18 DEF HandleRequestOverflow, Overflow, callVars, sendVars
<1>19. CASE HandleResponse \/ ReadEof \/ PeerAnswers \/ PeerInvokes \/ UNCHANGED vars
  BY <1>2, <1>19 DEF HandleResponse, ReadEof, PeerAnswers, PeerInvokes, vars, callVars, sendVars, closeVars, StreamInv
<1> QED BY <1>4, <1>5, <1>6, <1>7, <1>8, <1>9, <1>10, <1>11, <1>13, <1>14, <1>15, <1>16, <1>17, <1>18, <1>19
        DEF Next, CallStep, Read, Write

\* The packets of different threads are not mixed in the stream, whoever of the calls and
\* the command handler sends, and whenever the queue overflows or the connection ends.
THEOREM PacketsStayWhole == Spec => []PacketsWhole
<1>1. Init => StreamInv
  BY DEF Init, StreamInv, PacketsWhole, HasSendLock
<1>2. StreamInv => PacketsWhole
  BY DEF StreamInv
<1>3. Shapes /\ RefInv /\ StreamInv /\ [Next]_vars => StreamInv'
  BY StreamStep DEF RefInv
<1>4. Shapes /\ RefInv /\ [Next]_vars => RefInv'
  BY CountStep, PlaceStep DEF RefInv
<1> QED BY ShapesInit, ShapesStep, RefInit, <1>4, <1>1, <1>2, <1>3, PTL DEF Spec

-----------------------------------------------------------------------------
(***************************************************************************)
(* Answers.                                                                *)
(***************************************************************************)
\* The calls in a sequence of messages, and that a rank grows along it.
In(s) == { c \in Calls : \E i \in 1..Len(s) : s[i] = c }
Rises(rank, s) ==
  \A i, j \in 1..Len(s) : i < j /\ s[i] \in Calls /\ s[j] \in Calls => rank[s[i]] < rank[s[j]]
Precede(rank, S, T) == \A c \in S, d \in T : rank[c] < rank[d]

\* Where an answer can be: read, on its way, due from the peer, or its request queued.
Bodies  == [i \in 1..Len(que) |-> IF que[i][2] = "body" THEN que[i][1] ELSE Nobody]
AtHand  == IF reader.pc = "got" THEN {reader.msg} \cap Calls ELSE {}
Answering == AtHand \cup In(inbox) \cup In(wire)
Located   == Answering \cup In(Bodies)

Entered == { c \in Calls : pc[c] \notin {"idle", "refused", "ref"} }
Past    == {"wait", "closing", "sent", "failed"}
Live    == ~released /\ ~closeCalled
\* The first handler's timer cannot be cancelled any more: all answers are dropped.
Blocked == handlers # <<>> /\ timer[Head(handlers)] # "armed"
Open    == Live /\ ~Blocked

\* Calls are ranked in the order in which they took m_call_lock.
Lined(rank) ==
  /\ Rises(rank, inbox) /\ Rises(rank, wire) /\ Rises(rank, Bodies)
  /\ Precede(rank, AtHand, In(inbox)) /\ Precede(rank, AtHand, In(wire)) /\ Precede(rank, AtHand, In(Bodies))
  /\ Precede(rank, In(inbox), In(wire)) /\ Precede(rank, In(inbox), In(Bodies))
  /\ Precede(rank, In(wire), In(Bodies))
Ordered(rank) ==
  /\ \A c, d \in Entered : rank[c] = rank[d] => c = d
  /\ \A c \in Calls : HasCallLock(c) => \A d \in Entered : rank[d] <= rank[c]
  /\ Rises(rank, handlers)
\* The handlers wait for answers to come, but for calls that failed after all others were sent.
Awaited(rank) ==
  Open => \A h \in In(handlers) :
            h \in Located \/ pc[h] = "body" \/ (shut /\ \A d \in Located : rank[d] < rank[h])
Ranked(rank, n) ==
  /\ \A c \in Calls : rank[c] <= n
  /\ Ordered(rank) /\ Lined(rank) /\ Awaited(rank)

WhereInv ==
  /\ released => handlers = <<>>
  /\ \A c \in Located : pc[c] \in Past
  /\ \A c \in Answering : c \notin Notify
  /\ \A c \in In(handlers) : pc[c] \notin Before
SyncInv ==
  Live => \A c \in Sync :
    /\ c \in Located => pc[c] = "wait" /\ ~bufReady
    /\ pc[c] \in {"head", "body"} => ~bufReady
    /\ pc[c] = "wait" /\ bufReady => invBuf = c
HandlerInv ==
  Open => \A c \in Async : c \in Located \/ pc[c] = "body" => c \in In(handlers)
RankInv == \E rank \in [Calls -> Nat], n \in Nat : Ranked(rank, n)
\* Where m_call_lock keeps the calls apart, their answers are.
ApartInv == WhereInv /\ SyncInv /\ HandlerInv /\ RankInv /\ AnswerMatchesNested
UnmadeInv == \A c \in Calls : pc[c] = "idle" => under[c] = Nobody
AnswerInv == UnmadeInv /\ (~NestedCall => ApartInv)

-----------------------------------------------------------------------------
LEMMA InTail ==
  ASSUME NEW S, NEW s \in Seq(S), s # <<>>
  PROVE  /\ In(s) = In(Tail(s)) \cup ({Head(s)} \cap Calls)
         /\ \A rank : Rises(rank, s) =>
              Rises(rank, Tail(s)) /\ (Head(s) \in Calls => \A d \in In(Tail(s)) : rank[Head(s)] < rank[d])
<1>1. /\ Head(s) = s[1] /\ Len(Tail(s)) = Len(s) - 1 /\ Len(s) \in Nat \ {0}
      /\ \A i \in 1..(Len(s) - 1) : Tail(s)[i] = s[i + 1]
  BY QueueFacts
<1>2. In(s) \in SUBSET (In(Tail(s)) \cup ({Head(s)} \cap Calls))
  <2> SUFFICES ASSUME NEW c \in In(s), c # Head(s) PROVE c \in In(Tail(s))
    BY DEF In
  <2>1. PICK i \in 1..Len(s) : s[i] = c
    BY DEF In
  <2>2. i - 1 \in 1..(Len(s) - 1) /\ Tail(s)[i - 1] = s[i]
    <3>1. i # 1
      BY <1>1, <2>1
    <3>2. i - 1 \in 1..(Len(s) - 1) /\ (i - 1) + 1 = i
      BY <1>1, <3>1
    <3> QED BY <1>1, <3>2
  <2> QED BY <1>1, <2>1, <2>2 DEF In
<1>3. In(Tail(s)) \in SUBSET In(s)
  <2> SUFFICES ASSUME NEW c \in In(Tail(s)) PROVE c \in In(s)
    OBVIOUS
  <2>1. PICK i \in 1..(Len(s) - 1) : Tail(s)[i] = c
    BY <1>1 DEF In
  <2>2. i + 1 \in 1..Len(s) /\ s[i + 1] = c
    BY <1>1, <2>1
  <2> QED BY <2>2 DEF In
<1>4. {Head(s)} \cap Calls \in SUBSET In(s)
  BY <1>1 DEF In
<1>5. ASSUME NEW rank, Rises(rank, s)
      PROVE  Rises(rank, Tail(s)) /\ (Head(s) \in Calls => \A d \in In(Tail(s)) : rank[Head(s)] < rank[d])
  <2>1. Rises(rank, Tail(s))
    <3> SUFFICES ASSUME NEW i \in 1..(Len(s) - 1), NEW j \in 1..(Len(s) - 1), i < j,
                        Tail(s)[i] \in Calls, Tail(s)[j] \in Calls
                 PROVE  rank[Tail(s)[i]] < rank[Tail(s)[j]]
      BY <1>1 DEF Rises
    <3>1. i + 1 \in 1..Len(s) /\ j + 1 \in 1..Len(s) /\ i + 1 < j + 1
      BY <1>1
    <3>2. Tail(s)[i] = s[i + 1] /\ Tail(s)[j] = s[j + 1]
      BY <1>1
    <3> QED BY <1>5, <3>1, <3>2 DEF Rises
  <2>2. ASSUME Head(s) \in Calls, NEW d \in In(Tail(s)) PROVE rank[Head(s)] < rank[d]
    <3>1. PICK i \in 1..(Len(s) - 1) : Tail(s)[i] = d
      BY <1>1 DEF In
    <3>2. i + 1 \in 1..Len(s) /\ 1 \in 1..Len(s) /\ 1 < i + 1 /\ s[i + 1] = d /\ d \in Calls
      BY <1>1, <3>1 DEF In
    <3> QED BY <1>1, <1>5, <2>2, <3>2 DEF Rises
  <2> QED BY <2>1, <2>2
<1> QED BY <1>2, <1>3, <1>4, <1>5

LEMMA InAppend ==
  ASSUME NEW S, NEW s \in Seq(S), NEW e \in S
  PROVE  /\ In(Append(s, e)) = In(s) \cup ({e} \cap Calls)
         /\ \A rank : Rises(rank, s) /\ (e \in Calls => \A d \in In(s) : rank[d] < rank[e]) => Rises(rank, Append(s, e))
<1> DEFINE a == Append(s, e)
<1>1. /\ Len(a) = Len(s) + 1 /\ Len(s) \in Nat /\ a[Len(s) + 1] = e
      /\ \A i \in 1..Len(s) : a[i] = s[i]
  OBVIOUS
<1> HIDE DEF a
<1>2. In(a) = In(s) \cup ({e} \cap Calls)
  <2>1. ASSUME NEW c \in In(a), c # e PROVE c \in In(s)
    <3>1. PICK i \in 1..(Len(s) + 1) : a[i] = c
      BY <1>1 DEF In
    <3>2. i \in 1..Len(s)
      BY <1>1, <2>1, <3>1
    <3> QED BY <1>1, <3>1, <3>2 DEF In
  <2>2. ASSUME NEW c \in In(s) PROVE c \in In(a)
    <3>1. PICK i \in 1..Len(s) : s[i] = c
      BY DEF In
    <3>2. i \in 1..(Len(s) + 1) /\ a[i] = c
      BY <1>1, <3>1
    <3> QED BY <1>1, <3>2 DEF In
  <2>3. e \in Calls => e \in In(a)
    <3>1. Len(s) + 1 \in 1..(Len(s) + 1)
      BY <1>1
    <3> QED BY <1>1, <3>1 DEF In
  <2>4. In(a) \in SUBSET Calls
    BY DEF In
  <2> QED BY <2>1, <2>2, <2>3, <2>4
<1>3. ASSUME NEW rank, Rises(rank, s), e \in Calls => \A d \in In(s) : rank[d] < rank[e]
      PROVE  Rises(rank, a)
  <2> SUFFICES ASSUME NEW i \in 1..(Len(s) + 1), NEW j \in 1..(Len(s) + 1), i < j, a[i] \in Calls, a[j] \in Calls
               PROVE  rank[a[i]] < rank[a[j]]
    BY <1>1 DEF Rises
  <2>1. i \in 1..Len(s) /\ a[i] = s[i]
    BY <1>1
  <2>2. CASE j \in 1..Len(s)
    BY <1>1, <1>3, <2>1, <2>2 DEF Rises
  <2>3. CASE j = Len(s) + 1
    BY <1>1, <1>3, <2>1, <2>3 DEF In
  <2> QED BY <1>1, <2>2, <2>3
<1> QED BY <1>2, <1>3 DEF a

LEMMA InEmpty == In(<<>>) = {} /\ \A rank : Rises(rank, <<>>)
BY DEF In, Rises

\* The requests in the queue.
LEMMA BodiesFacts ==
  ASSUME que \in Seq(Parts)
  PROVE  /\ Bodies \in Seq(Calls \cup {Nobody}) /\ Len(Bodies) = Len(que)
         /\ \A p \in Parts : que' = Append(que, p) =>
              Bodies' = Append(Bodies, IF p[2] = "body" THEN p[1] ELSE Nobody)
         /\ que # <<>> =>
              /\ Bodies # <<>> /\ Head(Bodies) = IF Head(que)[2] = "body" THEN Head(que)[1] ELSE Nobody
              /\ que' = Tail(que) => Bodies' = Tail(Bodies)
<1>0. Len(que) \in Nat /\ \A i \in 1..Len(que) : que[i] \in Parts
  OBVIOUS
<1>1. \A p \in Parts : (IF p[2] = "body" THEN p[1] ELSE Nobody) \in Calls \cup {Nobody}
  BY DEF Parts
<1>2. Bodies \in Seq(Calls \cup {Nobody}) /\ Len(Bodies) = Len(que)
  BY <1>0, <1>1 DEF Bodies
<1>3. \A i \in 1..Len(que) : Bodies[i] = IF que[i][2] = "body" THEN que[i][1] ELSE Nobody
  BY DEF Bodies
<1>4. ASSUME NEW p \in Parts, que' = Append(que, p)
      PROVE  Bodies' = Append(Bodies, IF p[2] = "body" THEN p[1] ELSE Nobody)
  <2> DEFINE e == IF p[2] = "body" THEN p[1] ELSE Nobody
             B == Append(Bodies, e)
  <2>1. Len(que') = Len(que) + 1 /\ que'[Len(que) + 1] = p /\ \A i \in 1..Len(que) : que'[i] = que[i]
    BY <1>4
  <2>2. B = [i \in 1..(Len(que) + 1) |-> IF i = Len(que) + 1 THEN e ELSE Bodies[i]]
    BY <1>0, <1>2
  <2>3. Bodies' = [i \in 1..(Len(que) + 1) |-> IF que'[i][2] = "body" THEN que'[i][1] ELSE Nobody]
    BY <2>1 DEF Bodies
  <2>4. \A i \in 1..(Len(que) + 1) :
          (IF que'[i][2] = "body" THEN que'[i][1] ELSE Nobody) = (IF i = Len(que) + 1 THEN e ELSE Bodies[i])
    BY <1>0, <1>3, <2>1
  <2> QED BY <2>2, <2>3, <2>4
<1>5. ASSUME que # <<>>
      PROVE  /\ Bodies # <<>> /\ Head(Bodies) = IF Head(que)[2] = "body" THEN Head(que)[1] ELSE Nobody
             /\ que' = Tail(que) => Bodies' = Tail(Bodies)
  <2>1. /\ Len(que) \in Nat \ {0} /\ Head(que) = que[1] /\ Len(Tail(que)) = Len(que) - 1
        /\ \A i \in 1..(Len(que) - 1) : Tail(que)[i] = que[i + 1]
    BY <1>5, QueueFacts
  <2>2. Bodies # <<>>
    BY <1>2, <2>1
  <2>3. /\ Head(Bodies) = Bodies[1] /\ Tail(Bodies) \in Seq(Calls \cup {Nobody})
        /\ Len(Tail(Bodies)) = Len(que) - 1 /\ \A i \in 1..(Len(que) - 1) : Tail(Bodies)[i] = Bodies[i + 1]
    BY <1>2, <2>2, QueueFacts
  <2>4. ASSUME que' = Tail(que) PROVE Bodies' = Tail(Bodies)
    <3>1. Bodies' = [i \in 1..(Len(que) - 1) |-> IF que'[i][2] = "body" THEN que'[i][1] ELSE Nobody]
      BY <2>1, <2>4 DEF Bodies
    <3>2. \A i \in 1..(Len(que) - 1) :
            (IF que'[i][2] = "body" THEN que'[i][1] ELSE Nobody) = Bodies[i + 1]
      <4> TAKE i \in 1..(Len(que) - 1)
      <4>1. que'[i] = que[i + 1] /\ i + 1 \in 1..Len(que)
        BY <2>1, <2>4
      <4> QED BY <1>3, <4>1
    <3>3. Bodies' \in Seq(Calls \cup {Nobody}) /\ Len(Bodies') = Len(que) - 1
      BY <1>1, <2>1, <2>4 DEF Bodies
    <3>4. \A i \in 1..(Len(que) - 1) : Bodies'[i] = Tail(Bodies)[i]
      BY <2>3, <3>1, <3>2
    <3> QED BY <2>3, <3>3, <3>4
  <2> QED BY <1>3, <2>1, <2>2, <2>3, <2>4
<1> QED BY <1>2, <1>4, <1>5

\* A step that leaves the line alone, one by which a request enters it, and one after
\* which no more than before is in it.
Sends(c) ==
  pc[c] = "body" /\ ~shut /\ SendBody(c) /\ Located' = Located \cup {c} /\ Answering' = Answering
Consumes == HandleResponse \/ HandleSyncResponse
Shrinks ==
  /\ Located' \in SUBSET Located /\ Answering' \in SUBSET (Answering \cup (Calls \ Notify))
  /\ Live' => \A c \in Located \ Located' : c \in Notify \/ (c \in AtHand /\ Consumes)

LEMMA LineQuiet ==
  ASSUME UNCHANGED << que, wire, inbox >>, AtHand' = AtHand
  PROVE  Located' = Located /\ In(inbox)' = In(inbox) /\ In(wire)' = In(wire) /\ In(Bodies)' = In(Bodies)
         /\ Bodies' = Bodies /\ Answering' = Answering /\ \A rank : Lined(rank) => Lined(rank)'
<1>1. Bodies' = Bodies
  BY DEF Bodies
<1>2. In(inbox)' = In(inbox) /\ In(wire)' = In(wire) /\ In(Bodies)' = In(Bodies)
  BY <1>1 DEF In
<1>3. Located' = Located /\ Answering' = Answering
  BY <1>2 DEF Located, Answering
<1>4. ASSUME NEW rank, Lined(rank) PROVE Lined(rank)'
  <2>1. Rises(rank, inbox)' /\ Rises(rank, wire)' /\ Rises(rank, Bodies)'
    BY <1>1, <1>4 DEF Lined, Rises
  <2> QED BY <1>2, <1>4, <2>1 DEF Lined, Precede
<1> QED BY <1>1, <1>2, <1>3, <1>4

LEMMA LineWrite ==
  ASSUME Shapes, HandleWrite, NEW rank, Lined(rank)
  PROVE  Shrinks /\ Lined(rank)'
<1>0. que \in Seq(Parts) /\ que # <<>> /\ wire \in Seq(Calls) /\ inbox' = inbox /\ reader' = reader /\ que' = Tail(que)
  BY DEF Shapes, StreamShapes, HandleWrite
<1> DEFINE b == Head(Bodies)
<1>1. /\ Bodies \in Seq(Calls \cup {Nobody}) /\ Bodies # <<>> /\ Bodies' = Tail(Bodies)
      /\ b = IF Head(que)[2] = "body" THEN Head(que)[1] ELSE Nobody
  BY <1>0, BodiesFacts
<1>2. /\ In(Bodies) = In(Tail(Bodies)) \cup ({b} \cap Calls)
      /\ Rises(rank, Tail(Bodies)) /\ (b \in Calls => \A d \in In(Tail(Bodies)) : rank[b] < rank[d])
  BY <1>1, InTail DEF Lined
<1>3. In(Bodies)' = In(Tail(Bodies)) /\ In(inbox)' = In(inbox) /\ AtHand' = AtHand
  BY <1>0, <1>1 DEF AtHand, In
<1>4. Rises(rank, Bodies)' /\ Rises(rank, inbox)'
  BY <1>0, <1>1, <1>2 DEF Lined, Rises
<1>5. b \in Calls \/ b = Nobody
  BY <1>1, QueueFacts
<1>6. Nobody \notin Calls
  BY CallsAssumption DEF Closers
<1>7. CASE b \in Calls /\ b \notin Notify
  <2>1. wire' = Append(wire, b)
    BY <1>1, <1>6, <1>7 DEF HandleWrite
  <2>2. \A d \in In(wire) : rank[d] < rank[b]
    BY <1>2, <1>7 DEF Lined, Precede
  <2>3. In(Append(wire, b)) = In(wire) \cup {b} /\ Rises(rank, Append(wire, b))
    BY <1>0, <1>7, <2>2, InAppend DEF Lined
  <2>4. In(wire)' = In(wire) \cup {b} /\ Rises(rank, wire)'
    BY <2>1, <2>3 DEF In, Rises
  <2>5. In(Bodies) = In(Bodies)' \cup {b}
    BY <1>2, <1>3, <1>7
  <2>6. Located' = Located /\ Answering' = Answering \cup {b}
    BY <1>3, <2>4, <2>5 DEF Located, Answering
  <2>7. Lined(rank)'
    BY <1>2, <1>3, <1>4, <1>7, <2>4, <2>5 DEF Lined, Precede
  <2> QED BY <1>7, <2>6, <2>7 DEF Shrinks
<1>8. CASE b = Nobody \/ b \in Notify
  <2>1. wire' = wire
    <3>1. b # Nobody => Head(que)[2] = "body" /\ Head(que)[1] = b
      BY <1>1
    <3>2. CASE b = Nobody
      <4>1. Head(que) \in Parts /\ (Head(que)[2] = "body" => Head(que)[1] = Nobody)
        BY <1>0, <1>1, <3>2, QueueFacts
      <4>2. Head(que)[2] # "body"
        BY <1>6, <4>1 DEF Parts
      <4> QED BY <4>2 DEF HandleWrite
    <3>3. CASE b \in Notify
      <4>1. b # Nobody
        BY <1>6, <3>3, Kinds
      <4> QED BY <3>1, <3>3, <4>1 DEF HandleWrite
    <3> QED BY <1>8, <3>2, <3>3
  <2>2. In(wire)' = In(wire) /\ Rises(rank, wire)'
    BY <2>1 DEF In, Lined, Rises
  <2>3. In(Bodies)' \in SUBSET In(Bodies) /\ \A c \in In(Bodies) \ In(Bodies)' : c \in Notify
    BY <1>2, <1>3, <1>6, <1>8
  <2>4. Lined(rank)'
    BY <1>3, <1>4, <2>2, <2>3 DEF Lined, Precede
  <2>5. Shrinks
    BY <1>3, <2>2, <2>3 DEF Located, Answering, Shrinks
  <2> QED BY <2>4, <2>5
<1> QED BY <1>5, <1>7, <1>8

LEMMA LinePeer ==
  ASSUME Shapes, PeerAnswers \/ PeerInvokes, NEW rank, Lined(rank)
  PROVE  Shrinks /\ Lined(rank)'
<1>0. inbox \in Seq(Closers) /\ wire \in Seq(Calls) /\ que' = que /\ reader' = reader
  BY DEF Shapes, StreamShapes, PeerAnswers, PeerInvokes, sendVars
<1>1. In(Bodies)' = In(Bodies) /\ AtHand' = AtHand /\ Rises(rank, Bodies)'
  BY <1>0 DEF Bodies, AtHand, In, Lined, Rises
<1>2. CASE PeerInvokes
  <2>1. inbox' = Append(inbox, Node) /\ wire' = wire
    BY <1>2 DEF PeerInvokes
  <2>2. In(Append(inbox, Node)) = In(inbox) /\ Rises(rank, Append(inbox, Node))
    <3>1. Rises(rank, inbox) /\ Node \in Closers /\ {Node} \cap Calls = {}
      BY Kinds DEF Lined
    <3>2. In(Append(inbox, Node)) = In(inbox) \cup ({Node} \cap Calls)
      BY <1>0, <3>1, InAppend
    <3>3. Rises(rank, Append(inbox, Node))
      <4>1. \A r : Rises(r, inbox) /\ (Node \in Calls => \A d \in In(inbox) : r[d] < r[Node])
                     => Rises(r, Append(inbox, Node))
        BY <1>0, <3>1, InAppend
      <4> QED BY <3>1, <4>1
    <3> QED BY <3>1, <3>2, <3>3
  <2>3. In(inbox)' = In(inbox) /\ Rises(rank, inbox)' /\ In(wire)' = In(wire) /\ Rises(rank, wire)'
    BY <2>1, <2>2 DEF In, Lined, Rises
  <2> QED BY <1>1, <2>3 DEF Located, Answering, Shrinks, Lined, Precede
<1>3. CASE PeerAnswers
  <2> DEFINE a == Head(wire)
  <2>1. wire # <<>> /\ a \in Calls /\ a \in Closers /\ inbox' = Append(inbox, a) /\ wire' = Tail(wire)
    BY <1>0, <1>3, QueueFacts, Kinds DEF PeerAnswers
  <2>2. /\ In(wire) = In(Tail(wire)) \cup {a} /\ Rises(rank, Tail(wire))
        /\ \A d \in In(Tail(wire)) : rank[a] < rank[d]
    BY <1>0, <2>1, InTail DEF Lined
  <2>3. \A d \in In(inbox) : rank[d] < rank[a]
    BY <2>2 DEF Lined, Precede
  <2>4. In(Append(inbox, a)) = In(inbox) \cup {a} /\ Rises(rank, Append(inbox, a))
    BY <1>0, <2>1, <2>3, InAppend DEF Lined
  <2>5. /\ In(inbox)' = In(inbox) \cup {a} /\ Rises(rank, inbox)'
        /\ In(wire)' = In(Tail(wire)) /\ Rises(rank, wire)'
    BY <2>1, <2>2, <2>4 DEF In, Rises
  <2>6. Located' = Located /\ Answering' = Answering
    BY <1>1, <2>2, <2>5 DEF Located, Answering
  <2>7. Lined(rank)'
    BY <1>1, <2>2, <2>3, <2>5 DEF Lined, Precede
  <2> QED BY <2>6, <2>7 DEF Shrinks
<1> QED BY <1>2, <1>3

LEMMA LineRecv ==
  ASSUME Shapes, HandleRecv, NEW rank, Lined(rank)
  PROVE  Shrinks /\ Lined(rank)'
<1>0. /\ inbox \in Seq(Closers) /\ inbox # <<>> /\ inbox' = Tail(inbox) /\ que' = que /\ wire' = wire
      /\ AtHand = {}
  BY DEF Shapes, StreamShapes, HandleRecv, sendVars, AtHand
<1> DEFINE a == Head(inbox)
<1>1. /\ In(inbox) = In(Tail(inbox)) \cup ({a} \cap Calls)
      /\ Rises(rank, Tail(inbox)) /\ (a \in Calls => \A d \in In(Tail(inbox)) : rank[a] < rank[d])
  BY <1>0, InTail DEF Lined
<1>2. In(inbox)' = In(Tail(inbox)) /\ Rises(rank, inbox)'
  BY <1>0, <1>1 DEF In, Rises
<1>3. In(Bodies)' = In(Bodies) /\ Rises(rank, Bodies)' /\ In(wire)' = In(wire) /\ Rises(rank, wire)'
  BY <1>0 DEF Bodies, In, Lined, Rises
<1>4. AtHand' = IF closeCalled THEN {} ELSE {a} \cap Calls
  <2>1. CASE closeCalled
    BY <2>1 DEF HandleRecv, WantClose, NotReading, AtHand
  <2>2. CASE ~closeCalled
    <3>1. reader' = [pc |-> "got", msg |-> a]
      BY <2>2 DEF HandleRecv
    <3> QED BY <2>2, <3>1 DEF AtHand
  <2> QED BY <2>1, <2>2
<1>5. Lined(rank)'
  BY <1>1, <1>2, <1>3, <1>4 DEF Lined, Precede
<1>6. closeCalled' = closeCalled
  BY DEF HandleRecv
<1>7. Shrinks
  BY <1>0, <1>1, <1>2, <1>3, <1>4, <1>6 DEF Located, Answering, Shrinks, Live
<1> QED BY <1>5, <1>7

\* What has been read is the first of all answers.
LEMMA LineConsumes ==
  ASSUME Shapes, Consumes, NEW rank \in [Calls -> Nat], Lined(rank)
  PROVE  /\ Shrinks /\ Lined(rank)' /\ reader.msg \in Calls /\ reader.msg \in Located
         /\ reader.msg \notin Located' /\ \A d \in Located : d # reader.msg => rank[reader.msg] < rank[d]
<1>1. reader.pc = "got" /\ reader.msg \in Calls /\ UNCHANGED << que, wire, inbox >>
  BY DEF Consumes, HandleResponse, HandleSyncResponse, sendVars, peerVars
<1>2. AtHand = {reader.msg} /\ AtHand' = {}
  BY <1>1 DEF Consumes, HandleResponse, HandleSyncResponse, WantClose, Reading, NotReading, AtHand
<1>3. /\ In(inbox)' = In(inbox) /\ In(wire)' = In(wire) /\ In(Bodies)' = In(Bodies)
      /\ Rises(rank, inbox)' /\ Rises(rank, wire)' /\ Rises(rank, Bodies)'
  BY <1>1 DEF Bodies, In, Lined, Rises
<1>4. \A d \in In(inbox) \cup In(wire) \cup In(Bodies) : rank[reader.msg] < rank[d]
  BY <1>2 DEF Lined, Precede
<1>5. reader.msg \notin In(inbox) \cup In(wire) \cup In(Bodies)
  BY <1>1, <1>4
<1>6. Lined(rank)'
  BY <1>2, <1>3 DEF Lined, Precede
<1>7. Shrinks
  BY <1>2, <1>3 DEF Located, Answering, Shrinks
<1> QED BY <1>1, <1>2, <1>3, <1>4, <1>5, <1>6, <1>7 DEF Located, Answering

\* A header or a packet of the node is nobody's request.
LEMMA LineOther ==
  ASSUME Shapes, NEW p \in Parts, p[2] # "body", Enqueue(p), UNCHANGED << wire, inbox >>, AtHand' = AtHand,
         NEW rank, Lined(rank)
  PROVE  Shrinks /\ Located' = Located /\ Lined(rank)'
<1>1. que \in Seq(Parts) /\ que' = Append(que, p)
  BY DEF Shapes, StreamShapes, Enqueue
<1>2. Bodies \in Seq(Calls \cup {Nobody}) /\ Bodies' = Append(Bodies, Nobody)
  BY <1>1, BodiesFacts
<1>3. Nobody \notin Calls
  BY CallsAssumption DEF Closers
<1>4. In(Append(Bodies, Nobody)) = In(Bodies) /\ Rises(rank, Append(Bodies, Nobody))
  <2>1. Rises(rank, Bodies) /\ {Nobody} \cap Calls = {}
    BY <1>3 DEF Lined
  <2>2. /\ In(Append(Bodies, Nobody)) = In(Bodies) \cup ({Nobody} \cap Calls)
        /\ \A r : Rises(r, Bodies) /\ (Nobody \in Calls => \A d \in In(Bodies) : r[d] < r[Nobody])
                    => Rises(r, Append(Bodies, Nobody))
    BY <1>2, InAppend
  <2> QED BY <1>3, <2>1, <2>2
<1>5. In(Bodies)' = In(Bodies) /\ Rises(rank, Bodies)'
  BY <1>2, <1>4 DEF In, Rises
<1>6. /\ In(inbox)' = In(inbox) /\ In(wire)' = In(wire) /\ Rises(rank, inbox)' /\ Rises(rank, wire)'
  BY DEF In, Lined, Rises
<1>7. Located' = Located /\ Answering' = Answering
  BY <1>5, <1>6 DEF Located, Answering
<1>8. Lined(rank)'
  BY <1>5, <1>6 DEF Lined, Precede
<1> QED BY <1>7, <1>8 DEF Shrinks

LEMMA LineBody ==
  ASSUME Shapes, NEW c \in Calls, SendBody(c), ~shut
  PROVE  /\ Located' = Located \cup {c} /\ Sends(c)
         /\ \A rank : Lined(rank) /\ (\A d \in Located : rank[d] < rank[c]) => Lined(rank)'
<1>1. /\ que \in Seq(Parts) /\ que' = Append(que, << c, "body" >>) /\ << c, "body" >> \in Parts
      /\ UNCHANGED << wire, inbox, reader >>
  BY DEF Shapes, StreamShapes, SendBody, Enqueue, Parts, peerVars
<1>2. Bodies \in Seq(Calls \cup {Nobody}) /\ Bodies' = Append(Bodies, c)
  BY <1>1, BodiesFacts
<1>3. In(Append(Bodies, c)) = In(Bodies) \cup {c}
  BY <1>2, InAppend
<1>4. In(Bodies)' = In(Bodies) \cup {c} /\ In(inbox)' = In(inbox) /\ In(wire)' = In(wire) /\ AtHand' = AtHand
  BY <1>1, <1>2, <1>3 DEF In, AtHand
<1>5. Located' = Located \cup {c} /\ Answering' = Answering
  BY <1>4 DEF Located, Answering
<1>6. ASSUME NEW rank, Lined(rank), \A d \in Located : rank[d] < rank[c]
      PROVE  Lined(rank)'
  <2>1. Rises(rank, Append(Bodies, c))
    BY <1>2, <1>6, InAppend DEF Lined, Located, Answering
  <2>2. Rises(rank, Bodies)' /\ Rises(rank, inbox)' /\ Rises(rank, wire)'
    BY <1>1, <1>2, <1>6, <2>1 DEF Lined, Rises
  <2> QED BY <1>4, <1>6, <2>2 DEF Lined, Precede, Located, Answering
<1> QED BY <1>5, <1>6 DEF Sends, SendBody

LEMMA LineStep ==
  ASSUME Shapes, [Next]_vars, NEW rank \in [Calls -> Nat], Lined(rank)
  PROVE  (\E c \in Calls : Sends(c)) \/ (Shrinks /\ Lined(rank)')
<1>1. CASE UNCHANGED << que, wire, inbox >> /\ AtHand' = AtHand
  BY <1>1, LineQuiet DEF Shrinks
<1>2. CASE UNCHANGED << que, wire, inbox, reader >>
  BY <1>1, <1>2 DEF AtHand
<1>3. ASSUME NEW c \in Calls, FindAndLock(c) \/ Enter(c) \/ SendOverflow(c) \/ SendOverflowed(c)
      PROVE  Shrinks /\ Lined(rank)'
  BY <1>2, <1>3, LineQuiet DEF FindAndLock, Enter, SendOverflow, SendOverflowed, sendVars, peerVars, Shrinks, AtHand
<1>4. ASSUME NEW c \in Calls, SendHead(c) PROVE Shrinks /\ Lined(rank)'
  <2>1. UNCHANGED << wire, inbox, reader >> /\ AtHand' = AtHand
    BY <1>4 DEF SendHead, peerVars, AtHand
  <2>2. CASE Enqueue(<< c, "head" >>)
    <3>1. << c, "head" >> \in Parts /\ << c, "head" >>[2] # "body"
      BY DEF Parts
    <3> QED BY <2>1, <2>2, <3>1, LineOther
  <2>3. CASE ~Enqueue(<< c, "head" >>)
    <3>1. que' = que
      BY <1>4, <2>3 DEF SendHead, sendVars
    <3> QED BY <2>1, <3>1, LineQuiet DEF Shrinks
  <2> QED BY <2>2, <2>3
<1>5. ASSUME NEW c \in Calls, SendBody(c) PROVE Sends(c) \/ (Shrinks /\ Lined(rank)')
  <2>1. CASE ~shut
    BY <1>5, <2>1, LineBody
  <2>2. CASE shut
    <3>1. UNCHANGED << que, wire, inbox, reader >>
      BY <1>5, <2>2 DEF SendBody, Enqueue, sendVars, peerVars
    <3>2. AtHand' = AtHand
      BY <3>1 DEF AtHand
    <3> QED BY <3>1, <3>2, LineQuiet DEF Shrinks
  <2> QED BY <2>1, <2>2
<1>6. ASSUME NEW c \in Async, AddHandler(c) \/ ReportError(c) \/ TimerExpires(c) \/ TimerRuns(c)
      PROVE  UNCHANGED << que, wire, inbox, reader >>
  BY <1>6 DEF AddHandler, ReportError, TimerExpires, TimerRuns, sendVars, peerVars
<1>7. ASSUME NEW c \in Sync, InvokeReturns(c) \/ InvokeTimeout(c) PROVE UNCHANGED << que, wire, inbox, reader >>
  BY <1>7 DEF InvokeReturns, InvokeTimeout, sendVars, peerVars
<1>8. ASSUME NEW x \in Closers, CloseEnds(x) PROVE UNCHANGED << que, wire, inbox, reader >>
  BY <1>8 DEF CloseEnds, sendVars, peerVars
<1>9. CASE NodeCloses \/ Release \/ HandleWriteError \/ Destroy \/ UNCHANGED vars
  BY <1>2, <1>9 DEF NodeCloses, Release, HandleWriteError, Destroy, vars, sendVars, peerVars
<1>10. CASE ReadError \/ ReadEof \/ HandleRequestOverflow
  <2>1. UNCHANGED << que, wire, inbox >>
    BY <1>10 DEF ReadError, ReadEof, HandleRequestOverflow, sendVars, peerVars
  <2>2. AtHand = {} /\ AtHand' = {}
    BY <1>10, Kinds DEF ReadError, ReadEof, HandleRequestOverflow, NotReading, AtHand
  <2> QED BY <1>1, <2>1, <2>2
<1>11. CASE HandleRequest
  <2>1. UNCHANGED << wire, inbox >>
    BY <1>11 DEF HandleRequest, peerVars
  <2>2. AtHand = {} /\ AtHand' = {}
    BY <1>11, Kinds DEF HandleRequest, Reading, NotReading, WantClose, AtHand
  <2>3. CASE Enqueue(<< Node, "packet" >>)
    <3>1. << Node, "packet" >> \in Parts /\ << Node, "packet" >>[2] # "body"
      BY DEF Parts
    <3> QED BY <2>1, <2>2, <2>3, <3>1, LineOther
  <2>4. CASE ~Enqueue(<< Node, "packet" >>)
    <3>1. que' = que
      BY <1>11, <2>4 DEF HandleRequest, sendVars
    <3> QED BY <1>1, <2>1, <2>2, <3>1
  <2> QED BY <2>3, <2>4
<1>12. CASE HandleWrite
  BY <1>12, LineWrite
<1>13. CASE PeerAnswers \/ PeerInvokes
  BY <1>13, LinePeer
<1>14. CASE HandleRecv
  BY <1>14, LineRecv
<1>15. CASE HandleResponse \/ HandleSyncResponse
  BY <1>15, LineConsumes DEF Consumes
<1> QED BY <1>2, <1>3, <1>4, <1>5, <1>6, <1>7, <1>8, <1>9, <1>10, <1>11, <1>12, <1>13, <1>14, <1>15
        DEF Next, CallStep, Read, Write

\* How a step moves a call.
Ended == {"err", "failed", "overflow"}
Moved(c) ==
  \/ pc'[c] = pc[c]
  \/ pc[c] = "idle" /\ pc'[c] \in {"refused", "ref"}
  \/ pc[c] = "ref" /\ pc'[c] = "head" /\ Enter(c)
  \/ pc[c] = "head" /\ (pc'[c] \in Ended \cup {"add"} \/ (pc'[c] = "body" /\ c \notin Async))
  \/ pc[c] = "add" /\ pc'[c] \in {"err", "body"} /\ c \in Async /\ AddHandler(c)
  \/ pc[c] = "body" /\ ~shut /\ SendBody(c) /\ pc'[c] = (IF c \in Sync THEN "wait" ELSE "sent")
  \/ pc[c] = "body" /\ shut' /\ pc'[c] \in Ended
  \/ pc[c] \in {"overflow", "err"} /\ pc'[c] \in {"err", "failed"}
  \/ pc[c] = "wait" /\ pc'[c] \in {"sent", "failed"} /\ c \in Sync /\ InvokeReturns(c)
  \/ pc[c] = "wait" /\ pc'[c] = "closing" /\ closeCalled'
  \/ pc[c] = "closing" /\ pc'[c] = "failed"

LEMMA PcStep ==
  ASSUME Shapes, PlaceInv, [Next]_vars, NEW d \in Calls
  PROVE  Moved(d)
<1>0. pc \in [Calls -> Labels] /\ shut \in BOOLEAN
  BY DEF Shapes, CallShapes, FlagShapes
<1>1. ASSUME NEW c \in Calls, NEW l \in Labels, Goto(c, l), c = d => Moved(c)
      PROVE  Moved(d)
  <2>1. CASE c # d
    <3>1. pc'[d] = pc[d]
      BY <1>0, <1>1, <2>1 DEF Goto
    <3> QED BY <3>1 DEF Moved
  <2> QED BY <1>1, <2>1
<1>2. ASSUME NEW c \in Calls, NEW l \in Labels, Goto(c, l)
      PROVE  pc'[c] = l
  BY <1>0, <1>2 DEF Goto
<1>3. ASSUME pc' = pc PROVE Moved(d)
  BY <1>3 DEF Moved
<1>4. ASSUME NEW c \in Calls, FindAndLock(c) PROVE Moved(d)
  <2>1. PICK l \in {"refused", "ref"} : pc[c] = "idle" /\ Goto(c, l)
    BY <1>4 DEF FindAndLock
  <2>2. l \in Labels
    BY DEF Labels
  <2>3. Moved(c)
    BY <1>2, <2>1, <2>2 DEF Moved
  <2> QED BY <1>1, <2>1, <2>2, <2>3
<1>5. ASSUME NEW c \in Calls, Enter(c) PROVE Moved(d)
  <2>1. pc[c] = "ref" /\ Goto(c, "head") /\ "head" \in Labels
    BY <1>5 DEF Enter, Labels
  <2>2. Moved(c)
    BY <1>2, <1>5, <2>1 DEF Moved
  <2> QED BY <1>1, <2>1, <2>2
<1>6. ASSUME NEW c \in Calls, SendHead(c) PROVE Moved(d)
  <2>1. PICK l \in Labels : Goto(c, l) /\ (l \in Ended \cup {"add"} \/ (l = "body" /\ c \notin Async))
    BY <1>6 DEF SendHead, Failed, Labels, Ended
  <2>2. Moved(c)
    BY <1>2, <1>6, <2>1 DEF SendHead, Moved
  <2> QED BY <1>1, <2>1, <2>2
<1>7. ASSUME NEW c \in Async, AddHandler(c) PROVE Moved(d)
  <2>1. PICK l \in {"err", "body"} : pc[c] = "add" /\ Goto(c, l)
    BY <1>7 DEF AddHandler
  <2>2. l \in Labels /\ c \in Calls
    BY Kinds DEF Labels
  <2>3. Moved(c)
    BY <1>2, <1>7, <2>1, <2>2 DEF Moved
  <2> QED BY <1>1, <2>1, <2>2, <2>3
<1>8. ASSUME NEW c \in Calls, SendBody(c) PROVE Moved(d)
  <2>1. CASE shut
    <3>1. PICK l \in {"err", "failed"} : Goto(c, l) /\ pc[c] = "body" /\ shut'
      BY <1>8, <2>1 DEF SendBody, Enqueue, Failed, closeVars
    <3>2. l \in Labels /\ l \in Ended
      BY DEF Labels, Ended
    <3>3. Moved(c)
      BY <1>2, <3>1, <3>2 DEF Moved
    <3> QED BY <1>1, <3>1, <3>2, <3>3
  <2>2. CASE ~shut
    <3> DEFINE l == IF c \in Sync THEN "wait" ELSE "sent"
    <3>1. Goto(c, l) /\ pc[c] = "body"
      BY <1>8, <2>2 DEF SendBody
    <3>2. l \in Labels
      BY DEF Labels
    <3> HIDE DEF l
    <3>3. pc'[c] = l
      BY <1>2, <3>1, <3>2
    <3>4. Moved(c)
      BY <1>8, <2>2, <3>1, <3>3 DEF Moved, l
    <3> QED BY <1>1, <3>1, <3>2, <3>4
  <2> QED BY <2>1, <2>2
<1>9. ASSUME NEW c \in Calls, SendOverflow(c) PROVE Moved(d)
  <2>1. pc[c] \in {"head", "body"} /\ Goto(c, "overflow") /\ shut' /\ "overflow" \in Labels /\ "overflow" \in Ended
    BY <1>9 DEF SendOverflow, Overflow, Labels, Ended
  <2>2. Moved(c)
    BY <1>2, <2>1 DEF Moved
  <2> QED BY <1>1, <2>1, <2>2
<1>10. ASSUME NEW c \in Calls, SendOverflowed(c) PROVE Moved(d)
  <2>1. PICK l \in {"err", "failed"} : pc[c] = "overflow" /\ Goto(c, l)
    BY <1>10 DEF SendOverflowed, Failed
  <2>2. l \in Labels
    BY DEF Labels
  <2>3. Moved(c)
    BY <1>2, <2>1, <2>2 DEF Moved
  <2> QED BY <1>1, <2>1, <2>2, <2>3
<1>11. ASSUME NEW c \in Async, ReportError(c) PROVE Moved(d)
  <2>1. pc[c] = "err" /\ Goto(c, "failed") /\ "failed" \in Labels /\ c \in Calls
    BY <1>11, Kinds DEF ReportError, Labels
  <2>2. Moved(c)
    BY <1>2, <2>1 DEF Moved
  <2> QED BY <1>1, <2>1, <2>2
<1>12. ASSUME NEW c \in Sync, InvokeReturns(c) PROVE Moved(d)
  <2>1. PICK l \in {"sent", "failed"} : pc[c] = "wait" /\ Goto(c, l)
    BY <1>12 DEF InvokeReturns
  <2>2. l \in Labels /\ c \in Calls
    BY Kinds DEF Labels
  <2>3. Moved(c)
    BY <1>2, <1>12, <2>1, <2>2 DEF Moved
  <2> QED BY <1>1, <2>1, <2>2, <2>3
<1>13. ASSUME NEW c \in Sync, InvokeTimeout(c) PROVE Moved(d)
  <2>1. pc[c] = "wait" /\ Goto(c, "closing") /\ closeCalled' /\ "closing" \in Labels /\ c \in Calls
    BY <1>13, Kinds DEF InvokeTimeout, Labels
  <2>2. Moved(c)
    BY <1>2, <2>1 DEF Moved
  <2> QED BY <1>1, <2>1, <2>2
<1>14. ASSUME NEW x \in Closers, CloseEnds(x) PROVE Moved(d)
  <2>1. CASE x \in Sync /\ Goto(x, "failed")
    <3>1. pc[x] = "closing" /\ "failed" \in Labels /\ x \in Calls
      BY <1>14, <2>1, Kinds DEF CloseEnds, PlaceInv, Labels
    <3>2. Moved(x)
      BY <1>2, <2>1, <3>1 DEF Moved
    <3> QED BY <1>1, <2>1, <3>1, <3>2
  <2>2. CASE pc' = pc
    BY <1>3, <2>2
  <2> QED BY <1>14, <2>1, <2>2 DEF CloseEnds
<1>15. ASSUME NEW c \in Async, TimerExpires(c) \/ TimerRuns(c) PROVE Moved(d)
  BY <1>3, <1>15 DEF TimerExpires, TimerRuns, callVars
<1>16. CASE NodeCloses \/ Release \/ Write \/ HandleRecv \/ Read \/ ReadError \/ ReadEof \/ Destroy
            \/ PeerAnswers \/ PeerInvokes \/ UNCHANGED vars
  BY <1>3, <1>16 DEF NodeCloses, Release, Write, HandleWrite, HandleWriteError, HandleRecv, Read, HandleResponse,
       HandleSyncResponse, HandleRequest, HandleRequestOverflow, ReadError, ReadEof, Destroy,
       PeerAnswers, PeerInvokes, vars, callVars
<1> QED BY <1>4, <1>5, <1>6, <1>7, <1>8, <1>9, <1>10, <1>11, <1>12, <1>13, <1>14, <1>15, <1>16
        DEF Next, CallStep

\* Where a call can get to.
LEMMA PcFacts ==
  ASSUME Shapes, PlaceInv, [Next]_vars, NEW c \in Calls
  PROVE  /\ pc[c] \in Past => pc'[c] \in Past
         /\ pc[c] \notin Before => pc'[c] \notin Before
         /\ HasCallLock(c)' => HasCallLock(c) \/ Enter(c)
         /\ c \in Entered => c \in Entered'
         /\ c \in Entered' => c \in Entered \/ Enter(c)
<1>1. Moved(c)
  BY PcStep
<1> QED BY <1>1 DEF Moved, Past, Before, HasCallLock, Entered, Ended

\* What a step does to the flags.
LEMMA FlagsGrow ==
  ASSUME [Next]_vars
  PROVE  /\ shut => shut'
         /\ closeCalled => closeCalled'
         /\ Live' => Live
<1>1. CASE UNCHANGED closeVars
  BY <1>1 DEF closeVars, Live
<1>2. CASE (Shutdown \/ UNCHANGED << shut, releasing >>) /\ UNCHANGED << released, closeCalled >>
  BY <1>2 DEF Shutdown, Live
<1>3. ASSUME NEW c \in Calls, FindAndLock(c) \/ Enter(c) \/ SendHead(c) \/ SendBody(c) \/ SendOverflowed(c)
      PROVE  UNCHANGED << shut, released, closeCalled >>
  BY <1>3 DEF FindAndLock, Enter, SendHead, SendBody, SendOverflowed, closeVars
<1>4. ASSUME NEW c \in Calls, SendOverflow(c) PROVE shut' /\ released' /\ closeCalled' = closeCalled
  BY <1>4 DEF SendOverflow, Overflow, ReleaseProtocol
<1>5. ASSUME NEW c \in Async, AddHandler(c) \/ ReportError(c) \/ TimerExpires(c)
      PROVE  UNCHANGED << shut, released, closeCalled >>
  BY <1>5 DEF AddHandler, ReportError, TimerExpires, closeVars
<1>6. ASSUME NEW c \in Sync, InvokeReturns(c) PROVE UNCHANGED << shut, released, closeCalled >>
  BY <1>6 DEF InvokeReturns, closeVars
<1>7. ASSUME NEW c \in Sync, InvokeTimeout(c) PROVE shut' = shut /\ closeCalled'
  BY <1>7 DEF InvokeTimeout
<1>8. ASSUME NEW c \in Async, TimerRuns(c) PROVE shut' = shut /\ closeCalled'
  BY <1>8 DEF TimerRuns
<1>9. ASSUME NEW x \in Closers, CloseEnds(x) PROVE (shut => shut') /\ (closeCalled => closeCalled') /\ (Live' => Live)
  BY <1>2, <1>9 DEF CloseEnds
<1>10. CASE NodeCloses
  BY <1>10 DEF NodeCloses, Live
<1>11. CASE Release
  BY <1>11 DEF Release, ReleaseProtocol, Live
<1>12. CASE Write \/ HandleRecv \/ ReadError
  BY <1>2, <1>12 DEF Write, HandleWrite, HandleWriteError, HandleRecv, ReadError, WantClose
<1>13. CASE HandleSyncResponse \/ HandleRequest
  BY <1>2, <1>13 DEF HandleSyncResponse, HandleRequest, WantClose
<1>14. CASE HandleRequestOverflow
  BY <1>14 DEF HandleRequestOverflow, Overflow, ReleaseProtocol, Live
<1>15. CASE Destroy
  BY <1>15 DEF Destroy, ReleaseProtocol, Live
<1>16. CASE HandleResponse \/ ReadEof \/ PeerAnswers \/ PeerInvokes \/ UNCHANGED vars
  BY <1>1, <1>16 DEF HandleResponse, ReadEof, PeerAnswers, PeerInvokes, vars
<1> QED BY <1>3, <1>4, <1>5, <1>6, <1>7, <1>8, <1>9, <1>10, <1>11, <1>12, <1>13, <1>14, <1>15, <1>16
        DEF Next, CallStep, Read, Live

\* What a step does to the handlers.
Kept  == handlers' = handlers /\ released' = released
Added(c) == AddHandler(c) /\ handlers' = Append(handlers, c) /\ ~released'
Taken == /\ HandleResponse /\ handlers # <<>> /\ timer[Head(handlers)] = "armed"
         /\ handlers' = Tail(handlers) /\ released' = released
Dropped == handlers' = <<>> /\ released'

LEMMA HandlersStep ==
  ASSUME Shapes, [Next]_vars
  PROVE  Kept \/ (\E c \in Async : Added(c)) \/ Taken \/ Dropped
<1>1. ASSUME NEW c \in Calls, FindAndLock(c) \/ Enter(c) \/ SendHead(c) \/ SendBody(c) \/ SendOverflowed(c)
      PROVE  Kept
  BY <1>1 DEF FindAndLock, Enter, SendHead, SendBody, SendOverflowed, closeVars, timerVars, Kept
<1>2. ASSUME NEW c \in Calls, SendOverflow(c) PROVE Dropped
  BY <1>2 DEF SendOverflow, Overflow, ReleaseProtocol, Dropped
<1>3. ASSUME NEW c \in Async, AddHandler(c) PROVE Kept \/ Added(c)
  BY <1>3 DEF AddHandler, closeVars, Kept, Added
<1>4. ASSUME NEW c \in Async, ReportError(c) \/ TimerExpires(c) \/ TimerRuns(c) PROVE Kept
  BY <1>4 DEF ReportError, TimerExpires, TimerRuns, closeVars, Kept
<1>5. ASSUME NEW c \in Sync, InvokeReturns(c) \/ InvokeTimeout(c) PROVE Kept
  BY <1>5 DEF InvokeReturns, InvokeTimeout, closeVars, timerVars, Kept
<1>6. ASSUME NEW x \in Closers, CloseEnds(x) PROVE Kept
  BY <1>6 DEF CloseEnds, Kept
<1>7. CASE Release \/ HandleRequestOverflow
  BY <1>7 DEF Release, HandleRequestOverflow, Overflow, ReleaseProtocol, Dropped
<1>8. CASE Destroy
  BY <1>8 DEF Destroy, ReleaseProtocol, timerVars, Kept, Dropped
<1>9. CASE HandleResponse
  BY <1>9 DEF HandleResponse, timerVars, closeVars, Kept, Taken
<1>10. CASE NodeCloses \/ Write \/ HandleRecv \/ HandleSyncResponse \/ HandleRequest \/ ReadError \/ ReadEof
            \/ PeerAnswers \/ PeerInvokes \/ UNCHANGED vars
  BY <1>10 DEF NodeCloses, Write, HandleWrite, HandleWriteError, HandleRecv, HandleSyncResponse, HandleRequest,
       ReadError, ReadEof, PeerAnswers, PeerInvokes, vars, timerVars, closeVars, Kept
<1> QED BY <1>1, <1>2, <1>3, <1>4, <1>5, <1>6, <1>7, <1>8, <1>9, <1>10 DEF Next, CallStep, Read

\* ... and to the calls in the list.
LEMMA HandlersFacts ==
  ASSUME Shapes, NEW rank, Rises(rank, handlers)
  PROVE  /\ In(handlers) \in SUBSET Async
         /\ Kept => In(handlers)' = In(handlers) /\ Rises(rank, handlers)'
         /\ \A c \in Async : Added(c) =>
              /\ In(handlers)' = In(handlers) \cup {c}
              /\ (\A d \in In(handlers) : rank[d] < rank[c]) => Rises(rank, handlers)'
         /\ handlers # <<>> =>
              /\ Head(handlers) \in Async /\ Head(handlers) \in In(handlers)
              /\ \A d \in In(handlers) : d = Head(handlers) \/ rank[Head(handlers)] < rank[d]
         /\ Taken => /\ In(handlers) = In(handlers)' \cup {Head(handlers)} /\ Rises(rank, handlers)'
                     /\ \A d \in In(handlers)' : rank[Head(handlers)] < rank[d]
         /\ Dropped => In(handlers)' = {} /\ Rises(rank, handlers)'
<1>0. handlers \in Seq(Async) /\ Async \in SUBSET Calls
  BY Kinds DEF Shapes, CallShapes
<1>1. In(handlers) \in SUBSET Async
  BY <1>0 DEF In
<1>2. Kept => In(handlers)' = In(handlers) /\ Rises(rank, handlers)'
  BY DEF Kept, In, Rises
<1>3. ASSUME NEW c \in Async, Added(c)
      PROVE  /\ In(handlers)' = In(handlers) \cup {c}
             /\ (\A d \in In(handlers) : rank[d] < rank[c]) => Rises(rank, handlers)'
  <2>1. handlers' = Append(handlers, c) /\ c \in Calls
    BY <1>0, <1>3 DEF Added
  <2>2. In(Append(handlers, c)) = In(handlers) \cup {c}
    BY <1>0, <2>1, InAppend
  <2>3. (\A d \in In(handlers) : rank[d] < rank[c]) => Rises(rank, Append(handlers, c))
    BY <1>0, <2>1, InAppend
  <2> QED BY <2>1, <2>2, <2>3 DEF In, Rises
<1>4. ASSUME handlers # <<>>
      PROVE  /\ Head(handlers) \in Async
             /\ In(handlers) = In(Tail(handlers)) \cup {Head(handlers)} /\ Rises(rank, Tail(handlers))
             /\ \A d \in In(Tail(handlers)) : rank[Head(handlers)] < rank[d]
  <2>1. Head(handlers) \in Async /\ Head(handlers) \in Calls
    BY <1>0, <1>4, QueueFacts
  <2>2. In(handlers) = In(Tail(handlers)) \cup ({Head(handlers)} \cap Calls)
    BY <1>0, <1>4, InTail
  <2>3. Rises(rank, Tail(handlers)) /\ (Head(handlers) \in Calls => \A d \in In(Tail(handlers)) : rank[Head(handlers)] < rank[d])
    BY <1>0, <1>4, InTail
  <2> QED BY <2>1, <2>2, <2>3
<1>5. ASSUME Taken
      PROVE  /\ In(handlers) = In(handlers)' \cup {Head(handlers)} /\ Rises(rank, handlers)'
             /\ \A d \in In(handlers)' : rank[Head(handlers)] < rank[d]
  <2>1. handlers # <<>> /\ handlers' = Tail(handlers)
    BY <1>5 DEF Taken
  <2>2. In(handlers)' = In(Tail(handlers)) /\ (Rises(rank, Tail(handlers)) => Rises(rank, handlers)')
    BY <2>1 DEF In, Rises
  <2> QED BY <1>4, <2>1, <2>2
<1>6. ASSUME Dropped PROVE In(handlers)' = {} /\ Rises(rank, handlers)'
  BY <1>6 DEF Dropped, In, Rises
<1> QED BY <1>1, <1>2, <1>3, <1>4, <1>5, <1>6

\* Timers are started by add_invoke_response_handler alone.
LEMMA ArmedStep ==
  ASSUME Shapes, [Next]_vars, NEW d \in Async, timer'[d] = "armed"
  PROVE  timer[d] = "armed" \/ AddHandler(d)
<1>0. timer \in [Async -> Times] /\ CallShapes
  BY DEF Shapes, CallShapes
<1>1. CASE timer' = timer
  BY <1>1
<1>2. ASSUME NEW c \in Async, NEW t \in Times, t # "armed", timer' = [timer EXCEPT ![c] = t]
      PROVE  timer[d] = "armed"
  BY <1>0, <1>2
<1>3. CASE ReleaseProtocol
  BY <1>0, <1>3, ReleaseFacts
<1>4. ASSUME NEW c \in Calls, FindAndLock(c) \/ Enter(c) \/ SendHead(c) \/ SendBody(c) \/ SendOverflowed(c)
      PROVE  timer' = timer
  BY <1>4 DEF FindAndLock, Enter, SendHead, SendBody, SendOverflowed, timerVars
<1>5. ASSUME NEW c \in Calls, SendOverflow(c) PROVE ReleaseProtocol
  BY <1>5 DEF SendOverflow, Overflow
<1>6. ASSUME NEW c \in Async, AddHandler(c) PROVE timer[d] = "armed" \/ AddHandler(d)
  <2>1. CASE c = d
    BY <1>6, <2>1
  <2>2. CASE c # d
    <3>1. timer' = timer \/ timer' = [timer EXCEPT ![c] = "armed"]
      BY <1>6 DEF AddHandler
    <3> QED BY <1>0, <2>2, <3>1
  <2> QED BY <2>1, <2>2
<1>7. ASSUME NEW c \in Async, ReportError(c) PROVE timer' = timer
  BY <1>7 DEF ReportError
<1>8. ASSUME NEW c \in Async, TimerExpires(c) \/ TimerRuns(c) PROVE timer[d] = "armed"
  BY <1>2, <1>8 DEF TimerExpires, TimerRuns, Times
<1>9. ASSUME NEW c \in Sync, InvokeReturns(c) \/ InvokeTimeout(c) PROVE timer' = timer
  BY <1>9 DEF InvokeReturns, InvokeTimeout, timerVars
<1>10. ASSUME NEW x \in Closers, CloseEnds(x) PROVE timer[d] = "armed"
  <2>1. timer' = timer \/ (x \in Async /\ timer' = [timer EXCEPT ![x] = "off"])
    BY <1>10 DEF CloseEnds
  <2> QED BY <1>2, <2>1 DEF Times
<1>11. CASE Release \/ HandleRequestOverflow
  BY <1>3, <1>11 DEF Release, HandleRequestOverflow, Overflow
<1>12. CASE Destroy
  BY <1>1, <1>3, <1>12 DEF Destroy, timerVars
<1>13. CASE HandleResponse
  <2>1. handlers # <<>> /\ handlers \in Seq(Async)
    BY <1>0, <1>13 DEF HandleResponse, CallShapes
  <2>2. Head(handlers) \in Async
    BY <2>1, QueueFacts
  <2>3. timer' = timer \/ timer' = [timer EXCEPT ![Head(handlers)] = "off"]
    BY <1>13 DEF HandleResponse, timerVars
  <2> QED BY <1>2, <2>2, <2>3 DEF Times
<1>14. CASE NodeCloses \/ Write \/ HandleRecv \/ HandleSyncResponse \/ HandleRequest \/ ReadError \/ ReadEof
            \/ PeerAnswers \/ PeerInvokes \/ UNCHANGED vars
  BY <1>1, <1>14 DEF NodeCloses, Write, HandleWrite, HandleWriteError, HandleRecv, HandleSyncResponse, HandleRequest,
       ReadError, ReadEof, PeerAnswers, PeerInvokes, vars, timerVars
<1> QED BY <1>1, <1>3, <1>4, <1>5, <1>6, <1>7, <1>8, <1>9, <1>10, <1>11, <1>12, <1>13, <1>14
        DEF Next, CallStep, Read

\* What a step does to the buffer of the synchronous calls and to the answers given.
LEMMA BufferStep ==
  ASSUME [Next]_vars
  PROVE  /\ bufReady' = bufReady \/ HandleSyncResponse \/ (\E c \in Calls : Enter(c))
         /\ invBuf' = invBuf \/ HandleSyncResponse \/ (\E c \in Sync : InvokeReturns(c))
         /\ got' = got \/ HandleResponse \/ (\E c \in Sync : InvokeReturns(c))
<1>1. ASSUME NEW c \in Calls, FindAndLock(c) \/ SendHead(c) \/ SendBody(c) \/ SendOverflow(c) \/ SendOverflowed(c)
      PROVE  UNCHANGED << bufReady, invBuf, got >>
  BY <1>1 DEF FindAndLock, SendHead, SendBody, SendOverflow, SendOverflowed
<1>2. ASSUME NEW c \in Calls, Enter(c) PROVE UNCHANGED << invBuf, got >>
  BY <1>2 DEF Enter
<1>3. ASSUME NEW c \in Async, AddHandler(c) \/ ReportError(c) \/ TimerExpires(c) \/ TimerRuns(c)
      PROVE  UNCHANGED << bufReady, invBuf, got >>
  BY <1>3 DEF AddHandler, ReportError, TimerExpires, TimerRuns, callVars
<1>4. ASSUME NEW c \in Sync, InvokeReturns(c) PROVE bufReady' = bufReady
  BY <1>4 DEF InvokeReturns
<1>5. ASSUME NEW c \in Sync, InvokeTimeout(c) PROVE UNCHANGED << bufReady, invBuf, got >>
  BY <1>5 DEF InvokeTimeout
<1>6. ASSUME NEW x \in Closers, CloseEnds(x) PROVE UNCHANGED << bufReady, invBuf, got >>
  BY <1>6 DEF CloseEnds
<1>7. HandleResponse => UNCHANGED << bufReady, invBuf >>
  BY DEF HandleResponse
<1>8. HandleSyncResponse => UNCHANGED got
  BY DEF HandleSyncResponse
<1>9. CASE NodeCloses \/ Release \/ Write \/ HandleRecv \/ HandleRequest \/ HandleRequestOverflow \/ ReadError
           \/ ReadEof \/ Destroy \/ PeerAnswers \/ PeerInvokes \/ UNCHANGED vars
  BY <1>9 DEF NodeCloses, Release, Write, HandleWrite, HandleWriteError, HandleRecv, HandleRequest,
       HandleRequestOverflow, ReadError, ReadEof, Destroy, PeerAnswers, PeerInvokes, vars, callVars
<1> QED BY <1>1, <1>2, <1>3, <1>4, <1>5, <1>6, <1>7, <1>8, <1>9 DEF Next, CallStep, Read

\* The list does not get unblocked, nor the connection opened again.
LEMMA OpenStep ==
  ASSUME Shapes, WhereInv, [Next]_vars, Open'
  PROVE  Open
<1>0. Live' /\ ~Blocked' /\ Live
  BY FlagsGrow DEF Open
<1> SUFFICES ASSUME Blocked PROVE FALSE
  BY <1>0 DEF Open
<1> DEFINE h == Head(handlers)
<1>1. handlers \in Seq(Async) /\ handlers # <<>> /\ timer[h] # "armed" /\ Len(handlers) \in Nat \ {0}
  BY QueueFacts DEF Shapes, CallShapes, Blocked
<1>2. h \in Async /\ h \in Calls /\ h = handlers[1] /\ h \in In(handlers)
  <2>1. h \in Async /\ h = handlers[1]
    BY <1>1, QueueFacts
  <2>2. 1 \in 1..Len(handlers) /\ h \in Calls
    BY <1>1, <2>1, Kinds
  <2> QED BY <2>1, <2>2 DEF In
<1>3. ~AddHandler(h)
  BY <1>2 DEF WhereInv, AddHandler, Before
<1>4. timer'[h] # "armed"
  BY <1>1, <1>2, <1>3, ArmedStep
<1>5. handlers' # <<>> /\ Head(handlers') = h
  <2>1. CASE Kept
    BY <1>1, <2>1 DEF Kept
  <2>2. ASSUME NEW c \in Async, Added(c) PROVE handlers' # <<>> /\ Head(handlers') = h
    <3>1. handlers' = Append(handlers, c)
      BY <2>2 DEF Added
    <3>2. handlers' \in Seq(Async) /\ Len(handlers') = Len(handlers) + 1 /\ handlers'[1] = handlers[1]
      BY <1>1, <3>1
    <3>3. handlers' # <<>>
      BY <1>1, <3>2
    <3> QED BY <1>2, <3>2, <3>3, QueueFacts
  <2>3. ~Taken
    BY <1>1 DEF Taken
  <2>4. ~Dropped
    BY <1>0 DEF Dropped, Live
  <2> QED BY <2>1, <2>2, <2>3, <2>4, HandlersStep
<1> QED BY <1>0, <1>4, <1>5 DEF Blocked

-----------------------------------------------------------------------------
\* m_call_lock is held by one call at a time, the last to have been ranked.
LEMMA LockOne ==
  ASSUME NEW rank \in [Calls -> Nat], Ordered(rank), NEW c \in Calls, HasCallLock(c)
  PROVE  /\ c \in Entered
         /\ \A d \in Entered : d # c => rank[d] < rank[c]
         /\ \A d \in Calls : HasCallLock(d) => d = c
<1>1. \A d \in Calls : HasCallLock(d) => d \in Entered
  BY DEF HasCallLock, Entered
<1>2. \A d \in Entered : rank[d] <= rank[c] /\ d \in Calls /\ rank[d] \in Nat /\ rank[c] \in Nat
  BY DEF Ordered, Entered
<1>3. \A d \in Entered : d # c => rank[d] # rank[c]
  BY <1>1 DEF Ordered
<1>4. ASSUME NEW d \in Calls, HasCallLock(d) PROVE d = c
  <2>1. rank[c] <= rank[d] /\ rank[d] <= rank[c] /\ d \in Entered
    BY <1>1, <1>4 DEF Ordered
  <2> QED BY <1>2, <1>3, <2>1
<1>5. \A d \in Entered : d # c => rank[d] < rank[c]
  BY <1>2, <1>3
<1> QED BY <1>1, <1>4, <1>5

Settled(rank) ==
  /\ WhereInv /\ SyncInv /\ HandlerInv
  /\ Ordered(rank) /\ Lined(rank) /\ Awaited(rank)

\* The calls in the line have been entered and are past their body.
LEMMA LocatedFacts ==
  ASSUME WhereInv, NEW d \in Located
  PROVE  d \in Calls /\ pc[d] \in Past /\ d \in Entered
<1>1. d \in Calls
  BY DEF Located, Answering, AtHand, In
<1> QED BY <1>1 DEF WhereInv, Past, Entered

\* The answer that has been read is the one the first handler waits for.
LEMMA HeadAnswer ==
  ASSUME Shapes, NEW rank \in [Calls -> Nat], Settled(rank), HandleResponse, Open
  PROVE  Head(handlers) = reader.msg
<1> DEFINE h == Head(handlers)
           m == reader.msg
<1>0. /\ m \in Calls /\ m \in Located /\ \A d \in Located : d # m => rank[m] < rank[d]
      /\ m \in Answering
  <2>1. m \in Calls /\ AtHand = {m}
    BY DEF HandleResponse, AtHand
  <2>2. m \in Answering
    BY <2>1 DEF Answering
  <2>3. Consumes /\ Lined(rank)
    BY DEF Consumes, Settled
  <2>4. m \in Located /\ \A d \in Located : d # m => rank[m] < rank[d]
    BY <2>3, LineConsumes
  <2> QED BY <2>1, <2>2, <2>4
<1>1. handlers # <<>> /\ Rises(rank, handlers)
  BY DEF HandleResponse, Settled, Ordered
<1>2. /\ h \in Async /\ h \in Calls /\ h \in In(handlers)
      /\ \A d \in In(handlers) : d = h \/ rank[h] < rank[d]
  BY <1>1, HandlersFacts, Kinds
<1> HIDE DEF h, m
<1>3. h \in Entered /\ m \in Entered /\ rank[h] \in Nat /\ rank[m] \in Nat /\ pc[m] \in Past
  <2>1. pc[h] \notin Before
    BY <1>2 DEF Settled, WhereInv
  <2>2. h \in Entered
    BY <1>2, <2>1 DEF Before, Entered
  <2> QED BY <1>0, <1>2, <2>2, LocatedFacts DEF Settled
<1>4. h \in Located \/ pc[h] = "body" \/ \A d \in Located : rank[d] < rank[h]
  BY <1>2 DEF Settled, Awaited
<1>5. m \notin Notify
  BY <1>0 DEF Settled, WhereInv
<1> SUFFICES ASSUME h # m PROVE FALSE
  BY DEF h, m
<1>6. rank[m] < rank[h]
  <2>1. CASE h \in Located
    BY <1>0, <2>1
  <2>2. CASE pc[h] = "body"
    <3>1. HasCallLock(h)
      BY <2>2 DEF HasCallLock
    <3> QED BY <1>2, <1>3, <3>1, LockOne DEF Settled
  <2>3. CASE \A d \in Located : rank[d] < rank[h]
    BY <1>0, <2>3
  <2> QED BY <1>4, <2>1, <2>2, <2>3
<1>7. CASE m \in Sync
  <2>1. pc[m] = "wait"
    BY <1>0, <1>7 DEF Settled, SyncInv, Open
  <2>2. HasCallLock(m)
    BY <2>1 DEF HasCallLock
  <2>3. rank[h] < rank[m]
    BY <1>0, <1>3, <2>2, LockOne DEF Settled
  <2> QED BY <1>3, <1>6, <2>3
<1>8. CASE m \in Async
  <2>1. m \in In(handlers)
    BY <1>0, <1>8 DEF Settled, HandlerInv
  <2>2. rank[h] < rank[m]
    BY <1>2, <2>1
  <2> QED BY <1>3, <1>6, <2>2
<1> QED BY <1>0, <1>5, <1>7, <1>8, Kinds

\* Without handlers it is the answer of the synchronous call that waits.
LEMMA SyncAtHand ==
  ASSUME Shapes, NEW rank \in [Calls -> Nat], Settled(rank), HandleSyncResponse, Live
  PROVE  /\ reader.msg \in Sync /\ pc[reader.msg] = "wait" /\ reader.msg \notin Located'
         /\ \A d \in Calls : HasCallLock(d) => d = reader.msg
<1> DEFINE m == reader.msg
<1>0. m \in Calls /\ m \in Located /\ m \notin Located' /\ m \in Answering
  <2>1. m \in Calls /\ AtHand = {m}
    BY DEF HandleSyncResponse, AtHand
  <2>2. m \in Answering
    BY <2>1 DEF Answering
  <2>3. Consumes /\ Lined(rank)
    BY DEF Consumes, Settled
  <2>4. m \in Located /\ m \notin Located'
    BY <2>3, LineConsumes
  <2> QED BY <2>1, <2>2, <2>4
<1>1. handlers = <<>> /\ In(handlers) = {}
  BY InEmpty DEF HandleSyncResponse
<1>2. Open
  BY <1>1 DEF Open, Blocked
<1> HIDE DEF m
<1>3. m \notin Async
  BY <1>0, <1>1, <1>2 DEF Settled, HandlerInv
<1>4. m \notin Notify
  BY <1>0 DEF Settled, WhereInv
<1>5. m \in Sync
  BY <1>0, <1>3, <1>4, Kinds
<1>6. pc[m] = "wait"
  BY <1>0, <1>5 DEF Settled, SyncInv
<1>7. HasCallLock(m)
  BY <1>6 DEF HasCallLock
<1>8. \A d \in Calls : HasCallLock(d) => d = m
  BY <1>0, <1>7, LockOne DEF Settled
<1> QED BY <1>0, <1>5, <1>6, <1>8 DEF m

LEMMA WhereStep ==
  ASSUME Shapes, PlaceInv, NEW rank \in [Calls -> Nat], Settled(rank), [Next]_vars
  PROVE  WhereInv'
<1>0. WhereInv /\ Lined(rank) /\ Rises(rank, handlers)
  BY DEF Settled, Ordered
<1>1. (\E c \in Calls : Sends(c)) \/ Shrinks
  BY <1>0, LineStep
<1>2. released' => handlers' = <<>>
  BY <1>0, HandlersStep DEF WhereInv, Kept, Added, Taken, Dropped
<1>3. ASSUME NEW d \in Located' PROVE pc'[d] \in Past
  <2>1. CASE d \in Located
    <3>1. d \in Calls /\ pc[d] \in Past
      BY <1>0, <2>1, LocatedFacts
    <3> QED BY <3>1, PcFacts
  <2>2. CASE d \notin Located
    <3>1. Sends(d)
      BY <1>1, <2>2 DEF Sends, Shrinks
    <3>2. pc'[d] = IF d \in Sync THEN "wait" ELSE "sent"
      <4>1. d \in Calls
        BY <1>1, <2>2 DEF Sends, Shrinks
      <4> QED BY <3>1, <4>1 DEF Sends, SendBody, Goto, Shapes, CallShapes
    <3> QED BY <3>2 DEF Past
  <2> QED BY <2>1, <2>2
<1>4. ASSUME NEW d \in Answering' PROVE d \notin Notify
  <2>1. d \in Answering \/ d \in Calls \ Notify
    BY <1>1 DEF Sends, Shrinks
  <2> QED BY <1>0, <2>1 DEF WhereInv
<1>5. ASSUME NEW d \in In(handlers)' PROVE pc'[d] \notin Before
  <2>1. CASE d \in In(handlers)
    <3>1. d \in Calls /\ pc[d] \notin Before
      BY <1>0, <2>1 DEF WhereInv, In
    <3> QED BY <3>1, PcFacts
  <2>2. CASE d \notin In(handlers)
    <3>1. d \in Async /\ Added(d)
      BY <1>0, <2>2, HandlersStep, HandlersFacts
    <3>2. pc'[d] \in {"err", "body"}
      BY <3>1, Kinds DEF Added, AddHandler, Goto, Shapes, CallShapes
    <3> QED BY <3>2 DEF Before
  <2> QED BY <2>1, <2>2
<1> QED BY <1>2, <1>3, <1>4, <1>5 DEF WhereInv

LEMMA SyncStep ==
  ASSUME Shapes, PlaceInv, NEW rank \in [Calls -> Nat], Settled(rank), ~NestedCall, [Next]_vars
  PROVE  SyncInv'
<1> SUFFICES ASSUME Live', NEW c \in Sync
             PROVE  /\ c \in Located' => pc'[c] = "wait" /\ ~bufReady'
                    /\ pc'[c] \in {"head", "body"} => ~bufReady'
                    /\ pc'[c] = "wait" /\ bufReady' => invBuf' = c
  BY DEF SyncInv
<1>0. /\ WhereInv /\ Lined(rank) /\ Live /\ c \in Calls /\ c \notin Async /\ c \notin Notify
      /\ pc \in [Calls -> Labels] /\ bufReady \in BOOLEAN /\ ~released /\ ~closeCalled'
  BY FlagsGrow, Kinds, CallsAssumption DEF Settled, Shapes, CallShapes, FlagShapes, Live
<1>1. /\ c \in Located => pc[c] = "wait" /\ ~bufReady
      /\ pc[c] \in {"head", "body"} => ~bufReady
      /\ pc[c] = "wait" /\ bufReady => invBuf = c
  BY <1>0 DEF Settled, SyncInv
<1>2. Moved(c)
  BY <1>0, PcStep
<1>3. ASSUME Enter(c) PROVE ~bufReady'
  BY <1>0, <1>3 DEF Enter
<1>4. ASSUME NEW d \in Calls, Enter(d), HasCallLock(c) PROVE FALSE
  <2>1. under[d] = Nobody
    BY <1>4 DEF NestedCall
  <2> QED BY <1>0, <1>4, <2>1 DEF Enter, CallLockFree
\* The buffer gets ready only for the call that waits.
<1>5. ASSUME bufReady', HasCallLock(c), ~bufReady \/ HandleSyncResponse
      PROVE  /\ HandleSyncResponse /\ pc[c] = "wait" /\ c \notin Located'
             /\ (invBuf' = c \/ (bufReady /\ invBuf' = invBuf))
  <2>1. HandleSyncResponse
    BY <1>4, <1>5, BufferStep
  <2>2. reader.msg = c /\ pc[c] = "wait" /\ c \notin Located'
    BY <1>0, <1>5, <2>1, SyncAtHand
  <2>3. invBuf' = c \/ (bufReady /\ invBuf' = invBuf)
    BY <1>5, <2>1, <2>2 DEF HandleSyncResponse
  <2> QED BY <2>1, <2>2, <2>3
<1>6. ASSUME c \in Located' PROVE pc'[c] = "wait" /\ ~bufReady'
  <2>1. CASE c \in Located
    <3>1. pc[c] = "wait" /\ ~bufReady /\ HasCallLock(c)
      BY <1>1, <2>1 DEF HasCallLock
    <3>2. ~bufReady'
      BY <1>5, <1>6, <3>1
    <3>3. ~InvokeReturns(c)
      BY <1>0, <3>1 DEF InvokeReturns
    <3> QED BY <1>0, <1>2, <3>1, <3>2, <3>3 DEF Moved
  <2>2. CASE c \notin Located
    <3>1. Sends(c)
      <4>1. (\E d \in Calls : Sends(d)) \/ Shrinks
        BY <1>0, LineStep
      <4> QED BY <1>6, <2>2, <4>1 DEF Sends, Shrinks
    <3>2. pc[c] = "body" /\ pc'[c] = "wait" /\ bufReady' = bufReady
      BY <1>0, <3>1 DEF Sends, SendBody, Goto
    <3> QED BY <1>1, <3>2
  <2> QED BY <2>1, <2>2
<1>7. ASSUME pc'[c] \in {"head", "body"} PROVE ~bufReady'
  <2>1. Enter(c) \/ pc[c] \in {"head", "body"}
    BY <1>0, <1>2, <1>7 DEF Moved, Ended
  <2>2. CASE pc[c] \in {"head", "body"}
    BY <1>1, <1>5, <2>2 DEF HasCallLock
  <2> QED BY <1>3, <2>1, <2>2
<1>8. ASSUME pc'[c] = "wait", bufReady' PROVE invBuf' = c
  <2>1. pc[c] = "wait" \/ pc[c] = "body"
    BY <1>2, <1>8 DEF Moved, Ended
  <2>2. HasCallLock(c)
    BY <2>1 DEF HasCallLock
  <2>3. CASE ~bufReady \/ HandleSyncResponse
    BY <1>1, <1>5, <1>8, <2>2, <2>3
  <2>4. CASE bufReady /\ ~HandleSyncResponse
    <3>1. pc[c] = "wait" /\ invBuf = c
      BY <1>1, <2>1, <2>4
    <3>2. ASSUME NEW d \in Sync, InvokeReturns(d) PROVE FALSE
      <4>1. HasCallLock(d) /\ d \in Calls
        BY <3>2, Kinds DEF InvokeReturns, HasCallLock
      <4>2. d = c
        BY <1>0, <2>2, <4>1, LockOne DEF Settled
      <4>3. pc'[c] \in {"sent", "failed"}
        BY <1>0, <3>2, <4>2 DEF InvokeReturns, Goto
      <4> QED BY <1>8, <4>3
    <3> QED BY <2>4, <3>1, <3>2, BufferStep
  <2> QED BY <1>0, <2>3, <2>4
<1> QED BY <1>6, <1>7, <1>8

LEMMA HandlerStep ==
  ASSUME Shapes, PlaceInv, NEW rank \in [Calls -> Nat], Settled(rank), [Next]_vars
  PROVE  HandlerInv'
<1> SUFFICES ASSUME Open', NEW c \in Async, c \in Located' \/ pc'[c] = "body"
             PROVE  c \in In(handlers)'
  BY DEF HandlerInv
<1>0. /\ WhereInv /\ Lined(rank) /\ Rises(rank, handlers) /\ Open /\ c \in Calls /\ ~released'
      /\ (c \in Located \/ pc[c] = "body" => c \in In(handlers))
  BY OpenStep, Kinds DEF Settled, Ordered, HandlerInv, Open, Live
<1>1. Moved(c) /\ ((\E d \in Calls : Sends(d)) \/ Shrinks)
  BY <1>0, PcStep, LineStep
<1>2. CASE AddHandler(c) /\ pc'[c] = "body"
  <2>1. handlers' = Append(handlers, c) /\ ~released'
    BY <1>0, <1>2 DEF AddHandler, Goto, Shapes, CallShapes, closeVars
  <2>2. Added(c)
    BY <1>2, <2>1 DEF Added
  <2> QED BY <1>0, <2>2, HandlersFacts
<1>3. CASE ~(AddHandler(c) /\ pc'[c] = "body")
  <2>1. c \in In(handlers)
    <3>1. CASE pc'[c] = "body"
      <4>1. pc[c] = "body"
        BY <1>1, <1>3, <3>1 DEF Moved, Ended
      <4> QED BY <1>0, <4>1
    <3>2. CASE c \in Located'
      <4>1. c \in Located \/ pc[c] = "body"
        BY <1>1, <3>2 DEF Sends, Shrinks
      <4> QED BY <1>0, <4>1
    <3> QED BY <3>1, <3>2
  <2>2. CASE Taken
    <3>1. In(handlers) = In(handlers)' \cup {Head(handlers)}
      BY <1>0, <2>2, HandlersFacts
    <3>2. HandleResponse /\ Consumes
      BY <2>2 DEF Taken, Consumes
    <3>3. Head(handlers) = reader.msg
      BY <1>0, <3>2, HeadAnswer
    <3>4. reader.msg \notin Located' /\ reader.msg \in Located
      BY <1>0, <3>2, LineConsumes
    <3>5. pc'[reader.msg] # "body"
      <4>1. reader.msg \in Calls /\ pc[reader.msg] \in Past
        BY <1>0, <3>4, LocatedFacts
      <4>2. pc'[reader.msg] \in Past
        BY <4>1, PcFacts
      <4> QED BY <4>2 DEF Past
    <3> QED BY <2>1, <3>1, <3>3, <3>4, <3>5
  <2>3. ~Dropped
    BY <1>0 DEF Dropped
  <2>4. CASE Kept
    BY <1>0, <2>1, <2>4, HandlersFacts
  <2>5. ASSUME NEW d \in Async, Added(d) PROVE c \in In(handlers)'
    BY <1>0, <2>1, <2>5, HandlersFacts
  <2> QED BY <2>2, <2>3, <2>4, <2>5, HandlersStep
<1> QED BY <1>2, <1>3

-----------------------------------------------------------------------------
\* The order of the calls in the line depends on their ranks alone.
LEMMA LinedAgree ==
  ASSUME NEW r, NEW s, Lined(r), \A d \in Located : s[d] = r[d]
  PROVE  Lined(s)
<1>1. ASSUME NEW q, Rises(r, q), In(q) \in SUBSET Located
      PROVE  Rises(s, q)
  <2> SUFFICES ASSUME NEW i \in 1..Len(q), NEW j \in 1..Len(q), i < j, q[i] \in Calls, q[j] \in Calls
               PROVE  s[q[i]] < s[q[j]]
    BY DEF Rises
  <2>1. q[i] \in In(q) /\ q[j] \in In(q)
    BY DEF In
  <2> QED BY <1>1, <2>1 DEF Rises
<1>2. Rises(s, inbox) /\ Rises(s, wire) /\ Rises(s, Bodies)
  BY <1>1 DEF Lined, Located, Answering
<1>3. ASSUME NEW S \in SUBSET Located, NEW T \in SUBSET Located, Precede(r, S, T)
      PROVE  Precede(s, S, T)
  BY <1>3 DEF Precede
<1>4. /\ AtHand \in SUBSET Located /\ In(inbox) \in SUBSET Located
      /\ In(wire) \in SUBSET Located /\ In(Bodies) \in SUBSET Located
  BY DEF Located, Answering
<1> HIDE DEF Lined
<1>5. /\ Precede(s, AtHand, In(inbox)) /\ Precede(s, AtHand, In(wire)) /\ Precede(s, AtHand, In(Bodies))
      /\ Precede(s, In(inbox), In(wire)) /\ Precede(s, In(inbox), In(Bodies)) /\ Precede(s, In(wire), In(Bodies))
  BY <1>3, <1>4 DEF Lined
<1> QED BY <1>2, <1>5 DEF Lined

\* A call that takes m_call_lock ranks after all others.
LEMMA RankEnter ==
  ASSUME Shapes, NEW rank \in [Calls -> Nat], NEW n \in Nat, Settled(rank), Ranked(rank, n),
         ~NestedCall, NEW c \in Calls, Enter(c)
  PROVE  RankInv'
<1> DEFINE r == [rank EXCEPT ![c] = n + 1]
<1>0. /\ pc[c] = "ref" /\ pc' = [pc EXCEPT ![c] = "head"] /\ CallLockFree
      /\ UNCHANGED << que, wire, inbox, reader, handlers, timer, released, closeCalled, shut >>
  <2>1. under[c] = Nobody
    BY DEF NestedCall
  <2> QED BY <2>1 DEF Enter, Goto, sendVars, peerVars, timerVars, closeVars
<1>1. /\ r \in [Calls -> Nat] /\ r[c] = n + 1 /\ n + 1 \in Nat
      /\ \A d \in Calls : d # c => r[d] = rank[d]
      /\ \A d \in Calls : rank[d] <= n /\ rank[d] \in Nat
  BY DEF Ranked
<1> HIDE DEF r
<1>2. \A d \in Calls : pc'[d] = IF d = c THEN "head" ELSE pc[d]
  BY <1>0 DEF Shapes, CallShapes
<1>3. AtHand' = AtHand /\ c \notin Located /\ c \notin In(handlers)
  BY <1>0 DEF AtHand, Settled, WhereInv, Past, Before
<1>4. Located' = Located /\ \A q : Lined(q) => Lined(q)'
  BY <1>0, <1>3, LineQuiet
<1>5. \A d \in Located : r[d] = rank[d]
  BY <1>1, <1>3 DEF Located, Answering, AtHand, In
<1>6. Lined(r)
  BY <1>5, LinedAgree DEF Ranked
<1>7. Lined(r)'
  BY <1>4, <1>6
<1>8. In(handlers)' = In(handlers) /\ In(handlers) \in SUBSET Calls
  BY <1>0 DEF In
<1>9. Rises(r, handlers)'
  <2> SUFFICES ASSUME NEW i \in 1..Len(handlers), NEW j \in 1..Len(handlers), i < j,
                      handlers[i] \in Calls, handlers[j] \in Calls
               PROVE  r[handlers[i]] < r[handlers[j]]
    BY <1>0 DEF Rises
  <2>1. handlers[i] \in In(handlers) /\ handlers[j] \in In(handlers)
    BY DEF In
  <2>2. rank[handlers[i]] < rank[handlers[j]]
    BY DEF Ranked, Ordered, Rises
  <2> QED BY <1>1, <1>3, <2>1, <2>2
<1>10. Entered' = Entered \cup {c} /\ c \notin Entered
  BY <1>0, <1>2 DEF Entered
<1>11. \A d \in Calls : HasCallLock(d)' => d = c
  BY <1>0, <1>2 DEF HasCallLock, CallLockFree
<1>12. \A d, e \in Entered' : r[d] = r[e] => d = e
  <2>1. \A d \in Entered : d \in Calls /\ d # c /\ r[d] = rank[d] /\ rank[d] < n + 1
    BY <1>1, <1>10 DEF Entered
  <2> QED BY <1>1, <1>10, <2>1 DEF Ranked, Ordered
<1>13. \A d \in Entered' : r[d] <= r[c]
  BY <1>1, <1>10 DEF Entered
<1>14. Ordered(r)'
  BY <1>9, <1>11, <1>12, <1>13 DEF Ordered
<1>15. Awaited(r)'
  <2>1. Open' = Open /\ shut' = shut
    BY <1>0 DEF Open, Live, Blocked
  <2> SUFFICES ASSUME Open, NEW h \in In(handlers)
               PROVE  h \in Located \/ pc'[h] = "body" \/ (shut /\ \A d \in Located : r[d] < r[h])
    BY <1>4, <1>8, <2>1 DEF Awaited
  <2>2. h \in Calls /\ h # c /\ r[h] = rank[h] /\ pc'[h] = pc[h]
    BY <1>1, <1>2, <1>3, <1>8
  <2>3. h \in Located \/ pc[h] = "body" \/ (shut /\ \A d \in Located : rank[d] < rank[h])
    BY DEF Ranked, Awaited
  <2> QED BY <1>5, <2>2, <2>3
<1>16. \A d \in Calls : r[d] <= n + 1
  BY <1>1
<1>17. Ranked(r, n + 1)'
  BY <1>7, <1>14, <1>15, <1>16 DEF Ranked
<1> QED BY <1>1, <1>17 DEF RankInv

\* All other steps keep the ranks.
LEMMA RankKept ==
  ASSUME Shapes, PlaceInv, NEW rank \in [Calls -> Nat], Settled(rank), [Next]_vars,
         \A c \in Calls : ~Enter(c)
  PROVE  Ordered(rank)' /\ Lined(rank)' /\ Awaited(rank)'
<1>0. WhereInv /\ Lined(rank) /\ Ordered(rank) /\ Rises(rank, handlers) /\ Awaited(rank)
  BY DEF Settled, Ordered
<1>1. \A c \in Calls : Moved(c)
  BY PcStep
<1>2. Entered' = Entered /\ \A c \in Calls : HasCallLock(c)' => HasCallLock(c)
  <2>1. \A c \in Calls : c \in Entered' <=> c \in Entered
    BY PcFacts
  <2>2. \A c \in Calls : HasCallLock(c)' => HasCallLock(c)
    BY PcFacts
  <2>3. Entered' \in SUBSET Calls /\ Entered \in SUBSET Calls
    BY DEF Entered
  <2> QED BY <2>1, <2>2, <2>3
\* All that are in the line or in the list rank before a call with the lock.
<1>3. ASSUME NEW c \in Calls, HasCallLock(c), pc[c] \notin Past
      PROVE  \A d \in Located : rank[d] < rank[c]
  BY <1>0, <1>3, LocatedFacts, LockOne
<1>4. ASSUME NEW c \in Async, Added(c)
      PROVE  /\ c \in Calls /\ HasCallLock(c) /\ pc[c] = "add" /\ pc[c] \notin Past
             /\ \A d \in In(handlers) : rank[d] < rank[c]
  <2>1. c \in Calls /\ pc[c] = "add"
    BY <1>4, Kinds DEF Added, AddHandler
  <2>2. \A d \in In(handlers) : d \in Entered /\ d # c
    BY <1>0, <2>1 DEF WhereInv, In, Before, Entered
  <2>3. HasCallLock(c) /\ pc[c] \notin Past
    BY <2>1 DEF HasCallLock, Past
  <2>4. \A d \in In(handlers) : rank[d] < rank[c]
    BY <1>0, <2>1, <2>2, <2>3, LockOne
  <2> QED BY <2>1, <2>3, <2>4
<1>5. Rises(rank, handlers)'
  <2>1. ASSUME NEW c \in Async, Added(c) PROVE Rises(rank, handlers)'
    BY <1>0, <1>4, <2>1, HandlersFacts
  <2> QED BY <1>0, <2>1, HandlersStep, HandlersFacts
<1>6. Ordered(rank)'
  BY <1>0, <1>2, <1>5 DEF Ordered
<1>7. Lined(rank)' /\ ((\E c \in Calls : Sends(c)) \/ Shrinks)
  <2>1. ASSUME NEW c \in Calls, Sends(c) PROVE Lined(rank)'
    <3>1. HasCallLock(c) /\ pc[c] \notin Past /\ SendBody(c) /\ ~shut
      BY <2>1 DEF Sends, HasCallLock, Past
    <3>2. \A d \in Located : rank[d] < rank[c]
      BY <1>3, <3>1
    <3> QED BY <1>0, <3>1, <3>2, LineBody
  <2> QED BY <1>0, <2>1, LineStep
<1>8. Awaited(rank)'
  <2> SUFFICES ASSUME Open', NEW h \in In(handlers)'
               PROVE  h \in Located' \/ pc'[h] = "body" \/ (shut' /\ \A d \in Located' : rank[d] < rank[h])
    BY DEF Awaited
  <2>0. Open /\ Live' /\ (shut => shut')
    BY <1>0, OpenStep, FlagsGrow DEF Open
  <2>1. CASE h \notin In(handlers)
    <3>1. h \in Async /\ Added(h)
      BY <1>0, <2>1, HandlersStep, HandlersFacts
    <3>2. h \in Calls /\ HasCallLock(h) /\ pc[h] \notin Past
      BY <1>4, <3>1
    <3>3. \A d \in Located : rank[d] < rank[h]
      BY <1>3, <3>2
    <3>4. pc'[h] = "body" \/ shut'
      BY <3>1, <3>2 DEF Added, AddHandler, Goto, Shapes, CallShapes, closeVars
    <3>5. UNCHANGED << que, wire, inbox, reader >>
      BY <3>1 DEF Added, AddHandler, sendVars, peerVars
    <3>6. Located' = Located
      <4>1. AtHand' = AtHand
        BY <3>5 DEF AtHand
      <4> QED BY <3>5, <4>1, LineQuiet
    <3> QED BY <3>3, <3>4, <3>6
  <2>2. CASE h \in In(handlers)
    <3>0. h \in Async /\ h \in Calls /\ h \notin Notify /\ handlers # <<>>
      <4>1. h \in Async
        BY <1>0, <2>2, HandlersFacts
      <4>2. handlers # <<>>
        BY <2>2, InEmpty
      <4> QED BY <4>1, <4>2, Kinds, CallsAssumption
    <3>1. CASE h \in Located
      <4> SUFFICES ASSUME h \notin Located' PROVE FALSE
        BY <3>1
      <4>1. h \in AtHand /\ Consumes
        BY <1>7, <2>0, <3>0, <3>1 DEF Sends, Shrinks
      <4>2. HandleResponse /\ reader.msg = h
        BY <3>0, <4>1 DEF Consumes, HandleSyncResponse, AtHand
      <4>3. Taken
        <5>1. timer[Head(handlers)] = "armed"
          BY <2>0, <3>0 DEF Open, Blocked
        <5> QED BY <3>0, <4>2, <5>1 DEF HandleResponse, Taken, closeVars, timerVars
      <4>4. Head(handlers) = h
        BY <2>0, <4>2, HeadAnswer
      <4>5. rank[h] < rank[h] /\ rank[h] \in Nat
        BY <1>0, <3>0, <4>3, <4>4, HandlersFacts
      <4> QED BY <4>5
    <3>2. CASE pc[h] = "body"
      <4>1. HasCallLock(h) /\ pc[h] \notin Past
        BY <3>2 DEF HasCallLock, Past
      <4>2. \A d \in Located : rank[d] < rank[h]
        BY <1>3, <3>0, <4>1
      <4>3. CASE pc'[h] = "body"
        BY <4>3
      <4>4. CASE ~shut /\ SendBody(h)
        BY <3>0, <4>4, LineBody
      <4>5. CASE shut' /\ pc'[h] \in Ended
        <5>1. ASSUME NEW c \in Calls, Sends(c) PROVE FALSE
          <6>1. HasCallLock(c)
            BY <5>1 DEF Sends, HasCallLock
          <6>2. c = h
            BY <1>0, <3>0, <4>1, <6>1, LockOne
          <6>3. pc'[h] \in {"wait", "sent"}
            BY <5>1, <6>2 DEF Sends, SendBody, Goto, Shapes, CallShapes
          <6> QED BY <4>5, <6>3 DEF Ended
        <5>2. Shrinks
          BY <1>7, <5>1
        <5> QED BY <4>2, <4>5, <5>2 DEF Shrinks
      <4>6. Moved(h)
        BY <1>1, <3>0
      <4> QED BY <3>2, <4>3, <4>4, <4>5, <4>6 DEF Moved
    <3>3. CASE shut /\ \A d \in Located : rank[d] < rank[h]
      <4>1. Shrinks
        BY <1>7, <3>3 DEF Sends
      <4> QED BY <2>0, <3>3, <4>1 DEF Shrinks
    <3> QED BY <1>0, <2>0, <2>2, <3>1, <3>2, <3>3 DEF Awaited
  <2> QED BY <2>1, <2>2
<1> QED BY <1>6, <1>7, <1>8

\* Answers are given to those they are for.
LEMMA GivenStep ==
  ASSUME Shapes, NEW rank \in [Calls -> Nat], Settled(rank), AnswerMatchesNested, [Next]_vars
  PROVE  AnswerMatchesNested'
<1> SUFFICES ASSUME ~closeCalled', NEW c \in Calls PROVE got'[c] \in {Nobody, c}
  BY DEF AnswerMatchesNested
<1>0. got \in [Calls -> Calls \cup {Nobody}] /\ handlers \in Seq(Async)
  BY DEF Shapes, CallShapes
<1>1. CASE got' = got /\ ~closeCalled
  BY <1>1 DEF AnswerMatchesNested
<1>2. ASSUME NEW d \in Sync, InvokeReturns(d) PROVE got'[c] \in {Nobody, c}
  <2>1. ~closeCalled /\ d \in Calls
    BY <1>2, Kinds DEF InvokeReturns, closeVars
  <2>2. CASE got' = got
    BY <1>1, <2>1, <2>2
  <2>3. CASE got' # got
    <3>1. Live /\ pc[d] = "wait" /\ bufReady /\ got' = [got EXCEPT ![d] = invBuf]
      BY <1>2, <2>1, <2>3 DEF InvokeReturns, Live
    <3>2. invBuf = d
      BY <3>1 DEF Settled, SyncInv
    <3>3. CASE c = d
      BY <1>0, <2>1, <3>1, <3>2, <3>3
    <3>4. CASE c # d
      BY <1>0, <2>1, <3>1, <3>4 DEF AnswerMatchesNested
    <3> QED BY <3>3, <3>4
  <2> QED BY <2>2, <2>3
<1>3. CASE HandleResponse
  <2> DEFINE h == Head(handlers)
  <2>1. ~closeCalled /\ ~released /\ handlers # <<>>
    BY <1>3 DEF HandleResponse, closeVars, Settled, WhereInv
  <2>2. CASE got' = got
    BY <1>1, <2>1, <2>2
  <2>3. CASE got' # got
    <3>1. timer[h] = "armed" /\ got' = [got EXCEPT ![h] = reader.msg]
      BY <1>3, <2>3 DEF HandleResponse
    <3>2. Open
      BY <2>1, <3>1 DEF Open, Live, Blocked
    <3>3. h = reader.msg
      BY <1>3, <3>2, HeadAnswer
    <3> HIDE DEF h
    <3> QED BY <1>0, <2>1, <3>1, <3>3 DEF AnswerMatchesNested
  <2> QED BY <2>2, <2>3
<1>4. ASSUME got' = got PROVE ~closeCalled
  <2>1. closeCalled => closeCalled'
    BY FlagsGrow
  <2> QED BY <2>1
<1> QED BY <1>1, <1>2, <1>3, <1>4, BufferStep

\* A call under a waiting invoke is one for ever.
LEMMA UnmadeStep ==
  ASSUME Shapes, PlaceInv, UnmadeInv, [Next]_vars
  PROVE  UnmadeInv' /\ (NestedCall => NestedCall')
<1>0. under \in [Calls -> Sync \cup {Nobody}] /\ pc \in [Calls -> Labels]
  BY DEF Shapes, UnderShapes, CallShapes
<1>1. \A c \in Calls : pc'[c] = "idle" => pc[c] = "idle"
  BY PcStep DEF Moved, Ended
<1>2. CASE under' = under
  BY <1>1, <1>2 DEF UnmadeInv, NestedCall
<1>3. ASSUME NEW c \in Calls, FindAndLock(c) PROVE UnmadeInv' /\ (NestedCall => NestedCall')
  <2>1. pc[c] = "idle" /\ pc'[c] # "idle"
    BY <1>0, <1>3 DEF FindAndLock, Goto
  <2>2. \A d \in Calls : d # c => under'[d] = under[d]
    BY <1>0, <1>3 DEF FindAndLock
  <2> QED BY <1>1, <2>1, <2>2 DEF UnmadeInv, NestedCall
<1> QED BY <1>2, <1>3, UnderStep

LEMMA ApartStep ==
  ASSUME Shapes, PlaceInv, ApartInv, ~NestedCall, [Next]_vars
  PROVE  ApartInv'
<1>1. PICK rank \in [Calls -> Nat], n \in Nat : Ranked(rank, n)
  BY DEF ApartInv, RankInv
<1>2. Settled(rank) /\ AnswerMatchesNested
  BY <1>1 DEF ApartInv, Ranked, Settled
<1>3. WhereInv' /\ SyncInv' /\ HandlerInv' /\ AnswerMatchesNested'
  BY <1>2, WhereStep, SyncStep, HandlerStep, GivenStep
<1>4. RankInv'
  <2>1. CASE \E c \in Calls : Enter(c)
    BY <1>1, <1>2, <2>1, RankEnter
  <2>2. CASE \A c \in Calls : ~Enter(c)
    <3>1. Ordered(rank)' /\ Lined(rank)' /\ Awaited(rank)'
      BY <1>2, <2>2, RankKept
    <3>2. Ranked(rank, n)'
      BY <1>1, <3>1 DEF Ranked
    <3> QED BY <3>2 DEF RankInv
  <2> QED BY <2>1, <2>2
<1> QED BY <1>3, <1>4 DEF ApartInv

LEMMA AnswerStep ==
  ASSUME Shapes, PlaceInv, AnswerInv, [Next]_vars
  PROVE  AnswerInv'
BY UnmadeStep, ApartStep DEF AnswerInv

LEMMA AnswerInit == Init => AnswerInv
<1> SUFFICES ASSUME Init PROVE AnswerInv
  OBVIOUS
<1>1. /\ \A c \in Calls : pc[c] = "idle" /\ got[c] = Nobody
      /\ handlers = <<>> /\ que = <<>> /\ wire = <<>> /\ inbox = <<>> /\ reader.pc = "read"
  BY DEF Init, Reading
<1>2. Bodies = <<>> /\ AtHand = {}
  BY <1>1 DEF Bodies, AtHand
<1>3. In(inbox) = {} /\ In(wire) = {} /\ In(Bodies) = {} /\ In(handlers) = {}
  BY <1>1, <1>2, InEmpty
<1>4. Located = {} /\ Answering = {}
  BY <1>2, <1>3 DEF Located, Answering
<1>5. Entered = {} /\ \A c \in Calls : ~HasCallLock(c)
  BY <1>1 DEF Entered, HasCallLock
<1> DEFINE r == [c \in Calls |-> 0]
<1>6. r \in [Calls -> Nat] /\ \A c \in Calls : r[c] <= 0
  OBVIOUS
<1> HIDE DEF r
<1>7. Rises(r, inbox) /\ Rises(r, wire) /\ Rises(r, Bodies) /\ Rises(r, handlers)
  BY <1>1, <1>2, InEmpty
<1>8. Ranked(r, 0)
  BY <1>2, <1>3, <1>4, <1>5, <1>6, <1>7 DEF Ranked, Ordered, Lined, Precede, Awaited
<1>9. RankInv
  BY <1>6, <1>8 DEF RankInv
<1>10. WhereInv /\ SyncInv /\ HandlerInv
  BY <1>1, <1>3, <1>4, Kinds DEF WhereInv, SyncInv, HandlerInv
<1>11. UnmadeInv
  BY DEF Init, UnmadeInv
<1> QED BY <1>1, <1>9, <1>10, <1>11 DEF AnswerInv, ApartInv, AnswerMatchesNested

\* Answers carry no number, yet a call is given no other call's answer until the connection
\* is being closed or a handler makes a call under a waiting invoke, whatever is sent, lost,
\* answered or timed out before.
THEOREM AnswersMatched == Spec => []AnswerMatches
<1>1. AnswerInv => AnswerMatches
  BY DEF AnswerInv, ApartInv, AnswerMatches, AnswerMatchesNested
<1>2. Shapes /\ RefInv /\ [Next]_vars => RefInv'
  BY CountStep, PlaceStep DEF RefInv
<1>3. Shapes /\ RefInv /\ AnswerInv /\ [Next]_vars => AnswerInv'
  BY AnswerStep DEF RefInv
<1> QED BY ShapesInit, ShapesStep, RefInit, AnswerInit, <1>1, <1>2, <1>3, PTL DEF Spec
=============================================================================
