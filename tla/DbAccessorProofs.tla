-------------------------- MODULE DbAccessorProofs --------------------------
(***************************************************************************)
(* Proofs about DbAccessor, for any threads, keys and values.              *)
(*                                                                         *)
(* LockInv ties the program counters to the owners of the two locks and of *)
(* the cache.  It is inductive with TypeOK alone and gives IsolationFree.  *)
(* GuardInv adds, for a database whose readers all use scopes, what a      *)
(* value read but not yet cached is worth: it needs that no commit passes  *)
(* a scope.  Coherent and RepeatableRead are part of it.                   *)
(***************************************************************************)
EXTENDS DbAccessor, FiniteSetTheorems, TLAPS

Ending == { "commit", "abort" }
Ended  == { "committed", "aborted" }

LockInv ==
  /\ \A t \in Thread : pc[t] \in Ending =>
       excl = {t} /\ writer = {t} /\ isolated = {t} /\ Len(wtx) = 1
  /\ \A t \in Thread : pc[t] \in Ended =>
       excl = {t} /\ isolated = {t} /\ scope = {} /\ t \notin writer
  /\ \A t \in Thread : t \in writer => writer = {t} /\ (pc[t] = "begun" \/ isolated = {t})
  /\ \A t \in Thread : t \in isolated => isolated = {t} /\ (t \in writer \/ pc[t] \in Ended)
  /\ \A t \in Thread : pc[t] = "begun" => t \in writer /\ t \notin isolated /\ wtx = << db >>
  /\ \A t \in Thread : pc[t] \in { "read", "fill" } => arg[t] \in Key
  /\ \A t \in Thread : pc[t] = "fill" => res[t] \in Value

SafeInv == TypeOK /\ LockInv

LEMMA CachePutFacts ==
  ASSUME TypeOK, NEW k \in Key, NEW v \in Value, CachePut(k, v)
  PROVE  /\ cache' \in Content
         /\ \A x \in Key : cache'[x] # None => cache'[x] = IF x = k THEN v ELSE cache[x]
<1>1. None \notin Value
  BY ContentAssumption
<1> QED BY <1>1 DEF CachePut, TypeOK, Content

LEMMA ScopeStep ==
  ASSUME NEW t \in Thread, SafeInv, EnterScope(t) \/ LeaveScope(t)
  PROVE  SafeInv'
<1>1. TypeOK'
  BY DEF SafeInv, TypeOK, EnterScope, LeaveScope, io, Content
<1>2. LockInv'
  <2>1. /\ UNCHANGED << db, writer, wtx, isolated, excl, pc >> /\ pc[t] = "out"
        /\ \A u \in Thread \ {t} : arg'[u] = arg[u] /\ res'[u] = res[u]
        /\ excl = {} \/ scope' \subseteq scope
    BY DEF SafeInv, TypeOK, EnterScope, LeaveScope, io
  <2>2. \A u \in Thread : pc[u] \in Ended => scope' = {}
    BY <2>1 DEF SafeInv, LockInv
  <2> QED BY <2>1, <2>2 DEF SafeInv, LockInv
<1> QED BY <1>1, <1>2 DEF SafeInv

LEMMA ReadonlyStep ==
  ASSUME NEW t \in Thread, SafeInv, BeginReadonly(t) \/ EndReadonly(t)
  PROVE  SafeInv'
<1>1. TypeOK'
  BY DEF SafeInv, TypeOK, BeginReadonly, EndReadonly, Content
<1>2. LockInv'
  BY DEF SafeInv, LockInv, TypeOK, BeginReadonly, EndReadonly, Ending, Ended, Labels
<1> QED BY <1>1, <1>2 DEF SafeInv

LEMMA GetStep ==
  ASSUME NEW t \in Thread, NEW k \in Key, SafeInv, Get(t, k)
  PROVE  SafeInv'
<1>1. TypeOK'
  BY DEF SafeInv, TypeOK, Get, MayRead, Goto, Content, Labels
<1>2. LockInv'
  BY DEF SafeInv, LockInv, TypeOK, Get, MayRead, Goto, Ending, Ended, Labels
<1> QED BY <1>1, <1>2 DEF SafeInv

LEMMA ReadDbStep ==
  ASSUME NEW t \in Thread, SafeInv, ReadDb(t)
  PROVE  SafeInv'
<1>0. arg[t] \in Key
  BY DEF SafeInv, LockInv, ReadDb
<1>1. ViewOf(t) \in Content
  BY DEF SafeInv, LockInv, TypeOK, ViewOf, Current
<1>2. ViewOf(t)[arg[t]] \in Value \cup {None}
  BY <1>0, <1>1 DEF Content
<1>3. TypeOK'
  BY <1>2 DEF SafeInv, TypeOK, ReadDb, Goto, Labels
<1>4. LockInv'
  BY <1>0, <1>2 DEF SafeInv, LockInv, TypeOK, ReadDb, Goto, Ending, Ended, Labels
<1> QED BY <1>3, <1>4 DEF SafeInv

LEMMA SetKeyStep ==
  ASSUME NEW t \in Thread, NEW k \in Key, NEW v \in Value, SafeInv, SetKey(t, k, v)
  PROVE  SafeInv'
<1>1. Len(wtx) \in Nat \ {0} /\ Current \in Content /\ wtx' \in Seq(Content) /\ wtx' # <<>> /\ Len(wtx') = Len(wtx)
  BY DEF SafeInv, TypeOK, SetKey, Writing, Write, Content, Current
<1>2. TypeOK'
  BY <1>1, CachePutFacts DEF SafeInv, TypeOK, SetKey, Writing, io
<1>3. LockInv'
  BY <1>1 DEF SafeInv, LockInv, TypeOK, SetKey, Writing, io, Ending, Ended, Labels
<1> QED BY <1>2, <1>3 DEF SafeInv

LEMMA FillStep ==
  ASSUME NEW t \in Thread, SafeInv, Fill(t)
  PROVE  SafeInv'
<1>0. arg[t] \in Key /\ res[t] \in Value
  BY DEF SafeInv, LockInv, Fill
<1>1. TypeOK'
  BY <1>0, CachePutFacts DEF SafeInv, TypeOK, Fill, Goto, Labels
<1>2. LockInv'
  BY DEF SafeInv, LockInv, TypeOK, Fill, Goto, Ending, Ended, Labels
<1> QED BY <1>1, <1>2 DEF SafeInv

LEMMA SizeStep ==
  ASSUME NEW t \in Thread, SafeInv, Size(t)
  PROVE  SafeInv'
<1>1. SizeOf(ViewOf(t)) \in Int
  <2>1. IsFiniteSet({ k \in Key : ViewOf(t)[k] # None })
    BY ContentAssumption, FS_Subset
  <2> QED BY <2>1, FS_CardinalityType DEF SizeOf
<1>2. TypeOK'
  BY <1>1 DEF SafeInv, TypeOK, Size, io
<1>3. LockInv'
  BY DEF SafeInv, LockInv, TypeOK, Size, io, Ending, Ended, Labels
<1> QED BY <1>2, <1>3 DEF SafeInv

LEMMA BeginWriteStep ==
  ASSUME NEW t \in Thread, SafeInv, BeginWrite(t)
  PROVE  SafeInv'
<1>1. TypeOK'
  BY DEF SafeInv, TypeOK, BeginWrite, Goto, Labels
<1>2. LockInv'
  BY DEF SafeInv, LockInv, TypeOK, BeginWrite, Goto, Ending, Ended, Labels
<1> QED BY <1>1, <1>2 DEF SafeInv

LEMMA IsolateStep ==
  ASSUME NEW t \in Thread, SafeInv, Isolate(t)
  PROVE  SafeInv'
<1>1. TypeOK'
  BY DEF SafeInv, TypeOK, Isolate, Goto, Labels
<1>2. LockInv'
  BY DEF SafeInv, LockInv, TypeOK, Isolate, StackLocked, Goto, Ending, Ended, Labels
<1> QED BY <1>1, <1>2 DEF SafeInv

LEMMA EraseKeyStep ==
  ASSUME NEW t \in Thread, NEW k \in Key, SafeInv, EraseKey(t, k)
  PROVE  SafeInv'
<1>1. Len(wtx) \in Nat \ {0} /\ Current \in Content /\ wtx' \in Seq(Content) /\ wtx' # <<>> /\ Len(wtx') = Len(wtx)
  BY DEF SafeInv, TypeOK, EraseKey, Writing, Write, Content, Current
<1>2. cache' \in Content
  BY DEF SafeInv, TypeOK, EraseKey, Content
<1>3. TypeOK'
  BY <1>1, <1>2 DEF SafeInv, TypeOK, EraseKey, Writing, io
<1>4. LockInv'
  BY <1>1 DEF SafeInv, LockInv, TypeOK, EraseKey, Writing, io, Ending, Ended, Labels
<1> QED BY <1>3, <1>4 DEF SafeInv

LEMMA ClearStep ==
  ASSUME NEW t \in Thread, SafeInv, Clear(t)
  PROVE  SafeInv'
<1>1. /\ Empty \in Content /\ Len(wtx) \in Nat \ {0}
      /\ wtx' \in Seq(Content) /\ wtx' # <<>> /\ Len(wtx') = Len(wtx)
  BY DEF SafeInv, TypeOK, Clear, Writing, Content, Empty
<1>2. TypeOK'
  BY <1>1 DEF SafeInv, TypeOK, Clear, Writing, io
<1>3. LockInv'
  BY <1>1 DEF SafeInv, LockInv, TypeOK, Clear, Writing, io, Ending, Ended, Labels
<1> QED BY <1>2, <1>3 DEF SafeInv

LEMMA NestedStep ==
  ASSUME NEW t \in Thread, SafeInv, BeginNested(t) \/ CommitNested(t)
  PROVE  SafeInv' /\ wtx' # <<>> /\ Current' = Current
<1>1. /\ Len(wtx) \in Nat \ {0} /\ Current \in Content
      /\ t \in writer /\ pc[t] = "out"
      /\ UNCHANGED << db, writer, isolated, cache, sizeCache, scope, excl, io >>
  BY DEF SafeInv, TypeOK, BeginNested, CommitNested, Writing, Current
<1>2. wtx' \in Seq(Content) /\ wtx' # <<>> /\ Current' = Current
  <2>1. CASE BeginNested(t)
    BY <1>1, <2>1 DEF SafeInv, TypeOK, BeginNested, Current
  <2>2. CASE CommitNested(t)
    <3>1. SubSeq(wtx, 1, Len(wtx) - 2) \in Seq(Content)
      BY <1>1, <2>2 DEF SafeInv, TypeOK, CommitNested
    <3> QED BY <1>1, <2>2, <3>1 DEF CommitNested, Current
  <2> QED BY <2>1, <2>2
<1>3. TypeOK'
  BY <1>1, <1>2 DEF SafeInv, TypeOK, io
<1>4. LockInv'
  BY <1>1, <1>2 DEF SafeInv, LockInv, TypeOK, io, Ending, Ended, Labels
<1> QED BY <1>2, <1>3, <1>4 DEF SafeInv

LEMMA LockForEndStep ==
  ASSUME NEW t \in Thread, SafeInv, LockForEnd(t)
  PROVE  SafeInv'
<1>1. TypeOK'
  BY DEF SafeInv, TypeOK, LockForEnd, Goto, Labels
<1>2. LockInv'
  BY DEF SafeInv, LockInv, TypeOK, LockForEnd, Writing, Goto, Ending, Ended, Labels
<1> QED BY <1>1, <1>2 DEF SafeInv

LEMMA CommitDbStep ==
  ASSUME NEW t \in Thread, SafeInv, CommitDb(t)
  PROVE  SafeInv'
<1>1. TypeOK'
  BY DEF SafeInv, LockInv, TypeOK, CommitDb, Goto, Content, Current, Labels, Ending
<1>2. LockInv'
  BY DEF SafeInv, LockInv, TypeOK, CommitDb, NoReaders, Goto, Ending, Ended, Labels
<1> QED BY <1>1, <1>2 DEF SafeInv

LEMMA AbortDbStep ==
  ASSUME NEW t \in Thread, SafeInv, AbortDb(t)
  PROVE  SafeInv'
<1>1. TypeOK'
  BY DEF SafeInv, LockInv, TypeOK, AbortDb, Goto, Labels
<1>2. LockInv'
  BY DEF SafeInv, LockInv, TypeOK, AbortDb, NoReaders, Goto, Ending, Ended, Labels
<1> QED BY <1>1, <1>2 DEF SafeInv

LEMMA EndStep ==
  ASSUME NEW t \in Thread, SafeInv, EndCommit(t) \/ EndAbort(t)
  PROVE  SafeInv'
<1>1. Empty \in Content
  BY DEF Empty, Content
<1>2. TypeOK'
  BY <1>1 DEF SafeInv, TypeOK, EndCommit, EndAbort, Goto, Labels
<1>3. LockInv'
  <2>1. /\ pc[t] \in Ended /\ isolated = {t} /\ excl = {t} /\ t \notin writer
        /\ isolated' = {} /\ UNCHANGED << db, writer, wtx, arg, res >>
        /\ pc'[t] = "out" /\ \A u \in Thread \ {t} : pc'[u] = pc[u]
    BY DEF SafeInv, LockInv, TypeOK, EndCommit, EndAbort, Goto, Ended
  <2>2. \A u \in Thread \ {t} : pc[u] \notin Ending \cup Ended
    BY <2>1 DEF SafeInv, LockInv
  <2>3. \A u \in Thread : pc'[u] \notin Ending \cup Ended
    BY <2>1, <2>2 DEF Ending, Ended
  <2>4. \A u \in Thread : u \in writer => u # t /\ writer = {u} /\ pc[u] = "begun"
    BY <2>1 DEF SafeInv, LockInv
  <2>5. \A u \in Thread : pc'[u] \in { "begun", "read", "fill" } => pc'[u] = pc[u]
    BY <2>1
  <2> QED BY <2>1, <2>3, <2>4, <2>5 DEF SafeInv, LockInv
<1> QED BY <1>2, <1>3 DEF SafeInv

LEMMA SafeInit == Init => SafeInv
<1> SUFFICES ASSUME Init PROVE SafeInv
  OBVIOUS
<1>1. Empty \in Content
  BY DEF Empty, Content
<1>2. TypeOK
  BY <1>1 DEF Init, TypeOK, Labels
<1>3. LockInv
  BY DEF Init, LockInv, Ending, Ended
<1> QED BY <1>2, <1>3 DEF SafeInv

LEMMA SafeStep == SafeInv /\ [Next]_vars => SafeInv'
<1> SUFFICES ASSUME SafeInv, [Next]_vars PROVE SafeInv'
  OBVIOUS
<1>1. CASE UNCHANGED vars
  <2>1. TypeOK'
    BY <1>1 DEF SafeInv, TypeOK, vars, io
  <2>2. LockInv'
    BY <1>1 DEF SafeInv, LockInv, vars, io
  <2> QED BY <2>1, <2>2 DEF SafeInv
<1>2. CASE Next
  <2>1. PICK t \in Thread : Step(t)
    BY <1>2 DEF Next
  <2>2. CASE EnterScope(t) \/ LeaveScope(t)
    BY <2>2, ScopeStep
  <2>3. CASE BeginReadonly(t) \/ EndReadonly(t)
    BY <2>3, ReadonlyStep
  <2>4. CASE \E k \in Key : Get(t, k)
    BY <2>4, GetStep
  <2>5. CASE ReadDb(t)
    BY <2>5, ReadDbStep
  <2>6. CASE Fill(t)
    BY <2>6, FillStep
  <2>7. CASE Size(t)
    BY <2>7, SizeStep
  <2>8. CASE BeginWrite(t)
    BY <2>8, BeginWriteStep
  <2>9. CASE Isolate(t)
    BY <2>9, IsolateStep
  <2>10. CASE \E k \in Key, v \in Value : SetKey(t, k, v)
    BY <2>10, SetKeyStep
  <2>11. CASE \E k \in Key : EraseKey(t, k)
    BY <2>11, EraseKeyStep
  <2>12. CASE Clear(t)
    BY <2>12, ClearStep
  <2>13. CASE BeginNested(t) \/ CommitNested(t)
    BY <2>13, NestedStep
  <2>14. CASE LockForEnd(t)
    BY <2>14, LockForEndStep
  <2>15. CASE CommitDb(t)
    BY <2>15, CommitDbStep
  <2>16. CASE AbortDb(t)
    BY <2>16, AbortDbStep
  <2>17. CASE EndCommit(t) \/ EndAbort(t)
    BY <2>17, EndStep
  <2> QED
    BY <2>1, <2>2, <2>3, <2>4, <2>5, <2>6, <2>7, <2>8, <2>9, <2>10, <2>11, <2>12,
       <2>13, <2>14, <2>15, <2>16, <2>17 DEF Step
<1> QED BY <1>1, <1>2

THEOREM Invariance == Spec => []SafeInv
BY SafeInit, SafeStep, PTL DEF Spec

\* The variables keep their types, and there are views of write transactions
\* exactly while a thread owns m_write_exclusive_lock.
THEOREM TypeCorrect == Spec => []TypeOK
<1>1. SafeInv => TypeOK
  BY DEF SafeInv
<1> QED BY <1>1, Invariance, PTL

\* on_write_transaction_begin never finds the cache isolated already, for any
\* number of threads and with or without readers' scopes: the isolation of the
\* transaction before is gone when m_transactions_stack_lock is free.
THEOREM IsolationSwitchesOn == Spec => []IsolationFree
<1>1. SafeInv => IsolationFree
  BY DEF SafeInv, LockInv, IsolationFree, StackLocked, Ended, TypeOK
<1> QED BY <1>1, Invariance, PTL

-----------------------------------------------------------------------------
(***************************************************************************)
(* A database whose readers all use scopes: the one of blockchain_storage. *)
(***************************************************************************)
View(t) == IF t \in writer THEN Current ELSE db

\* Reads happen inside scopes, and so do read-only transactions, which therefore
\* see the last commit.
Sheltered ==
  /\ \A t \in Thread : snap[t] # <<>> => t \in scope /\ snap[t] = << db >>
  /\ \A t \in Thread : t \in scope => pc[t] \in { "out", "read", "fill" }
  /\ \A t \in Thread : pc[t] \in { "read", "fill" } => t \in scope
  /\ \A t \in Thread : t \notin scope => arg[t] = None

\* What a get has read is still there when it fills the cache.
FillInv == \A t \in Thread : pc[t] = "fill" => res[t] = View(t)[arg[t]]

GuardInv == SafeInv /\ Sheltered /\ FillInv /\ Coherent /\ RepeatableRead

\* A thread that may use the cache between its calls sees its own view in it.
LEMMA CacheIsView ==
  ASSUME NEW t \in Thread, GuardInv, pc[t] \in { "out", "read", "fill" }, CacheAllowed(t)
  PROVE  /\ \A u \in Thread : pc[u] # "aborted"
         /\ t \in writer => isolated = writer
         /\ t \notin writer => isolated = {}
         /\ \A k \in Key : cache[k] # None => cache[k] = View(t)[k]
<1>1. isolated \subseteq {t}
  BY DEF CacheAllowed
<1>2. \A u \in Thread : pc[u] \notin Ended
  BY <1>1 DEF GuardInv, SafeInv, LockInv, Ended
<1>3. t \in writer => isolated = {t} /\ writer = {t}
  BY DEF GuardInv, SafeInv, LockInv
<1>4. t \notin writer => isolated = {}
  BY <1>1, <1>2 DEF GuardInv, SafeInv, LockInv
<1> QED BY <1>2, <1>3, <1>4 DEF GuardInv, Coherent, View, Ended

LEMMA ScopeOfThreads == ASSUME SafeInv PROVE scope \subseteq Thread
BY ThreadAssumption DEF SafeInv, TypeOK

LEMMA GuardInit == ASSUME Guarded = Thread PROVE Init => GuardInv
<1> SUFFICES ASSUME Init PROVE GuardInv
  OBVIOUS
<1>1. SafeInv
  BY SafeInit
<1>2. Sheltered /\ FillInv /\ Coherent /\ RepeatableRead
  BY DEF Init, Sheltered, FillInv, Coherent, RepeatableRead, Empty
<1> QED BY <1>1, <1>2 DEF GuardInv

LEMMA GuardScope ==
  ASSUME NEW t \in Thread, GuardInv, EnterScope(t) \/ LeaveScope(t)
  PROVE  GuardInv'
<1>1. SafeInv'
  BY ScopeStep DEF GuardInv
<1>2. /\ UNCHANGED << db, writer, wtx, isolated, cache, excl, pc, snap >> /\ pc[t] = "out"
      /\ \A u \in Thread \ {t} : arg'[u] = arg[u] /\ res'[u] = res[u]
      /\ \A u \in Thread \ {t} : u \in scope' <=> u \in scope
      /\ t \in scope' => arg'[t] = arg[t] /\ t \notin scope
      /\ t \notin scope' => arg'[t] = None /\ snap[t] = <<>>
  BY DEF GuardInv, SafeInv, TypeOK, EnterScope, LeaveScope, io
<1>3. Sheltered'
  BY <1>2 DEF GuardInv, Sheltered
<1>4. FillInv'
  BY <1>2 DEF GuardInv, FillInv, View, Current
<1>5. Coherent'
  BY <1>2 DEF GuardInv, Coherent, Current
<1>6. RepeatableRead'
  <2>1. \A u \in scope' : u \in Thread /\ (u = t => arg'[u] = None)
    BY <1>1, <1>2, ThreadAssumption DEF GuardInv, SafeInv, TypeOK, Sheltered
  <2> QED BY <1>2, <2>1 DEF GuardInv, RepeatableRead
<1> QED BY <1>1, <1>3, <1>4, <1>5, <1>6 DEF GuardInv

LEMMA GuardReadonly ==
  ASSUME NEW t \in Thread, Guarded = Thread, GuardInv, BeginReadonly(t) \/ EndReadonly(t)
  PROVE  GuardInv'
<1>1. SafeInv'
  BY ReadonlyStep DEF GuardInv
<1>2. /\ UNCHANGED << db, writer, wtx, isolated, cache, scope, excl, pc, arg, res >>
      /\ snap'[t] = <<>> \/ (snap'[t] = << db >> /\ t \in scope)
      /\ \A u \in Thread \ {t} : snap'[u] = snap[u]
  BY DEF GuardInv, SafeInv, TypeOK, BeginReadonly, EndReadonly, MayRead
<1>3. Sheltered'
  BY <1>2 DEF GuardInv, Sheltered
<1>4. FillInv' /\ Coherent' /\ RepeatableRead'
  BY <1>2 DEF GuardInv, FillInv, Coherent, RepeatableRead, View, Current
<1> QED BY <1>1, <1>3, <1>4 DEF GuardInv

LEMMA GuardGet ==
  ASSUME NEW t \in Thread, NEW k \in Key, Guarded = Thread, GuardInv, Get(t, k)
  PROVE  GuardInv'
<1>1. SafeInv'
  BY GetStep DEF GuardInv
<1>2. /\ UNCHANGED << db, writer, wtx, isolated, cache, scope, snap >>
      /\ pc[t] = "out" /\ t \in scope /\ arg'[t] = k
      /\ \A u \in Thread \ {t} : pc'[u] = pc[u] /\ arg'[u] = arg[u] /\ res'[u] = res[u]
      /\ \/ pc'[t] = "read"
         \/ pc'[t] = "out" /\ res'[t] = cache[k] /\ cache[k] # None /\ CacheAllowed(t)
  BY DEF GuardInv, SafeInv, TypeOK, Get, MayRead, Goto
<1>3. Sheltered'
  BY <1>2 DEF GuardInv, Sheltered
<1>4. FillInv'
  BY <1>2 DEF GuardInv, FillInv, View, Current
<1>5. Coherent'
  BY <1>2 DEF GuardInv, Coherent, Current
<1>6. pc'[t] # "read" /\ t \notin writer => res'[t] = db[k]
  BY <1>2, CacheIsView DEF View
<1>7. RepeatableRead'
  BY <1>1, <1>2, <1>6, ScopeOfThreads DEF GuardInv, RepeatableRead
<1> QED BY <1>1, <1>3, <1>4, <1>5, <1>7 DEF GuardInv

LEMMA GuardReadDb ==
  ASSUME NEW t \in Thread, GuardInv, ReadDb(t)
  PROVE  GuardInv'
<1>1. SafeInv'
  BY ReadDbStep DEF GuardInv
<1>2. ViewOf(t) = View(t)
  BY DEF ViewOf, View, GuardInv, Sheltered
<1>3. /\ UNCHANGED << db, writer, wtx, isolated, cache, scope, snap, arg >>
      /\ pc[t] = "read" /\ res'[t] = View(t)[arg[t]] /\ pc'[t] \in { "out", "fill" }
      /\ \A u \in Thread \ {t} : pc'[u] = pc[u] /\ res'[u] = res[u]
  BY <1>2 DEF GuardInv, SafeInv, TypeOK, ReadDb, Goto
<1>4. Sheltered'
  BY <1>3 DEF GuardInv, Sheltered
<1>5. FillInv'
  BY <1>3 DEF GuardInv, FillInv, View, Current
<1>6. Coherent'
  BY <1>3 DEF GuardInv, Coherent, Current
<1>7. RepeatableRead'
  BY <1>1, <1>3, ScopeOfThreads DEF GuardInv, RepeatableRead, View
<1> QED BY <1>1, <1>4, <1>5, <1>6, <1>7 DEF GuardInv

LEMMA GuardFill ==
  ASSUME NEW t \in Thread, GuardInv, Fill(t)
  PROVE  GuardInv'
<1>1. SafeInv'
  BY FillStep DEF GuardInv
<1>2. /\ UNCHANGED << db, writer, wtx, isolated, scope, snap, arg, res >>
      /\ pc[t] = "fill" /\ pc'[t] = "out"
      /\ \A u \in Thread \ {t} : pc'[u] = pc[u]
      /\ cache' = cache \/ (CacheAllowed(t) /\ CachePut(arg[t], res[t]))
      /\ arg[t] \in Key /\ res[t] \in Value /\ res[t] = View(t)[arg[t]]
  BY DEF GuardInv, SafeInv, LockInv, FillInv, TypeOK, Fill, Goto
<1>3. Sheltered'
  BY <1>2 DEF GuardInv, Sheltered
<1>4. FillInv'
  BY <1>2 DEF GuardInv, FillInv, View, Current
<1>5. Coherent'
  <2>1. CASE cache' = cache
    BY <1>2, <2>1 DEF GuardInv, Coherent, Current
  <2>2. CASE CacheAllowed(t) /\ CachePut(arg[t], res[t])
    <3>1. \A x \in Key : cache'[x] # None =>
            cache'[x] = IF x = arg[t] THEN res[t] ELSE cache[x]
      BY <1>2, <2>2, CachePutFacts DEF GuardInv, SafeInv
    <3>2. \A x \in Key : cache'[x] # None => cache'[x] = View(t)[x]
      BY <1>2, <2>2, <3>1, CacheIsView
    <3>3. /\ t \in writer => isolated = writer
          /\ t \notin writer => isolated = {}
      BY <1>2, <2>2, CacheIsView
    <3> QED BY <1>2, <3>2, <3>3 DEF Coherent, View, Current
  <2> QED BY <1>2, <2>1, <2>2
<1>6. RepeatableRead'
  BY <1>1, <1>2, ScopeOfThreads DEF GuardInv, RepeatableRead, FillInv, View
<1> QED BY <1>1, <1>3, <1>4, <1>5, <1>6 DEF GuardInv

LEMMA GuardSize ==
  ASSUME NEW t \in Thread, GuardInv, Size(t)
  PROVE  GuardInv'
<1>1. SafeInv'
  BY SizeStep DEF GuardInv
<1>2. UNCHANGED << db, writer, wtx, isolated, cache, scope, excl, io >>
  BY DEF Size
<1>3. Sheltered' /\ FillInv' /\ Coherent' /\ RepeatableRead'
  BY <1>2 DEF GuardInv, Sheltered, FillInv, Coherent, RepeatableRead, View, Current, io
<1> QED BY <1>1, <1>3 DEF GuardInv

LEMMA GuardBeginWrite ==
  ASSUME NEW t \in Thread, GuardInv, BeginWrite(t)
  PROVE  GuardInv'
<1>1. SafeInv'
  BY BeginWriteStep DEF GuardInv
<1>2. /\ UNCHANGED << db, isolated, cache, scope, snap, arg, res >>
      /\ pc[t] = "out" /\ pc'[t] = "begun" /\ t \notin scope /\ writer = {} /\ writer' = {t}
      /\ \A u \in Thread \ {t} : pc'[u] = pc[u]
  BY DEF GuardInv, SafeInv, TypeOK, BeginWrite, Goto
<1>3. Sheltered'
  BY <1>2 DEF GuardInv, Sheltered
<1>4. FillInv'
  BY <1>2 DEF GuardInv, FillInv, View
<1>5. isolated # {t}
  BY <1>2 DEF GuardInv, SafeInv, LockInv, Ended
<1>6. Coherent'
  BY <1>2, <1>5 DEF GuardInv, Coherent
<1>7. RepeatableRead'
  BY <1>2, ScopeOfThreads DEF GuardInv, RepeatableRead
<1> QED BY <1>1, <1>3, <1>4, <1>6, <1>7 DEF GuardInv

LEMMA GuardIsolate ==
  ASSUME NEW t \in Thread, GuardInv, Isolate(t)
  PROVE  GuardInv'
<1>1. SafeInv'
  BY IsolateStep DEF GuardInv
<1>2. /\ UNCHANGED << db, writer, wtx, cache, scope, snap, arg, res >>
      /\ pc[t] = "begun" /\ pc'[t] = "out" /\ isolated' = {t} /\ ~StackLocked
      /\ \A u \in Thread \ {t} : pc'[u] = pc[u]
  BY DEF GuardInv, SafeInv, TypeOK, Isolate, Goto
<1>3. isolated = {} /\ wtx = << db >> /\ writer = {t}
  BY <1>2 DEF GuardInv, SafeInv, LockInv, TypeOK, StackLocked, Ended
<1>4. Sheltered'
  BY <1>2 DEF GuardInv, Sheltered
<1>5. FillInv'
  BY <1>2 DEF GuardInv, FillInv, View, Current
<1>6. Coherent'
  <2>1. \A u \in Thread : pc[u] # "aborted"
    BY <1>2 DEF StackLocked
  <2>2. \A k \in Key : cache[k] # None => cache[k] = db[k]
    BY <1>3, <2>1 DEF GuardInv, Coherent
  <2>3. Current' = db
    BY <1>2, <1>3 DEF Current
  <2> QED BY <1>2, <2>2, <2>3 DEF Coherent
<1>7. RepeatableRead'
  BY <1>2, <1>3, ScopeOfThreads DEF GuardInv, RepeatableRead
<1> QED BY <1>1, <1>4, <1>5, <1>6, <1>7 DEF GuardInv

\* The writer changes its view and keeps the cache in agreement with it.
LEMMA GuardWrite ==
  ASSUME NEW t \in Thread, GuardInv, Writing(t), SafeInv',
         UNCHANGED << db, writer, isolated, scope, excl, io >>,
         \A k \in Key : cache'[k] # None => cache'[k] = Current'[k]
  PROVE  GuardInv'
<1>1. isolated = {t} /\ writer = {t} /\ pc[t] = "out"
  BY DEF GuardInv, SafeInv, LockInv, Writing
<1>2. Sheltered'
  BY DEF GuardInv, Sheltered, io
<1>3. FillInv'
  <2>1. \A u \in Thread : pc[u] = "fill" => View(u) = db /\ View(u)' = db
    BY <1>1 DEF View
  <2> QED BY <2>1 DEF GuardInv, FillInv, io
<1>4. Coherent'
  BY <1>1 DEF Coherent
<1>5. RepeatableRead'
  BY DEF GuardInv, RepeatableRead, io
<1> QED BY <1>2, <1>3, <1>4, <1>5 DEF GuardInv

\* While a transaction writes, the cache holds its view.
LEMMA CacheOfWriter ==
  ASSUME NEW t \in Thread, GuardInv, Writing(t)
  PROVE  /\ CacheAllowed(t) /\ Len(wtx) \in Nat \ {0} /\ wtx \in Seq(Content)
         /\ \A k \in Key : cache[k] # None => cache[k] = Current[k]
<1>1. isolated = {t} /\ writer = {t} /\ pc[t] = "out"
  BY DEF GuardInv, SafeInv, LockInv, Writing
<1>2. CacheAllowed(t)
  BY <1>1 DEF CacheAllowed
<1>3. \A k \in Key : cache[k] # None => cache[k] = Current[k]
  BY <1>1, <1>2, CacheIsView DEF View
<1>4. wtx # <<>> /\ wtx \in Seq(Content)
  BY <1>1 DEF GuardInv, SafeInv, TypeOK
<1> QED BY <1>2, <1>3, <1>4

LEMMA WriteFacts ==
  ASSUME NEW k \in Key, NEW v, wtx \in Seq(Content), Len(wtx) \in Nat \ {0}, Write(k, v)
  PROVE  \A x \in Key : Current'[x] = IF x = k THEN v ELSE Current[x]
<1>1. Current \in Content
  BY DEF Current
<1>2. Current' = [Current EXCEPT ![k] = v]
  BY DEF Write, Current
<1> QED BY <1>1, <1>2 DEF Content

LEMMA GuardSetKey ==
  ASSUME NEW t \in Thread, NEW k \in Key, NEW v \in Value, GuardInv, SetKey(t, k, v)
  PROVE  GuardInv'
<1>1. SafeInv'
  BY SetKeyStep DEF GuardInv
<1>2. /\ Writing(t) /\ Write(k, v) /\ (CacheAllowed(t) => CachePut(k, v))
      /\ UNCHANGED << db, writer, isolated, scope, excl, io >>
  BY DEF SetKey
<1>3. \A x \in Key : cache'[x] # None => cache'[x] = IF x = k THEN v ELSE cache[x]
  BY <1>2, CacheOfWriter, CachePutFacts DEF GuardInv, SafeInv
<1>4. \A x \in Key : Current'[x] = IF x = k THEN v ELSE Current[x]
  BY <1>2, CacheOfWriter, WriteFacts
<1>5. \A x \in Key : cache'[x] # None => cache'[x] = Current'[x]
  BY <1>2, <1>3, <1>4, CacheOfWriter
<1> QED BY <1>1, <1>2, <1>5, GuardWrite

LEMMA GuardEraseKey ==
  ASSUME NEW t \in Thread, NEW k \in Key, GuardInv, EraseKey(t, k)
  PROVE  GuardInv'
<1>1. SafeInv'
  BY EraseKeyStep DEF GuardInv
<1>2. /\ Writing(t) /\ Write(k, None) /\ cache' = [cache EXCEPT ![k] = None]
      /\ UNCHANGED << db, writer, isolated, scope, excl, io >>
  BY DEF EraseKey
<1>3. \A x \in Key : cache'[x] # None => x # k /\ cache'[x] = cache[x]
  BY <1>2 DEF GuardInv, SafeInv, TypeOK, Content
<1>4. \A x \in Key : Current'[x] = IF x = k THEN None ELSE Current[x]
  BY <1>2, CacheOfWriter, WriteFacts
<1>5. \A x \in Key : cache'[x] # None => cache'[x] = Current'[x]
  BY <1>2, <1>3, <1>4, CacheOfWriter
<1> QED BY <1>1, <1>2, <1>5, GuardWrite

LEMMA GuardClear ==
  ASSUME NEW t \in Thread, GuardInv, Clear(t)
  PROVE  GuardInv'
<1>1. SafeInv'
  BY ClearStep DEF GuardInv
<1>2. Writing(t) /\ cache' = Empty /\ UNCHANGED << db, writer, isolated, scope, excl, io >>
  BY DEF Clear
<1>3. \A x \in Key : cache'[x] # None => cache'[x] = Current'[x]
  BY <1>2 DEF Empty
<1> QED BY <1>1, <1>2, <1>3, GuardWrite

LEMMA GuardNested ==
  ASSUME NEW t \in Thread, GuardInv, BeginNested(t) \/ CommitNested(t)
  PROVE  GuardInv'
<1>1. SafeInv' /\ Current' = Current
  BY NestedStep DEF GuardInv
<1>2. Writing(t) /\ cache' = cache /\ UNCHANGED << db, writer, isolated, scope, excl, io >>
  BY DEF BeginNested, CommitNested
<1>3. \A x \in Key : cache'[x] # None => cache'[x] = Current'[x]
  BY <1>1, <1>2, CacheOfWriter
<1> QED BY <1>1, <1>2, <1>3, GuardWrite

LEMMA GuardLockForEnd ==
  ASSUME NEW t \in Thread, GuardInv, LockForEnd(t)
  PROVE  GuardInv'
<1>1. SafeInv'
  BY LockForEndStep DEF GuardInv
<1>2. /\ UNCHANGED << db, writer, wtx, isolated, cache, scope, snap, arg, res >>
      /\ pc[t] = "out" /\ pc'[t] \in Ending /\ t \notin scope
      /\ \A u \in Thread \ {t} : pc'[u] = pc[u]
  BY DEF GuardInv, SafeInv, TypeOK, LockForEnd, Writing, Goto, Ending
<1>3. Sheltered'
  BY <1>2 DEF GuardInv, Sheltered, Ending
<1>4. FillInv'
  BY <1>2 DEF GuardInv, FillInv, View, Current, Ending
<1>5. Coherent'
  BY <1>2 DEF GuardInv, Coherent, Current
<1>6. RepeatableRead'
  BY <1>2, ScopeOfThreads DEF GuardInv, RepeatableRead
<1> QED BY <1>1, <1>3, <1>4, <1>5, <1>6 DEF GuardInv

\* No thread is inside a scope here, so none holds a value it has read.
LEMMA GuardCommitDb ==
  ASSUME NEW t \in Thread, GuardInv, CommitDb(t)
  PROVE  GuardInv'
<1>1. SafeInv'
  BY CommitDbStep DEF GuardInv
<1>2. /\ UNCHANGED << isolated, cache, scope, snap, arg, res >>
      /\ pc[t] = "commit" /\ pc'[t] = "committed" /\ scope = {} /\ db' = Current /\ writer' = {}
      /\ \A u \in Thread \ {t} : pc'[u] = pc[u]
  BY DEF GuardInv, SafeInv, TypeOK, CommitDb, NoReaders, Goto
<1>3. isolated = {t} /\ writer = {t}
  BY <1>2 DEF GuardInv, SafeInv, LockInv, Ending
<1>4. Sheltered'
  BY <1>2 DEF GuardInv, Sheltered
<1>5. FillInv' /\ RepeatableRead'
  BY <1>2 DEF GuardInv, Sheltered, FillInv, RepeatableRead
<1>6. Coherent'
  BY <1>2, <1>3 DEF GuardInv, Coherent
<1> QED BY <1>1, <1>4, <1>5, <1>6 DEF GuardInv

LEMMA GuardAbortDb ==
  ASSUME NEW t \in Thread, GuardInv, AbortDb(t)
  PROVE  GuardInv'
<1>1. SafeInv'
  BY AbortDbStep DEF GuardInv
<1>2. /\ UNCHANGED << isolated, cache, scope, snap, arg, res >>
      /\ pc[t] = "abort" /\ pc'[t] = "aborted" /\ scope = {}
      /\ \A u \in Thread \ {t} : pc'[u] = pc[u]
  BY DEF GuardInv, SafeInv, TypeOK, AbortDb, NoReaders, Goto
<1>3. Sheltered'
  BY <1>2 DEF GuardInv, Sheltered
<1>4. FillInv' /\ RepeatableRead'
  BY <1>2 DEF GuardInv, Sheltered, FillInv, RepeatableRead
<1>5. Coherent'
  BY <1>2 DEF Coherent
<1> QED BY <1>1, <1>3, <1>4, <1>5 DEF GuardInv

LEMMA GuardEnd ==
  ASSUME NEW t \in Thread, GuardInv, EndCommit(t) \/ EndAbort(t)
  PROVE  GuardInv'
<1>1. SafeInv'
  BY EndStep DEF GuardInv
<1>2. /\ UNCHANGED << db, writer, wtx, scope, snap, arg, res >>
      /\ pc[t] \in Ended /\ pc'[t] = "out" /\ isolated' = {}
      /\ cache' = Empty \/ (cache' = cache /\ pc[t] = "committed")
      /\ \A u \in Thread \ {t} : pc'[u] = pc[u]
  BY DEF GuardInv, SafeInv, TypeOK, EndCommit, EndAbort, Goto, Ended
<1>3. scope = {} /\ isolated = {t} /\ t \notin writer
  BY <1>2 DEF GuardInv, SafeInv, LockInv
<1>4. Sheltered'
  BY <1>2 DEF GuardInv, Sheltered, Ended
<1>5. FillInv' /\ RepeatableRead'
  BY <1>2, <1>3 DEF GuardInv, Sheltered, FillInv, RepeatableRead
<1>6. \A k \in Key : cache'[k] # None => cache'[k] = db[k]
  <2>1. CASE cache' = Empty
    BY <2>1 DEF Empty
  <2>2. CASE cache' = cache /\ pc[t] = "committed"
    <3>1. \A u \in Thread : pc[u] # "aborted"
      BY <1>3, <2>2 DEF GuardInv, SafeInv, LockInv, Ended
    <3> QED BY <1>3, <2>2, <3>1 DEF GuardInv, Coherent
  <2> QED BY <1>2, <2>1, <2>2
<1>7. Coherent'
  BY <1>2, <1>6 DEF Coherent
<1> QED BY <1>1, <1>4, <1>5, <1>7 DEF GuardInv

LEMMA GuardStep ==
  ASSUME Guarded = Thread PROVE GuardInv /\ [Next]_vars => GuardInv'
<1> SUFFICES ASSUME GuardInv, [Next]_vars PROVE GuardInv'
  OBVIOUS
<1>1. CASE UNCHANGED vars
  <2>1. SafeInv'
    BY <1>1, SafeStep DEF GuardInv
  <2>2. Sheltered' /\ FillInv' /\ Coherent' /\ RepeatableRead'
    BY <1>1 DEF GuardInv, Sheltered, FillInv, Coherent, RepeatableRead, View, Current, vars, io
  <2> QED BY <2>1, <2>2 DEF GuardInv
<1>2. CASE Next
  <2>1. PICK t \in Thread : Step(t)
    BY <1>2 DEF Next
  <2>2. CASE BeginReadonly(t) \/ EndReadonly(t)
    BY <2>2, GuardReadonly
  <2>3. CASE EnterScope(t) \/ LeaveScope(t)
    BY <2>3, GuardScope
  <2>4. CASE \E k \in Key : Get(t, k)
    BY <2>4, GuardGet
  <2>5. CASE ReadDb(t)
    BY <2>5, GuardReadDb
  <2>6. CASE Fill(t)
    BY <2>6, GuardFill
  <2>7. CASE Size(t)
    BY <2>7, GuardSize
  <2>8. CASE BeginWrite(t)
    BY <2>8, GuardBeginWrite
  <2>9. CASE Isolate(t)
    BY <2>9, GuardIsolate
  <2>10. CASE \E k \in Key, v \in Value : SetKey(t, k, v)
    BY <2>10, GuardSetKey
  <2>11. CASE \E k \in Key : EraseKey(t, k)
    BY <2>11, GuardEraseKey
  <2>12. CASE Clear(t)
    BY <2>12, GuardClear
  <2>13. CASE BeginNested(t) \/ CommitNested(t)
    BY <2>13, GuardNested
  <2>14. CASE LockForEnd(t)
    BY <2>14, GuardLockForEnd
  <2>15. CASE CommitDb(t)
    BY <2>15, GuardCommitDb
  <2>16. CASE AbortDb(t)
    BY <2>16, GuardAbortDb
  <2>17. CASE EndCommit(t) \/ EndAbort(t)
    BY <2>17, GuardEnd
  <2> QED
    BY <2>1, <2>2, <2>3, <2>4, <2>5, <2>6, <2>7, <2>8, <2>9, <2>10, <2>11, <2>12,
       <2>13, <2>14, <2>15, <2>16, <2>17 DEF Step
<1> QED BY <1>1, <1>2

LEMMA GuardInvariance == ASSUME Guarded = Thread PROVE Spec => []GuardInv
BY GuardInit, GuardStep, PTL DEF Spec

\* When every reader takes the shared side of the lock, the cache never holds
\* anything but the committed content, or the writer's view while it has the cache
\* for itself: the fill of a slow get cannot bring back an overwritten or erased
\* value, whatever the size of the cache and the nesting of transactions.
THEOREM CacheCoherent == ASSUME Guarded = Thread PROVE Spec => []Coherent
<1>1. GuardInv => Coherent
  BY DEF GuardInv
<1> QED BY <1>1, GuardInvariance, PTL

\* Two reads inside one shared scope come from one committed state, whether they
\* are answered by the cache or by the database.
THEOREM ReadsRepeatable == ASSUME Guarded = Thread PROVE Spec => []RepeatableRead
<1>1. GuardInv => RepeatableRead
  BY DEF GuardInv
<1> QED BY <1>1, GuardInvariance, PTL
=============================================================================
