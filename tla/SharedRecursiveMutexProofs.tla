--------------------- MODULE SharedRecursiveMutexProofs ---------------------
(***************************************************************************)
(* Mutual exclusion and the absence of lost wakeups of                     *)
(* shared_recursive_mutex, for every finite set of threads.                *)
(***************************************************************************)
EXTENDS SharedRecursiveMutex, FiniteSetTheorems, SequenceTheorems, TLAPS

(* The positions of exclusive scopes in a stack, and their number. *)
XPos(s)   == {i \in 1..Len(s) : s[i] = "X"}
XCount(s) == Cardinality(XPos(s))

(* Threads counted by readers_count. *)
Readers == {t \in Threads : OutermostIs(t, "S")}

(* Threads inside lock() or lock_shared() after exclusive_lock.lock(). *)
Inside(t) == pc[t] \in {"lock", "wait", "enter"}

(* The ptc record of a thread follows its scopes. *)
PtcInv == \A t \in Threads :
  /\ recursion[t] = Len(scopes[t]) + IF pc[t] = "wait" THEN 1 ELSE 0
  /\ isWriter[t] <=> (pc[t] = "wait" \/ OutermostIs(t, "X"))
  /\ pc[t] \in {"wait", "enter", "check", "notify"} => scopes[t] = <<>>
  /\ XPos(scopes[t]) # {} => OutermostIs(t, "X")

(* exclusive_lock is held once for each exclusive scope, and once more     *)
(* while its owner is inside lock() or lock_shared().                      *)
OwnerInv == \A t \in Threads :
  /\ (Inside(t) \/ OutermostIs(t, "X")) => owner = {t}
  /\ owner = {t} => held >= XCount(scopes[t]) + IF Inside(t) THEN 1 ELSE 0

CountInv ==
  /\ readersCount = Cardinality(Readers)
  /\ \A t \in Threads : OutermostIs(t, "X") => readersCount = 0

IndInv == TypeOK /\ PtcInv /\ OwnerInv /\ CountInv

-----------------------------------------------------------------------------
(* Opening or closing one scope changes the number of exclusive scopes by  *)
(* one exactly when the scope is exclusive.                                *)
LEMMA XCountFacts ==
  ASSUME NEW s \in Seq({"X", "S"})
  PROVE  /\ IsFiniteSet(XPos(s)) /\ XCount(s) \in Nat
         /\ XCount(s) = 0 <=> XPos(s) = {}
         /\ XCount(Append(s, "X")) = XCount(s) + 1
         /\ XCount(Append(s, "S")) = XCount(s)
         /\ s # <<>> =>
              XCount(SubSeq(s, 1, Len(s) - 1)) =
                IF s[Len(s)] = "X" THEN XCount(s) - 1 ELSE XCount(s)
<1>1. IsFiniteSet(XPos(s))
  <2>1. IsFiniteSet(1..Len(s))
    BY FS_Interval, Len(s) \in Int, 1 \in Int
  <2>2. XPos(s) \in SUBSET (1..Len(s))
    BY DEF XPos
  <2> QED BY <2>1, <2>2, FS_Subset
<1>2. XCount(s) \in Nat /\ (XCount(s) = 0 <=> XPos(s) = {})
  BY <1>1, FS_CardinalityType, FS_EmptySet DEF XCount
<1>3. XCount(Append(s, "X")) = XCount(s) + 1
  <2>1. XPos(Append(s, "X")) = XPos(s) \cup {Len(s) + 1}
    BY DEF XPos
  <2>2. Len(s) + 1 \notin XPos(s)
    BY DEF XPos
  <2> QED BY <1>1, <2>1, <2>2, FS_AddElement DEF XCount
<1>4. XCount(Append(s, "S")) = XCount(s)
  <2>1. XPos(Append(s, "S")) = XPos(s)
    BY DEF XPos
  <2> QED BY <2>1 DEF XCount
<1>5. ASSUME s # <<>>
      PROVE  XCount(SubSeq(s, 1, Len(s) - 1)) =
               IF s[Len(s)] = "X" THEN XCount(s) - 1 ELSE XCount(s)
  <2>1. XPos(SubSeq(s, 1, Len(s) - 1)) = XPos(s) \ {Len(s)}
    BY <1>5 DEF XPos
  <2>2. Len(s) \in XPos(s) <=> s[Len(s)] = "X"
    BY <1>5 DEF XPos
  <2> QED BY <1>1, <2>1, <2>2, FS_RemoveElement DEF XCount
<1> QED BY <1>1, <1>2, <1>3, <1>4, <1>5

(* The stack after opening a scope, as the invariants read it. *)
LEMMA AppendFacts ==
  ASSUME NEW s \in Seq({"X", "S"}), NEW m \in {"X", "S"}
  PROVE  /\ Append(s, m) \in Seq({"X", "S"}) /\ Len(Append(s, m)) = Len(s) + 1
         /\ Append(s, m) # <<>>
         /\ Append(s, m)[1] = IF s = <<>> THEN m ELSE s[1]
<1>1. Append(s, m) \in Seq({"X", "S"}) /\ Len(Append(s, m)) = Len(s) + 1
  OBVIOUS
<1>2. Append(s, m) # <<>>
  BY <1>1
<1>3. s = <<>> => Append(s, m)[1] = m
  OBVIOUS
<1>4. s # <<>> => Append(s, m)[1] = s[1]
  OBVIOUS
<1> QED BY <1>1, <1>2, <1>3, <1>4

(* The stack after leaving the innermost scope. *)
LEMMA PopFacts ==
  ASSUME NEW s \in Seq({"X", "S"}), s # <<>>, NEW f, f = SubSeq(s, 1, Len(s) - 1)
  PROVE  /\ f \in Seq({"X", "S"}) /\ Len(f) = Len(s) - 1 /\ Len(s) # 0
         /\ f = <<>> <=> Len(s) = 1
         /\ f # <<>> => f[1] = s[1]
<1>1. Len(s) \in Nat /\ Len(s) # 0
  OBVIOUS
<1>2. f \in Seq({"X", "S"}) /\ Len(f) = Len(s) - 1
  <2>1. \A i \in 1..(Len(s) - 1) : s[i] \in {"X", "S"}
    BY <1>1
  <2>2. SubSeq(s, 1, Len(s) - 1) \in Seq({"X", "S"})
    BY <1>1, <2>1, SubSeqProperties
  <2>3. Len(SubSeq(s, 1, Len(s) - 1)) = IF 1 <= Len(s) - 1 THEN Len(s) - 1 - 1 + 1 ELSE 0
    BY <1>1, <2>1, SubSeqProperties
  <2>4. \A n \in Nat : n # 0 => (IF 1 <= n - 1 THEN n - 1 - 1 + 1 ELSE 0) = n - 1
    OBVIOUS
  <2> QED BY <1>1, <2>2, <2>3, <2>4, Zenon
<1>3. f = <<>> <=> Len(s) = 1
  <2>1. Len(s) = 1 => f = <<>>
    BY <1>1, SubSeqEmpty
  <2>2. f = <<>> => Len(f) = 0
    OBVIOUS
  <2> QED BY <1>1, <1>2, <2>1, <2>2
<1>4. ASSUME f # <<>> PROVE f[1] = s[1]
  BY <1>1, <1>2, <1>3, <1>4
<1> QED BY <1>1, <1>2, <1>3, <1>4

(* readers_count follows the threads whose outermost scope is shared. *)
LEMMA ReadersFacts ==
  ASSUME TypeOK, NEW t \in Threads
  PROVE  /\ IsFiniteSet(Readers)
         /\ Cardinality(Readers) \in Nat
         /\ Cardinality(Readers) = 0 => Readers = {}
         /\ (Readers' = Readers \cup {t} /\ t \notin Readers)
              => Cardinality(Readers)' = Cardinality(Readers) + 1
         /\ (Readers' = Readers \ {t} /\ t \in Readers)
              => Cardinality(Readers)' = Cardinality(Readers) - 1
         /\ Readers' = Readers => Cardinality(Readers)' = Cardinality(Readers)
<1>1. IsFiniteSet(Readers)
  <2>1. Readers \in SUBSET Threads
    BY DEF Readers
  <2> QED BY <2>1, ThreadsAssumption, FS_Subset
<1>2. Cardinality(Readers) \in Nat /\ (Cardinality(Readers) = 0 => Readers = {})
  BY <1>1, FS_CardinalityType, FS_EmptySet
<1>3. (Readers' = Readers \cup {t} /\ t \notin Readers)
        => Cardinality(Readers)' = Cardinality(Readers) + 1
  BY <1>1, FS_AddElement
<1>4. (Readers' = Readers \ {t} /\ t \in Readers)
        => Cardinality(Readers)' = Cardinality(Readers) - 1
  BY <1>1, FS_RemoveElement
<1> QED BY <1>1, <1>2, <1>3, <1>4

-----------------------------------------------------------------------------
(* Every step keeps the types of the lock's fields. *)
LEMMA TypeStep ==
  ASSUME IndInv, NEW t \in Threads, Step(t)
  PROVE  TypeOK'
<1> USE DEF IndInv, TypeOK, Labels, Goto
<1>1. CASE Lock(t)
  BY <1>1 DEF Lock, AcquireExclusive
<1>2. CASE LockThrows(t)
  BY <1>2 DEF LockThrows
<1>3. CASE LockRegion(t)
  <2>1. Append(scopes[t], "X") \in Seq({"X", "S"})
    BY AppendFacts
  <2>2. scopes' \in [Threads -> Seq({"X", "S"})]
    BY <1>3, <2>1 DEF LockRegion, Push
  <2>3. isWriter' \in [Threads -> BOOLEAN] /\ recursion' \in [Threads -> Nat]
    BY <1>3 DEF LockRegion
  <2>4. pc' \in [Threads -> Labels] /\ waiting' \in SUBSET Threads
    BY <1>3 DEF LockRegion
  <2> QED BY <1>3, <2>2, <2>3, <2>4 DEF LockRegion
<1>4. CASE Woken(t)
  <2>1. Append(scopes[t], "X") \in Seq({"X", "S"})
    BY AppendFacts
  <2>2. scopes' \in [Threads -> Seq({"X", "S"})]
    BY <1>4, <2>1 DEF Woken, Push
  <2> QED BY <1>4, <2>2 DEF Woken
<1>5. CASE SpuriousWakeup(t)
  BY <1>5 DEF SpuriousWakeup
<1>6. CASE Unlock(t)
  <2>1. held >= 1
    <3>1. Len(scopes[t]) \in XPos(scopes[t])
      BY <1>6 DEF Unlock, InScope, XPos
    <3>2. owner = {t} /\ held >= XCount(scopes[t]) + IF Inside(t) THEN 1 ELSE 0
      BY <3>1 DEF PtcInv, OwnerInv
    <3> QED BY <3>1, <3>2, XCountFacts
  <2>2. recursion[t] >= 1
    BY <1>6 DEF Unlock, InScope, PtcInv
  <2>3. SubSeq(scopes[t], 1, Len(scopes[t]) - 1) \in Seq({"X", "S"})
    BY <1>6 DEF Unlock, InScope
  <2>4. held' \in Nat /\ owner' \in SUBSET Threads
    BY <1>6, <2>1 DEF Unlock, ReleaseExclusive
  <2>5. scopes' \in [Threads -> Seq({"X", "S"})]
    BY <1>6, <2>3 DEF Unlock, Pop
  <2>6. recursion' \in [Threads -> Nat]
    BY <1>6, <2>2 DEF Unlock, LeavePtc
  <2>7. isWriter' \in [Threads -> BOOLEAN]
    BY <1>6 DEF Unlock, LeavePtc
  <2> QED BY <1>6, <2>4, <2>5, <2>6, <2>7 DEF Unlock
<1>7. CASE LockShared(t)
  <2>1. Append(scopes[t], "S") \in Seq({"X", "S"})
    BY AppendFacts
  <2>2. scopes' \in [Threads -> Seq({"X", "S"})]
    BY <1>7, <2>1 DEF LockShared, Push
  <2>3. pc' \in [Threads -> Labels] /\ recursion' \in [Threads -> Nat]
    <3>1. CASE pc' = [pc EXCEPT ![t] = "enter"] /\ recursion' = recursion
      BY <3>1
    <3>2. CASE pc' = pc /\ recursion' = [recursion EXCEPT ![t] = @ + 1]
      BY <3>2
    <3> QED BY <1>7, <3>1, <3>2 DEF LockShared
  <2>4. owner' \in SUBSET Threads /\ held' \in Nat
    BY <1>7 DEF LockShared, AcquireExclusive
  <2> QED BY <1>7, <2>2, <2>3, <2>4 DEF LockShared
<1>8. CASE EnterShared(t)
  <2>1. held >= 1
    BY <1>8, XCountFacts DEF EnterShared, OwnerInv, Inside
  <2> QED BY <1>8, <2>1 DEF EnterShared, ReleaseExclusive, Push
<1>9. CASE UnlockShared(t)
  <2>1. recursion[t] >= 1
    BY <1>9 DEF UnlockShared, InScope, PtcInv
  <2>2. SubSeq(scopes[t], 1, Len(scopes[t]) - 1) \in Seq({"X", "S"})
    BY <1>9 DEF UnlockShared, InScope
  <2>3. recursion[t] = 1 => readersCount >= 1
    <3>1. HAVE recursion[t] = 1
    <3>2. t \in Readers
      BY <1>9, <3>1 DEF UnlockShared, InScope, PtcInv, Readers, OutermostIs
    <3> QED BY <3>2, ReadersFacts DEF CountInv
  <2>4. readersCount' \in Nat /\ pc' \in [Threads -> Labels]
    BY <1>9, <2>3 DEF UnlockShared
  <2>5. scopes' \in [Threads -> Seq({"X", "S"})]
    BY <1>9, <2>2 DEF UnlockShared, Pop
  <2>6. recursion' \in [Threads -> Nat]
    BY <1>9, <2>1 DEF UnlockShared, LeavePtc
  <2>7. isWriter' \in [Threads -> BOOLEAN]
    BY <1>9 DEF UnlockShared, LeavePtc
  <2> QED BY <1>9, <2>4, <2>5, <2>6, <2>7 DEF UnlockShared
<1>10. CASE CheckReaders(t)
  BY <1>10 DEF CheckReaders
<1>11. CASE NotifyAll(t)
  BY <1>11 DEF NotifyAll
<1> QED BY <1>1, <1>2, <1>3, <1>4, <1>5, <1>6, <1>7, <1>8, <1>9, <1>10, <1>11 DEF Step

-----------------------------------------------------------------------------
(* A step of t leaves the ptc record, the stack and the label of every     *)
(* other thread alone.                                                     *)
LEMMA FrameStep ==
  ASSUME TypeOK, NEW t \in Threads, Step(t), NEW u \in Threads, u # t
  PROVE  /\ recursion'[u] = recursion[u] /\ isWriter'[u] = isWriter[u]
         /\ pc'[u] = pc[u] /\ scopes'[u] = scopes[u]
<1> USE DEF TypeOK, Goto, Push, Pop, LeavePtc
<1>1. CASE Lock(t) \/ LockThrows(t) \/ SpuriousWakeup(t) \/ CheckReaders(t) \/ NotifyAll(t)
  BY <1>1 DEF Lock, LockThrows, SpuriousWakeup, CheckReaders, NotifyAll
<1>2. CASE LockRegion(t)
  BY <1>2 DEF LockRegion
<1>3. CASE Woken(t)
  BY <1>3 DEF Woken
<1>4. CASE Unlock(t)
  BY <1>4 DEF Unlock
<1>5. CASE LockShared(t)
  BY <1>5 DEF LockShared
<1>6. CASE EnterShared(t)
  BY <1>6 DEF EnterShared
<1>7. CASE UnlockShared(t)
  BY <1>7 DEF UnlockShared
<1> QED BY <1>1, <1>2, <1>3, <1>4, <1>5, <1>6, <1>7 DEF Step

(* What a step does to the stack of its thread: nothing, one scope more,   *)
(* or the innermost one less.                                              *)
LEMMA StackStep ==
  ASSUME TypeOK, NEW t \in Threads, Step(t)
  PROVE  \/ scopes'[t] = scopes[t]
         \/ \E m \in {"X", "S"} : scopes'[t] = Append(scopes[t], m)
         \/ scopes[t] # <<>> /\ scopes'[t] = SubSeq(scopes[t], 1, Len(scopes[t]) - 1)
<1> USE DEF TypeOK, Push, Pop, InScope
<1>1. CASE Lock(t) \/ LockThrows(t) \/ SpuriousWakeup(t) \/ CheckReaders(t) \/ NotifyAll(t)
  BY <1>1 DEF Lock, LockThrows, SpuriousWakeup, CheckReaders, NotifyAll
<1>2. CASE LockRegion(t) \/ Woken(t) \/ LockShared(t) \/ EnterShared(t)
  BY <1>2 DEF LockRegion, Woken, LockShared, EnterShared
<1>3. CASE Unlock(t) \/ UnlockShared(t)
  BY <1>3 DEF Unlock, UnlockShared
<1> QED BY <1>1, <1>2, <1>3 DEF Step

(* Exclusive scopes are opened only by a thread that owns none or whose    *)
(* outermost scope is exclusive: lock() throws in a shared scope.          *)
LEMMA PtcStep ==
  ASSUME IndInv, NEW t \in Threads, Step(t), TypeOK'
  PROVE  PtcInv'
<1> DEFINE Rec(u)   == recursion[u] = Len(scopes[u]) + IF pc[u] = "wait" THEN 1 ELSE 0
           Flag(u)  == isWriter[u] <=> (pc[u] = "wait" \/ OutermostIs(u, "X"))
           Empty(u) == pc[u] \in {"wait", "enter", "check", "notify"} => scopes[u] = <<>>
           First(u) == XPos(scopes[u]) # {} => OutermostIs(u, "X")
<1>0. \A u \in Threads : Rec(u) /\ Flag(u) /\ Empty(u) /\ First(u)
  BY DEF IndInv, PtcInv
<1>1. ASSUME NEW u \in Threads, u # t
      PROVE  Rec(u)' /\ Flag(u)' /\ Empty(u)' /\ First(u)'
  <2>1. /\ recursion'[u] = recursion[u] /\ isWriter'[u] = isWriter[u]
        /\ pc'[u] = pc[u] /\ scopes'[u] = scopes[u]
    BY <1>1, FrameStep DEF IndInv
  <2>2. First(u)'
    <3>1. First(u)
      BY <1>0
    <3> QED BY <2>1, <3>1, Zenon DEF OutermostIs
  <2> QED BY <1>0, <2>1, <2>2 DEF OutermostIs
<1>2. TypeOK
  BY DEF IndInv
<1>3. scopes[t] \in Seq({"X", "S"}) /\ recursion[t] \in Nat /\ isWriter[t] \in BOOLEAN
  BY <1>2 DEF TypeOK
<1>4. /\ \A m \in {"X", "S"} : LET a == Append(scopes[t], m) IN
           /\ Len(a) = Len(scopes[t]) + 1 /\ a # <<>>
           /\ a[1] = IF scopes[t] = <<>> THEN m ELSE scopes[t][1]
      /\ Len(scopes[t]) \in Nat /\ (Len(scopes[t]) = 0 <=> scopes[t] = <<>>)
  BY <1>3, AppendFacts
<1>5. ASSUME scopes[t] # <<>>
      PROVE  LET f == SubSeq(scopes[t], 1, Len(scopes[t]) - 1) IN
             /\ Len(f) = Len(scopes[t]) - 1
             /\ f = <<>> <=> Len(scopes[t]) = 1
             /\ f # <<>> => f[1] = scopes[t][1]
  BY <1>3, <1>5, PopFacts
<1>6. Rec(t)'
  <2> USE <1>0, <1>2, <1>3, <1>4 DEF TypeOK, Goto, Push, Pop, LeavePtc, InScope
  <2>1. CASE Lock(t) \/ LockThrows(t) \/ SpuriousWakeup(t) \/ CheckReaders(t) \/ NotifyAll(t)
    BY <2>1 DEF Lock, LockThrows, SpuriousWakeup, CheckReaders, NotifyAll
  <2>2. CASE LockRegion(t) \/ Woken(t)
    BY <2>2 DEF LockRegion, Woken
  <2>3. CASE LockShared(t) \/ EnterShared(t)
    BY <2>3 DEF LockShared, EnterShared
  <2>4. CASE Unlock(t) \/ UnlockShared(t)
    BY <2>4, <1>5 DEF Unlock, UnlockShared
  <2> QED BY <2>1, <2>2, <2>3, <2>4 DEF Step
<1>7. Flag(t)'
  <2> USE <1>0, <1>2, <1>3, <1>4 DEF TypeOK, Goto, Push, Pop, LeavePtc, InScope, OutermostIs
  <2>1. CASE Lock(t) \/ LockThrows(t) \/ SpuriousWakeup(t) \/ CheckReaders(t) \/ NotifyAll(t)
    BY <2>1 DEF Lock, LockThrows, SpuriousWakeup, CheckReaders, NotifyAll
  <2>2. CASE LockRegion(t) \/ Woken(t)
    <3>1. scopes[t] = <<>> \/ scopes[t][1] = "X"
      BY <2>2 DEF LockRegion, Woken
    <3>2. isWriter'[t]
      BY <2>2 DEF LockRegion, Woken
    <3>3. pc'[t] = "wait" \/ scopes'[t] = Append(scopes[t], "X")
      BY <2>2 DEF LockRegion, Woken
    <3> QED BY <3>1, <3>2, <3>3
  <2>3. CASE LockShared(t) \/ EnterShared(t)
    BY <2>3 DEF LockShared, EnterShared
  <2>4. CASE Unlock(t) \/ UnlockShared(t)
    <3>1. pc[t] = "out" /\ pc'[t] # "wait" /\ scopes[t] # <<>>
      BY <2>4 DEF Unlock, UnlockShared
    <3>2. isWriter'[t] = (isWriter[t] /\ recursion[t] # 1)
      BY <2>4 DEF Unlock, UnlockShared
    <3>3. scopes'[t] = SubSeq(scopes[t], 1, Len(scopes[t]) - 1)
      BY <2>4 DEF Unlock, UnlockShared
    <3>4. recursion[t] = Len(scopes[t])
      BY <3>1
    <3>5. OutermostIs(t, "X")' <=> (OutermostIs(t, "X") /\ Len(scopes[t]) # 1)
      BY <1>5, <3>1, <3>3
    <3> QED BY <3>1, <3>2, <3>4, <3>5
  <2> QED BY <2>1, <2>2, <2>3, <2>4 DEF Step
<1>8. Empty(t)'
  <2> USE <1>0, <1>2, <1>3, <1>4 DEF TypeOK, Goto, Push, Pop, LeavePtc, InScope, OutermostIs
  <2>1. CASE Lock(t) \/ LockThrows(t) \/ SpuriousWakeup(t) \/ CheckReaders(t) \/ NotifyAll(t)
    BY <2>1 DEF Lock, LockThrows, SpuriousWakeup, CheckReaders, NotifyAll
  <2>2. CASE LockRegion(t)
    BY <2>2 DEF LockRegion, IndInv, CountInv
  <2>3. CASE Woken(t)
    BY <2>3 DEF Woken
  <2>4. CASE LockShared(t) \/ EnterShared(t)
    BY <2>4 DEF LockShared, EnterShared
  <2>5. CASE Unlock(t) \/ UnlockShared(t)
    BY <2>5, <1>5 DEF Unlock, UnlockShared
  <2> QED BY <2>1, <2>2, <2>3, <2>4, <2>5 DEF Step
<1>9. First(t)'
  <2>1. CASE scopes'[t] = scopes[t]
    BY <2>1, <1>0 DEF OutermostIs, XPos
  <2>2. CASE \E m \in {"X", "S"} : scopes'[t] = Append(scopes[t], m)
    <3>1. CASE LockRegion(t) \/ Woken(t)
      <4>1. isWriter'[t] /\ pc'[t] # "wait"
        BY <2>2, <3>1, <1>0, <1>2, <1>3, <1>4 DEF LockRegion, Woken, Goto, TypeOK
      <4> QED BY <4>1, <1>7
    <3>2. CASE ~(LockRegion(t) \/ Woken(t))
      <4>1. scopes'[t] = Append(scopes[t], "S")
        BY <2>2, <3>2, <1>2, <1>3, <1>4 DEF Step, Lock, LockThrows, SpuriousWakeup, Unlock,
           LockShared, EnterShared, UnlockShared, CheckReaders, NotifyAll, Push, Pop, TypeOK
      <4>2. XPos(scopes'[t]) = XPos(scopes[t])
        BY <4>1, <1>3 DEF XPos
      <4> QED BY <4>1, <4>2, <1>0, <1>3, <1>4 DEF OutermostIs
    <3> QED BY <3>1, <3>2
  <2>3. CASE scopes[t] # <<>> /\ scopes'[t] = SubSeq(scopes[t], 1, Len(scopes[t]) - 1)
    <3>1. XPos(scopes'[t]) \subseteq XPos(scopes[t])
      BY <2>3, <1>3 DEF XPos
    <3>2. XPos(scopes'[t]) # {} => scopes'[t] # <<>>
      BY <2>3 DEF XPos
    <3> QED BY <2>3, <3>1, <3>2, <1>0, <1>5 DEF OutermostIs
  <2> QED BY <1>2, <2>1, <2>2, <2>3, StackStep
<1> QED BY <1>1, <1>6, <1>7, <1>8, <1>9 DEF PtcInv

(* exclusive_lock is not released while an exclusive scope of its owner is *)
(* open.                                                                   *)
LEMMA OwnerStep ==
  ASSUME IndInv, NEW t \in Threads, Step(t), TypeOK', PtcInv'
  PROVE  OwnerInv'
<1> DEFINE Needs(u) == Inside(u) \/ OutermostIs(u, "X")
           Count(u) == XCount(scopes[u]) + IF Inside(u) THEN 1 ELSE 0
<1>1. TypeOK /\ (\A u \in Threads : (Needs(u) => owner = {u}) /\ (owner = {u} => held >= Count(u)))
  BY DEF IndInv, OwnerInv
<1>2. \A u \in Threads : XCount(scopes[u]) \in Nat /\ XCount(scopes'[u]) \in Nat
  BY XCountFacts DEF IndInv, TypeOK
<1>3. \A u \in Threads : u # t => (Needs(u)' <=> Needs(u)) /\ Count(u)' = Count(u)
  BY <1>1, FrameStep DEF Inside, OutermostIs
<1>4. /\ scopes[t] \in Seq({"X", "S"}) /\ held \in Nat /\ pc[t] \in Labels /\ pc'[t] \in Labels
      /\ OutermostIs(t, "X") => XCount(scopes[t]) >= 1
      /\ OutermostIs(t, "X")' => XCount(scopes'[t]) >= 1
  <2>1. ASSUME NEW s \in Seq({"X", "S"}), s # <<>>, s[1] = "X"
        PROVE  XCount(s) >= 1
    <3>1. 1 \in XPos(s)
      BY <2>1 DEF XPos
    <3> QED BY <3>1, XCountFacts
  <2> QED BY <1>1, <2>1 DEF OutermostIs, TypeOK
<1>a. /\ XCount(Append(scopes[t], "X")) = XCount(scopes[t]) + 1
      /\ XCount(Append(scopes[t], "S")) = XCount(scopes[t])
      /\ XCount(scopes[t]) # 0 => OutermostIs(t, "X")
  BY <1>4, XCountFacts DEF IndInv, PtcInv
<1>b. scopes[t] = <<>> => XCount(scopes[t]) = 0
  BY <1>a DEF OutermostIs
<1>c. pc[t] # "wait" => (recursion[t] = 0 <=> scopes[t] = <<>>)
  <2>1. Len(scopes[t]) \in Nat /\ (Len(scopes[t]) = 0 <=> scopes[t] = <<>>)
    BY <1>4
  <2>2. recursion[t] = Len(scopes[t]) + IF pc[t] = "wait" THEN 1 ELSE 0
    BY DEF IndInv, PtcInv
  <2> QED BY <2>1, <2>2
<1>5. CASE LockThrows(t) \/ SpuriousWakeup(t) \/ CheckReaders(t) \/ NotifyAll(t)
  <2>1. owner' = owner /\ held' = held /\ scopes' = scopes
    BY <1>5 DEF LockThrows, SpuriousWakeup, CheckReaders, NotifyAll
  <2>2. (Inside(t)' => Inside(t)) /\ (OutermostIs(t, "X")' <=> OutermostIs(t, "X"))
    BY <1>1, <1>5, <2>1 DEF LockThrows, SpuriousWakeup, CheckReaders, NotifyAll, Inside, Goto,
       OutermostIs, TypeOK
  <2>3. (Needs(t)' => Needs(t)) /\ Count(t)' <= Count(t)
    BY <2>1, <2>2, <1>2
  <2> QED BY <1>1, <1>2, <1>3, <1>4, <2>1, <2>3 DEF OwnerInv
<1>6. CASE Lock(t)
  <2>1. owner \subseteq {t} /\ owner' = {t} /\ held' = held + 1 /\ scopes' = scopes
    BY <1>6 DEF Lock, AcquireExclusive
  <2>2. Inside(t)' /\ ~Inside(t)
    BY <1>1, <1>6 DEF Lock, Inside, Goto, TypeOK
  <2>3. \A u \in Threads : u # t => ~Needs(u)
    BY <1>1, <2>1
  <2>4. owner = {} => XCount(scopes[t]) = 0
    <3>1. HAVE owner = {}
    <3>2. ~OutermostIs(t, "X")
      BY <3>1, <1>1
    <3> QED BY <3>2, <1>4, XCountFacts DEF IndInv, PtcInv
  <2>5. held' >= Count(t)'
    BY <1>1, <1>2, <1>4, <2>1, <2>2, <2>4
  <2> QED BY <1>3, <2>1, <2>3, <2>5 DEF OwnerInv
<1>7. CASE LockRegion(t) \/ Woken(t)
  <2>1. owner' = owner /\ held' = held
    BY <1>7 DEF LockRegion, Woken
  <2>2. Inside(t)
    BY <1>7 DEF LockRegion, Woken, Inside
  <2>3. \/ Inside(t)' /\ scopes'[t] = scopes[t]
        \/ ~Inside(t)' /\ scopes'[t] = Append(scopes[t], "X")
    BY <1>1, <1>7, <2>2 DEF LockRegion, Woken, Inside, Goto, Push, TypeOK
  <2>4. Count(t)' = Count(t)
    <3>1. Count(t) = XCount(scopes[t]) + 1
      BY <2>2
    <3>2. CASE Inside(t)' /\ scopes'[t] = scopes[t]
      BY <3>1, <3>2
    <3>3. CASE ~Inside(t)' /\ scopes'[t] = Append(scopes[t], "X")
      <4>1. Count(t)' = XCount(scopes'[t]) + 0
        BY <3>3
      <4> QED BY <3>1, <3>3, <4>1, <1>2, <1>a
    <3> QED BY <2>3, <3>2, <3>3
  <2> QED BY <1>1, <1>3, <2>1, <2>2, <2>4 DEF OwnerInv
<1>8. CASE Unlock(t)
  <2>1. ~Inside(t) /\ ~Inside(t)'
    BY <1>8 DEF Unlock, Inside
  <2>2. XCount(scopes'[t]) = XCount(scopes[t]) - 1
    BY <1>1, <1>4, <1>8, XCountFacts DEF Unlock, Pop, InScope, TypeOK
  <2>3. OutermostIs(t, "X")
    <3>1. XCount(scopes[t]) # 0
      BY <1>2, <2>2
    <3> QED BY <3>1, <1>a
  <2>4. owner = {t} /\ held >= XCount(scopes[t])
    BY <1>1, <2>1, <2>3, <1>2
  <2>5. held' = held - 1 /\ (owner' = {t} \/ owner' = {}) /\ (held # 1 => owner' = owner)
    BY <1>8, <2>4 DEF Unlock, ReleaseExclusive
  <2>6. Needs(t)' => owner' = {t}
    BY <1>2, <1>4, <2>1, <2>2, <2>4, <2>5
  <2>7. held' >= Count(t)'
    BY <1>2, <1>4, <2>1, <2>2, <2>4, <2>5
  <2>8. \A u \in Threads : u # t => ~Needs(u) /\ owner' # {u}
    BY <1>1, <2>4, <2>5
  <2> QED BY <1>3, <2>6, <2>7, <2>8 DEF OwnerInv
<1>9. CASE LockShared(t)
  <2>1. CASE recursion[t] # 0
    <3>1. owner' = owner /\ held' = held /\ pc' = pc /\ scopes'[t] = Append(scopes[t], "S")
      BY <1>1, <1>9, <2>1 DEF LockShared, Push, TypeOK
    <3>2. scopes[t] # <<>>
      BY <1>9, <2>1, <1>c DEF LockShared
    <3>3. Count(t)' = Count(t) /\ (Needs(t)' <=> Needs(t))
      BY <3>1, <3>2, <1>4, XCountFacts, AppendFacts DEF OutermostIs, Inside
    <3> QED BY <1>1, <1>3, <3>1, <3>3 DEF OwnerInv
  <2>2. CASE recursion[t] = 0
    <3>1. owner \subseteq {t} /\ owner' = {t} /\ held' = held + 1 /\ scopes' = scopes
      BY <1>9, <2>2 DEF LockShared, AcquireExclusive
    <3>2. scopes[t] = <<>>
      BY <1>9, <2>2, <1>c DEF LockShared
    <3>3. Count(t)' <= 1
      BY <3>1, <3>2, <1>b
    <3>4. \A u \in Threads : u # t => ~Needs(u)
      BY <1>1, <3>1
    <3>5. held' >= Count(t)'
      BY <1>2, <1>4, <3>1, <3>3
    <3> QED BY <1>3, <3>1, <3>4, <3>5 DEF OwnerInv
  <2> QED BY <2>1, <2>2
<1>10. CASE EnterShared(t)
  <2>1. Inside(t) /\ ~Inside(t)' /\ scopes'[t] = Append(scopes[t], "S") /\ scopes[t] = <<>>
    BY <1>1, <1>10 DEF EnterShared, Inside, Push, Goto, TypeOK, IndInv, PtcInv
  <2>2. ~Needs(t)' /\ Count(t)' = 0
    <3>1. XCount(scopes'[t]) = 0
      BY <2>1, <1>a, <1>b
    <3>2. scopes'[t][1] = "S"
      BY <2>1, <1>4, AppendFacts
    <3> QED BY <2>1, <3>1, <3>2 DEF OutermostIs
  <2>3. owner = {t} /\ held >= 1
    <3>1. owner = {t} /\ held >= Count(t) /\ Count(t) = XCount(scopes[t]) + 1
      BY <1>1, <2>1
    <3> QED BY <3>1, <1>2, <1>4
  <2>4. held' \in Nat /\ (owner' = {t} \/ owner' = {})
    BY <1>10, <1>4, <2>3 DEF EnterShared, ReleaseExclusive
  <2>5. \A u \in Threads : u # t => ~Needs(u) /\ owner' # {u}
    BY <1>1, <2>3, <2>4
  <2> QED BY <1>3, <2>2, <2>4, <2>5 DEF OwnerInv
<1>11. CASE UnlockShared(t)
  <2>1. owner' = owner /\ held' = held /\ ~Inside(t) /\ ~Inside(t)'
    BY <1>1, <1>11 DEF UnlockShared, Inside, Goto, TypeOK
  <2>2. /\ scopes[t] # <<>> /\ scopes[t][Len(scopes[t])] = "S"
        /\ scopes'[t] = SubSeq(scopes[t], 1, Len(scopes[t]) - 1)
    BY <1>1, <1>11 DEF UnlockShared, InScope, Pop, TypeOK
  <2>3. Count(t)' = Count(t) /\ (OutermostIs(t, "X")' => OutermostIs(t, "X"))
    BY <2>1, <2>2, <1>4, XCountFacts, PopFacts DEF OutermostIs
  <2> QED BY <1>1, <1>3, <2>1, <2>3 DEF OwnerInv
<1> QED BY <1>5, <1>6, <1>7, <1>8, <1>9, <1>10, <1>11 DEF Step

(* readers_count counts the outermost shared scopes, and is 0 in an        *)
(* exclusive scope: nobody enters past the owner of exclusive_lock.        *)
LEMMA CountStep ==
  ASSUME IndInv, NEW t \in Threads, Step(t), TypeOK', PtcInv', OwnerInv'
  PROVE  CountInv'
<1>1. TypeOK /\ PtcInv /\ OwnerInv /\ CountInv
  BY DEF IndInv
<1>2. \A u \in Threads : u # t => (u \in Readers' <=> u \in Readers)
                              /\ (OutermostIs(u, "X")' <=> OutermostIs(u, "X"))
  BY <1>1, FrameStep DEF Readers, OutermostIs
<1>3. /\ t \in Readers' <=> OutermostIs(t, "S")'
      /\ t \in Readers <=> OutermostIs(t, "S")
      /\ Readers' \subseteq Threads /\ Readers \subseteq Threads
  BY DEF Readers
<1>4. scopes[t] \in Seq({"X", "S"}) /\ readersCount \in Nat
  BY <1>1 DEF TypeOK
<1>5. CASE EnterShared(t)
  <2>1. scopes[t] = <<>> /\ scopes'[t] = Append(scopes[t], "S")
    BY <1>1, <1>5 DEF EnterShared, PtcInv, Push, TypeOK
  <2>2. OutermostIs(t, "S")' /\ ~OutermostIs(t, "S") /\ ~OutermostIs(t, "X")'
    BY <2>1, <1>4, AppendFacts DEF OutermostIs
  <2>3. Readers' = Readers \cup {t} /\ t \notin Readers
    BY <1>2, <1>3, <2>2
  <2>4. \A u \in Threads : ~OutermostIs(u, "X")'
    <3>1. owner = {t}
      BY <1>1, <1>5 DEF EnterShared, OwnerInv, Inside
    <3>2. \A u \in Threads : u # t => ~OutermostIs(u, "X")
      BY <1>1, <3>1 DEF OwnerInv
    <3> QED BY <1>2, <2>2, <3>2
  <2> QED BY <1>1, <1>5, <2>3, <2>4, ReadersFacts DEF CountInv, EnterShared
<1>6. CASE UnlockShared(t)
  <2>1. /\ scopes[t] # <<>> /\ scopes[t][Len(scopes[t])] = "S" /\ pc[t] = "out"
        /\ scopes'[t] = SubSeq(scopes[t], 1, Len(scopes[t]) - 1)
    BY <1>1, <1>6 DEF UnlockShared, InScope, Pop, TypeOK
  <2>2. recursion[t] = Len(scopes[t])
    <3>1. recursion[t] = Len(scopes[t]) + IF pc[t] = "wait" THEN 1 ELSE 0
      BY <1>1 DEF PtcInv
    <3> QED BY <1>4, <2>1, <3>1
  <2>3. CASE recursion[t] = 1
    <3>1. OutermostIs(t, "S") /\ scopes'[t] = <<>>
      BY <1>4, <2>1, <2>2, <2>3, PopFacts DEF OutermostIs
    <3>2. Readers' = Readers \ {t} /\ t \in Readers
      BY <1>2, <1>3, <3>1 DEF OutermostIs
    <3>3. readersCount' = readersCount - 1 /\ readersCount = Cardinality(Readers)
      BY <1>1, <1>6, <2>3 DEF UnlockShared, CountInv
    <3>4. readersCount # 0
      BY <1>1, <3>2, <3>3, ReadersFacts
    <3>5. \A u \in Threads : ~OutermostIs(u, "X")'
      BY <1>1, <1>2, <3>1, <3>4 DEF CountInv, OutermostIs
    <3> QED BY <1>1, <3>2, <3>3, <3>5, ReadersFacts DEF CountInv
  <2>4. CASE recursion[t] # 1
    <3>1. OutermostIs(t, "S")' <=> OutermostIs(t, "S")
      BY <1>4, <2>1, <2>2, <2>4, PopFacts DEF OutermostIs
    <3>2. OutermostIs(t, "X")' <=> OutermostIs(t, "X")
      BY <1>4, <2>1, <2>2, <2>4, PopFacts DEF OutermostIs
    <3>3. Readers' = Readers
      BY <1>2, <1>3, <3>1
    <3> QED BY <1>1, <1>2, <1>6, <2>4, <3>2, <3>3 DEF CountInv, UnlockShared
  <2> QED BY <2>3, <2>4
<1>7. CASE LockRegion(t) \/ Woken(t)
  <2>1. readersCount' = readersCount
    BY <1>7 DEF LockRegion, Woken
  <2>2. \/ scopes'[t] = scopes[t]
        \/ readersCount = 0 /\ scopes'[t] = Append(scopes[t], "X")
    BY <1>1, <1>7 DEF LockRegion, Woken, Push, TypeOK
  <2>3. OutermostIs(t, "S")' <=> OutermostIs(t, "S")
    <3>1. CASE scopes'[t] = Append(scopes[t], "X") /\ scopes'[t] # scopes[t]
      <4>1. readersCount = 0
        BY <2>2, <3>1
      <4>2. ~OutermostIs(t, "S")
        BY <1>1, <1>3, <4>1, ReadersFacts DEF CountInv
      <4> QED BY <3>1, <4>2, <1>4, AppendFacts DEF OutermostIs
    <3> QED BY <2>2, <3>1 DEF OutermostIs
  <2>4. Readers' = Readers
    BY <1>2, <1>3, <2>3
  <2>5. OutermostIs(t, "X")' => readersCount = 0
    BY <1>1, <2>2 DEF CountInv, OutermostIs
  <2> QED BY <1>1, <1>2, <2>1, <2>4, <2>5 DEF CountInv
<1>8. CASE Unlock(t)
  <2>1. OutermostIs(t, "X")
    <3>1. Len(scopes[t]) \in XPos(scopes[t])
      BY <1>4, <1>8 DEF Unlock, InScope, XPos
    <3> QED BY <1>1, <3>1 DEF PtcInv
  <2>2. scopes[t] # <<>> /\ scopes'[t] = SubSeq(scopes[t], 1, Len(scopes[t]) - 1)
    BY <1>1, <1>8 DEF Unlock, InScope, Pop, TypeOK
  <2>3. ~OutermostIs(t, "S")' /\ ~OutermostIs(t, "S")
    BY <2>1, <2>2, <1>4, PopFacts DEF OutermostIs
  <2>4. Readers' = Readers
    BY <1>2, <1>3, <2>3
  <2> QED BY <1>1, <1>2, <1>8, <2>1, <2>4 DEF CountInv, Unlock
<1>9. CASE LockShared(t)
  <2>1. \/ scopes'[t] = scopes[t]
        \/ scopes[t] # <<>> /\ scopes'[t] = Append(scopes[t], "S")
    BY <1>1, <1>4, <1>9 DEF LockShared, Push, TypeOK, PtcInv
  <2>2. (OutermostIs(t, "S")' <=> OutermostIs(t, "S")) /\ (OutermostIs(t, "X")' <=> OutermostIs(t, "X"))
    BY <2>1, <1>4, AppendFacts DEF OutermostIs
  <2>3. Readers' = Readers
    BY <1>2, <1>3, <2>2
  <2> QED BY <1>1, <1>2, <1>9, <2>2, <2>3 DEF CountInv, LockShared
<1>10. CASE Lock(t) \/ LockThrows(t) \/ SpuriousWakeup(t) \/ CheckReaders(t) \/ NotifyAll(t)
  <2>1. scopes' = scopes /\ readersCount' = readersCount
    BY <1>10 DEF Lock, LockThrows, SpuriousWakeup, CheckReaders, NotifyAll
  <2>2. Readers' = Readers
    BY <2>1 DEF Readers, OutermostIs
  <2> QED BY <1>1, <2>1, <2>2 DEF CountInv, OutermostIs
<1> QED BY <1>5, <1>6, <1>7, <1>8, <1>9, <1>10 DEF Step

-----------------------------------------------------------------------------
(* The inductive invariant holds of every behaviour. *)
THEOREM Invariance == Spec => []IndInv
<1>1. Init => IndInv
  <2> SUFFICES ASSUME Init PROVE IndInv
    OBVIOUS
  <2>1. TypeOK
    BY DEF Init, TypeOK, Labels
  <2>2. \A t \in Threads : scopes[t] = <<>> /\ pc[t] = "out" /\ ~isWriter[t] /\ recursion[t] = 0
    BY DEF Init
  <2>3. PtcInv
    <3>1. Len(<<>>) = 0 /\ XPos(<<>>) = {}
      BY DEF XPos
    <3>2. \A t \in Threads : recursion[t] = Len(scopes[t]) + IF pc[t] = "wait" THEN 1 ELSE 0
      <4>1. \A t \in Threads : Len(scopes[t]) = 0
        BY <2>2, <3>1, Zenon
      <4>2. \A t \in Threads : recursion[t] = 0 /\ pc[t] # "wait"
        BY <2>2
      <4>3. 0 + 0 = 0
        OBVIOUS
      <4> QED BY <4>1, <4>2, <4>3, Zenon
    <3>3. \A t \in Threads : XPos(scopes[t]) = {}
      BY <2>2, <3>1, Zenon
    <3> QED BY <2>2, <3>2, <3>3 DEF PtcInv, OutermostIs
  <2>4. OwnerInv
    BY <2>2 DEF Init, OwnerInv, Inside, OutermostIs
  <2>5. Readers = {}
    BY <2>2 DEF Readers, OutermostIs
  <2>6. CountInv
    BY <2>2, <2>5, FS_EmptySet DEF Init, CountInv, OutermostIs
  <2> QED BY <2>1, <2>3, <2>4, <2>6 DEF IndInv
<1>2. IndInv /\ [Next]_vars => IndInv'
  <2> SUFFICES ASSUME IndInv, [Next]_vars PROVE IndInv'
    OBVIOUS
  <2>1. CASE Next
    <3>1. PICK t \in Threads : Step(t)
      BY <2>1 DEF Next
    <3> QED BY <3>1, TypeStep, PtcStep, OwnerStep, CountStep DEF IndInv
  <2>2. CASE UNCHANGED vars
    BY <2>2 DEF vars, IndInv, TypeOK, PtcInv, OwnerInv, CountInv, OutermostIs, Inside, Readers
  <2> QED BY <2>1, <2>2
<1> QED BY <1>1, <1>2, PTL DEF Spec

(* Every reachable state of the lock has its types. *)
THEOREM TypeCorrect == Spec => []TypeOK
  BY Invariance, PTL DEF IndInv

(* While a commit or an abort of a write transaction is in its exclusive   *)
(* scope, no other thread reads: for any number of threads, any nesting,   *)
(* and callers that break the restriction on upgrades.                     *)
THEOREM Exclusion == Spec => []MutualExclusion
<1>1. IndInv => MutualExclusion
  <2> SUFFICES ASSUME IndInv, NEW t \in Threads, NEW u \in Threads, t # u,
                      \E i \in 1..Len(scopes[t]) : scopes[t][i] = "X"
               PROVE  scopes[u] = <<>>
    BY DEF MutualExclusion
  <2>1. OutermostIs(t, "X")
    BY DEF IndInv, PtcInv, XPos
  <2>2. readersCount = 0 /\ owner = {t}
    BY <2>1 DEF IndInv, CountInv, OwnerInv
  <2>3. ~OutermostIs(u, "S")
    BY <2>2, ReadersFacts DEF IndInv, CountInv, Readers
  <2>4. ~OutermostIs(u, "X")
    BY <2>2 DEF IndInv, OwnerInv
  <2> QED BY <2>3, <2>4 DEF OutermostIs, IndInv, TypeOK
<1> QED BY <1>1, Invariance, PTL

(* A writer in cv.wait is never forgotten by the last reader that leaves.  *)
THEOREM WakeupNotLost == Spec => []NoLostWakeup
<1>1. Init => NoLostWakeup
  BY DEF Init, NoLostWakeup
<1>2. TypeOK /\ NoLostWakeup /\ [Next]_vars => NoLostWakeup'
  <2> SUFFICES ASSUME TypeOK, NoLostWakeup, [Next]_vars PROVE NoLostWakeup'
    OBVIOUS
  <2> USE DEF TypeOK, NoLostWakeup, Goto
  <2>1. ASSUME NEW t \in Threads, Step(t) PROVE NoLostWakeup'
    <3>1. CASE Lock(t) \/ LockThrows(t) \/ Unlock(t) \/ LockShared(t)
      BY <3>1 DEF Lock, LockThrows, Unlock, LockShared
    <3>2. CASE LockRegion(t) \/ Woken(t) \/ SpuriousWakeup(t)
      BY <3>2 DEF LockRegion, Woken, SpuriousWakeup
    <3>3. CASE EnterShared(t)
      BY <3>3 DEF EnterShared
    <3>4. CASE UnlockShared(t)
      BY <3>4 DEF UnlockShared
    <3>5. CASE CheckReaders(t) \/ NotifyAll(t)
      BY <3>5 DEF CheckReaders, NotifyAll
    <3> QED BY <2>1, <3>1, <3>2, <3>3, <3>4, <3>5 DEF Step
  <2>2. CASE UNCHANGED vars
    BY <2>2 DEF vars
  <2> QED BY <2>1, <2>2 DEF Next
<1> QED BY <1>1, <1>2, TypeCorrect, PTL DEF Spec
=============================================================================
