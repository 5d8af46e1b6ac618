------------------------ MODULE SharedRecursiveMutex ------------------------
(***************************************************************************)
(* epee::shared_recursive_mutex, the lock between the readers of the       *)
(* blockchain (scopes of m_read_lock) and the commit or abort of a write   *)
(* transaction (m_rwlock in basic_db_accessor).                            *)
(*                                                                         *)
(* lock() takes the recursive mutex exclusive_lock and then waits on the   *)
(* condition variable cv until readers_count is 0, still holding           *)
(* exclusive_lock, so that no new reader can enter.  lock_shared() takes   *)
(* exclusive_lock only on the outermost entrance of its thread.  Each      *)
(* region of cv_mutex is one action.  scopes[t] is the stack of the scopes *)
(* thread t is in ("X" exclusive, "S" shared); the callers use scoped      *)
(* regions, so they leave the innermost scope first.                       *)
(***************************************************************************)
EXTENDS Naturals, Sequences, FiniteSets

CONSTANTS Threads,    \* the threads of the node
          Upgraders,  \* threads that may call lock() inside a shared scope
          MaxDepth    \* bound on the nesting of scopes of one thread

ASSUME ThreadsAssumption == IsFiniteSet(Threads) /\ Upgraders \subseteq Threads
ASSUME DepthAssumption   == MaxDepth \in Nat

VARIABLES owner,          \* {t} when t holds exclusive_lock, {} when it is free
          held,           \* how many times the owner locked exclusive_lock
          readersCount,   \* readers_count
          recursion,      \* ptc: recursion_count of each thread
          isWriter,       \* ptc: is_writer_thread of each thread
          waiting,        \* threads blocked in cv.wait
          pc,             \* where each thread is in the code
          scopes          \* the scopes each thread is in, innermost last

vars == <<owner, held, readersCount, recursion, isWriter, waiting, pc, scopes>>

(* "out" is between calls; "lock" and "wait" are inside lock(), "enter"    *)
(* inside lock_shared(), "check" and "notify" inside unlock_shared().      *)
Labels == {"out", "lock", "wait", "enter", "check", "notify"}

(* Types of the lock's fields and of the threads' stacks. *)
TypeOK ==
  /\ owner \in SUBSET Threads
  /\ held \in Nat
  /\ readersCount \in Nat
  /\ recursion \in [Threads -> Nat]
  /\ isWriter \in [Threads -> BOOLEAN]
  /\ waiting \in SUBSET Threads
  /\ pc \in [Threads -> Labels]
  /\ scopes \in [Threads -> Seq({"X", "S"})]

Init ==
  /\ owner = {} /\ held = 0
  /\ readersCount = 0
  /\ recursion = [t \in Threads |-> 0]
  /\ isWriter = [t \in Threads |-> FALSE]
  /\ waiting = {}
  /\ pc = [t \in Threads |-> "out"]
  /\ scopes = [t \in Threads |-> <<>>]

-----------------------------------------------------------------------------
(* std::recursive_mutex, as exclusive_lock is used. *)
AcquireExclusive(t) ==
  /\ owner \subseteq {t}
  /\ owner' = {t}
  /\ held' = held + 1

ReleaseExclusive ==
  /\ held' = held - 1
  /\ owner' = IF held = 1 THEN {} ELSE owner

Goto(t, l)  == pc' = [pc EXCEPT ![t] = l]
Push(t, m)  == scopes' = [scopes EXCEPT ![t] = Append(@, m)]
Pop(t)      == scopes' = [scopes EXCEPT ![t] = SubSeq(@, 1, Len(@) - 1)]
InScope(t, m)    == scopes[t] # <<>> /\ scopes[t][Len(scopes[t])] = m
OutermostIs(t, m) == scopes[t] # <<>> /\ scopes[t][1] = m

(* lock(): exclusive_lock.lock(). *)
Lock(t) ==
  /\ pc[t] = "out" /\ Len(scopes[t]) < MaxDepth
  /\ OutermostIs(t, "S") => t \in Upgraders
  /\ held < MaxDepth + 2     \* bound: LockThrows leaks it at most twice more
  /\ AcquireExclusive(t)
  /\ Goto(t, "lock")
  /\ UNCHANGED <<readersCount, recursion, isWriter, waiting, scopes>>

(* lock(): a thread that owns only shared scopes gets an exception;        *)
(* exclusive_lock stays locked.                                            *)
LockThrows(t) ==
  /\ pc[t] = "lock" /\ recursion[t] # 0 /\ ~isWriter[t]
  /\ Goto(t, "out")
  /\ UNCHANGED <<owner, held, readersCount, recursion, isWriter, waiting, scopes>>

(* Mutant of LockRegion: lock() that does not wait for the readers. *)
LockRegionNoWait(t) ==
  /\ pc[t] = "lock" /\ (recursion[t] = 0 \/ isWriter[t])
  /\ isWriter' = [isWriter EXCEPT ![t] = TRUE]
  /\ recursion' = [recursion EXCEPT ![t] = @ + 1]
  /\ Goto(t, "out") /\ Push(t, "X")
  /\ UNCHANGED <<owner, held, readersCount, waiting>>

(* lock(): the cv_mutex region; cv.wait when there are readers. *)
LockRegion(t) ==
  /\ pc[t] = "lock" /\ (recursion[t] = 0 \/ isWriter[t])
  /\ isWriter' = [isWriter EXCEPT ![t] = TRUE]
  /\ recursion' = [recursion EXCEPT ![t] = @ + 1]
  /\ \/ readersCount = 0 /\ Goto(t, "out") /\ Push(t, "X") /\ UNCHANGED waiting
     \/ readersCount # 0 /\ Goto(t, "wait") /\ waiting' = waiting \cup {t} /\ UNCHANGED scopes
  /\ UNCHANGED <<owner, held, readersCount>>

(* lock(): the waiter has been woken and evaluates the predicate again. *)
Woken(t) ==
  /\ pc[t] = "wait" /\ t \notin waiting
  /\ \/ readersCount = 0 /\ Goto(t, "out") /\ Push(t, "X") /\ UNCHANGED waiting
     \/ readersCount # 0 /\ waiting' = waiting \cup {t} /\ UNCHANGED <<pc, scopes>>
  /\ UNCHANGED <<owner, held, readersCount, recursion, isWriter>>

(* A condition variable may wake up spuriously. *)
SpuriousWakeup(t) ==
  /\ t \in waiting
  /\ waiting' = waiting \ {t}
  /\ UNCHANGED <<owner, held, readersCount, recursion, isWriter, pc, scopes>>

(* The thread's ptc record is erased when its recursion_count gets to 0. *)
LeavePtc(t) ==
  /\ recursion' = [recursion EXCEPT ![t] = @ - 1]
  /\ isWriter' = [isWriter EXCEPT ![t] = @ /\ recursion[t] # 1]

(* unlock(). *)
Unlock(t) ==
  /\ pc[t] = "out" /\ InScope(t, "X")
  /\ LeavePtc(t)
  /\ ReleaseExclusive
  /\ Pop(t)
  /\ UNCHANGED <<readersCount, waiting, pc>>

(* lock_shared(): only the outermost entrance takes exclusive_lock. *)
LockShared(t) ==
  /\ pc[t] = "out" /\ Len(scopes[t]) < MaxDepth
  /\ \/ /\ recursion[t] = 0
        /\ AcquireExclusive(t)
        /\ Goto(t, "enter")
        /\ UNCHANGED <<recursion, scopes>>
     \/ /\ recursion[t] # 0
        /\ recursion' = [recursion EXCEPT ![t] = @ + 1]
        /\ Push(t, "S")
        /\ UNCHANGED <<owner, held, pc>>
  /\ UNCHANGED <<readersCount, isWriter, waiting>>

(* lock_shared(): the cv_mutex region and the release of exclusive_lock. *)
EnterShared(t) ==
  /\ pc[t] = "enter"
  /\ readersCount' = readersCount + 1
  /\ recursion' = [recursion EXCEPT ![t] = @ + 1]
  /\ ReleaseExclusive
  /\ Push(t, "S")
  /\ Goto(t, "out")
  /\ UNCHANGED <<isWriter, waiting>>

(* Mutant of UnlockShared: every level of recursion decrements             *)
(* readers_count.                                                          *)
UnlockSharedEveryLevel(t) ==
  /\ pc[t] = "out" /\ InScope(t, "S")
  /\ LeavePtc(t)
  /\ Pop(t)
  /\ readersCount' = readersCount - 1 /\ Goto(t, "check")
  /\ UNCHANGED <<owner, held, waiting>>

(* unlock_shared(): readers_count is decremented in a region of cv_mutex   *)
(* and read again after it.                                                *)
UnlockShared(t) ==
  /\ pc[t] = "out" /\ InScope(t, "S")
  /\ LeavePtc(t)
  /\ Pop(t)
  /\ \/ recursion[t] = 1 /\ readersCount' = readersCount - 1 /\ Goto(t, "check")
     \/ recursion[t] # 1 /\ UNCHANGED <<readersCount, pc>>
  /\ UNCHANGED <<owner, held, waiting>>

(* Mutant of CheckReaders: the last reader but one notifies. *)
CheckReadersOffByOne(t) ==
  /\ pc[t] = "check"
  /\ Goto(t, IF readersCount = 1 THEN "notify" ELSE "out")
  /\ UNCHANGED <<owner, held, readersCount, recursion, isWriter, waiting, scopes>>

CheckReaders(t) ==
  /\ pc[t] = "check"
  /\ Goto(t, IF readersCount = 0 THEN "notify" ELSE "out")
  /\ UNCHANGED <<owner, held, readersCount, recursion, isWriter, waiting, scopes>>

(* unlock_shared(): cv.notify_all(). *)
NotifyAll(t) ==
  /\ pc[t] = "notify"
  /\ waiting' = {}
  /\ Goto(t, "out")
  /\ UNCHANGED <<owner, held, readersCount, recursion, isWriter, scopes>>

Step(t) ==
  \/ Lock(t) \/ LockThrows(t) \/ LockRegion(t) \/ Woken(t) \/ SpuriousWakeup(t)
  \/ Unlock(t) \/ LockShared(t) \/ EnterShared(t)
  \/ UnlockShared(t) \/ CheckReaders(t) \/ NotifyAll(t)

Next == \E t \in Threads : Step(t)

(* Steps inside the lock's functions run to completion, and every scope    *)
(* ends: a thread does not stay in a scope by opening inner ones for ever. *)
(* exclusive_lock itself promises no fairness.                             *)
Fairness == \A t \in Threads :
  /\ WF_vars(LockThrows(t) \/ LockRegion(t) \/ Woken(t) \/ EnterShared(t)
             \/ CheckReaders(t) \/ NotifyAll(t))
  /\ \A d \in 1..MaxDepth :
       SF_vars((Unlock(t) \/ UnlockShared(t)) /\ Len(scopes[t]) = d)

Spec     == Init /\ [][Next]_vars
FairSpec == Spec /\ Fairness

-----------------------------------------------------------------------------
(* While a thread is in an exclusive scope (the commit or abort of a write *)
(* transaction) no other thread is in any scope.                           *)
MutualExclusion ==
  \A t, u \in Threads :
    (t # u /\ \E i \in 1..Len(scopes[t]) : scopes[t][i] = "X") => scopes[u] = <<>>

(* The wakeup of a waiting writer is never lost: once readers_count is 0,  *)
(* a thread blocked in cv.wait still has a reader on its way to notify_all.*)
NoLostWakeup ==
  (waiting # {} /\ readersCount = 0) =>
    \E u \in Threads : pc[u] \in {"check", "notify"}

(* A writer that waits for the readers gets the lock: the readers inside   *)
(* leave and no new one can enter past the writer.  The exception is a     *)
(* reader that asks for the lock itself inside its shared scope: lock()    *)
(* then blocks on exclusive_lock, which the writer holds while it waits    *)
(* for that reader.                                                        *)
WriterGetsIn == \A t \in Threads :
  pc[t] = "wait" ~> (InScope(t, "X") \/ \E u \in Upgraders : OutermostIs(u, "S"))
=============================================================================
