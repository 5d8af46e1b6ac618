----------------------------- MODULE DbAccessor -----------------------------
(***************************************************************************)
(* One container of a database, read and written by several threads:       *)
(* basic_db_accessor, cached_key_value_accessor and the lmdb backend       *)
(* (src/src/common), with the write isolation of its cache                 *)
(* (src/contrib/epee/include/cache_helper.h).                              *)
(*                                                                         *)
(* The thread with the write transaction works on its own view and is the  *)
(* only one that may use the cache; all others then read the last commit.  *)
(* Commit and abort take the read-write lock exclusively (lock() of        *)
(* SharedRecursiveMutex, here only what it guarantees).  Guarded threads   *)
(* read inside scopes of the shared side of that lock, as the users of     *)
(* blockchain_storage do with m_read_lock; the transaction pool passes a   *)
(* lock of which nobody takes the shared side.                             *)
(***************************************************************************)
EXTENDS Integers, Sequences, FiniteSets

CONSTANTS
  Thread,       \* threads that use the container
  Guarded,      \* those that read inside scopes of the read-write lock
  Key, Value,
  None,         \* no entry
  MaxElements,  \* size of the cache (10000)
  MaxNest,      \* bound on the nesting of write transactions
  Aborts        \* whether write transactions are aborted

ASSUME ThreadAssumption == Guarded \subseteq Thread
ASSUME ContentAssumption == None \notin Value \cup Key /\ IsFiniteSet(Key)
ASSUME BoundAssumption ==
  MaxElements \in Nat \ {0} /\ MaxNest \in Nat \ {0} /\ Aborts \in BOOLEAN

VARIABLES
  db,         \* content as of the last commit
  writer,     \* {t} when t owns m_write_exclusive_lock, else {}
  wtx,        \* views of the nested write transactions of the writer
  snap,       \* read-only transaction of a thread: <<view>> or <<>>
  isolated,   \* m_current_writer_thread: {t} or {}
  cache,      \* m_cache: the cached value of a key or None
  sizeCache,  \* size_cache, -1 when it is not valid
  scope,      \* threads inside a shared scope of the read-write lock
  excl,       \* {t} when t has the read-write lock exclusively or waits in lock()
  pc,         \* where each thread is
  arg,        \* the key of its get
  res         \* what its get has read

io   == << snap, pc, arg, res >>
vars == << db, writer, wtx, isolated, cache, sizeCache, scope, excl, io >>

Content == [Key -> Value \cup {None}]
Empty   == [k \in Key |-> None]
Labels  == { "out", "read", "fill", "begun", "commit", "abort", "committed", "aborted" }

Init ==
  /\ db = Empty /\ writer = {} /\ wtx = <<>> /\ snap = [t \in Thread |-> <<>>]
  /\ isolated = {} /\ cache = Empty /\ sizeCache = -1
  /\ scope = {} /\ excl = {}
  /\ pc = [t \in Thread |-> "out"]
  /\ arg = [t \in Thread |-> None] /\ res = [t \in Thread |-> None]

Goto(t, l) == pc' = [pc EXCEPT ![t] = l]

\* What thread t reads through its innermost transaction.
Current   == wtx[Len(wtx)]
ViewOf(t) == IF t \in writer THEN Current
             ELSE IF snap[t] # <<>> THEN snap[t][1] ELSE db
SizeOf(c) == Cardinality({ k \in Key : c[k] # None })

\* isolated_access: nobody but the thread with the write transaction may use
\* the cache while there is one.
CacheAllowed(t) == isolated \subseteq {t}

\* set of the cache; the least recently used entry makes room, which may be any
\* other one.
CachePut(k, v) ==
  LET c    == [cache EXCEPT ![k] = v]
      keys == { x \in Key : c[x] # None }
  IN  IF Cardinality(keys) <= MaxElements THEN cache' = c
      ELSE \E x \in keys \ {k} : cache' = [c EXCEPT ![x] = None]

-----------------------------------------------------------------------------
(***************************************************************************)
(* The shared side of the read-write lock, and read-only transactions.     *)
(***************************************************************************)
EnterScope(t) ==
  /\ pc[t] = "out" /\ t \in Guarded \ scope /\ excl = {}
  /\ scope' = scope \cup {t}
  /\ UNCHANGED << db, writer, wtx, isolated, cache, sizeCache, excl, io >>

LeaveScope(t) ==
  /\ pc[t] = "out" /\ t \in scope /\ snap[t] = <<>>
  /\ scope' = scope \ {t}
  /\ res' = [res EXCEPT ![t] = None] /\ arg' = [arg EXCEPT ![t] = None]
  /\ UNCHANGED << db, writer, wtx, isolated, cache, sizeCache, excl, snap, pc >>

MayRead(t) == pc[t] = "out" /\ (t \in Guarded => t \in scope)

\* The read-only transaction of an enumeration, whose callbacks may read, and of the
\* pool's LOCAL_READONLY_TRANSACTION.  Inside a write transaction, or inside another
\* read-only one, it only counts.
BeginReadonly(t) ==
  /\ MayRead(t) /\ t \notin writer /\ snap[t] = <<>>
  /\ snap' = [snap EXCEPT ![t] = << db >>]
  /\ UNCHANGED << db, writer, wtx, isolated, cache, sizeCache, scope, excl, pc, arg, res >>

EndReadonly(t) ==
  /\ pc[t] = "out" /\ t \notin writer /\ snap[t] # <<>>
  /\ snap' = [snap EXCEPT ![t] = <<>>]
  /\ UNCHANGED << db, writer, wtx, isolated, cache, sizeCache, scope, excl, pc, arg, res >>

-----------------------------------------------------------------------------
(***************************************************************************)
(* get: the cache, then the database, then the cache again.                *)
(***************************************************************************)
Get(t, k) ==
  /\ MayRead(t)
  /\ arg' = [arg EXCEPT ![t] = k]
  /\ IF CacheAllowed(t) /\ cache[k] # None
     THEN res' = [res EXCEPT ![t] = cache[k]] /\ UNCHANGED pc
     ELSE Goto(t, "read") /\ UNCHANGED res
  /\ UNCHANGED << db, writer, wtx, isolated, cache, sizeCache, scope, excl, snap >>

ReadDb(t) ==
  /\ pc[t] = "read"
  /\ LET v == ViewOf(t)[arg[t]] IN
       res' = [res EXCEPT ![t] = v] /\ Goto(t, IF v = None THEN "out" ELSE "fill")
  /\ UNCHANGED << db, writer, wtx, isolated, cache, sizeCache, scope, excl, snap, arg >>

Fill(t) ==
  /\ pc[t] = "fill"
  /\ IF CacheAllowed(t) THEN CachePut(arg[t], res[t]) ELSE UNCHANGED cache
  /\ Goto(t, "out")
  /\ UNCHANGED << db, writer, wtx, isolated, sizeCache, scope, excl, snap, arg, res >>

\* size(), which runs under the lock of the isolation.
Size(t) ==
  /\ MayRead(t)
  /\ sizeCache' = IF CacheAllowed(t) /\ sizeCache = -1 THEN SizeOf(ViewOf(t)) ELSE sizeCache
  /\ UNCHANGED << db, writer, wtx, isolated, cache, scope, excl, io >>

-----------------------------------------------------------------------------
(***************************************************************************)
(* Write transactions.                                                     *)
(***************************************************************************)
\* m_transactions_stack_lock, held from the backend's commit or abort until the
\* containers have been told.
StackNotLocked == FALSE
StackLocked    == \E u \in Thread : pc[u] \in { "committed", "aborted" }

\* begin_transaction: the backend, then on_write_transaction_begin.
BeginWrite(t) ==
  /\ pc[t] = "out" /\ t \notin scope
  /\ writer = {}
  /\ writer' = {t} /\ wtx' = << db >>
  /\ Goto(t, "begun")
  /\ UNCHANGED << db, isolated, cache, sizeCache, scope, excl, snap, arg, res >>

Isolate(t) ==
  /\ pc[t] = "begun" /\ ~StackLocked
  /\ isolated' = {t}
  /\ Goto(t, "out")
  /\ UNCHANGED << db, writer, wtx, cache, sizeCache, scope, excl, snap, arg, res >>

Writing(t) == pc[t] = "out" /\ t \in writer

Write(k, v) == wtx' = [wtx EXCEPT ![Len(wtx)][k] = v]

\* set: the database, then the cache; no other thread can tell the difference.
SetKey(t, k, v) ==
  /\ Writing(t)
  /\ Write(k, v)
  /\ IF CacheAllowed(t) THEN CachePut(k, v) ELSE UNCHANGED cache
  /\ sizeCache' = -1
  /\ UNCHANGED << db, writer, isolated, scope, excl, io >>

EraseKey(t, k) ==
  /\ Writing(t)
  /\ Write(k, None)
  /\ cache' = [cache EXCEPT ![k] = None]
  /\ sizeCache' = -1
  /\ UNCHANGED << db, writer, isolated, scope, excl, io >>

Clear(t) ==
  /\ Writing(t)
  /\ wtx' = [wtx EXCEPT ![Len(wtx)] = Empty]
  /\ cache' = Empty /\ sizeCache' = -1
  /\ UNCHANGED << db, writer, isolated, scope, excl, io >>

BeginNested(t) ==
  /\ Writing(t) /\ Len(wtx) < MaxNest
  /\ wtx' = Append(wtx, Current)
  /\ UNCHANGED << db, writer, isolated, cache, sizeCache, scope, excl, io >>

\* The nested commit waits for the readers like any other.
CommitNested(t) ==
  /\ Writing(t) /\ Len(wtx) > 1 /\ scope = {} /\ excl = {}
  /\ wtx' = Append(SubSeq(wtx, 1, Len(wtx) - 2), Current)
  /\ UNCHANGED << db, writer, isolated, cache, sizeCache, scope, excl, io >>

\* commit_transaction and abort_transaction of the outermost transaction: m_rwlock
\* first.  A thread inside a shared scope must not ask for it.
LockForEnd(t) ==
  /\ Writing(t) /\ Len(wtx) = 1 /\ t \notin scope /\ excl = {}
  /\ excl' = {t}
  /\ Goto(t, "commit") \/ (Aborts /\ Goto(t, "abort"))
  /\ UNCHANGED << db, writer, wtx, isolated, cache, sizeCache, scope, snap, arg, res >>

AnyReaders == TRUE
NoReaders  == scope = {}

\* The backend's part, which also releases m_write_exclusive_lock.
CommitDb(t) ==
  /\ pc[t] = "commit" /\ NoReaders
  /\ db' = Current
  /\ writer' = {} /\ wtx' = <<>>
  /\ Goto(t, "committed")
  /\ UNCHANGED << isolated, cache, sizeCache, scope, excl, snap, arg, res >>

AbortDb(t) ==
  /\ pc[t] = "abort" /\ NoReaders
  /\ writer' = {} /\ wtx' = <<>>
  /\ Goto(t, "aborted")
  /\ UNCHANGED << db, isolated, cache, sizeCache, scope, excl, snap, arg, res >>

\* on_write_transaction_commit and on_write_transaction_abort.
EndCommit(t) ==
  /\ pc[t] = "committed"
  /\ isolated' = {} /\ excl' = {}
  /\ Goto(t, "out")
  /\ UNCHANGED << db, writer, wtx, cache, sizeCache, scope, snap, arg, res >>

EndAbortKeepsCache(t) ==
  /\ pc[t] = "aborted"
  /\ isolated' = {} /\ excl' = {}
  /\ Goto(t, "out")
  /\ UNCHANGED << db, writer, wtx, cache, sizeCache, scope, snap, arg, res >>
EndAbort(t) ==
  /\ pc[t] = "aborted"
  /\ cache' = Empty
  /\ isolated' = {} /\ excl' = {}
  /\ Goto(t, "out")
  /\ UNCHANGED << db, writer, wtx, sizeCache, scope, snap, arg, res >>

-----------------------------------------------------------------------------
Step(t) ==
  \/ EnterScope(t) \/ LeaveScope(t) \/ BeginReadonly(t) \/ EndReadonly(t)
  \/ \E k \in Key : Get(t, k)
  \/ ReadDb(t) \/ Fill(t) \/ Size(t)
  \/ BeginWrite(t) \/ Isolate(t)
  \/ \E k \in Key, v \in Value : SetKey(t, k, v)
  \/ \E k \in Key : EraseKey(t, k)
  \/ Clear(t) \/ BeginNested(t) \/ CommitNested(t)
  \/ LockForEnd(t) \/ CommitDb(t) \/ AbortDb(t) \/ EndCommit(t) \/ EndAbort(t)

Next == \E t \in Thread : Step(t)

Spec == Init /\ [][Next]_vars

-----------------------------------------------------------------------------
(***************************************************************************)
(* Properties                                                              *)
(***************************************************************************)
\* Types of the state; the writer has a transaction exactly while it owns the
\* write lock.
TypeOK ==
  /\ db \in Content /\ cache \in Content /\ wtx \in Seq(Content)
  /\ writer \subseteq Thread /\ isolated \subseteq Thread
  /\ scope \subseteq Guarded /\ excl \subseteq Thread
  /\ snap \in [Thread -> {<<>>} \cup { << c >> : c \in Content }]
  /\ sizeCache \in Int
  /\ pc \in [Thread -> Labels]
  /\ arg \in [Thread -> Key \cup {None}] /\ res \in [Thread -> Value \cup {None}]
  /\ writer # {} <=> wtx # <<>>

\* A cached value is the one of the database: of the last commit, or, while a
\* write transaction has the cache for itself, of its own view.  (Between the
\* abort of a transaction and the clearing of the cache only its thread can look.)
Coherent ==
  (\A t \in Thread : pc[t] # "aborted") =>
    \A k \in Key : cache[k] # None =>
      cache[k] = IF isolated # {} /\ isolated = writer THEN Current[k] ELSE db[k]

\* Everything a thread reads inside one shared scope belongs to one and the same
\* committed state: the state of the core does not change under a reader, and no
\* uncommitted value reaches it through the cache.
RepeatableRead ==
  \A t \in scope \ writer : pc[t] # "read" /\ arg[t] # None => res[t] = db[arg[t]]

\* The isolation of the cache is off when a transaction switches it on
\* ("Isolation mode already enabled for cache").
IsolationFree == \A t \in Thread : pc[t] = "begun" /\ ~StackLocked => isolated = {}

\* An expectation the code does not meet, since an abort leaves size_cache: a valid
\* size_cache is the number of entries, as Coherent is for the values.
SizeExact ==
  (\A t \in Thread : pc[t] # "aborted") /\ sizeCache # -1 =>
    sizeCache = SizeOf(IF isolated # {} /\ isolated = writer THEN Current ELSE db)
=============================================================================
