------------------------------- MODULE TxPool -------------------------------
(***************************************************************************)
(* The transaction pool (src/src/currency_core/tx_pool.cpp) under its five *)
(* users: the thread that processes blocks, the thread that receives       *)
(* transactions (one at a time, m_incoming_tx_lock), the idle thread that  *)
(* removes stuck transactions, a miner that asks for a block template and  *)
(* an operator who resets the pool.                                        *)
(*                                                                         *)
(* Every write to the pool is a transaction of the pool's database under   *)
(* its write lock, hence one step; reads of the pool and of the committed  *)
(* chain are steps of their own.  A block holds at most one transaction.   *)
(* Checks that depend on the transaction alone (semantics, fee, proofs) and*)
(* that refuse it before anything is read are not steps; multisig outputs  *)
(* and aliases are left out.                                               *)
(***************************************************************************)
EXTENDS Naturals, Sequences, FiniteSets

CONSTANTS
  Tx, Ki, Block,
  None,        \* no transaction, no block (null_hash)
  Genesis,
  KiOf,        \* key images of a transaction
  Ref,         \* the transaction whose outputs it spends, None: the genesis block's
  Parent,      \* previous block of a block
  TxOf,        \* the transaction of a block or None
  HeightOf,    \* height of a block, 0 for Genesis
  Depth,       \* CONFLICT_KEY_IMAGE_SPENT_DEPTH_TO_REMOVE_TX_FROM_POOL
  MinCoinage,  \* CURRENCY_HF4_MANDATORY_MIN_COINAGE
  MaxPool,     \* CURRENCY_MEMPOOL_MAX_TX_COUT
  MaxBusy,     \* bound: users of the pool at work beside the block thread
  Carried,     \* transactions that blocks bring with them (m_onboard_transactions)
  Faults       \* whether block processing may throw and the process may crash

ASSUME TreeAssumption ==
  /\ None \notin Tx \cup Block \cup {Genesis} /\ Genesis \notin Block
  /\ Parent \in [Block -> Block \cup {Genesis}]
  /\ TxOf \in [Block -> Tx \cup {None}]
  /\ HeightOf \in [Block \cup {Genesis} -> Nat] /\ HeightOf[Genesis] = 0
  /\ \A b \in Block : HeightOf[b] = HeightOf[Parent[b]] + 1
ASSUME TxAssumption ==
  /\ IsFiniteSet(Tx)
  /\ KiOf \in [Tx -> SUBSET Ki] /\ Ref \in [Tx -> Tx \cup {None}] /\ Carried \subseteq Tx
ASSUME BoundAssumption == Depth \in Nat /\ MinCoinage \in Nat /\ MaxPool \in Nat /\ MaxBusy \in Nat /\ Faults \in BOOLEAN

VARIABLES
  pool,       \* m_db_transactions: transactions in the pool with their details
  keyImages,  \* m_key_images: key image -> transactions that spend it
  taken,      \* m_taken_txs
  black,      \* m_db_black_tx_list
  com, view,  \* the chain as committed, and as the block thread has it
  alt,        \* transactions of alternative blocks (m_alternative_chains_txs)
  blk,        \* block thread: where it is, the block it connects, whether its
              \* transaction came out of the pool
  net,        \* receiving thread: where it is, its transaction, max_used_block;
              \* (history) whether another thread put it back since the first read
  idle,       \* idle thread: where it is and to_delete
  tmpl,       \* template: where it is, previous block, entries still to be
              \* considered, chosen ones, the one under consideration
  purge       \* the operator is between the two halves of purge_transactions

chainVars == << com, view, alt >>
threads   == << blk, net, idle, tmpl, purge >>
vars      == << pool, keyImages, taken, black, chainVars, threads >>

NoEntries == [t \in {} |-> None]
Details   == [kept : BOOLEAN, used : Block \cup {Genesis, None},
              failed : Block \cup {Genesis, None}]
InPool    == DOMAIN pool
BlkOut    == [pc |-> "out", b |-> None, fromPool |-> FALSE]
NetOut    == [pc |-> "out", t |-> None, used |-> None, back |-> FALSE]
IdleOut   == [pc |-> "out", del |-> {}]
TmplOut   == [pc |-> "out", prev |-> None, todo |-> NoEntries, chosen |-> {},
              t |-> None, copy |-> None]

Init ==
  /\ pool = NoEntries /\ keyImages = [k \in Ki |-> {}] /\ taken = {} /\ black = {}
  /\ com = <<>> /\ view = <<>> /\ alt = {}
  /\ blk = BlkOut /\ net = NetOut /\ idle = IdleOut /\ tmpl = TmplOut /\ purge = FALSE

\* The users of the pool beside the block thread; one more may start.
Busy == { x \in {"net", "idle", "template", "purge"} :
            \/ x = "net" /\ net.pc # "out"
            \/ x = "idle" /\ idle.pc # "out"
            \/ x = "template" /\ tmpl.pc # "out"
            \/ x = "purge" /\ purge }
MayStart == Cardinality(Busy) < MaxBusy

-----------------------------------------------------------------------------
(***************************************************************************)
(* The chain, as the pool asks about it.                                   *)
(***************************************************************************)
TipOf(c)     == IF c = <<>> THEN Genesis ELSE c[Len(c)]
\* get_block_id_by_height(height of b) == b
Has(c, b)    == b = Genesis \/ (b \in Block /\ HeightOf[b] <= Len(c) /\ c[HeightOf[b]] = b)
TxsIn(c)     == { TxOf[c[i]] : i \in 1..Len(c) } \ {None}
SpentIn(c)   == UNION { KiOf[t] : t \in TxsIn(c) }
\* have_tx_keyimg_as_spent(ki, before_height)
SpentDeep(c) == IF Len(c) > Depth THEN SpentIn(SubSeq(c, 1, Len(c) - Depth)) ELSE {}

\* check_tx_inputs: the outputs it refers to exist and its key images are unspent.
InputsOk(t, c) == (Ref[t] = None \/ Ref[t] \in TxsIn(c)) /\ KiOf[t] \cap SpentIn(c) = {}
\* max_used_block_id; None when the inputs do not check.
MaxUsed(t, c) ==
  IF ~InputsOk(t, c) THEN None
  ELSE IF Ref[t] = None THEN Genesis
  ELSE c[CHOOSE i \in 1..Len(c) : TxOf[c[i]] = Ref[t]]

-----------------------------------------------------------------------------
(***************************************************************************)
(* Insertion and removal, with the index of key images.                    *)
(***************************************************************************)
Put(f, t, e) == [x \in DOMAIN f \cup {t} |-> IF x = t THEN e ELSE f[x]]
Cut(f, S)    == [x \in DOMAIN f \ S |-> f[x]]

Indexed(t)   == [k \in Ki |-> IF k \in KiOf[t] THEN keyImages[k] \cup {t} ELSE keyImages[k]]
\* Mutant of Unindexed: a key image that two transactions spend is not released.
UnindexedSole(S) == [k \in Ki |-> IF Cardinality(keyImages[k]) > 1 THEN keyImages[k] ELSE keyImages[k] \ S]
Unindexed(S) == [k \in Ki |-> keyImages[k] \ S]

\* The idle thread keeps the pool's write lock from its first step to its second.
CanWrite == idle.pc = "out"

\* do_insert_transaction
Insert(t, kept, used) ==
  /\ CanWrite
  /\ pool' = Put(pool, t, [kept |-> kept, used |-> used, failed |-> None])
  /\ keyImages' = Indexed(t)

\* History: the receiving thread's transaction gets into the pool behind its back.
PutBack(t) == net' = [net EXCEPT !.back = @ \/ net.t = t]

-----------------------------------------------------------------------------
(***************************************************************************)
(* The block thread.  add_new_block holds m_remove_stuck_txs_lock (the     *)
(* pool's lock()) from beginning to end.                                   *)
(***************************************************************************)
\* Mutant of BeginBlock: add_new_block without the pool's lock.
BeginBlockUnlocked ==
  /\ blk.pc = "out"
  /\ blk' = [blk EXCEPT !.pc = "in"]
  /\ UNCHANGED << pool, keyImages, taken, black, chainVars, net, idle, tmpl, purge >>
BeginBlock ==
  /\ blk.pc = "out" /\ idle.pc = "out"
  /\ blk' = [blk EXCEPT !.pc = "in"]
  /\ UNCHANGED << pool, keyImages, taken, black, chainVars, net, idle, tmpl, purge >>

\* Mutant of TakeTx: the transaction is not put among the taken ones.
TakeTxQuietly(b) ==
  LET t == TxOf[b] IN
  /\ blk.pc = "in" /\ Parent[b] = TipOf(view)
  /\ t = None \/ t \in InPool \cup Carried
  /\ CanWrite
  /\ pool' = Cut(pool, {t}) /\ keyImages' = Unindexed({t}) /\ UNCHANGED taken
  /\ blk' = [pc |-> "took", b |-> b, fromPool |-> t \in InPool]
  /\ UNCHANGED << black, chainVars, net, idle, tmpl, purge >>
\* handle_block_to_main_chain: take_tx for the block's transaction, which is in
\* the pool or came with the block.  (An unknown one ends the block here.)
TakeTx(b) ==
  LET t == TxOf[b] IN
  /\ blk.pc = "in" /\ Parent[b] = TipOf(view)
  /\ t = None \/ t \in InPool \cup Carried
  /\ CanWrite
  /\ pool' = Cut(pool, {t}) /\ keyImages' = Unindexed({t})
  /\ taken' = taken \cup ({t} \cap InPool)
  /\ blk' = [pc |-> "took", b |-> b, fromPool |-> t \in InPool]
  /\ UNCHANGED << black, chainVars, net, idle, tmpl, purge >>

\* The block is connected, or its transaction goes back and on the black list.
Connect ==
  LET t == TxOf[blk.b] IN
  /\ blk.pc = "took"
  /\ t # None => InputsOk(t, view)
  /\ view' = Append(view, blk.b)
  /\ blk' = [BlkOut EXCEPT !.pc = "in"]
  /\ UNCHANGED << pool, keyImages, taken, black, com, alt, net, idle, tmpl, purge >>

RejectBlock ==
  LET t == TxOf[blk.b] IN
  /\ blk.pc = "took"
  /\ t # None /\ ~InputsOk(t, view)
  /\ IF blk.fromPool
     THEN Insert(t, TRUE, None) /\ PutBack(t) /\ black' = black \cup {t}
     ELSE UNCHANGED << pool, keyImages, black, net >>
  /\ blk' = [BlkOut EXCEPT !.pc = "in"]
  /\ UNCHANGED << taken, chainVars, idle, tmpl, purge >>

\* pop_block_from_blockchain: purge_transaction_from_blockchain returns the
\* transaction to the pool.
Disconnect ==
  LET t == TxOf[TipOf(view)] IN
  /\ blk.pc = "in" /\ view # <<>>
  /\ view' = SubSeq(view, 1, Len(view) - 1)
  /\ IF t = None
     THEN UNCHANGED << pool, keyImages, net >>
     ELSE Insert(t, TRUE, MaxUsed(t, view')) /\ PutBack(t)
  /\ UNCHANGED << taken, black, com, alt, blk, idle, tmpl, purge >>

\* handle_alternative_block: its transaction is found in the pool or in the chain.
AddAlt(b) ==
  /\ blk.pc = "in" /\ TxOf[b] \in InPool \cup TxsIn(view)
  /\ alt' = alt \cup {TxOf[b]}
  /\ UNCHANGED << pool, keyImages, taken, black, com, view, threads >>
EraseAlt ==
  /\ blk.pc = "in" /\ alt # {}
  /\ \E t \in alt : alt' = alt \ {t}
  /\ UNCHANGED << pool, keyImages, taken, black, com, view, threads >>

\* The database transaction of the block ends, then on_finalize_db_transaction.
\* What is committed is the old chain or a better one (LedgerSpec of
\* BlockchainStorage), here a longer one.
CommitBlock ==
  /\ blk.pc = "in" /\ (view = com \/ Len(view) > Len(com))
  /\ com' = view
  /\ blk' = [blk EXCEPT !.pc = "ended"]
  /\ UNCHANGED << pool, keyImages, taken, black, view, alt, net, idle, tmpl, purge >>
AbortBlock ==
  /\ Faults /\ blk.pc \in {"in", "took"}
  /\ view' = com
  /\ blk' = [BlkOut EXCEPT !.pc = "ended"]
  /\ UNCHANGED << pool, keyImages, taken, black, com, alt, net, idle, tmpl, purge >>
FinalizeBlock ==
  /\ blk.pc = "ended"
  /\ taken' = {}
  /\ blk' = BlkOut
  /\ UNCHANGED << pool, keyImages, black, chainVars, net, idle, tmpl, purge >>

-----------------------------------------------------------------------------
(***************************************************************************)
(* The receiving thread: core::add_new_tx and add_tx.                      *)
(***************************************************************************)
NetGoto(l)  == net' = [net EXCEPT !.pc = l]
NetFrame    == UNCHANGED << pool, keyImages, taken, black, chainVars, blk, idle, tmpl, purge >>

\* have_tx: first the database, then the taken ones.
Receive(t) ==
  /\ net.pc = "out" /\ MayStart /\ t \notin InPool
  /\ net' = [NetOut EXCEPT !.pc = "taken", !.t = t]
  /\ NetFrame
CheckTaken ==
  /\ net.pc = "taken"
  /\ IF net.t \in taken THEN net' = NetOut ELSE NetGoto("chain")
  /\ NetFrame
CheckChain ==
  /\ net.pc = "chain"
  /\ IF net.t \in TxsIn(com) \/ Cardinality(InPool) > MaxPool THEN net' = NetOut ELSE NetGoto("images")
  /\ NetFrame
CheckKeyImages ==
  /\ net.pc = "images"
  /\ IF \E k \in KiOf[net.t] : keyImages[k] # {} THEN net' = NetOut ELSE NetGoto("inputs")
  /\ NetFrame
CheckInputs ==
  /\ net.pc = "inputs"
  /\ IF InputsOk(net.t, com)
     THEN net' = [net EXCEPT !.pc = "insert", !.used = MaxUsed(net.t, com)]
     ELSE net' = NetOut
  /\ NetFrame
InsertTx ==
  /\ net.pc = "insert"
  /\ Insert(net.t, FALSE, net.used)
  /\ net' = NetOut
  /\ UNCHANGED << taken, black, chainVars, blk, idle, tmpl, purge >>

-----------------------------------------------------------------------------
(***************************************************************************)
(* The idle thread: remove_stuck_transactions, which gives up when a block *)
(* is being processed.                                                     *)
(***************************************************************************)
\* Old ones have outlived CURRENCY_MEMPOOL_TX_LIVETIME or are expired by the clock.
Stuck(t, old) == t \notin alt /\ (t \in old \/ KiOf[t] \cap SpentDeep(com) # {})

CollectStuck ==
  /\ idle.pc = "out" /\ MayStart /\ blk.pc = "out"
  /\ \E old \in SUBSET InPool :
       idle' = [pc |-> "delete", del |-> { t \in InPool : Stuck(t, old) }]
  /\ UNCHANGED << pool, keyImages, taken, black, chainVars, blk, net, tmpl, purge >>
DeleteStuck ==
  /\ idle.pc = "delete"
  /\ pool' = Cut(pool, idle.del) /\ keyImages' = Unindexed(idle.del)
  /\ idle' = IdleOut
  /\ UNCHANGED << taken, black, chainVars, blk, net, tmpl, purge >>

-----------------------------------------------------------------------------
(***************************************************************************)
(* create_block_template: the previous block under the read lock, then     *)
(* fill_block_template over a snapshot of the pool.                        *)
(***************************************************************************)
TmplFrame == UNCHANGED << pool, keyImages, taken, black, chainVars, blk, net, idle, purge >>

StartTemplate ==
  /\ tmpl.pc = "out" /\ MayStart
  /\ tmpl' = [TmplOut EXCEPT !.pc = "snap", !.prev = TipOf(com)]
  /\ TmplFrame
Snapshot ==
  /\ tmpl.pc = "snap"
  /\ tmpl' = [tmpl EXCEPT !.pc = "fill", !.todo = pool]
  /\ TmplFrame

\* is_transaction_ready_to_go: the verdict it remembers for the inputs, or a new
\* check; e is the entry, c the chain.  "skip" is a remembered failure.
Remembered(e, c) ==
  IF e.used = None THEN IF e.failed # None /\ Has(c, e.failed) THEN "skip" ELSE "check"
  ELSE IF HeightOf[e.used] > Len(c) THEN "skip"
  ELSE IF Has(c, e.used) THEN "ready"
  ELSE IF e.failed # None /\ Has(c, e.failed) THEN "skip" ELSE "check"

\* The next transaction in the order of fees, which may be any; remembered
\* failures and black-listed ones are passed over, and any one may be for its
\* size, its expiration or its unlock time.
PassOver(t) ==
  /\ tmpl.pc = "fill" /\ t \in DOMAIN tmpl.todo
  /\ tmpl' = [tmpl EXCEPT !.todo = Cut(@, {t})]
  /\ TmplFrame
Consider(t) ==
  /\ tmpl.pc = "fill" /\ t \in DOMAIN tmpl.todo \ black
  /\ LET e == tmpl.todo[t]
         n == [tmpl EXCEPT !.t = t, !.todo = Cut(@, {t})]
     IN  \/ /\ Remembered(e, com) = "ready"
            /\ tmpl' = [n EXCEPT !.pc = "judge", !.copy = e]
         \/ /\ Remembered(e, com) = "check" /\ InputsOk(t, com)
            /\ tmpl' = [n EXCEPT !.pc = "judge", !.copy = [e EXCEPT !.used = MaxUsed(t, com)]]
         \/ /\ Remembered(e, com) = "check" /\ ~InputsOk(t, com)
            /\ tmpl' = [n EXCEPT !.pc = "failed", !.copy = e]
  /\ TmplFrame

\* The failure is remembered with the top block, read after the check.
Fail ==
  /\ tmpl.pc = "failed"
  /\ tmpl' = IF TipOf(com) = tmpl.copy.failed
             THEN [tmpl EXCEPT !.pc = "fill", !.t = None, !.copy = None]
             ELSE [tmpl EXCEPT !.pc = "write", !.copy.failed = TipOf(com)]
  /\ TmplFrame
\* ... and the copy is written back to the pool.
WriteBack ==
  /\ tmpl.pc = "write" /\ CanWrite
  /\ pool' = Put(pool, tmpl.t, tmpl.copy) /\ PutBack(tmpl.t)
  /\ tmpl' = [tmpl EXCEPT !.pc = "fill", !.t = None, !.copy = None]
  /\ UNCHANGED << keyImages, taken, black, chainVars, blk, idle, purge >>

\* Mutant of Judge: the last look at the key images of the chain is left out.
JudgeTrusting ==
  /\ tmpl.pc = "judge"
  /\ LET ok == /\ Len(com) + 1 >= HeightOf[tmpl.copy.used] + MinCoinage
               /\ \A u \in tmpl.chosen : KiOf[u] \cap KiOf[tmpl.t] = {}
     IN  tmpl' = [tmpl EXCEPT !.pc = "fill", !.t = None, !.copy = None,
                              !.chosen = IF ok THEN @ \cup {tmpl.t} ELSE @]
  /\ TmplFrame
\* The rule on the age of coins, the key images in the chain and those already in
\* the template.
Judge ==
  /\ tmpl.pc = "judge"
  /\ LET ok == /\ Len(com) + 1 >= HeightOf[tmpl.copy.used] + MinCoinage
               /\ KiOf[tmpl.t] \cap SpentIn(com) = {}
               /\ \A u \in tmpl.chosen : KiOf[u] \cap KiOf[tmpl.t] = {}
     IN  tmpl' = [tmpl EXCEPT !.pc = "fill", !.t = None, !.copy = None,
                              !.chosen = IF ok THEN @ \cup {tmpl.t} ELSE @]
  /\ TmplFrame
\* The end, or the block is full; what does not pay for its size is then dropped
\* from the end of the list, which leaves a part of chosen.
FinishTemplate ==
  /\ tmpl.pc = "fill"
  /\ tmpl' = [tmpl EXCEPT !.pc = "done"]
  /\ TmplFrame
UseTemplate ==
  /\ tmpl.pc = "done"
  /\ tmpl' = TmplOut
  /\ TmplFrame

-----------------------------------------------------------------------------
(***************************************************************************)
(* purge_transactions (reset_transaction_pool), and a crash.               *)
(***************************************************************************)
PurgeDb ==
  /\ ~purge /\ MayStart /\ CanWrite
  /\ pool' = NoEntries /\ purge' = TRUE
  /\ UNCHANGED << keyImages, taken, black, chainVars, blk, net, idle, tmpl >>
PurgeKeyImages ==
  /\ purge
  /\ keyImages' = [k \in Ki |-> {}] /\ purge' = FALSE
  /\ UNCHANGED << pool, taken, black, chainVars, blk, net, idle, tmpl >>

\* The process dies and init reads the pool's database: load_keyimages_cache.
Restart ==
  /\ Faults
  /\ keyImages' = [k \in Ki |-> { t \in InPool : k \in KiOf[t] }]
  /\ taken' = {} /\ view' = com /\ alt' = {}
  /\ blk' = BlkOut /\ net' = NetOut /\ idle' = IdleOut /\ tmpl' = TmplOut /\ purge' = FALSE
  /\ UNCHANGED << pool, black, com >>

-----------------------------------------------------------------------------
BlockThread ==
  \/ BeginBlock
  \/ \E b \in Block : TakeTx(b) \/ AddAlt(b)
  \/ Connect \/ RejectBlock \/ Disconnect \/ EraseAlt
  \/ CommitBlock \/ AbortBlock \/ FinalizeBlock
NetThread ==
  \/ \E t \in Tx : Receive(t)
  \/ CheckTaken \/ CheckChain \/ CheckKeyImages \/ CheckInputs \/ InsertTx
IdleThread == CollectStuck \/ DeleteStuck
Template ==
  \/ StartTemplate \/ Snapshot \/ (\E t \in Tx : PassOver(t) \/ Consider(t))
  \/ Fail \/ WriteBack \/ Judge \/ FinishTemplate \/ UseTemplate

Next == BlockThread \/ NetThread \/ IdleThread \/ Template \/ PurgeDb \/ PurgeKeyImages \/ Restart

Spec == Init /\ [][Next]_vars

-----------------------------------------------------------------------------
(***************************************************************************)
(* Properties                                                              *)
(***************************************************************************)
\* Types of the state.
TypeOK ==
  /\ InPool \subseteq Tx /\ \A t \in InPool : pool[t] \in Details
  /\ keyImages \in [Ki -> SUBSET Tx] /\ taken \subseteq Tx /\ black \subseteq Tx
  /\ com \in Seq(Block) /\ view \in Seq(Block) /\ alt \subseteq Tx
  /\ blk.pc \in {"out", "in", "took", "ended"}
  /\ net.pc \in {"out", "taken", "chain", "images", "inputs", "insert"}
  /\ idle.pc \in {"out", "delete"} /\ idle.del \subseteq Tx
  /\ tmpl.pc \in {"out", "snap", "fill", "judge", "failed", "write", "done"}
  /\ tmpl.chosen \subseteq Tx /\ purge \in BOOLEAN

\* A key image is reserved only for transactions in the pool: once they have left
\* it, by whatever way, and after a crash, the coin can be spent by another one.
IndexSound ==
  ~purge => \A k \in Ki : \A t \in keyImages[k] : t \in InPool /\ k \in KiOf[t]

\* "never remove transactions which related to alt blocks": what the idle thread
\* is about to delete has not become part of an alternative block meanwhile.
StuckNotAlt == idle.del \cap alt = {}

\* A transaction of the committed chain is not admitted again, although have_tx
\* reads the database, the taken set and the chain one after the other while a
\* block or a reorganisation moves it between them.  (One that a block brought
\* along was never in the pool and may be; and so may one that came back to the
\* pool after the first read: a later block takes it from there unnoticed.)
NoKnownTxAdmitted ==
  net.pc = "insert" /\ net.t \in TxsIn(com) => net.t \in Carried \/ net.back

\* A template whose previous block is still the top block holds transactions that
\* can all be added to it: what the pool remembers of their inputs was not stale.
TemplateValid ==
  tmpl.pc = "done" /\ tmpl.prev = TipOf(com) =>
    /\ \A t \in tmpl.chosen : InputsOk(t, com)
    /\ \A t, u \in tmpl.chosen : t = u \/ KiOf[t] \cap KiOf[u] = {}

\* An expectation the code does not meet, since a failure counts as long as the block
\* that was the top is in the chain, and that block is read after the check:
\* "we already sure that this tx is broken for this height": a transaction is
\* passed over for an earlier failure only while its inputs really fail.
BrokenAtThisHeight ==
  \A t \in InPool :
    Remembered(pool[t], com) = "skip" /\ pool[t].failed # None /\ Has(com, pool[t].failed)
      => ~InputsOk(t, com)
=============================================================================
