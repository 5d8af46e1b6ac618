-------------------------- MODULE BlockchainStorage --------------------------
(***************************************************************************)
(* currency::blockchain_storage: the main chain, the alternative chains    *)
(* and the reorganisation between them (src/src/currency_core/             *)
(* blockchain_storage.cpp), together with the part of the transaction pool *)
(* that block processing touches (tx_pool.cpp).                            *)
(*                                                                         *)
(* One thread at a time runs add_new_block: begin_transaction_obj takes    *)
(* the write lock of the database.  It works on its own uncommitted view   *)
(* (chain, txdb, spent); every other thread reads the committed state com. *)
(* What is kept in memory only (the alternative chains, the set of invalid *)
(* blocks, the taken transactions) and what is kept in the pool's own      *)
(* database is NOT undone when the database transaction is aborted.        *)
(*                                                                         *)
(* handle_block_to_main_chain is a subroutine with three callers; mode     *)
(* says which of them it returns to.                                       *)
(***************************************************************************)
EXTENDS Integers, Sequences, FiniteSets

CONSTANTS
  Block,        \* identifiers of the blocks the node may ever receive
  Genesis,      \* block 0, never popped
  Parent,       \* b.prev_id
  Branch,       \* the blocks from the first one above Genesis up to b
  Tx, Ki,       \* transactions and key images
  TxsOf,        \* b.tx_hashes
  KiTx,         \* the key images the inputs of a transaction spend
  Stake,        \* the key image a PoS coinbase spends ({} for a PoW block)
  CumDiff,      \* cumulative_diff_adjusted of a block
  Proof,        \* stake hash of a PoS block, work hash of a PoW block
  Timestamp,    \* b.timestamp less the future limit of its kind, PoW or PoS
  BadCoinbase,  \* blocks whose miner transaction fails the prevalidation
  BadWork,      \* blocks without a valid proof of work or proof of stake
  BadReward,    \* blocks whose reward, range proofs or alias count fails, outside the
                \* checkpoint zone where only the aliases are counted
  BadSize,      \* blocks whose declared cumulative size is wrong and checked (HF6)
  BadProof,     \* transactions with wrong balance or asset surjection proofs
  BadInputs,    \* transactions whose inputs refer to missing or locked outputs
  CpHeight, CpBlock,   \* the checkpoint; CpHeight = 0 when there is none
  MaxAlt,       \* m_core_runtime_config.max_alt_blocks
  AltLifetime,  \* CURRENCY_ALT_BLOCK_LIVETIME_COUNT
  Onboard,      \* which kinds of block arrive: subset of {"bare", "full"}
  Clock,        \* values the node's clock may be set to
  Faults,       \* subset of {"throw", "crash"}
  TruncateTo    \* sizes the operator may truncate the chain to (without Genesis)

Elems(s) == { s[i] : i \in 1..Len(s) }
TxSet(b)  == Elems(TxsOf[b])

(***************************************************************************)
(* Every key image that a block spends, its coinbase included.             *)
(***************************************************************************)
KiOf(b) == Stake[b] \cup UNION { KiTx[t] : t \in TxSet(b) }

ASSUME BlockAssumption ==
  /\ Genesis \notin Block
  /\ Parent \in [Block -> Block \cup {Genesis}]
  /\ Branch \in [Block \cup {Genesis} -> Seq(Block)]
  /\ Branch[Genesis] = <<>>
  /\ \A b \in Block : Branch[b] = Append(Branch[Parent[b]], b)
  /\ \A b \in Block : \A i \in 1..Len(Branch[b]) : Len(Branch[Branch[b][i]]) = i
  /\ IsFiniteSet(Block)

ASSUME TxAssumption ==
  /\ TxsOf \in [Block -> Seq(Tx)]
  /\ KiTx \in [Tx -> SUBSET Ki]
  /\ Stake \in [Block -> SUBSET Ki]
  /\ BadCoinbase \subseteq Block /\ BadWork \subseteq Block
  /\ BadReward \subseteq Block /\ BadSize \subseteq Block
  /\ BadProof \subseteq Tx /\ BadInputs \subseteq Tx

ASSUME ParameterAssumption ==
  /\ CumDiff \in [Block \cup {Genesis} -> Nat]
  /\ Proof \in [Block -> Nat]
  /\ Timestamp \in [Block -> Nat]
  /\ CpHeight \in Nat
  /\ MaxAlt \in Nat \ {0} /\ AltLifetime \in Nat
  /\ Clock \subseteq Nat
  /\ Onboard \subseteq {"bare", "full"}
  /\ Faults \subseteq {"throw", "crash"}
  /\ TruncateTo \subseteq Nat

VARIABLES
  chain,    \* m_db_blocks above Genesis, as the writing thread sees it
  txdb,     \* m_db_transactions: height of the block that keeps a tx, 0 if none
  spent,    \* m_db_spent_keys: height at which a key image was spent, 0 if not
  com,      \* the same three as of the last commit
  alt,      \* keys of m_alternative_chains
  altOnb,   \* onboard_transactions of an alternative block
  altKi,    \* m_altblocks_keyimages
  altTxs,   \* m_alternative_chains_txs
  invalid,  \* m_invalid_blocks
  pool,     \* transactions of the pool (its own database, committed at once)
  taken,    \* m_taken_txs
  black,    \* m_db_black_tx_list
  clock,    \* get_adjusted_time()
  pc,       \* where add_new_block is
  mode,     \* the caller of handle_block_to_main_chain
  cur,      \* its block
  onb,      \* bvc.m_onboard_transactions of that call
  done,     \* tx_processed_count
  path,     \* alt_chain
  disc,     \* disconnected_chain
  nxt,      \* loop position in path or disc
  pushed    \* entries of disc whose onboard transactions were swapped out

db     == << chain, txdb, spent >>
mem    == << alt, altOnb, altKi, altTxs, invalid >>
pools  == << pool, taken, black >>
call   == << mode, cur, onb, done >>
switch == << path, disc, nxt, pushed >>
vars   == << db, com, mem, pools, clock, pc, call, switch >>

Top    == IF chain = <<>> THEN Genesis ELSE chain[Len(chain)]
Height(b) == Len(Branch[b])

(***************************************************************************)
(* Checks of one block whose outcome is a parameter.  The future limit of  *)
(* a time stamp holds on both chains once there are                        *)
(* BLOCKCHAIN_TIMESTAMP_CHECK_WINDOW blocks below, which is assumed of     *)
(* Genesis here.  (The other bound, the median of the blocks below,        *)
(* depends on the branch alone: a block that violates it is one without a  *)
(* valid proof.)                                                           *)
(***************************************************************************)
CheckTimestamp(b)  == Timestamp[b] <= clock
PrevalidateMinerTx(b) == b \notin BadCoinbase
ValidateProof(b)   == b \notin BadWork
LateChecks(b)      == b \notin BadReward
DeclaredSizeOk(b)  == b \notin BadSize

HaveBlock(b) == b \in Elems(chain) \/ b \in alt \/ b \in invalid

InCheckpointZone(h) == h <= CpHeight
CheckpointNeverPassed(h) == FALSE
CheckpointPassed(h) == h <= CpHeight /\ CpHeight <= Len(chain)
CheckBlock(b)       == Height(b) = CpHeight => b = CpBlock

(***************************************************************************)
(* The fork choice of is_reorganize_required before hard fork 1, between   *)
(* the top m of the main chain and the tip a of an alternative chain.      *)
(***************************************************************************)
IsPos(b) == b # Genesis /\ Stake[b] # {}
ReorganizeOnTie(m, a) == CumDiff[m] <= CumDiff[a]
ReorganizeRequired(m, a) ==
  \/ CumDiff[m] < CumDiff[a]
  \/ CumDiff[m] = CumDiff[a] /\ IsPos(m) /\ Proof[m] < Proof[a]

Init ==
  /\ chain = <<>> /\ txdb = [t \in Tx |-> 0] /\ spent = [k \in Ki |-> 0]
  /\ com = [chain |-> chain, txdb |-> txdb, spent |-> spent]
  /\ alt = {} /\ altOnb = [b \in Block |-> {}] /\ altKi = {}
  /\ altTxs = [t \in Tx |-> 0] /\ invalid = {}
  /\ pool = {} /\ taken = {} /\ black = {}
  /\ clock \in Clock
  /\ pc = "idle" /\ mode = "none" /\ cur = Genesis /\ onb = {} /\ done = 0
  /\ path = <<>> /\ disc = <<>> /\ nxt = 1 /\ pushed = 0

(***************************************************************************)
(* Helpers.  Set(f, S, v): f with the value v for the members of S.        *)
(***************************************************************************)
Set(f, S, v) == [x \in DOMAIN f |-> IF x \in S THEN v ELSE f[x]]
View == [chain |-> chain, txdb |-> txdb, spent |-> spent]
OnboardOf(b) == (IF "bare" \in Onboard THEN {{}} ELSE {})
                  \cup (IF "full" \in Onboard THEN {TxSet(b)} ELSE {})
SplitHeight  == Height(path[1])

-----------------------------------------------------------------------------
(***************************************************************************)
(* The alternative chains.                                                 *)
(*                                                                         *)
(* Splits(b): the height of the first block of the run of alternative      *)
(* blocks that ends below b (the while loop over m_alternative_chains); a  *)
(* set with one element.                                                   *)
(***************************************************************************)
Splits(b) ==
  { s \in 1..Height(b) : /\ \A j \in s..(Height(b) - 1) : Branch[b][j] \in alt
                         /\ s > 1 => Branch[b][s - 1] \notin alt }

AltPath(b, s) == SubSeq(Branch[b], s, Height(b))

\* The front of the run has its parent in the main chain, at the right height.
ConnectsToMain(b, s) == s > 1 => s <= Len(chain) + 1 /\ chain[s - 1] = Branch[b][s - 1]

PrevKnown(b) == Parent[b] \in alt \cup Elems(chain) \cup {Genesis}

\* collected_keyimages: no key image twice within one alternative block.
SpendsOnce(b) ==
  /\ \A i, j \in 1..Len(TxsOf[b]) : i # j => KiTx[TxsOf[b][i]] \cap KiTx[TxsOf[b][j]] = {}
  /\ \A i \in 1..Len(TxsOf[b]) : KiTx[TxsOf[b][i]] \cap Stake[b] = {}

\* onboard_transactions completed from the pool and from the main chain.
Resolve(b, o) == o \cup { t \in TxSet(b) : t \in pool \/ txdb[t] # 0 }

\* The key image rules of validate_alt_block_input (cases b1, b2, b3).
AltInputsNoHeap(b, s) == SpendsOnce(b) /\ \A k \in KiOf(b) : spent[k] = 0 \/ spent[k] >= s
AltInputsOk(b, s) ==
  /\ SpendsOnce(b)
  /\ \A k \in KiOf(b) : /\ spent[k] = 0 \/ spent[k] >= s
                        /\ \A a \in Elems(AltPath(b, s)) : << k, a >> \notin altKi

\* validate_alt_block_txs: every transaction is at hand and has valid inputs.
AltTxsOk(b, o, s) ==
  /\ TxSet(b) \subseteq Resolve(b, o)
  /\ TxSet(b) \cap BadInputs = {}
  /\ AltInputsOk(b, s)

\* The checks of handle_alternative_block, for the split height s; the last is that
\* the insertion into m_alternative_chains finds no block of that id.
AltAccepts(b, o, s) ==
  /\ ~CheckpointPassed(Height(b))
  /\ PrevKnown(b) /\ ConnectsToMain(b, s)
  /\ CheckTimestamp(b)
  /\ CheckBlock(b)
  /\ PrevalidateMinerTx(b) /\ ValidateProof(b)
  /\ AltTxsOk(b, o, s)
  /\ b \notin alt

\* do_erase_altblock for every block of S: the key images of a transaction that
\* is neither in the pool nor in the database stay in the heap.
Erasable(b) ==
  Stake[b] \cup UNION { KiTx[t] : t \in { u \in TxSet(b) : u \in pool \/ txdb[u] # 0 } }
ErasedKi(K, S)  == { e \in K : ~(e[2] \in S /\ e[1] \in Erasable(e[2])) }
KeptTxs(T, S)   == T
ErasedTxs(T, S) == [t \in Tx |-> LET n == Cardinality({ b \in S : t \in TxSet(b) })
                               IN  IF n <= T[t] THEN T[t] - n ELSE 0]
AddedTxs(T, b)  == [t \in Tx |-> IF t \in TxSet(b) THEN T[t] + 1 ELSE T[t]]

\* prune_aged_alt_blocks: first the blocks too far below the top, then, when
\* there are still too many, the oldest ones.  Time stamps have a resolution of
\* a second and the clock may be set, so any choice of the right size is possible.
Aged(A) == { a \in A : Len(chain) + 1 - Height(a) > AltLifetime }
PruneChoices(A) ==
  LET rest == A \ Aged(A)
      over == Cardinality(rest) - MaxAlt
  IN  IF over <= 0 THEN { Aged(A) }
      ELSE { Aged(A) \cup D : D \in { E \in SUBSET rest : Cardinality(E) = over } }

\* handle_alternative_block prunes when there are more than max_alt_blocks.
PruneIfMany(A) == IF Cardinality(A) <= MaxAlt THEN {{}} ELSE PruneChoices(A)

\* The insertion at the end of handle_alternative_block, S being pruned.
AltInsert(b, o, S) ==
  /\ alt'    = (alt \cup {b}) \ S
  /\ altOnb' = Set([altOnb EXCEPT ![b] = Resolve(b, o)], S, {})
  /\ altKi'  = ErasedKi(altKi \cup (KiOf(b) \X {b}), S)
  /\ altTxs' = ErasedTxs(AddedTxs(altTxs, b), S)
  /\ UNCHANGED invalid

AltErase(S) ==
  /\ alt'    = alt \ S
  /\ altOnb' = Set(altOnb, S, {})
  /\ altKi'  = ErasedKi(altKi, S)
  /\ altTxs' = ErasedTxs(altTxs, S)

\* What do_erase_altblock erases through the iterators of S, kept in alt_chain.  An
\* iterator whose block was pruned meanwhile is dead, and what it leads to is up to
\* the build: the pruned block itself, so that its transactions are counted off a
\* second time, another block whose entry has got that memory since, or nothing.
\* (That the process dies of it is Crash.)
ErasedThrough(S) ==
  { E \in SUBSET (S \cup (alt \cap Elems(disc))) :
      S \cap alt \subseteq E /\ Cardinality(E) <= Cardinality(S) }

-----------------------------------------------------------------------------
(***************************************************************************)
(* add_new_block                                                           *)
(***************************************************************************)
\* Enter handle_block_to_main_chain for block b, to return to caller m.
Call(b, o, m) ==
  /\ pc' = "enter" /\ mode' = m /\ cur' = b /\ onb' = o /\ done' = 0

\* A block on top of the main chain.  A simulated one (mode "sim") carries no
\* transactions of its own.
ReceiveMain(b) ==
  /\ pc = "idle"
  /\ ~HaveBlock(b)
  /\ Parent[b] = Top
  /\ \/ \E o \in OnboardOf(b) : Call(b, o, "main")
     \/ Call(b, {}, "sim")
  /\ UNCHANGED << db, com, mem, pools, clock, switch >>

\* Any other block goes to handle_alternative_block.  One that is orphaned or
\* refused changes nothing; one that makes its branch the better one starts the
\* reorganisation.
ReceiveAlt(b) ==
  /\ pc = "idle"
  /\ ~HaveBlock(b)
  /\ Parent[b] # Top
  /\ \E o \in OnboardOf(b), s \in Splits(b) :
       /\ AltAccepts(b, o, s)
       /\ IF ReorganizeRequired(Top, b)
          THEN /\ AltInsert(b, o, {})
               /\ path' = AltPath(b, s)
               /\ pc' = "pop"
          ELSE /\ \E S \in PruneIfMany(alt \cup {b}) : AltInsert(b, o, S)
               /\ pc' = "commit"
               /\ UNCHANGED path
  /\ UNCHANGED << db, com, pools, clock, call, disc, nxt, pushed >>

-----------------------------------------------------------------------------
(***************************************************************************)
(* pop_block_from_blockchain: the transactions go back to the pool.        *)
(***************************************************************************)
PopKeepSpent ==
  LET b == Top IN
  /\ chain' = SubSeq(chain, 1, Len(chain) - 1)
  /\ txdb'  = Set(txdb, TxSet(b), 0)
  /\ spent' = Set(spent, KiOf(b) \ Stake[b], 0)
  /\ pool'  = pool \cup TxSet(b)
  /\ UNCHANGED << taken, black >>
PopBlock ==
  LET b == Top IN
  /\ chain' = SubSeq(chain, 1, Len(chain) - 1)
  /\ txdb'  = Set(txdb, TxSet(b), 0)
  /\ spent' = Set(spent, KiOf(b), 0)
  /\ pool'  = pool \cup TxSet(b)
  /\ UNCHANGED << taken, black >>

\* The loops of the switch and of its rollback pop down to the split height.
AboveSplitBlock == Len(chain) > SplitHeight
AboveSplit      == Len(chain) >= SplitHeight

\* switch_to_alternative_blockchain: disconnect the old chain ...
Disconnect ==
  /\ pc = "pop" /\ AboveSplit
  /\ PopBlock
  /\ disc' = << Top >> \o disc
  /\ UNCHANGED << com, mem, clock, pc, call, path, nxt, pushed >>

\* ... connect the blocks of the alternative chain one by one ...
ConnectNextBare ==
  /\ \/ pc = "pop" /\ ~AboveSplit /\ nxt' = 1
     \/ pc = "connected" /\ nxt < Len(path) /\ nxt' = nxt + 1
  /\ Call(path[nxt'], {}, "switch")
  /\ UNCHANGED << db, com, mem, pools, clock, path, disc, pushed >>
ConnectNext ==
  /\ \/ pc = "pop" /\ ~AboveSplit /\ nxt' = 1
     \/ pc = "connected" /\ nxt < Len(path) /\ nxt' = nxt + 1
  /\ Call(path[nxt'], altOnb[path[nxt']], "switch")
  /\ UNCHANGED << db, com, mem, pools, clock, path, disc, pushed >>

\* ... and push the old chain back as an alternative one.
StartPush ==
  /\ pc = "connected" /\ nxt = Len(path)
  /\ pc' = "push"
  /\ UNCHANGED << db, com, mem, pools, clock, call, switch >>

\* The next block of the old chain is handled like any alternative block; an
\* orphaned one is dropped without an error.  A second reorganisation is refused
\* by an exception that handle_alternative_block catches itself.
PushExMain ==
  /\ pc = "push" /\ pushed < Len(disc)
  /\ LET b == disc[pushed + 1] IN
       IF \E s \in Splits(b) : AltAccepts(b, TxSet(b), s)
       THEN IF ReorganizeRequired(Top, b)
            THEN AltInsert(b, TxSet(b), {}) /\ pc' = "rollback"
            ELSE /\ \E S \in PruneIfMany(alt \cup {b}) : AltInsert(b, TxSet(b), S)
                 /\ pc' = "push"
       ELSE /\ UNCHANGED mem
            /\ pc' = IF PrevKnown(b) \/ CheckpointPassed(Height(b))
                     THEN "rollback" ELSE "push"
  /\ pushed' = pushed + 1
  /\ UNCHANGED << db, com, pools, clock, call, path, disc, nxt >>

\* Removing the connected blocks from the alternative chains, pruned or not.
EraseConnected ==
  /\ \/ pc = "push" /\ pushed = Len(disc)
     \/ pc = "erase"
  /\ \E S \in ErasedThrough(Elems(path)) : AltErase(S)
  /\ pc' = "commit"
  /\ UNCHANGED << db, com, invalid, pools, clock, call, switch >>

-----------------------------------------------------------------------------
(***************************************************************************)
(* rollback_blockchain_switching                                           *)
(***************************************************************************)
RollbackPop ==
  /\ pc = "rollback" /\ AboveSplit
  /\ PopBlock
  /\ UNCHANGED << com, mem, clock, pc, call, switch >>

\* The next block of the old chain, or the end.  The transactions of the blocks
\* that were offered to handle_alternative_block were swapped out of the list.
RollbackConnect ==
  LET i == Len(chain) - SplitHeight + 2
      o == IF i <= pushed THEN {} ELSE TxSet(disc[i])
  IN
  /\ \/ pc = "rollback" /\ ~AboveSplit
     \/ pc = "restored"
  /\ IF i <= Len(disc) THEN Call(disc[i], o, "restore")
                       ELSE pc' = "rolledback" /\ UNCHANGED call
  /\ UNCHANGED << db, com, mem, pools, clock, switch >>

\* After a block that could not be connected: the rest of the alternative chain
\* is invalid.  add_new_block aborts the database transaction.  (Nothing has been
\* inserted, hence nothing pruned, since the iterators were collected.)
SwitchFailedKeepsAlt ==
  /\ pc = "rolledback" /\ pushed = 0
  /\ pc' = "abort"
  /\ UNCHANGED << db, com, mem, pools, clock, call, switch >>
SwitchFailed ==
  /\ pc = "rolledback" /\ pushed = 0
  /\ LET S == Elems(SubSeq(path, nxt, Len(path))) IN
       invalid' = invalid \cup S /\ AltErase(S)
  /\ pc' = "abort"
  /\ UNCHANGED << db, com, pools, clock, call, switch >>

\* After an old block that could not be pushed: "we pretend it was successfull".
SwitchPretended ==
  /\ pc = "rolledback" /\ pushed > 0
  /\ pc' = "erase"
  /\ UNCHANGED << db, com, mem, pools, clock, call, switch >>

-----------------------------------------------------------------------------
(***************************************************************************)
(* handle_block_to_main_chain                                              *)
(***************************************************************************)
\* Where control goes when the call returns.
ReturnedUnchecked(ok) ==
  CASE mode = "sim"     -> "abort"
    [] mode = "main"    -> IF ok THEN "commit" ELSE "abort"
    [] mode = "switch"  -> "connected"
    [] mode = "restore" -> IF ok THEN "restored" ELSE "rolledback"
ReturnedToRollback(ok) ==
  CASE mode = "sim"     -> "abort"
    [] mode = "main"    -> IF ok THEN "commit" ELSE "abort"
    [] mode = "switch"  -> IF ok THEN "connected" ELSE "rollback"
    [] mode = "restore" -> IF ok THEN "rollback" ELSE "rolledback"
Returned(ok) ==
  CASE mode = "sim"     -> "abort"
    [] mode = "main"    -> IF ok THEN "commit" ELSE "abort"
    [] mode = "switch"  -> IF ok THEN "connected" ELSE "rollback"
    [] mode = "restore" -> IF ok THEN "restored" ELSE "rolledback"

\* The checks before any transaction is touched; the last is the coinbase's own.
\* A simulated block has no proof yet.
HeaderOk(b) ==
  /\ Parent[b] = Top
  /\ CheckTimestamp(b)
  /\ CheckBlock(b)
  /\ mode = "sim" \/ (PrevalidateMinerTx(b) /\ ValidateProof(b))
  /\ \A k \in Stake[b] : spent[k] = 0

EnterBlock ==
  /\ pc = "enter"
  /\ IF HeaderOk(cur)
     THEN /\ spent' = Set(spent, Stake[cur], Len(chain) + 1)
          /\ pc' = "txs"
     ELSE /\ pc' = Returned(FALSE)
          /\ UNCHANGED spent
  /\ UNCHANGED << chain, txdb, com, mem, pools, clock, call, switch >>

CurTx    == TxsOf[cur][done + 1]
\* take_tx erases the transaction from the pool and commits that at once.
TakeQuietly(t) == pool' = pool \ {t} /\ UNCHANGED taken
Take(t) ==
  /\ pool'  = pool \ {t}
  /\ taken' = IF t \in pool THEN taken \cup {t} ELSE taken

ProofsOk(t) == t \notin BadProof \/ InCheckpointZone(Len(chain) + 1)
InputsNotLookedUp(t) == t \notin BadInputs
InputsOk(t) == t \notin BadInputs /\ \A k \in KiTx[t] : spent[k] = 0

\* add_transaction_from_block: the transaction and the key images it spends.
AddTransaction(t) ==
  /\ txdb'  = Set(txdb, {t}, Len(chain) + 1)
  /\ spent' = Set(spent, KiTx[t], Len(chain) + 1)

\* One transaction: taken from the pool, checked and added.
ProcessTx ==
  /\ pc = "txs" /\ done < Len(TxsOf[cur])
  /\ LET t == CurTx IN
       /\ t \in onb \cup pool
       /\ ProofsOk(t)
       /\ InputsOk(t)
       /\ txdb[t] = 0
       /\ Take(t)
       /\ AddTransaction(t)
  /\ done' = done + 1
  /\ UNCHANGED << chain, com, mem, black, clock, pc, mode, cur, onb, switch >>

\* A transaction that fails.  A malformed one is never in the pool and as good as
\* unknown; one with wrong proofs is put into the pool and
\* blacklisted wherever it came from, one with wrong inputs or that cannot be
\* stored only if it was taken from the pool; wrong inputs make the block
\* invalid.
RejectTx ==
  /\ pc = "txs" /\ done < Len(TxsOf[cur])
  /\ LET t == CurTx IN
       \/ /\ t \notin onb \cup pool
          /\ UNCHANGED << pools, invalid >>
       \/ /\ t \in onb \cup pool
          /\ ~ProofsOk(t)
          /\ pool'  = pool \cup {t}
          /\ taken' = IF t \in pool THEN taken \cup {t} ELSE taken
          /\ black' = black \cup {t}
          /\ UNCHANGED invalid
       \/ /\ t \in onb \cup pool
          /\ ProofsOk(t)
          /\ ~InputsOk(t) \/ txdb[t] # 0
          /\ taken' = IF t \in pool THEN taken \cup {t} ELSE taken
          /\ black' = IF t \in pool THEN black \cup {t} ELSE black
          /\ invalid' = IF InputsOk(t) THEN invalid ELSE invalid \cup {cur}
          /\ UNCHANGED pool
  /\ pc' = "undo"
  /\ UNCHANGED << db, com, alt, altOnb, altKi, altTxs, clock, call, switch >>

\* All transactions are in.  The checks that follow may still fail; a wrong
\* declared size makes the block invalid.
FinishBlock ==
  /\ pc = "txs" /\ done = Len(TxsOf[cur])
  /\ IF mode = "sim" \/ ~LateChecks(cur) \/ ~DeclaredSizeOk(cur)
     THEN /\ pc' = "undo"
          /\ invalid' = IF DeclaredSizeOk(cur) THEN invalid ELSE invalid \cup {cur}
          /\ UNCHANGED chain
     ELSE /\ chain' = Append(chain, cur)
          /\ pc' = Returned(TRUE)
          /\ UNCHANGED invalid
  /\ UNCHANGED << txdb, spent, com, alt, altOnb, altKi, altTxs, pools, clock, call, switch >>

\* purge_transaction_from_blockchain: its key images, its record, and back to
\* the pool.
PurgeTransactionNoPool(t) ==
  /\ spent' = Set(spent, KiTx[t], 0)
  /\ txdb'  = Set(txdb, {t}, 0)
  /\ UNCHANGED pool
PurgeTransaction(t) ==
  /\ spent' = Set(spent, KiTx[t], 0)
  /\ txdb'  = Set(txdb, {t}, 0)
  /\ pool'  = pool \cup {t}

\* purge_block_data_from_blockchain: the processed transactions in reverse, then
\* the coinbase.
UndoTx ==
  /\ pc = "undo" /\ done > 0
  /\ PurgeTransaction(TxsOf[cur][done])
  /\ done' = done - 1
  /\ UNCHANGED << chain, com, mem, taken, black, clock, pc, mode, cur, onb, switch >>

UndoCoinbase ==
  /\ pc = "undo" /\ done = 0
  /\ spent' = Set(spent, Stake[cur], 0)
  /\ pc' = Returned(FALSE)
  /\ UNCHANGED << chain, txdb, com, mem, pools, clock, call, switch >>

-----------------------------------------------------------------------------
(***************************************************************************)
(* The end of add_new_block; m_tx_pool.on_finalize_db_transaction resets   *)
(* the taken transactions.                                                 *)
(***************************************************************************)
Idle ==
  /\ pc' = "idle" /\ taken' = {}
  /\ mode' = "none" /\ cur' = Genesis /\ onb' = {} /\ done' = 0
  /\ path' = <<>> /\ disc' = <<>> /\ nxt' = 1 /\ pushed' = 0

Commit ==
  /\ pc = "commit"
  /\ com' = View
  /\ Idle
  /\ UNCHANGED << db, mem, pool, black, clock >>

Restore == chain' = com.chain /\ txdb' = com.txdb /\ spent' = com.spent

Abort ==
  /\ pc = "abort"
  /\ Restore
  /\ Idle
  /\ UNCHANGED << com, mem, pool, black, clock >>

\* An exception anywhere in between is caught; the database transaction is
\* aborted, by handle_alternative_block's failure or by the destructor of its
\* wrapper.
Throw ==
  /\ "throw" \in Faults
  /\ pc \notin {"idle", "commit", "abort"}
  /\ pc' = "abort"
  /\ UNCHANGED << db, com, mem, pools, clock, call, switch >>

\* An exception while an old block is pushed is caught by the inner call of
\* handle_alternative_block, before or after it inserted the block.
ThrowPush ==
  /\ "throw" \in Faults
  /\ pc = "push" /\ pushed < Len(disc)
  /\ LET b == disc[pushed + 1] IN
       \/ UNCHANGED mem
       \/ (\E s \in Splits(b) : AltAccepts(b, TxSet(b), s)) /\ AltInsert(b, TxSet(b), {})
  /\ pushed' = pushed + 1
  /\ pc' = "rollback"
  /\ UNCHANGED << db, com, pools, clock, call, path, disc, nxt >>

\* The process dies and is started again: the two databases are what they were
\* at their last commit, everything else is empty.
ForgetAlt == alt' = {} /\ altOnb' = [b \in Block |-> {}] /\ altKi' = {} /\ altTxs' = [t \in Tx |-> 0]
Crash ==
  /\ "crash" \in Faults
  /\ Restore
  /\ ForgetAlt /\ invalid' = {}
  /\ Idle
  /\ UNCHANGED << com, pool, black, clock >>

-----------------------------------------------------------------------------
(***************************************************************************)
(* Other threads.                                                          *)
(***************************************************************************)
\* core::handle_incoming_tx: a transaction neither in the pool, nor taken from
\* it, nor in the main chain, whose key images are not spent.
IncomingTx(t) ==
  /\ t \notin pool \cup taken
  /\ com.txdb[t] = 0
  /\ t \notin BadProof \cup BadInputs
  /\ \A k \in KiTx[t] : com.spent[k] = 0
  /\ \A u \in pool : KiTx[u] \cap KiTx[t] = {}
  /\ pool' = pool \cup {t}
  /\ UNCHANGED << db, com, mem, taken, black, clock, pc, call, switch >>

\* remove_stuck_transactions needs the lock that add_new_block holds.
RemoveStuck(t) ==
  /\ pc = "idle"
  /\ t \in pool /\ altTxs[t] = 0
  /\ pool' = pool \ {t}
  /\ UNCHANGED << db, com, mem, taken, black, clock, pc, call, switch >>

\* Operator commands.
ClearAltblocks ==
  /\ path = <<>> \/ pc \in {"commit", "abort"}
  /\ ForgetAlt
  /\ UNCHANGED << db, com, invalid, pools, clock, pc, call, switch >>

\* core::on_idle prunes from time to time, under the lock of the chain.
PruneAltBlocks ==
  /\ pc = "idle"
  /\ \E S \in PruneChoices(alt) : AltErase(S)
  /\ UNCHANGED << db, com, invalid, pools, clock, pc, call, switch >>

TruncateBlockchain(n) ==
  /\ pc = "idle" /\ n < Len(chain)
  /\ LET gone == { chain[i] : i \in (n + 1)..Len(chain) } IN
       /\ txdb'  = Set(txdb, UNION { TxSet(b) : b \in gone }, 0)
       /\ spent' = Set(spent, UNION { KiOf(b) : b \in gone }, 0)
       /\ pool'  = pool \cup UNION { TxSet(b) : b \in gone }
  /\ chain' = SubSeq(chain, 1, n)
  /\ com' = [chain |-> chain', txdb |-> txdb', spent |-> spent']
  /\ ForgetAlt
  /\ UNCHANGED << invalid, taken, black, clock, pc, call, switch >>

SetClock ==
  /\ clock' \in Clock \ {clock}
  /\ UNCHANGED << db, com, mem, pools, pc, call, switch >>

-----------------------------------------------------------------------------
BlockThread ==
  \/ Disconnect \/ ConnectNext \/ StartPush \/ PushExMain \/ EraseConnected
  \/ RollbackPop \/ RollbackConnect \/ SwitchFailed \/ SwitchPretended
  \/ EnterBlock \/ ProcessTx \/ RejectTx \/ FinishBlock \/ UndoTx \/ UndoCoinbase
  \/ Commit \/ Abort

Next ==
  \/ \E b \in Block : ReceiveMain(b) \/ ReceiveAlt(b)
  \/ BlockThread
  \/ Throw \/ ThrowPush \/ Crash
  \/ \E t \in Tx : IncomingTx(t) \/ RemoveStuck(t)
  \/ ClearAltblocks \/ PruneAltBlocks
  \/ \E n \in TruncateTo : TruncateBlockchain(n)
  \/ SetClock

Spec     == Init /\ [][Next]_vars
FairSpec == Spec /\ WF_vars(BlockThread)

-----------------------------------------------------------------------------
(***************************************************************************)
(* Properties                                                              *)
(***************************************************************************)
Pcs == { "idle", "pop", "connected", "push", "erase", "rollback", "restored", "rolledback",
         "enter", "txs", "undo", "commit", "abort" }
Modes == { "none", "main", "sim", "switch", "restore" }
Ledgers == [chain : Seq(Block), txdb : [Tx -> Nat], spent : [Ki -> Nat]]

\* Types of the whole state; positions stay within the sequences they index, so
\* no step of the reorganisation reads past the end of a list.
TypeOK ==
  /\ View \in Ledgers /\ com \in Ledgers
  /\ alt \subseteq Block /\ altOnb \in [Block -> SUBSET Tx]
  /\ altKi \subseteq Ki \X Block /\ altTxs \in [Tx -> Nat] /\ invalid \subseteq Block
  /\ pool \subseteq Tx /\ taken \subseteq Tx /\ black \subseteq Tx
  /\ clock \in Clock
  /\ pc \in Pcs /\ mode \in Modes
  /\ cur \in Block \cup {Genesis} /\ onb \subseteq Tx /\ done \in Nat
  /\ path \in Seq(Block) /\ disc \in Seq(Block) /\ nxt \in Nat \ {0} /\ pushed \in Nat
  /\ pushed <= Len(disc)
  /\ pc \in {"enter", "txs", "undo"} => cur \in Block
  /\ pc \in {"txs", "undo"} => done <= Len(TxsOf[cur])

\* m_db_spent_keys is exactly what the blocks of the chain spend, each key image
\* recorded at the height of its block: in the committed state, and in the view
\* of the writing thread, where the block in progress counts as far as it has
\* been processed.  (A view that is about to be aborted may be anything.)
SpentBy(b, n) == Stake[b] \cup UNION { KiTx[TxsOf[b][i]] : i \in 1..n }
CurKi == IF pc \in {"txs", "undo"} THEN SpentBy(cur, done) ELSE {}
Exact(c, s, extra) ==
  /\ \A i \in 1..Len(c) : \A k \in KiOf(c[i]) : s[k] = i
  /\ \A k \in extra : s[k] = Len(c) + 1
  /\ \A k \in Ki : s[k] # 0 => k \in extra \/ (s[k] <= Len(c) /\ k \in KiOf(c[s[k]]))
SpentExact ==
  /\ pc # "abort" => Exact(chain, spent, CurKi)
  /\ Exact(com.chain, com.spent, {})

\* No key image is spent twice in the committed chain, neither in two blocks nor
\* twice within one block.
NoDoubleSpend ==
  /\ \A i, j \in 1..Len(com.chain) :
       i # j => KiOf(com.chain[i]) \cap KiOf(com.chain[j]) = {}
  /\ \A i \in 1..Len(com.chain) : SpendsOnce(com.chain[i])

\* The branch of an alternative block, down to the first block above Genesis,
\* spends no key image twice: the blocks below the split are covered by the
\* spent table, the ones above it by the heap of alternative key images.
AltBranchSpendsOnce ==
  \A b \in alt : /\ \A i, j \in 1..Height(b) :
                      i # j => KiOf(Branch[b][i]) \cap KiOf(Branch[b][j]) = {}
                 /\ \A i \in 1..Height(b) : SpendsOnce(Branch[b][i])

\* Between two calls of add_new_block no alternative branch that connects to the
\* main chain is better than the main chain.
BestChain ==
  pc = "idle" => \A b \in alt : \A s \in Splits(b) :
                    ConnectsToMain(b, s) => ~ReorganizeRequired(Top, b)

\* Pushing the old main chain back as an alternative one never asks for a second
\* reorganisation ("Detected recursive reorganzie").
NoRecursiveReorganize ==
  pc = "push" /\ pushed < Len(disc) =>
    LET b == disc[pushed + 1] IN
      \A s \in Splits(b) : AltAccepts(b, TxSet(b), s) => ~ReorganizeRequired(Top, b)

\* Every transaction of an alternative block is at hand when the block is
\* connected ("for altblocks we should be sure that all transactions kept in
\* onboard_transactions").
SwitchHasTxs ==
  pc = "txs" /\ mode \in {"switch", "restore"} /\ done < Len(TxsOf[cur]) => CurTx \in onb \cup pool

\* When the rollback is over, the view is the one the reorganisation started
\* from: the assertions of rollback_blockchain_switching ("PANIC!!! failed to
\* add (again) block") never fail.
RollbackRestores == pc = "rolledback" => View = com

\* While a block is processed no transaction disappears from both the pool and
\* the main chain.
NoTxLost ==
  [][pc # "idle" => \A t \in Tx : t \in pool \/ txdb[t] # 0 => t \in pool' \/ txdb'[t] # 0]_vars

\* When transactions reach the node through the pool, a transaction of the
\* committed chain is not in the pool between two calls of add_new_block.
PoolDisjointMain == pc = "idle" => \A t \in pool : com.txdb[t] = 0

\* Once the committed chain has the checkpoint, it keeps its blocks up to it.
CheckpointFinal ==
  [][ CpHeight > 0 /\ CpHeight <= Len(com.chain) =>
        Len(com'.chain) >= CpHeight /\ SubSeq(com'.chain, 1, CpHeight) = SubSeq(com.chain, 1, CpHeight) ]_vars

\* An expectation the code does not meet when MaxAlt is 2: at the time connected
\* alternative blocks are erased, the iterators kept in alt_chain still point into
\* m_alternative_chains (pruning in the nested call may have removed them).
ErasedOnce == pc = "erase" \/ (pc = "push" /\ pushed = Len(disc)) => Elems(path) \subseteq alt

\* m_alternative_chains_txs counts, for each transaction, the alternative blocks
\* that contain it; remove_stuck_transactions relies on that.  Not met either when
\* MaxAlt is 2, for the same reason.
AltTxsCount == \A t \in Tx : altTxs[t] = Cardinality({ b \in alt : t \in TxSet(b) })

\* An erase through a dead iterator is the only step of insertions, prunings,
\* switches, rollbacks, faults and restarts that makes a right count wrong.
AltTxsExact == [][AltTxsCount /\ ErasedOnce => AltTxsCount']_vars

\* Another one, when MaxAlt is 1: an alternative block is refused for a key image
\* "already spent in altchain" only if another block of its branch or another input
\* of the block spends it (a pruned block may leave its key images in the heap).
RefusedOnlyIfSpent ==
  \A b \in Block : \A s \in Splits(b) :
    pc = "idle" /\ ~HaveBlock(b) /\ PrevKnown(b) /\ ConnectsToMain(b, s) =>
      \A k \in KiOf(b) : \A a \in Elems(AltPath(b, s)) :
        << k, a >> \in altKi => a # b /\ k \in KiOf(a)

\* The committed main chain behaves as the abstract ledger: one block more, or
\* a whole better branch at once, never a mixture of two branches, whatever
\* fails or is interrupted in between.
L == INSTANCE Ledger WITH ledger <- com.chain, Better <- ReorganizeRequired
LedgerSpec == L!Spec

\* Every call of add_new_block comes to an end.
CallEnds == (pc # "idle") ~> (pc = "idle")
=============================================================================
