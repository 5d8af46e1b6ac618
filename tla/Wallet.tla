------------------------------- MODULE Wallet -------------------------------
(***************************************************************************)
(* A wallet that follows a daemon: wallet2.cpp with its record of block    *)
(* ids (block_chain_shortener.cpp).                                        *)
(*                                                                         *)
(* The wallet pulls blocks from the daemon's main chain, follows its       *)
(* reorganisations, watches the pool, sends transactions and keeps its     *)
(* state in a file.  Every call of the wallet runs under its lock; between *)
(* two calls to the daemon the daemon's chain and pool may change.  An     *)
(* output stands for its key image and its amount: Ins are the outputs of  *)
(* this account a transaction spends, Outs the ones it pays to it.         *)
(***************************************************************************)
EXTENDS Integers, Sequences, FiniteSets, FiniteSetsExt, SequencesExt

CONSTANTS
  Blocks, Genesis, Parent, Weight,  \* the tree of blocks, as the daemon weighs it
  Txs,
  TxsOf,          \* the transactions of each block, the miner transaction first
  Coinbase,       \* the miner transactions
  Own,            \* transactions this wallet may send
  Ins, Outs,
  SpendableAge,   \* WALLET_DEFAULT_TX_SPENDABLE_AGE, 10 in the code
  RecentIds,      \* SHORTENER_EVERYBLOCK_SIZE, 20 in the code
  HistoryIds,     \* ids a short history takes one by one, 10 in the code
  Step,           \* beyond RecentIds every Step-th id is kept, every 10th in the code
  BatchSizes,     \* numbers of blocks an answer may hold (at most 500 in the code)
  ConciseDepth,   \* m_wallet_concise_mode_max_reorg_blocks, a week in the code
  MaxTrouble      \* bound on failed calls, restarts and transactions the pool loses

ASSUME TreeAssumption ==
  /\ Genesis \in Blocks /\ Parent \in [Blocks \ {Genesis} -> Blocks]
  /\ Weight \in [Blocks -> Nat]
  /\ \A b \in Blocks \ {Genesis} : Weight[b] > Weight[Parent[b]]
ASSUME TxsAssumption ==
  /\ Coinbase \subseteq Txs /\ Own \subseteq Txs \ Coinbase
  /\ \A b \in Blocks : TxsOf[b] \in Seq(Txs)
  /\ TxsOf[Genesis] = << >> /\ \A t \in Txs : IsFiniteSet(Outs[t])
  /\ \A t, u \in Txs : t # u => Outs[t] \cap Outs[u] = {}
ASSUME SizesAssumption ==
  /\ SpendableAge \in Nat /\ ConciseDepth \in Nat \ {0} /\ MaxTrouble \in Nat
  /\ HistoryIds \in Nat \ {0} /\ RecentIds \in Nat /\ RecentIds >= HistoryIds
  /\ Step \in Nat \ {0}
  /\ BatchSizes \subseteq Nat \ {0, 1} /\ BatchSizes # {}

VARIABLES
  w,       \* wallet2_base_state and the cache of free transfers
  job,     \* the refresh under way
  file,    \* the wallet file
  dtop,    \* top block of the daemon
  pool,    \* its transaction pool
  sent,    \* transactions of this account that were handed to the network
  aux      \* bound; (history) how the marks of pending transactions got loose

daemonVars == << dtop, pool, sent >>
vars == << w, job, file, dtop, pool, sent, aux >>

-----------------------------------------------------------------------------
(* Chains and what they hold for this account. *)

\* The chain that ends in b, without the genesis block: position h is height h.
Path[b \in Blocks] ==
  IF b = Genesis THEN << >> ELSE Append(Path[Parent[b]], b)
Height(b) == Len(Path[b])
TopOf(p) == IF p = << >> THEN Genesis ELSE p[Len(p)]

TxsAt(p, h) == ToSet(TxsOf[p[h]])
TxsOn(p) == UNION { TxsAt(p, h) : h \in 1 .. Len(p) }
Received(p) == UNION { Outs[t] : t \in TxsOn(p) }
Spent(p) == UNION { Ins[t] : t \in TxsOn(p) }
SpentAt(p, o) ==
  IF o \notin Spent(p) THEN 0
  ELSE CHOOSE h \in 1 .. Len(p) : \E t \in TxsAt(p, h) : o \in Ins[t]
ReceivedAt(p, o) ==
  CHOOSE h \in 1 .. Len(p) : \E t \in TxsAt(p, h) : o \in Outs[t]

\* A transaction some input of which is spent more than ConciseDepth blocks below
\* the top of p: it is older than CURRENCY_MEMPOOL_TX_LIVETIME (4 days against 7).
Buried(p, t) == \E o \in Ins[t] : SpentAt(p, o) # 0 /\ SpentAt(p, o) + ConciseDepth < Len(p)

\* A daemon's blocks hold valid transactions: none is on the chain already, and what each
\* spends was received before it and is not spent.
TxsBefore(b, i) == TxsOn(Path[Parent[b]]) \cup { TxsOf[b][j] : j \in 1 .. i - 1 }
ASSUME ValidAssumption ==
  \A b \in Blocks \ {Genesis} : \A i \in 1 .. Len(TxsOf[b]) :
    LET t == TxsOf[b][i]  before == TxsBefore(b, i)
    IN  /\ t \notin before
        /\ Ins[t] \subseteq UNION { Outs[u] : u \in before }
        /\ Ins[t] \cap UNION { Ins[u] : u \in before } = {}

-----------------------------------------------------------------------------
(* block_chain_shortener: the ids a wallet keeps of its chain. *)

Override(f, g) == [x \in DOMAIN f \cup DOMAIN g |-> IF x \in DOMAIN f THEN f[x] ELSE g[x]]
With(f, h, b) == [k \in DOMAIN f \cup {h} |-> IF k = h THEN b ELSE f[k]]
Below(f, h) == [k \in { j \in DOMAIN f : j < h } |-> f[k]]
Keep(f, n) == [k \in { j \in DOMAIN f : Cardinality({ i \in DOMAIN f : i > j }) < n } |-> f[k]]

NoIds == [size |-> 1, recent |-> << >>, tens |-> << >>]
DetachIds(c, h) == [size |-> h, recent |-> Below(c.recent, h), tens |-> Below(c.tens, h)]
PushId(c, b, h) ==
  [size |-> h + 1, recent |-> Keep(With(c.recent, h, b), RecentIds),
   tens |-> IF h % Step = 0 THEN With(c.tens, h, b) ELSE c.tens]

\* lookup_item_around: the nearest height at or below i whose id is kept, 0 for none
LookupAround(c, i) ==
  IF DOMAIN c.recent # {} /\ i >= Min(DOMAIN c.recent) THEN i
  ELSE IF DOMAIN c.tens # {} /\ i >= Min(DOMAIN c.tens) THEN i - (i % Step)
  ELSE 0
IdAt(c, h) ==
  IF h = 0 THEN Genesis ELSE IF h \in DOMAIN c.recent THEN c.recent[h] ELSE c.tens[h]

\* get_short_chain_history, as heights: the newest ids one by one, then ids ever
\* further apart as far down as any are kept.
History(c) ==
  LET newest == DOMAIN Keep(c.recent, HistoryIds)
      older[at \in Nat \X (Nat \ {0})] ==  \* at an offset from the end and with a gap
        LET item == LookupAround(c, c.size - at[1])
        IN  IF at[1] >= c.size \/ item = 0 THEN {}
            ELSE {item} \cup older[<< c.size - item + 2 * at[2], 2 * at[2] >>]
  IN  newest \cup older[<< Cardinality(newest) + 1, 1 >>]

-----------------------------------------------------------------------------
(* The wallet's records. *)

\* wallet2_base_state.  tr are the transfers by index: the output, the height it was
\* received at, whether it is marked as spent and the height of the spend; ki finds
\* the transfer of a key image; unc and inc are m_unconfirmed_txs and
\* m_unconfirmed_in_transfers; free is m_found_free_amounts, the cache of indices by
\* amount, which is not saved.  (history) seen are the blocks processed; due the outputs
\* whose mark the next on_idle clears: their spends were miner transactions that were
\* detached, or were removed by an on_idle that did not reach its end; revived, that an
\* output whose transfer was forgotten is unspent again or spent once more.
Fresh == [ids |-> NoIds, tr |-> << >>, ki |-> << >>, hist |-> {}, unc |-> << >>, inc |-> {},
          free |-> {}, resync |-> FALSE, seen |-> << >>, due |-> {}, revived |-> FALSE]
Idle == [at |-> "idle", resp |-> << >>, last |-> 0, matched |-> FALSE, added |-> FALSE,
         fetched |-> FALSE, resets |-> 0]

Outputs(s) == { s.tr[i].out : i \in DOMAIN s.tr }
Known(s, t) == { o \in Ins[t] : o \in DOMAIN s.ki }
Touches(s, t) == Known(s, t) # {} \/ Outs[t] # {}
Forgotten(s) == DOMAIN s.ki \ Outputs(s)
Pending(s) == DOMAIN s.unc
\* Outputs spent by the pending transactions that show as outgoing.
Reserving(unc) == UNION { Ins[t] : t \in { u \in DOMAIN unc : unc[u].outgoing } }
Marked(tr, which, flag) ==
  [i \in DOMAIN tr |-> IF i \in which THEN [tr[i] EXCEPT !.spent = flag] ELSE tr[i]]

\* process_new_transaction at height h.  The new outputs get the indices above the
\* highest one in use, in some order.
ProcessTx(s, t, h) ==
  LET hit   == { s.ki[o] : o \in Known(s, t) }
      new   == Outs[t] \ DOMAIN s.ki
      first == IF DOMAIN s.tr = {} THEN 0 ELSE Max(DOMAIN s.tr) + 1
      out   == CHOOSE f \in Bijection(first .. first + Cardinality(new) - 1, new) : TRUE
      fresh == [i \in DOMAIN out |-> [out |-> out[i], height |-> h, spent |-> FALSE, at |-> 0]]
      old   == [i \in DOMAIN s.tr |->
                  IF i \in hit THEN [s.tr[i] EXCEPT !.spent = TRUE, !.at = h] ELSE s.tr[i]]
  IN  [s EXCEPT
        !.unc = Restrict(@, DOMAIN @ \ {t}),
        !.resync = ~(hit \subseteq DOMAIN s.tr),
        !.tr = Override(fresh, old),
        !.ki = Override([o \in new |-> CHOOSE i \in DOMAIN out : out[i] = o], @),
        !.free = @ \cup { << i, out[i] >> : i \in DOMAIN out },
        !.hist = IF Touches(s, t)
                 THEN @ \cup {[tx |-> t, height |-> h, outgoing |-> hit # {}]} ELSE @]

\* process_new_blockchain_entry; an input whose transfer is gone (process_input_t)
\* ends it with the demand to scan everything again.
ProcessBlock(s, b, h) ==
  LET scan[i \in 0 .. Len(TxsOf[b])] ==
        IF i = 0 THEN s
        ELSE IF scan[i - 1].resync THEN scan[i - 1] ELSE ProcessTx(scan[i - 1], TxsOf[b][i], h)
      scanned == scan[Len(TxsOf[b])]
  IN  IF scanned.resync THEN scanned
      ELSE [scanned EXCEPT !.ids = PushId(@, b, h), !.seen = Append(@, b)]

\* detach_blockchain: transfers received at h or above are removed, spends at h or
\* above lose their height but not their mark, and what was in the removed history,
\* miner transactions apart, becomes pending again.
RollbackTransfers(s, h) ==
  LET gone == { i \in DOMAIN s.tr : s.tr[i].height >= h }
  IN  [s EXCEPT !.tr = Restrict(@, DOMAIN @ \ gone),
                !.ki = Restrict(@, DOMAIN @ \ { s.tr[i].out : i \in gone })]
RollbackSpends(s, h) ==
  [s EXCEPT !.tr = [i \in DOMAIN @ |-> IF @[i].at >= h THEN [@[i] EXCEPT !.at = 0] ELSE @[i]]]
Staked(es) == UNION { Ins[e.tx] : e \in { d \in es : d.tx \in Coinbase } }
Returned(es) == [t \in { e.tx : e \in es } |->
  [sel |-> {}, old |-> FALSE, outgoing |-> \E e \in es : e.tx = t /\ e.outgoing]]
\* (mutant) The detached transactions do not become pending.
RollbackHistoryForgets(s, h) ==
  LET back == { e \in s.hist : e.height >= h }
  IN  [s EXCEPT !.hist = @ \ back, !.due = @ \cup Staked(back)]
RollbackHistory(s, h) ==
  LET back == { e \in s.hist : e.height >= h }
  IN  [s EXCEPT !.hist = @ \ back,
                !.unc = Override(@, Returned({ e \in back : e.tx \notin Coinbase })),
                !.due = @ \cup Staked(back)]
SpendReturns(s, h) == \E o \in Forgotten(s) : SpentAt(s.seen, o) >= h
\* (mutant) The block at h stays.
DetachBlockchainAbove(s, h) ==
  LET r == RollbackHistory(RollbackSpends(RollbackTransfers(s, h + 1), h + 1), h + 1)
  IN  [r EXCEPT !.ids = DetachIds(@, h), !.seen = SubSeq(@, 1, h - 1),
                !.revived = @ \/ SpendReturns(s, h)]
DetachBlockchain(s, h) ==
  LET r == RollbackHistory(RollbackSpends(RollbackTransfers(s, h), h), h)
  IN  [r EXCEPT !.ids = DetachIds(@, h), !.seen = SubSeq(@, 1, h - 1),
                !.revived = @ \/ SpendReturns(s, h)]

\* (mutant) The record of block ids survives.
FullResetKeepsIds(s) == [Fresh EXCEPT !.unc = s.unc, !.free = s.free, !.ids = s.ids, !.seen = s.seen]
\* reset_all with the pending transactions put back.
FullReset(s) == [Fresh EXCEPT !.unc = s.unc, !.free = s.free]

NewPending(s, found) ==
  { t \in found \ (Pending(s) \cup { e.tx : e \in s.hist }) : Touches(s, t) }
Selected(s, t) == { s.ki[o] : o \in Known(s, t) }
\* (mutant) The outputs are not marked.
HandleUnconfirmedUnmarked(s, found) ==
  LET new == NewPending(s, found)
  IN  [s EXCEPT
        !.inc = @ \cup { t \in found : Touches(s, t) },
        !.unc = Override([t \in new |-> [sel |-> Selected(s, t), old |-> FALSE,
                                         outgoing |-> Selected(s, t) # {}]], @),
        !.revived = @ \/ \E t \in new : Ins[t] \cap Forgotten(s) # {}]
\* handle_unconfirmed_tx for transactions found in the pool or just sent.
HandleUnconfirmed(s, found) ==
  LET new == NewPending(s, found)
  IN  [s EXCEPT
        !.inc = @ \cup { t \in found : Touches(s, t) },
        !.unc = Override([t \in new |-> [sel |-> Selected(s, t), old |-> FALSE,
                                         outgoing |-> Selected(s, t) # {}]], @),
        !.tr = Marked(@, UNION { Selected(s, t) : t \in new }, TRUE),
        !.revived = @ \/ \E t \in new : Ins[t] \cap Forgotten(s) # {}]

\* scan_not_compliant_unconfirmed_txs: outdated transactions are removed and what they
\* selected is released, then every mark that no pending transaction explains.
Outdated(s) == { t \in Pending(s) : s.unc[t].old \/ Buried(s.seen, t) }
SelectedBy(s, T) == UNION { s.unc[t].sel : t \in T }
OnIdle(s) ==
  LET unc  == Restrict(s.unc, Pending(s) \ Outdated(s))
      tr   == Marked(s.tr, { i \in SelectedBy(s, Outdated(s)) : s.tr[i].at = 0 }, FALSE)
      idle == { i \in DOMAIN tr : tr[i].at = 0 /\ tr[i].out \notin Reserving(unc) }
  IN  [s EXCEPT !.unc = unc, !.tr = Marked(tr, idle, FALSE), !.due = {}]

\* (mutant) A spend is forgotten as soon as there is a block above it.
TruncateEarly(s) ==
  [s EXCEPT !.tr = [i \in { j \in DOMAIN @ :
      ~(@[j].spent /\ @[j].at # 0 /\ @[j].at < s.ids.size - 1) } |-> @[i]]]
\* truncate_wallet: transfers spent more than ConciseDepth blocks below the top
\* are forgotten, their key images are not.
Truncate(s) ==
  [s EXCEPT !.tr = [i \in { j \in DOMAIN @ :
      ~(@[j].spent /\ @[j].at # 0 /\ @[j].at + ConciseDepth < s.ids.size - 1) } |-> @[i]]]

-----------------------------------------------------------------------------
(* The daemon. *)

SpendsOf(T) == UNION { Ins[t] : t \in T }
Acceptable(t) ==
  /\ t \notin TxsOn(Path[dtop]) \cup pool
  /\ Ins[t] \subseteq Received(Path[dtop]) \ (Spent(Path[dtop]) \cup SpendsOf(pool))

\* The main chain grows or is replaced by a heavier one; the transactions that fall
\* out of it return to the pool.
Switch(b) ==
  LET old == Path[dtop]  new == Path[b]
      back == TxsOn(old) \ Coinbase
  IN  /\ Weight[b] > Weight[dtop]
      /\ (TxsOn(new) \cap Own) \subseteq sent
      /\ dtop' = b
      /\ pool' = { t \in (pool \cup back) \ TxsOn(new) : ~Buried(new, t) }
      /\ UNCHANGED << w, job, file, sent, aux >>

\* A transaction reaches the pool from the network: another wallet's, another copy of
\* this wallet's, or one of this wallet's own, relayed again (resend_unconfirmed).
Arrive(t) ==
  /\ t \in (Txs \ (Coinbase \cup Own)) \cup sent
  /\ Acceptable(t) /\ ~Buried(Path[dtop], t)
  /\ pool' = pool \cup {t}
  /\ UNCHANGED << w, job, file, dtop, sent, aux >>

Trouble == aux.trouble < MaxTrouble
Troubled == [aux EXCEPT !.trouble = @ + 1]

\* The pool gives a transaction up.
PoolDrops(t) ==
  /\ Trouble /\ t \in pool
  /\ pool' = pool \ {t}
  /\ aux' = Troubled
  /\ UNCHANGED << w, job, file, dtop, sent >>

-----------------------------------------------------------------------------
(* refresh *)

\* (history) The marks of pending transactions got loose when the wallet went from s
\* to s2: an output one of them spends went with its block or with a full reset.
LoosenedBy(s, s2) ==
  [aux EXCEPT !.loose = @ \/ s2.revived
                \/ (DOMAIN s.ki \ DOMAIN s2.ki) \cap SpendsOf(Pending(s2)) # {}]

BeginRefresh ==
  /\ job.at = "idle"
  /\ job' = [Idle EXCEPT !.at = "pull"]
  /\ UNCHANGED << w, file, daemonVars, aux >>

\* pull_blocks: the short history is sent and answered (find_blockchain_supplement)
\* with blocks from the highest id the main chain has; handle_pulled_blocks begins.
PullBlocks ==
  LET chain == << Genesis >> \o Path[dtop]
      start == Max({ h \in {0} \cup History(w.ids) :
                       h < Len(chain) /\ chain[h + 1] = IdAt(w.ids, h) })
      new   == start = 0 /\ w.ids.size = 1
  IN  /\ job.at = "pull"
      /\ \E n \in BatchSizes :
           LET last == IF start + n < Len(chain) THEN start + n ELSE Len(chain)
           IN  job' = [job EXCEPT !.at = "blocks", !.last = 0, !.matched = new, !.added = FALSE,
                                  !.resp = SubSeq(chain, IF new THEN 2 ELSE start + 1, last)]
      /\ UNCHANGED << w, file, daemonVars, aux >>

\* The daemon does not answer: refresh returns at once after four attempts.
PullFails ==
  /\ job.at = "pull" /\ Trouble
  /\ job' = Idle
  /\ aux' = Troubled
  /\ UNCHANGED << w, file, daemonVars >>

\* The daemon is busy, or the user stops the refresh: the loop ends.
PullStopped ==
  /\ job.at \in {"pull", "blocks"} /\ Trouble
  /\ job' = [job EXCEPT !.at = "finish", !.resp = << >>, !.fetched = @ \/ job.added]
  /\ aux' = Troubled
  /\ UNCHANGED << w, file, daemonVars >>

Block == Head(job.resp)
Handling == job.at = "blocks" /\ job.resp # << >>
Regular == Height(Block) = w.ids.size /\ job.matched
\* check_if_block_matched: the id at the block's height is kept and is the block's.
Matches(c, b) ==
  LookupAround(c, Height(b)) = Height(b) /\ IdAt(c, Height(b)) = b
NeverMatched(c, b) == b # Genesis /\ LookupAround(c, Height(b)) = 0

\* full_reset_needed, or wallet_error_resync_needed: refresh goes on from the genesis block,
\* and gives up the third time.
ResetAndPull(s) ==
  /\ w' = FullReset(s)
  /\ job' = IF job.resets > 1 THEN Idle
            ELSE [job EXCEPT !.at = "pull", !.resp = << >>, !.resets = @ + 1]
  /\ aux' = LoosenedBy(w, FullReset(s))

\* The block is processed on top of the wallet in state s.
Attach(s) ==
  LET done == ProcessBlock(s, Block, Height(Block))
  IN  IF done.resync THEN ResetAndPull(done)
      ELSE /\ w' = done
           /\ job' = [job EXCEPT !.resp = Tail(@), !.added = TRUE, !.matched = TRUE]
           /\ aux' = LoosenedBy(w, s)

AttachBlock ==
  /\ Handling /\ Regular
  /\ Attach(w)
  /\ UNCHANGED << file, daemonVars >>

MatchBlock ==
  /\ Handling /\ ~Regular /\ Matches(w.ids, Block)
  /\ job' = [job EXCEPT !.resp = Tail(@), !.matched = TRUE, !.last = Height(Block)]
  /\ UNCHANGED << w, file, daemonVars, aux >>

\* (mutant) The first block above the last match stays.
ReorganizeAbove ==
  LET last == IF NeverMatched(w.ids, Block) THEN 0 ELSE job.last
  IN  /\ Handling /\ ~Regular /\ ~Matches(w.ids, Block)
      /\ job.matched \/ NeverMatched(w.ids, Block)
      /\ IF w.ids.size - last > ConciseDepth THEN ResetAndPull(w)
         ELSE Attach(DetachBlockchain(w, last + 2))
      /\ UNCHANGED << file, daemonVars >>
\* A block that is not the wallet's: everything above the last match is detached, or,
\* when that is too deep for a wallet in concise mode, the wallet is reset.
Reorganize ==
  LET last == IF NeverMatched(w.ids, Block) THEN 0 ELSE job.last
  IN  /\ Handling /\ ~Regular /\ ~Matches(w.ids, Block)
      /\ job.matched \/ NeverMatched(w.ids, Block)
      /\ IF w.ids.size - last > ConciseDepth THEN ResetAndPull(w)
         ELSE Attach(DetachBlockchain(w, last + 1))
      /\ UNCHANGED << file, daemonVars >>

PullEnds ==
  /\ job.at = "blocks" /\ job.resp = << >>
  /\ job' = [job EXCEPT !.at = IF job.added THEN "pull" ELSE "finish", !.fetched = @ \/ job.added]
  /\ UNCHANGED << w, file, daemonVars, aux >>

\* The end of refresh: when blocks came, on_idle, the cache of free transfers is
\* cleared and the wallet is truncated.  An index that is not there any more makes
\* on_idle throw, after it removed some of the outdated transactions and released some
\* of what the one at fault selected.
FinishRefresh ==
  LET stale == { t \in Outdated(w) : ~(w.unc[t].sel \subseteq DOMAIN w.tr) }
      left  == Pending(w) \ Outdated(w)
  IN  /\ job.at = "finish"
      /\ job' = Idle
      /\ IF job.fetched /\ stale = {}
         THEN /\ w' = Truncate([OnIdle(w) EXCEPT !.free = {}])
              /\ aux' = [aux EXCEPT !.loose = @ \/
                   \E i \in SelectedBy(w, Outdated(w)) :
                      w.tr[i].at = 0 /\ w.tr[i].out \in SpendsOf(left)]
         ELSE /\ UNCHANGED aux
              /\ IF job.fetched
                 THEN \E T \in SUBSET (Outdated(w) \ stale), t \in stale :
                      \E J \in SUBSET (w.unc[t].sel \cap DOMAIN w.tr) :
                        w' = [w EXCEPT
                          !.unc = Restrict(@, Pending(w) \ T),
                          !.tr = Marked(@, { i \in SelectedBy(w, T) \cup J : @[i].at = 0 }, FALSE),
                          !.due = @ \cup SpendsOf(T)]
                 ELSE w' = w
      /\ UNCHANGED << file, daemonVars >>

-----------------------------------------------------------------------------
(* The other calls. *)

\* scan_tx_pool: transactions seen the last time are skipped.  A key image whose
\* transfer was forgotten makes it throw; what is left of the last scan is lost.
ScanTxPool ==
  LET seen == w.inc \cap pool
      bad  == { t \in pool \ seen : \E o \in Known(w, t) : w.ki[o] \notin DOMAIN w.tr }
      Scan(T) == HandleUnconfirmed([w EXCEPT !.inc = seen \cap T], T \ seen)
  IN  /\ job.at = "idle"
      /\ \E T \in SUBSET pool :
           /\ T \cap bad = {} /\ (bad = {} => T = pool)
           /\ w' = Scan(T)
           /\ aux' = [aux EXCEPT !.loose = @ \/ w'.revived \/
                \E t \in Pending(w') \ Pending(w) : ~(Ins[t] \subseteq DOMAIN w.ki)]
      /\ UNCHANGED << job, file, daemonVars >>

Ready(i) == ~w.tr[i].spent /\ w.tr[i].height + SpendableAge <= w.ids.size
\* prepare_free_transfers_cache
FreeCache ==
  IF w.free # {} THEN w.free
  ELSE { << i, w.tr[i].out >> : i \in { j \in DOMAIN w.tr : ~w.tr[j].spent } }

\* transfer: entries are taken from the cache until those that are ready cover the amount.
\* The transaction spends the transfers at their indices, which must be the outputs
\* that were counted.  The answer of the daemon may be lost after it took the transaction.
Transfer(t) ==
  /\ job.at = "idle" /\ t \in Own \ sent
  /\ Acceptable(t)
  /\ \E P \in SUBSET FreeCache :
       LET picked == { e \in P : e[1] \in DOMAIN w.tr /\ Ready(e[1]) }
           sel    == { e[1] : e \in picked }
       IN  /\ \A e \in P : e[1] \in DOMAIN w.tr
           /\ { e[2] : e \in picked } = Ins[t] /\ \A e \in picked : w.tr[e[1]].out = e[2]
           /\ \/ /\ w' = [HandleUnconfirmed([w EXCEPT !.tr = Marked(@, sel, TRUE),
                                                       !.free = FreeCache \ P], {t})
                           EXCEPT !.unc[t].sel = sel]
                 /\ UNCHANGED aux
              \/ /\ Trouble /\ aux' = Troubled
                 /\ w' = [w EXCEPT !.free = {}]
  /\ pool' = pool \cup {t}
  /\ sent' = sent \cup {t}
  /\ UNCHANGED << job, file, dtop >>

\* transfer ends with an exception before or in the call to the daemon: not enough
\* money, an index that is gone, a refused transaction, no connection.  The marks
\* are taken back and the cache is cleared.
TransferFails ==
  /\ job.at = "idle" /\ w.free # {}
  /\ w' = [w EXCEPT !.free = {}]
  /\ UNCHANGED << job, file, daemonVars, aux >>

\* CURRENCY_MEMPOOL_TX_LIVETIME passes for a pending transaction.
Outdate(t) ==
  /\ t \in Pending(w) /\ ~w.unc[t].old
  /\ w' = [w EXCEPT !.unc[t].old = TRUE]
  /\ UNCHANGED << job, file, daemonVars, aux >>

Store ==
  /\ job.at = "idle" /\ Trouble
  /\ file' = [w EXCEPT !.free = {}]
  /\ UNCHANGED << w, job, daemonVars, aux >>

\* The wallet stops without saving and is loaded again.
Restart ==
  /\ Trouble /\ aux' = Troubled
  /\ w' = file
  /\ job' = Idle
  /\ UNCHANGED << file, daemonVars >>

-----------------------------------------------------------------------------

Init ==
  /\ w = Fresh /\ job = Idle /\ file = Fresh
  /\ dtop = Genesis /\ pool = {} /\ sent = {}
  /\ aux = [trouble |-> 0, loose |-> FALSE]

RefreshStep ==
  \/ PullBlocks \/ AttachBlock \/ MatchBlock \/ Reorganize \/ PullEnds \/ FinishRefresh

Next ==
  \/ \E b \in Blocks : Switch(b)
  \/ \E t \in Txs : Arrive(t) \/ PoolDrops(t) \/ Transfer(t) \/ Outdate(t)
  \/ BeginRefresh \/ RefreshStep \/ PullFails \/ PullStopped
  \/ ScanTxPool \/ TransferFails \/ Store \/ Restart

Spec == Init /\ [][Next]_vars

\* The idle loop of the wallet calls refresh again and again (wallet_rpc_server.cpp,
\* wallets_manager.cpp), and refresh goes on as long as the daemon answers.
FairSpec == Spec /\ WF_vars(BeginRefresh) /\ WF_vars(RefreshStep)

-----------------------------------------------------------------------------
(* Properties *)

Outer == UNION { Outs[t] : t \in Txs }

\* Type invariant.
RecordOK(s) ==
  /\ s.ids.size \in Nat \ {0} /\ DOMAIN s.ids.recent \subseteq 1 .. s.ids.size - 1
  /\ DOMAIN s.ids.tens \subseteq 1 .. s.ids.size - 1
  /\ \A i \in DOMAIN s.tr : i \in Nat /\
       s.tr[i] \in [out : Outer, height : 1 .. s.ids.size - 1, spent : BOOLEAN, at : 0 .. s.ids.size - 1]
  /\ DOMAIN s.ki \subseteq Outer /\ DOMAIN s.unc \subseteq Txs \ Coinbase /\ s.inc \subseteq Txs
  /\ s.free \subseteq Nat \X Outer /\ ~s.resync
  /\ \A e \in s.hist : e.height \in 1 .. s.ids.size - 1

\* What the wallet holds, and what it has saved, is well formed: no spend, history
\* entry or block id lies above the wallet's chain, no miner transaction is pending.
TypeOK ==
  /\ RecordOK(w) /\ RecordOK(file)
  /\ job.at \in {"idle", "pull", "blocks", "finish"} /\ ToSet(job.resp) \subseteq Blocks
  /\ dtop \in Blocks /\ pool \subseteq Txs \ Coinbase /\ sent \subseteq Own
  /\ aux.trouble \in 0 .. MaxTrouble /\ aux.loose \in BOOLEAN

\* However the daemon reorganises between two pulls, and wherever a refresh is cut off
\* or a saved wallet is loaded again, the blocks the wallet has processed are one chain
\* from the genesis block, and the sparse ids it keeps are those of that chain
\* (handle_pulled_blocks finds the last common block by them).
ChainExact ==
  /\ w.seen = Path[TopOf(w.seen)]
  /\ w.ids.size = Len(w.seen) + 1
  /\ \A h \in DOMAIN w.ids.recent : w.seen[h] = w.ids.recent[h]
  /\ \A h \in DOMAIN w.ids.tens : w.seen[h] = w.ids.tens[h]

\* What detaching, resetting, truncating and processing leave of the transfers is what
\* a scan of the wallet's chain from nothing would find: every output is there once,
\* with the height it was received at and the height it is spent at, found by its key
\* image, except that a spent one may have been truncated.  Reorganisations that are
\* each less than ConciseDepth deep but together deeper, and a pool that spends a
\* truncated output again, are the exception.
TransfersExact ==
  \/ w.revived
  \/ /\ \A i \in DOMAIN w.tr :
          LET r == w.tr[i]
          IN  /\ r.out \in Received(w.seen) /\ r.height = ReceivedAt(w.seen, r.out)
              /\ r.at = SpentAt(w.seen, r.out) /\ (r.at # 0 => r.spent)
              /\ w.ki[r.out] = i
     /\ \A o \in Received(w.seen) \ Outputs(w) : SpentAt(w.seen, o) # 0
     /\ DOMAIN w.ki = Received(w.seen)

\* detach_blockchain leaves the mark of a spend that is no longer in the chain because
\* the transaction is most likely in the pool, and moves it to m_unconfirmed_txs "for
\* clearing in future": no money stays marked as spent for ever, a mark without a
\* height is always explained by a pending outgoing transaction, or is due to be
\* cleared by the next on_idle (a miner transaction was detached, or an on_idle did not
\* reach its end).  The exception is that of TransfersExact.
MarkExplained ==
  w.revived \/ \A i \in DOMAIN w.tr : w.tr[i].spent /\ w.tr[i].at = 0 =>
                 w.tr[i].out \in Reserving(w.unc) \cup w.due

\* As long as the wallet has not lost an output a pending transaction spends (with its
\* block or by a full reset), has not seen a spend before its output, a truncated
\* output has not come back to life, and no outdated
\* transaction shared an output with a pending one, every output a pending transaction
\* spends is marked as spent, so that it is not selected for another transaction.
Reserved ==
  aux.loose \/ \A i \in DOMAIN w.tr : w.tr[i].out \in SpendsOf(Pending(w)) => w.tr[i].spent

\* Under the same condition the indices a pending transaction selected are still those
\* of its inputs when scan_not_compliant_unconfirmed_txs releases them.
SelectionValid ==
  aux.loose \/ \A t \in Pending(w) : \A i \in w.unc[t].sel :
     i \in DOMAIN w.tr /\ w.tr[i].out \in Ins[t]

\* Whatever happened before, once the daemon's chain rests the wallet follows it to
\* its top and stays there.
CatchesUp == <>[](TopOf(w.seen) = dtop)
=============================================================================
