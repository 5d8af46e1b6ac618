# Verification of the Zano node

TLA+ modules for the parts of Zano that several threads, several nodes or
several runs of a program share: how blocks are accepted and the node switches
between chains, the database, cache and lock under it, the transaction pool and
the block template, synchronisation with peers, the connection that carries it,
and the wallet that follows a daemon. Paths below are those of the repository;
`currency_core/` stands for `src/currency_core/`, `common/` for `src/common/`,
`epee/` for `contrib/epee/include/`.

## 1. The system

| Part | State | Operations | Interacts with |
|---|---|---|---|
| `epee/readwrite_lock.h` | owner of `exclusive_lock`, `readers_count`, per-thread recursion | `lock`, `unlock`, `lock_shared`, `unlock_shared` | taken shared by every reader of the chain, exclusively by commit and abort |
| `common/db_abstract_accessor.h`, `db_backend_lmdb.cpp`, `epee/cache_helper.h` | content, nested write transactions, per-container cache and size cache, the thread the cache is isolated for | `begin/commit/abort_transaction`, `get`, `set`, `erase`, `clear`, `size` | used by the chain and by the pool, each with its own database and lock |
| `currency_core/blockchain_storage.cpp` | blocks, transactions, spent key images (database); alternative blocks, their key images and transaction counts, invalid blocks (memory) | `add_new_block`, `handle_alternative_block`, `switch_to_alternative_blockchain`, `rollback_blockchain_switching`, `handle_block_to_main_chain`, `prune_aged_alt_blocks`, `truncate_blockchain` | takes transactions from the pool and returns them |
| `currency_core/checkpoints.cpp` | heights and block ids | zone tests, `check_block` | consulted on both chains |
| `currency_core/tx_pool.cpp` | transactions, key image index, taken set, black list | `add_tx`, `take_tx`, `remove_stuck_transactions`, `fill_block_template` | filled by the network threads while a block is processed |
| `currency_core/currency_core.cpp` | - | `handle_incoming_tx`, `handle_incoming_block` | entry points of the two kinds of threads |
| difficulty, reward, size median | windows of blocks | `next_difficulty_*`, `get_block_reward` | called by both acceptance paths |
| aliases, assets, gateway addresses | histories per name or id | put, update, undo | inside `add_transaction_from_block` |
| `currency_protocol/currency_protocol_handler.inl` | per connection: state, ids and blocks still needed, blocks requested, counters of expected responses, last ids fetched; for the node: whether it is synchronised | `process_payload_sync_data`, `on_callback`, handlers of the chain, object and new-block messages, `request_missing_objects`, `on_idle` | asks and feeds the core, carried by a connection |
| `p2p/` | connections, peer lists | handshake, timed sync, ping, drop | carries the protocol |
| `epee/net/levin_protocol_handler_async.h`, `abstract_tcp_server2.inl` | waiting calls and their timers, the buffer of a synchronous call, send queue, references, flags of shutdown and close | `async_invoke`, `invoke`, `notify`, `handle_recv`, `do_send`, `shutdown`, `close` | under p2p and every RPC that uses levin |
| `wallet/wallet2.cpp`, `currency_core/block_chain_shortener.cpp` | transfers and their flags, key image index, pending transactions, history, some ids of the chain processed so far, a file | `refresh`, `scan_tx_pool`, `detach_blockchain`, `transfer`, `store`, `load`, `truncate_transfers_and_history` | pulls blocks and the pool from a daemon that reorganises meanwhile |
| miner, stratum, RPC, GUI, cryptography | | | around the core |

What makes it hard: a reorganisation takes one chain apart and builds another
inside one database transaction, while half of the state it touches (the
alternative chains, the set of invalid blocks, the pool's own database) is
outside that transaction; any step may fail; the functions call each other
recursively; and readers on other threads share a cache with the one writer.
The pool is checked and changed by five kinds of threads that share no lock over
a whole operation. A peer's chain changes between two of its answers. A
connection is used, timed out, closed and destroyed by different threads. A
wallet sees its daemon's chain in pieces and may be stopped between any two.

What makes each part correct:

* lock: exclusive scopes exclude, wakeups are not lost, the writer gets in;
* database: no stale value in the cache, one state throughout a reader's scope;
* chain: tables agree with the blocks, no key image twice, all-or-nothing
  replacement of the chain by a better one, checkpoints final, every call ends;
* pool: no transaction lost between pool and chain, none in both, no coin
  reserved by a transaction that is gone, templates that can be mined;
* synchronisation: one request at a time on each connection, honest peers are
  kept, the node ends up with the best chain it is offered;
* connection: one answer to each call, and its own; packets whole; close closes;
  nothing is used after it was destroyed;
* wallet: what it holds is what a scan of its chain from nothing would find,
  outputs in use are marked and no others, it catches up with its daemon.

## 2. Modules

| Module | Contents |
|---|---|
| `SharedRecursiveMutex` | the lock, one action per region of `cv_mutex` |
| `DbAccessor` | one cached container, its transactions, and the lock reduced to what `SharedRecursiveMutex` guarantees |
| `BlockchainStorage` | `add_new_block` and everything it calls, with the pool's part and the other threads |
| `Ledger` | what readers of the committed chain may rely on; `BlockchainStorage` implements it |
| `TxPool` | the pool, step by step, under the block thread, the receiving thread, the idle thread, a miner and an operator |
| `CurrencyProtocol` | block synchronisation with several peers |
| `Levin` | one levin connection over `connection<t_protocol_handler>` |
| `Wallet` | a wallet that follows a daemon |
| `MC...` | instances for TLC |
| `...Proofs` | theorems about the module of that name |
| `ReorganizationProofs` | theorems about the reorganisation in `BlockchainStorage`, on top of `BlockchainStorageProofs` |

### SharedRecursiveMutex

`owner`/`held` are `exclusive_lock`, `recursion`/`isWriter` the per-thread
record of `ptc`, `waiting` the queue of `cv`. `unlock_shared` is three actions,
since it reads `readers_count` again after leaving `cv_mutex` and notifies
later still. A thread's scopes form a stack, because all callers use scoped
regions. `LockThrows` is the forbidden upgrade, which leaves `exclusive_lock`
locked.

### DbAccessor

`db` is the last commit, `wtx` the stack of views of the writer's nested
transactions, `snap` a thread's read-only transaction, of an
enumeration or of the pool. `get` is three steps
(cache, database, cache) because other threads run in between; `set` and `erase`
are one step because only the writer, which has the cache for itself, could
tell. Commit and abort are three steps: `LockForEnd` asks for the read-write
lock and keeps new readers out, `CommitDb`/`AbortDb` wait for the readers inside
and also free the backend's write lock, `EndCommit`/`EndAbort` tell the
containers. `Guarded` threads read inside scopes, as the users of
`blockchain_storage` do; with `Guarded = {}` the module is the pool's database,
whose lock (`m_dummy_rw_lock`) nobody takes shared. The evicted cache entry may
be any but the new one, which includes the least recently used.

### BlockchainStorage

The block tree is a parameter (`Parent`, `Branch`, `TxsOf`, `KiTx`, `Stake`), and
so is the verdict of every check that depends on the block alone (`BadCoinbase`,
`BadWork`, `BadReward`, `BadSize`, `BadProof`, `BadInputs`). `chain`, `txdb`
and `spent` are the writer's view, `com` the last commit. `pc` says where
`add_new_block` is and `mode` to which of its three callers
`handle_block_to_main_chain` returns; each block, each transaction and each undone
transaction is a step, so that an exception (`Throw`, `ThrowPush`), a crash,
another thread's transaction (`IncomingTx`), a change of the clock (`SetClock`)
or an operator's `ClearAltblocks` can fall anywhere in between. `ReceiveMain` and
`ReceiveAlt` take a block with all its transactions or with none (`Onboard`);
mode `"sim"` is the simulation used for templates. Blocks that are refused at
the door change nothing and are not steps. `Splits` is the loop that follows
alternative blocks down to the main chain; `PruneChoices` leaves open which of
the alternative blocks are the oldest, because the time stamps have a resolution
of a second. `AltAccepts` ends with the insertion into `m_alternative_chains`,
which fails for a block that is there already (2369-2370): a rollback can push
back a block that the switch had not yet erased. A switch keeps iterators to the
blocks of its path while pushing the old ones back may prune these very blocks
(`PruneIfMany`, 2418-2424). `ErasedThrough` is what it then erases (1527-1530): the
blocks still there, and through each dead iterator what the build makes of it, the
pruned block once more (its transactions are counted off again), another entry, or
nothing. Nothing is pruned before a failed switch (1494-1498) erases.
`PruneAltBlocks` is the pruning by `core::on_idle`; that it may also fall between the
end of a block's processing and its commit, where `m_read_lock` is not held, is left
out.

The fork choice is the one before hard fork 1 (`is_reorganize_required`,
2476-2494). `Genesis` stands for a chain long enough for the time stamp check on
alternative blocks to be active.

`Ledger` has one variable, the committed chain, and three steps: append a block
to the tip, replace the whole chain by the branch of a preferred block, and the
operator's truncation. `LedgerSpec` is that specification with
`ledger <- com.chain`.

### TxPool

`BlockchainStorage` has the pool as block processing sees it, where an incoming
transaction is one step. `TxPool` turns this round: the chain is reduced to a
block thread that takes, returns, commits and fails, and the pool's own
operations are taken apart. `add_tx` (`net`) is a step for each thing it reads
(taken set, chain, key images, inputs) and one for the insertion, which is a
write transaction of the pool's database. `remove_stuck_transactions` (`idle`)
collects and deletes in two steps. `fill_block_template` (`tmpl`) works on
copies of the entries, judges each against the chain of the moment, and writes
back what it found out about it. `purge` is the operator's reset, between the
clearing of the transactions and of the index. `CanWrite` is the write lock of
the pool's database. A pool entry is what decides about it later (`Details`):
whether it came with a block, the block its inputs refer to, where it last
failed. `Depth`, `MinCoinage` and `MaxPool` are constants of the code. `net.back` is
a history variable: whether another thread has put the transaction that the
receiving thread works on into the pool since that thread looked for it.

### CurrencyProtocol

`ctx` is `currency_connection_context`, `job` a handler that is handing blocks to
the core one by one, `wire` the messages of a connection in both directions,
`peer` the top blocks of the peers. The peers run the same code; of them only
their answers matter (`Answer`), taken from the main chain of the moment, so that a
change between two answers is just a step. The node's own chain is a set of
known blocks and a top; how blocks are validated and chains switched is
`BlockchainStorage`. Ids are picked as in `get_short_chain_history` and
`block_chain_shortener` (`Sampled`). Handlers of different connections
interleave; those of one connection do not (strand). `OneConversation` counts what a
connection waits for (`Waits`: callbacks due, requests and answers on the wire,
blocks being added) and has one exception (`Stuck`), the state in which
`request_missing_objects` fails its last assertion. A lost link, a peer that
changes to a heavier chain and a block that fails verification share the budget
`MaxTrouble`.

### Levin

A step ends where a lock is taken or released, or where a flag that another
thread uses is read or written. A call goes from `idle` through `ref` (reference
taken), `head`, `add` (its handler is entered), `body` to `sent` or `wait`.
`timer` distinguishes an expired timer whose handler is queued (`due`) from a
running one, since only the latter can be cancelled; `closer` is a thread
between the two halves of `close`. The peer answers each request once or
never, in order. `m_call_lock` is a recursive mutex, and an invoke that waits runs
other handlers on its thread (`call_run_once_service_io`, 688). `under[c]` is the
waiting invoke on whose thread a handler makes the call `c`, if any: `c` then passes
the lock (`Enter`), clears `m_invoke_buf_ready` unless it is a notification, and the
invoke goes on when `c` has ended (`Busy`), with whatever it then finds in flag and
buffer. Handlers that make no call on this connection do the same on the waiting
thread as on another one.

### Wallet

`w` is `wallet2_base_state`: `seen` the blocks processed (a history variable, the
wallet itself has `ids`, the sparse record of `block_chain_shortener`), `tr` the
transfers by index, `ki` the index by key image, `unc` the pending transactions
with the indices they selected, `hist` the history. New outputs get the indices
above the highest one in use, as `m_transfers` does, so that after a truncation or
a detached block an index may be used again. `job` is a refresh under way: it asks
for blocks with a short history, processes the answer block by block, and ends with
`on_idle` (`OnIdle`) and the truncation; an index that is gone makes `on_idle` throw
after part of its work, and `FinishRefresh` leaves open which part. The daemon
(`dtop`, `pool`) moves at any time, over blocks whose transactions are valid
(`ValidAssumption`): none is twice on a chain, and each spends outputs received
before it and not spent yet. `file` is the stored wallet; a restart loads it.
`Transfer` has the outcomes that matter: accepted, refused, and accepted with the
answer lost. Two more history fields of `w` say why a record is not what a scan would
give: `due` has the outputs whose mark stays until the next `on_idle` although nothing
spends them, `revived` says that the spend of a forgotten (truncated) output was
detached or that a transaction of the pool spends such an output.

## 3. Runs

| Run | Expected | Distinct states | Shows |
|---|---|---|---|
| `rwlock` | pass | 3,107 | `TypeOK`, `MutualExclusion`, `NoLostWakeup`, `WriterGetsIn`: three threads, scopes nested three deep, one thread that tries the upgrade |
| `chain_faults` | pass | 335,080 | `SpentExact`, `NoDoubleSpend`, `AltBranchSpendsOnce`, `AltTxsExact`, `LedgerSpec`, with exceptions and crashes at every step, truncation, and pruning also of blocks that a switch is using |
| `chain_safety` | pass | 23,658 | `BestChain`, `NoRecursiveReorganize`, `SwitchHasTxs`, `RollbackRestores`, `NoTxLost`, `CallEnds`, over all block shapes |
| `chain_pool` | pass | 8,700 | `PoolDisjointMain`, `CheckpointFinal` |
| `db_guarded` | pass | 183,968 | `Coherent`, `RepeatableRead`, `IsolationFree` for the chain's database |
| `txpool` | pass | 791,653 | `IndexSound`, `StuckNotAlt`, `NoKnownTxAdmitted`, `TemplateValid`, with exceptions and crashes of the block thread |
| `levin` | pass | 219,536 | `NoUseAfterDestroy`, `CallbackOnce`, `AnswerMatches`, `PacketsWhole`, `CallsEnd`, `CloseEffective` |
| `sync` | pass | 138,759 | `OneConversation`, `ExpectationsExact`, `NoHonestDrop`, `CaughtUp` |
| `wallet` | pass | 870,217 | `ChainExact`, `TransfersExact`, `MarkExplained`, `Reserved`, `SelectionValid` |
| `wallet_live` | pass | 195,445 | `CatchesUp`, on a chain long enough for gaps in the record of ids |
| `sync_stall` | violation | | a peer whose chain gets shorter by one between two answers |
| `reorg_clock` | violation | | a rollback that fails because the clock was set back |

`chain_safety` excludes faults and clock changes because its properties do not
survive them: an exception inside the switch leaves a better branch among the
alternative blocks, and a clock that is set back breaks `RollbackRestores`
(`reorg_clock`). In `chain_pool` the clock moves both ways at any step, but no
switch of that instance fails. With one that does (`b2` with a wrong
reward, say) and a clock set back before the rollback has connected the last old
block, the rollback fails too; the abort brings the old chain back, while the
pool, in a database of its own, keeps the transactions of the disconnected blocks.
`PoolIsDisjoint` below therefore asks for a clock that only moves forward.
`PoolDisjointMain` and `NoKnownTxAdmitted` are about transactions that arrive
through the pool: a block that brings its own can meet the same transaction
arriving separately, and the pool then keeps it until
`remove_stuck_transactions` drops it; `TemplateValid` holds for these too.

Some properties have an exception written into them, because the code has it:
`WriterGetsIn` excepts behaviours in which the upgrade has thrown;
`CloseEffective` excepts the race in which the last write completes between the
two halves of `close` and the connection stays open until the peer sends
something; `AltTxsExact` excepts everything from the first erasure through a dead
iterator on; `AnswerMatches` excepts connections on which a handler has made a call
under a waiting invoke; `Reserved` and `SelectionValid` except wallets in which a pending
transaction has lost an output it spends, with its block or by a full reset, or
shared one with an outdated transaction (`aux.loose`). `TransfersExact` and
`MarkExplained` except `revived`. A wallet in concise mode forgets an output spent
more than `m_wallet_concise_mode_max_reorg_blocks` below its top
(`wallet2.cpp:3835`) and scans everything again when one reorganisation is deeper
than that (`:2041`). Two reorganisations that are each within the limit, the second to
a block below the first one's, are together deeper: the second detaches the spend of an
output that is in `m_transfers` no more, its key image still leads to an index that
is missing or was given to another output, and an unspent output is not counted
until something asks for a scan from the start. TLC finds this in the `wallet` instance when
`w.revived` is taken out of `TransfersExact`.

`TypeOK` of the other modules states the types of their variables; it is proved
for `BlockchainStorage`, `DbAccessor`, `TxPool`, `Levin`, `CurrencyProtocol` and
`Wallet`, and holds in the instances above when it is added to their configurations.

### Bounds

The block tree of `MCBlockchainStorage` has two branches of three blocks, a fork
inside the second, an isolated invalid block; a pair of PoS blocks with equal
difficulty and the same stake, so the tie rule decides; two transactions that
spend the same key image on different branches; one transaction in both
branches; one with wrong proofs and one with wrong inputs. That is the smallest
tree in which a switch replaces more than one block, fails at its second
block, rolls back over more than one block and meets a double spend in each of
the positions that the checks distinguish. `MaxAlt` and `AltLifetime` are 2
in `chain_faults`, so both kinds of pruning happen, and a switch meets iterators
that its own pruning has made dead. Two threads are
enough for `DbAccessor`, where the writer is unique and readers do not interact;
one cache element and two keys force evictions; two levels of nesting cover the
distinction the code makes (outermost or not). Three threads let the lock have
a writer, a leaving and an entering reader. `MaxDepth`, `MaxNest`, `MaxElements`,
`MaxAlt`, `TruncateTo` and `Clock` are all the bounds of these modules.

`MCTxPool`: a block that a branch of two replaces, and one that competes for the
second place and is refused; three transactions of which two spend the same
key image and one spends an output of another, one that a block brings along;
`MaxBusy = 1`: one of the four other users at work at a time beside the block
thread. With `Block <- AllBlocks`, in which the first branch is as long as the
second, the same properties hold (5,089,823 states).

`MCLevin`: one asynchronous and one synchronous call, one request of the peer, a
queue that overflows with the second packet. The safety properties also hold for
two asynchronous and one synchronous call (10,704,180 states), for one call of each
kind (2,196,098) and for two asynchronous calls and a notification (2,548,158).

`MCCurrencyProtocol`: the node is on a short heavy branch; one peer has the longer
branch that outweighs it, the other a part of it; a third branch outweighs
both. Five ids in an answer and four blocks in a request make ids and blocks
arrive in several rounds; `RecentIds = 1` instead of 10 makes the sampling of ids
start at once. `MaxTrouble = 1`; with 2 the safety properties hold too
(1,452,237 states).

`MCWallet`: a payment that is in two branches, a spend by this wallet, one by
another copy of it and one by a stake, reorganisations to the first block and
to the genesis block; two recent ids instead of 20 and every second older one
instead of every tenth, so that a reorganisation ends in a gap. `wallet_live` has
taller branches and only the payment.

### Fairness

`WriterGetsIn`: weak fairness of the steps inside the lock's functions (they
block on nothing but `cv`), and strong fairness of leaving a scope at each depth
(a scope ends because the function that opened it returns). No fairness is
assumed of `exclusive_lock`. `CallEnds`: weak fairness of the thread that runs
`add_new_block`, which after entry waits for nothing but its own database.
`CallsEnd`, `CloseEffective`: weak fairness of the threads inside a call or a
close, of timers, of the completion of writes, and of the read handler for what
has arrived; none of the peer, which may never answer. `CaughtUp`: weak fairness
of the peers' answers, of the node's handlers and of its idle loop; the peers'
changes and the lost links are bounded, so that in the end the chains stand
still, which is what the property needs. `CatchesUp`: weak fairness of the
wallet's refresh loop (`on_idle` calls `refresh` again and again), nothing of the
daemon except that its blocks are finitely many.

## 4. Theorems

All theorems hold for every value of the constants that satisfies the named
assumptions of the modules.

`SharedRecursiveMutexProofs`: `TypeCorrect`, `Exclusion`, `WakeupNotLost`. The
inductive invariant counts: `readers_count` is the number of threads whose
outermost scope is shared, `recursion` is the depth of the stack of scopes,
and a thread is on its way out of `unlock_shared` when the last reader has left
and a writer still waits. Exclusion alone is not inductive, because it says
nothing of a writer between its registration and the end of its wait.

`DbAccessorProofs`: `TypeCorrect` and `IsolationSwitchesOn` for any use of the
database, from `LockInv`, which ties every program counter to the owner of the
write lock, of the read-write lock and of the cache. `CacheCoherent` and
`ReadsRepeatable` under `Guarded = Thread`, from `GuardInv`: what a `get` has read
and not yet cached still is the value in its view, because no commit passes a
scope. The hypothesis cannot be dropped: with `Guarded = {}` TLC refutes `Coherent`.

`BlockchainStorageProofs`: `TypeCorrect`, `SpentKeysExact`, `NoKeyImageTwice`,
for every tree of blocks, every order of arrival, every fault. `SpentExact` is
inductive once it is stated for the block in progress as well (its coinbase and
its first `done` transactions), together with the fact that the height in the
table determines the block; `NoDoubleSpend` follows from it, since a table entry
has one height.

`ReorganizationProofs` follows a reorganisation from its first disconnected block to
its commit or to the end of its rollback. What is true of the committed state
says nothing about the steps in between, so the invariant `ReorgInv` describes
them: the view is a prefix of the old or of the new branch (`PathInv`, `DiscInv`,
`PlaceInv`), both branches consist of blocks that passed the checks on headers and
transactions (`LinkInv`, `HeadInv`), and the transactions to go on or to go back
are in the pool, in the table or with the block (`HandInv`, `AltInv`). It is
inductive for every tree of blocks and every fault (`ReorganisationOnRoute`) and
gives `SwitchHasTxs` (`ConnectedBlockHasTxs`); with it `AltTxsExact`
(`AltTxsCounted`, and `AltTxsAlwaysCount` for behaviours in which no switch erases
through a dead iterator), `AltBranchSpendsOnce` (`AltBranchesSpendOnce`) and, through
`AbortInv`, `NoTxLost` (`NoTransactionLost`) are inductive. That `Branch` agrees with
`Parent` up to the genesis block is used through the least height at which a
statement fails (`LeastElement`), since the induction rules themselves cannot be
instantiated here.

Some of its theorems have a hypothesis beyond the modules' assumptions:

| Theorem | Hypothesis | Why |
|---|---|---|
| `NoTransactionLost` | `Faults = {}` | an exception aborts the chain's database transaction but not the pool's |
| `NoSecondReorganisation` | `DifficultyGrows`: a block's cumulative difficulty is greater than its parent's | every block adds its difficulty, which is not zero; with a block that adds nothing a prefix of the old chain may be preferred to the new one |
| `RollbackIsExact`, `CommittedChainIsLedger`, from `SteadyInvariance` | `Steady`: no step sets the clock back | the old blocks pass through the time stamp check of alternative blocks again; `reorg_clock` shows what happens otherwise |
| `ChainIsBest` | `DifficultyGrows`, `Steady`, no `throw` among the faults | an exception between the last block of a switch and the removal of its branch leaves the better branch among the alternative blocks |
| `PoolIsDisjoint` | `ThroughPool`: `Faults = {}`, blocks come without transactions of their own, every transaction spends something; `Steady`; and `[]ErasedOnce` | a block that brings its own transaction can meet it in the pool; a transaction without inputs could be in two blocks of one branch; a count taken off twice lets the pool drop a transaction that an alternative block still has |
| `AltTxsAlwaysCount` | `[]ErasedOnce`: no switch erases through a dead iterator | section 5; `RoomErasesOnce` gives it when `MaxAlt` is not less than the number of blocks (`Room`) |
| `CheckpointIsFinal` | `Steady`, and `TruncateTo` not below the checkpoint | the operator's truncation asks no checkpoint |

`SteadyInv` says that the blocks of the old branch pass the time stamp check as long
as the clock moves forward (`StampInv`), that the view at the moment of a commit is
the old chain, one block more, or the whole preferred branch (`CommitInv`), and
that neither is shorter than a checkpoint already passed (`CpInv`). Under it every step
of `BlockchainStorage` is a step of `Ledger` or leaves `com.chain` alone.

`BestInv` (`ChainIsBest`) says that of all alternative blocks only the tip of the switch
in progress is better than the committed chain. The tip leaves when the switch ends: it
becomes the top of the chain, or it is erased with the block that failed. The blocks
pushed back are not better, since the switch was to more difficulty, and what was not
better than the old chain is not better than the new one. `PoolInv` (`PoolIsDisjoint`)
says at every step that pool and working view have no transaction in common, that what
the view adds to the committed chain is in the taken set, so that nothing can put it
into the pool before the commit, and that the transactions of alternative blocks are
in the pool or in the view.

`TxPoolProofs`: `TypeCorrect`, `IndexIsSound`, `StuckIsNotAlt`,
`KnownIsNotAdmitted`, `TemplateIsValid`. `IndexInv` states the index for the gap
between the two halves of a purge too. `KnownInv` says, for each place the
receiving thread has looked at, that its transaction is not there, although blocks
move it from pool to taken set and from taken set to chain meanwhile: what is
being added to the chain is in the taken set until the commit.
`EntryInv` says that what an entry remembers is a block that holds its inputs, on
whatever chain that block is, and `ChosenInv` that the chosen transactions of a
template fit the chain as long as its top block is the template's.

`LevinProofs`: `TypeCorrect`, `ObjectOutlivesUsers`, `CallbackCalledOnce`,
`PacketsStayWhole`, `AnswersMatched`. `CountInv` says what `m_self_refs` counts, as the cardinality of
the set of calls in progress and timers not finished; `PlaceInv` says where a call
is while its timer runs or it closes the connection. `CbInv` counts the callbacks of a
call: one for the end of its timer, one for a failure of the call itself.
`StreamInv` says that, until the shutdown, a header without its body is the last
entry of the queue and belongs to the one thread that holds `m_send_lock`.
`AnswerInv` ranks the calls in the order in which they took `m_call_lock`. Requests in
the queue, on the wire, their answers on the way and the one that was read are in this
order (`Lined`), and so are the handlers (`Ordered`). Until the connection is closed or
the first handler has timed out, every call whose request is on the way has its
handler, and every handler waits for an answer still to come, unless its call failed after
the shutdown (`Awaited`): then it ranks after all requests that were sent. So the first
answer finds its own handler at the head of the list; and an answer that finds no
handlers is for the one synchronous call that waits, since it holds `m_call_lock`.
All of this rests on `m_call_lock` keeping the calls apart; `UnmadeInv` says that a
call under a waiting invoke stays one, so `AnswerInv` claims the rest only until there is
one.

`CurrencyProtocolProofs`: `ExpectationsAreExact`, `OneThingAtATime`,
`NoHonestPeerDropped`, `SyncTypes`. `SyncInv` holds
for each connection separately, so steps of other connections leave it alone;
it relates the state of the context, the two counters, the callbacks due and the
handler at work to the messages on the wire, which are counted as cardinalities of
sets of positions. `FlowInv` adds what the messages say. The known blocks are closed
under `Parent` and hold the top (`KnownInv`). `Flow` describes one connection, and for a
peer whose chain did not change it makes promises that depend on the known blocks `K`
only in that more of them do no harm (`FlowMore`), so that what other
connections add in the meantime cannot break them: a question for ids holds ids of `K`
(`OutOk`); an answer of ids begins at a block of `K`, is a part of the peer's chain and
ends no higher (`EntryOk`); an answer of blocks is exactly what was requested (`BlocksOk`);
and what is needed, requested, being added or answered comes in an order in which every
block follows its parent or has it in `K` (`Ready`, `CtxOk`). `NoHonestDrop` alone is far
from inductive: whether a drop is due is decided when an answer is read, by the
question put two messages earlier and by the blocks other handlers have added
since. The proof follows every message from the question to the last block added. The
lemmas it rests on say what `Path`, `Those` and `ShortHistory` return; that
`Path`, a recursive function over the tree, is what its definition says is shown through
the least weight at which it is not.

`WalletProofs`: `WalletTypes`, `WalletChainExact`, `WalletTransfersExact`,
`WalletMarkExplained`, `WalletReserved`, `WalletSelectionValid`, for every tree of valid
blocks, any number of outputs per transaction, any batch sizes and any pattern of kept
ids. `Path` is a recursive function over the tree; that it is what its definition says
for every block is shown through the least weight at which it is not. `ChainInv` gives
`ChainExact`: it adds that an answer under way is a segment of one chain that begins at
a height the wallet knows, that what was matched of it is on the wallet's chain, and the
same of the saved wallet. The rest is one invariant, `RecordsInv`: the bounds
(`AuxOK`), that pool and blocks hold transactions of this account only if it sent
them (`DaemonOK`), and `WalletOK` for the wallet in memory and for the one in the file.
`WalletOK` is `RecordsOK` (types and `Exact`), `OwnIn` (what it knows of its own
transactions was sent) and `Settled`. `Exact` compares a wallet with the transactions
of its chain and their heights: they are `Valid`; the transfers are what they pay, at
the heights of receipt and spend, and found by their key images, and what is
missing is spent (`Tracks`); every spend is in the history, with a transaction that is not
pending (`Recorded`); marks are explained (`Explained`). `Recorded` is what makes
`detach_blockchain` turn the spends it detaches into pending transactions, and hence
`Explained` inductive. `Settled` says that what a pending transaction selected is marked
and is what it spends. Each operation (`ProcessTx`, `ProcessBlock`, `DetachBlockchain`,
`FullReset`, `HandleUnconfirmed`, `OnIdle`, `Truncate`) has its own lemma for each of
these parts, and the actions combine them.

Only model-checked: the liveness properties `WriterGetsIn`, `CallEnds`, `CallsEnd`,
`CloseEffective`, `CaughtUp` and `CatchesUp` (fairness is out of the prover's reach).
Every other property of a passing run is stated by a theorem.

## 5. Disagreements found

1. `blockchain_storage.cpp:1513`. The comment there describes a node whose clock
   was set back and whose old blocks cannot become alternative ones. The
   rollback sends the same blocks through the same time stamp check, fails in
   the middle, and its result is ignored; the switch reports success and a
   shortened chain is committed (`reorg_clock`).
2. `currency_protocol_handler.inl:552`. The height of the last id is compared with
   the size of the peer's chain, which is one more than its top height; a peer
   that has become shorter by exactly one block passes. `request_missing_objects`
   then fails its assertion (837-839), the result is ignored, and the connection
   stays in `state_synchronizing` with nothing asked (`sync_stall`).

Expectations the code does not meet, stated in the modules and refuted by TLC
with the constants given, without a run of their own:

| Definition | Constants | What happens |
|---|---|---|
| `BlockchainStorage!RefusedOnlyIfSpent` | `chain_faults.cfg` with `MaxAlt = 1` | `blockchain_storage.cpp:2139`: key images of an erased alternative block stay in the heap when its transactions are found nowhere; the block is then refused as a double spend |
| `BlockchainStorage!ErasedOnce` | `chain_faults.cfg` | `:2420`: the limit on alternative blocks is enforced inside the nested `handle_alternative_block`, while the switch keeps iterators to the blocks in `alt_chain`; 1527-1530 then erase through an iterator whose block is gone |
| `BlockchainStorage!AltTxsCount` | the same | as a consequence: `a1` is in the main chain and `b1`, `b2` replace it; pushing `a1` back makes three alternative blocks, `b2` is pruned, and erasing it once more takes its transaction off a second time (1421-1444), so the count is 0 although `a1` holds the transaction and `remove_stuck_transactions` may drop it |
| `DbAccessor!SizeExact` | `db_guarded.cfg` with `MaxElements = 2` | `db_abstract_accessor.h:562`: an abort leaves the cached size of the aborted state |
| `DbAccessor!Coherent` | `db_guarded.cfg` with `Guarded = {}` | `tx_pool.cpp:52`: the pool's readers take no lock that a commit would wait for |
| `TxPool!BrokenAtThisHeight` | `txpool.cfg` with a block of `t1` and a competing branch of three blocks, the third of which holds `t1` | `tx_pool.cpp:959, 973`: a failure counts as long as the block it is remembered with is in the chain, and that block is read after the check; a transaction whose inputs a later block brings back stays out of this node's templates |
| `Levin!AnswerMatchesNested` | `levin.cfg` | `levin_protocol_handler_async.h:688`: a handler that runs on the thread of a waiting invoke makes an asynchronous call on the same connection; `m_call_lock` lets it in, and its handler is given the answer to the invoke. The node itself makes asynchronous calls and notifications only; nothing calls `node_server::invoke_command_to_peer` (`net_node.inl:1422`), which would make an invoke |
| `Levin!NoCallbackInsideLock` | `levin.cfg` | `levin_protocol_handler_async.h:627` says "Never call callback inside critical section"; a send that overflows the queue shuts the connection down, and its callbacks are called, with the locks of the call held |

Also, the comment at `cache_helper.h:225-227` says that the writing thread is the
one kept away from the cache; `isolated_access` (184) keeps all others away, and
`DbAccessor` models the code.

## 6. Not modelled

* Chain: the outputs table, aliases, assets and gateway addresses inside a
  transaction; the numeric content of the checks; hard forks inside a
  reorganised part; the safety fuse `m_db_major_failure`; the fork choice from
  hard fork 1 on.
* Database: the abort of a nested write transaction (`db_abstract_accessor.h:243`; no
  caller does it), lmdb calls that fail, the contents of enumerations, the mdbx backend.
* Pool: aliases, multisig outputs, statistics.
* Synchronisation: checkpoint zones and nodes that keep unpruned data, time
  deltas, malformed messages and size limits, `add_ip_fail`, relaying of
  transactions; of p2p, the choice of peers and the peer lists.
  `m_callback_request_count`, which the code does not initialise, starts at zero.
* Connection: the accept loop, http, the parsing of the byte stream, throttling;
  handlers that throw through `call_run_once_service_io`, a service that stops while an
  invoke waits, and an invoke made by the read handler of its own connection, whose
  answer nobody can then read.
* Wallet: several levels of the sparse record of ids (there is one), a minimum height, a daemon with another genesis block, multisig and
  escrow, expiration, assets, watch-only and auditable wallets, removal of
  transactions at hard fork 4, truncation of the history, the scan window for
  subaddresses. `store` is one step: the two renames it ends with, and the file
  that is left under another name by a crash between them, are not
  distinguished.
* Cryptography, serialization, RPC and GUI are pure computation, conversion or
  I/O; stratum and the mining threads only use the template.

## 7. Plan

1. `ForkChoice`: `is_reorganize_required` for hard forks 1 and 6 over small PoW and
   PoS chains; whether the preference is antisymmetric, which
   `NoRecursiveReorganize` needs.
2. `Difficulty` and `BlockReward`: the window algorithms, against reference
   definitions.
3. `UndoLog`: aliases and assets across a reorganisation.
4. The peer list: white, gray and anchor peers, choice and failures.
5. An abstract read-write lock, implemented by `SharedRecursiveMutex` and used by
   `DbAccessor` in place of `scope`/`excl`.
6. Escrow contracts in the wallet.
