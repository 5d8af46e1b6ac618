-------------------------- MODULE CurrencyProtocol --------------------------
(***************************************************************************)
(* Block synchronisation of a node with its peers:                         *)
(* t_currency_protocol_handler (currency_protocol_handler.inl), the        *)
(* questions it puts to blockchain_storage, and m_last_fetched_block_ids   *)
(* (block_chain_shortener.cpp).                                            *)
(*                                                                         *)
(* Every connection has a strand: its messages are handled one after the   *)
(* other, the handlers of different connections run at the same time.  A   *)
(* handler that hands blocks to the core is therefore one step for what it *)
(* does before and one for every block.  The peers run the same program    *)
(* and answer from their main chains, which may change between answers.    *)
(* A block is a node of a tree; what makes it valid and how a chain is     *)
(* switched is the subject of BlockchainStorage.                           *)
(***************************************************************************)
EXTENDS Integers, Sequences, FiniteSets, Functions

CONSTANTS
  Peers,
  Blocks, Genesis,
  Parent,         \* the block tree
  Weight,         \* cumulative_diff_adjusted of a chain that ends in the block
  LocalStart,     \* top block of the node at the start
  PeerStarts,     \* top blocks of the peers at the start
  IdsCount,       \* BLOCKS_IDS_SYNCHRONIZING_DEFAULT_COUNT
  BatchSizes,     \* lengths at which BLOCKS_SYNCHRONIZING_DEFAULT_COUNT or
                  \* ..._DEFAULT_SIZE may end a request of blocks
  RecentIds,      \* ids a short history takes one by one, 10 in the code
  MaxTrouble      \* bound on the changes of the peers' chains, the lost links and
                  \* the blocks that fail verification, together

ASSUME TreeAssumption ==
  /\ Genesis \in Blocks /\ LocalStart \in Blocks /\ PeerStarts \subseteq [Peers -> Blocks]
  /\ Parent \in [Blocks \ {Genesis} -> Blocks]
  /\ Weight \in [Blocks -> Nat]
  /\ \A b \in Blocks \ {Genesis} : Weight[b] > Weight[Parent[b]]
ASSUME SizesAssumption ==
  /\ IdsCount \in Nat \ {0, 1} /\ RecentIds \in Nat \ {0}
  /\ BatchSizes \subseteq Nat \ {0} /\ BatchSizes # {}
  /\ MaxTrouble \in Nat
ASSUME PeersAssumption == IsFiniteSet(Peers)

VARIABLES
  known,    \* blocks of the node, in the main chain or in alternative ones
  top,      \* its top block
  peer,     \* the top block of each peer
  ctx,      \* currency_connection_context of each connection
  wire,     \* messages on the way to and from each peer
  job,      \* the handler a connection is inside of
  que,      \* m_blocks_id_que
  synced,   \* m_synchronized
  net       \* bounds; (history) who moved, who was dropped without a reason

chainVars == << known, top >>
vars == << known, top, peer, ctx, wire, job, que, synced, net >>

-----------------------------------------------------------------------------
(* Chains. *)

\* The elements of s that are in S, in their order: a recursive function, which proofs can
\* unfold.
Those(s, S) ==
  LET f[i \in 0 .. Len(s)] ==
        IF i = 0 THEN << >> ELSE IF s[i] \in S THEN Append(f[i - 1], s[i]) ELSE f[i - 1]
  IN  f[Len(s)]

\* The chain that ends in b, without the genesis block: position h is height h.
Path[b \in Blocks] ==
  IF b = Genesis THEN << >> ELSE Append(Path[Parent[b]], b)
Height(b) == Len(Path[b])
InChain(b, tip) == b = Genesis \/ b \in Range(Path[tip])
Size(tip) == Height(tip) + 1

Have(b) == b \in known

\* add_new_block for a block whose parent is known: known, and the top if heavier.
AddBlock(b) ==
  /\ known' = known \cup {b}
  /\ top' = IF Weight[b] > Weight[top] THEN b ELSE top
Orphan(b) == ~Have(b) /\ ~Have(Parent[b])

\* Distances from the top at which a short history takes an id: the nearest one
\* by one, then 2, 4, 8, ... apart.
Sampled(k) == k <= RecentIds + 1 \/ \E j \in 1 .. k : k = RecentIds + 1 + 2 * (2 ^ j - 1)
ShortHistory(ids) ==
  LET n     == Len(ids)
      picks == Those([k \in 1 .. n |-> k], { k \in 1 .. n : Sampled(k) })
  IN  [i \in DOMAIN picks |-> ids[n + 1 - picks[i]]] \o << Genesis >>

-----------------------------------------------------------------------------
(* Connections. *)

Fresh == [state |-> "before", needed |-> << >>, requested |-> {}, fetched |-> << >>,
          lastResponse |-> 0, remoteSize |-> 0,
          expectChain |-> 0, expectObjects |-> 0, callbacks |-> 0]
Gone == [Fresh EXCEPT !.state = "closed"]
NoJob == [kind |-> "none", blocks |-> << >>, count |-> 0]
NoWire == [up |-> FALSE, out |-> << >>, in |-> << >>]

\* get_blockchain_current_size of the ids fetched last
FetchedSize(c) == IF c.fetched = << >> THEN 1 ELSE Height(c.fetched[Len(c.fetched)]) + 1

\* The handler of p ends with context c and with what it posts to the peer.
Ends(p, c, posts, taken) ==
  /\ ctx' = [ctx EXCEPT ![p] = IF wire[p].up THEN c ELSE Gone]
  /\ wire' = [wire EXCEPT ![p] =
       IF wire[p].up THEN [up |-> TRUE, out |-> wire[p].out \o posts,
                           in |-> IF taken THEN Tail(wire[p].in) ELSE wire[p].in]
       ELSE NoWire]
  /\ job' = [job EXCEPT ![p] = NoJob]

\* drop_connection, after which every handler returns.
Drop(p) ==
  /\ ctx' = [ctx EXCEPT ![p] = Gone]
  /\ wire' = [wire EXCEPT ![p] = NoWire]
  /\ job' = [job EXCEPT ![p] = NoJob]
  /\ net' = [net EXCEPT !.blamed = IF p \in net.moved THEN @ ELSE @ \cup {p}]

Trouble == net.trouble < MaxTrouble

\* Mutant: the answer is not expected.
AskingUncounted(c, ids) == << c, << [t |-> "chain", ids |-> ids] >> >>
Asking(c, ids) == << [c EXCEPT !.expectChain = @ + 1], << [t |-> "chain", ids |-> ids] >> >>

\* The first blocks of those still needed, up to lim that have to be asked for.
Wanted(c, check, lim) ==
  LET missing == IF check THEN Blocks \ known ELSE Blocks
      full    == { i \in 1 .. Len(c.needed) :
                     Cardinality({ j \in 1 .. i : check => ~Have(c.needed[j]) }) = lim }
      n == IF full = {} THEN Len(c.needed) ELSE CHOOSE i \in full : \A j \in full : i <= j
  IN  [taken |-> n, ids |-> Those(SubSeq(c.needed, 1, n), missing)]

\* Mutant: always the history of the main chain.
AskForIdsMain(c) ==
  Asking([c EXCEPT !.fetched = << >>], ShortHistory(Path[top]))
\* Ask for the ids after those fetched last when these are not of the main chain or
\* far below its top, and for those after the main chain otherwise.
AskForIds(c) ==
  LET last == c.fetched[Len(c.fetched)]
      follow == /\ c.fetched # << >>
                /\ ~InChain(last, top) \/ Height(last) + IdsCount < Size(top)
  IN  IF follow THEN Asking(c, ShortHistory(c.fetched))
      ELSE Asking([c EXCEPT !.fetched = << >>], ShortHistory(Path[top]))

\* request_missing_objects: the context it leaves and what it posts.  In the last
\* case an assertion fails, which the callers ignore.
RequestMissing(c, check, lim) ==
  CASE c.needed # << >> ->
         LET w == Wanted(c, check, lim)
         IN  << [c EXCEPT !.needed = SubSeq(@, w.taken + 1, Len(@)),
                          !.requested = @ \cup Range(w.ids),
                          !.expectObjects = @ + 1],
                << [t |-> "objects", blocks |-> w.ids] >> >>
    [] c.needed = << >> /\ c.lastResponse < c.remoteSize - 1 -> AskForIds(c)
    [] /\ c.needed = << >> /\ ~(c.lastResponse < c.remoteSize - 1)
       /\ c.lastResponse = c.remoteSize - 1 /\ c.requested = {} ->
         << [c EXCEPT !.state = "normal"], << >> >>
    [] OTHER -> << c, << >> >>

-----------------------------------------------------------------------------
(* The peers. *)

\* A peer takes another chain, and may relay its top block to the node.
PeerMoves(p, b, relay) ==
  /\ Trouble
  /\ Weight[b] > Weight[peer[p]]
  /\ peer' = [peer EXCEPT ![p] = b]
  /\ wire' = [wire EXCEPT ![p].in =
       IF relay /\ wire[p].up THEN Append(@, [t |-> "new", block |-> b]) ELSE @]
  /\ net' = [net EXCEPT !.trouble = @ + 1, !.moved = @ \cup {p}]
  /\ UNCHANGED << known, top, ctx, job, que, synced >>

\* handle_request_chain: find_blockchain_supplement
AnswerChain(p) ==
  LET ids   == Head(wire[p].out).ids
      split == CHOOSE i \in DOMAIN ids :
                 InChain(ids[i], peer[p]) /\ \A j \in 1 .. (i - 1) : ~InChain(ids[j], peer[p])
      chain == << Genesis >> \o Path[peer[p]]
      start == Height(ids[split])
      end   == IF start + IdsCount < Len(chain) THEN start + IdsCount ELSE Len(chain)
  IN  /\ wire[p].out # << >> /\ Head(wire[p].out).t = "chain"
      /\ wire' = [wire EXCEPT ![p].out = Tail(@), ![p].in = Append(@,
           [t |-> "entry", start |-> start, total |-> Len(chain),
            ids |-> SubSeq(chain, start + 1, end)])]
      /\ UNCHANGED << known, top, peer, ctx, job, que, synced, net >>

\* handle_request_get_objects: only blocks of the main chain are found.  A request of
\* which some are found and some are not fails, and the peer drops the connection.
\* (A bound variable over one value is evaluated once, a LET wherever it is used.)
AnswerObjects(p) ==
  LET asked == Head(wire[p].out).blocks
  IN  /\ wire[p].out # << >> /\ Head(wire[p].out).t = "objects"
      /\ \E found \in {Those(asked, {Genesis} \cup Range(Path[peer[p]]))} :
           IF found # << >> /\ Len(found) < Len(asked)
             THEN /\ wire' = [wire EXCEPT ![p] = NoWire]
                  /\ ctx' = [ctx EXCEPT ![p] = IF job[p] = NoJob THEN Gone ELSE @]
             ELSE /\ wire' = [wire EXCEPT ![p].out = Tail(@), ![p].in = Append(@,
                       [t |-> "blocks", blocks |-> found, height |-> Size(peer[p])])]
                  /\ UNCHANGED ctx
      /\ UNCHANGED << known, top, peer, job, que, synced, net >>

\* The payload of a handshake.
Connect(p) ==
  /\ ctx[p] = Gone
  /\ ctx' = [ctx EXCEPT ![p] = Fresh]
  /\ wire' = [wire EXCEPT ![p] = [up |-> TRUE, out |-> << >>,
       in |-> << [t |-> "sync", top |-> peer[p], size |-> Size(peer[p])] >>]]
  /\ net' = [net EXCEPT !.moved = @ \ {p}]
  /\ UNCHANGED << known, top, peer, job, que, synced >>

\* The payload of a timed sync, the node's or the peer's.
TimedSync(p) ==
  /\ wire[p].up /\ ctx[p].state # "before"
  /\ \A i \in DOMAIN wire[p].in : wire[p].in[i].t # "sync"
  /\ wire' = [wire EXCEPT ![p].in =
       Append(@, [t |-> "sync", top |-> peer[p], size |-> Size(peer[p])])]
  /\ UNCHANGED << known, top, peer, ctx, job, que, synced, net >>

LinkLost(p) ==
  /\ Trouble /\ wire[p].up
  /\ wire' = [wire EXCEPT ![p] = NoWire]
  /\ ctx' = [ctx EXCEPT ![p] = IF job[p] = NoJob THEN Gone ELSE @]
  /\ net' = [net EXCEPT !.trouble = @ + 1]
  /\ UNCHANGED << known, top, peer, job, que, synced >>

-----------------------------------------------------------------------------
(* The handlers of the node. *)

Receives(p, type) ==
  wire[p].up /\ job[p] = NoJob /\ wire[p].in # << >> /\ Head(wire[p].in).t = type

\* Mutant: also when the connection is synchronising already.
HandleSyncAgain(p) ==
  LET msg == Head(wire[p].in)
      c   == ctx[p]
  IN  /\ Receives(p, "sync")
      /\ Ends(p, IF msg.top \in que \/ Have(msg.top) THEN [c EXCEPT !.state = "normal"]
                 ELSE [c EXCEPT !.state = "synchronizing", !.remoteSize = msg.size,
                                !.fetched = << >>, !.callbacks = @ + 1],
              << >>, TRUE)
      /\ UNCHANGED << known, top, peer, que, synced, net >>

\* process_payload_sync_data
HandleSync(p) ==
  LET msg == Head(wire[p].in)
      c   == ctx[p]
  IN  /\ Receives(p, "sync")
      /\ Ends(p, CASE c.state = "synchronizing" -> c
                   [] c.state # "synchronizing" /\ (msg.top \in que \/ Have(msg.top)) ->
                        [c EXCEPT !.state = "normal"]
                   [] OTHER -> [c EXCEPT !.state = "synchronizing", !.remoteSize = msg.size,
                                         !.fetched = << >>, !.callbacks = @ + 1],
              << >>, TRUE)
      /\ UNCHANGED << known, top, peer, que, synced, net >>

\* on_callback
OnCallback(p) ==
  LET c == [ctx[p] EXCEPT !.callbacks = @ - 1]
      a == IF c.state = "synchronizing" THEN Asking(c, ShortHistory(Path[top]))
           ELSE << c, << >> >>
  IN  /\ wire[p].up /\ job[p] = NoJob /\ ctx[p].callbacks > 0
      /\ Ends(p, a[1], a[2], FALSE)
      /\ UNCHANGED << known, top, peer, que, synced, net >>

\* handle_response_chain_entry
HandleChainEntry(p, lim) ==
  LET msg == Head(wire[p].in)
      c0  == [ctx[p] EXCEPT !.expectChain = @ - 1]
      old == IF FetchedSize(c0) # msg.start THEN << >> ELSE c0.fetched
  IN  /\ Receives(p, "entry")
      /\ \E c1 \in {[c0 EXCEPT !.remoteSize = msg.total,
                              !.lastResponse = msg.start + Len(msg.ids) - 1,
                              !.fetched = old \o Those(msg.ids, Blocks \ {Genesis}),
                              !.needed = @ \o Those(msg.ids, Blocks \ known)]} :
           LET r == RequestMissing(c1, FALSE, lim)
           IN  IF \/ ctx[p].expectChain = 0
                  \/ msg.ids = << >>
                  \/ ~Have(msg.ids[1])
                  \/ c1.lastResponse > c1.remoteSize
                 THEN Drop(p)
                 ELSE Ends(p, r[1], r[2], TRUE) /\ UNCHANGED net
      /\ UNCHANGED << known, top, peer, que, synced >>

\* Mutant: a connection set to idle keeps the blocks it has requested.
HandleObjectsKeeps(p) ==
  LET msg   == Head(wire[p].in)
      c     == ctx[p]
      taken == [c EXCEPT !.expectObjects = @ - 1, !.remoteSize = msg.height, !.requested = {}]
      late  == Len(msg.blocks) > 1 /\ Have(msg.blocks[2]) /\ msg.blocks[1] \in c.requested
      wrong == \/ c.expectObjects = 0
               \/ c.lastResponse > msg.height
               \/ ~late /\ Range(msg.blocks) # c.requested
  IN  /\ Receives(p, "blocks")
      /\ \/ wrong /\ Drop(p)
         \/ /\ ~wrong /\ late
            /\ Ends(p, [taken EXCEPT !.requested = c.requested, !.state = "idle", !.needed = << >>], << >>, TRUE)
            /\ UNCHANGED net
         \/ /\ ~wrong /\ ~late
            /\ ctx' = [ctx EXCEPT ![p] = taken]
            /\ wire' = [wire EXCEPT ![p].in = Tail(@)]
            /\ job' = [job EXCEPT ![p] = [kind |-> "add", blocks |-> msg.blocks, count |-> 0]]
            /\ UNCHANGED net
      /\ UNCHANGED << known, top, peer, que, synced >>

\* handle_response_get_objects up to the first block it hands to the core
HandleObjects(p) ==
  LET msg   == Head(wire[p].in)
      c     == ctx[p]
      taken == [c EXCEPT !.expectObjects = @ - 1, !.remoteSize = msg.height, !.requested = {}]
      late  == Len(msg.blocks) > 1 /\ Have(msg.blocks[2]) /\ msg.blocks[1] \in c.requested
      wrong == \/ c.expectObjects = 0
               \/ c.lastResponse > msg.height
               \/ ~late /\ Range(msg.blocks) # c.requested
  IN  /\ Receives(p, "blocks")
      /\ \/ wrong /\ Drop(p)
         \/ /\ ~wrong /\ late
            /\ Ends(p, [taken EXCEPT !.state = "idle", !.needed = << >>], << >>, TRUE)
            /\ UNCHANGED net
         \/ /\ ~wrong /\ ~late
            /\ ctx' = [ctx EXCEPT ![p] = taken]
            /\ wire' = [wire EXCEPT ![p].in = Tail(@)]
            /\ job' = [job EXCEPT ![p] = [kind |-> "add", blocks |-> msg.blocks, count |-> 0]]
            /\ UNCHANGED net
      /\ UNCHANGED << known, top, peer, que, synced >>

\* handle_response_get_objects: the next block goes to the core
AddReceived(p) ==
  LET b == Head(job[p].blocks)
      next == job' = [job EXCEPT ![p].blocks = Tail(@), ![p].count = @ + 1]
  IN  /\ job[p].kind = "add" /\ job[p].blocks # << >>
      /\ \/ /\ Have(b) /\ job[p].count > 2
            /\ Ends(p, [ctx[p] EXCEPT !.state = "idle", !.needed = << >>, !.requested = {}],
                    << >>, FALSE)
            /\ UNCHANGED << known, top, net >>
         \/ /\ Have(b) /\ job[p].count <= 2
            /\ next /\ UNCHANGED << known, top, ctx, wire, net >>
         \/ /\ ~Have(b) /\ ~Orphan(b)
            /\ AddBlock(b) /\ next /\ UNCHANGED << ctx, wire, net >>
         \/ /\ Orphan(b)
            /\ Drop(p) /\ UNCHANGED << known, top >>
      /\ UNCHANGED << peer, que, synced >>

\* handle_response_get_objects after the last block
ObjectsAdded(p, lim) ==
  LET r == RequestMissing(ctx[p], TRUE, lim)
  IN  /\ job[p].kind = "add" /\ job[p].blocks = << >>
      /\ Ends(p, r[1], r[2], FALSE)
      /\ UNCHANGED << known, top, peer, que, synced, net >>

\* handle_notify_new_block up to the core
HandleNewBlock(p) ==
  LET b == Head(wire[p].in).block
      mine == ctx[p].state = "normal" /\ b \notin que /\ ~Have(b)
  IN  /\ Receives(p, "new")
      /\ que' = IF mine THEN que \cup {b} ELSE que
      /\ job' = [job EXCEPT ![p] =
                   IF mine THEN [kind |-> "new", blocks |-> << b >>, count |-> 0] ELSE @]
      /\ wire' = [wire EXCEPT ![p].in = Tail(@)]
      /\ UNCHANGED << known, top, peer, ctx, synced, net >>

\* handle_notify_new_block: the core takes the block, finds it there already or
\* without a parent.
AddNotified(p) ==
  LET b == Head(job[p].blocks)
      a == Asking([ctx[p] EXCEPT !.state = "synchronizing", !.fetched = << >>],
                  ShortHistory(Path[top]))
  IN  /\ job[p].kind = "new"
      /\ que' = que \ {b}
      /\ \/ /\ Have(b)
            /\ Ends(p, ctx[p], << >>, FALSE) /\ UNCHANGED << known, top >>
         \/ /\ ~Have(b) /\ ~Orphan(b)
            /\ AddBlock(b) /\ Ends(p, ctx[p], << >>, FALSE)
         \/ /\ Orphan(b)
            /\ Ends(p, a[1], a[2], FALSE) /\ UNCHANGED << known, top >>
      /\ UNCHANGED << peer, synced, net >>

\* The core rejects a block that a handler gave to it.
BlockRefused(p) ==
  /\ Trouble /\ job[p].blocks # << >> /\ ~Have(Head(job[p].blocks))
  /\ que' = IF job[p].kind = "new" THEN que \ {Head(job[p].blocks)} ELSE que
  /\ ctx' = [ctx EXCEPT ![p] = Gone]
  /\ wire' = [wire EXCEPT ![p] = NoWire]
  /\ job' = [job EXCEPT ![p] = NoJob]
  /\ net' = [net EXCEPT !.trouble = @ + 1]
  /\ UNCHANGED << known, top, peer, synced >>

\* on_idle
OnIdle ==
  LET count(s) == Cardinality({ p \in Peers : ctx[p].state \in s })
      enough   == count({"normal"}) > count({"before", "synchronizing", "idle", "normal"}) \div 2
  IN  /\ synced # enough
      /\ synced' = enough
      /\ UNCHANGED << known, top, peer, ctx, wire, job, que, net >>

-----------------------------------------------------------------------------
Init ==
  /\ known = Range(Path[LocalStart]) \cup {Genesis}
  /\ top = LocalStart
  /\ peer \in PeerStarts
  /\ ctx = [p \in Peers |-> Gone]
  /\ wire = [p \in Peers |-> NoWire]
  /\ job = [p \in Peers |-> NoJob]
  /\ que = {}
  /\ synced = FALSE
  /\ net = [trouble |-> 0, moved |-> {}, blamed |-> {}]

Answer(p) == AnswerChain(p) \/ AnswerObjects(p)
Greet(p) == Connect(p) \/ TimedSync(p)
NodeStep(p) ==
  \/ HandleSync(p) \/ OnCallback(p) \/ HandleObjects(p) \/ AddReceived(p)
  \/ HandleNewBlock(p) \/ AddNotified(p)
  \/ \E lim \in BatchSizes : HandleChainEntry(p, lim) \/ ObjectsAdded(p, lim)

Next ==
  \/ OnIdle
  \/ \E p \in Peers :
       \/ Answer(p) \/ Greet(p) \/ NodeStep(p) \/ LinkLost(p) \/ BlockRefused(p)
       \/ \E b \in Blocks, relay \in BOOLEAN : PeerMoves(p, b, relay)

Spec == Init /\ [][Next]_vars

\* Peers answer and connections are made again; timed sync comes round for ever; the
\* strand of a connection takes its messages and ends its handlers; on_idle is called
\* for ever.
FairSpec ==
  /\ Spec /\ WF_vars(OnIdle)
  /\ \A p \in Peers :
       /\ WF_vars(Answer(p)) /\ WF_vars(Greet(p))
       /\ WF_vars(NodeStep(p)) /\ WF_vars(OnCallback(p))

-----------------------------------------------------------------------------
\* Questions q on their way to p and answers a on their way from it.
Count(s, type) == Cardinality({ i \in DOMAIN s : s[i].t = type })
InFlight(p, q, a) == Count(wire[p].out, q) + Count(wire[p].in, a)

States == {"closed", "before", "synchronizing", "idle", "normal"}
TypeOK ==
  /\ known \subseteq Blocks /\ top \in known /\ peer \in [Peers -> Blocks]
  /\ \A p \in Peers :
       /\ ctx[p].state \in States
       /\ ctx[p].needed \in Seq(Blocks) /\ ctx[p].fetched \in Seq(Blocks)
       /\ ctx[p].requested \subseteq Blocks
       /\ { ctx[p].lastResponse, ctx[p].remoteSize, ctx[p].expectChain,
            ctx[p].expectObjects, ctx[p].callbacks } \subseteq Nat
       /\ job[p].kind \in {"none", "add", "new"} /\ job[p].blocks \in Seq(Blocks)
  /\ que \subseteq Blocks /\ synced \in BOOLEAN

\* A connection waits for one thing at most, a callback, an answer or the end of its own
\* handler, and only while it synchronises.  One that synchronises and waits for nothing
\* has nothing left to ask for after ids that do not reach exactly to the top of the peer:
\* there is no other way to get stuck than the last check of request_missing_objects.
Waits(p) ==
  ctx[p].callbacks + InFlight(p, "chain", "entry") + InFlight(p, "objects", "blocks")
    + (IF job[p].kind = "add" THEN 1 ELSE 0)
Stuck(c) ==
  c.needed = << >> /\ ~(c.lastResponse < c.remoteSize - 1) /\ c.lastResponse # c.remoteSize - 1
OneConversation ==
  \A p \in Peers : wire[p].up =>
    /\ Waits(p) <= IF ctx[p].state = "synchronizing" THEN 1 ELSE 0
    /\ ctx[p].state = "synchronizing" => Waits(p) = 1 \/ Stuck(ctx[p])

\* What a context expects is what is on its wire: an answer is never taken for one
\* that was not asked for.
ExpectationsExact ==
  \A p \in Peers : wire[p].up =>
    /\ ctx[p].expectChain = InFlight(p, "chain", "entry")
    /\ ctx[p].expectObjects = InFlight(p, "objects", "blocks")
    /\ ctx[p].requested # {} => ctx[p].expectObjects = 1
    /\ ctx[p].needed # << >> => ctx[p].state = "synchronizing"

\* A peer whose chain did not change is never dropped by a handler.
NoHonestDrop == net.blamed = {}

\* Once the peers' chains stand still, the node comes to know them and stays in step.
CaughtUp ==
  <>[](synced /\ \A p \in Peers : ctx[p].state = "normal" /\ Have(peer[p]))

\* The assertion of request_missing_objects after the last block of an answer: with
\* nothing left to ask for, the ids received reach exactly to the top of the peer.
FinalCondition ==
  \A p \in Peers :
    /\ job[p].kind = "add" /\ job[p].blocks = << >> /\ ctx[p].needed = << >>
    /\ ctx[p].lastResponse >= ctx[p].remoteSize - 1
    => ctx[p].lastResponse = ctx[p].remoteSize - 1 /\ ctx[p].requested = {}
=============================================================================
