---------------------------- MODULE TxPoolProofs ----------------------------
(***************************************************************************)
(* Proofs about TxPool, for any transactions, key images, block tree and   *)
(* bounds.                                                                 *)
(*                                                                         *)
(* Shapes gives every variable its full type.  The four properties of the  *)
(* run txpool then need: ChainInv, that the blocks of both chains stand at *)
(* their heights and that the block thread's chain is the committed one    *)
(* whenever it is not in a block; IndexInv, that the index is right about  *)
(* every transaction even between the two halves of a purge; StuckInv,     *)
(* that the idle thread and the block thread exclude each other; KnownInv, *)
(* where a transaction can be that the receiving thread has looked for;    *)
(* EntryInv, that what an entry remembers about its inputs is a block that *)
(* holds them, whatever chain is asked; and ChosenInv, that what a template*)
(* has chosen so far fits on the block it is to be added to.               *)
(***************************************************************************)
EXTENDS TxPool, TLAPS

Entries == UNION { [S -> Details] : S \in SUBSET Tx }
Busied  == { "judge", "failed", "write" }

BlkState == [pc : {"out", "in", "took", "ended"}, b : Block \cup {None}, fromPool : BOOLEAN]
NetState == [pc : {"out", "taken", "chain", "images", "inputs", "insert"},
             t : Tx \cup {None}, used : Block \cup {Genesis, None}, back : BOOLEAN]
IdleState == [pc : {"out", "delete"}, del : SUBSET Tx]
TmplState == [pc : {"out", "snap", "fill", "judge", "failed", "write", "done"},
              prev : Block \cup {Genesis, None}, todo : Entries, chosen : SUBSET Tx,
              t : Tx \cup {None}, copy : Details \cup {None}]

Shapes ==
  /\ pool \in Entries /\ keyImages \in [Ki -> SUBSET Tx]
  /\ taken \in SUBSET Tx /\ black \in SUBSET Tx /\ alt \in SUBSET Tx
  /\ com \in Seq(Block) /\ view \in Seq(Block)
  /\ blk \in BlkState /\ net \in NetState /\ idle \in IdleState /\ tmpl \in TmplState
  /\ purge \in BOOLEAN
  /\ blk.pc = "took" => blk.b \in Block
  /\ net.pc # "out" => net.t \in Tx
  /\ tmpl.pc \in Busied => tmpl.t \in Tx /\ tmpl.copy \in Details

-----------------------------------------------------------------------------
(***************************************************************************)
(* The operators.                                                          *)
(***************************************************************************)
\* Facts about a set of entries: its members, and that putting, cutting and the
\* empty one stay within it.
LEMMA EntriesFacts ==
  /\ NoEntries \in Entries /\ DOMAIN NoEntries = {}
  /\ \A f \in Entries : DOMAIN f \in SUBSET Tx /\ \A t \in DOMAIN f : f[t] \in Details
<1>1. NoEntries \in [{} -> Details] /\ DOMAIN NoEntries = {}
  BY DEF NoEntries
<1>2. ASSUME NEW f \in Entries PROVE DOMAIN f \in SUBSET Tx /\ \A t \in DOMAIN f : f[t] \in Details
  BY DEF Entries
<1>3. NoEntries \in Entries
  BY <1>1 DEF Entries
<1> QED BY <1>1, <1>2, <1>3

\* Put adds or replaces one entry and leaves the others alone (set_transaction_kept,
\* do_insert_transaction).
LEMMA PutFacts ==
  ASSUME NEW f \in Entries, NEW t \in Tx, NEW e \in Details
  PROVE  /\ Put(f, t, e) \in Entries /\ DOMAIN Put(f, t, e) = DOMAIN f \cup {t}
         /\ Put(f, t, e)[t] = e
         /\ \A x \in DOMAIN f : x # t => Put(f, t, e)[x] = f[x]
<1>1. PICK S \in SUBSET Tx : f \in [S -> Details]
  BY DEF Entries
<1>2. Put(f, t, e) \in [S \cup {t} -> Details]
  BY <1>1 DEF Put
<1>3. S \cup {t} \in SUBSET Tx
  OBVIOUS
<1>4. Put(f, t, e) \in Entries
  BY <1>2, <1>3 DEF Entries
<1> QED BY <1>1, <1>4 DEF Put

\* Cut removes entries and leaves the others alone.
LEMMA CutFacts ==
  ASSUME NEW f \in Entries, NEW S
  PROVE  /\ Cut(f, S) \in Entries /\ DOMAIN Cut(f, S) = DOMAIN f \ S
         /\ \A x \in DOMAIN f \ S : Cut(f, S)[x] = f[x]
<1>1. PICK T \in SUBSET Tx : f \in [T -> Details]
  BY DEF Entries
<1>2. Cut(f, S) \in [T \ S -> Details]
  BY <1>1 DEF Cut
<1>3. T \ S \in SUBSET Tx
  OBVIOUS
<1>4. Cut(f, S) \in Entries
  BY <1>2, <1>3 DEF Entries
<1> QED BY <1>1, <1>4 DEF Cut

\* The transactions of a chain are transactions, and its tip is a block.
LEMMA ChainFacts ==
  ASSUME NEW c \in Seq(Block)
  PROVE  /\ TxsIn(c) \in SUBSET Tx
         /\ TipOf(c) \in Block \cup {Genesis}
         /\ c # <<>> => TipOf(c) = c[Len(c)] /\ TipOf(c) \in Block
<1>1. \A i \in 1..Len(c) : c[i] \in Block /\ TxOf[c[i]] \in Tx \cup {None}
  BY TreeAssumption
<1>2. TxsIn(c) \in SUBSET Tx
  BY <1>1 DEF TxsIn
<1>3. c # <<>> => Len(c) \in 1..Len(c)
  OBVIOUS
<1> QED BY <1>1, <1>2, <1>3 DEF TipOf

\* Removing the last block of a chain, and adding one.
LEMMA FrontFacts ==
  ASSUME NEW c \in Seq(Block), c # <<>>
  PROVE  /\ SubSeq(c, 1, Len(c) - 1) \in Seq(Block)
         /\ Len(SubSeq(c, 1, Len(c) - 1)) = Len(c) - 1
         /\ \A i \in 1..Len(c) - 1 : SubSeq(c, 1, Len(c) - 1)[i] = c[i]
<1>1. Len(c) - 1 \in 0..Len(c)
  OBVIOUS
<1>2. ASSUME NEW n \in 0..Len(c)
      PROVE  /\ SubSeq(c, 1, n) \in Seq(Block) /\ Len(SubSeq(c, 1, n)) = n
             /\ \A i \in 1..n : SubSeq(c, 1, n)[i] = c[i]
  OBVIOUS
<1> QED BY <1>1, <1>2

LEMMA AppendFacts ==
  ASSUME NEW c \in Seq(Block), NEW b \in Block
  PROVE  /\ Append(c, b) \in Seq(Block) /\ Len(Append(c, b)) = Len(c) + 1
         /\ \A i \in 1..Len(c) : Append(c, b)[i] = c[i]
         /\ Append(c, b)[Len(c) + 1] = b /\ Append(c, b) # <<>>
         /\ \A i \in 1..Len(c) + 1 : i \in 1..Len(c) \/ i = Len(c) + 1
OBVIOUS

\* max_used_block_id is no block when the inputs do not check, and otherwise a block
\* that holds the transaction they refer to, or the genesis block.
LEMMA MaxUsedFacts ==
  ASSUME NEW c \in Seq(Block), NEW t \in Tx
  PROVE  /\ MaxUsed(t, c) \in Block \cup {Genesis, None}
         /\ InputsOk(t, c) => MaxUsed(t, c) # None
         /\ MaxUsed(t, c) # None =>
              Ref[t] = None \/ (MaxUsed(t, c) \in Block /\ TxOf[MaxUsed(t, c)] = Ref[t])
<1>1. CASE ~InputsOk(t, c)
  BY <1>1 DEF MaxUsed
<1>2. CASE InputsOk(t, c) /\ Ref[t] = None
  <2>1. Genesis # None
    BY TreeAssumption
  <2> QED BY <1>2, <2>1 DEF MaxUsed
<1>3. CASE InputsOk(t, c) /\ Ref[t] # None
  <2> DEFINE j == CHOOSE i \in 1..Len(c) : TxOf[c[i]] = Ref[t]
  <2>1. \E i \in 1..Len(c) : TxOf[c[i]] = Ref[t]
    BY <1>3 DEF InputsOk, TxsIn
  <2>2. j \in 1..Len(c) /\ TxOf[c[j]] = Ref[t]
    <3> HIDE DEF j
    <3> QED BY <2>1 DEF j
  <2>3. c[j] \in Block /\ None \notin Block
    BY <2>2, TreeAssumption
  <2>4. MaxUsed(t, c) = c[j]
    BY <1>3 DEF MaxUsed
  <2> HIDE DEF j
  <2> QED BY <2>2, <2>3, <2>4
<1> QED BY <1>1, <1>2, <1>3

\* Inserting a transaction (do_insert_transaction).
LEMMA InsertFacts ==
  ASSUME Shapes, NEW t \in Tx, NEW k \in BOOLEAN, NEW u \in Block \cup {Genesis, None},
         Insert(t, k, u)
  PROVE  /\ pool' \in Entries /\ keyImages' \in [Ki -> SUBSET Tx]
         /\ InPool' = InPool \cup {t} /\ pool'[t].used = u
         /\ \A x \in InPool : x # t => pool'[x] = pool[x]
         /\ \A q \in Ki : keyImages'[q] = IF q \in KiOf[t] THEN keyImages[q] \cup {t} ELSE keyImages[q]
<1> DEFINE e == [kept |-> k, used |-> u, failed |-> None]
<1>1. e \in Details /\ e.used = u
  BY DEF Details
<1>2. pool' = Put(pool, t, e) /\ keyImages' = Indexed(t)
  BY DEF Insert
<1>3. pool \in Entries /\ keyImages \in [Ki -> SUBSET Tx]
  BY DEF Shapes
<1> HIDE DEF e
<1>4. /\ pool' \in Entries /\ DOMAIN pool' = DOMAIN pool \cup {t}
      /\ pool'[t] = e /\ \A x \in DOMAIN pool : x # t => pool'[x] = pool[x]
  BY <1>1, <1>2, <1>3, PutFacts
<1>5. /\ keyImages' \in [Ki -> SUBSET Tx]
      /\ \A q \in Ki : keyImages'[q] = IF q \in KiOf[t] THEN keyImages[q] \cup {t} ELSE keyImages[q]
  BY <1>2, <1>3 DEF Indexed
<1> QED BY <1>1, <1>4, <1>5 DEF InPool

\* A template writes an entry back.
LEMMA WriteBackFacts ==
  ASSUME Shapes, WriteBack
  PROVE  /\ tmpl.t \in Tx /\ tmpl.copy \in Details /\ InPool' = InPool \cup {tmpl.t}
         /\ pool'[tmpl.t] = tmpl.copy /\ \A x \in InPool : x # tmpl.t => pool'[x] = pool[x]
<1> DEFINE t == tmpl.t
<1> DEFINE e == tmpl.copy
<1>1. t \in Tx /\ e \in Details /\ pool \in Entries /\ pool' = Put(pool, t, e)
  BY DEF WriteBack, Shapes, Busied
<1> HIDE DEF t, e
<1>2. /\ DOMAIN pool' = DOMAIN pool \cup {t} /\ pool'[t] = e
      /\ \A x \in DOMAIN pool : x # t => pool'[x] = pool[x]
  BY <1>1, PutFacts
<1> QED BY <1>1, <1>2 DEF InPool, t, e

\* Removing transactions from the pool and from the index.
LEMMA RemoveFacts ==
  ASSUME Shapes, NEW S, pool' = Cut(pool, S), keyImages' = Unindexed(S)
  PROVE  /\ pool' \in Entries /\ keyImages' \in [Ki -> SUBSET Tx]
         /\ InPool' = InPool \ S /\ \A x \in InPool' : pool'[x] = pool[x]
         /\ \A q \in Ki : keyImages'[q] = keyImages[q] \ S
<1>1. pool \in Entries /\ keyImages \in [Ki -> SUBSET Tx]
  BY DEF Shapes
<1>2. /\ pool' \in Entries /\ DOMAIN pool' = DOMAIN pool \ S
      /\ \A x \in DOMAIN pool \ S : pool'[x] = pool[x]
  BY <1>1, CutFacts
<1>3. /\ keyImages' \in [Ki -> SUBSET Tx]
      /\ \A q \in Ki : keyImages'[q] = keyImages[q] \ S
  BY <1>1 DEF Unindexed
<1> QED BY <1>2, <1>3 DEF InPool

-----------------------------------------------------------------------------
(***************************************************************************)
(* Types.                                                                  *)
(***************************************************************************)
\* The states in which a user of the pool does nothing.
LEMMA OutStates ==
  /\ BlkOut \in BlkState /\ BlkOut.pc = "out" /\ NetOut \in NetState /\ NetOut.pc = "out"
  /\ IdleOut \in IdleState /\ IdleOut.pc = "out" /\ IdleOut.del = {}
  /\ TmplOut \in TmplState /\ TmplOut.pc = "out" /\ TmplOut.todo = NoEntries
<1>1. BlkOut \in BlkState /\ BlkOut.pc = "out"
  BY DEF BlkOut, BlkState
<1>2. NetOut \in NetState /\ NetOut.pc = "out"
  BY DEF NetOut, NetState
<1>3. IdleOut \in IdleState /\ IdleOut.pc = "out" /\ IdleOut.del = {}
  BY DEF IdleOut, IdleState
<1>4. TmplOut \in TmplState /\ TmplOut.pc = "out" /\ TmplOut.todo = NoEntries
  BY EntriesFacts DEF TmplOut, TmplState
<1> QED BY <1>1, <1>2, <1>3, <1>4

LEMMA InitShapes == Init => Shapes
<1> SUFFICES ASSUME Init PROVE Shapes
  OBVIOUS
<1>1. NoEntries \in Entries
  BY EntriesFacts
<1>2. /\ pool \in Entries /\ keyImages \in [Ki -> SUBSET Tx]
      /\ taken \in SUBSET Tx /\ black \in SUBSET Tx /\ alt \in SUBSET Tx
      /\ com \in Seq(Block) /\ view \in Seq(Block)
  BY <1>1 DEF Init
<1>3. /\ blk \in BlkState /\ net \in NetState /\ idle \in IdleState /\ tmpl \in TmplState
      /\ blk.pc = "out" /\ net.pc = "out" /\ tmpl.pc = "out" /\ purge \in BOOLEAN
  BY OutStates DEF Init
<1> QED BY <1>2, <1>3 DEF Shapes, Busied

LEMMA BlockShapes ==
  ASSUME Shapes, BlockThread
  PROVE  Shapes'
<1>0. None \notin Tx /\ TxOf \in [Block -> Tx \cup {None}]
  BY TreeAssumption
<1>1. CASE BeginBlock
  BY <1>1 DEF BeginBlock, Shapes, chainVars, BlkState
<1>2. ASSUME NEW b \in Block, TakeTx(b) PROVE Shapes'
  <2>1. pool' \in Entries /\ keyImages' \in [Ki -> SUBSET Tx]
    BY <1>2, RemoveFacts DEF TakeTx, BlkState
  <2>2. taken' \in SUBSET Tx /\ blk' = [pc |-> "took", b |-> b, fromPool |-> TxOf[b] \in InPool]
    BY <1>2, EntriesFacts DEF TakeTx, Shapes, InPool, BlkState
  <2>3. blk' \in BlkState /\ blk'.b \in Block
    BY <2>2 DEF BlkState
  <2> QED BY <1>2, <2>1, <2>2, <2>3 DEF TakeTx, Shapes, chainVars
<1>3. ASSUME NEW b \in Block, AddAlt(b) PROVE Shapes'
  <2>1. TxOf[b] \in Tx
    BY <1>3, EntriesFacts, ChainFacts DEF AddAlt, Shapes, InPool
  <2> QED BY <1>3, <2>1 DEF AddAlt, Shapes, threads
<1>4. CASE Connect
  <2>1. view' \in Seq(Block)
    BY <1>4, AppendFacts DEF Connect, Shapes, BlkState
  <2> QED BY <1>4, <2>1 DEF Connect, Shapes, BlkOut, BlkState
<1>5. CASE RejectBlock
  <2>1. CASE blk.fromPool
    <3>1. TxOf[blk.b] \in Tx
      BY <1>5, <1>0 DEF RejectBlock, Shapes, BlkState
    <3>2. pool' \in Entries /\ keyImages' \in [Ki -> SUBSET Tx]
      BY <1>5, <2>1, <3>1, InsertFacts DEF RejectBlock, BlkState
    <3> QED BY <1>5, <2>1, <3>1, <3>2 DEF RejectBlock, Shapes, BlkOut, PutBack, NetState, chainVars, BlkState
  <2>2. CASE ~blk.fromPool
    BY <1>5, <2>2 DEF RejectBlock, Shapes, BlkOut, chainVars, BlkState
  <2> QED BY <2>1, <2>2
<1>6. CASE Disconnect
  <2>1. view' \in Seq(Block)
    BY <1>6, FrontFacts DEF Disconnect, Shapes
  <2>2. TipOf(view) \in Block
    BY <1>6, ChainFacts DEF Disconnect, Shapes
  <2>3. CASE TxOf[TipOf(view)] = None
    BY <1>6, <2>1, <2>3 DEF Disconnect, Shapes
  <2>4. CASE TxOf[TipOf(view)] # None
    <3>1. TxOf[TipOf(view)] \in Tx
      BY <1>0, <2>2, <2>4
    <3>2. MaxUsed(TxOf[TipOf(view)], view') \in Block \cup {Genesis, None}
      BY <2>1, <3>1, MaxUsedFacts
    <3>3. pool' \in Entries /\ keyImages' \in [Ki -> SUBSET Tx]
      BY <1>6, <2>4, <3>1, <3>2, InsertFacts DEF Disconnect
    <3> QED BY <1>6, <2>1, <2>4, <3>1, <3>3 DEF Disconnect, Shapes, PutBack, NetState
  <2> QED BY <2>3, <2>4
<1>7. CASE EraseAlt
  BY <1>7 DEF EraseAlt, Shapes, threads
<1>8. CASE CommitBlock \/ AbortBlock
  BY <1>8 DEF CommitBlock, AbortBlock, Shapes, BlkOut, BlkState
<1>9. CASE FinalizeBlock
  BY <1>9 DEF FinalizeBlock, Shapes, BlkOut, chainVars, BlkState
<1> QED BY <1>1, <1>2, <1>3, <1>4, <1>5, <1>6, <1>7, <1>8, <1>9 DEF BlockThread

LEMMA NetShapes ==
  ASSUME Shapes, NetThread
  PROVE  Shapes'
<1>1. ASSUME NEW t \in Tx, Receive(t) PROVE Shapes'
  BY <1>1 DEF Receive, NetFrame, Shapes, NetOut, chainVars, NetState
<1>2. CASE CheckTaken \/ CheckChain \/ CheckKeyImages
  <2>1. net' = NetOut \/ \E l \in {"chain", "images", "inputs"} : net' = [net EXCEPT !.pc = l]
    BY <1>2 DEF CheckTaken, CheckChain, CheckKeyImages, NetGoto
  <2>2. net.t \in Tx /\ NetFrame
    BY <1>2 DEF CheckTaken, CheckChain, CheckKeyImages, Shapes
  <2>3. net' \in NetState /\ (net'.pc # "out" => net'.t \in Tx)
    BY <2>1, <2>2, OutStates DEF Shapes, NetState
  <2> QED BY <2>2, <2>3 DEF NetFrame, Shapes, chainVars
<1>3. CASE CheckInputs
  <2>1. MaxUsed(net.t, com) \in Block \cup {Genesis, None}
    BY <1>3, MaxUsedFacts DEF CheckInputs, Shapes, NetState
  <2>2. net' \in NetState /\ (net'.pc # "out" => net'.t \in Tx)
    BY <1>3, <2>1, OutStates DEF CheckInputs, Shapes, NetState
  <2> QED BY <1>3, <2>2 DEF CheckInputs, NetFrame, Shapes, chainVars
<1>4. CASE InsertTx
  <2>1. net.t \in Tx /\ net.used \in Block \cup {Genesis, None}
    BY <1>4 DEF InsertTx, Shapes, NetState
  <2>2. pool' \in Entries /\ keyImages' \in [Ki -> SUBSET Tx]
    BY <1>4, <2>1, InsertFacts DEF InsertTx, NetState
  <2> QED BY <1>4, <2>2 DEF InsertTx, Shapes, NetOut, chainVars, NetState
<1> QED BY <1>1, <1>2, <1>3, <1>4 DEF NetThread, NetState

LEMMA IdleShapes ==
  ASSUME Shapes, IdleThread
  PROVE  Shapes'
<1>1. CASE CollectStuck
  <2>1. idle'.pc = "delete" /\ idle'.del \in SUBSET InPool /\ idle' \in [pc : {"delete"}, del : SUBSET InPool]
    BY <1>1 DEF CollectStuck
  <2> QED BY <1>1, <2>1, EntriesFacts DEF CollectStuck, Shapes, chainVars, InPool, IdleState
<1>2. CASE DeleteStuck
  <2>1. pool' \in Entries /\ keyImages' \in [Ki -> SUBSET Tx]
    BY <1>2, RemoveFacts DEF DeleteStuck
  <2> QED BY <1>2, <2>1 DEF DeleteStuck, Shapes, IdleOut, chainVars, IdleState
<1> QED BY <1>1, <1>2 DEF IdleThread

LEMMA TemplateShapes ==
  ASSUME Shapes, Template
  PROVE  Shapes'
<1>1. CASE StartTemplate
  BY <1>1, EntriesFacts, ChainFacts DEF StartTemplate, TmplFrame, Shapes, Busied, TmplOut, chainVars, TmplState
<1>2. CASE Snapshot
  BY <1>2 DEF Snapshot, TmplFrame, Shapes, Busied, chainVars, TmplState
<1>3. ASSUME NEW t \in Tx, PassOver(t) PROVE Shapes'
  <2>1. Cut(tmpl.todo, {t}) \in Entries
    BY CutFacts DEF Shapes, TmplState
  <2> QED BY <1>3, <2>1 DEF PassOver, TmplFrame, Shapes, Busied, chainVars, TmplState
<1>4. ASSUME NEW t \in Tx, Consider(t) PROVE Shapes'
  <2> DEFINE e == tmpl.todo[t]
  <2>1. Cut(tmpl.todo, {t}) \in Entries
    BY CutFacts DEF Shapes, TmplState
  <2>2. e \in Details
    BY <1>4, EntriesFacts DEF Consider, Shapes, TmplState
  <2>3. [e EXCEPT !.used = MaxUsed(t, com)] \in Details
    BY <2>2, MaxUsedFacts DEF Details, Shapes, TmplState
  <2>4. \E l \in {"judge", "failed"}, c \in Details :
          tmpl' = [tmpl EXCEPT !.t = t, !.todo = Cut(@, {t}), !.pc = l, !.copy = c]
    <3>1. tmpl \in [pc : {"out", "snap", "fill", "judge", "failed", "write", "done"},
               prev : Block \cup {Genesis, None}, todo : Entries, chosen : SUBSET Tx,
               t : Tx \cup {None}, copy : Details \cup {None}]
      BY DEF Shapes, TmplState
    <3> HIDE DEF e, TmplState
    <3> QED BY <1>4, <2>2, <2>3, <3>1 DEF Consider, e, TmplState
  <2>5. PICK l \in {"judge", "failed"}, c \in Details :
          tmpl' = [tmpl EXCEPT !.t = t, !.todo = Cut(@, {t}), !.pc = l, !.copy = c]
    BY <2>4
  <2> QED BY <1>4, <2>1, <2>5 DEF Consider, TmplFrame, Shapes, Busied, chainVars, TmplState
<1>5. CASE Fail
  <2>1. tmpl.copy \in Details /\ TipOf(com) \in Block \cup {Genesis}
    BY <1>5, ChainFacts DEF Fail, Shapes, Busied, TmplState
  <2>2. [tmpl.copy EXCEPT !.failed = TipOf(com)] \in Details
    BY <2>1 DEF Details, TmplState
  <2>3. /\ tmpl' \in [pc : {"fill", "write"},
               prev : Block \cup {Genesis, None}, todo : Entries, chosen : SUBSET Tx,
               t : Tx \cup {None}, copy : Details \cup {None}]
        /\ tmpl'.pc = "write" => tmpl'.t \in Tx /\ tmpl'.copy \in Details
    BY <1>5, <2>2 DEF Fail, Shapes, Busied, TmplState
  <2> QED BY <1>5, <2>3 DEF Fail, TmplFrame, Shapes, Busied, chainVars, TmplState
<1>6. CASE WriteBack
  <2>1. pool' \in Entries
    BY <1>6, PutFacts DEF WriteBack, Shapes, Busied, TmplState
  <2> QED BY <1>6, <2>1 DEF WriteBack, PutBack, NetState, Shapes, Busied, chainVars, TmplState
<1>7. CASE Judge
  <2>1. tmpl.t \in Tx
    BY <1>7 DEF Judge, Shapes, Busied, TmplState
  <2>2. \E S \in SUBSET Tx : tmpl' = [tmpl EXCEPT !.pc = "fill", !.t = None, !.copy = None, !.chosen = S]
    BY <1>7, <2>1 DEF Judge, Shapes, TmplState
  <2> QED BY <1>7, <2>2 DEF Judge, TmplFrame, Shapes, Busied, chainVars, TmplState
<1>8. CASE FinishTemplate \/ UseTemplate
  BY <1>8, EntriesFacts DEF FinishTemplate, UseTemplate, TmplFrame, Shapes, Busied, TmplOut, chainVars, TmplState
<1> QED BY <1>1, <1>2, <1>3, <1>4, <1>5, <1>6, <1>7, <1>8 DEF Template, TmplState

LEMMA OtherShapes ==
  ASSUME Shapes, PurgeDb \/ PurgeKeyImages \/ Restart \/ UNCHANGED vars
  PROVE  Shapes'
<1>1. CASE PurgeDb
  BY <1>1, EntriesFacts DEF PurgeDb, Shapes, chainVars
<1>2. CASE PurgeKeyImages
  BY <1>2 DEF PurgeKeyImages, Shapes, chainVars
<1>3. CASE Restart
  BY <1>3, EntriesFacts, OutStates DEF Restart, Shapes, Busied, InPool
<1>4. CASE UNCHANGED vars
  BY <1>4 DEF vars, chainVars, threads, Shapes
<1> QED BY <1>1, <1>2, <1>3, <1>4

LEMMA ShapesStep ==
  ASSUME Shapes, [Next]_vars
  PROVE  Shapes'
BY BlockShapes, NetShapes, IdleShapes, TemplateShapes, OtherShapes DEF Next

\* Every variable keeps its type: the entries of the pool, the index and the state of
\* the five users of the pool.
THEOREM TypeCorrect == Spec => []TypeOK
<1>1. Shapes => TypeOK
  BY EntriesFacts DEF Shapes, TypeOK, InPool, BlkState, NetState, IdleState, TmplState
<1>2. Spec => []Shapes
  BY InitShapes, ShapesStep, PTL DEF Spec
<1> QED BY <1>1, <1>2, PTL

-----------------------------------------------------------------------------
(***************************************************************************)
(* The index of key images and the idle thread.                            *)
(***************************************************************************)
IndexInv == \A k \in Ki : \A t \in keyImages[k] : k \in KiOf[t] /\ (purge \/ t \in InPool)

StuckInv ==
  /\ idle.pc = "out" => idle.del = {}
  /\ idle.pc = "delete" => blk.pc = "out"
  /\ StuckNotAlt

LEMMA IndexStep ==
  ASSUME Shapes, IndexInv, [Next]_vars
  PROVE  IndexInv'
<1>1. CASE UNCHANGED << pool, keyImages, purge >>
  BY <1>1 DEF IndexInv, InPool
<1>2. CASE \E S : pool' = Cut(pool, S) /\ keyImages' = Unindexed(S) /\ UNCHANGED purge
  <2>1. PICK S : pool' = Cut(pool, S) /\ keyImages' = Unindexed(S) /\ UNCHANGED purge
    BY <1>2
  <2>2. InPool' = InPool \ S /\ \A q \in Ki : keyImages'[q] = keyImages[q] \ S
    BY <2>1, RemoveFacts
  <2> QED BY <2>1, <2>2 DEF IndexInv
<1>3. CASE \E t \in Tx, k \in BOOLEAN, u \in Block \cup {Genesis, None} : Insert(t, k, u) /\ UNCHANGED purge
  <2>1. PICK t \in Tx, k \in BOOLEAN, u \in Block \cup {Genesis, None} : Insert(t, k, u) /\ UNCHANGED purge
    BY <1>3
  <2>2. /\ InPool' = InPool \cup {t}
        /\ \A q \in Ki : keyImages'[q] = IF q \in KiOf[t] THEN keyImages[q] \cup {t} ELSE keyImages[q]
    BY <2>1, InsertFacts
  <2> QED BY <2>1, <2>2 DEF IndexInv
<1>4. CASE BlockThread
  <2>1. \A b \in Block : TakeTx(b) => IndexInv'
    BY <1>2 DEF TakeTx
  <2>2. CASE RejectBlock
    <3>1. TxOf[blk.b] \in Tx
      BY <2>2, TreeAssumption DEF RejectBlock, Shapes
    <3> QED BY <1>1, <1>3, <2>2, <3>1 DEF RejectBlock
  <2>3. CASE Disconnect
    <3>1. TipOf(view) \in Block /\ view' \in Seq(Block)
      BY <2>3, ChainFacts, FrontFacts DEF Disconnect, Shapes
    <3>2. TxOf[TipOf(view)] \in Tx \cup {None}
      BY <3>1, TreeAssumption
    <3>3. \A t \in Tx : MaxUsed(t, view') \in Block \cup {Genesis, None}
      BY <3>1, MaxUsedFacts
    <3> QED BY <1>1, <1>3, <2>3, <3>2, <3>3 DEF Disconnect
  <2> QED BY <1>1, <1>4, <2>1, <2>2, <2>3 DEF BlockThread, BeginBlock, AddAlt, Connect, EraseAlt,
            CommitBlock, AbortBlock, FinalizeBlock, threads
<1>5. CASE NetThread
  <2>1. CASE InsertTx
    <3>1. net.t \in Tx /\ net.used \in Block \cup {Genesis, None}
      BY <2>1 DEF InsertTx, Shapes, NetState
    <3> QED BY <1>3, <2>1, <3>1 DEF InsertTx
  <2> QED BY <1>1, <1>5, <2>1 DEF NetThread, Receive, CheckTaken, CheckChain, CheckKeyImages,
            CheckInputs, NetFrame
<1>6. CASE IdleThread
  BY <1>1, <1>2, <1>6 DEF IdleThread, CollectStuck, DeleteStuck
<1>7. CASE Template
  <2>1. CASE WriteBack
    <3>1. InPool \subseteq InPool'
      BY <2>1, WriteBackFacts
    <3> QED BY <2>1, <3>1 DEF WriteBack, IndexInv
  <2> QED BY <1>1, <1>7, <2>1 DEF Template, StartTemplate, Snapshot, PassOver, Consider, Fail, Judge,
            FinishTemplate, UseTemplate, TmplFrame
<1>8. CASE PurgeDb
  BY <1>8 DEF PurgeDb, IndexInv
<1>9. CASE PurgeKeyImages
  BY <1>9 DEF PurgeKeyImages, IndexInv
<1>10. CASE Restart
  BY <1>10 DEF Restart, IndexInv, InPool
<1>11. CASE UNCHANGED vars
  BY <1>1, <1>11 DEF vars, threads
<1> QED BY <1>4, <1>5, <1>6, <1>7, <1>8, <1>9, <1>10, <1>11 DEF Next

\* A key image is reserved only for transactions in the pool that spend it: whether a
\* block takes a transaction, refuses it, is undone or dies with the process, and
\* whatever the idle thread removes or a template writes back, no coin stays blocked
\* by a transaction that has left the pool.
THEOREM IndexIsSound == Spec => []IndexSound
<1>1. Init => IndexInv
  BY DEF Init, IndexInv
<1>2. IndexInv => IndexSound
  BY DEF IndexInv, IndexSound
<1>3. Shapes /\ IndexInv /\ [Next]_vars => IndexInv'
  BY IndexStep
<1>4. Spec => []Shapes
  BY InitShapes, ShapesStep, PTL DEF Spec
<1> QED BY <1>1, <1>2, <1>3, <1>4, PTL DEF Spec

LEMMA StuckStep ==
  ASSUME Shapes, StuckInv, [Next]_vars
  PROVE  StuckInv'
<1>0. idle.pc \in {"out", "delete"}
  BY DEF Shapes, IdleState
<1>1. CASE idle' = idle /\ alt' \subseteq alt /\ (idle.pc = "out" \/ blk' = blk)
  BY <1>1 DEF StuckInv, StuckNotAlt
<1>2. CASE idle' = IdleOut
  BY <1>2, OutStates DEF StuckInv, StuckNotAlt
<1>3. CASE BlockThread
  <2>1. blk.pc # "out" \/ BeginBlock
    BY <1>3 DEF BlockThread, TakeTx, AddAlt, Connect, RejectBlock, Disconnect, EraseAlt,
         CommitBlock, AbortBlock, FinalizeBlock
  <2>2. idle.pc = "out" /\ idle' = idle
    BY <1>0, <1>3, <2>1 DEF StuckInv, BeginBlock, BlockThread, TakeTx, AddAlt, Connect, RejectBlock,
         Disconnect, EraseAlt, CommitBlock, AbortBlock, FinalizeBlock, threads
  <2> QED BY <2>2 DEF StuckInv, StuckNotAlt
<1>4. CASE NetThread
  BY <1>1, <1>4 DEF NetThread, Receive, CheckTaken, CheckChain, CheckKeyImages, CheckInputs, InsertTx,
       NetFrame, chainVars
<1>5. CASE CollectStuck
  <2>1. PICK old \in SUBSET InPool : idle' = [pc |-> "delete", del |-> { t \in InPool : Stuck(t, old) }]
    BY <1>5 DEF CollectStuck
  <2> DEFINE D == { t \in InPool : Stuck(t, old) }
  <2>2. idle'.pc = "delete" /\ idle'.del = D
    <3> HIDE DEF D
    <3> QED BY <2>1 DEF D
  <2>3. idle'.del \cap alt = {}
    BY <2>2 DEF Stuck
  <2> QED BY <1>5, <2>2, <2>3 DEF CollectStuck, StuckInv, StuckNotAlt, chainVars
<1>6. CASE DeleteStuck \/ Restart
  BY <1>2, <1>6 DEF DeleteStuck, Restart
<1>7. CASE Template
  BY <1>1, <1>7 DEF Template, StartTemplate, Snapshot, PassOver, Consider, Fail, WriteBack, Judge,
       FinishTemplate, UseTemplate, TmplFrame, chainVars
<1>8. CASE PurgeDb \/ PurgeKeyImages \/ UNCHANGED vars
  BY <1>1, <1>8 DEF PurgeDb, PurgeKeyImages, vars, threads, chainVars
<1> QED BY <1>3, <1>4, <1>5, <1>6, <1>7, <1>8 DEF Next, IdleThread

\* What the idle thread is about to delete has not become part of an alternative block
\* between the two halves of remove_stuck_transactions: the pool's lock() keeps
\* add_new_block out for as long.
THEOREM StuckIsNotAlt == Spec => []StuckNotAlt
<1>1. Init => StuckInv
  BY OutStates DEF Init, StuckInv, StuckNotAlt
<1>2. StuckInv => StuckNotAlt
  BY DEF StuckInv
<1>3. Shapes /\ StuckInv /\ [Next]_vars => StuckInv'
  BY StuckStep
<1>4. Spec => []Shapes
  BY InitShapes, ShapesStep, PTL DEF Spec
<1> QED BY <1>1, <1>2, <1>3, <1>4, PTL DEF Spec

-----------------------------------------------------------------------------
(***************************************************************************)
(* The two chains.                                                         *)
(***************************************************************************)
Standing(c) == \A i \in 1..Len(c) : HeightOf[c[i]] = i

ChainInv ==
  /\ Standing(com) /\ Standing(view)
  /\ blk.pc = "took" => Parent[blk.b] = TipOf(view)
  /\ blk.pc \in {"out", "ended"} => view = com

\* The height of the top block is the length of the chain.
LEMMA TipHeight ==
  ASSUME NEW c \in Seq(Block), Standing(c)
  PROVE  HeightOf[TipOf(c)] = Len(c)
<1>1. CASE c = <<>>
  BY <1>1, TreeAssumption DEF TipOf
<1>2. CASE c # <<>>
  <2>1. Len(c) \in 1..Len(c)
    BY <1>2
  <2> QED BY <1>2, <2>1 DEF TipOf, Standing
<1> QED BY <1>1, <1>2

\* The transactions of a chain with one block more or one less.
LEMMA TxsAppend ==
  ASSUME NEW c \in Seq(Block), NEW b \in Block
  PROVE  TxsIn(Append(c, b)) = TxsIn(c) \cup ({TxOf[b]} \ {None})
BY AppendFacts DEF TxsIn

LEMMA TxsFront ==
  ASSUME NEW c \in Seq(Block), c # <<>>
  PROVE  TxsIn(SubSeq(c, 1, Len(c) - 1)) \in SUBSET TxsIn(c)
<1> DEFINE d == SubSeq(c, 1, Len(c) - 1)
<1>1. Len(d) = Len(c) - 1 /\ (\A i \in 1..Len(d) : d[i] = c[i] /\ i \in 1..Len(c))
  BY FrontFacts
<1> HIDE DEF d
<1>2. TxsIn(d) \in SUBSET TxsIn(c)
  BY <1>1 DEF TxsIn
<1> QED BY <1>2 DEF d

LEMMA ChainStep ==
  ASSUME Shapes, ChainInv, [Next]_vars
  PROVE  ChainInv'
<1>0. /\ com \in Seq(Block) /\ view \in Seq(Block) /\ blk \in BlkState
      /\ (blk.pc = "took" => blk.b \in Block)
  BY DEF Shapes
<1>1. CASE UNCHANGED << com, view, blk >>
  BY <1>1 DEF ChainInv, Standing
<1>2. CASE BlockThread
  <2>1. CASE BeginBlock
    <3>1. blk'.pc = "in"
      BY <1>0, <2>1 DEF BeginBlock, BlkState
    <3> QED BY <2>1, <3>1 DEF BeginBlock, ChainInv, Standing, chainVars
  <2>2. ASSUME NEW b \in Block, TakeTx(b) PROVE ChainInv'
    <3>1. blk'.pc = "took" /\ blk'.b = b
      BY <2>2 DEF TakeTx
    <3> QED BY <2>2, <3>1 DEF TakeTx, ChainInv, Standing, TipOf, chainVars
  <2>3. CASE Connect
    <3>1. /\ view' = Append(view, blk.b) /\ com' = com /\ blk.b \in Block /\ blk'.pc = "in"
          /\ Parent[blk.b] = TipOf(view)
      BY <1>0, <2>3 DEF Connect, BlkOut, BlkState, ChainInv
    <3>2. HeightOf[blk.b] = Len(view) + 1
      BY <1>0, <3>1, TipHeight, TreeAssumption DEF ChainInv
    <3>3. Standing(view')
      BY <1>0, <3>1, <3>2, AppendFacts DEF ChainInv, Standing
    <3> QED BY <3>1, <3>3 DEF ChainInv, Standing
  <2>4. CASE RejectBlock
    <3>1. blk'.pc = "in" /\ UNCHANGED << com, view >>
      BY <2>4 DEF RejectBlock, BlkOut, chainVars
    <3> QED BY <3>1 DEF ChainInv, Standing
  <2>5. CASE Disconnect
    <3>1. view # <<>> /\ view' = SubSeq(view, 1, Len(view) - 1) /\ blk.pc = "in" /\ UNCHANGED << com, blk >>
      BY <2>5 DEF Disconnect
    <3>2. Standing(view')
      BY <1>0, <3>1, FrontFacts DEF ChainInv, Standing
    <3> QED BY <3>1, <3>2 DEF ChainInv, Standing
  <2>6. CASE CommitBlock
    <3>1. com' = view /\ view' = view /\ blk'.pc = "ended"
      BY <1>0, <2>6 DEF CommitBlock, BlkState
    <3> QED BY <3>1 DEF ChainInv, Standing
  <2>7. CASE AbortBlock
    <3>1. com' = com /\ view' = com /\ blk'.pc = "ended"
      BY <2>7 DEF AbortBlock, BlkOut
    <3> QED BY <3>1 DEF ChainInv, Standing
  <2>8. CASE FinalizeBlock
    <3>1. blk.pc = "ended" /\ blk'.pc = "out" /\ UNCHANGED << com, view >>
      BY <2>8 DEF FinalizeBlock, BlkOut, chainVars
    <3> QED BY <3>1 DEF ChainInv, Standing
  <2> QED BY <1>1, <1>2, <2>1, <2>2, <2>3, <2>4, <2>5, <2>6, <2>7, <2>8
          DEF BlockThread, AddAlt, EraseAlt, threads
<1>3. CASE Restart
  <2>1. com' = com /\ view' = com /\ blk'.pc = "out"
    BY <1>3, OutStates DEF Restart
  <2> QED BY <2>1 DEF ChainInv, Standing
<1>4. CASE NetThread \/ IdleThread \/ Template \/ PurgeDb \/ PurgeKeyImages \/ UNCHANGED vars
  <2>1. UNCHANGED << com, view, blk >>
    BY <1>4 DEF NetThread, IdleThread, Template, PurgeDb, PurgeKeyImages, vars, threads, chainVars,
         Receive, CheckTaken, CheckChain, CheckKeyImages, CheckInputs, InsertTx, NetFrame,
         CollectStuck, DeleteStuck, StartTemplate, Snapshot, PassOver, Consider, Fail, WriteBack, Judge,
         FinishTemplate, UseTemplate, TmplFrame
  <2> QED BY <1>1, <2>1
<1> QED BY <1>2, <1>3, <1>4 DEF Next

-----------------------------------------------------------------------------
(***************************************************************************)
(* The receiving thread.                                                   *)
(***************************************************************************)
KnownInv ==
  /\ blk.pc = "took" => TxOf[blk.b] \in taken \cup Carried \cup {None}
  /\ TxsIn(view) \subseteq TxsIn(com) \cup taken \cup Carried
  /\ net.pc # "out" /\ ~net.back =>
       /\ net.t \notin InPool
       /\ net.pc # "taken" => net.t \notin taken
       /\ net.pc \in {"images", "inputs", "insert"} =>
            net.t \in Carried \/ net.t \notin TxsIn(com) \cup TxsIn(view)

\* A step of another user of the pool that puts nothing into it and takes nothing.
LEMMA KnownQuiet ==
  ASSUME KnownInv, UNCHANGED << com, view, blk, taken >>, InPool' \subseteq InPool,
         net' = net \/ net'.pc = "out"
  PROVE  KnownInv'
BY DEF KnownInv, TxsIn

\* Whoever puts a transaction back into the pool is noticed.
LEMMA PutBackFacts ==
  ASSUME Shapes, NEW t \in Tx, PutBack(t), InPool' = InPool \cup {t}
  PROVE  /\ net'.pc = net.pc /\ net'.t = net.t
         /\ (~net'.back => ~net.back /\ net.t # t)
BY DEF PutBack, Shapes, NetState

LEMMA KnownBlock ==
  ASSUME Shapes, ChainInv, KnownInv, BlockThread
  PROVE  KnownInv'
<1>0. /\ com \in Seq(Block) /\ view \in Seq(Block) /\ blk \in BlkState /\ net \in NetState
      /\ (blk.pc = "took" => blk.b \in Block) /\ None \notin Tx /\ TxOf \in [Block -> Tx \cup {None}]
  BY TreeAssumption DEF Shapes
<1>1. CASE BeginBlock
  <2>1. blk'.pc = "in" /\ UNCHANGED << com, view, taken, net, pool >>
    BY <1>0, <1>1 DEF BeginBlock, BlkState, chainVars
  <2> QED BY <2>1 DEF KnownInv, TxsIn, InPool
<1>2. ASSUME NEW b \in Block, TakeTx(b) PROVE KnownInv'
  <2>1. /\ blk'.pc = "took" /\ blk'.b = b /\ UNCHANGED << com, view, net >>
        /\ taken' = taken \cup ({TxOf[b]} \cap InPool)
        /\ TxOf[b] = None \/ TxOf[b] \in InPool \cup Carried
    BY <1>2 DEF TakeTx, chainVars
  <2>2. InPool' \subseteq InPool
    BY <1>2, RemoveFacts DEF TakeTx
  <2>3. TxOf[blk'.b] \in taken' \cup Carried \cup {None}
    BY <2>1
  <2>4. TxsIn(view)' \subseteq TxsIn(com)' \cup taken' \cup Carried
    BY <2>1 DEF KnownInv, TxsIn
  <2>5. net.pc # "out" /\ ~net.back => net.t \notin InPool' /\ (net.pc # "taken" => net.t \notin taken')
    BY <2>1, <2>2 DEF KnownInv
  <2> QED BY <2>1, <2>3, <2>4, <2>5 DEF KnownInv, TxsIn
<1>3. ASSUME NEW b \in Block, AddAlt(b) PROVE KnownInv'
  BY <1>3, KnownQuiet DEF AddAlt, threads, InPool
<1>4. CASE Connect
  <2>1. /\ blk.pc = "took" /\ blk.b \in Block /\ blk'.pc = "in" /\ view' = Append(view, blk.b)
        /\ UNCHANGED << com, taken, net, pool >>
    BY <1>0, <1>4 DEF Connect, BlkOut
  <2>2. TxsIn(view') = TxsIn(view) \cup ({TxOf[blk.b]} \ {None})
    BY <1>0, <2>1, TxsAppend
  <2>3. TxsIn(com)' = TxsIn(com) /\ TxsIn(view)' = TxsIn(view') /\ InPool' = InPool
    BY <2>1 DEF TxsIn, InPool
  <2> QED BY <2>1, <2>2, <2>3 DEF KnownInv
<1>5. CASE RejectBlock
  <2>1. TxOf[blk.b] \in Tx /\ blk'.pc = "in" /\ UNCHANGED << com, view, taken >>
    BY <1>0, <1>5 DEF RejectBlock, BlkOut, chainVars
  <2>2. CASE blk.fromPool
    <3>1. InPool' = InPool \cup {TxOf[blk.b]}
      BY <1>5, <2>1, <2>2, InsertFacts DEF RejectBlock
    <3>2. net'.pc = net.pc /\ net'.t = net.t /\ (~net'.back => ~net.back /\ net.t # TxOf[blk.b])
      BY <1>5, <2>1, <2>2, <3>1, PutBackFacts DEF RejectBlock
    <3> QED BY <2>1, <3>1, <3>2 DEF KnownInv, TxsIn
  <2>3. CASE ~blk.fromPool
    <3>1. UNCHANGED << pool, net >>
      BY <1>5, <2>3 DEF RejectBlock
    <3> QED BY <2>1, <3>1 DEF KnownInv, TxsIn, InPool
  <2> QED BY <2>2, <2>3
<1>6. CASE Disconnect
  <2> DEFINE t == TxOf[TipOf(view)]
  <2>1. /\ view # <<>> /\ view' = SubSeq(view, 1, Len(view) - 1) /\ TipOf(view) \in Block
        /\ blk.pc = "in" /\ UNCHANGED << com, taken, blk >>
    BY <1>0, <1>6, ChainFacts DEF Disconnect
  <2>2. TxsIn(view') \in SUBSET TxsIn(view) /\ view' \in Seq(Block)
    BY <1>0, <2>1, TxsFront, FrontFacts
  <2>3. TxsIn(com)' = TxsIn(com) /\ TxsIn(view)' = TxsIn(view')
    BY <2>1 DEF TxsIn
  <2>4. CASE t = None
    <3>1. UNCHANGED << pool, net >>
      BY <1>6, <2>4 DEF Disconnect
    <3> QED BY <2>1, <2>2, <2>3, <3>1 DEF KnownInv, InPool
  <2>5. CASE t # None
    <3>1. t \in Tx
      BY <1>0, <2>1, <2>5
    <3>2. MaxUsed(t, view') \in Block \cup {Genesis, None}
      BY <2>2, <3>1, MaxUsedFacts
    <3>3. Insert(t, TRUE, MaxUsed(t, view')) /\ PutBack(t)
      BY <1>6, <2>5 DEF Disconnect
    <3> HIDE DEF t
    <3>4. InPool' = InPool \cup {t}
      BY <3>1, <3>2, <3>3, InsertFacts
    <3>5. net'.pc = net.pc /\ net'.t = net.t /\ (~net'.back => ~net.back /\ net.t # t)
      BY <3>1, <3>3, <3>4, PutBackFacts
    <3> QED BY <2>1, <2>2, <2>3, <3>4, <3>5 DEF KnownInv
  <2> QED BY <2>4, <2>5
<1>7. CASE EraseAlt
  BY <1>7, KnownQuiet DEF EraseAlt, threads, InPool
<1>8. CASE CommitBlock
  <2>1. com' = view /\ blk'.pc = "ended" /\ UNCHANGED << view, taken, net, pool >>
    BY <1>0, <1>8 DEF CommitBlock, BlkState
  <2>2. TxsIn(com)' = TxsIn(view) /\ TxsIn(view)' = TxsIn(view) /\ InPool' = InPool
    BY <2>1 DEF TxsIn, InPool
  <2> QED BY <2>1, <2>2 DEF KnownInv
<1>9. CASE AbortBlock
  <2>1. view' = com /\ blk'.pc = "ended" /\ UNCHANGED << com, taken, net, pool >>
    BY <1>9 DEF AbortBlock, BlkOut
  <2>2. TxsIn(com)' = TxsIn(com) /\ TxsIn(view)' = TxsIn(com) /\ InPool' = InPool
    BY <2>1 DEF TxsIn, InPool
  <2> QED BY <2>1, <2>2 DEF KnownInv
<1>10. CASE FinalizeBlock
  <2>1. view = com /\ blk'.pc = "out" /\ taken' = {} /\ UNCHANGED << com, view, net, pool >>
    BY <1>10 DEF FinalizeBlock, BlkOut, ChainInv, chainVars
  <2>2. TxsIn(com)' = TxsIn(com) /\ TxsIn(view)' = TxsIn(com) /\ InPool' = InPool
    BY <2>1 DEF TxsIn, InPool
  <2> QED BY <2>1, <2>2 DEF KnownInv
<1> QED BY <1>1, <1>2, <1>3, <1>4, <1>5, <1>6, <1>7, <1>8, <1>9, <1>10 DEF BlockThread

LEMMA KnownNet ==
  ASSUME Shapes, KnownInv, NetThread
  PROVE  KnownInv'
<1>0. net \in NetState
  BY DEF Shapes
<1>1. ASSUME UNCHANGED << com, view, blk, taken, pool >>, NEW l \in {"chain", "images", "inputs", "insert"},
             net'.pc = l, net'.t = net.t, net'.back = net.back, net.pc # "out",
             l = "chain" => net.t \notin taken,
             l # "chain" => net.pc # "taken",
             l = "images" => net.t \notin TxsIn(com),
             l \in {"inputs", "insert"} => net.pc \in {"images", "inputs"}
      PROVE  KnownInv'
  <2>1. TxsIn(com)' = TxsIn(com) /\ TxsIn(view)' = TxsIn(view) /\ InPool' = InPool
    BY <1>1 DEF TxsIn, InPool
  <2> QED BY <1>1, <2>1 DEF KnownInv
<1>2. ASSUME NEW t \in Tx, Receive(t) PROVE KnownInv'
  <2>1. net'.pc = "taken" /\ net'.t = t /\ t \notin InPool /\ UNCHANGED << com, view, blk, taken, pool >>
    BY <1>2 DEF Receive, NetOut, NetFrame, chainVars
  <2> QED BY <2>1 DEF KnownInv, TxsIn, InPool
<1>3. CASE CheckTaken
  <2>1. net.pc = "taken" /\ UNCHANGED << com, view, blk, taken, pool >>
    BY <1>3 DEF CheckTaken, NetFrame, chainVars
  <2>2. CASE net.t \in taken
    BY <1>3, <2>1, <2>2, KnownQuiet, OutStates DEF CheckTaken, InPool
  <2>3. CASE net.t \notin taken
    <3>1. net'.pc = "chain" /\ net'.t = net.t /\ net'.back = net.back
      BY <1>0, <1>3, <2>3 DEF CheckTaken, NetGoto, NetState
    <3> QED BY <1>1, <2>1, <2>3, <3>1
  <2> QED BY <2>2, <2>3
<1>4. CASE CheckChain
  <2>1. net.pc = "chain" /\ UNCHANGED << com, view, blk, taken, pool >>
    BY <1>4 DEF CheckChain, NetFrame, chainVars
  <2>2. CASE net.t \in TxsIn(com) \/ Cardinality(InPool) > MaxPool
    BY <1>4, <2>1, <2>2, KnownQuiet, OutStates DEF CheckChain, InPool
  <2>3. CASE ~(net.t \in TxsIn(com) \/ Cardinality(InPool) > MaxPool)
    <3>1. net'.pc = "images" /\ net'.t = net.t /\ net'.back = net.back
      BY <1>0, <1>4, <2>3 DEF CheckChain, NetGoto, NetState
    <3> QED BY <1>1, <2>1, <2>3, <3>1
  <2> QED BY <2>2, <2>3
<1>5. CASE CheckKeyImages
  <2>1. net.pc = "images" /\ UNCHANGED << com, view, blk, taken, pool >>
    BY <1>5 DEF CheckKeyImages, NetFrame, chainVars
  <2>2. net' = NetOut \/ (net'.pc = "inputs" /\ net'.t = net.t /\ net'.back = net.back)
    BY <1>0, <1>5 DEF CheckKeyImages, NetGoto, NetState
  <2> QED BY <1>1, <2>1, <2>2, KnownQuiet, OutStates DEF InPool
<1>6. CASE CheckInputs
  <2>1. net.pc = "inputs" /\ UNCHANGED << com, view, blk, taken, pool >>
    BY <1>6 DEF CheckInputs, NetFrame, chainVars
  <2>2. net' = NetOut \/ (net'.pc = "insert" /\ net'.t = net.t /\ net'.back = net.back)
    BY <1>0, <1>6 DEF CheckInputs, NetState
  <2> QED BY <1>1, <2>1, <2>2, KnownQuiet, OutStates DEF InPool
<1>7. CASE InsertTx
  <2>1. net'.pc = "out" /\ UNCHANGED << com, view, blk, taken >>
    BY <1>7, OutStates DEF InsertTx, chainVars
  <2> QED BY <2>1 DEF KnownInv, TxsIn
<1> QED BY <1>2, <1>3, <1>4, <1>5, <1>6, <1>7 DEF NetThread

LEMMA KnownOther ==
  ASSUME Shapes, KnownInv, IdleThread \/ Template \/ PurgeDb \/ PurgeKeyImages \/ Restart \/ UNCHANGED vars
  PROVE  KnownInv'
<1>1. CASE WriteBack
  <2>1. tmpl.t \in Tx /\ InPool' = InPool \cup {tmpl.t}
    BY <1>1, WriteBackFacts
  <2>2. PutBack(tmpl.t) /\ UNCHANGED << com, view, blk, taken >>
    BY <1>1 DEF WriteBack, chainVars
  <2>3. net'.pc = net.pc /\ net'.t = net.t /\ (~net'.back => ~net.back /\ net.t # tmpl.t)
    BY <2>1, <2>2, PutBackFacts
  <2> QED BY <2>1, <2>2, <2>3 DEF KnownInv, TxsIn
<1>2. CASE Restart
  <2>1. /\ com' = com /\ view' = com /\ blk'.pc = "out" /\ net'.pc = "out" /\ taken' = {}
    BY <1>2, OutStates DEF Restart
  <2> QED BY <2>1 DEF KnownInv, TxsIn
<1>3. CASE DeleteStuck
  <2>1. InPool' \subseteq InPool
    BY <1>3, RemoveFacts DEF DeleteStuck
  <2> QED BY <1>3, <2>1, KnownQuiet DEF DeleteStuck, chainVars
<1>4. CASE PurgeDb
  <2>1. InPool' = {}
    BY <1>4, EntriesFacts DEF PurgeDb, InPool
  <2> QED BY <1>4, <2>1, KnownQuiet DEF PurgeDb, chainVars
<1>5. CASE UNCHANGED << com, view, blk, taken, pool, net >>
  BY <1>5, KnownQuiet DEF InPool
<1>6. CASE CollectStuck \/ PurgeKeyImages \/ UNCHANGED vars
  BY <1>5, <1>6 DEF CollectStuck, PurgeKeyImages, vars, threads, chainVars
<1>7. CASE Template /\ ~WriteBack
  BY <1>5, <1>7 DEF Template, StartTemplate, Snapshot, PassOver, Consider, Fail, Judge,
       FinishTemplate, UseTemplate, TmplFrame, chainVars
<1> QED BY <1>1, <1>2, <1>3, <1>4, <1>6, <1>7 DEF IdleThread, Template

LEMMA ChainInit == Init => ChainInv /\ KnownInv
<1> SUFFICES ASSUME Init PROVE ChainInv /\ KnownInv
  OBVIOUS
<1>1. com = <<>> /\ view = <<>> /\ blk.pc = "out" /\ net.pc = "out"
  BY OutStates DEF Init
<1>2. Standing(<<>>)
  BY DEF Standing
<1> QED BY <1>1, <1>2 DEF ChainInv, KnownInv

\* have_tx reads the pool, the taken set and the committed chain at three moments, while
\* a block moves the transaction from the one to the other: a transaction of the
\* committed chain is nevertheless never admitted again, unless blocks bring it with
\* them or it came back to the pool after the first read.
THEOREM KnownIsNotAdmitted == Spec => []NoKnownTxAdmitted
<1>1. KnownInv => NoKnownTxAdmitted
  BY DEF KnownInv, NoKnownTxAdmitted
<1>2. Shapes /\ ChainInv /\ KnownInv /\ [Next]_vars => KnownInv'
  BY KnownBlock, KnownNet, KnownOther DEF Next
<1>3. Shapes /\ ChainInv /\ [Next]_vars => ChainInv'
  BY ChainStep
<1>4. Spec => []Shapes
  BY InitShapes, ShapesStep, PTL DEF Spec
<1> QED BY ChainInit, <1>1, <1>2, <1>3, <1>4, PTL DEF Spec

-----------------------------------------------------------------------------
(***************************************************************************)
(* The block template.  What an entry remembers of its inputs is true of   *)
(* every chain that has the remembered block; and a chain whose top block  *)
(* is the template's has not changed since the template was begun, for a   *)
(* committed chain is only ever replaced by a longer one.                  *)
(***************************************************************************)
Referred(t, c) == Ref[t] = None \/ Ref[t] \in TxsIn(c)
Truly(t, u)    == u # None => Ref[t] = None \/ (u \in Block /\ TxOf[u] = Ref[t])

EntryInv ==
  /\ \A t \in InPool : Truly(t, pool[t].used)
  /\ \A t \in DOMAIN tmpl.todo : Truly(t, tmpl.todo[t].used)
  /\ tmpl.pc \in Busied => Truly(tmpl.t, tmpl.copy.used)
  /\ net.pc = "insert" => Truly(net.t, net.used)

ChosenInv ==
  tmpl.pc # "out" =>
    /\ tmpl.prev \in Block \cup {Genesis} /\ HeightOf[tmpl.prev] <= Len(com)
    /\ \A t, u \in tmpl.chosen : t = u \/ KiOf[t] \cap KiOf[u] = {}
    /\ tmpl.prev = TipOf(com) =>
         /\ \A t \in tmpl.chosen : InputsOk(t, com)
         /\ tmpl.pc = "judge" => Referred(tmpl.t, com)

\* A remembered block that is in the chain holds what the transaction refers to.
LEMMA HasFacts ==
  ASSUME NEW c \in Seq(Block), NEW t \in Tx, NEW u \in Block \cup {Genesis}, Truly(t, u), Has(c, u)
  PROVE  Referred(t, c)
<1>1. CASE Ref[t] = None
  BY <1>1 DEF Referred
<1>2. CASE Ref[t] # None
  <2>1. u \in Block /\ TxOf[u] = Ref[t] /\ u # Genesis
    BY <1>2, TreeAssumption DEF Truly
  <2>2. HeightOf[u] \in Nat /\ HeightOf[u] <= Len(c) /\ c[HeightOf[u]] = u
    BY <2>1, TreeAssumption DEF Has
  <2>3. HeightOf[u] # 0
    <3>1. Parent[u] \in Block \cup {Genesis} /\ HeightOf[u] = HeightOf[Parent[u]] + 1
      BY <2>1, TreeAssumption
    <3>2. HeightOf[Parent[u]] \in Nat
      BY <3>1, TreeAssumption
    <3> QED BY <3>1, <3>2
  <2>4. HeightOf[u] \in 1..Len(c)
    BY <2>2, <2>3
  <2> QED BY <1>2, <2>1, <2>2, <2>4 DEF Referred, TxsIn
<1> QED BY <1>1, <1>2

LEMMA EntryQuiet ==
  ASSUME EntryInv, \A t \in InPool' : t \in InPool /\ pool'[t] = pool[t], tmpl' = tmpl,
         net' = net \/ net'.pc # "insert"
  PROVE  EntryInv'
BY DEF EntryInv, Busied

LEMMA EntryInsert ==
  ASSUME Shapes, EntryInv, NEW t \in Tx, NEW k \in BOOLEAN, NEW u \in Block \cup {Genesis, None},
         Insert(t, k, u), Truly(t, u), tmpl' = tmpl,
         net'.pc # "insert" \/ (net'.t = net.t /\ net'.used = net.used /\ net.pc = "insert")
  PROVE  EntryInv'
<1>1. /\ InPool' = InPool \cup {t} /\ pool'[t].used = u
      /\ \A x \in InPool : x # t => pool'[x] = pool[x]
  BY InsertFacts
<1>2. \A x \in InPool' : Truly(x, pool'[x].used)
  BY <1>1 DEF EntryInv
<1> QED BY <1>2 DEF EntryInv, Busied, Truly, InPool

LEMMA EntryThreads ==
  ASSUME Shapes, EntryInv, BlockThread \/ NetThread \/ IdleThread
  PROVE  EntryInv'
<1>0. /\ com \in Seq(Block) /\ view \in Seq(Block) /\ net \in NetState
      /\ None \notin Tx /\ TxOf \in [Block -> Tx \cup {None}]
  BY TreeAssumption DEF Shapes
<1>1. CASE pool' = pool /\ tmpl' = tmpl /\ (net' = net \/ net'.pc # "insert")
  BY <1>1, EntryQuiet DEF InPool
<1>2. CASE \E S : pool' = Cut(pool, S) /\ keyImages' = Unindexed(S) /\ tmpl' = tmpl /\ net' = net
  BY <1>2, RemoveFacts, EntryQuiet
<1>3. CASE RejectBlock
  <2>1. TxOf[blk.b] \in Tx
    BY <1>0, <1>3 DEF RejectBlock, Shapes
  <2>2. CASE blk.fromPool
    <3>1. Insert(TxOf[blk.b], TRUE, None) /\ PutBack(TxOf[blk.b]) /\ tmpl' = tmpl
      BY <1>3, <2>2 DEF RejectBlock
    <3>2. net'.pc = net.pc /\ net'.t = net.t /\ net'.used = net.used
      BY <1>0, <3>1 DEF PutBack, NetState
    <3>3. Truly(TxOf[blk.b], None)
      BY DEF Truly
    <3> QED BY <2>1, <3>1, <3>2, <3>3, EntryInsert
  <2>3. CASE ~blk.fromPool
    BY <1>1, <1>3, <2>3 DEF RejectBlock
  <2> QED BY <2>2, <2>3
<1>4. CASE Disconnect
  <2> DEFINE t == TxOf[TipOf(view)]
  <2> DEFINE u == MaxUsed(t, view')
  <2>1. view' \in Seq(Block) /\ TipOf(view) \in Block
    BY <1>0, <1>4, FrontFacts, ChainFacts DEF Disconnect
  <2>2. CASE t = None
    BY <1>1, <1>4, <2>2 DEF Disconnect
  <2>3. CASE t # None
    <3>1. t \in Tx
      BY <1>0, <2>1, <2>3
    <3>2. Insert(t, TRUE, u) /\ PutBack(t) /\ tmpl' = tmpl
      BY <1>4, <2>3 DEF Disconnect
    <3>3. net'.pc = net.pc /\ net'.t = net.t /\ net'.used = net.used
      BY <1>0, <3>2 DEF PutBack, NetState
    <3> HIDE DEF t
    <3>4. u \in Block \cup {Genesis, None} /\ Truly(t, u)
      BY <2>1, <3>1, MaxUsedFacts DEF Truly
    <3> HIDE DEF u
    <3> QED BY <3>1, <3>2, <3>3, <3>4, EntryInsert
  <2> QED BY <2>2, <2>3
<1>5. ASSUME NEW b \in Block, TakeTx(b) PROVE EntryInv'
  BY <1>2, <1>5 DEF TakeTx
<1>6. CASE BlockThread
  BY <1>1, <1>3, <1>4, <1>5, <1>6 DEF BlockThread, BeginBlock, AddAlt, Connect, EraseAlt, CommitBlock,
       AbortBlock, FinalizeBlock, threads
<1>7. CASE CheckInputs
  <2>1. net.t \in Tx /\ pool' = pool /\ tmpl' = tmpl
    BY <1>7 DEF CheckInputs, Shapes, NetFrame
  <2>2. CASE InputsOk(net.t, com)
    <3>1. net'.pc = "insert" /\ net'.t = net.t /\ net'.used = MaxUsed(net.t, com)
      BY <1>0, <1>7, <2>2 DEF CheckInputs, NetState
    <3>2. Truly(net.t, MaxUsed(net.t, com))
      BY <1>0, <2>1, MaxUsedFacts DEF Truly
    <3> QED BY <2>1, <3>1, <3>2 DEF EntryInv, InPool, Truly
  <2>3. CASE ~InputsOk(net.t, com)
    BY <1>1, <1>7, <2>1, <2>3, OutStates DEF CheckInputs
  <2> QED BY <2>2, <2>3
<1>8. CASE InsertTx
  <2>1. /\ net.t \in Tx /\ net.used \in Block \cup {Genesis, None} /\ Truly(net.t, net.used)
        /\ Insert(net.t, FALSE, net.used) /\ tmpl' = tmpl /\ net'.pc # "insert"
    BY <1>8, OutStates DEF InsertTx, Shapes, NetState, EntryInv
  <2> QED BY <2>1, EntryInsert
<1>9. CASE NetThread
  <2>1. CASE CheckTaken \/ CheckChain \/ CheckKeyImages
    <3>1. net'.pc # "insert"
      BY <1>0, <2>1, OutStates DEF CheckTaken, CheckChain, CheckKeyImages, NetGoto, NetState
    <3> QED BY <1>1, <2>1, <3>1 DEF CheckTaken, CheckChain, CheckKeyImages, NetFrame
  <2>2. ASSUME NEW t \in Tx, Receive(t) PROVE EntryInv'
    BY <1>1, <2>2 DEF Receive, NetOut, NetFrame
  <2> QED BY <1>7, <1>8, <1>9, <2>1, <2>2 DEF NetThread
<1>10. CASE IdleThread
  BY <1>1, <1>2, <1>10 DEF IdleThread, CollectStuck, DeleteStuck
<1> QED BY <1>6, <1>9, <1>10

LEMMA TodoCut ==
  ASSUME tmpl.todo \in Entries, NEW t, tmpl'.todo = Cut(tmpl.todo, {t})
  PROVE  /\ DOMAIN tmpl'.todo \subseteq DOMAIN tmpl.todo
         /\ \A x \in DOMAIN tmpl'.todo : tmpl'.todo[x] = tmpl.todo[x]
<1> DEFINE f == tmpl.todo
<1> DEFINE g == tmpl'.todo
<1>1. f \in Entries /\ g = Cut(f, {t})
  OBVIOUS
<1> HIDE DEF f, g
<1>2. DOMAIN g = DOMAIN f \ {t} /\ \A x \in DOMAIN f \ {t} : g[x] = f[x]
  BY <1>1, CutFacts
<1>3. DOMAIN g \subseteq DOMAIN f /\ \A x \in DOMAIN g : g[x] = f[x]
  BY <1>2
<1> QED BY <1>3 DEF f, g

LEMMA EntryTemplate ==
  ASSUME Shapes, EntryInv, Template
  PROVE  EntryInv'
<1>0. tmpl \in TmplState /\ com \in Seq(Block) /\ tmpl.todo \in Entries
  BY DEF Shapes, TmplState
<1>1. ASSUME UNCHANGED << pool, net >>, tmpl'.pc \notin Busied,
             DOMAIN tmpl'.todo \subseteq DOMAIN tmpl.todo,
             \A t \in DOMAIN tmpl'.todo : tmpl'.todo[t] = tmpl.todo[t]
      PROVE  EntryInv'
  BY <1>1 DEF EntryInv, Truly, InPool
<1>2. CASE StartTemplate \/ UseTemplate
  <2>1. tmpl'.todo = NoEntries /\ tmpl'.pc \notin Busied
    <3>1. CASE StartTemplate
      BY <3>1, OutStates DEF StartTemplate, Busied, TmplState
    <3>2. CASE UseTemplate
      BY <3>2, OutStates DEF UseTemplate, Busied
    <3> QED BY <1>2, <3>1, <3>2
  <2> QED BY <1>1, <1>2, <2>1, EntriesFacts DEF StartTemplate, UseTemplate, TmplFrame
<1>3. CASE Snapshot
  <2>1. tmpl'.todo = pool /\ tmpl'.pc = "fill" /\ UNCHANGED << pool, net >>
    BY <1>0, <1>3 DEF Snapshot, TmplFrame, TmplState
  <2> QED BY <2>1 DEF EntryInv, InPool, Busied, Truly
<1>4. ASSUME NEW t \in Tx, PassOver(t) PROVE EntryInv'
  <2>1. tmpl'.todo = Cut(tmpl.todo, {t}) /\ tmpl'.pc = "fill" /\ UNCHANGED << pool, net >>
    BY <1>0, <1>4 DEF PassOver, TmplFrame, TmplState
  <2>2. /\ DOMAIN tmpl'.todo \subseteq DOMAIN tmpl.todo
        /\ \A x \in DOMAIN tmpl'.todo : tmpl'.todo[x] = tmpl.todo[x]
    BY <1>0, <2>1, TodoCut
  <2> QED BY <1>1, <2>1, <2>2 DEF Busied
<1>5. ASSUME NEW t \in Tx, Consider(t) PROVE EntryInv'
  <2> DEFINE e == tmpl.todo[t]
  <2>1. t \in DOMAIN tmpl.todo /\ e \in Details /\ Truly(t, e.used) /\ UNCHANGED << pool, net >>
    BY <1>0, <1>5, EntriesFacts DEF Consider, TmplFrame, EntryInv
  <2>2. Truly(t, MaxUsed(t, com))
    BY <1>0, MaxUsedFacts DEF Truly
  <2>3. [e EXCEPT !.used = MaxUsed(t, com)].used = MaxUsed(t, com)
    BY <2>1 DEF Details
  <2> HIDE DEF e
  <2>4. /\ tmpl'.t = t /\ tmpl'.todo = Cut(tmpl.todo, {t})
        /\ (tmpl'.copy = e \/ tmpl'.copy = [e EXCEPT !.used = MaxUsed(t, com)])
    BY <1>0, <1>5 DEF Consider, TmplState, e
  <2>5. Truly(tmpl'.t, tmpl'.copy.used)
    BY <2>1, <2>2, <2>3, <2>4
  <2>6. /\ DOMAIN tmpl'.todo \subseteq DOMAIN tmpl.todo
        /\ \A x \in DOMAIN tmpl'.todo : tmpl'.todo[x] = tmpl.todo[x]
    BY <1>0, <2>4, TodoCut
  <2> QED BY <2>1, <2>5, <2>6 DEF EntryInv, InPool, Truly
<1>6. CASE Fail
  <2>1. tmpl.copy \in Details /\ Truly(tmpl.t, tmpl.copy.used) /\ UNCHANGED << pool, net >>
    BY <1>6 DEF Fail, TmplFrame, Shapes, EntryInv, Busied
  <2>2. CASE TipOf(com) = tmpl.copy.failed
    <3>1. tmpl'.pc = "fill" /\ tmpl'.todo = tmpl.todo
      BY <1>0, <1>6, <2>2 DEF Fail, TmplState
    <3> QED BY <1>1, <2>1, <3>1 DEF Busied
  <2>3. CASE TipOf(com) # tmpl.copy.failed
    <3>1. tmpl' = [tmpl EXCEPT !.pc = "write", !.copy = [tmpl.copy EXCEPT !.failed = TipOf(com)]]
      BY <1>6, <2>3 DEF Fail
    <3>2. [tmpl.copy EXCEPT !.failed = TipOf(com)].used = tmpl.copy.used
      BY <2>1 DEF Details
    <3>3. tmpl'.todo = tmpl.todo /\ tmpl'.t = tmpl.t /\ tmpl'.copy.used = tmpl.copy.used
      BY <1>0, <3>1, <3>2 DEF TmplState
    <3> QED BY <2>1, <3>3 DEF EntryInv, InPool, Truly
  <2> QED BY <2>2, <2>3
<1>7. CASE WriteBack
  <2>1. \A x \in InPool' : Truly(x, pool'[x].used)
    BY <1>7, WriteBackFacts DEF EntryInv, Busied, WriteBack
  <2>2. tmpl'.pc = "fill" /\ tmpl'.todo = tmpl.todo
    BY <1>0, <1>7 DEF WriteBack, TmplState
  <2>3. net'.pc = net.pc /\ net'.t = net.t /\ net'.used = net.used
    BY <1>7 DEF WriteBack, PutBack, Shapes, NetState
  <2> QED BY <2>1, <2>2, <2>3 DEF EntryInv, Truly, InPool, Busied
<1>8. CASE Judge \/ FinishTemplate
  <2>1. tmpl'.pc \in {"fill", "done"} /\ tmpl'.todo = tmpl.todo
    BY <1>0, <1>8 DEF Judge, FinishTemplate, TmplState
  <2> QED BY <1>1, <1>8, <2>1 DEF Judge, FinishTemplate, TmplFrame, Busied
<1> QED BY <1>2, <1>3, <1>4, <1>5, <1>6, <1>7, <1>8 DEF Template

LEMMA EntryOther ==
  ASSUME Shapes, EntryInv, PurgeDb \/ PurgeKeyImages \/ Restart \/ UNCHANGED vars
  PROVE  EntryInv'
<1>1. CASE PurgeDb
  <2>1. InPool' = {}
    BY <1>1, EntriesFacts DEF PurgeDb, InPool
  <2> QED BY <1>1, <2>1, EntryQuiet DEF PurgeDb
<1>2. CASE PurgeKeyImages \/ UNCHANGED vars
  BY <1>2, EntryQuiet DEF PurgeKeyImages, vars, threads, InPool
<1>3. CASE Restart
  <2>1. pool' = pool /\ net'.pc = "out" /\ tmpl'.pc = "out" /\ tmpl'.todo = NoEntries
    BY <1>3, OutStates DEF Restart, TmplOut
  <2> QED BY <2>1, EntriesFacts DEF EntryInv, Busied, InPool, Truly
<1> QED BY <1>1, <1>2, <1>3

\* A new committed chain has another top block than any template begun before.
LEMMA ChosenCommit ==
  ASSUME Shapes, ChainInv, ChosenInv, CommitBlock
  PROVE  ChosenInv'
<1>0. com \in Seq(Block) /\ view \in Seq(Block) /\ com' = view /\ tmpl' = tmpl
  BY DEF Shapes, CommitBlock
<1>1. CASE view = com
  BY <1>0, <1>1 DEF ChosenInv, InputsOk, Referred, TxsIn, SpentIn, TipOf
<1>2. CASE Len(view) > Len(com)
  <2>1. HeightOf[TipOf(view)] = Len(view)
    BY <1>0, TipHeight DEF ChainInv
  <2>2. SUFFICES ASSUME tmpl.pc # "out"
                 PROVE  HeightOf[tmpl.prev] <= Len(view) /\ tmpl.prev # TipOf(view)
    BY <1>0, <2>2 DEF ChosenInv, TipOf
  <2>3. tmpl.prev \in Block \cup {Genesis} /\ HeightOf[tmpl.prev] <= Len(com)
    BY <2>2 DEF ChosenInv
  <2>4. HeightOf[tmpl.prev] \in Nat /\ Len(com) \in Nat /\ Len(view) \in Nat
    BY <1>0, <2>3, TreeAssumption
  <2> QED BY <1>2, <2>1, <2>3, <2>4
<1> QED BY <1>1, <1>2 DEF CommitBlock

LEMMA ChosenTemplate ==
  ASSUME Shapes, ChainInv, EntryInv, ChosenInv, Template
  PROVE  ChosenInv'
<1>0. tmpl \in TmplState /\ com \in Seq(Block) /\ tmpl.todo \in Entries
  BY DEF Shapes, TmplState
<1>1. com' = com /\ TipOf(com)' = TipOf(com) /\ TxsIn(com)' = TxsIn(com)
  BY DEF Template, StartTemplate, Snapshot, PassOver, Consider, Fail, WriteBack, Judge,
       FinishTemplate, UseTemplate, TmplFrame, chainVars, TipOf, TxsIn
<1>2. ASSUME tmpl.pc # "out", tmpl'.prev = tmpl.prev, tmpl'.chosen = tmpl.chosen, tmpl'.pc # "judge"
      PROVE  ChosenInv'
  BY <1>1, <1>2 DEF ChosenInv, InputsOk, SpentIn
<1>3. CASE StartTemplate
  <2>1. tmpl'.prev = TipOf(com) /\ tmpl'.chosen = {} /\ tmpl'.pc = "snap"
    BY <1>3 DEF StartTemplate, TmplOut
  <2>2. TipOf(com) \in Block \cup {Genesis} /\ HeightOf[TipOf(com)] = Len(com)
    BY <1>0, TipHeight, ChainFacts DEF ChainInv
  <2> QED BY <1>0, <1>1, <2>1, <2>2 DEF ChosenInv
<1>4. CASE Snapshot \/ FinishTemplate
  <2>1. tmpl.pc # "out" /\ tmpl'.prev = tmpl.prev /\ tmpl'.chosen = tmpl.chosen /\ tmpl'.pc # "judge"
    BY <1>0, <1>4 DEF Snapshot, FinishTemplate, TmplState
  <2> QED BY <1>2, <2>1
<1>5. ASSUME NEW t \in Tx, PassOver(t) PROVE ChosenInv'
  <2>1. tmpl.pc # "out" /\ tmpl'.prev = tmpl.prev /\ tmpl'.chosen = tmpl.chosen /\ tmpl'.pc # "judge"
    BY <1>0, <1>5 DEF PassOver, TmplState
  <2> QED BY <1>2, <2>1
<1>6. ASSUME NEW t \in Tx, Consider(t) PROVE ChosenInv'
  <2> DEFINE e == tmpl.todo[t]
  <2>1. t \in DOMAIN tmpl.todo /\ e \in Details /\ Truly(t, e.used) /\ tmpl.pc = "fill"
    BY <1>0, <1>6, EntriesFacts DEF Consider, EntryInv
  <2>2. e.used \in Block \cup {Genesis, None}
    BY <2>1 DEF Details
  <2>3. Remembered(e, com) = "ready" => e.used # None /\ Has(com, e.used)
    BY DEF Remembered
  <2>4. Remembered(e, com) = "ready" => Referred(t, com)
    BY <1>0, <2>1, <2>2, <2>3, HasFacts
  <2>5. InputsOk(t, com) => Referred(t, com)
    BY DEF InputsOk, Referred
  <2> HIDE DEF e
  <2>6. /\ tmpl'.prev = tmpl.prev /\ tmpl'.chosen = tmpl.chosen /\ tmpl'.t = t
        /\ (tmpl'.pc = "judge" => Remembered(e, com) = "ready" \/ InputsOk(t, com))
    BY <1>0, <1>6 DEF Consider, TmplState, e
  <2>7. tmpl'.pc = "judge" => Referred(t, com)
    BY <2>4, <2>5, <2>6
  <2> QED BY <1>1, <2>1, <2>6, <2>7 DEF ChosenInv, InputsOk, SpentIn, Referred
<1>7. CASE Fail \/ WriteBack
  <2>1. tmpl.pc # "out" /\ tmpl'.prev = tmpl.prev /\ tmpl'.chosen = tmpl.chosen /\ tmpl'.pc # "judge"
    BY <1>0, <1>7 DEF Fail, WriteBack, TmplState
  <2> QED BY <1>2, <2>1
<1>8. CASE Judge
  <2> DEFINE t == tmpl.t
  <2>1. tmpl.pc = "judge" /\ tmpl'.prev = tmpl.prev /\ tmpl'.pc = "fill"
    BY <1>0, <1>8 DEF Judge, TmplState
  <2>2. CASE tmpl'.chosen = tmpl.chosen
    BY <1>2, <2>1, <2>2
  <2>3. CASE tmpl'.chosen # tmpl.chosen
    <3>1. /\ tmpl'.chosen = tmpl.chosen \cup {t} /\ KiOf[t] \cap SpentIn(com) = {}
          /\ \A u \in tmpl.chosen : KiOf[u] \cap KiOf[t] = {}
      BY <1>0, <1>8, <2>3 DEF Judge, TmplState
    <3> HIDE DEF t
    <3>2. \A u, v \in tmpl'.chosen : u = v \/ KiOf[u] \cap KiOf[v] = {}
      BY <2>1, <3>1 DEF ChosenInv
    <3>3. tmpl.prev = TipOf(com) => \A u \in tmpl'.chosen : InputsOk(u, com)
      BY <2>1, <3>1 DEF ChosenInv, InputsOk, Referred, t
    <3> QED BY <1>1, <2>1, <3>2, <3>3 DEF ChosenInv, InputsOk, SpentIn
  <2> QED BY <2>2, <2>3
<1>9. CASE UseTemplate
  BY <1>9, OutStates DEF UseTemplate, ChosenInv
<1> QED BY <1>3, <1>4, <1>5, <1>6, <1>7, <1>8, <1>9 DEF Template

LEMMA ChosenStep ==
  ASSUME Shapes, ChainInv, EntryInv, ChosenInv, [Next]_vars
  PROVE  ChosenInv'
<1>1. CASE UNCHANGED << com, tmpl >>
  BY <1>1 DEF ChosenInv, InputsOk, SpentIn, TxsIn, TipOf, Referred
<1>2. CASE Restart
  BY <1>2, OutStates DEF Restart, ChosenInv
<1>3. CASE BlockThread /\ ~CommitBlock
  BY <1>1, <1>3 DEF BlockThread, BeginBlock, TakeTx, AddAlt, Connect, RejectBlock, Disconnect, EraseAlt,
       AbortBlock, FinalizeBlock, threads, chainVars
<1>4. CASE NetThread \/ IdleThread
  BY <1>1, <1>4 DEF NetThread, Receive, CheckTaken, CheckChain, CheckKeyImages, CheckInputs, InsertTx,
       NetFrame, IdleThread, CollectStuck, DeleteStuck, chainVars
<1>5. CASE PurgeDb \/ PurgeKeyImages \/ UNCHANGED vars
  BY <1>1, <1>5 DEF PurgeDb, PurgeKeyImages, vars, threads, chainVars
<1> QED BY <1>2, <1>3, <1>4, <1>5, ChosenCommit, ChosenTemplate DEF Next

\* A template whose previous block is still the top block holds transactions that can
\* all be added to it and that do not spend the same coin, although the chain, the pool
\* and what the pool remembers of a transaction's inputs are read at different moments.
THEOREM TemplateIsValid == Spec => []TemplateValid
<1>1. Init => EntryInv /\ ChosenInv
  <2> SUFFICES ASSUME Init PROVE EntryInv /\ ChosenInv
    OBVIOUS
  <2>1. InPool = {} /\ DOMAIN tmpl.todo = {} /\ tmpl.pc = "out" /\ net.pc = "out"
    BY OutStates, EntriesFacts DEF Init, InPool
  <2> QED BY <2>1 DEF EntryInv, ChosenInv, Busied
<1>2. ChosenInv => TemplateValid
  BY DEF ChosenInv, TemplateValid
<1>3. Shapes /\ ChainInv /\ [Next]_vars => ChainInv'
  BY ChainStep
<1>4. Shapes /\ EntryInv /\ [Next]_vars => EntryInv'
  BY EntryThreads, EntryTemplate, EntryOther DEF Next
<1>5. Shapes /\ ChainInv /\ EntryInv /\ ChosenInv /\ [Next]_vars => ChosenInv'
  BY ChosenStep
<1>6. Spec => []Shapes
  BY InitShapes, ShapesStep, PTL DEF Spec
<1> QED BY ChainInit, <1>1, <1>2, <1>3, <1>4, <1>5, <1>6, PTL DEF Spec
=============================================================================
