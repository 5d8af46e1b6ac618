---------------------- MODULE BlockchainStorageProofs ----------------------
(***************************************************************************)
(* Proofs about BlockchainStorage: the types of its state, and that the    *)
(* table of spent key images is exact and no key image is spent twice,     *)
(* for every set of blocks, every history of faults and every order of     *)
(* arrival.                                                                *)
(***************************************************************************)
EXTENDS BlockchainStorage, FiniteSetTheorems, TLAPS

(***************************************************************************)
(* The inductive invariant.                                                *)
(***************************************************************************)
InCall    == pc \in {"enter", "txs", "undo"}
Switching ==
  \/ pc \in {"pop", "connected", "push", "erase", "rollback", "restored", "rolledback"}
  \/ InCall /\ mode \in {"switch", "restore"}

\* The bookkeeping of a reorganisation: there is a split, the main chain is
\* never shorter than what lies below it, and the loop counters are in range.
SwitchInv ==
  /\ Switching => /\ path # <<>>
                  /\ SplitHeight \in Nat \ {0}
                  /\ Len(chain) + 1 >= SplitHeight
  /\ pc = "connected" \/ (InCall /\ mode = "switch") => nxt \in 1..Len(path)
  /\ InCall => mode # "none"
  /\ pc = "enter" => done = 0

\* The processed transactions of the current block spend different key images.
CurOnce ==
  pc \in {"txs", "undo"} =>
    /\ \A i, j \in 1..done : i # j => KiTx[TxsOf[cur][i]] \cap KiTx[TxsOf[cur][j]] = {}
    /\ \A i \in 1..done : KiTx[TxsOf[cur][i]] \cap Stake[cur] = {}

EachOnce(c) == \A i \in 1..Len(c) : SpendsOnce(c[i])

ViewInv == pc # "abort" => Exact(chain, spent, CurKi) /\ EachOnce(chain) /\ CurOnce
ComInv  == Exact(com.chain, com.spent, {}) /\ EachOnce(com.chain)

IndInv == TypeOK /\ SwitchInv /\ ViewInv /\ ComInv

-----------------------------------------------------------------------------
(***************************************************************************)
(* Lemmas about the operators.                                             *)
(***************************************************************************)
LEMMA SetFacts ==
  ASSUME NEW D, NEW R, NEW f \in [D -> R], NEW S, NEW v \in R
  PROVE  /\ Set(f, S, v) \in [D -> R]
         /\ \A x \in D : Set(f, S, v)[x] = IF x \in S THEN v ELSE f[x]
  BY DEF Set

LEMMA NoOnboardType ==
  ASSUME NEW f \in [Block -> SUBSET Tx], NEW S
  PROVE  Set(f, S, {}) \in [Block -> SUBSET Tx]
  BY DEF Set

LEMMA ElemsType ==
  ASSUME NEW R, NEW s \in Seq(R)
  PROVE  Elems(s) \subseteq R
  BY DEF Elems

LEMMA TxSetType ==
  ASSUME NEW b \in Block
  PROVE  TxSet(b) \subseteq Tx
  BY TxAssumption, ElemsType DEF TxSet

LEMMA KiOfType ==
  ASSUME NEW b \in Block
  PROVE  KiOf(b) \subseteq Ki
  BY TxAssumption, TxSetType DEF KiOf

\* A key image of a block is its stake or belongs to one of its transactions.
LEMMA KiOfMember ==
  ASSUME NEW b \in Block, NEW k
  PROVE  k \in KiOf(b) <=>
           k \in Stake[b] \/ \E i \in 1..Len(TxsOf[b]) : k \in KiTx[TxsOf[b][i]]
  BY DEF KiOf, TxSet, Elems

\* The part of them recorded once n transactions are processed.
LEMMA SpentByFacts ==
  ASSUME NEW b \in Block
  PROVE  /\ SpentBy(b, 0) = Stake[b]
         /\ SpentBy(b, Len(TxsOf[b])) = KiOf(b)
         /\ \A n \in 0..Len(TxsOf[b]) : SpentBy(b, n) \subseteq Ki
         /\ \A n \in 1..Len(TxsOf[b]) : SpentBy(b, n) = SpentBy(b, n - 1) \cup KiTx[TxsOf[b][n]]
<1>1. \A n : \A k : k \in SpentBy(b, n) <=>
               k \in Stake[b] \/ \E i \in 1..n : k \in KiTx[TxsOf[b][i]]
  BY DEF SpentBy
<1>2. TxsOf[b] \in Seq(Tx) /\ Stake[b] \subseteq Ki /\ KiTx \in [Tx -> SUBSET Ki]
  BY TxAssumption
<1>3. SpentBy(b, 0) = Stake[b]
  BY <1>1
<1>4. SpentBy(b, Len(TxsOf[b])) = KiOf(b)
  BY <1>1, KiOfMember
<1>5. ASSUME NEW n \in 0..Len(TxsOf[b]) PROVE SpentBy(b, n) \subseteq Ki
  BY <1>1, <1>2
<1>6. ASSUME NEW n \in 1..Len(TxsOf[b])
      PROVE  SpentBy(b, n) = SpentBy(b, n - 1) \cup KiTx[TxsOf[b][n]]
  <2>1. \A i : i \in 1..n <=> i \in 1..(n - 1) \/ i = n
    BY <1>2
  <2>2. \A k : k \in SpentBy(b, n) <=> k \in SpentBy(b, n - 1) \/ k \in KiTx[TxsOf[b][n]]
    BY <1>1, <2>1, Zenon
  <2> QED BY <2>2, Zenon
<1> QED BY <1>3, <1>4, <1>5, <1>6

LEMMA HeightType ==
  ASSUME NEW b \in Block
  PROVE  Height(b) \in Nat \ {0} /\ Branch[b] \in Seq(Block)
<1>1. Branch[b] = Append(Branch[Parent[b]], b) /\ Branch[Parent[b]] \in Seq(Block)
  BY BlockAssumption
<1> QED BY <1>1 DEF Height

\* The path of an alternative block starts at the split height.
LEMMA AltPathFacts ==
  ASSUME NEW b \in Block, NEW s \in Splits(b)
  PROVE  /\ AltPath(b, s) \in Seq(Block)
         /\ AltPath(b, s) # <<>>
         /\ Height(AltPath(b, s)[1]) = s
         /\ s \in Nat \ {0}
<1>1. Branch[b] \in Seq(Block) /\ Height(b) = Len(Branch[b]) /\ s \in 1..Len(Branch[b])
  BY HeightType DEF Splits, Height
<1>2. /\ AltPath(b, s) \in Seq(Block) /\ Len(AltPath(b, s)) = Len(Branch[b]) - s + 1
      /\ AltPath(b, s)[1] = Branch[b][s]
  BY <1>1 DEF AltPath
<1>3. Len(Branch[Branch[b][s]]) = s
  BY <1>1, BlockAssumption
<1> QED BY <1>1, <1>2, <1>3 DEF Height

LEMMA ErasedTxsType ==
  ASSUME NEW T \in [Tx -> Nat], NEW S \in SUBSET Block
  PROVE  ErasedTxs(T, S) \in [Tx -> Nat]
<1>1. \A t \in Tx : Cardinality({ b \in S : t \in TxSet(b) }) \in Nat
  <2> TAKE t \in Tx
  <2>1. IsFiniteSet({ b \in S : t \in TxSet(b) })
    BY BlockAssumption, FS_Subset
  <2> QED BY <2>1, FS_CardinalityType
<1> QED BY <1>1 DEF ErasedTxs

LEMMA TopType ==
  ASSUME chain \in Seq(Block)
  PROVE  /\ Top \in Block \cup {Genesis}
         /\ chain # <<>> => Top \in Block /\ Top = chain[Len(chain)] /\ Len(chain) \in Nat \ {0}
  BY DEF Top

LEMMA PruneType ==
  ASSUME NEW A \in SUBSET Block, NEW S \in PruneChoices(A) \cup PruneIfMany(A)
  PROVE  S \subseteq A
  BY DEF PruneChoices, PruneIfMany, Aged

LEMMA ResolveType ==
  ASSUME NEW b \in Block, NEW o \in SUBSET Tx, TypeOK
  PROVE  Resolve(b, o) \subseteq Tx
  BY TxSetType DEF Resolve

LEMMA OnboardType ==
  ASSUME NEW b \in Block, NEW o \in OnboardOf(b)
  PROVE  o \subseteq Tx
  BY TxSetType DEF OnboardOf

-----------------------------------------------------------------------------
(***************************************************************************)
(* The table of spent key images under the ways it is changed.             *)
(***************************************************************************)
\* Removing the blocks above height n and what they spend.
LEMMA ExactTruncated ==
  ASSUME NEW c \in Seq(Block), NEW s \in [Ki -> Nat], NEW n \in 0..Len(c),
         Exact(c, s, {}), NEW G,
         \A k \in Ki : k \in G <=> \E i \in (n + 1)..Len(c) : k \in KiOf(c[i])
  PROVE  Exact(SubSeq(c, 1, n), Set(s, G, 0), {})
<1> DEFINE d == SubSeq(c, 1, n)
<1> DEFINE u == Set(s, G, 0)
<1>1. d \in Seq(Block) /\ Len(d) = n /\ \A i \in 1..n : d[i] = c[i]
  OBVIOUS
<1>2. \A k \in Ki : u[k] = IF k \in G THEN 0 ELSE s[k]
  BY DEF Set
<1>3. \A i \in 1..Len(c) : KiOf(c[i]) \subseteq Ki
  BY KiOfType
<1>4. \A i \in 1..n : \A k \in KiOf(d[i]) : u[k] = i
  <2> TAKE i \in 1..n
  <2> TAKE k \in KiOf(d[i])
  <2>1. k \in Ki /\ s[k] = i /\ k \in KiOf(c[i])
    BY <1>1, <1>3 DEF Exact
  <2>2. k \notin G
    BY <2>1 DEF Exact
  <2> QED BY <2>1, <2>2, <1>2
<1>5. \A k \in Ki : u[k] # 0 => u[k] <= n /\ k \in KiOf(d[u[k]])
  <2> SUFFICES ASSUME NEW k \in Ki, u[k] # 0
               PROVE  u[k] <= n /\ k \in KiOf(d[u[k]])
    OBVIOUS
  <2>1. k \notin G /\ u[k] = s[k] /\ s[k] # 0
    BY <1>2
  <2>2. s[k] \in 1..Len(c) /\ k \in KiOf(c[s[k]])
    BY <2>1 DEF Exact
  <2>3. s[k] \notin (n + 1)..Len(c)
    BY <2>1, <2>2
  <2> QED BY <2>1, <2>2, <2>3, <1>1
<1> HIDE DEF d, u
<1>6. Exact(d, u, {})
  BY <1>1, <1>4, <1>5 DEF Exact
<1> QED BY <1>6 DEF d, u

\* Recording unspent key images for the block in progress.
LEMMA ExactSpend ==
  ASSUME NEW c \in Seq(Block), NEW s \in [Ki -> Nat], NEW X \in SUBSET Ki, NEW S \in SUBSET Ki,
         Exact(c, s, X), \A k \in S : s[k] = 0
  PROVE  Exact(c, Set(s, S, Len(c) + 1), X \cup S)
<1> DEFINE u == Set(s, S, Len(c) + 1)
<1>1. \A k \in Ki : u[k] = IF k \in S THEN Len(c) + 1 ELSE s[k]
  BY DEF Set
<1>2. \A i \in 1..Len(c) : \A k \in KiOf(c[i]) : k \in Ki /\ s[k] = i
  BY KiOfType DEF Exact
<1>3. \A i \in 1..Len(c) : \A k \in KiOf(c[i]) : u[k] = i
  BY <1>1, <1>2
<1>4. \A k \in X \cup S : u[k] = Len(c) + 1
  BY <1>1 DEF Exact
<1>5. \A k \in Ki : u[k] # 0 => k \in X \cup S \/ (u[k] <= Len(c) /\ k \in KiOf(c[u[k]]))
  BY <1>1 DEF Exact
<1> QED BY <1>3, <1>4, <1>5 DEF Exact

\* Forgetting some of what the block in progress recorded.
LEMMA ExactUndo ==
  ASSUME NEW c \in Seq(Block), NEW s \in [Ki -> Nat], NEW X \in SUBSET Ki, NEW S \in SUBSET X,
         Exact(c, s, X)
  PROVE  Exact(c, Set(s, S, 0), X \ S)
<1> DEFINE u == Set(s, S, 0)
<1>1. \A k \in Ki : u[k] = IF k \in S THEN 0 ELSE s[k]
  BY DEF Set
<1>2. \A i \in 1..Len(c) : \A k \in KiOf(c[i]) : k \in Ki /\ s[k] = i
  BY KiOfType DEF Exact
<1>3. \A k \in X : s[k] = Len(c) + 1
  BY DEF Exact
<1>4. \A i \in 1..Len(c) : \A k \in KiOf(c[i]) : u[k] = i
  BY <1>1, <1>2, <1>3
<1>5. \A k \in X \ S : u[k] = Len(c) + 1
  BY <1>1, <1>3
<1>6. \A k \in Ki : u[k] # 0 => k \in X \ S \/ (u[k] <= Len(c) /\ k \in KiOf(c[u[k]]))
  BY <1>1 DEF Exact
<1> QED BY <1>4, <1>5, <1>6 DEF Exact

\* The block in progress is pushed.
LEMMA ExactPushed ==
  ASSUME NEW c \in Seq(Block), NEW s \in [Ki -> Nat], NEW b \in Block, Exact(c, s, KiOf(b))
  PROVE  Exact(Append(c, b), s, {})
<1>1. /\ Append(c, b) \in Seq(Block) /\ Len(Append(c, b)) = Len(c) + 1
      /\ Append(c, b)[Len(c) + 1] = b /\ \A i \in 1..Len(c) : Append(c, b)[i] = c[i]
  OBVIOUS
<1> DEFINE d == Append(c, b)
<1> HIDE DEF d
<1>2. \A i \in 1..Len(d) : \A k \in KiOf(d[i]) : s[k] = i
  BY <1>1 DEF Exact, d
<1>3. \A k \in Ki : s[k] # 0 => s[k] <= Len(d) /\ k \in KiOf(d[s[k]])
  BY <1>1, KiOfType DEF Exact, d
<1>4. Exact(d, s, {})
  BY <1>2, <1>3 DEF Exact
<1> QED BY <1>4 DEF d

\* Exactness rules out a second spend.
LEMMA ExactOnce ==
  ASSUME NEW c \in Seq(Block), NEW s, Exact(c, s, {})
  PROVE  \A i, j \in 1..Len(c) : i # j => KiOf(c[i]) \cap KiOf(c[j]) = {}
  BY DEF Exact

LEMMA PrefixFacts ==
  ASSUME NEW c \in Seq(Block), NEW n \in 0..Len(c)
  PROVE  SubSeq(c, 1, n) \in Seq(Block) /\ Len(SubSeq(c, 1, n)) = n
  OBVIOUS

LEMMA PrefixOnce ==
  ASSUME NEW c \in Seq(Block), NEW n \in 0..Len(c), EachOnce(c)
  PROVE  EachOnce(SubSeq(c, 1, n))
<1>1. Len(SubSeq(c, 1, n)) = n /\ \A i \in 1..n : SubSeq(c, 1, n)[i] = c[i]
  OBVIOUS
<1> QED BY <1>1 DEF EachOnce

-----------------------------------------------------------------------------
(***************************************************************************)
(* Steps that several actions share.                                       *)
(***************************************************************************)
\* A step between two points at which no block is in progress.
LEMMA QuietStep ==
  ASSUME IndInv, chain' = chain, spent' = spent,
         pc \notin {"abort", "txs", "undo"}, pc' \notin {"txs", "undo"}
  PROVE  ViewInv'
<1>1. CurKi = {} /\ CurKi' = {} /\ CurOnce'
  BY DEF CurKi, CurOnce
<1>2. Exact(chain, spent, {}) /\ EachOnce(chain)
  BY <1>1 DEF IndInv, ViewInv
<1>3. Exact(chain', spent', {}) /\ EachOnce(chain')
  BY <1>2
<1> QED BY <1>1, <1>3 DEF ViewInv

LEMMA ComStep ==
  ASSUME IndInv, com' = com
  PROVE  ComInv'
  BY DEF IndInv, ComInv

\* pop_block_from_blockchain.
LEMMA PopStep ==
  ASSUME IndInv, PopBlock, chain # <<>>, pc \notin {"abort", "txs", "undo"}, pc' = pc
  PROVE  /\ View' \in Ledgers /\ pool' \subseteq Tx
         /\ Len(chain') = Len(chain) - 1
         /\ ViewInv'
<1>1. /\ chain \in Seq(Block) /\ spent \in [Ki -> Nat] /\ txdb \in [Tx -> Nat] /\ pool \subseteq Tx
      /\ Len(chain) \in Nat \ {0}
  BY DEF IndInv, TypeOK, View, Ledgers
<1>2. Top \in Block /\ Top = chain[Len(chain)]
  BY <1>1, TopType
<1>3. /\ chain' = SubSeq(chain, 1, Len(chain) - 1) /\ txdb' = Set(txdb, TxSet(Top), 0)
      /\ spent' = Set(spent, KiOf(Top), 0) /\ pool' = pool \cup TxSet(Top)
  BY DEF PopBlock
<1>4. Len(chain) - 1 \in 0..Len(chain)
  BY <1>1
<1>5. chain' \in Seq(Block) /\ Len(chain') = Len(chain) - 1
  BY <1>1, <1>3, <1>4, PrefixFacts
<1>6. txdb' \in [Tx -> Nat] /\ spent' \in [Ki -> Nat] /\ pool' \subseteq Tx
  BY <1>1, <1>2, <1>3, SetFacts, TxSetType
<1>7. CurKi = {} /\ CurKi' = {} /\ CurOnce'
  BY DEF CurKi, CurOnce
<1>8. Exact(chain, spent, {}) /\ EachOnce(chain)
  BY <1>7 DEF IndInv, ViewInv
<1>9. \A k \in Ki : k \in KiOf(Top) <=> \E i \in (Len(chain) - 1 + 1)..Len(chain) : k \in KiOf(chain[i])
  BY <1>1, <1>2
<1>10. Exact(chain', spent', {})
  BY <1>1, <1>3, <1>8, <1>9, <1>4, ExactTruncated
<1>11. EachOnce(chain')
  BY <1>1, <1>3, <1>8, <1>4, PrefixOnce
<1> QED BY <1>5, <1>6, <1>7, <1>10, <1>11 DEF ViewInv, View, Ledgers

-----------------------------------------------------------------------------
(***************************************************************************)
(* One lemma per action.                                                   *)
(***************************************************************************)
LEMMA InitIndInv == Init => IndInv
<1> SUFFICES ASSUME Init PROVE IndInv
  OBVIOUS
<1>1. TypeOK
  BY DEF Init, TypeOK, View, Ledgers, Pcs, Modes
<1>2. SwitchInv
  BY DEF Init, SwitchInv, Switching, InCall
<1>3. CurKi = {} /\ CurOnce
  BY DEF Init, CurKi, CurOnce
<1>4. Exact(chain, spent, {}) /\ EachOnce(chain)
  BY DEF Init, Exact, EachOnce
<1>5. ComInv
  BY <1>4 DEF Init, ComInv
<1> QED BY <1>1, <1>2, <1>3, <1>4, <1>5 DEF IndInv, ViewInv

LEMMA ReceiveMainStep ==
  ASSUME IndInv, NEW b \in Block, ReceiveMain(b)
  PROVE  IndInv'
<1>1. PICK o \in SUBSET Tx, m \in {"main", "sim"} : Call(b, o, m)
  BY OnboardType DEF ReceiveMain
<1>2. TypeOK'
  BY <1>1 DEF IndInv, ReceiveMain, Call, TypeOK, View, Ledgers, db, mem, pools, switch, Pcs, Modes
<1>3. SwitchInv'
  BY <1>1 DEF ReceiveMain, Call, SwitchInv, Switching, InCall, switch, SplitHeight
<1>4. ViewInv'
  BY <1>1, QuietStep DEF ReceiveMain, Call, db
<1> QED BY <1>2, <1>3, <1>4, ComStep DEF IndInv, ReceiveMain

\* The alternative chains stay well typed when a block is inserted or erased.
LEMMA AltInsertType ==
  ASSUME TypeOK, NEW b \in Block, NEW o \in SUBSET Tx, NEW S \in SUBSET Block, AltInsert(b, o, S)
  PROVE  /\ alt' \subseteq Block /\ altOnb' \in [Block -> SUBSET Tx]
         /\ altKi' \subseteq Ki \X Block /\ altTxs' \in [Tx -> Nat] /\ invalid' \subseteq Block
<1>1. alt' \subseteq Block /\ invalid' \subseteq Block
  BY DEF TypeOK, AltInsert
<1>2. [altOnb EXCEPT ![b] = Resolve(b, o)] \in [Block -> SUBSET Tx]
  BY ResolveType DEF TypeOK
<1>3. altOnb' \in [Block -> SUBSET Tx]
  BY <1>2, NoOnboardType DEF AltInsert
<1>4. altKi' \subseteq Ki \X Block
  BY KiOfType DEF TypeOK, AltInsert, ErasedKi
<1>5. AddedTxs(altTxs, b) \in [Tx -> Nat]
  BY DEF TypeOK, AddedTxs
<1>6. altTxs' \in [Tx -> Nat]
  BY <1>5, ErasedTxsType DEF AltInsert
<1> QED BY <1>1, <1>3, <1>4, <1>6

LEMMA AltEraseType ==
  ASSUME TypeOK, NEW S \in SUBSET Block, AltErase(S)
  PROVE  /\ alt' \subseteq Block /\ altOnb' \in [Block -> SUBSET Tx]
         /\ altKi' \subseteq Ki \X Block /\ altTxs' \in [Tx -> Nat]
<1>1. alt' \subseteq Block /\ altKi' \subseteq Ki \X Block
  BY DEF TypeOK, AltErase, ErasedKi
<1>2. altOnb' \in [Block -> SUBSET Tx]
  BY NoOnboardType DEF TypeOK, AltErase
<1>3. altTxs' \in [Tx -> Nat]
  BY ErasedTxsType DEF TypeOK, AltErase
<1> QED BY <1>1, <1>2, <1>3

LEMMA ReceiveAltStep ==
  ASSUME IndInv, NEW b \in Block, ReceiveAlt(b)
  PROVE  IndInv'
<1>1. PICK o \in OnboardOf(b), s \in Splits(b) :
        /\ AltAccepts(b, o, s)
        /\ \/ AltInsert(b, o, {}) /\ path' = AltPath(b, s) /\ pc' = "pop"
           \/ \E S \in PruneIfMany(alt \cup {b}) :
                AltInsert(b, o, S) /\ pc' = "commit" /\ path' = path
  BY DEF ReceiveAlt
<1>2. TypeOK
  BY DEF IndInv
<1>3. alt \cup {b} \subseteq Block /\ o \subseteq Tx
  BY <1>2, OnboardType DEF TypeOK
<1>4. PICK S \in SUBSET Block : AltInsert(b, o, S)
  BY <1>1, <1>3, PruneType
<1>5. /\ AltPath(b, s) \in Seq(Block) /\ AltPath(b, s) # <<>>
      /\ Height(AltPath(b, s)[1]) = s /\ s \in Nat \ {0}
  BY AltPathFacts
<1>6. s > 1 => s <= Len(chain) + 1
  BY <1>1 DEF AltAccepts, ConnectsToMain
<1>7. chain' = chain /\ spent' = spent /\ txdb' = txdb /\ com' = com /\ pc = "idle"
  BY DEF ReceiveAlt, db
<1>8. UNCHANGED << pools, clock, call, disc, nxt, pushed >>
  BY DEF ReceiveAlt
<1>9. /\ alt' \subseteq Block /\ altOnb' \in [Block -> SUBSET Tx]
      /\ altKi' \subseteq Ki \X Block /\ altTxs' \in [Tx -> Nat] /\ invalid' \subseteq Block
  BY <1>2, <1>3, <1>4, AltInsertType
<1>10. pc' \in {"pop", "commit"} /\ path' \in Seq(Block)
  BY <1>1, <1>2, <1>5 DEF TypeOK
<1>11. TypeOK'
  BY <1>2, <1>7, <1>8, <1>9, <1>10 DEF TypeOK, View, Ledgers, Pcs, pools, call
<1>12. SwitchInv'
  <2>1. chain \in Seq(Block)
    BY <1>2 DEF TypeOK, View, Ledgers
  <2>2. pc' = "pop" => path' # <<>> /\ Height(path'[1]) = s /\ Len(chain) + 1 >= s
    BY <1>1, <1>5, <1>6, <2>1
  <2> QED BY <1>5, <1>7, <1>10, <2>2 DEF SwitchInv, Switching, InCall, SplitHeight, Height
<1>13. ViewInv'
  BY <1>7, <1>10, QuietStep
<1> QED BY <1>7, <1>11, <1>12, <1>13, ComStep DEF IndInv

LEMMA DisconnectStep ==
  ASSUME IndInv, Disconnect
  PROVE  IndInv'
<1>1. TypeOK /\ SwitchInv /\ PopBlock /\ pc = "pop" /\ pc' = pc /\ AboveSplit
  BY DEF IndInv, Disconnect
<1>2. Len(chain) \in Nat /\ SplitHeight \in Nat \ {0} /\ path # <<>> /\ chain \in Seq(Block)
  BY <1>1 DEF TypeOK, View, Ledgers, SwitchInv, Switching
<1>3. Len(chain) >= SplitHeight /\ chain # <<>>
  BY <1>1, <1>2 DEF AboveSplit
<1>4. View' \in Ledgers /\ pool' \subseteq Tx /\ Len(chain') = Len(chain) - 1 /\ ViewInv'
  BY <1>1, <1>3, PopStep
<1>5. Top \in Block
  BY <1>2, <1>3, TopType
<1>6. disc' \in Seq(Block) /\ Len(disc') = Len(disc) + 1
  BY <1>1, <1>5 DEF Disconnect, TypeOK
<1>7. UNCHANGED << com, mem, clock, pc, call, path, nxt, pushed, taken, black >>
  BY DEF Disconnect, PopBlock
<1>8. TypeOK'
  BY <1>1, <1>4, <1>6, <1>7 DEF TypeOK, mem, call
<1>9. SwitchInv'
  BY <1>1, <1>2, <1>3, <1>4, <1>7 DEF SwitchInv, Switching, InCall, SplitHeight, Height
<1> QED BY <1>4, <1>7, <1>8, <1>9, ComStep DEF IndInv

LEMMA RollbackPopStep ==
  ASSUME IndInv, RollbackPop
  PROVE  IndInv'
<1>1. TypeOK /\ SwitchInv /\ PopBlock /\ pc = "rollback" /\ pc' = pc /\ AboveSplit
  BY DEF IndInv, RollbackPop
<1>2. Len(chain) \in Nat /\ SplitHeight \in Nat \ {0} /\ path # <<>> /\ chain \in Seq(Block)
  BY <1>1 DEF TypeOK, View, Ledgers, SwitchInv, Switching
<1>3. Len(chain) >= SplitHeight /\ chain # <<>>
  BY <1>1, <1>2 DEF AboveSplit
<1>4. View' \in Ledgers /\ pool' \subseteq Tx /\ Len(chain') = Len(chain) - 1 /\ ViewInv'
  BY <1>1, <1>3, PopStep
<1>5. UNCHANGED << com, mem, clock, pc, call, switch, taken, black >>
  BY DEF RollbackPop, PopBlock
<1>6. TypeOK'
  BY <1>1, <1>4, <1>5 DEF TypeOK, mem, call, switch
<1>7. SwitchInv'
  BY <1>1, <1>2, <1>3, <1>4, <1>5 DEF SwitchInv, Switching, InCall, SplitHeight, Height, switch
<1> QED BY <1>4, <1>5, <1>6, <1>7, ComStep DEF IndInv

LEMMA ConnectNextStep ==
  ASSUME IndInv, ConnectNext
  PROVE  IndInv'
<1>1. TypeOK /\ SwitchInv
  BY DEF IndInv
<1>2. /\ path \in Seq(Block) /\ path # <<>> /\ Len(path) \in Nat \ {0}
      /\ SplitHeight \in Nat \ {0} /\ Len(chain) + 1 >= SplitHeight
  BY <1>1 DEF ConnectNext, TypeOK, SwitchInv, Switching
<1>3. nxt' \in 1..Len(path)
  BY <1>1, <1>2 DEF ConnectNext, SwitchInv
<1>4. path[nxt'] \in Block
  BY <1>2, <1>3
<1>5. Call(path[nxt'], altOnb[path[nxt']], "switch") /\ altOnb[path[nxt']] \subseteq Tx
  BY <1>1, <1>4 DEF ConnectNext, TypeOK
<1>6. UNCHANGED << db, com, mem, pools, clock, path, disc, pushed >> /\ pc \in {"pop", "connected"}
  BY DEF ConnectNext
<1>7. TypeOK'
  BY <1>1, <1>3, <1>4, <1>5, <1>6 DEF TypeOK, View, Ledgers, Call, db, mem, pools, Pcs, Modes
<1>8. SwitchInv'
  BY <1>2, <1>3, <1>5, <1>6 DEF SwitchInv, Switching, InCall, SplitHeight, Height, Call, db
<1>9. ViewInv'
  BY <1>5, <1>6, QuietStep DEF Call, db
<1> QED BY <1>6, <1>7, <1>8, <1>9, ComStep DEF IndInv

LEMMA StartPushStep ==
  ASSUME IndInv, StartPush
  PROVE  IndInv'
<1>1. pc = "connected" /\ pc' = "push" /\ UNCHANGED << db, com, mem, pools, clock, call, switch >>
  BY DEF StartPush
<1>2. TypeOK'
  BY <1>1 DEF IndInv, TypeOK, View, Ledgers, db, mem, pools, call, switch, Pcs
<1>3. SwitchInv'
  BY <1>1 DEF IndInv, SwitchInv, Switching, InCall, SplitHeight, Height, db, switch
<1>4. ViewInv'
  BY <1>1, QuietStep DEF db
<1> QED BY <1>1, <1>2, <1>3, <1>4, ComStep DEF IndInv

LEMMA PushExMainStep ==
  ASSUME IndInv, PushExMain \/ ThrowPush
  PROVE  IndInv'
<1>1. TypeOK /\ SwitchInv /\ pc = "push" /\ pushed < Len(disc) /\ pushed' = pushed + 1
  BY DEF IndInv, PushExMain, ThrowPush
<1>2. UNCHANGED << db, com, pools, clock, call, path, disc, nxt >> /\ pc' \in {"push", "rollback"}
  BY DEF PushExMain, ThrowPush
<1>3. disc[pushed + 1] \in Block
  BY <1>1 DEF TypeOK
<1>4. TxSet(disc[pushed + 1]) \subseteq Tx /\ alt \cup {disc[pushed + 1]} \subseteq Block
  BY <1>1, <1>3, TxSetType DEF TypeOK
<1>5. \/ \E S \in SUBSET Block : AltInsert(disc[pushed + 1], TxSet(disc[pushed + 1]), S)
      \/ UNCHANGED mem
  BY <1>4, PruneType DEF PushExMain, ThrowPush
<1>6. /\ alt' \subseteq Block /\ altOnb' \in [Block -> SUBSET Tx]
      /\ altKi' \subseteq Ki \X Block /\ altTxs' \in [Tx -> Nat] /\ invalid' \subseteq Block
  <2>1. CASE UNCHANGED mem
    BY <1>1, <2>1 DEF TypeOK, mem
  <2>2. CASE \E S \in SUBSET Block : AltInsert(disc[pushed + 1], TxSet(disc[pushed + 1]), S)
    BY <1>1, <1>3, <1>4, <2>2, AltInsertType
  <2> QED BY <1>5, <2>1, <2>2
<1>7. TypeOK'
  BY <1>1, <1>2, <1>6 DEF TypeOK, View, Ledgers, db, pools, call, Pcs
<1>8. SwitchInv'
  BY <1>1, <1>2 DEF SwitchInv, Switching, InCall, SplitHeight, Height, db
<1>9. ViewInv'
  BY <1>1, <1>2, QuietStep DEF db
<1> QED BY <1>2, <1>7, <1>8, <1>9, ComStep DEF IndInv

LEMMA EraseConnectedStep ==
  ASSUME IndInv, EraseConnected
  PROVE  IndInv'
<1>1. TypeOK /\ pc \in {"push", "erase"} /\ pc' = "commit"
  BY DEF IndInv, EraseConnected
<1>2. UNCHANGED << db, com, invalid, pools, clock, call, switch >>
  BY DEF EraseConnected
<1>3. PICK S \in ErasedThrough(Elems(path)) : AltErase(S)
  BY DEF EraseConnected
<1>4. Elems(path) \in SUBSET Block /\ S \in SUBSET Block
  BY <1>1, <1>3, ElemsType DEF TypeOK, ErasedThrough
<1>5. /\ alt' \subseteq Block /\ altOnb' \in [Block -> SUBSET Tx]
      /\ altKi' \subseteq Ki \X Block /\ altTxs' \in [Tx -> Nat]
  BY <1>1, <1>3, <1>4, AltEraseType
<1>6. TypeOK'
  BY <1>1, <1>2, <1>5 DEF TypeOK, View, Ledgers, db, pools, call, switch, Pcs
<1>7. SwitchInv'
  BY <1>1 DEF SwitchInv, Switching, InCall
<1>8. ViewInv'
  BY <1>1, <1>2, QuietStep DEF db
<1> QED BY <1>2, <1>6, <1>7, <1>8, ComStep DEF IndInv

LEMMA RollbackConnectStep ==
  ASSUME IndInv, RollbackConnect
  PROVE  IndInv'
<1> DEFINE i == Len(chain) - SplitHeight + 2
<1> DEFINE o == IF i <= pushed THEN {} ELSE TxSet(disc[i])
<1>1. TypeOK /\ SwitchInv /\ pc \in {"rollback", "restored"}
  BY DEF IndInv, RollbackConnect
<1>2. UNCHANGED << db, com, mem, pools, clock, switch >>
  BY DEF RollbackConnect
<1>3. \/ i <= Len(disc) /\ Call(disc[i], o, "restore")
      \/ pc' = "rolledback" /\ UNCHANGED call
  BY DEF RollbackConnect
<1>4. /\ path # <<>> /\ SplitHeight \in Nat \ {0} /\ Len(chain) + 1 >= SplitHeight
      /\ Len(chain) \in Nat
  BY <1>1 DEF SwitchInv, Switching, TypeOK, View, Ledgers
<1>5. i \in Nat \ {0}
  BY <1>4
<1>6. i <= Len(disc) => disc[i] \in Block /\ o \subseteq Tx
  <2> HIDE DEF i
  <2>1. i <= Len(disc) => disc[i] \in Block
    BY <1>1, <1>5 DEF TypeOK
  <2> QED BY <2>1, TxSetType
<1> HIDE DEF i, o
<1>7. TypeOK'
  <2>1. CASE i <= Len(disc) /\ Call(disc[i], o, "restore")
    BY <1>1, <1>2, <1>6, <2>1
    DEF TypeOK, View, Ledgers, Call, db, mem, pools, switch, Pcs, Modes
  <2>2. CASE pc' = "rolledback" /\ UNCHANGED call
    BY <1>1, <1>2, <2>2 DEF TypeOK, View, Ledgers, db, mem, pools, call, switch, Pcs
  <2> QED BY <1>3, <2>1, <2>2
<1>8. SwitchInv'
  BY <1>2, <1>3, <1>4 DEF SwitchInv, Switching, InCall, SplitHeight, Height, Call, db, switch, call
<1>9. ViewInv'
  BY <1>1, <1>2, <1>3, QuietStep DEF Call, db
<1> QED BY <1>2, <1>7, <1>8, <1>9, ComStep DEF IndInv

LEMMA SwitchFailedStep ==
  ASSUME IndInv, SwitchFailed
  PROVE  IndInv'
<1> DEFINE S == Elems(SubSeq(path, nxt, Len(path)))
<1>1. TypeOK /\ AltErase(S) /\ invalid' = invalid \cup S /\ pc' = "abort"
  BY DEF IndInv, SwitchFailed
<1>2. UNCHANGED << db, com, pools, clock, call, switch >>
  BY DEF SwitchFailed
<1>3. S \in SUBSET Block
  <2>1. path \in Seq(Block) /\ nxt \in Nat \ {0}
    BY <1>1 DEF TypeOK
  <2>2. SubSeq(path, nxt, Len(path)) \in Seq(Block)
    BY <2>1
  <2> QED BY <2>2, ElemsType
<1> HIDE DEF S
<1>4. /\ alt' \subseteq Block /\ altOnb' \in [Block -> SUBSET Tx]
      /\ altKi' \subseteq Ki \X Block /\ altTxs' \in [Tx -> Nat]
  BY <1>1, <1>3, AltEraseType
<1>5. TypeOK'
  BY <1>1, <1>2, <1>3, <1>4 DEF TypeOK, View, Ledgers, db, pools, call, switch, Pcs
<1>6. SwitchInv' /\ ViewInv'
  BY <1>1 DEF SwitchInv, Switching, InCall, ViewInv
<1> QED BY <1>2, <1>5, <1>6, ComStep DEF IndInv

LEMMA SwitchPretendedStep ==
  ASSUME IndInv, SwitchPretended
  PROVE  IndInv'
<1>1. pc = "rolledback" /\ pc' = "erase" /\ UNCHANGED << db, com, mem, pools, clock, call, switch >>
  BY DEF SwitchPretended
<1>2. TypeOK'
  BY <1>1 DEF IndInv, TypeOK, View, Ledgers, db, mem, pools, call, switch, Pcs
<1>3. SwitchInv'
  BY <1>1 DEF IndInv, SwitchInv, Switching, InCall, SplitHeight, Height, db, switch
<1>4. ViewInv'
  BY <1>1, QuietStep DEF db
<1> QED BY <1>1, <1>2, <1>3, <1>4, ComStep DEF IndInv

\* Where handle_block_to_main_chain returns to.
LEMMA ReturnedFacts ==
  ASSUME NEW ok \in BOOLEAN, mode \in Modes, mode # "none"
  PROVE  /\ Returned(ok) \in {"commit", "abort", "connected", "rollback", "restored", "rolledback"}
         /\ Returned(ok) \notin {"commit", "abort"} => mode \in {"switch", "restore"}
         /\ Returned(ok) = "connected" => mode = "switch"
  BY DEF Returned, Modes

\* Leaving the call with the chain unchanged or one block longer.
LEMMA ReturnStep ==
  ASSUME IndInv, InCall, NEW ok \in BOOLEAN, pc' = Returned(ok), UNCHANGED << call, switch >>,
         Len(chain') \in Nat, Len(chain') >= Len(chain)
  PROVE  /\ pc' \in Pcs \ {"idle", "enter", "txs", "undo"}
         /\ SwitchInv'
<1>1. mode \in Modes /\ mode # "none" /\ Len(chain) \in Nat
  BY DEF IndInv, TypeOK, SwitchInv, View, Ledgers
<1>2. /\ pc' \in {"commit", "abort", "connected", "rollback", "restored", "rolledback"}
      /\ pc' \notin {"commit", "abort"} => mode \in {"switch", "restore"}
      /\ pc' = "connected" => mode = "switch"
  BY <1>1, ReturnedFacts
<1>3. SwitchInv
  BY DEF IndInv
<1>4. SwitchInv'
  BY <1>1, <1>2, <1>3 DEF SwitchInv, Switching, InCall, SplitHeight, Height, switch, call
<1> QED BY <1>2, <1>4 DEF Pcs

LEMMA EnterBlockStep ==
  ASSUME IndInv, EnterBlock
  PROVE  IndInv'
<1>1. /\ TypeOK /\ SwitchInv /\ pc = "enter" /\ cur \in Block /\ done \in Nat
      /\ UNCHANGED << chain, txdb, com, mem, pools, clock, call, switch >>
      /\ chain \in Seq(Block) /\ spent \in [Ki -> Nat] /\ Len(chain) \in Nat
  BY DEF IndInv, EnterBlock, TypeOK, View, Ledgers
<1>2. CASE HeaderOk(cur)
  <2>1. pc' = "txs" /\ spent' = Set(spent, Stake[cur], Len(chain) + 1)
    BY <1>2 DEF EnterBlock
  <2>2. Stake[cur] \subseteq Ki /\ (\A k \in Stake[cur] : spent[k] = 0)
    BY <1>1, <1>2, TxAssumption DEF HeaderOk
  <2>3. spent' \in [Ki -> Nat]
    BY <1>1, <2>1 DEF Set
  <2>4. TxsOf[cur] \in Seq(Tx) /\ done = 0
    BY <1>1, TxAssumption DEF IndInv, SwitchInv, InCall
  <2>5. TypeOK'
    BY <1>1, <2>1, <2>3, <2>4 DEF TypeOK, View, Ledgers, mem, pools, call, switch, Pcs
  <2>6. SwitchInv'
    BY <1>1, <2>1 DEF SwitchInv, Switching, InCall, SplitHeight, Height, call, switch
  <2>7. CurKi = {} /\ CurKi' = Stake[cur]
    <3>1. CurKi = {}
      BY <1>1 DEF CurKi
    <3>2. cur' = cur /\ done' = 0
      BY <1>1, <2>4 DEF call
    <3>3. CurKi' = SpentBy(cur, 0)
      BY <2>1, <3>2 DEF CurKi, SpentBy
    <3> QED BY <1>1, <3>1, <3>3, SpentByFacts
  <2>8. Exact(chain, spent, {}) /\ EachOnce(chain)
    BY <1>1, <2>7 DEF IndInv, ViewInv
  <2>9. Exact(chain', spent', {} \cup Stake[cur])
    BY <1>1, <2>1, <2>2, <2>8, ExactSpend
  <2>10. CurOnce'
    BY <1>1, <2>4 DEF CurOnce, call
  <2>11. ViewInv'
    BY <1>1, <2>1, <2>7, <2>8, <2>9, <2>10 DEF ViewInv
  <2> QED BY <1>1, <2>5, <2>6, <2>11, ComStep DEF IndInv
<1>3. CASE ~HeaderOk(cur)
  <2>1. pc' = Returned(FALSE) /\ spent' = spent
    BY <1>3 DEF EnterBlock
  <2>2. pc' \in Pcs \ {"idle", "enter", "txs", "undo"} /\ SwitchInv'
    <3>1. InCall /\ Len(chain') \in Nat /\ Len(chain') >= Len(chain)
      BY <1>1 DEF InCall
    <3>2. UNCHANGED << call, switch >> /\ FALSE \in BOOLEAN
      BY <1>1
    <3> QED BY <2>1, <3>1, <3>2, ReturnStep, Zenon
  <2>3. TypeOK'
    BY <1>1, <2>1, <2>2 DEF TypeOK, View, Ledgers, mem, pools, call, switch
  <2>4. ViewInv'
    BY <1>1, <2>1, <2>2, QuietStep
  <2> QED BY <1>1, <2>2, <2>3, <2>4, ComStep DEF IndInv
<1> QED BY <1>2, <1>3

LEMMA ProcessTxStep ==
  ASSUME IndInv, ProcessTx
  PROVE  IndInv'
<1> DEFINE t == TxsOf[cur][done + 1]
<1>1. /\ TypeOK /\ SwitchInv /\ pc = "txs" /\ pc' = "txs" /\ cur \in Block /\ cur' = cur
      /\ done \in Nat /\ done < Len(TxsOf[cur]) /\ done' = done + 1
      /\ chain' = chain /\ com' = com /\ UNCHANGED << mem, black, clock, mode, onb, switch >>
  BY DEF IndInv, ProcessTx, TypeOK
<1>2. TxsOf[cur] \in Seq(Tx) /\ t \in Tx
  BY <1>1, TxAssumption
<1>3. KiTx[t] \subseteq Ki /\ Len(TxsOf[cur]) \in Nat /\ done + 1 \in 1..Len(TxsOf[cur])
  BY <1>1, <1>2, TxAssumption
<1>4. chain \in Seq(Block) /\ spent \in [Ki -> Nat] /\ txdb \in [Tx -> Nat] /\ Len(chain) \in Nat
  BY <1>1 DEF TypeOK, View, Ledgers
<1>5. /\ \A k \in KiTx[t] : spent[k] = 0
      /\ txdb' = Set(txdb, {t}, Len(chain) + 1)
      /\ spent' = Set(spent, KiTx[t], Len(chain) + 1)
      /\ Take(t)
  BY DEF ProcessTx, AddTransaction, CurTx, InputsOk
<1> HIDE DEF t
<1>6. pool' \subseteq Tx /\ taken' \subseteq Tx
  BY <1>1, <1>2, <1>5 DEF Take, TypeOK
<1>7. txdb' \in [Tx -> Nat] /\ spent' \in [Ki -> Nat]
  BY <1>4, <1>5 DEF Set
<1>8. TypeOK'
  BY <1>1, <1>3, <1>4, <1>6, <1>7 DEF TypeOK, View, Ledgers, mem, switch
<1>9. SwitchInv'
  BY <1>1 DEF SwitchInv, Switching, InCall, SplitHeight, Height, switch
<1>10. CurKi = SpentBy(cur, done) /\ CurKi' = SpentBy(cur, done + 1)
  <2>1. CurKi = SpentBy(cur, done)
    BY <1>1 DEF CurKi
  <2>2. CurKi' = SpentBy(cur, done + 1)
    BY <1>1 DEF CurKi, SpentBy
  <2> QED BY <2>1, <2>2
<1>11. /\ SpentBy(cur, done) \subseteq Ki
       /\ SpentBy(cur, done + 1) = SpentBy(cur, done) \cup KiTx[t]
  <2>1. done + 1 - 1 = done /\ done \in 0..Len(TxsOf[cur])
    BY <1>1, <1>3
  <2> QED BY <1>1, <1>3, <2>1, SpentByFacts DEF t
<1>12. Exact(chain, spent, SpentBy(cur, done)) /\ EachOnce(chain) /\ CurOnce
  BY <1>1, <1>10 DEF IndInv, ViewInv
<1>13. Exact(chain', spent', SpentBy(cur, done) \cup KiTx[t])
  BY <1>1, <1>3, <1>4, <1>5, <1>11, <1>12, ExactSpend
<1>14. KiTx[t] \cap SpentBy(cur, done) = {}
  <2>1. \A k \in SpentBy(cur, done) : spent[k] = Len(chain) + 1
    BY <1>12 DEF Exact
  <2> QED BY <1>4, <1>5, <2>1
<1>15. CurOnce'
  <2>1. \A i \in 1..done : KiTx[TxsOf[cur][i]] \subseteq SpentBy(cur, done)
    BY DEF SpentBy
  <2>2. Stake[cur] \subseteq SpentBy(cur, done)
    BY DEF SpentBy
  <2>3. \A i \in 1..done : KiTx[t] \cap KiTx[TxsOf[cur][i]] = {}
    BY <1>14, <2>1
  <2>4. KiTx[t] \cap Stake[cur] = {}
    BY <1>14, <2>2
  <2>5. /\ \A i, j \in 1..done : i # j => KiTx[TxsOf[cur][i]] \cap KiTx[TxsOf[cur][j]] = {}
        /\ \A i \in 1..done : KiTx[TxsOf[cur][i]] \cap Stake[cur] = {}
    BY <1>1, <1>12 DEF CurOnce
  <2>6. \A i : i \in 1..(done + 1) <=> i \in 1..done \/ i = done + 1
    BY <1>1
  <2>7. \A i, j \in 1..(done + 1) : i # j => KiTx[TxsOf[cur][i]] \cap KiTx[TxsOf[cur][j]] = {}
    <3>1. ASSUME NEW i \in 1..(done + 1), NEW j \in 1..(done + 1), i # j
          PROVE  KiTx[TxsOf[cur][i]] \cap KiTx[TxsOf[cur][j]] = {}
      <4>1. CASE i \in 1..done /\ j \in 1..done
        BY <2>5, <3>1, <4>1
      <4>2. CASE i = done + 1 /\ j \in 1..done
        BY <2>3, <4>2 DEF t
      <4>3. CASE j = done + 1 /\ i \in 1..done
        BY <2>3, <4>3 DEF t
      <4> QED BY <2>6, <3>1, <4>1, <4>2, <4>3
    <3> QED BY <3>1
  <2>8. \A i \in 1..(done + 1) : KiTx[TxsOf[cur][i]] \cap Stake[cur] = {}
    BY <2>4, <2>5, <2>6 DEF t
  <2> QED BY <1>1, <2>7, <2>8 DEF CurOnce
<1>16. ViewInv'
  BY <1>1, <1>10, <1>11, <1>12, <1>13, <1>15 DEF ViewInv
<1> QED BY <1>1, <1>8, <1>9, <1>16, ComStep DEF IndInv

LEMMA RejectTxStep ==
  ASSUME IndInv, RejectTx
  PROVE  IndInv'
<1>1. /\ TypeOK /\ SwitchInv /\ pc = "txs" /\ pc' = "undo" /\ cur \in Block
      /\ done < Len(TxsOf[cur]) /\ done \in Nat /\ chain' = chain /\ spent' = spent
      /\ UNCHANGED << db, com, alt, altOnb, altKi, altTxs, clock, call, switch >>
  BY DEF IndInv, RejectTx, TypeOK, db
<1>2. CurTx \in Tx
  BY <1>1, TxAssumption DEF CurTx
<1>3. pool' \subseteq Tx /\ taken' \subseteq Tx /\ black' \subseteq Tx /\ invalid' \subseteq Block
  <2>1. pool' \subseteq pool \cup {CurTx} /\ black' \subseteq black \cup {CurTx}
    BY DEF RejectTx, pools
  <2>2. taken' \subseteq taken \cup {CurTx} /\ invalid' \subseteq invalid \cup {cur}
    BY DEF RejectTx, pools
  <2> QED BY <1>1, <1>2, <2>1, <2>2 DEF TypeOK
<1>4. TypeOK'
  BY <1>1, <1>3 DEF TypeOK, View, Ledgers, db, call, switch, Pcs
<1>5. SwitchInv'
  BY <1>1 DEF SwitchInv, Switching, InCall, SplitHeight, Height, call, switch
<1>6. CurKi' = CurKi /\ CurOnce' /\ chain' = chain /\ spent' = spent
  BY <1>1 DEF IndInv, ViewInv, CurOnce, CurKi, SpentBy, call
<1>7. ViewInv'
  BY <1>1, <1>6 DEF IndInv, ViewInv
<1> QED BY <1>1, <1>4, <1>5, <1>7, ComStep DEF IndInv

LEMMA FinishBlockStep ==
  ASSUME IndInv, FinishBlock
  PROVE  IndInv'
<1>1. /\ TypeOK /\ SwitchInv /\ pc = "txs" /\ cur \in Block /\ done = Len(TxsOf[cur])
      /\ chain \in Seq(Block) /\ spent \in [Ki -> Nat] /\ Len(chain) \in Nat
      /\ UNCHANGED << txdb, spent, com, alt, altOnb, altKi, altTxs, pools, clock, call, switch >>
  BY DEF IndInv, FinishBlock, TypeOK, View, Ledgers
<1>2. CASE chain' = chain /\ pc' = "undo" /\ invalid' \subseteq invalid \cup {cur}
  <2>1. TypeOK'
    BY <1>1, <1>2 DEF TypeOK, View, Ledgers, pools, call, switch, Pcs
  <2>2. SwitchInv'
    BY <1>1, <1>2 DEF SwitchInv, Switching, InCall, SplitHeight, Height, call, switch
  <2>3. CurKi' = CurKi /\ CurOnce'
    <3>1. cur' = cur /\ done' = done
      BY <1>1 DEF call
    <3>2. CurOnce
      BY <1>1 DEF IndInv, ViewInv
    <3>3. CurKi' = CurKi
      BY <1>1, <1>2, <3>1 DEF CurKi, SpentBy
    <3>4. CurOnce'
      <4>1. pc \in {"txs", "undo"} /\ pc' \in {"txs", "undo"}
        BY <1>1, <1>2
      <4> QED BY <3>1, <3>2, <4>1, Zenon DEF CurOnce
    <3> QED BY <3>3, <3>4
  <2>4. ViewInv'
    BY <1>1, <1>2, <2>3 DEF IndInv, ViewInv
  <2> QED BY <1>1, <2>1, <2>2, <2>4, ComStep DEF IndInv
<1>3. CASE chain' = Append(chain, cur) /\ pc' = Returned(TRUE) /\ invalid' = invalid
  <2>1. chain' \in Seq(Block) /\ Len(chain') = Len(chain) + 1
    BY <1>1, <1>3
  <2>2. InCall /\ Len(chain') \in Nat /\ Len(chain') >= Len(chain)
    BY <1>1, <2>1 DEF InCall
  <2>3. UNCHANGED << call, switch >> /\ TRUE \in BOOLEAN
    BY <1>1
  <2>4. pc' \in Pcs \ {"idle", "enter", "txs", "undo"} /\ SwitchInv'
    BY <1>3, <2>2, <2>3, ReturnStep, Zenon
  <2>5. TypeOK'
    BY <1>1, <1>3, <2>1, <2>4 DEF TypeOK, View, Ledgers, pools, call, switch
  <2>6. CurKi = KiOf(cur) /\ CurKi' = {} /\ CurOnce'
    <3>1. CurKi = SpentBy(cur, Len(TxsOf[cur]))
      BY <1>1 DEF CurKi
    <3>2. CurKi' = {} /\ CurOnce'
      BY <2>4 DEF CurKi, CurOnce
    <3> QED BY <1>1, <3>1, <3>2, SpentByFacts
  <2>7. Exact(chain, spent, KiOf(cur)) /\ EachOnce(chain) /\ CurOnce
    BY <1>1, <2>6 DEF IndInv, ViewInv
  <2>8. Exact(chain', spent', {})
    BY <1>1, <1>3, <2>7, ExactPushed
  <2>9. SpendsOnce(cur)
    BY <1>1, <2>7 DEF CurOnce, SpendsOnce
  <2>10. EachOnce(chain')
    <3>1. chain'[Len(chain) + 1] = cur /\ \A i \in 1..Len(chain) : chain'[i] = chain[i]
      BY <1>1, <1>3
    <3>2. \A i \in 1..Len(chain') : i \in 1..Len(chain) \/ i = Len(chain) + 1
      BY <1>1, <2>1
    <3> QED BY <2>7, <2>9, <3>1, <3>2 DEF EachOnce
  <2>11. ViewInv'
    BY <2>6, <2>8, <2>10 DEF ViewInv
  <2> QED BY <1>1, <2>4, <2>5, <2>11, ComStep DEF IndInv
<1> QED BY <1>2, <1>3 DEF FinishBlock

LEMMA UndoTxStep ==
  ASSUME IndInv, UndoTx
  PROVE  IndInv'
<1> DEFINE t == TxsOf[cur][done]
<1>1. /\ TypeOK /\ SwitchInv /\ pc = "undo" /\ pc' = "undo" /\ cur \in Block /\ cur' = cur
      /\ done \in Nat /\ done > 0 /\ done <= Len(TxsOf[cur]) /\ done' = done - 1
      /\ chain' = chain /\ com' = com /\ UNCHANGED << mem, taken, black, clock, mode, onb, switch >>
  BY DEF IndInv, UndoTx, PurgeTransaction, TypeOK
<1>2. TxsOf[cur] \in Seq(Tx) /\ t \in Tx /\ done \in 1..Len(TxsOf[cur]) /\ Len(TxsOf[cur]) \in Nat
  BY <1>1, TxAssumption
<1>3. chain \in Seq(Block) /\ spent \in [Ki -> Nat] /\ txdb \in [Tx -> Nat] /\ Len(chain) \in Nat
  BY <1>1 DEF TypeOK, View, Ledgers
<1>4. txdb' = Set(txdb, {t}, 0) /\ spent' = Set(spent, KiTx[t], 0) /\ pool' = pool \cup {t}
  BY DEF UndoTx, PurgeTransaction
<1>5. done - 1 \in 0..Len(TxsOf[cur]) /\ done - 1 \in Nat /\ done \in 0..Len(TxsOf[cur])
  BY <1>1, <1>2
<1>6. /\ SpentBy(cur, done) \subseteq Ki
      /\ SpentBy(cur, done) = SpentBy(cur, done - 1) \cup KiTx[t]
  BY <1>1, <1>2, <1>5, SpentByFacts
<1> HIDE DEF t
<1>7. txdb' \in [Tx -> Nat] /\ spent' \in [Ki -> Nat] /\ pool' \subseteq Tx
  BY <1>1, <1>2, <1>3, <1>4 DEF Set, TypeOK
<1>8. TypeOK'
  BY <1>1, <1>3, <1>5, <1>7 DEF TypeOK, View, Ledgers, mem, switch
<1>9. SwitchInv'
  BY <1>1 DEF SwitchInv, Switching, InCall, SplitHeight, Height, switch
<1>10. CurKi = SpentBy(cur, done) /\ CurKi' = SpentBy(cur, done - 1)
  <2>1. CurKi = SpentBy(cur, done)
    BY <1>1 DEF CurKi
  <2>2. CurKi' = SpentBy(cur, done - 1)
    BY <1>1 DEF CurKi, SpentBy
  <2> QED BY <2>1, <2>2
<1>11. Exact(chain, spent, SpentBy(cur, done)) /\ EachOnce(chain) /\ CurOnce
  BY <1>1, <1>10 DEF IndInv, ViewInv
<1>12. /\ \A i, j \in 1..done : i # j => KiTx[TxsOf[cur][i]] \cap KiTx[TxsOf[cur][j]] = {}
       /\ \A i \in 1..done : KiTx[TxsOf[cur][i]] \cap Stake[cur] = {}
  BY <1>1, <1>11 DEF CurOnce
<1>13. \A i \in 1..(done - 1) : i \in 1..done /\ i # done
  BY <1>1
<1>14. KiTx[t] \cap SpentBy(cur, done - 1) = {}
  <2>1. done \in 1..done
    BY <1>1
  <2>2. KiTx[t] \cap Stake[cur] = {} /\ \A i \in 1..(done - 1) : KiTx[t] \cap KiTx[TxsOf[cur][i]] = {}
    BY <1>12, <1>13, <2>1 DEF t
  <2> QED BY <2>2 DEF SpentBy
<1>15. SpentBy(cur, done) \ KiTx[t] = SpentBy(cur, done - 1)
  BY <1>6, <1>14
<1>16. KiTx[t] \in SUBSET SpentBy(cur, done)
  BY <1>6
<1>17. Exact(chain', spent', SpentBy(cur, done - 1))
  BY <1>1, <1>3, <1>4, <1>6, <1>11, <1>15, <1>16, ExactUndo
<1>18. CurOnce'
  BY <1>1, <1>12, <1>13 DEF CurOnce
<1>19. ViewInv'
  BY <1>1, <1>10, <1>11, <1>17, <1>18 DEF ViewInv
<1> QED BY <1>1, <1>8, <1>9, <1>19, ComStep DEF IndInv

LEMMA UndoCoinbaseStep ==
  ASSUME IndInv, UndoCoinbase
  PROVE  IndInv'
<1>1. /\ TypeOK /\ SwitchInv /\ pc = "undo" /\ pc' = Returned(FALSE) /\ cur \in Block /\ done = 0
      /\ spent' = Set(spent, Stake[cur], 0)
      /\ chain \in Seq(Block) /\ spent \in [Ki -> Nat] /\ Len(chain) \in Nat
      /\ UNCHANGED << chain, txdb, com, mem, pools, clock, call, switch >>
  BY DEF IndInv, UndoCoinbase, TypeOK, View, Ledgers
<1>2. InCall /\ Len(chain') \in Nat /\ Len(chain') >= Len(chain)
  BY <1>1 DEF InCall
<1>3. UNCHANGED << call, switch >> /\ FALSE \in BOOLEAN
  BY <1>1
<1>4. pc' \in Pcs \ {"idle", "enter", "txs", "undo"} /\ SwitchInv'
  BY <1>1, <1>2, <1>3, ReturnStep, Zenon
<1>5. spent' \in [Ki -> Nat]
  BY <1>1 DEF Set
<1>6. TypeOK'
  BY <1>1, <1>4, <1>5 DEF TypeOK, View, Ledgers, mem, pools, call, switch
<1>7. CurKi = Stake[cur] /\ CurKi' = {} /\ CurOnce'
  <2>1. CurKi = SpentBy(cur, 0)
    BY <1>1 DEF CurKi
  <2>2. CurKi' = {} /\ CurOnce'
    BY <1>4 DEF CurKi, CurOnce
  <2> QED BY <1>1, <2>1, <2>2, SpentByFacts
<1>8. Exact(chain, spent, Stake[cur]) /\ EachOnce(chain)
  BY <1>1, <1>7 DEF IndInv, ViewInv
<1>9. Stake[cur] \in SUBSET Ki /\ Stake[cur] \ Stake[cur] = {}
  BY <1>1, TxAssumption
<1>10. Exact(chain', spent', {})
  BY <1>1, <1>8, <1>9, ExactUndo
<1>11. ViewInv'
  BY <1>1, <1>7, <1>8, <1>10 DEF ViewInv
<1> QED BY <1>1, <1>4, <1>6, <1>11, ComStep DEF IndInv

-----------------------------------------------------------------------------
LEMMA CommitStep ==
  ASSUME IndInv, Commit
  PROVE  IndInv'
<1>1. /\ TypeOK /\ pc = "commit" /\ com' = View /\ Idle
      /\ chain' = chain /\ txdb' = txdb /\ spent' = spent /\ UNCHANGED << mem, pool, black, clock >>
  BY DEF IndInv, Commit, db
<1>2. TypeOK'
  BY <1>1 DEF TypeOK, View, Ledgers, Idle, mem, Pcs, Modes
<1>3. SwitchInv'
  BY <1>1 DEF Idle, SwitchInv, Switching, InCall
<1>4. ViewInv'
  BY <1>1, QuietStep DEF Idle
<1>5. CurKi = {}
  BY <1>1 DEF CurKi
<1>6. Exact(chain, spent, {}) /\ EachOnce(chain)
  BY <1>1, <1>5 DEF IndInv, ViewInv
<1>7. ComInv'
  BY <1>1, <1>6 DEF ComInv, View
<1> QED BY <1>2, <1>3, <1>4, <1>7 DEF IndInv

\* The database transaction is dropped: the view is the committed state again.
LEMMA RestoreStep ==
  ASSUME IndInv, Restore, pc' = "idle", com' = com
  PROVE  View' \in Ledgers /\ ViewInv' /\ ComInv'
<1>1. chain' = com.chain /\ txdb' = com.txdb /\ spent' = com.spent
  BY DEF Restore
<1>2. View' \in Ledgers
  BY <1>1 DEF IndInv, TypeOK, View, Ledgers
<1>3. CurKi' = {} /\ CurOnce'
  BY DEF CurKi, CurOnce
<1>4. ComInv
  BY DEF IndInv
<1>5. Exact(chain', spent', {}) /\ EachOnce(chain')
  BY <1>1, <1>4 DEF ComInv
<1> QED BY <1>2, <1>3, <1>5, ComStep DEF ViewInv

LEMMA AbortStep ==
  ASSUME IndInv, Abort
  PROVE  IndInv'
<1>1. TypeOK /\ Restore /\ Idle /\ UNCHANGED << com, mem, pool, black, clock >> /\ pc' = "idle"
  BY DEF IndInv, Abort, Idle
<1>2. View' \in Ledgers /\ ViewInv' /\ ComInv'
  BY <1>1, RestoreStep
<1>3. TypeOK'
  BY <1>1, <1>2 DEF TypeOK, Idle, mem, Pcs, Modes
<1>4. SwitchInv'
  BY <1>1 DEF Idle, SwitchInv, Switching, InCall
<1> QED BY <1>2, <1>3, <1>4 DEF IndInv

LEMMA CrashStep ==
  ASSUME IndInv, Crash
  PROVE  IndInv'
<1>1. /\ TypeOK /\ Restore /\ Idle /\ ForgetAlt /\ invalid' = {}
      /\ UNCHANGED << com, pool, black, clock >> /\ pc' = "idle"
  BY DEF IndInv, Crash, Idle
<1>2. View' \in Ledgers /\ ViewInv' /\ ComInv'
  BY <1>1, RestoreStep
<1>3. TypeOK'
  BY <1>1, <1>2 DEF TypeOK, Idle, ForgetAlt, Pcs, Modes
<1>4. SwitchInv'
  BY <1>1 DEF Idle, SwitchInv, Switching, InCall
<1> QED BY <1>2, <1>3, <1>4 DEF IndInv

LEMMA ThrowStep ==
  ASSUME IndInv, Throw
  PROVE  IndInv'
<1>1. TypeOK /\ pc' = "abort" /\ UNCHANGED << db, com, mem, pools, clock, call, switch >>
  BY DEF IndInv, Throw
<1>2. TypeOK'
  BY <1>1 DEF TypeOK, View, Ledgers, db, mem, pools, call, switch, Pcs
<1>3. SwitchInv' /\ ViewInv'
  BY <1>1 DEF SwitchInv, Switching, InCall, ViewInv
<1> QED BY <1>1, <1>2, <1>3, ComStep DEF IndInv

\* The other threads: the view and the control state stay as they are.
LEMMA BystanderStep ==
  ASSUME IndInv, UNCHANGED << db, com, pc, call, switch >>
  PROVE  SwitchInv' /\ ViewInv' /\ ComInv'
<1>1. SwitchInv'
  BY DEF IndInv, SwitchInv, Switching, InCall, SplitHeight, Height, db, call, switch
<1>2. cur' = cur /\ done' = done /\ chain' = chain /\ spent' = spent /\ pc' = pc /\ ViewInv
  BY DEF IndInv, db, call
<1>3. ViewInv'
  BY <1>2 DEF ViewInv, CurKi, SpentBy, CurOnce
<1> QED BY <1>1, <1>3, ComStep

LEMMA IncomingTxStep ==
  ASSUME IndInv, NEW t \in Tx, IncomingTx(t) \/ RemoveStuck(t)
  PROVE  IndInv'
<1>1. UNCHANGED << db, com, mem, taken, black, clock, pc, call, switch >> /\ pool' \subseteq pool \cup {t}
  BY DEF IncomingTx, RemoveStuck
<1>2. TypeOK'
  BY <1>1 DEF IndInv, TypeOK, View, Ledgers, db, mem, call, switch
<1> QED BY <1>1, <1>2, BystanderStep DEF IndInv

LEMMA ClearAltblocksStep ==
  ASSUME IndInv, ClearAltblocks
  PROVE  IndInv'
<1>1. ForgetAlt /\ UNCHANGED << db, com, invalid, pools, clock, pc, call, switch >>
  BY DEF ClearAltblocks
<1>2. TypeOK'
  BY <1>1 DEF IndInv, TypeOK, View, Ledgers, ForgetAlt, db, pools, call, switch
<1> QED BY <1>1, <1>2, BystanderStep DEF IndInv

LEMMA PruneAltBlocksStep ==
  ASSUME IndInv, PruneAltBlocks
  PROVE  IndInv'
<1>1. TypeOK /\ alt \in SUBSET Block /\ UNCHANGED << db, com, invalid, pools, clock, pc, call, switch >>
  BY DEF IndInv, TypeOK, PruneAltBlocks
<1>2. PICK S \in PruneChoices(alt) : AltErase(S)
  BY DEF PruneAltBlocks
<1>3. S \in SUBSET Block
  BY <1>1, <1>2, PruneType
<1>4. /\ alt' \subseteq Block /\ altOnb' \in [Block -> SUBSET Tx]
      /\ altKi' \subseteq Ki \X Block /\ altTxs' \in [Tx -> Nat]
  BY <1>1, <1>2, <1>3, AltEraseType
<1>5. TypeOK'
  BY <1>1, <1>4 DEF TypeOK, View, Ledgers, db, pools, call, switch
<1> QED BY <1>1, <1>5, BystanderStep DEF IndInv

LEMMA SetClockStep ==
  ASSUME IndInv, SetClock
  PROVE  IndInv'
<1>1. clock' \in Clock /\ UNCHANGED << db, com, mem, pools, pc, call, switch >>
  BY DEF SetClock
<1>2. TypeOK'
  BY <1>1 DEF IndInv, TypeOK, View, Ledgers, db, mem, pools, call, switch
<1> QED BY <1>1, <1>2, BystanderStep DEF IndInv

LEMMA TruncateStep ==
  ASSUME IndInv, NEW n \in TruncateTo, TruncateBlockchain(n)
  PROVE  IndInv'
<1> DEFINE gone == { chain[i] : i \in (n + 1)..Len(chain) }
<1>1. /\ TypeOK /\ pc = "idle" /\ pc' = "idle" /\ n < Len(chain)
      /\ chain \in Seq(Block) /\ spent \in [Ki -> Nat] /\ txdb \in [Tx -> Nat] /\ Len(chain) \in Nat
  BY DEF IndInv, TruncateBlockchain, TypeOK, View, Ledgers
<1>2. /\ txdb' = Set(txdb, UNION { TxSet(b) : b \in gone }, 0)
      /\ spent' = Set(spent, UNION { KiOf(b) : b \in gone }, 0)
      /\ pool' = pool \cup UNION { TxSet(b) : b \in gone }
      /\ chain' = SubSeq(chain, 1, n)
      /\ com' = [chain |-> chain', txdb |-> txdb', spent |-> spent']
      /\ ForgetAlt /\ UNCHANGED << invalid, taken, black, clock, pc, call, switch >>
  BY DEF TruncateBlockchain
<1>3. n \in Nat /\ n \in 0..Len(chain)
  BY <1>1, ParameterAssumption
<1>4. gone \subseteq Block
  BY <1>1, <1>3
<1>5. \A k \in Ki : k \in UNION { KiOf(b) : b \in gone } <=>
                      \E i \in (n + 1)..Len(chain) : k \in KiOf(chain[i])
  OBVIOUS
<1>6. pool' \subseteq Tx
  <2>1. \A b \in gone : TxSet(b) \subseteq Tx
    BY <1>4, TxSetType
  <2> HIDE DEF gone
  <2>2. UNION { TxSet(b) : b \in gone } \subseteq Tx
    BY <2>1
  <2>3. pool \subseteq Tx /\ pool' = pool \cup UNION { TxSet(b) : b \in gone }
    BY <1>1, <1>2 DEF TypeOK
  <2> QED BY <2>2, <2>3, Zenon
<1> HIDE DEF gone
<1>7. txdb' \in [Tx -> Nat] /\ spent' \in [Ki -> Nat]
  BY <1>1, <1>2 DEF Set
<1>8. chain' \in Seq(Block) /\ Len(chain') = n
  BY <1>1, <1>2, <1>3, PrefixFacts
<1>9. TypeOK'
  <2>1. View' \in Ledgers /\ com' \in Ledgers
    BY <1>2, <1>7, <1>8 DEF View, Ledgers
  <2>2. UNCHANGED << invalid, taken, black, clock, pc, call, switch >> /\ ForgetAlt
    BY <1>2
  <2> QED BY <1>1, <1>6, <2>1, <2>2 DEF TypeOK, ForgetAlt, call, switch
<1>10. SwitchInv'
  BY <1>1 DEF SwitchInv, Switching, InCall
<1>11. CurKi = {} /\ CurKi' = {} /\ CurOnce'
  BY <1>1 DEF CurKi, CurOnce
<1>12. Exact(chain, spent, {}) /\ EachOnce(chain)
  BY <1>1, <1>11 DEF IndInv, ViewInv
<1>13. Exact(chain', spent', {})
  BY <1>1, <1>2, <1>3, <1>5, <1>12, ExactTruncated
<1>14. EachOnce(chain')
  BY <1>1, <1>2, <1>3, <1>12, PrefixOnce
<1>15. ViewInv' /\ ComInv'
  BY <1>2, <1>11, <1>13, <1>14 DEF ViewInv, ComInv
<1> QED BY <1>9, <1>10, <1>15 DEF IndInv

-----------------------------------------------------------------------------
(***************************************************************************)
(* The theorems.                                                           *)
(***************************************************************************)
\* IndInv holds in every reachable state: add_new_block and everything it
\* calls, the faults and the other threads preserve it.
THEOREM Invariance == Spec => []IndInv
<1>1. IndInv /\ [Next]_vars => IndInv'
  <2> SUFFICES ASSUME IndInv, [Next]_vars PROVE IndInv'
    OBVIOUS
  <2>1. ASSUME NEW b \in Block, ReceiveMain(b) \/ ReceiveAlt(b) PROVE IndInv'
    BY <2>1, ReceiveMainStep, ReceiveAltStep
  <2>2. CASE BlockThread
    BY <2>2, DisconnectStep, ConnectNextStep, StartPushStep, PushExMainStep, EraseConnectedStep,
       RollbackPopStep, RollbackConnectStep, SwitchFailedStep, SwitchPretendedStep,
       EnterBlockStep, ProcessTxStep, RejectTxStep, FinishBlockStep, UndoTxStep, UndoCoinbaseStep,
       CommitStep, AbortStep
    DEF BlockThread
  <2>3. CASE Throw \/ ThrowPush \/ Crash
    BY <2>3, ThrowStep, PushExMainStep, CrashStep
  <2>4. ASSUME NEW t \in Tx, IncomingTx(t) \/ RemoveStuck(t) PROVE IndInv'
    BY <2>4, IncomingTxStep
  <2>5. CASE ClearAltblocks \/ PruneAltBlocks \/ SetClock
    BY <2>5, ClearAltblocksStep, PruneAltBlocksStep, SetClockStep
  <2>6. ASSUME NEW n \in TruncateTo, TruncateBlockchain(n) PROVE IndInv'
    BY <2>6, TruncateStep
  <2>7. CASE UNCHANGED vars
    <3>1. UNCHANGED << db, com, mem, pools, clock, pc, call, switch >>
      BY <2>7 DEF vars
    <3>2. TypeOK'
      BY <3>1 DEF IndInv, TypeOK, View, Ledgers, db, mem, pools, call, switch
    <3> QED BY <3>1, <3>2, BystanderStep DEF IndInv
  <2> QED BY <2>1, <2>2, <2>3, <2>4, <2>5, <2>6, <2>7, Zenon DEF Next
<1> QED BY <1>1, InitIndInv, PTL DEF Spec

\* The types of the state, the positions of the reorganisation's loops included.
THEOREM TypeCorrect == Spec => []TypeOK
<1>1. IndInv => TypeOK
  BY Zenon DEF IndInv
<1> QED BY <1>1, Invariance, PTL

\* m_db_spent_keys is exactly what the blocks of the chain spend, at every step
\* of a block's processing, of a reorganisation and of its rollback, and in the
\* committed state whatever was aborted or interrupted.
THEOREM SpentKeysExact == Spec => []SpentExact
<1>1. IndInv => SpentExact
  BY Zenon DEF IndInv, ViewInv, ComInv, SpentExact
<1> QED BY <1>1, Invariance, PTL

\* No key image is spent twice in the committed chain.
THEOREM NoKeyImageTwice == Spec => []NoDoubleSpend
<1>1. IndInv => NoDoubleSpend
  <2> SUFFICES ASSUME IndInv PROVE NoDoubleSpend
    OBVIOUS
  <2>1. com.chain \in Seq(Block) /\ Exact(com.chain, com.spent, {}) /\ EachOnce(com.chain)
    BY DEF IndInv, TypeOK, Ledgers, ComInv
  <2> QED BY <2>1, ExactOnce DEF NoDoubleSpend, EachOnce
<1> QED BY <1>1, Invariance, PTL
=============================================================================
