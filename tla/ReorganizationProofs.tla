------------------------ MODULE ReorganizationProofs ------------------------
(***************************************************************************)
(* Proofs about the reorganisation of BlockchainStorage: that a rollback   *)
(* restores the chain it started from, that the committed chain behaves as *)
(* the abstract ledger and keeps its checkpoint, that a connected block    *)
(* finds its transactions, that no transaction is lost or both in the pool *)
(* and in the chain, that the chain is the best one known, and that the    *)
(* alternative chains are book-kept exactly.                               *)
(*                                                                         *)
(* The invariants follow the path of a reorganisation: which branch the    *)
(* view is a part of at each point (PathInv, DiscInv, PlaceInv), that both *)
(* branches consist of blocks that passed every check (LinkInv, HeadInv),  *)
(* and that what they need is still at hand (HandInv, AltInv).             *)
(***************************************************************************)
EXTENDS BlockchainStorageProofs, SequenceTheorems, WellFoundedInduction

\* The last block of a chain.
LastOf(c) == IF c = <<>> THEN Genesis ELSE c[Len(c)]

\* c is a branch of the tree of blocks, and d goes on where c ends.
Chained(c)   == c = Branch[LastOf(c)]
Prefix(c, d) == Len(c) <= Len(d) /\ \A i \in 1..Len(c) : c[i] = d[i]

\* What was checked of a block before it became the one at height h.
GoodTx(t, h) == t \notin BadInputs /\ (t \notin BadProof \/ InCheckpointZone(h))
GoodHeader(b) == CheckBlock(b) /\ PrevalidateMinerTx(b) /\ ValidateProof(b)
Good(b, h) ==
  /\ GoodHeader(b) /\ LateChecks(b) /\ DeclaredSizeOk(b)
  /\ \A i \in 1..Len(TxsOf[b]) : GoodTx(TxsOf[b][i], h)
  /\ \A i, j \in 1..Len(TxsOf[b]) : i # j => TxsOf[b][i] # TxsOf[b][j]
AllGood(c) == \A i \in 1..Len(c) : Good(c[i], i)

\* m_db_transactions is exactly the transactions of the blocks of the chain.
TxsBy(b, n) == { TxsOf[b][i] : i \in 1..n }
CurTxs == IF pc \in {"txs", "undo"} THEN TxsBy(cur, done) ELSE {}
TxExact(c, d, X) ==
  /\ \A i \in 1..Len(c) : \A t \in TxSet(c[i]) : d[t] = i
  /\ \A t \in X : d[t] = Len(c) + 1
  /\ \A t \in Tx : d[t] # 0 => t \in X \/ (d[t] <= Len(c) /\ t \in TxSet(c[d[t]]))

\* The committed state and the view are branches of checked blocks.
LinkInv ==
  /\ Chained(com.chain) /\ AllGood(com.chain) /\ TxExact(com.chain, com.txdb, {})
  /\ Chained(chain) /\ AllGood(chain)
  /\ pc # "abort" => TxExact(chain, txdb, CurTxs)

\* What is known of the block in progress.
HeadInv ==
  /\ pc = "txs" => Parent[cur] = Top /\ CheckBlock(cur)
  /\ pc = "txs" /\ mode # "sim" => GoodHeader(cur)
  /\ pc = "txs" => \A i \in 1..done : GoodTx(TxsOf[cur][i], Len(chain) + 1)
  /\ pc \in {"txs", "undo"} => \A i, j \in 1..done : i # j => TxsOf[cur][i] # TxsOf[cur][j]

\* The transactions of the committed chain stay at hand.
HandInv ==
  pc # "abort" => \A t \in Tx : com.txdb[t] # 0 => t \in pool \/ txdb[t] # 0

\* The reorganisation.
Tip      == path[Len(path)]
Building == pc = "connected" \/ (InCall /\ mode = "switch")
Restoring == pc = "restored" \/ (InCall /\ mode = "restore")

PathInv ==
  Switching =>
    /\ Len(path) = Height(Tip) - SplitHeight + 1
    /\ \A i \in 1..Len(path) : path[i] = Branch[Tip][SplitHeight - 1 + i]
    /\ SplitHeight <= Len(com.chain) + 1
    /\ \A i \in 1..(SplitHeight - 1) : com.chain[i] = Branch[Tip][i]
    /\ ReorganizeRequired(LastOf(com.chain), Tip)

DiscInv ==
  /\ pc = "pop" => /\ pushed = 0 /\ Len(disc) = Len(com.chain) - Len(chain)
                   /\ \A i \in 1..Len(disc) : disc[i] = com.chain[Len(chain) + i]
  /\ Switching /\ pc # "pop" =>
       /\ Len(disc) = Len(com.chain) - SplitHeight + 1
       /\ \A i \in 1..Len(disc) : disc[i] = com.chain[SplitHeight - 1 + i]

PlaceInv ==
  /\ pc = "idle" => View = com /\ disc = <<>> /\ pushed = 0
  /\ InCall /\ mode \in {"main", "sim"} => chain = com.chain
  /\ pc \in {"pop", "rolledback"} \/ Restoring => Prefix(chain, com.chain)
  /\ pc \in {"push", "rollback"} \/ Building => Prefix(chain, Branch[Tip])
  /\ pc = "connected" => Len(chain) = SplitHeight - 1 + nxt
  /\ InCall /\ mode = "switch" => Len(chain) = SplitHeight - 2 + nxt /\ cur = path[nxt]
  /\ pc = "push" => Len(chain) = Height(Tip)
  /\ InCall /\ mode = "restore" => Len(chain) < Len(com.chain) /\ cur = com.chain[Len(chain) + 1]

RouteInv == PathInv /\ DiscInv /\ PlaceInv

\* What is kept of an alternative block is complete: its transactions and its key
\* images.
AltData ==
  /\ \A b \in alt : TxSet(b) \subseteq altOnb[b]
  /\ \A b \in alt : \A k \in KiOf(b) : << k, b >> \in altKi

\* The chain being connected is still there, and so are the transactions of the block
\* in progress.
AltInv ==
  /\ AltData
  /\ pc = "pop" \/ Building => Elems(path) \subseteq alt
  /\ InCall /\ mode = "switch" => TxSet(cur) \subseteq onb

ReorgInv == LinkInv /\ HeadInv /\ HandInv /\ RouteInv /\ AltInv

AbortInv == pc = "abort" => \A t \in Tx : txdb[t] # 0 => com.txdb[t] # 0

StampInv ==
  /\ \A i \in 1..Len(com.chain) : Timestamp[com.chain[i]] <= clock
  /\ \A i \in 1..Len(chain) : Timestamp[chain[i]] <= clock
  /\ pc = "txs" => Timestamp[cur] <= clock

\* The rollback is complete, and what is committed is the old chain, the old chain
\* and a block, or the branch of a better block.
Outcome ==
  \/ chain = com.chain
  \/ \E b \in Block : Parent[b] = LastOf(com.chain) /\ chain = Append(com.chain, b)
  \/ \E b \in Block : ReorganizeRequired(LastOf(com.chain), b) /\ chain = Branch[b]

CommitInv ==
  /\ pc = "undo" => mode # "restore"
  /\ pc \in {"rolledback", "erase"} => chain = com.chain
  /\ pc = "commit" => Outcome

\* Neither the branch nor the outcome is shorter than the checkpoint once it is passed.
CpInv ==
  CpHeight <= Len(com.chain) =>
    /\ Switching => CpHeight <= Height(Tip)
    /\ pc = "commit" => CpHeight <= Len(chain)

-----------------------------------------------------------------------------
(***************************************************************************)
(* The tree of blocks.                                                     *)
(***************************************************************************)
LEMMA BranchFacts ==
  ASSUME NEW b \in Block
  PROVE  /\ Branch[b] \in Seq(Block) /\ Branch[Parent[b]] \in Seq(Block)
         /\ Branch[b] = Append(Branch[Parent[b]], b)
         /\ Len(Branch[b]) = Len(Branch[Parent[b]]) + 1
         /\ Branch[b][Len(Branch[b])] = b
         /\ \A i \in 1..Len(Branch[Parent[b]]) : Branch[b][i] = Branch[Parent[b]][i]
<1>1. /\ Branch[b] = Append(Branch[Parent[b]], b) /\ Branch[Parent[b]] \in Seq(Block)
      /\ Branch[b] \in Seq(Block)
  BY BlockAssumption
<1> DEFINE p == Branch[Parent[b]]
<1> HIDE DEF p
<1>2. p \in Seq(Block) /\ Branch[b] = Append(p, b)
  BY <1>1 DEF p
<1>3. /\ Len(Append(p, b)) = Len(p) + 1 /\ Append(p, b)[Len(p) + 1] = b
      /\ \A i \in 1..Len(p) : Append(p, b)[i] = p[i]
  BY <1>2
<1> QED BY <1>1, <1>2, <1>3 DEF p

\* Equal length and equal elements make equal sequences.
LEMMA SameSeq ==
  ASSUME NEW R, NEW c \in Seq(R), NEW d \in Seq(R), Len(c) = Len(d),
         \A i \in 1..Len(c) : c[i] = d[i]
  PROVE  c = d
  BY SeqEqual

\* A set of natural numbers has a smallest element: the intervals 1..m are well
\* founded under strict inclusion.
LEMMA LeastElement ==
  ASSUME NEW T \in SUBSET Nat, T # {}
  PROVE  \E m \in T : \A k \in T : ~(k < m)
<1> DEFINE F == { 1..m : m \in T }
<1>1. \A m \in T : 1..m \in FiniteSubsetsOf(Nat)
  <2> TAKE m \in T
  <2>1. IsFiniteSet(1..m) /\ 1..m \subseteq Nat
    BY FS_Interval
  <2> QED BY <2>1 DEF FiniteSubsetsOf
<1>2. F \subseteq FiniteSubsetsOf(Nat) /\ F # {}
  BY <1>1
<1> DEFINE R == StrictSubsetOrdering(Nat)
<1>3. IsWellFoundedOn(R, FiniteSubsetsOf(Nat))
  BY FS_StrictSubsetOrderingWellFounded
<1>4. PICK X \in F : \A Y \in F : ~(<< Y, X >> \in R)
  <2> HIDE DEF F, R
  <2> QED BY <1>2, <1>3, WFMin
<1>5. PICK m \in T : X = 1..m
  OBVIOUS
<1>6. ASSUME NEW k \in T, k < m PROVE FALSE
  <2>1. 1..k \in F /\ 1..k \subseteq Nat /\ 1..m \subseteq Nat
    OBVIOUS
  <2>2. \A i \in 1..k : i \in 1..m
    BY <1>6
  <2>3. m \in 1..m /\ m \notin 1..k
    BY <1>6
  <2>4. 1..k \subseteq 1..m /\ 1..k # 1..m
    BY <2>2, <2>3
  <2> DEFINE x == 1..k
  <2> DEFINE y == 1..m
  <2>5. << x, y >> \in R
    <3>1. x \subseteq Nat /\ y \subseteq Nat /\ x \subseteq y /\ x # y
      BY <2>1, <2>4
    <3> HIDE DEF x, y
    <3> QED BY <3>1 DEF StrictSubsetOrdering
  <2> QED BY <1>4, <1>5, <2>1, <2>5
<1> QED BY <1>6

\* The branch of a block on the branch of b is the part of it up to that block:
\* a minimal counterexample has a smaller one in its parent.
LEMMA BranchPrefix ==
  ASSUME NEW b \in Block, NEW n \in 1..Len(Branch[b])
  PROVE  Prefix(Branch[Branch[b][n]], Branch[b]) /\ Len(Branch[Branch[b][n]]) = n
<1> DEFINE Bad(a) == \E i \in 1..Len(Branch[a]) : \E j \in 1..i : Branch[Branch[a][i]][j] # Branch[a][j]
<1> DEFINE T == { m \in Nat : \E a \in Block : Len(Branch[a]) = m /\ Bad(a) }
<1>1. \A a \in Block : \A i \in 1..Len(Branch[a]) : Len(Branch[Branch[a][i]]) = i
  BY BlockAssumption
<1>2. T = {}
  <2> SUFFICES ASSUME T # {} PROVE FALSE
    OBVIOUS
  <2>1. T \subseteq Nat
    OBVIOUS
  <2>2. PICK m \in T : \A k \in T : ~(k < m)
    BY <2>1, LeastElement
  <2>3. PICK a \in Block : Len(Branch[a]) = m /\ Bad(a)
    OBVIOUS
  <2>4. PICK i \in 1..Len(Branch[a]) : \E j \in 1..i : Branch[Branch[a][i]][j] # Branch[a][j]
    BY <2>3
  <2>5. PICK j \in 1..i : Branch[Branch[a][i]][j] # Branch[a][j]
    BY <2>4
  <2> DEFINE p == Parent[a]
  <2> DEFINE h == Len(Branch[p])
  <2>6. /\ Branch[p] \in Seq(Block) /\ Branch[a] \in Seq(Block)
        /\ Len(Branch[a]) = Len(Branch[p]) + 1 /\ Branch[a][Len(Branch[a])] = a
        /\ \A x \in 1..Len(Branch[p]) : Branch[a][x] = Branch[p][x]
    BY BranchFacts
  <2>7. i # Len(Branch[a])
    BY <2>5, <2>6
  <2>8. i \in 1..h /\ j \in 1..h /\ h \in Nat
    <3>1. h \in Nat /\ Len(Branch[a]) = h + 1
      BY <2>6
    <3> HIDE DEF h
    <3> QED BY <2>7, <3>1
  <2>9. p \in Block
    <3>1. p \in Block \cup {Genesis} /\ Len(Branch[Genesis]) = 0
      BY BlockAssumption
    <3> QED BY <2>8, <3>1
  <2>10. Branch[a][i] = Branch[p][i] /\ Branch[a][j] = Branch[p][j]
    BY <2>6, <2>8
  <2>11. Branch[Branch[p][i]][j] # Branch[p][j]
    BY <2>5, <2>10
  <2>12. Bad(p)
    BY <2>8, <2>11
  <2>13. h \in T
    BY <2>8, <2>9, <2>12
  <2>14. h < m
    BY <2>3, <2>6, <2>8
  <2> QED BY <2>2, <2>13, <2>14
<1>3. ~Bad(b)
  <2>1. Len(Branch[b]) \in Nat
    BY BranchFacts
  <2> QED BY <1>2, <2>1
<1>4. \A j \in 1..n : Branch[Branch[b][n]][j] = Branch[b][j]
  BY <1>3
<1> QED BY <1>1, <1>4, BranchFacts DEF Prefix

LEMMA LastOfType ==
  ASSUME NEW c \in Seq(Block)
  PROVE  /\ LastOf(c) \in Block \cup {Genesis}
         /\ c = <<>> => LastOf(c) = Genesis
         /\ Len(c) > 0 => LastOf(c) = c[Len(c)] /\ LastOf(c) \in Block
  BY DEF LastOf

LEMMA TopIsLast == Top = LastOf(chain)
  BY DEF Top, LastOf

LEMMA GenesisBranch == Branch[Genesis] = <<>> /\ Len(Branch[Genesis]) = 0
  BY BlockAssumption

LEMMA BranchChained ==
  ASSUME NEW b \in Block
  PROVE  Chained(Branch[b]) /\ LastOf(Branch[b]) = b
<1>1. Branch[b] \in Seq(Block) /\ Branch[b][Len(Branch[b])] = b /\ Len(Branch[b]) > 0
  BY BranchFacts, HeightType DEF Height
<1>2. Branch[b] # <<>>
  BY <1>1
<1> QED BY <1>1, <1>2 DEF LastOf, Chained

\* Two branches with the same block at height n agree below it.
LEMMA CommonPart ==
  ASSUME NEW c \in Seq(Block), NEW d \in Seq(Block), Chained(c), Chained(d),
         NEW n \in 1..Len(c), n <= Len(d), c[n] = d[n]
  PROVE  \A i \in 1..n : c[i] = d[i]
<1>1. Len(c) > 0 /\ Len(d) > 0 /\ n \in 1..Len(d)
  OBVIOUS
<1> DEFINE a == LastOf(c)
<1> DEFINE b == LastOf(d)
<1>2. a \in Block /\ b \in Block /\ c = Branch[a] /\ d = Branch[b]
  BY <1>1, LastOfType DEF Chained
<1> HIDE DEF a, b
<1>3. Prefix(Branch[c[n]], c) /\ Len(Branch[c[n]]) = n
  BY <1>2, BranchPrefix
<1>4. Prefix(Branch[d[n]], d) /\ Len(Branch[d[n]]) = n
  BY <1>1, <1>2, BranchPrefix
<1> QED BY <1>3, <1>4 DEF Prefix

LEMMA ChainedPart ==
  ASSUME NEW c \in Seq(Block), Chained(c), NEW n \in 0..Len(c)
  PROVE  Chained(SubSeq(c, 1, n))
<1> DEFINE d == SubSeq(c, 1, n)
<1>1. d \in Seq(Block) /\ Len(d) = n /\ \A i \in 1..n : d[i] = c[i]
  OBVIOUS
<1> HIDE DEF d
<1>2. CASE n = 0
  <2>1. d = <<>>
    BY <1>1, <1>2
  <2> QED BY <2>1, GenesisBranch DEF Chained, LastOf, d
<1>3. CASE n > 0
  <2>1. Len(c) > 0 /\ n \in 1..Len(c)
    BY <1>3
  <2>2. LastOf(c) \in Block /\ c = Branch[LastOf(c)]
    BY <2>1, LastOfType DEF Chained
  <2>3. Prefix(Branch[c[n]], c) /\ Len(Branch[c[n]]) = n
    BY <2>1, <2>2, BranchPrefix
  <2>4. LastOf(d) = c[n]
    BY <1>1, <1>3, LastOfType
  <2>5. c[n] \in Block
    BY <2>1
  <2>6. Branch[c[n]] \in Seq(Block)
    BY <2>5, BranchFacts
  <2>7. d = Branch[c[n]]
    BY <1>1, <2>3, <2>6, SameSeq DEF Prefix
  <2> QED BY <2>4, <2>7 DEF Chained, d
<1> QED BY <1>2, <1>3

LEMMA ChainedAppend ==
  ASSUME NEW c \in Seq(Block), Chained(c), NEW b \in Block, Parent[b] = LastOf(c)
  PROVE  Chained(Append(c, b)) /\ Append(c, b) = Branch[b]
<1>1. Append(c, b) = Branch[b]
  BY BranchFacts DEF Chained
<1> QED BY <1>1, BranchChained

\* The parts of a chain keep what holds of each of its blocks.
LEMMA GoodPart ==
  ASSUME NEW c \in Seq(Block), AllGood(c), NEW n \in 0..Len(c)
  PROVE  AllGood(SubSeq(c, 1, n))
<1>1. Len(SubSeq(c, 1, n)) = n /\ \A i \in 1..n : SubSeq(c, 1, n)[i] = c[i] /\ i \in 1..Len(c)
  OBVIOUS
<1> QED BY <1>1 DEF AllGood

LEMMA GoodAppend ==
  ASSUME NEW c \in Seq(Block), AllGood(c), NEW b \in Block, Good(b, Len(c) + 1)
  PROVE  AllGood(Append(c, b))
<1>1. /\ Len(Append(c, b)) = Len(c) + 1 /\ Append(c, b)[Len(c) + 1] = b
      /\ \A i \in 1..Len(c) : Append(c, b)[i] = c[i]
      /\ \A i \in 1..(Len(c) + 1) : i \in 1..Len(c) \/ i = Len(c) + 1
  OBVIOUS
<1> QED BY <1>1 DEF AllGood

-----------------------------------------------------------------------------
(***************************************************************************)
(* The table of transactions under the ways it is changed.                 *)
(***************************************************************************)
LEMMA TxSetMember ==
  ASSUME NEW b \in Block
  PROVE  /\ \A t : t \in TxSet(b) <=> \E i \in 1..Len(TxsOf[b]) : t = TxsOf[b][i]
         /\ TxSet(b) = TxsBy(b, Len(TxsOf[b]))
         /\ TxsOf[b] \in Seq(Tx)
  BY TxAssumption DEF TxSet, Elems, TxsBy

LEMMA TxTruncated ==
  ASSUME NEW c \in Seq(Block), NEW d \in [Tx -> Nat], NEW n \in 0..Len(c),
         TxExact(c, d, {}), NEW G,
         \A t \in Tx : t \in G <=> \E i \in (n + 1)..Len(c) : t \in TxSet(c[i])
  PROVE  TxExact(SubSeq(c, 1, n), Set(d, G, 0), {})
<1> DEFINE e == SubSeq(c, 1, n)
<1> DEFINE u == Set(d, G, 0)
<1>1. e \in Seq(Block) /\ Len(e) = n /\ \A i \in 1..n : e[i] = c[i]
  OBVIOUS
<1>2. \A t \in Tx : u[t] = IF t \in G THEN 0 ELSE d[t]
  BY DEF Set
<1>3. \A i \in 1..Len(c) : TxSet(c[i]) \subseteq Tx
  BY TxSetType
<1>4. \A i \in 1..n : \A t \in TxSet(e[i]) : u[t] = i
  <2> TAKE i \in 1..n
  <2> TAKE t \in TxSet(e[i])
  <2>1. t \in Tx /\ d[t] = i /\ t \in TxSet(c[i])
    BY <1>1, <1>3 DEF TxExact
  <2>2. t \notin G
    BY <2>1 DEF TxExact
  <2> QED BY <2>1, <2>2, <1>2
<1>5. \A t \in Tx : u[t] # 0 => u[t] <= n /\ t \in TxSet(e[u[t]])
  <2> SUFFICES ASSUME NEW t \in Tx, u[t] # 0
               PROVE  u[t] <= n /\ t \in TxSet(e[u[t]])
    OBVIOUS
  <2>1. t \notin G /\ u[t] = d[t] /\ d[t] # 0
    BY <1>2
  <2>2. d[t] \in 1..Len(c) /\ t \in TxSet(c[d[t]])
    BY <2>1 DEF TxExact
  <2>3. d[t] \notin (n + 1)..Len(c)
    BY <2>1, <2>2
  <2> QED BY <2>1, <2>2, <2>3, <1>1
<1> HIDE DEF e, u
<1>6. TxExact(e, u, {})
  BY <1>1, <1>4, <1>5 DEF TxExact
<1> QED BY <1>6 DEF e, u

LEMMA TxAdded ==
  ASSUME NEW c \in Seq(Block), NEW d \in [Tx -> Nat], NEW X \in SUBSET Tx, NEW t \in Tx,
         TxExact(c, d, X), d[t] = 0
  PROVE  TxExact(c, Set(d, {t}, Len(c) + 1), X \cup {t})
<1> DEFINE u == Set(d, {t}, Len(c) + 1)
<1>1. \A x \in Tx : u[x] = IF x = t THEN Len(c) + 1 ELSE d[x]
  BY DEF Set
<1>2. \A i \in 1..Len(c) : \A x \in TxSet(c[i]) : x \in Tx /\ d[x] = i
  BY TxSetType DEF TxExact
<1>3. \A i \in 1..Len(c) : \A x \in TxSet(c[i]) : u[x] = i
  <2> SUFFICES ASSUME NEW i \in 1..Len(c), NEW x \in TxSet(c[i]) PROVE u[x] = i
    OBVIOUS
  <2>1. x \in Tx /\ d[x] = i /\ x # t
    BY <1>2
  <2> QED BY <1>1, <2>1
<1>4. \A x \in X \cup {t} : u[x] = Len(c) + 1
  BY <1>1 DEF TxExact
<1>5. \A x \in Tx : u[x] # 0 => x \in X \cup {t} \/ (u[x] <= Len(c) /\ x \in TxSet(c[u[x]]))
  BY <1>1 DEF TxExact
<1> QED BY <1>3, <1>4, <1>5 DEF TxExact

LEMMA TxRemoved ==
  ASSUME NEW c \in Seq(Block), NEW d \in [Tx -> Nat], NEW X \in SUBSET Tx, NEW t \in X,
         TxExact(c, d, X)
  PROVE  TxExact(c, Set(d, {t}, 0), X \ {t})
<1> DEFINE u == Set(d, {t}, 0)
<1>1. \A x \in Tx : u[x] = IF x = t THEN 0 ELSE d[x]
  BY DEF Set
<1>2. \A i \in 1..Len(c) : \A x \in TxSet(c[i]) : x \in Tx /\ d[x] = i
  BY TxSetType DEF TxExact
<1>3. \A x \in X : d[x] = Len(c) + 1
  BY DEF TxExact
<1>4. \A i \in 1..Len(c) : \A x \in TxSet(c[i]) : u[x] = i
  <2> SUFFICES ASSUME NEW i \in 1..Len(c), NEW x \in TxSet(c[i]) PROVE u[x] = i
    OBVIOUS
  <2>1. x \in Tx /\ d[x] = i /\ d[t] = Len(c) + 1
    BY <1>2, <1>3
  <2>2. x # t
    BY <2>1
  <2> QED BY <1>1, <2>1, <2>2
<1>5. \A x \in X \ {t} : u[x] = Len(c) + 1
  BY <1>1, <1>3
<1>6. \A x \in Tx : u[x] # 0 => x \in X \ {t} \/ (u[x] <= Len(c) /\ x \in TxSet(c[u[x]]))
  BY <1>1 DEF TxExact
<1> QED BY <1>4, <1>5, <1>6 DEF TxExact

LEMMA TxPushed ==
  ASSUME NEW c \in Seq(Block), NEW d \in [Tx -> Nat], NEW b \in Block, TxExact(c, d, TxSet(b))
  PROVE  TxExact(Append(c, b), d, {})
<1>1. /\ Append(c, b) \in Seq(Block) /\ Len(Append(c, b)) = Len(c) + 1
      /\ Append(c, b)[Len(c) + 1] = b /\ \A i \in 1..Len(c) : Append(c, b)[i] = c[i]
  OBVIOUS
<1> DEFINE e == Append(c, b)
<1> HIDE DEF e
<1>2. \A i \in 1..Len(e) : \A t \in TxSet(e[i]) : d[t] = i
  BY <1>1 DEF TxExact, e
<1>3. \A t \in Tx : d[t] # 0 => d[t] <= Len(e) /\ t \in TxSet(e[d[t]])
  BY <1>1, TxSetType DEF TxExact, e
<1>4. TxExact(e, d, {})
  BY <1>2, <1>3 DEF TxExact
<1> QED BY <1>4 DEF e

\* The chain determines both tables.
LEMMA TablesUnique ==
  ASSUME NEW c \in Seq(Block), NEW d \in [Tx -> Nat], NEW e \in [Tx -> Nat],
         NEW s \in [Ki -> Nat], NEW u \in [Ki -> Nat],
         TxExact(c, d, {}), TxExact(c, e, {}), Exact(c, s, {}), Exact(c, u, {})
  PROVE  d = e /\ s = u
<1>1. ASSUME NEW t \in Tx PROVE d[t] = e[t]
  <2>1. d[t] # 0 => d[t] \in 1..Len(c) /\ t \in TxSet(c[d[t]])
    BY DEF TxExact
  <2>2. e[t] # 0 => e[t] \in 1..Len(c) /\ t \in TxSet(c[e[t]])
    BY DEF TxExact
  <2>3. (d[t] # 0 => e[t] = d[t]) /\ (e[t] # 0 => d[t] = e[t])
    BY <2>1, <2>2 DEF TxExact
  <2> QED BY <2>3
<1>2. ASSUME NEW k \in Ki PROVE s[k] = u[k]
  <2>1. s[k] # 0 => s[k] \in 1..Len(c) /\ k \in KiOf(c[s[k]])
    BY DEF Exact
  <2>2. u[k] # 0 => u[k] \in 1..Len(c) /\ k \in KiOf(c[u[k]])
    BY DEF Exact
  <2>3. (s[k] # 0 => u[k] = s[k]) /\ (u[k] # 0 => s[k] = u[k])
    BY <2>1, <2>2 DEF Exact
  <2> QED BY <2>3
<1> QED BY <1>1, <1>2

\* A part of a chain keeps a part of its transactions.
LEMMA TxOfPart ==
  ASSUME NEW c \in Seq(Block), NEW f \in Seq(Block), Prefix(c, f),
         NEW d \in [Tx -> Nat], NEW e \in [Tx -> Nat], TxExact(c, d, {}), TxExact(f, e, {}),
         NEW t \in Tx, d[t] # 0
  PROVE  e[t] # 0
<1>1. d[t] \in 1..Len(c) /\ t \in TxSet(c[d[t]])
  BY DEF TxExact
<1>2. d[t] \in 1..Len(f) /\ t \in TxSet(f[d[t]])
  BY <1>1 DEF Prefix
<1>3. e[t] = d[t]
  BY <1>2 DEF TxExact
<1> QED BY <1>3

-----------------------------------------------------------------------------
(***************************************************************************)
(* Both chains are branches of checked blocks.                             *)
(***************************************************************************)
LEMMA IndTypes ==
  ASSUME IndInv
  PROVE  /\ chain \in Seq(Block) /\ txdb \in [Tx -> Nat] /\ spent \in [Ki -> Nat]
         /\ com.chain \in Seq(Block) /\ com.txdb \in [Tx -> Nat] /\ com.spent \in [Ki -> Nat]
         /\ path \in Seq(Block) /\ disc \in Seq(Block) /\ nxt \in Nat \ {0} /\ pushed \in Nat
         /\ Len(chain) \in Nat /\ Len(com.chain) \in Nat /\ Len(path) \in Nat /\ Len(disc) \in Nat
         /\ mode \in Modes /\ pc \in Pcs
  BY DEF IndInv, TypeOK, View, Ledgers

\* The steps that touch the view, the committed state or the block in progress ...
Moves ==
  \/ Disconnect \/ RollbackPop
  \/ EnterBlock \/ ProcessTx \/ RejectTx \/ FinishBlock \/ UndoTx \/ UndoCoinbase
  \/ Commit \/ Abort \/ Crash
  \/ \E n \in TruncateTo : TruncateBlockchain(n)

\* ... and what is left unchanged by all others.
Quiet ==
  /\ chain' = chain /\ txdb' = txdb /\ spent' = spent /\ com' = com
  /\ \/ pc' = pc /\ mode' = mode /\ cur' = cur /\ onb' = onb /\ done' = done
     \/ pc' = "abort"
     \/ pc \notin {"txs", "undo", "abort"} /\ pc' \notin {"txs", "undo", "abort", "idle"}

LEMMA MovesOrQuiet ==
  ASSUME [Next]_vars
  PROVE  Moves \/ Quiet
<1>1. CASE UNCHANGED vars
  BY <1>1 DEF vars, Quiet, db, call
<1>2. ASSUME NEW b \in Block, ReceiveMain(b) \/ ReceiveAlt(b) PROVE Quiet
  BY <1>2 DEF ReceiveMain, ReceiveAlt, Quiet, Call, db
<1>3. ASSUME BlockThread PROVE Moves \/ Quiet
  <2>1. CASE ConnectNext
    BY <2>1 DEF ConnectNext, Call, Quiet, db
  <2>2. CASE StartPush \/ SwitchPretended
    BY <2>2 DEF StartPush, SwitchPretended, Quiet, db
  <2>3. CASE PushExMain
    <3>1. pc = "push" /\ pc' \in {"push", "rollback"} /\ UNCHANGED << db, com >>
      BY <2>3 DEF PushExMain
    <3> QED BY <3>1 DEF Quiet, db
  <2>4. CASE EraseConnected
    BY <2>4 DEF EraseConnected, Quiet, db
  <2>5. CASE RollbackConnect
    <3>1. /\ pc \in {"rollback", "restored"} /\ pc' \in {"enter", "rolledback"}
          /\ UNCHANGED << db, com >>
      BY <2>5 DEF RollbackConnect, Call
    <3> QED BY <3>1 DEF Quiet, db
  <2>6. CASE SwitchFailed
    BY <2>6 DEF SwitchFailed, Quiet, db
  <2> QED BY <1>3, <2>1, <2>2, <2>3, <2>4, <2>5, <2>6 DEF BlockThread, Moves
<1>4. ASSUME Throw PROVE Quiet
  BY <1>4 DEF Throw, Quiet, db
<1>5. ASSUME ThrowPush PROVE Quiet
  BY <1>5 DEF ThrowPush, Quiet, db
<1>6. ASSUME NEW t \in Tx, IncomingTx(t) \/ RemoveStuck(t) PROVE Quiet
  BY <1>6 DEF IncomingTx, RemoveStuck, Quiet, db, call
<1>7. ASSUME ClearAltblocks \/ PruneAltBlocks \/ SetClock PROVE Quiet
  BY <1>7 DEF ClearAltblocks, PruneAltBlocks, SetClock, Quiet, db, call
<1>8. ASSUME Next PROVE Moves \/ Quiet
  BY <1>2, <1>3, <1>4, <1>5, <1>6, <1>7, <1>8, Zenon DEF Next, Moves
<1> QED BY <1>1, <1>8

\* pop_block_from_blockchain.
LEMMA PopLink ==
  ASSUME IndInv, LinkInv, Disconnect \/ RollbackPop
  PROVE  LinkInv' /\ HeadInv'
<1>1. PopBlock /\ pc \in {"pop", "rollback"} /\ pc' = pc /\ com' = com /\ AboveSplit
  BY DEF Disconnect, RollbackPop
<1>2. /\ chain \in Seq(Block) /\ txdb \in [Tx -> Nat] /\ Len(chain) \in Nat
      /\ SplitHeight \in Nat \ {0}
  BY <1>1, IndTypes DEF IndInv, SwitchInv, Switching
<1>3. Len(chain) > 0 /\ chain # <<>>
  BY <1>1, <1>2 DEF AboveSplit
<1>4. Top \in Block /\ Top = chain[Len(chain)]
  BY <1>2, <1>3, TopType
<1> DEFINE n == Len(chain) - 1
<1>5. n \in 0..Len(chain) /\ chain' = SubSeq(chain, 1, n) /\ txdb' = Set(txdb, TxSet(Top), 0)
  BY <1>1, <1>2, <1>3 DEF PopBlock
<1>6. \A t \in Tx : t \in TxSet(Top) <=> \E i \in (n + 1)..Len(chain) : t \in TxSet(chain[i])
  BY <1>2, <1>3, <1>4
<1>7. CurTxs = {} /\ CurTxs' = {} /\ pc # "abort"
  BY <1>1 DEF CurTxs
<1> HIDE DEF n
<1>8. Chained(chain) /\ AllGood(chain) /\ TxExact(chain, txdb, {})
  BY <1>7 DEF LinkInv
<1>9. Chained(chain') /\ AllGood(chain') /\ TxExact(chain', txdb', {})
  BY <1>2, <1>5, <1>6, <1>8, ChainedPart, GoodPart, TxTruncated
<1>10. LinkInv'
  BY <1>1, <1>7, <1>9 DEF LinkInv
<1>11. HeadInv'
  BY <1>1 DEF HeadInv
<1> QED BY <1>10, <1>11

LEMMA ReturnedPc ==
  ASSUME IndInv, InCall, NEW ok \in BOOLEAN
  PROVE  /\ Returned(ok) \in {"commit", "abort", "connected", "rollback", "restored", "rolledback"}
         /\ Returned(ok) \notin {"txs", "undo", "enter", "idle"}
<1>1. mode \in Modes /\ mode # "none"
  BY DEF IndInv, TypeOK, SwitchInv
<1> QED BY <1>1, ReturnedFacts

LEMMA TxsByFacts ==
  ASSUME NEW b \in Block
  PROVE  /\ TxsBy(b, 0) = {}
         /\ \A n \in 0..Len(TxsOf[b]) : TxsBy(b, n) \subseteq Tx
         /\ \A n \in 1..Len(TxsOf[b]) : TxsBy(b, n) = TxsBy(b, n - 1) \cup {TxsOf[b][n]}
<1>1. TxsOf[b] \in Seq(Tx) /\ Len(TxsOf[b]) \in Nat
  BY TxAssumption
<1>2. TxsBy(b, 0) = {}
  BY DEF TxsBy
<1>3. ASSUME NEW n \in 0..Len(TxsOf[b]) PROVE TxsBy(b, n) \subseteq Tx
  BY <1>1 DEF TxsBy
<1>4. ASSUME NEW n \in 1..Len(TxsOf[b]) PROVE TxsBy(b, n) = TxsBy(b, n - 1) \cup {TxsOf[b][n]}
  <2>1. \A i : i \in 1..n <=> i \in 1..(n - 1) \/ i = n
    BY <1>1
  <2> QED BY <2>1, Zenon DEF TxsBy
<1> QED BY <1>2, <1>3, <1>4

LEMMA EnterLink ==
  ASSUME IndInv, LinkInv, HeadInv, EnterBlock
  PROVE  LinkInv' /\ HeadInv'
<1>1. /\ pc = "enter" /\ cur \in Block /\ done = 0 /\ InCall
      /\ chain' = chain /\ txdb' = txdb /\ com' = com /\ mode' = mode /\ cur' = cur /\ done' = done
  BY DEF EnterBlock, IndInv, TypeOK, SwitchInv, InCall, call
<1>2. CurTxs = {}
  BY <1>1 DEF CurTxs
<1>3. Chained(chain) /\ AllGood(chain) /\ TxExact(chain, txdb, {})
  BY <1>1, <1>2 DEF LinkInv
<1>4. \/ pc' = "txs" /\ HeaderOk(cur)
      \/ pc' = Returned(FALSE)
  BY DEF EnterBlock
<1>5. pc' \notin {"txs", "undo"} \/ (pc' = "txs" /\ HeaderOk(cur))
  <2>1. Returned(FALSE) \notin {"txs", "undo", "enter", "idle"}
    BY <1>1, ReturnedPc
  <2> QED BY <1>4, <2>1
<1>6. CurTxs' = {}
  <2>1. CASE pc' \notin {"txs", "undo"}
    BY <2>1 DEF CurTxs
  <2>2. CASE pc' = "txs"
    BY <1>1, <2>2 DEF CurTxs, TxsBy
  <2> QED BY <1>5, <2>1, <2>2
<1>7. LinkInv'
  BY <1>1, <1>3, <1>6 DEF LinkInv
<1>8. HeadInv'
  <2>1. CASE pc' \notin {"txs", "undo"}
    BY <2>1 DEF HeadInv
  <2>2. CASE pc' = "txs" /\ HeaderOk(cur)
    <3>1. Parent[cur'] = Top'
      BY <1>1, <2>2 DEF HeaderOk, Top
    <3>2. CheckBlock(cur)' /\ (mode # "sim" => GoodHeader(cur))'
      BY <1>1, <2>2 DEF HeaderOk, GoodHeader, CheckBlock, Height, PrevalidateMinerTx, ValidateProof
    <3>3. 1..done' = {}
      BY <1>1
    <3> QED BY <2>2, <3>1, <3>2, <3>3 DEF HeadInv
  <2> QED BY <1>5, <2>1, <2>2
<1> QED BY <1>7, <1>8

LEMMA ProcessLink ==
  ASSUME IndInv, LinkInv, HeadInv, ProcessTx
  PROVE  LinkInv' /\ HeadInv'
<1> DEFINE t == TxsOf[cur][done + 1]
<1>1. /\ pc = "txs" /\ pc' = "txs" /\ cur \in Block /\ done \in Nat /\ done < Len(TxsOf[cur])
      /\ chain' = chain /\ com' = com /\ mode' = mode /\ cur' = cur /\ done' = done + 1
  BY DEF ProcessTx, IndInv, TypeOK
<1>2. /\ chain \in Seq(Block) /\ txdb \in [Tx -> Nat] /\ Len(chain) \in Nat
      /\ TxsOf[cur] \in Seq(Tx) /\ t \in Tx /\ Len(TxsOf[cur]) \in Nat
  <2>1. chain \in Seq(Block) /\ txdb \in [Tx -> Nat] /\ Len(chain) \in Nat
    BY IndTypes
  <2>2. TxsOf[cur] \in Seq(Tx)
    BY <1>1, TxAssumption
  <2>3. Len(TxsOf[cur]) \in Nat /\ t \in Tx
    BY <1>1, <2>2
  <2> QED BY <2>1, <2>2, <2>3
<1>3. txdb' = Set(txdb, {t}, Len(chain) + 1) /\ txdb[t] = 0 /\ GoodTx(t, Len(chain) + 1)
  <2>1. txdb' = Set(txdb, {t}, Len(chain) + 1) /\ txdb[t] = 0
    BY DEF ProcessTx, AddTransaction, CurTx
  <2>2. InputsOk(t) /\ ProofsOk(t)
    BY DEF ProcessTx, CurTx
  <2>3. GoodTx(t, Len(chain) + 1)
    BY <2>2 DEF InputsOk, ProofsOk, GoodTx
  <2> QED BY <2>1, <2>3
<1>4. CurTxs = TxsBy(cur, done) /\ CurTxs' = TxsBy(cur, done + 1)
  BY <1>1 DEF CurTxs, TxsBy
<1>5. TxsBy(cur, done) \subseteq Tx /\ TxsBy(cur, done + 1) = TxsBy(cur, done) \cup {t}
  <2>1. done + 1 - 1 = done /\ done \in 0..Len(TxsOf[cur]) /\ done + 1 \in 1..Len(TxsOf[cur])
    BY <1>1, <1>2
  <2> QED BY <1>1, <2>1, TxsByFacts
<1>6. TxExact(chain, txdb, TxsBy(cur, done))
  BY <1>1, <1>4 DEF LinkInv
<1>7. TxExact(chain', txdb', TxsBy(cur, done) \cup {t})
  <2> HIDE DEF t
  <2> QED BY <1>1, <1>2, <1>3, <1>5, <1>6, TxAdded
<1>8. LinkInv'
  BY <1>1, <1>4, <1>5, <1>7 DEF LinkInv
<1>9. \A i : i \in 1..(done + 1) <=> i \in 1..done \/ i = done + 1
  BY <1>1
<1>10. \A i \in 1..done : TxsOf[cur][i] # t
  <2> SUFFICES ASSUME NEW i \in 1..done PROVE TxsOf[cur][i] # t
    OBVIOUS
  <2>1. TxsOf[cur][i] \in TxsBy(cur, done)
    BY DEF TxsBy
  <2>2. txdb[TxsOf[cur][i]] = Len(chain) + 1
    BY <1>6, <2>1 DEF TxExact
  <2> QED BY <1>2, <1>3, <2>2
<1>11. HeadInv'
  <2>1. Parent[cur'] = Top' /\ CheckBlock(cur)'
    BY <1>1 DEF HeadInv, Top, CheckBlock, Height
  <2>2. mode' # "sim" => GoodHeader(cur)'
    BY <1>1 DEF HeadInv, GoodHeader, CheckBlock, Height, PrevalidateMinerTx, ValidateProof
  <2>3. \A i \in 1..(done + 1) : GoodTx(TxsOf[cur][i], Len(chain) + 1)
    BY <1>1, <1>3, <1>9 DEF HeadInv
  <2>4. \A i, j \in 1..(done + 1) : i # j => TxsOf[cur][i] # TxsOf[cur][j]
    <3>1. \A i, j \in 1..done : i # j => TxsOf[cur][i] # TxsOf[cur][j]
      BY <1>1 DEF HeadInv
    <3> QED BY <1>9, <1>10, <3>1
  <2>5. \A i \in 1..done' : GoodTx(TxsOf[cur'][i], Len(chain') + 1)
    BY <1>1, <2>3
  <2>6. \A i, j \in 1..done' : i # j => TxsOf[cur'][i] # TxsOf[cur'][j]
    BY <1>1, <2>4
  <2>7. (\A i \in 1..done : GoodTx(TxsOf[cur][i], Len(chain) + 1))'
    BY <2>5 DEF GoodTx, InCheckpointZone
  <2> QED BY <1>1, <2>1, <2>2, <2>6, <2>7 DEF HeadInv
<1> QED BY <1>8, <1>11

LEMMA RejectLink ==
  ASSUME IndInv, LinkInv, HeadInv, RejectTx
  PROVE  LinkInv' /\ HeadInv'
<1>1. /\ pc = "txs" /\ pc' = "undo"
      /\ chain' = chain /\ txdb' = txdb /\ com' = com /\ cur' = cur /\ done' = done
  BY DEF RejectTx, db, call
<1>2. CurTxs' = CurTxs
  BY <1>1 DEF CurTxs, TxsBy
<1>3. LinkInv'
  BY <1>1, <1>2 DEF LinkInv
<1>4. \A i, j \in 1..done : i # j => TxsOf[cur][i] # TxsOf[cur][j]
  BY <1>1 DEF HeadInv
<1>5. HeadInv'
  BY <1>1, <1>4 DEF HeadInv
<1> QED BY <1>3, <1>5

\* The block in progress joins the view: every check of Good was made.
LEMMA FinishLink ==
  ASSUME IndInv, LinkInv, HeadInv, FinishBlock
  PROVE  /\ LinkInv' /\ HeadInv'
         /\ \/ pc' = "undo" /\ chain' = chain
            \/ /\ pc' = Returned(TRUE) /\ mode # "sim" /\ chain' = Append(chain, cur)
               /\ chain' = Branch[cur] /\ Parent[cur] = LastOf(chain)
<1>1. /\ pc = "txs" /\ cur \in Block /\ done = Len(TxsOf[cur]) /\ InCall
      /\ txdb' = txdb /\ com' = com /\ cur' = cur /\ done' = done
  BY DEF FinishBlock, IndInv, TypeOK, InCall, call
<1>2. \/ pc' = "undo" /\ chain' = chain
      \/ /\ pc' = Returned(TRUE) /\ chain' = Append(chain, cur)
         /\ mode # "sim" /\ LateChecks(cur) /\ DeclaredSizeOk(cur)
  BY DEF FinishBlock
<1>3. \A i, j \in 1..done : i # j => TxsOf[cur][i] # TxsOf[cur][j]
  BY <1>1 DEF HeadInv
<1>4. CASE pc' = "undo" /\ chain' = chain
  <2>1. CurTxs' = CurTxs
    BY <1>1, <1>4 DEF CurTxs, TxsBy
  <2>2. LinkInv'
    BY <1>1, <1>4, <2>1 DEF LinkInv
  <2>3. HeadInv'
    BY <1>1, <1>3, <1>4 DEF HeadInv
  <2> QED BY <1>4, <2>2, <2>3
<1>5. CASE /\ pc' = Returned(TRUE) /\ chain' = Append(chain, cur)
           /\ mode # "sim" /\ LateChecks(cur) /\ DeclaredSizeOk(cur)
  <2>1. chain \in Seq(Block) /\ txdb \in [Tx -> Nat]
    BY IndTypes
  <2>2. CurTxs = TxSet(cur) /\ TxExact(chain, txdb, CurTxs)
    BY <1>1, TxSetMember DEF CurTxs, LinkInv
  <2>3. Parent[cur] = LastOf(chain)
    BY <1>1, TopIsLast DEF HeadInv
  <2>4. Good(cur, Len(chain) + 1)
    <3>1. GoodHeader(cur) /\ \A i \in 1..done : GoodTx(TxsOf[cur][i], Len(chain) + 1)
      BY <1>1, <1>5 DEF HeadInv
    <3> QED BY <1>1, <1>3, <1>5, <3>1 DEF Good
  <2>5. Chained(Append(chain, cur)) /\ Append(chain, cur) = Branch[cur]
    BY <1>1, <2>1, <2>3, ChainedAppend DEF LinkInv
  <2>6. AllGood(Append(chain, cur))
    BY <1>1, <2>1, <2>4, GoodAppend DEF LinkInv
  <2>7. TxExact(Append(chain, cur), txdb, {})
    BY <1>1, <2>1, <2>2, TxPushed
  <2>8. pc' \notin {"txs", "undo"}
    <3>1. Returned(TRUE) \notin {"txs", "undo", "enter", "idle"}
      BY <1>1, ReturnedPc
    <3> QED BY <1>5, <3>1
  <2>9. CurTxs' = {}
    BY <2>8 DEF CurTxs
  <2>10. LinkInv'
    BY <1>1, <1>5, <2>5, <2>6, <2>7, <2>9 DEF LinkInv
  <2>11. HeadInv'
    BY <2>8 DEF HeadInv
  <2> QED BY <1>5, <2>3, <2>5, <2>10, <2>11
<1> QED BY <1>2, <1>4, <1>5

LEMMA UndoLink ==
  ASSUME IndInv, LinkInv, HeadInv, UndoTx
  PROVE  LinkInv' /\ HeadInv'
<1> DEFINE t == TxsOf[cur][done]
<1>1. /\ pc = "undo" /\ pc' = "undo" /\ cur \in Block /\ done \in Nat /\ done > 0
      /\ done <= Len(TxsOf[cur]) /\ txdb' = Set(txdb, {t}, 0)
      /\ chain' = chain /\ com' = com /\ cur' = cur /\ done' = done - 1
  BY DEF UndoTx, PurgeTransaction, IndInv, TypeOK
<1>2. /\ chain \in Seq(Block) /\ txdb \in [Tx -> Nat]
      /\ TxsOf[cur] \in Seq(Tx) /\ Len(TxsOf[cur]) \in Nat
  BY <1>1, IndTypes, TxAssumption
<1>3. done \in 1..Len(TxsOf[cur]) /\ done \in 0..Len(TxsOf[cur]) /\ done \in 1..done
  BY <1>1, <1>2
<1>4. CurTxs = TxsBy(cur, done) /\ CurTxs' = TxsBy(cur, done - 1)
  BY <1>1 DEF CurTxs, TxsBy
<1>5. TxsBy(cur, done) \subseteq Tx /\ TxsBy(cur, done) = TxsBy(cur, done - 1) \cup {t}
  BY <1>1, <1>3, TxsByFacts
<1>6. \A i \in 1..(done - 1) : i \in 1..done /\ i # done
  BY <1>1
<1>7. \A i, j \in 1..done : i # j => TxsOf[cur][i] # TxsOf[cur][j]
  BY <1>1 DEF HeadInv
<1>8. t \notin TxsBy(cur, done - 1)
  BY <1>3, <1>6, <1>7 DEF TxsBy
<1>9. TxExact(chain, txdb, TxsBy(cur, done))
  BY <1>1, <1>4 DEF LinkInv
<1>10. TxsBy(cur, done) \ {t} = TxsBy(cur, done - 1) /\ t \in TxsBy(cur, done)
  BY <1>5, <1>8
<1>11. TxExact(chain', txdb', TxsBy(cur, done - 1))
  <2> DEFINE X == TxsBy(cur, done)
  <2>1. X \in SUBSET Tx /\ t \in X /\ TxExact(chain, txdb, X)
    BY <1>5, <1>9, <1>10
  <2>2. TxExact(chain, Set(txdb, {t}, 0), X \ {t})
    <3> HIDE DEF t, X
    <3> QED BY <1>2, <2>1, TxRemoved
  <2> QED BY <1>1, <1>10, <2>2
<1>12. LinkInv'
  BY <1>1, <1>4, <1>11 DEF LinkInv
<1>13. HeadInv'
  BY <1>1, <1>6, <1>7 DEF HeadInv
<1> QED BY <1>12, <1>13

LEMMA UndoCoinbaseLink ==
  ASSUME IndInv, LinkInv, HeadInv, UndoCoinbase
  PROVE  LinkInv' /\ HeadInv'
<1>1. /\ pc = "undo" /\ pc' = Returned(FALSE) /\ cur \in Block /\ done = 0 /\ InCall
      /\ chain' = chain /\ txdb' = txdb /\ com' = com
  BY DEF UndoCoinbase, IndInv, TypeOK, InCall
<1>2. pc' \notin {"txs", "undo"}
  <2>1. Returned(FALSE) \notin {"txs", "undo", "enter", "idle"}
    BY <1>1, ReturnedPc
  <2> QED BY <1>1, <2>1
<1>3. CurTxs = {} /\ CurTxs' = {}
  BY <1>1, <1>2, TxsByFacts DEF CurTxs
<1>4. LinkInv'
  BY <1>1, <1>3 DEF LinkInv
<1>5. HeadInv'
  BY <1>2 DEF HeadInv
<1> QED BY <1>4, <1>5

\* The ends of a database transaction, and the operator's truncation.
LEMMA EndLink ==
  ASSUME IndInv, LinkInv, HeadInv,
         Commit \/ Abort \/ Crash \/ \E n \in TruncateTo : TruncateBlockchain(n)
  PROVE  LinkInv' /\ HeadInv'
<1>1. pc' = "idle"
  BY DEF Commit, Abort, Crash, Idle, TruncateBlockchain
<1>2. CurTxs' = {} /\ HeadInv'
  BY <1>1 DEF CurTxs, HeadInv
<1>3. CASE Commit
  <2>1. /\ com' = View /\ chain' = chain /\ txdb' = txdb /\ pc = "commit"
        /\ com'.chain = chain /\ com'.txdb = txdb
    BY <1>3 DEF Commit, View, db
  <2>2. CurTxs = {}
    BY <2>1 DEF CurTxs
  <2>3. Chained(chain) /\ AllGood(chain) /\ TxExact(chain, txdb, {})
    BY <2>1, <2>2 DEF LinkInv
  <2>4. LinkInv'
    BY <1>2, <2>1, <2>3 DEF LinkInv
  <2> QED BY <1>2, <2>4
<1>4. CASE Abort \/ Crash
  <2>1. com' = com /\ chain' = com.chain /\ txdb' = com.txdb
    BY <1>4 DEF Abort, Crash, Restore
  <2>2. LinkInv'
    BY <1>2, <2>1 DEF LinkInv
  <2> QED BY <1>2, <2>2
<1>5. ASSUME NEW n \in TruncateTo, TruncateBlockchain(n)
      PROVE  LinkInv'
  <2> DEFINE gone == { chain[i] : i \in (n + 1)..Len(chain) }
  <2> DEFINE G == UNION { TxSet(b) : b \in gone }
  <2>1. pc = "idle" /\ n < Len(chain) /\ n \in Nat
    BY <1>5, ParameterAssumption DEF TruncateBlockchain
  <2>2. txdb' = Set(txdb, G, 0) /\ chain' = SubSeq(chain, 1, n)
    BY <1>5 DEF TruncateBlockchain
  <2>3. com'.chain = chain' /\ com'.txdb = txdb'
    BY <1>5 DEF TruncateBlockchain
  <2>4. chain \in Seq(Block) /\ txdb \in [Tx -> Nat] /\ n \in 0..Len(chain)
    BY <2>1, IndTypes
  <2>5. \A t \in Tx : t \in G <=> \E i \in (n + 1)..Len(chain) : t \in TxSet(chain[i])
    OBVIOUS
  <2> HIDE DEF G
  <2>6. CurTxs = {}
    BY <2>1 DEF CurTxs
  <2>7. Chained(chain) /\ AllGood(chain) /\ TxExact(chain, txdb, {})
    BY <2>1, <2>6 DEF LinkInv
  <2>8. Chained(chain') /\ AllGood(chain') /\ TxExact(chain', txdb', {})
    BY <2>2, <2>4, <2>5, <2>7, ChainedPart, GoodPart, TxTruncated
  <2> QED BY <1>2, <2>3, <2>8 DEF LinkInv
<1> QED BY <1>2, <1>3, <1>4, <1>5

LEMMA QuietLink ==
  ASSUME LinkInv, HeadInv, Quiet
  PROVE  LinkInv' /\ HeadInv'
<1>1. chain' = chain /\ txdb' = txdb /\ com' = com /\ Top' = Top
  BY DEF Quiet, Top
<1>2. CASE pc' = pc /\ mode' = mode /\ cur' = cur /\ onb' = onb /\ done' = done
  <2>1. CurTxs' = CurTxs
    BY <1>2 DEF CurTxs, TxsBy
  <2>2. LinkInv'
    BY <1>1, <1>2, <2>1 DEF LinkInv
  <2>3. HeadInv'
    <3>1. CheckBlock(cur)' = CheckBlock(cur) /\ GoodHeader(cur)' = GoodHeader(cur)
      BY <1>2 DEF CheckBlock, Height, GoodHeader, PrevalidateMinerTx, ValidateProof
    <3>2. pc = "txs" => (\A i \in 1..done : GoodTx(TxsOf[cur][i], Len(chain) + 1))'
      BY <1>1, <1>2 DEF HeadInv, GoodTx, InCheckpointZone
    <3> QED BY <1>1, <1>2, <3>1, <3>2 DEF HeadInv
  <2> QED BY <2>2, <2>3
<1>3. CASE pc' = "abort"
  BY <1>1, <1>3 DEF LinkInv, HeadInv
<1>4. CASE pc \notin {"txs", "undo", "abort"} /\ pc' \notin {"txs", "undo", "abort", "idle"}
  <2>1. CurTxs = {} /\ CurTxs' = {}
    BY <1>4 DEF CurTxs
  <2> QED BY <1>1, <1>4, <2>1 DEF LinkInv, HeadInv
<1> QED BY <1>2, <1>3, <1>4 DEF Quiet

LEMMA LinkStep ==
  ASSUME IndInv, LinkInv, HeadInv, [Next]_vars
  PROVE  LinkInv' /\ HeadInv'
  BY MovesOrQuiet, PopLink, EnterLink, ProcessLink, RejectLink, FinishLink, UndoLink,
     UndoCoinbaseLink, EndLink, QuietLink DEF Moves

-----------------------------------------------------------------------------
(***************************************************************************)
(* The route of a reorganisation.                                          *)
(***************************************************************************)
LEMMA ReturnedValue ==
  /\ mode = "sim" => Returned(TRUE) = "abort" /\ Returned(FALSE) = "abort"
  /\ mode = "main" => Returned(TRUE) = "commit" /\ Returned(FALSE) = "abort"
  /\ mode = "switch" => Returned(TRUE) = "connected" /\ Returned(FALSE) = "rollback"
  /\ mode = "restore" => Returned(TRUE) = "restored" /\ Returned(FALSE) = "rolledback"
  BY DEF Returned

\* What the invariants say of a reorganisation, without the primes that follow.
LEMMA RouteFacts ==
  ASSUME IndInv, RouteInv, Switching
  PROVE  /\ path \in Seq(Block) /\ Len(path) \in Nat \ {0} /\ Tip \in Block
         /\ SplitHeight \in Nat \ {0} /\ SplitHeight <= Len(chain) + 1
         /\ SplitHeight <= Len(com.chain) + 1 /\ Height(Tip) \in Nat
         /\ Branch[Tip] \in Seq(Block) /\ Height(Tip) = Len(Branch[Tip])
         /\ Len(path) = Height(Tip) - SplitHeight + 1
         /\ \A i \in 1..Len(path) : path[i] = Branch[Tip][SplitHeight - 1 + i]
         /\ \A i \in 1..(SplitHeight - 1) : com.chain[i] = Branch[Tip][i]
         /\ ReorganizeRequired(LastOf(com.chain), Tip)
<1>1. path \in Seq(Block) /\ path # <<>> /\ SplitHeight \in Nat \ {0} /\ Len(chain) + 1 >= SplitHeight
  BY IndTypes DEF IndInv, SwitchInv
<1>2. Len(path) \in Nat \ {0} /\ Tip \in Block
  BY <1>1 DEF Tip
<1>3. Height(Tip) \in Nat /\ Branch[Tip] \in Seq(Block) /\ Height(Tip) = Len(Branch[Tip])
  BY <1>2, HeightType DEF Height
<1>4. PathInv
  BY DEF RouteInv
<1> QED BY <1>1, <1>2, <1>3, <1>4, IndTypes DEF PathInv

\* Out of a reorganisation nothing is said of it.
LEMMA RouteOver ==
  ASSUME pc' \in {"commit", "abort"}
  PROVE  RouteInv'
  BY DEF RouteInv, PathInv, DiscInv, PlaceInv, Switching, InCall, Building, Restoring

LEMMA RouteIdle ==
  ASSUME pc' = "idle", View' = com', disc' = <<>>, pushed' = 0
  PROVE  RouteInv'
  BY DEF RouteInv, PathInv, DiscInv, PlaceInv, Switching, InCall, Building, Restoring

\* The path and the disconnected blocks stay.
LEMMA PathKept ==
  ASSUME RouteInv, Switching, path' = path, com' = com
  PROVE  PathInv'
<1>1. Tip' = Tip /\ SplitHeight' = SplitHeight
  BY DEF Tip, SplitHeight, Height
<1>2. PathInv
  BY DEF RouteInv
<1> QED BY <1>1, <1>2 DEF PathInv, Height, ReorganizeRequired, IsPos, LastOf

LEMMA DiscKept ==
  ASSUME RouteInv, Switching, path' = path, com' = com, disc' = disc, pc # "pop", pc' # "pop"
  PROVE  DiscInv'
<1>1. SplitHeight' = SplitHeight
  BY DEF SplitHeight, Height
<1>2. DiscInv
  BY DEF RouteInv
<1> QED BY <1>1, <1>2 DEF DiscInv

\* Within handle_block_to_main_chain.
LEMMA RouteInCall ==
  ASSUME RouteInv, InCall, InCall', mode' = mode, cur' = cur,
         chain' = chain, com' = com, UNCHANGED switch
  PROVE  RouteInv'
<1>1. /\ path' = path /\ disc' = disc /\ nxt' = nxt /\ pc \in {"enter", "txs", "undo"}
      /\ pc' \in {"enter", "txs", "undo"} /\ Switching' = Switching
  BY DEF switch, InCall, Switching
<1>2. Tip' = Tip /\ SplitHeight' = SplitHeight
  BY <1>1 DEF Tip, SplitHeight, Height
<1>3. PathInv' /\ DiscInv'
  <2>1. CASE Switching
    BY <1>1, <2>1, PathKept, DiscKept
  <2>2. CASE ~Switching
    BY <1>1, <2>2 DEF PathInv, DiscInv
  <2> QED BY <2>1, <2>2
<1>4. PlaceInv
  BY DEF RouteInv
<1>5. Building' = Building /\ Restoring' = Restoring
  BY <1>1 DEF Building, Restoring, InCall
<1>6. PlaceInv'
  BY <1>1, <1>2, <1>4, <1>5 DEF PlaceInv, InCall, Prefix
<1> QED BY <1>3, <1>6 DEF RouteInv

\* A block that failed: back to the caller with the chain as it was.
LEMMA RouteFailed ==
  ASSUME IndInv, RouteInv, InCall, pc' = Returned(FALSE), UNCHANGED call,
         chain' = chain, com' = com, UNCHANGED switch
  PROVE  RouteInv'
<1>1. /\ path' = path /\ disc' = disc /\ nxt' = nxt /\ pc \in {"enter", "txs", "undo"}
      /\ mode' = mode /\ mode \in {"main", "sim", "switch", "restore"}
  BY DEF switch, call, InCall, IndInv, SwitchInv, TypeOK, Modes
<1>2. Tip' = Tip /\ SplitHeight' = SplitHeight
  BY <1>1 DEF Tip, SplitHeight, Height
<1>3. PlaceInv
  BY DEF RouteInv
<1>4. CASE mode \in {"main", "sim"}
  BY <1>4, ReturnedValue, RouteOver
<1>5. CASE mode = "switch"
  <2>1. pc' = "rollback" /\ Switching /\ Building
    BY <1>5, ReturnedValue DEF Switching, Building
  <2>2. PathInv' /\ DiscInv'
    BY <1>1, <2>1, PathKept, DiscKept
  <2>3. Prefix(chain, Branch[Tip])
    BY <1>3, <2>1 DEF PlaceInv
  <2>4. PlaceInv'
    BY <1>2, <2>1, <2>3 DEF PlaceInv, Building, Restoring, InCall, Prefix
  <2> QED BY <2>2, <2>4 DEF RouteInv
<1>6. CASE mode = "restore"
  <2>1. pc' = "rolledback" /\ Switching /\ Restoring
    BY <1>6, ReturnedValue DEF Switching, Restoring
  <2>2. PathInv' /\ DiscInv'
    BY <1>1, <2>1, PathKept, DiscKept
  <2>3. Prefix(chain, com.chain)
    BY <1>3, <2>1 DEF PlaceInv
  <2>4. PlaceInv'
    BY <2>1, <2>3 DEF PlaceInv, Building, Restoring, InCall, Prefix
  <2> QED BY <2>2, <2>4 DEF RouteInv
<1> QED BY <1>1, <1>4, <1>5, <1>6

LEMMA PrefixAppend ==
  ASSUME NEW c \in Seq(Block), NEW d \in Seq(Block), Prefix(c, d), NEW b \in Block,
         Len(c) < Len(d), b = d[Len(c) + 1]
  PROVE  Prefix(Append(c, b), d)
<1>1. /\ Len(Append(c, b)) = Len(c) + 1 /\ Append(c, b)[Len(c) + 1] = b
      /\ \A i \in 1..Len(c) : Append(c, b)[i] = c[i]
      /\ \A i \in 1..(Len(c) + 1) : i \in 1..Len(c) \/ i = Len(c) + 1
  OBVIOUS
<1> QED BY <1>1 DEF Prefix

\* A block that was added.
LEMMA RouteAdded ==
  ASSUME IndInv, RouteInv, InCall, cur \in Block, pc' = Returned(TRUE), UNCHANGED call,
         chain' = Append(chain, cur), com' = com, UNCHANGED switch
  PROVE  RouteInv'
<1>1. /\ path' = path /\ disc' = disc /\ nxt' = nxt /\ pc \in {"enter", "txs", "undo"}
      /\ mode' = mode /\ mode \in {"main", "sim", "switch", "restore"}
  BY DEF switch, call, InCall, IndInv, SwitchInv, TypeOK, Modes
<1>2. Tip' = Tip /\ SplitHeight' = SplitHeight
  BY <1>1 DEF Tip, SplitHeight, Height
<1>3. PlaceInv
  BY DEF RouteInv
<1>4. CASE mode \in {"main", "sim"}
  BY <1>4, ReturnedValue, RouteOver
<1> DEFINE s == SplitHeight
<1> DEFINE n == Len(chain)
<1>5. chain \in Seq(Block) /\ com.chain \in Seq(Block) /\ n \in Nat /\ Len(chain') = n + 1
  BY IndTypes
<1>6. CASE mode = "switch"
  <2>1. pc' = "connected" /\ Switching /\ Building
    BY <1>6, ReturnedValue DEF Switching, Building
  <2>2. PathInv' /\ DiscInv'
    BY <1>1, <2>1, PathKept, DiscKept
  <2>3. Prefix(chain, Branch[Tip]) /\ n = s - 2 + nxt /\ cur = path[nxt]
    BY <1>3, <1>6, <2>1 DEF PlaceInv
  <2>4. nxt \in 1..Len(path)
    BY <1>6 DEF IndInv, SwitchInv
  <2>5. /\ s \in Nat \ {0} /\ Len(path) = Len(Branch[Tip]) - s + 1 /\ Branch[Tip] \in Seq(Block)
        /\ path[nxt] = Branch[Tip][s - 1 + nxt] /\ Len(path) \in Nat /\ Len(Branch[Tip]) \in Nat
    BY <2>1, <2>4, RouteFacts
  <2> HIDE DEF s, n
  <2>6. s - 1 + nxt = n + 1 /\ n < Len(Branch[Tip]) /\ n + 1 = s - 1 + nxt
    BY <1>5, <2>3, <2>4, <2>5
  <2>7. Prefix(chain', Branch[Tip])
    BY <1>5, <2>3, <2>5, <2>6, PrefixAppend DEF n
  <2>8. Len(chain') = s - 1 + nxt
    BY <1>5, <2>6
  <2>9. Prefix(chain, Branch[Tip])'
    BY <1>2, <2>7
  <2>10. (Len(chain) = SplitHeight - 1 + nxt)'
    BY <1>1, <1>2, <2>8 DEF s
  <2>11. PlaceInv'
    BY <2>1, <2>9, <2>10 DEF PlaceInv, Building, Restoring, InCall
  <2> QED BY <2>2, <2>11 DEF RouteInv
<1>7. CASE mode = "restore"
  <2>1. pc' = "restored" /\ Switching /\ Restoring
    BY <1>7, ReturnedValue DEF Switching, Restoring
  <2>2. PathInv' /\ DiscInv'
    BY <1>1, <2>1, PathKept, DiscKept
  <2>3. Prefix(chain, com.chain) /\ Len(chain) < Len(com.chain) /\ cur = com.chain[Len(chain) + 1]
    BY <1>3, <1>7, <2>1 DEF PlaceInv
  <2>4. Prefix(chain', com.chain)
    BY <1>5, <2>3, PrefixAppend
  <2>5. Prefix(chain, com.chain)'
    BY <2>4
  <2>6. PlaceInv'
    BY <2>1, <2>5 DEF PlaceInv, Building, Restoring, InCall
  <2> QED BY <2>2, <2>6 DEF RouteInv
<1> QED BY <1>1, <1>4, <1>6, <1>7

LEMMA AltPathMore ==
  ASSUME NEW b \in Block, NEW s \in Splits(b)
  PROVE  /\ s \in 1..Height(b) /\ Len(AltPath(b, s)) = Height(b) - s + 1
         /\ \A i \in 1..Len(AltPath(b, s)) : AltPath(b, s)[i] = Branch[b][s - 1 + i]
         /\ AltPath(b, s)[Len(AltPath(b, s))] = b
<1>1. /\ Branch[b] \in Seq(Block) /\ Height(b) = Len(Branch[b]) /\ s \in 1..Height(b)
      /\ Branch[b][Height(b)] = b /\ Height(b) \in Nat
  BY HeightType, BranchFacts DEF Splits, Height
<1> DEFINE h == Height(b)
<1> DEFINE p == SubSeq(Branch[b], s, h)
<1>2. Len(p) = h - s + 1 /\ \A i \in 1..(h - s + 1) : p[i] = Branch[b][s - 1 + i]
  <2>1. h \in Nat /\ s \in 1..h /\ h = Len(Branch[b]) /\ Branch[b] \in Seq(Block)
    BY <1>1
  <2> DEFINE q == Branch[b]
  <2>2. q \in Seq(Block) /\ h = Len(q)
    BY <2>1
  <2> HIDE DEF h, q
  <2>3. /\ Len(SubSeq(q, s, h)) = h - s + 1
        /\ \A i \in 1..(h - s + 1) : SubSeq(q, s, h)[i] = q[s - 1 + i]
    BY <2>1, <2>2
  <2> QED BY <2>3 DEF q
<1>3. AltPath(b, s) = p
  BY DEF AltPath
<1> HIDE DEF p
<1>4. p[Len(p)] = b
  <2>1. h \in Nat /\ s \in 1..h /\ h - s + 1 \in 1..(h - s + 1) /\ s - 1 + (h - s + 1) = h
    BY <1>1
  <2> HIDE DEF h
  <2>2. p[h - s + 1] = Branch[b][h]
    BY <1>2, <2>1
  <2> QED BY <1>1, <1>2, <2>2 DEF h
<1> QED BY <1>1, <1>2, <1>3, <1>4

LEMMA ReceiveAltRoute ==
  ASSUME IndInv, LinkInv, RouteInv, NEW b \in Block, ReceiveAlt(b)
  PROVE  RouteInv'
<1>1. PICK o \in OnboardOf(b), s \in Splits(b) :
        /\ AltAccepts(b, o, s)
        /\ \/ ReorganizeRequired(Top, b) /\ path' = AltPath(b, s) /\ pc' = "pop"
           \/ pc' = "commit"
  BY DEF ReceiveAlt
<1>2. pc = "idle" /\ UNCHANGED << db, com, disc, pushed >>
  BY DEF ReceiveAlt
<1>3. CASE pc' = "commit"
  BY <1>3, RouteOver
<1>4. CASE ReorganizeRequired(Top, b) /\ path' = AltPath(b, s) /\ pc' = "pop"
  <2>1. View = com /\ disc = <<>> /\ pushed = 0
    BY <1>2 DEF RouteInv, PlaceInv
  <2>2. chain = com.chain /\ chain' = chain /\ com' = com /\ disc' = disc /\ pushed' = pushed
    BY <1>2, <2>1 DEF View, db
  <2>3. chain \in Seq(Block) /\ Len(chain) \in Nat /\ Chained(chain)
    BY IndTypes DEF LinkInv
  <2>4. /\ Height(path'[1]) = s /\ Len(path') = Height(b) - s + 1
        /\ \A i \in 1..Len(path') : path'[i] = Branch[b][s - 1 + i]
        /\ path'[Len(path')] = b /\ s \in 1..Height(b)
    BY <1>4, AltPathFacts, AltPathMore
  <2>5. Tip' = b /\ SplitHeight' = s
    BY <2>4 DEF Tip, SplitHeight, Height
  <2>6. s > 1 => s <= Len(chain) + 1 /\ chain[s - 1] = Branch[b][s - 1]
    BY <1>1 DEF AltAccepts, ConnectsToMain
  <2>7. Branch[b] \in Seq(Block) /\ Chained(Branch[b]) /\ Height(b) = Len(Branch[b]) /\ Height(b) \in Nat
    BY BranchFacts, BranchChained DEF Height
  <2>8. s <= Len(chain) + 1
    BY <2>3, <2>4, <2>6
  <2>9. \A i \in 1..(s - 1) : chain[i] = Branch[b][i]
    <3>1. CASE s = 1
      BY <3>1
    <3>2. CASE s > 1
      <4>1. s - 1 \in 1..Len(chain) /\ s - 1 <= Len(Branch[b])
        BY <2>3, <2>4, <2>7, <2>8, <3>2
      <4> QED BY <2>3, <2>6, <2>7, <3>2, <4>1, CommonPart
    <3> QED BY <2>4, <3>1, <3>2
  <2>10. ReorganizeRequired(LastOf(com.chain), b)
    BY <1>4, <2>2, TopIsLast
  <2>11. PathInv'
    <3>1. ReorganizeRequired(LastOf(com.chain), Tip)'
      BY <2>2, <2>5, <2>10 DEF ReorganizeRequired, IsPos, LastOf
    <3>2. (Height(Tip))' = Height(b) /\ (Branch[Tip])' = Branch[b]
      BY <2>5 DEF Height
    <3>3. (Len(path) = Height(Tip) - SplitHeight + 1)' /\ (SplitHeight <= Len(com.chain) + 1)'
      BY <2>2, <2>4, <2>5, <2>8, <3>2
    <3>4. /\ (\A i \in 1..Len(path) : path[i] = Branch[Tip][SplitHeight - 1 + i])'
          /\ (\A i \in 1..(SplitHeight - 1) : com.chain[i] = Branch[Tip][i])'
      BY <2>2, <2>4, <2>5, <2>9, <3>2
    <3> QED BY <3>1, <3>3, <3>4 DEF PathInv
  <2>12. DiscInv'
    BY <1>4, <2>1, <2>2, <2>3 DEF DiscInv
  <2>13. PlaceInv'
    BY <1>4, <2>2, <2>3 DEF PlaceInv, InCall, Building, Restoring, Prefix
  <2> QED BY <2>11, <2>12, <2>13 DEF RouteInv
<1> QED BY <1>1, <1>3, <1>4

LEMMA DisconnectRoute ==
  ASSUME IndInv, RouteInv, Disconnect
  PROVE  RouteInv'
<1>1. /\ pc = "pop" /\ pc' = "pop" /\ AboveSplit /\ PopBlock /\ disc' = << Top >> \o disc
      /\ com' = com /\ path' = path /\ pushed' = pushed
  BY DEF Disconnect
<1>2. Switching
  BY <1>1 DEF Switching
<1>3. /\ chain \in Seq(Block) /\ com.chain \in Seq(Block) /\ disc \in Seq(Block)
      /\ Len(chain) \in Nat /\ Len(com.chain) \in Nat /\ Len(disc) \in Nat /\ SplitHeight \in Nat \ {0}
  BY <1>2, IndTypes, RouteFacts
<1>4. Len(chain) > 0 /\ chain # <<>>
  BY <1>1, <1>3 DEF AboveSplit
<1>5. Top \in Block /\ Top = chain[Len(chain)]
  BY <1>3, <1>4, TopType
<1> DEFINE n == Len(chain) - 1
<1> DEFINE l == Len(com.chain)
<1>6. n \in Nat /\ Len(chain) = n + 1 /\ l \in Nat
  BY <1>3, <1>4
<1>7. Len(chain') = n /\ \A i \in 1..n : chain'[i] = chain[i]
  BY <1>1, <1>3, <1>6 DEF PopBlock
<1>8. /\ Prefix(chain, com.chain) /\ pushed = 0 /\ Len(disc) = l - (n + 1)
      /\ \A i \in 1..Len(disc) : disc[i] = com.chain[n + 1 + i]
  BY <1>1, <1>6 DEF RouteInv, PlaceInv, DiscInv
<1>9. /\ Len(disc') = Len(disc) + 1 /\ disc'[1] = Top
      /\ \A i \in 2..(Len(disc) + 1) : disc'[i] = disc[i - 1]
  BY <1>1, <1>3, <1>5
<1> HIDE DEF n, l
<1>10. Len(disc') = l - n
  BY <1>3, <1>6, <1>8, <1>9
<1>11. \A i \in 1..Len(disc') : disc'[i] = com.chain[n + i]
  <2> SUFFICES ASSUME NEW i \in 1..(Len(disc) + 1) PROVE disc'[i] = com.chain[n + i]
    BY <1>9
  <2>1. CASE i = 1
    <3>1. chain[n + 1] = com.chain[n + 1]
      BY <1>6, <1>8 DEF Prefix
    <3> QED BY <1>5, <1>6, <1>9, <2>1, <3>1
  <2>2. CASE i # 1
    <3>1. i \in 2..(Len(disc) + 1) /\ i - 1 \in 1..Len(disc) /\ n + 1 + (i - 1) = n + i
      BY <1>3, <1>6, <2>2
    <3> QED BY <1>8, <1>9, <3>1
  <2> QED BY <2>1, <2>2
<1>12. Prefix(chain', com.chain)
  BY <1>6, <1>7, <1>8 DEF Prefix
<1>13. DiscInv'
  BY <1>1, <1>7, <1>8, <1>10, <1>11 DEF DiscInv, l
<1>14. Prefix(chain, com.chain)'
  BY <1>1, <1>12
<1>15. PlaceInv'
  BY <1>1, <1>14 DEF PlaceInv, InCall, Building, Restoring
<1> QED BY <1>1, <1>2, <1>13, <1>15, PathKept DEF RouteInv

LEMMA RollbackPopRoute ==
  ASSUME IndInv, RouteInv, RollbackPop
  PROVE  RouteInv'
<1>1. /\ pc = "rollback" /\ pc' = "rollback" /\ AboveSplit /\ PopBlock
      /\ com' = com /\ path' = path /\ disc' = disc
  BY DEF RollbackPop, switch
<1>2. Switching
  BY <1>1 DEF Switching
<1>3. /\ chain \in Seq(Block) /\ Len(chain) \in Nat /\ SplitHeight \in Nat \ {0}
      /\ Branch[Tip] \in Seq(Block)
  BY <1>2, IndTypes, RouteFacts
<1>4. Len(chain) > 0
  BY <1>1, <1>3 DEF AboveSplit
<1>5. Len(chain') = Len(chain) - 1 /\ \A i \in 1..(Len(chain) - 1) : chain'[i] = chain[i]
  <2> DEFINE n == Len(chain) - 1
  <2>1. n \in 0..Len(chain) /\ chain' = SubSeq(chain, 1, n)
    BY <1>1, <1>3, <1>4 DEF PopBlock
  <2> HIDE DEF n
  <2>2. Len(chain') = n /\ \A i \in 1..n : chain'[i] = chain[i]
    BY <1>3, <2>1
  <2> QED BY <2>2 DEF n
<1>6. Prefix(chain, Branch[Tip])
  BY <1>1 DEF RouteInv, PlaceInv
<1>7. Prefix(chain', Branch[Tip])
  BY <1>3, <1>4, <1>5, <1>6 DEF Prefix
<1>8. Tip' = Tip
  BY <1>1 DEF Tip
<1>9. Prefix(chain, Branch[Tip])'
  BY <1>7, <1>8
<1>10. PlaceInv'
  BY <1>1, <1>9 DEF PlaceInv, InCall, Building, Restoring
<1> QED BY <1>1, <1>2, <1>10, PathKept, DiscKept DEF RouteInv

LEMMA ConnectNextRoute ==
  ASSUME IndInv, RouteInv, ConnectNext
  PROVE  RouteInv'
<1>1. /\ pc' = "enter" /\ mode' = "switch" /\ cur' = path[nxt'] /\ chain' = chain /\ com' = com
      /\ path' = path /\ disc' = disc
  BY DEF ConnectNext, Call, db
<1>2. \/ pc = "pop" /\ ~AboveSplit /\ nxt' = 1
      \/ pc = "connected" /\ nxt' = nxt + 1
  BY DEF ConnectNext
<1>3. Switching
  BY <1>2 DEF Switching
<1> DEFINE s == SplitHeight
<1> DEFINE n == Len(chain)
<1>4. /\ s \in Nat \ {0} /\ s <= n + 1 /\ n \in Nat /\ nxt \in Nat /\ Branch[Tip] \in Seq(Block)
      /\ Len(com.chain) \in Nat /\ Len(path) = Len(Branch[Tip]) - s + 1 /\ Len(path) \in Nat \ {0}
      /\ \A i \in 1..(s - 1) : com.chain[i] = Branch[Tip][i]
  BY <1>3, IndTypes, RouteFacts
<1>5. Tip' = Tip /\ SplitHeight' = s
  BY <1>1 DEF Tip, SplitHeight, Height
<1>6. PathInv'
  BY <1>1, <1>3, PathKept
<1>7. n = s - 2 + nxt' /\ Prefix(chain, Branch[Tip]) /\ DiscInv'
  <2>1. CASE pc = "pop" /\ ~AboveSplit /\ nxt' = 1
    <3>1. n = s - 1
      BY <1>4, <2>1 DEF AboveSplit
    <3>2. /\ Prefix(chain, com.chain) /\ Len(disc) = Len(com.chain) - n
          /\ \A i \in 1..Len(disc) : disc[i] = com.chain[n + i]
      BY <2>1 DEF RouteInv, PlaceInv, DiscInv
    <3>3. Prefix(chain, Branch[Tip])
      <4>1. Len(chain) <= Len(Branch[Tip])
        <5> DEFINE m == Len(Branch[Tip])
        <5>1. m \in Nat /\ Len(path) = m - s + 1 /\ Len(path) \in Nat \ {0} /\ n = s - 1
          BY <1>4, <3>1
        <5> HIDE DEF m, s, n
        <5>2. n <= m
          BY <1>4, <5>1
        <5> QED BY <5>2 DEF m, n
      <4>2. \A i \in 1..n : chain[i] = Branch[Tip][i]
        BY <1>4, <3>1, <3>2 DEF Prefix
      <4> QED BY <4>1, <4>2 DEF Prefix
    <3> HIDE DEF s, n
    <3>4. Len(disc) = Len(com.chain) - s + 1 /\ \A i \in 1..Len(disc) : disc[i] = com.chain[s - 1 + i]
      BY <1>4, <3>1, <3>2
    <3>5. DiscInv'
      BY <1>1, <1>5, <3>4 DEF DiscInv
    <3>6. n = s - 2 + nxt'
      BY <1>4, <2>1, <3>1
    <3> QED BY <3>3, <3>5, <3>6
  <2>2. CASE pc = "connected" /\ nxt' = nxt + 1
    <3>1. n = s - 1 + nxt /\ Prefix(chain, Branch[Tip])
      BY <2>2 DEF RouteInv, PlaceInv, Building
    <3>2. DiscInv'
      BY <1>1, <1>3, <2>2, DiscKept
    <3> HIDE DEF s, n
    <3>3. n = s - 2 + nxt'
      BY <1>4, <2>2, <3>1
    <3> QED BY <3>1, <3>2, <3>3
  <2> QED BY <1>2, <2>1, <2>2
<1>8. Prefix(chain, Branch[Tip])' /\ (Len(chain) = SplitHeight - 2 + nxt)' /\ (cur = path[nxt])'
  BY <1>1, <1>5, <1>7
<1>9. PlaceInv'
  BY <1>1, <1>8 DEF PlaceInv, InCall, Building, Restoring
<1> QED BY <1>6, <1>7, <1>9 DEF RouteInv

LEMMA StartPushRoute ==
  ASSUME IndInv, RouteInv, StartPush
  PROVE  RouteInv'
<1>1. /\ pc = "connected" /\ pc' = "push" /\ nxt = Len(path) /\ chain' = chain /\ com' = com
      /\ path' = path /\ disc' = disc
  BY DEF StartPush, db, switch
<1>2. Switching
  BY <1>1 DEF Switching
<1>3. Prefix(chain, Branch[Tip]) /\ Len(chain) = SplitHeight - 1 + nxt
  BY <1>1 DEF RouteInv, PlaceInv, Building
<1> DEFINE s == SplitHeight
<1> DEFINE h == Height(Tip)
<1>4. s \in Nat /\ h \in Nat /\ nxt = h - s + 1 /\ Len(chain) = s - 1 + nxt
  BY <1>1, <1>2, <1>3, RouteFacts
<1> HIDE DEF s, h
<1>5. Len(chain) = h
  BY <1>4
<1>6. Tip' = Tip /\ (Height(Tip))' = h
  BY <1>1 DEF Tip, h, Height
<1>7. Prefix(chain, Branch[Tip])' /\ (Len(chain) = Height(Tip))'
  BY <1>1, <1>3, <1>5, <1>6
<1>8. PlaceInv'
  BY <1>1, <1>7 DEF PlaceInv, InCall, Building, Restoring
<1> QED BY <1>1, <1>2, <1>8, PathKept, DiscKept DEF RouteInv

LEMMA PushRoute ==
  ASSUME IndInv, RouteInv, PushExMain \/ ThrowPush
  PROVE  RouteInv'
<1>1. /\ pc = "push" /\ pc' \in {"push", "rollback"} /\ chain' = chain /\ com' = com
      /\ path' = path /\ disc' = disc
  BY DEF PushExMain, ThrowPush, db
<1>2. Switching
  BY <1>1 DEF Switching
<1>3. Prefix(chain, Branch[Tip]) /\ Len(chain) = Height(Tip)
  BY <1>1 DEF RouteInv, PlaceInv
<1>4. Tip' = Tip /\ (Height(Tip))' = Height(Tip)
  BY <1>1 DEF Tip, Height
<1>5. Prefix(chain, Branch[Tip])' /\ (Len(chain) = Height(Tip))'
  BY <1>1, <1>3, <1>4
<1>6. PlaceInv'
  BY <1>1, <1>5 DEF PlaceInv, InCall, Building, Restoring
<1> QED BY <1>1, <1>2, <1>6, PathKept, DiscKept DEF RouteInv

LEMMA PretendedRoute ==
  ASSUME IndInv, RouteInv, SwitchPretended
  PROVE  RouteInv'
<1>1. pc = "rolledback" /\ pc' = "erase" /\ com' = com /\ path' = path /\ disc' = disc
  BY DEF SwitchPretended, switch
<1>2. Switching
  BY <1>1 DEF Switching
<1>3. PlaceInv'
  BY <1>1 DEF PlaceInv, InCall, Building, Restoring
<1> QED BY <1>1, <1>2, <1>3, PathKept, DiscKept DEF RouteInv

\* The rollback starts where the two branches part, and its next block is the one
\* of the committed chain above the view.
LEMMA RollbackConnectRoute ==
  ASSUME IndInv, RouteInv, RollbackConnect
  PROVE  /\ RouteInv'
         /\ Prefix(chain, com.chain)
         /\ pc' = "rolledback" => Len(chain) = Len(com.chain)
<1> DEFINE s == SplitHeight
<1> DEFINE n == Len(chain)
<1> DEFINE l == Len(com.chain)
<1> DEFINE i == n - s + 2
<1> DEFINE o == IF i <= pushed THEN {} ELSE TxSet(disc[i])
<1>1. /\ chain' = chain /\ com' = com /\ path' = path /\ disc' = disc
      /\ \/ pc = "rollback" /\ ~AboveSplit
         \/ pc = "restored"
      /\ \/ i <= Len(disc) /\ Call(disc[i], o, "restore")
         \/ ~(i <= Len(disc)) /\ pc' = "rolledback" /\ UNCHANGED call
  BY DEF RollbackConnect, db, switch
<1>2. Switching /\ pc # "pop"
  BY <1>1 DEF Switching
<1>3. /\ s \in Nat \ {0} /\ s <= n + 1 /\ s <= l + 1 /\ n \in Nat /\ l \in Nat
      /\ \A j \in 1..(s - 1) : com.chain[j] = Branch[Tip][j]
  BY <1>2, IndTypes, RouteFacts
<1>4. Len(disc) = l - s + 1 /\ \A j \in 1..Len(disc) : disc[j] = com.chain[s - 1 + j]
  BY <1>2 DEF RouteInv, DiscInv
<1>5. Prefix(chain, com.chain)
  <2>1. CASE pc = "restored"
    BY <2>1 DEF RouteInv, PlaceInv, Restoring
  <2>2. CASE pc = "rollback" /\ ~AboveSplit
    <3>1. n = s - 1
      BY <1>3, <2>2 DEF AboveSplit
    <3>2. Prefix(chain, Branch[Tip])
      BY <2>2 DEF RouteInv, PlaceInv
    <3>3. \A j \in 1..n : chain[j] = com.chain[j]
      BY <1>3, <3>1, <3>2 DEF Prefix
    <3>4. n <= l
      <4> HIDE DEF n, s, l
      <4> QED BY <1>3, <3>1
    <3> QED BY <3>3, <3>4 DEF Prefix
  <2> QED BY <1>1, <2>1, <2>2
<1>6. PathInv' /\ DiscInv'
  <2>1. pc' # "pop"
    BY <1>1 DEF Call
  <2> QED BY <1>1, <1>2, <2>1, PathKept, DiscKept
<1>7. Prefix(chain, com.chain)'
  BY <1>1, <1>5
<1>8. CASE i <= Len(disc) /\ Call(disc[i], o, "restore")
  <2>1. pc' = "enter" /\ mode' = "restore" /\ cur' = disc[i]
    BY <1>8 DEF Call
  <2>2. n < l /\ s - 1 + i = n + 1 /\ i \in 1..Len(disc)
    <3> HIDE DEF n, s, l
    <3> QED BY <1>3, <1>4, <1>8
  <2>3. cur' = com.chain[n + 1]
    <3> HIDE DEF i, n, s, l
    <3> QED BY <1>4, <2>1, <2>2
  <2>4. PlaceInv'
    BY <1>1, <1>7, <2>1, <2>2, <2>3 DEF PlaceInv, InCall, Building, Restoring
  <2> QED BY <1>5, <1>6, <2>1, <2>4 DEF RouteInv
<1>9. CASE ~(i <= Len(disc)) /\ pc' = "rolledback" /\ UNCHANGED call
  <2>1. PlaceInv'
    BY <1>7, <1>9 DEF PlaceInv, InCall, Building, Restoring
  <2>2. n <= l
    BY <1>5 DEF Prefix
  <2>3. n = l
    <3> HIDE DEF n, s, l
    <3> QED BY <1>3, <1>4, <1>9, <2>2
  <2> QED BY <1>5, <1>6, <2>1, <2>3 DEF RouteInv
<1> QED BY <1>1, <1>8, <1>9

LEMMA BystanderRoute ==
  ASSUME RouteInv, UNCHANGED << db, com, pc, call, switch >>
  PROVE  RouteInv'
<1>1. /\ chain' = chain /\ txdb' = txdb /\ spent' = spent /\ com' = com /\ pc' = pc /\ mode' = mode
      /\ cur' = cur /\ path' = path /\ disc' = disc /\ nxt' = nxt /\ pushed' = pushed
  BY DEF db, call, switch
<1>2. /\ Tip' = Tip /\ SplitHeight' = SplitHeight /\ InCall' = InCall /\ Switching' = Switching
      /\ Building' = Building /\ Restoring' = Restoring /\ View' = View
  BY <1>1 DEF Tip, SplitHeight, Height, InCall, Switching, Building, Restoring, View
<1>3. PathInv'
  BY <1>1, <1>2 DEF RouteInv, PathInv, Height, ReorganizeRequired, IsPos, LastOf
<1>4. DiscInv'
  BY <1>1, <1>2 DEF RouteInv, DiscInv
<1>5. PlaceInv'
  BY <1>1, <1>2 DEF RouteInv, PlaceInv, Prefix, Height
<1> QED BY <1>3, <1>4, <1>5 DEF RouteInv

\* The end of a database transaction and the truncation leave View = com.
LEMMA EndRoute ==
  ASSUME IndInv, IndInv', RouteInv,
         Commit \/ Abort \/ Crash \/ \E n \in TruncateTo : TruncateBlockchain(n)
  PROVE  RouteInv'
<1>1. com' \in Ledgers
  BY DEF IndInv, TypeOK
<1>2. com' = [chain |-> com'.chain, txdb |-> com'.txdb, spent |-> com'.spent]
  BY <1>1 DEF Ledgers
<1>3. CASE Commit
  <2>1. pc' = "idle" /\ disc' = <<>> /\ pushed' = 0 /\ com' = View /\ View' = View
    BY <1>3 DEF Commit, Idle, View, db
  <2> QED BY <2>1, RouteIdle
<1>4. CASE Abort \/ Crash
  <2>1. /\ pc' = "idle" /\ disc' = <<>> /\ pushed' = 0 /\ com' = com
        /\ chain' = com.chain /\ txdb' = com.txdb /\ spent' = com.spent
    BY <1>4 DEF Abort, Crash, Idle, Restore
  <2>2. View' = com'
    BY <1>2, <2>1 DEF View
  <2> QED BY <2>1, <2>2, RouteIdle
<1>5. ASSUME NEW n \in TruncateTo, TruncateBlockchain(n) PROVE RouteInv'
  <2>1. pc = "idle" /\ pc' = "idle" /\ disc' = disc /\ pushed' = pushed /\ View' = com'
    BY <1>5 DEF TruncateBlockchain, View, switch
  <2>2. disc = <<>> /\ pushed = 0
    BY <2>1 DEF RouteInv, PlaceInv
  <2> QED BY <2>1, <2>2, RouteIdle
<1> QED BY <1>3, <1>4, <1>5

LEMMA CallRoute ==
  ASSUME IndInv, LinkInv, HeadInv, RouteInv,
         EnterBlock \/ ProcessTx \/ RejectTx \/ FinishBlock \/ UndoTx \/ UndoCoinbase
  PROVE  RouteInv'
<1>1. InCall /\ com' = com /\ mode' = mode /\ cur' = cur /\ UNCHANGED switch /\ cur \in Block
  BY DEF EnterBlock, ProcessTx, RejectTx, FinishBlock, UndoTx, UndoCoinbase, InCall, call, IndInv, TypeOK
<1>2. CASE ProcessTx \/ RejectTx \/ UndoTx
  <2>1. InCall' /\ chain' = chain
    BY <1>2 DEF ProcessTx, RejectTx, UndoTx, InCall, db
  <2> QED BY <1>1, <2>1, RouteInCall
<1>3. CASE EnterBlock \/ UndoCoinbase
  <2>1. chain' = chain /\ UNCHANGED call /\ (InCall' \/ pc' = Returned(FALSE))
    BY <1>3 DEF EnterBlock, UndoCoinbase, InCall
  <2> QED BY <1>1, <2>1, RouteInCall, RouteFailed
<1>4. CASE FinishBlock
  <2>1. UNCHANGED call
    BY <1>4 DEF FinishBlock
  <2>2. \/ InCall' /\ chain' = chain
        \/ pc' = Returned(TRUE) /\ chain' = Append(chain, cur)
    BY <1>4 DEF FinishBlock, InCall
  <2> QED BY <1>1, <2>1, <2>2, RouteInCall, RouteAdded
<1> QED BY <1>2, <1>3, <1>4

LEMMA RouteStep ==
  ASSUME IndInv, IndInv', LinkInv, HeadInv, RouteInv, [Next]_vars
  PROVE  RouteInv'
<1>1. ASSUME NEW b \in Block, ReceiveMain(b) PROVE RouteInv'
  <2>1. /\ pc = "idle" /\ pc' = "enter" /\ mode' \in {"main", "sim"} /\ chain' = chain /\ com' = com
    BY <1>1 DEF ReceiveMain, Call, db
  <2>2. chain = com.chain
    BY <2>1 DEF RouteInv, PlaceInv, View
  <2> QED BY <2>1, <2>2
      DEF RouteInv, PathInv, DiscInv, PlaceInv, Switching, InCall, Building, Restoring
<1>2. ASSUME NEW b \in Block, ReceiveAlt(b) PROVE RouteInv'
  BY <1>2, ReceiveAltRoute
<1>3. CASE EraseConnected \/ SwitchFailed \/ Throw
  <2>1. pc' \in {"commit", "abort"}
    BY <1>3 DEF EraseConnected, SwitchFailed, Throw
  <2> QED BY <2>1, RouteOver
<1>4. CASE BlockThread
  <2>1. CASE EnterBlock \/ ProcessTx \/ RejectTx \/ FinishBlock \/ UndoTx \/ UndoCoinbase
    BY <2>1, CallRoute
  <2>2. CASE \/ Disconnect \/ ConnectNext \/ StartPush \/ PushExMain \/ EraseConnected
             \/ RollbackPop \/ RollbackConnect \/ SwitchFailed \/ SwitchPretended \/ Commit \/ Abort
    BY <1>3, <2>2, DisconnectRoute, ConnectNextRoute, StartPushRoute, PushRoute, RollbackPopRoute,
       RollbackConnectRoute, PretendedRoute, EndRoute
  <2> QED BY <1>4, <2>1, <2>2 DEF BlockThread
<1>5. CASE ThrowPush \/ Crash
  BY <1>5, PushRoute, EndRoute
<1>6. ASSUME NEW t \in Tx, IncomingTx(t) \/ RemoveStuck(t) PROVE RouteInv'
  BY <1>6, BystanderRoute DEF IncomingTx, RemoveStuck
<1>7. CASE ClearAltblocks \/ PruneAltBlocks \/ SetClock \/ UNCHANGED vars
  BY <1>7, BystanderRoute DEF ClearAltblocks, PruneAltBlocks, SetClock, vars
<1>8. ASSUME NEW n \in TruncateTo, TruncateBlockchain(n) PROVE RouteInv'
  BY <1>8, EndRoute
<1> QED BY <1>1, <1>2, <1>3, <1>4, <1>5, <1>6, <1>7, <1>8, Zenon DEF Next

-----------------------------------------------------------------------------
(***************************************************************************)
(* The alternative chains.                                                 *)
(***************************************************************************)
AltSame == alt' = alt /\ altOnb' = altOnb /\ altKi' = altKi /\ altTxs' = altTxs
AltAdds ==
  \E b \in Block : \E o \in SUBSET Tx : \E S \in SUBSET (alt \cup {b}) : \E s \in Splits(b) :
    AltAccepts(b, o, s) /\ AltInsert(b, o, S) /\ pc \in {"idle", "push"}

AltErases ==
  \E S \in SUBSET Block : AltErase(S) /\ (S \subseteq alt \/ EraseConnected \/ SwitchFailed)

\* The four ways in which a step treats the alternative chains.
LEMMA AltSteps ==
  ASSUME IndInv, [Next]_vars
  PROVE  \/ AltSame
         \/ AltAdds
         \/ AltErases
         \/ ForgetAlt /\ (path = <<>> \/ pc' \in {"commit", "abort", "idle"}) /\ (pc' = pc \/ pc' = "idle")
<1>1. TypeOK
  BY DEF IndInv
<1>2. ASSUME NEW b \in Block, ReceiveMain(b) PROVE AltSame
  BY <1>2 DEF ReceiveMain, AltSame, mem
<1>3. ASSUME NEW b \in Block, ReceiveAlt(b) PROVE AltAdds
  <2>1. PICK o \in OnboardOf(b), s \in Splits(b) :
          /\ AltAccepts(b, o, s)
          /\ \/ AltInsert(b, o, {})
             \/ \E S \in PruneIfMany(alt \cup {b}) : AltInsert(b, o, S)
    BY <1>3 DEF ReceiveAlt
  <2>2. alt \cup {b} \subseteq Block /\ o \in SUBSET Tx /\ pc = "idle"
    BY <1>1, <1>3, OnboardType DEF TypeOK, ReceiveAlt
  <2>3. PICK S \in SUBSET (alt \cup {b}) : AltInsert(b, o, S)
    BY <2>1, <2>2, PruneType
  <2> QED BY <2>1, <2>2, <2>3 DEF AltAdds
<1>4. ASSUME PushExMain \/ ThrowPush PROVE AltSame \/ AltAdds
  <2> DEFINE b == disc[pushed + 1]
  <2>1. pc = "push" /\ pushed < Len(disc)
    BY <1>4 DEF PushExMain, ThrowPush
  <2>2. b \in Block
    BY <1>1, <2>1 DEF TypeOK
  <2>3. TxSet(b) \in SUBSET Tx /\ alt \cup {b} \subseteq Block
    BY <1>1, <2>2, TxSetType DEF TypeOK
  <2>4. \/ UNCHANGED mem
        \/ /\ \E s \in Splits(b) : AltAccepts(b, TxSet(b), s)
           /\ \/ AltInsert(b, TxSet(b), {})
              \/ \E S \in PruneIfMany(alt \cup {b}) : AltInsert(b, TxSet(b), S)
    BY <1>4 DEF PushExMain, ThrowPush
  <2> HIDE DEF b
  <2>5. CASE UNCHANGED mem
    BY <2>5 DEF AltSame, mem
  <2>6. CASE /\ \E s \in Splits(b) : AltAccepts(b, TxSet(b), s)
             /\ \/ AltInsert(b, TxSet(b), {})
                \/ \E S \in PruneIfMany(alt \cup {b}) : AltInsert(b, TxSet(b), S)
    <3>1. \E S \in SUBSET (alt \cup {b}) : AltInsert(b, TxSet(b), S)
      BY <2>3, <2>6, PruneType
    <3> QED BY <2>1, <2>2, <2>3, <2>6, <3>1 DEF AltAdds
  <2> QED BY <2>4, <2>5, <2>6
<1>5. ASSUME EraseConnected \/ SwitchFailed \/ PruneAltBlocks PROVE AltErases
  <2>1. path \in Seq(Block) /\ nxt \in Nat \ {0} /\ alt \in SUBSET Block
    BY <1>1 DEF TypeOK
  <2>2. SubSeq(path, nxt, Len(path)) \in Seq(Block)
    BY <2>1
  <2>3. Elems(path) \in SUBSET Block /\ Elems(SubSeq(path, nxt, Len(path))) \in SUBSET Block
    BY <2>1, <2>2, ElemsType
  <2>4. CASE EraseConnected
    <3>1. PICK S \in ErasedThrough(Elems(path)) : AltErase(S)
      BY <2>4 DEF EraseConnected
    <3>2. S \in SUBSET Block
      BY <2>1, <2>3, <3>1 DEF ErasedThrough
    <3> QED BY <2>4, <3>1, <3>2 DEF AltErases
  <2>5. CASE SwitchFailed
    BY <2>3, <2>5 DEF SwitchFailed, AltErases
  <2>6. CASE PruneAltBlocks
    <3>1. PICK S \in PruneChoices(alt) : AltErase(S)
      BY <2>6 DEF PruneAltBlocks
    <3>2. S \subseteq alt
      BY <2>1, <3>1, PruneType
    <3> QED BY <2>1, <3>1, <3>2 DEF AltErases
  <2> QED BY <1>5, <2>4, <2>5, <2>6
<1>6. ASSUME ClearAltblocks \/ Crash \/ \E n \in TruncateTo : TruncateBlockchain(n)
      PROVE  /\ ForgetAlt /\ (path = <<>> \/ pc' \in {"commit", "abort", "idle"})
             /\ (pc' = pc \/ pc' = "idle")
  BY <1>6 DEF ClearAltblocks, Crash, Idle, TruncateBlockchain
<1>7. ASSUME \/ Disconnect \/ ConnectNext \/ StartPush \/ RollbackPop \/ RollbackConnect
             \/ SwitchPretended \/ EnterBlock \/ ProcessTx
      PROVE  AltSame
  BY <1>7 DEF Disconnect, ConnectNext, StartPush, RollbackPop, RollbackConnect,
     SwitchPretended, EnterBlock, ProcessTx, AltSame, mem
<1>8. ASSUME RejectTx \/ FinishBlock \/ UndoTx \/ UndoCoinbase \/ Commit \/ Abort \/ Throw
      PROVE  AltSame
  BY <1>8 DEF RejectTx, FinishBlock, UndoTx, UndoCoinbase, Commit, Abort, Throw, AltSame, mem
<1>9. ASSUME NEW t \in Tx, IncomingTx(t) \/ RemoveStuck(t) PROVE AltSame
  BY <1>9 DEF IncomingTx, RemoveStuck, AltSame, mem
<1>10. ASSUME SetClock \/ UNCHANGED vars PROVE AltSame
  BY <1>10 DEF SetClock, vars, AltSame, mem
<1>11. ASSUME BlockThread PROVE AltSame \/ AltAdds \/ AltErases
  BY <1>4, <1>5, <1>7, <1>8, <1>11 DEF BlockThread
<1>12. ASSUME PruneAltBlocks PROVE AltErases
  BY <1>5, <1>12
<1> QED BY <1>2, <1>3, <1>4, <1>6, <1>8, <1>9, <1>10, <1>11, <1>12, Zenon DEF Next

\* The number of blocks of A that contain t.
Count(A, t) == Cardinality({ b \in A : t \in TxSet(b) })

LEMMA CountFacts ==
  ASSUME NEW A \in SUBSET Block, NEW t
  PROVE  /\ Count(A, t) \in Nat
         /\ \A S \in SUBSET A : Count(A \ S, t) = Count(A, t) - Count(S, t)
         /\ \A b \in Block \ A : Count(A \cup {b}, t) =
              IF t \in TxSet(b) THEN Count(A, t) + 1 ELSE Count(A, t)
<1> DEFINE In(S) == { b \in S : t \in TxSet(b) }
<1>1. \A S \in SUBSET Block : IsFiniteSet(In(S)) /\ Cardinality(In(S)) \in Nat
  <2> TAKE S \in SUBSET Block
  <2>1. In(S) \in SUBSET Block
    OBVIOUS
  <2> HIDE DEF In
  <2>2. IsFiniteSet(In(S))
    BY <2>1, BlockAssumption, FS_Subset
  <2> QED BY <2>2, FS_CardinalityType
<1>2. \A S : Count(S, t) = Cardinality(In(S))
  BY DEF Count
<1>3. ASSUME NEW S \in SUBSET A PROVE Count(A \ S, t) = Count(A, t) - Count(S, t)
  <2>1. In(A) = In(A \ S) \cup In(S) /\ In(A \ S) \cap In(S) = {}
    OBVIOUS
  <2>2. A \ S \in SUBSET Block /\ S \in SUBSET Block
    OBVIOUS
  <2>3. /\ IsFiniteSet(In(A \ S)) /\ IsFiniteSet(In(S))
        /\ Cardinality(In(A \ S)) \in Nat /\ Cardinality(In(S)) \in Nat
    BY <1>1, <2>2
  <2> HIDE DEF In
  <2>4. Cardinality(In(A)) = Cardinality(In(A \ S)) + Cardinality(In(S)) - Cardinality({})
    BY <2>1, <2>3, FS_Union
  <2>5. Cardinality({}) = 0
    BY FS_EmptySet
  <2> DEFINE u == Cardinality(In(A))
  <2> DEFINE v == Cardinality(In(A \ S))
  <2> DEFINE w == Cardinality(In(S))
  <2>6. Count(A \ S, t) = v /\ Count(A, t) = u /\ Count(S, t) = w
    BY <1>2
  <2>7. v \in Nat /\ w \in Nat /\ u = v + w - 0
    BY <2>3, <2>4, <2>5
  <2> HIDE DEF u, v, w
  <2>8. v = u - w
    BY <2>7
  <2> QED BY <2>6, <2>8
<1>4. ASSUME NEW b \in Block \ A
      PROVE  Count(A \cup {b}, t) = IF t \in TxSet(b) THEN Count(A, t) + 1 ELSE Count(A, t)
  <2>1. b \notin In(A) /\ In(A \cup {b}) = IF t \in TxSet(b) THEN In(A) \cup {b} ELSE In(A)
    OBVIOUS
  <2>2. IsFiniteSet(In(A))
    BY <1>1
  <2> HIDE DEF In
  <2>3. Cardinality(In(A) \cup {b}) = Cardinality(In(A)) + 1
    BY <2>1, <2>2, FS_AddElement
  <2> QED BY <1>2, <2>1, <2>3
<1> QED BY <1>1, <1>2, <1>3, <1>4

\* There is room for every block as an alternative one.
Room == Cardinality(Block) <= MaxAlt

\* The iterators of alt_chain are alive until the first old block is pushed back;
\* with room for every block, until the end.
LiveInv == Switching /\ (pushed = 0 \/ Room) => Elems(path) \subseteq alt

LEMMA RestOfPath ==
  ASSUME NEW p \in Seq(Block), NEW n \in Nat \ {0}
  PROVE  Elems(SubSeq(p, n, Len(p))) \subseteq Elems(p)
<1>1. Len(p) \in Nat
  OBVIOUS
<1>2. CASE n <= Len(p)
  <2>1. /\ Len(SubSeq(p, n, Len(p))) = Len(p) - n + 1
        /\ \A i \in 1..(Len(p) - n + 1) : SubSeq(p, n, Len(p))[i] = p[n + i - 1]
    BY <1>1, <1>2
  <2>2. \A i \in 1..(Len(p) - n + 1) : n + i - 1 \in 1..Len(p)
    BY <1>1, <1>2
  <2> QED BY <2>1, <2>2 DEF Elems
<1>3. CASE n > Len(p)
  <2>1. SubSeq(p, n, Len(p)) = <<>>
    BY <1>1, <1>3
  <2> QED BY <2>1 DEF Elems
<1> QED BY <1>1, <1>2, <1>3

\* m_alternative_chains_txs counts exactly, unless a dead iterator is erased through.
LEMMA AltTxsStep ==
  ASSUME IndInv, LiveInv, ErasedOnce, AltTxsCount, [Next]_vars
  PROVE  AltTxsCount'
<1>1. alt \in SUBSET Block /\ altTxs \in [Tx -> Nat]
  BY DEF IndInv, TypeOK
<1>2. \A t \in Tx : altTxs[t] = Count(alt, t)
  BY DEF AltTxsCount, Count
<1> SUFFICES ASSUME NEW t \in Tx PROVE altTxs'[t] = Count(alt', t)
  BY DEF AltTxsCount, Count
<1>3. CASE AltSame
  BY <1>2, <1>3 DEF AltSame
<1>4. CASE AltAdds
  <2>a. PICK b \in Block : \E o \in SUBSET Tx : \E S \in SUBSET (alt \cup {b}) : \E s \in Splits(b) :
          AltAccepts(b, o, s) /\ AltInsert(b, o, S)
    BY <1>4 DEF AltAdds
  <2>b. PICK o \in SUBSET Tx : \E S \in SUBSET (alt \cup {b}) : \E s \in Splits(b) :
          AltAccepts(b, o, s) /\ AltInsert(b, o, S)
    BY <2>a
  <2>1. PICK S \in SUBSET (alt \cup {b}) : \E s \in Splits(b) :
          AltAccepts(b, o, s) /\ AltInsert(b, o, S)
    BY <2>b
  <2> DEFINE A == alt \cup {b}
  <2>2. b \notin alt /\ A \in SUBSET Block /\ b \in Block \ alt
    BY <1>1, <2>1 DEF AltAccepts
  <2>3. alt' = A \ S /\ altTxs' = ErasedTxs(AddedTxs(altTxs, b), S)
    BY <2>1 DEF AltInsert
  <2>4. altTxs'[t] = IF Count(S, t) <= AddedTxs(altTxs, b)[t]
                     THEN AddedTxs(altTxs, b)[t] - Count(S, t) ELSE 0
    BY <2>3 DEF ErasedTxs, Count
  <2>5. AddedTxs(altTxs, b)[t] = IF t \in TxSet(b) THEN altTxs[t] + 1 ELSE altTxs[t]
    BY DEF AddedTxs
  <2>6. Count(A, t) = IF t \in TxSet(b) THEN Count(alt, t) + 1 ELSE Count(alt, t)
    BY <1>1, <2>2, CountFacts
  <2>7. Count(A \ S, t) = Count(A, t) - Count(S, t)
    <3> HIDE DEF A
    <3>1. S \in SUBSET A
      BY DEF A
    <3> QED BY <2>2, <3>1, CountFacts
  <2>8. Count(A, t) \in Nat /\ Count(S, t) \in Nat /\ Count(A \ S, t) \in Nat
    <3>1. S \in SUBSET Block /\ A \ S \in SUBSET Block
      BY <2>2
    <3> QED BY <2>2, <3>1, CountFacts
  <2> HIDE DEF A
  <2> QED BY <1>2, <2>3, <2>4, <2>5, <2>6, <2>7, <2>8
<1>5. ASSUME NEW S \in SUBSET alt, AltErase(S) PROVE altTxs'[t] = Count(alt', t)
  <2>1. alt' = alt \ S /\ altTxs' = ErasedTxs(altTxs, S)
    BY <1>5 DEF AltErase
  <2>2. S \in SUBSET Block /\ Count(alt \ S, t) = Count(alt, t) - Count(S, t)
    BY <1>1, CountFacts
  <2>3. alt \ S \in SUBSET Block
    BY <1>1
  <2>4. Count(alt, t) \in Nat /\ Count(S, t) \in Nat /\ Count(alt \ S, t) \in Nat
    BY <1>1, <2>2, <2>3, CountFacts
  <2>5. altTxs'[t] = IF Count(S, t) <= altTxs[t] THEN altTxs[t] - Count(S, t) ELSE 0
    BY <2>1 DEF ErasedTxs, Count
  <2> QED BY <1>2, <2>1, <2>2, <2>4, <2>5
<1>7. CASE EraseConnected
  <2>1. PICK S \in ErasedThrough(Elems(path)) : AltErase(S)
    BY <1>7 DEF EraseConnected
  <2>2. S \in SUBSET alt
    BY <1>7, <2>1 DEF EraseConnected, ErasedOnce, ErasedThrough
  <2> QED BY <1>5, <2>1, <2>2
<1>8. CASE SwitchFailed
  <2> DEFINE S == Elems(SubSeq(path, nxt, Len(path)))
  <2>1. AltErase(S) /\ Elems(path) \subseteq alt
    BY <1>8 DEF SwitchFailed, LiveInv, Switching
  <2>2. path \in Seq(Block) /\ nxt \in Nat \ {0}
    BY DEF IndInv, TypeOK
  <2>3. S \subseteq Elems(path)
    BY <2>2, RestOfPath
  <2> HIDE DEF S
  <2> QED BY <1>5, <2>1, <2>3
<1>6. CASE ForgetAlt
  <2>1. alt' = {} /\ altTxs'[t] = 0
    BY <1>6 DEF ForgetAlt
  <2>2. { b \in {} : t \in TxSet(b) } = {}
    OBVIOUS
  <2> QED BY <2>1, <2>2, FS_EmptySet DEF Count
<1> QED BY <1>3, <1>4, <1>5, <1>6, <1>7, <1>8, AltSteps DEF AltErases

LEMMA AltDataStep ==
  ASSUME IndInv, AltData, [Next]_vars
  PROVE  AltData'
<1>1. alt \in SUBSET Block /\ altOnb \in [Block -> SUBSET Tx]
  BY DEF IndInv, TypeOK
<1>2. CASE AltSame
  BY <1>2 DEF AltSame, AltData
<1>3. CASE AltAdds
  <2>a. PICK b \in Block : \E o \in SUBSET Tx : \E S \in SUBSET (alt \cup {b}) : \E s \in Splits(b) :
          AltAccepts(b, o, s) /\ AltInsert(b, o, S)
    BY <1>3 DEF AltAdds
  <2>b. PICK o \in SUBSET Tx : \E S \in SUBSET (alt \cup {b}) : \E s \in Splits(b) :
          AltAccepts(b, o, s) /\ AltInsert(b, o, S)
    BY <2>a
  <2>1. PICK S \in SUBSET (alt \cup {b}) : \E s \in Splits(b) :
          AltAccepts(b, o, s) /\ AltInsert(b, o, S)
    BY <2>b
  <2>2. TxSet(b) \subseteq Resolve(b, o) /\ b \notin alt
    BY <2>1 DEF AltAccepts, AltTxsOk
  <2>3. /\ alt' = (alt \cup {b}) \ S /\ altOnb' = Set([altOnb EXCEPT ![b] = Resolve(b, o)], S, {})
        /\ altKi' = ErasedKi(altKi \cup (KiOf(b) \X {b}), S)
    BY <2>1 DEF AltInsert
  <2>4. ASSUME NEW x \in alt'
        PROVE  TxSet(x) \subseteq altOnb'[x] /\ \A k \in KiOf(x) : << k, x >> \in altKi'
    <3>1. x \in Block /\ x \notin S /\ (x = b \/ x \in alt)
      BY <1>1, <2>3
    <3>2. altOnb'[x] = IF x = b THEN Resolve(b, o) ELSE altOnb[x]
      BY <1>1, <2>3, <3>1 DEF Set
    <3>3. TxSet(x) \subseteq altOnb'[x]
      BY <2>2, <3>1, <3>2 DEF AltData
    <3>4. ASSUME NEW k \in KiOf(x) PROVE << k, x >> \in altKi'
      <4>1. << k, x >> \in altKi \cup (KiOf(b) \X {b})
        BY <3>1 DEF AltData
      <4>2. << k, x >>[2] \notin S
        BY <3>1
      <4> QED BY <2>3, <4>1, <4>2 DEF ErasedKi
    <3> QED BY <3>3, <3>4
  <2> QED BY <2>4 DEF AltData
<1>4. ASSUME NEW S \in SUBSET Block, AltErase(S) PROVE AltData'
  <2>1. alt' = alt \ S /\ altOnb' = Set(altOnb, S, {}) /\ altKi' = ErasedKi(altKi, S)
    BY <1>4 DEF AltErase
  <2>2. ASSUME NEW x \in alt'
        PROVE  TxSet(x) \subseteq altOnb'[x] /\ \A k \in KiOf(x) : << k, x >> \in altKi'
    <3>1. x \in Block /\ x \notin S /\ x \in alt
      BY <1>1, <2>1
    <3>2. altOnb'[x] = altOnb[x]
      BY <1>1, <2>1, <3>1 DEF Set
    <3>3. ASSUME NEW k \in KiOf(x) PROVE << k, x >> \in altKi'
      <4>1. << k, x >> \in altKi /\ << k, x >>[2] \notin S
        BY <3>1 DEF AltData
      <4> QED BY <2>1, <4>1 DEF ErasedKi
    <3> QED BY <3>1, <3>2, <3>3 DEF AltData
  <2> QED BY <2>2 DEF AltData
<1>5. CASE ForgetAlt
  BY <1>5 DEF ForgetAlt, AltData
<1> QED BY <1>2, <1>3, <1>4, <1>5, AltSteps DEF AltErases

\* How the connection of an alternative chain is entered and goes on.
LEMMA BuildSteps ==
  ASSUME IndInv, [Next]_vars, (pc = "pop" \/ Building)'
  PROVE  \/ \E b \in Block : ReceiveAlt(b) /\ pc' = "pop"
         \/ (pc = "pop" \/ Building) /\ path' = path /\ AltSame
<1>1. ASSUME NEW b \in Block, ReceiveMain(b) PROVE FALSE
  BY <1>1 DEF ReceiveMain, Call, Building, InCall
<1>2. ASSUME NEW b \in Block, ReceiveAlt(b) PROVE ReceiveAlt(b) /\ pc' = "pop"
  BY <1>2 DEF ReceiveAlt, Building, InCall
<1>3. CASE Disconnect \/ ConnectNext
  BY <1>3 DEF Disconnect, ConnectNext, AltSame, mem, Building, InCall
<1>4. CASE \/ StartPush \/ EraseConnected \/ SwitchFailed \/ SwitchPretended
           \/ Commit \/ Abort \/ Throw \/ ThrowPush \/ Crash \/ PushExMain
  <2>1. pc' \in {"push", "commit", "abort", "erase", "idle", "rollback"}
    BY <1>4 DEF StartPush, EraseConnected, SwitchFailed, SwitchPretended, Commit, Abort, Throw,
       ThrowPush, Crash, PushExMain, Idle
  <2> QED BY <2>1 DEF Building, InCall
<1>5. CASE RollbackPop \/ RollbackConnect
  <2>1. pc' \in {"rollback", "rolledback"} \/ (pc' = "enter" /\ mode' = "restore")
    BY <1>5 DEF RollbackPop, RollbackConnect, Call
  <2> QED BY <2>1 DEF Building, InCall
<1>6. CASE EnterBlock \/ ProcessTx \/ RejectTx \/ FinishBlock \/ UndoTx \/ UndoCoinbase
  <2>1. InCall /\ mode' = mode /\ path' = path /\ AltSame
    BY <1>6 DEF EnterBlock, ProcessTx, RejectTx, FinishBlock, UndoTx, UndoCoinbase, InCall,
       call, switch, AltSame, mem
  <2>2. InCall' \/ pc' = Returned(FALSE) \/ pc' = Returned(TRUE)
    BY <1>6 DEF EnterBlock, ProcessTx, RejectTx, FinishBlock, UndoTx, UndoCoinbase, InCall
  <2>3. mode \in {"main", "sim", "switch", "restore"}
    BY <2>1 DEF IndInv, SwitchInv, TypeOK, Modes
  <2>4. mode = "switch"
    BY <2>1, <2>2, <2>3, ReturnedValue DEF Building, InCall
  <2> QED BY <2>1, <2>4 DEF Building
<1>7. ASSUME NEW t \in Tx, IncomingTx(t) \/ RemoveStuck(t)
      PROVE  (pc = "pop" \/ Building) /\ path' = path /\ AltSame
  BY <1>7 DEF IncomingTx, RemoveStuck, AltSame, mem, call, switch, Building, InCall
<1>12. CASE PruneAltBlocks
  BY <1>12 DEF PruneAltBlocks, call, Building, InCall
<1>8. CASE ClearAltblocks
  <2>1. Switching /\ (path = <<>> \/ pc \in {"commit", "abort"}) /\ pc' = pc /\ mode' = mode
    BY <1>8 DEF ClearAltblocks, call, Building, Switching, InCall
  <2> QED BY <2>1 DEF IndInv, SwitchInv, Switching, InCall
<1>9. ASSUME NEW n \in TruncateTo, TruncateBlockchain(n) PROVE FALSE
  BY <1>9 DEF TruncateBlockchain, Building, InCall
<1>10. CASE SetClock \/ UNCHANGED vars
  BY <1>10 DEF SetClock, vars, AltSame, mem, call, switch, Building, InCall
<1>11. CASE BlockThread
  BY <1>3, <1>4, <1>5, <1>6, <1>11 DEF BlockThread
<1> QED BY <1>1, <1>2, <1>4, <1>7, <1>8, <1>9, <1>10, <1>11, <1>12, Zenon DEF Next

LEMMA AltStep ==
  ASSUME IndInv, IndInv', AltInv, [Next]_vars
  PROVE  AltInv'
<1>1. AltData /\ AltData'
  <2>1. AltData
    BY DEF AltInv, AltData
  <2> QED BY <2>1, AltDataStep
<1>2. ASSUME (pc = "pop" \/ Building)' PROVE Elems(path') \subseteq alt'
  <2>1. CASE (pc = "pop" \/ Building) /\ path' = path /\ AltSame
    BY <2>1 DEF AltSame, AltInv
  <2>2. ASSUME NEW b \in Block, ReceiveAlt(b), pc' = "pop" PROVE Elems(path') \subseteq alt'
    <3>1. PICK o \in OnboardOf(b), s \in Splits(b) : AltInsert(b, o, {}) /\ path' = AltPath(b, s)
      BY <2>2 DEF ReceiveAlt
    <3>2. alt' = alt \cup {b}
      BY <3>1 DEF AltInsert
    <3>3. \A j \in s..(Height(b) - 1) : Branch[b][j] \in alt
      BY DEF Splits
    <3>4. /\ s \in 1..Height(b) /\ Len(path') = Height(b) - s + 1
          /\ \A i \in 1..Len(path') : path'[i] = Branch[b][s - 1 + i]
          /\ path'[Len(path')] = b
      BY <3>1, AltPathMore
    <3> DEFINE h == Height(b)
    <3>5. h \in Nat
      BY HeightType
    <3> HIDE DEF h
    <3>6. ASSUME NEW i \in 1..Len(path') PROVE path'[i] \in alt'
      <4>1. i = Len(path') \/ s - 1 + i \in s..(h - 1)
        BY <3>4, <3>5 DEF h
      <4> QED BY <3>2, <3>3, <3>4, <4>1 DEF h
    <3> QED BY <3>6 DEF Elems
  <2> QED BY <1>2, <2>1, <2>2, BuildSteps
<1>3. ASSUME (InCall /\ mode = "switch")' PROVE TxSet(cur') \subseteq onb'
  <2>1. CASE ConnectNext
    <3>1. cur' = path[nxt'] /\ onb' = altOnb[path[nxt']] /\ path' = path /\ alt' = alt /\ altOnb' = altOnb
      BY <2>1 DEF ConnectNext, Call, mem
    <3>2. nxt' \in 1..Len(path')
      BY <1>3 DEF IndInv, SwitchInv
    <3>3. Building'
      BY <1>3 DEF Building
    <3>4. path[nxt'] \in alt
      BY <1>2, <3>1, <3>2, <3>3 DEF Elems
    <3> QED BY <1>1, <3>1, <3>4 DEF AltData
  <2>2. CASE ~ConnectNext
    <3>1. InCall /\ mode = "switch" /\ cur' = cur /\ onb' = onb
      <4>3. ASSUME NEW b \in Block, ReceiveMain(b) PROVE FALSE
        BY <1>3, <4>3 DEF ReceiveMain, Call
      <4>4. CASE Disconnect \/ StartPush \/ EraseConnected \/ SwitchFailed \/ SwitchPretended
                 \/ Commit \/ Abort \/ Throw \/ ThrowPush \/ Crash \/ PushExMain \/ RollbackPop
        <5>1. pc' \in {"pop", "push", "commit", "abort", "erase", "idle", "rollback"}
          BY <4>4 DEF Disconnect, StartPush, EraseConnected, SwitchFailed, SwitchPretended, Commit,
             Abort, Throw, ThrowPush, Crash, PushExMain, Idle, RollbackPop
        <5> QED BY <1>3, <5>1 DEF InCall
      <4>5. CASE RollbackConnect
        BY <1>3, <4>5 DEF RollbackConnect, Call, InCall
      <4>6. CASE EnterBlock \/ ProcessTx \/ RejectTx \/ FinishBlock \/ UndoTx \/ UndoCoinbase
        BY <1>3, <4>6 DEF EnterBlock, ProcessTx, RejectTx, FinishBlock, UndoTx, UndoCoinbase, InCall, call
      <4>7. ASSUME NEW t \in Tx, IncomingTx(t) \/ RemoveStuck(t)
            PROVE  InCall /\ mode = "switch" /\ cur' = cur /\ onb' = onb
        BY <1>3, <4>7 DEF IncomingTx, RemoveStuck, InCall, call
      <4>8. ASSUME NEW n \in TruncateTo, TruncateBlockchain(n) PROVE FALSE
        BY <1>3, <4>8 DEF TruncateBlockchain, InCall
      <4>9. CASE ClearAltblocks \/ PruneAltBlocks \/ SetClock \/ UNCHANGED vars
        BY <1>3, <4>9 DEF ClearAltblocks, PruneAltBlocks, SetClock, vars, InCall, call
      <4>10. ASSUME NEW b \in Block, ReceiveAlt(b) PROVE FALSE
        BY <1>3, <4>10 DEF ReceiveAlt, InCall
      <4>11. CASE BlockThread
        BY <2>2, <4>4, <4>5, <4>6, <4>11 DEF BlockThread
      <4> QED BY <4>3, <4>4, <4>7, <4>8, <4>9, <4>10, <4>11, Zenon DEF Next
    <3> QED BY <3>1 DEF AltInv
  <2> QED BY <2>1, <2>2
<1> QED BY <1>1, <1>2, <1>3 DEF AltInv, AltData

\* With room for every block handle_alternative_block prunes nothing.
LEMMA NothingPruned ==
  ASSUME Room, IndInv, NEW b \in Block
  PROVE  PruneIfMany(alt \cup {b}) = {{}}
<1>1. alt \cup {b} \in SUBSET Block
  BY DEF IndInv, TypeOK
<1> DEFINE A == alt \cup {b}
<1> HIDE DEF A
<1>2. IsFiniteSet(Block) /\ A \in SUBSET Block
  BY <1>1, BlockAssumption DEF A
<1>3. Cardinality(A) <= Cardinality(Block) /\ Cardinality(A) \in Nat /\ Cardinality(Block) \in Nat
  BY <1>2, FS_Subset, FS_CardinalityType
<1>4. Cardinality(A) <= MaxAlt
  BY <1>3, ParameterAssumption DEF Room
<1>5. PruneIfMany(A) = {{}}
  BY <1>4 DEF PruneIfMany
<1> QED BY <1>5 DEF A

LEMMA LiveStep ==
  ASSUME IndInv, IndInv', AltInv', LiveInv, [Next]_vars
  PROVE  LiveInv'
<1> DEFINE P == Elems(path') \subseteq alt'
<1> DEFINE Same == Switching /\ path' = path /\ pushed' = pushed /\ alt' = alt
<1> SUFFICES ASSUME Switching', pushed' = 0 \/ Room PROVE P
  BY DEF LiveInv
<1>1. ASSUME Same PROVE P
  BY <1>1 DEF LiveInv
<1>2. CASE \/ Disconnect \/ ConnectNext \/ StartPush \/ RollbackPop \/ RollbackConnect
           \/ SwitchPretended
  BY <1>1, <1>2 DEF Disconnect, ConnectNext, StartPush, RollbackPop, RollbackConnect,
     SwitchPretended, Switching, switch, mem
<1>3. CASE PushExMain \/ ThrowPush
  <2> DEFINE b == disc[pushed + 1]
  <2>1. pc = "push" /\ pushed < Len(disc) /\ pushed' = pushed + 1 /\ path' = path
    BY <1>3 DEF PushExMain, ThrowPush
  <2>2. pushed \in Nat /\ b \in Block
    BY <2>1 DEF IndInv, TypeOK
  <2>3. Room
    BY <2>1, <2>2
  <2>4. alt' = alt \/ AltInsert(b, TxSet(b), {})
    BY <1>3, <2>2, <2>3, NothingPruned DEF PushExMain, ThrowPush, mem
  <2>5. alt \subseteq alt'
    BY <2>4 DEF AltInsert
  <2>6. Elems(path) \subseteq alt
    BY <2>1, <2>3 DEF LiveInv, Switching
  <2> QED BY <2>1, <2>5, <2>6
<1>4. CASE EraseConnected \/ SwitchFailed \/ Commit \/ Abort \/ Throw \/ Crash
  <2>1. pc' \in {"commit", "abort", "idle"}
    BY <1>4 DEF EraseConnected, SwitchFailed, Commit, Abort, Throw, Crash, Idle
  <2> QED BY <2>1 DEF Switching, InCall
<1>5. CASE EnterBlock \/ ProcessTx \/ RejectTx \/ FinishBlock \/ UndoTx \/ UndoCoinbase
  <2>1. InCall /\ mode' = mode /\ path' = path /\ pushed' = pushed /\ alt' = alt
    BY <1>5 DEF EnterBlock, ProcessTx, RejectTx, FinishBlock, UndoTx, UndoCoinbase, InCall, call, switch, mem
  <2>2. InCall' \/ pc' = Returned(FALSE) \/ pc' = Returned(TRUE)
    BY <1>5 DEF EnterBlock, ProcessTx, RejectTx, FinishBlock, UndoTx, UndoCoinbase, InCall
  <2>3. mode \in {"main", "sim", "switch", "restore"}
    BY <2>1 DEF IndInv, SwitchInv, TypeOK, Modes
  <2>4. mode \in {"switch", "restore"}
    BY <2>1, <2>2, <2>3, ReturnedValue DEF Switching, InCall
  <2> QED BY <1>1, <2>1, <2>4 DEF Switching
<1>6. ASSUME NEW t \in Tx, IncomingTx(t) \/ RemoveStuck(t) PROVE P
  BY <1>1, <1>6 DEF IncomingTx, RemoveStuck, call, switch, mem, Switching, InCall
<1>7. CASE ClearAltblocks
  <2>1. Switching /\ (path = <<>> \/ pc \in {"commit", "abort"})
    BY <1>7 DEF ClearAltblocks, call, switch, Switching, InCall
  <2> QED BY <2>1 DEF IndInv, SwitchInv, Switching, InCall
<1>8. CASE PruneAltBlocks
  BY <1>8 DEF PruneAltBlocks, Switching, InCall
<1>9. CASE SetClock \/ UNCHANGED vars
  BY <1>1, <1>9 DEF SetClock, vars, call, switch, mem, Switching, InCall
<1>10. ASSUME NEW n \in TruncateTo, TruncateBlockchain(n) PROVE P
  BY <1>10 DEF TruncateBlockchain, Switching, InCall
<1>11. ASSUME NEW b \in Block, ReceiveMain(b) PROVE P
  BY <1>11 DEF ReceiveMain, Call, Switching, InCall
<1>12. ASSUME NEW b \in Block, ReceiveAlt(b) PROVE P
  <2>1. pc' = "pop"
    BY <1>12 DEF ReceiveAlt, Switching, InCall
  <2> QED BY <2>1 DEF AltInv
<1> HIDE DEF P
<1>13. CASE BlockThread
  BY <1>2, <1>3, <1>4, <1>5, <1>13 DEF BlockThread
<1> QED BY <1>3, <1>4, <1>6, <1>7, <1>8, <1>9, <1>10, <1>11, <1>12, <1>13, Zenon DEF Next

\* The blocks of a chain spend different key images.
Apart(c) ==
  /\ \A i, j \in 1..Len(c) : i # j => KiOf(c[i]) \cap KiOf(c[j]) = {}
  /\ \A i \in 1..Len(c) : SpendsOnce(c[i])

\* The branch of an alternative block is the main chain below the split, and
\* alternative blocks from there on.
LEMMA BranchOfAlt ==
  ASSUME IndInv, LinkInv, NEW b \in Block, NEW s \in Splits(b), ConnectsToMain(b, s)
  PROVE  /\ s \in 1..Height(b) /\ s <= Len(chain) + 1
         /\ \A i \in 1..(s - 1) : Branch[b][i] = chain[i]
         /\ \A i \in s..(Height(b) - 1) : Branch[b][i] \in alt
<1>1. chain \in Seq(Block) /\ Len(chain) \in Nat /\ Chained(chain)
  BY IndTypes DEF LinkInv
<1>2. Branch[b] \in Seq(Block) /\ Chained(Branch[b]) /\ Height(b) = Len(Branch[b]) /\ Height(b) \in Nat
  BY BranchFacts, BranchChained DEF Height
<1>3. s \in 1..Height(b) /\ \A i \in s..(Height(b) - 1) : Branch[b][i] \in alt
  BY DEF Splits
<1>4. s > 1 => s <= Len(chain) + 1 /\ chain[s - 1] = Branch[b][s - 1]
  BY DEF ConnectsToMain
<1>5. s <= Len(chain) + 1
  BY <1>1, <1>3, <1>4
<1>6. \A i \in 1..(s - 1) : Branch[b][i] = chain[i]
  <2>1. CASE s = 1
    BY <2>1
  <2>2. CASE s > 1
    <3>1. s - 1 \in 1..Len(chain) /\ s - 1 <= Len(Branch[b])
      BY <1>1, <1>2, <1>3, <1>5, <2>2
    <3> QED BY <1>1, <1>2, <1>4, <2>2, <3>1, CommonPart
  <2> QED BY <1>3, <2>1, <2>2
<1> QED BY <1>3, <1>5, <1>6

\* A new alternative block spends nothing that its branch has spent: below the
\* split the table of spent key images says so, above it the heap of alternative
\* key images.
LEMMA NewBlockApart ==
  ASSUME IndInv, LinkInv, AltData, AltBranchSpendsOnce, pc \in {"idle", "push"},
         NEW b \in Block, NEW o, NEW s \in Splits(b), AltAccepts(b, o, s)
  PROVE  Apart(Branch[b])
<1> DEFINE B == Branch[b]
<1> DEFINE h == Height(b)
<1>1. /\ chain \in Seq(Block) /\ Len(chain) \in Nat /\ Exact(chain, spent, {}) /\ EachOnce(chain)
      /\ spent \in [Ki -> Nat]
  <2>1. CurKi = {}
    BY DEF CurKi
  <2> QED BY <2>1, IndTypes DEF IndInv, ViewInv
<1>2. /\ B \in Seq(Block) /\ h = Len(B) /\ h \in Nat \ {0} /\ B[h] = b
      /\ Branch[Parent[b]] \in Seq(Block) /\ h = Len(Branch[Parent[b]]) + 1
      /\ \A i \in 1..(h - 1) : B[i] = Branch[Parent[b]][i]
  <2>1. h \in Nat \ {0} /\ h = Len(B)
    BY HeightType DEF Height
  <2> DEFINE g == Len(Branch[Parent[b]])
  <2>2. /\ B \in Seq(Block) /\ B[h] = b /\ Branch[Parent[b]] \in Seq(Block) /\ h = g + 1
        /\ \A i \in 1..g : B[i] = Branch[Parent[b]][i]
    BY <2>1, BranchFacts
  <2>3. g \in Nat
    BY <2>2
  <2>4. h - 1 = g
    <3> HIDE DEF h, g
    <3> QED BY <2>2, <2>3
  <2> QED BY <2>1, <2>2, <2>4
<1>3. /\ s \in 1..h /\ s <= Len(chain) + 1 /\ \A i \in 1..(s - 1) : B[i] = chain[i]
      /\ \A i \in s..(h - 1) : B[i] \in alt
  BY BranchOfAlt DEF AltAccepts
<1>4. /\ SpendsOnce(b)
      /\ \A k \in KiOf(b) : /\ spent[k] = 0 \/ spent[k] >= s
                            /\ \A a \in Elems(AltPath(b, s)) : << k, a >> \notin altKi
  BY DEF AltAccepts, AltTxsOk, AltInputsOk
<1>5. \A i \in 1..h : B[i] \in Block /\ KiOf(B[i]) \subseteq Ki
  <2> HIDE DEF B, h
  <2> TAKE i \in 1..h
  <2>1. B[i] \in Block
    BY <1>2
  <2> QED BY <2>1, KiOfType
<1>6. \A i \in s..h : B[i] \in Elems(AltPath(b, s))
  <2>1. /\ Len(AltPath(b, s)) = h - s + 1
        /\ \A i \in 1..Len(AltPath(b, s)) : AltPath(b, s)[i] = B[s - 1 + i]
    BY AltPathMore
  <2> TAKE i \in s..h
  <2>2. i - s + 1 \in 1..Len(AltPath(b, s)) /\ s - 1 + (i - s + 1) = i
    <3>1. h \in Nat /\ s \in 1..h
      BY <1>2, <1>3
    <3> HIDE DEF h, B
    <3>2. i \in Int /\ s \in Int /\ i >= s /\ i <= h
      BY <3>1
    <3>3. i - s + 1 \in 1..(h - s + 1) /\ s - 1 + (i - s + 1) = i
      BY <3>1, <3>2
    <3> QED BY <2>1, <3>3
  <2>3. AltPath(b, s)[i - s + 1] = B[i]
    <3> HIDE DEF h, B
    <3> QED BY <2>1, <2>2
  <2> QED BY <2>2, <2>3 DEF Elems
<1> HIDE DEF B, h
\* Against every block below.
<1>7. ASSUME NEW i \in 1..(h - 1), NEW k \in KiOf(b), k \in KiOf(B[i]) PROVE FALSE
  <2>1. i \in 1..h /\ (i \in 1..(s - 1) \/ i \in s..(h - 1))
    BY <1>2, <1>3
  <2>2. CASE i \in 1..(s - 1)
    <3>1. i \in 1..Len(chain) /\ k \in KiOf(chain[i])
      BY <1>1, <1>3, <1>7, <2>2
    <3>2. spent[k] = i
      BY <3>1, <1>1 DEF Exact
    <3> QED BY <1>3, <1>4, <2>2, <3>2
  <2>3. CASE i \in s..(h - 1)
    <3>1. << k, B[i] >> \in altKi
      BY <1>3, <1>7, <2>3 DEF AltData
    <3> QED BY <1>2, <1>3, <1>4, <1>6, <2>3, <3>1
  <2> QED BY <2>1, <2>2, <2>3
\* The blocks below among themselves.
<1>8. /\ \A i, j \in 1..(h - 1) : i # j => KiOf(B[i]) \cap KiOf(B[j]) = {}
      /\ \A i \in 1..(h - 1) : SpendsOnce(B[i])
  <2>1. CASE s = h
    <3>1. \A i, j \in 1..Len(chain) : i # j => KiOf(chain[i]) \cap KiOf(chain[j]) = {}
      BY <1>1, ExactOnce
    <3>2. \A i \in 1..(h - 1) : i \in 1..Len(chain) /\ B[i] = chain[i]
      BY <1>1, <1>2, <1>3, <2>1
    <3> QED BY <1>1, <3>1, <3>2 DEF EachOnce
  <2>2. CASE s # h
    <3>1. h - 1 \in s..(h - 1) /\ h - 1 \in 1..(h - 1)
      BY <1>2, <1>3, <2>2
    <3>2. B[h - 1] \in alt
      BY <1>3, <3>1
    <3>3. B[h - 1] = Parent[b]
      <4>1. Parent[b] \in Block
        <5>1. Len(Branch[Parent[b]]) # 0
          BY <1>2, <3>1
        <5> QED BY <5>1, BlockAssumption, GenesisBranch
      <4>2. Branch[Parent[b]][Len(Branch[Parent[b]])] = Parent[b]
        BY <4>1, BranchFacts
      <4>3. Len(Branch[Parent[b]]) \in Nat
        BY <1>2
      <4>4. h - 1 = Len(Branch[Parent[b]])
        BY <1>2, <4>3
      <4> QED BY <1>2, <3>1, <4>2, <4>4
    <3>4. Height(Parent[b]) = h - 1
      <4>1. Len(Branch[Parent[b]]) \in Nat
        BY <1>2
      <4> QED BY <1>2, <4>1 DEF Height
    <3>5. /\ \A i, j \in 1..(h - 1) :
               i # j => KiOf(Branch[Parent[b]][i]) \cap KiOf(Branch[Parent[b]][j]) = {}
          /\ \A i \in 1..(h - 1) : SpendsOnce(Branch[Parent[b]][i])
      <4>1. Parent[b] \in alt
        BY <3>2, <3>3
      <4> QED BY <3>4, <4>1 DEF AltBranchSpendsOnce
    <3> QED BY <1>2, <3>5
  <2> QED BY <2>1, <2>2
<1>9. \A i \in 1..h : i \in 1..(h - 1) \/ i = h
  BY <1>2
<1>10. \A i, j \in 1..h : i # j => KiOf(B[i]) \cap KiOf(B[j]) = {}
  <2> SUFFICES ASSUME NEW i \in 1..h, NEW j \in 1..h, i # j, NEW k, k \in KiOf(B[i]), k \in KiOf(B[j])
               PROVE  FALSE
    OBVIOUS
  <2>1. CASE i \in 1..(h - 1) /\ j \in 1..(h - 1)
    BY <1>8, <2>1
  <2>2. CASE i = h
    BY <1>2, <1>7, <1>9, <2>2
  <2>3. CASE j = h
    BY <1>2, <1>7, <1>9, <2>3
  <2> QED BY <1>9, <2>1, <2>2, <2>3
<1>11. \A i \in 1..h : SpendsOnce(B[i])
  BY <1>2, <1>4, <1>8, <1>9
<1>12. Apart(B)
  BY <1>2, <1>10, <1>11 DEF Apart
<1> QED BY <1>12 DEF B

LEMMA AltApartStep ==
  ASSUME IndInv, LinkInv, AltData, AltBranchSpendsOnce, [Next]_vars
  PROVE  AltBranchSpendsOnce'
<1>1. \A b \in alt : Apart(Branch[b])
  BY DEF AltBranchSpendsOnce, Apart, Height
<1> SUFFICES ASSUME NEW x \in alt' PROVE Apart(Branch[x])
  BY DEF AltBranchSpendsOnce, Apart, Height
<1>2. CASE AltSame
  BY <1>1, <1>2 DEF AltSame
<1>3. CASE AltAdds
  <2>a. PICK b \in Block : \E o \in SUBSET Tx : \E S \in SUBSET (alt \cup {b}) : \E s \in Splits(b) :
          AltAccepts(b, o, s) /\ AltInsert(b, o, S) /\ pc \in {"idle", "push"}
    BY <1>3 DEF AltAdds
  <2>b. PICK o \in SUBSET Tx : \E S \in SUBSET (alt \cup {b}) : \E s \in Splits(b) :
          AltAccepts(b, o, s) /\ AltInsert(b, o, S) /\ pc \in {"idle", "push"}
    BY <2>a
  <2>1. PICK S \in SUBSET (alt \cup {b}) : \E s \in Splits(b) :
          AltAccepts(b, o, s) /\ AltInsert(b, o, S) /\ pc \in {"idle", "push"}
    BY <2>b
  <2>2. Apart(Branch[b])
    BY <2>1, NewBlockApart
  <2>3. x \in alt \/ x = b
    BY <2>1 DEF AltInsert
  <2> QED BY <1>1, <2>2, <2>3
<1>4. ASSUME NEW S \in SUBSET Block, AltErase(S) PROVE Apart(Branch[x])
  BY <1>1, <1>4 DEF AltErase
<1>5. CASE ForgetAlt
  BY <1>5 DEF ForgetAlt
<1> QED BY <1>2, <1>3, <1>4, <1>5, AltSteps DEF AltErases

-----------------------------------------------------------------------------
(***************************************************************************)
(* The transactions at hand.                                               *)
(***************************************************************************)
\* While a block is processed, what leaves the pool enters the table and what
\* leaves the table enters the pool, until the end of the database transaction.
LEMMA NothingDropped ==
  ASSUME IndInv, [Next]_vars, pc # "idle", ~Abort, ~Crash, NEW t \in Tx, t \in pool \/ txdb[t] # 0
  PROVE  t \in pool' \/ txdb'[t] # 0
<1>1. txdb \in [Tx -> Nat] /\ pool \subseteq Tx /\ Len(chain) \in Nat
  BY IndTypes DEF IndInv, TypeOK
<1>2. CASE pool' = pool /\ txdb' = txdb
  BY <1>2
<1>3. CASE Disconnect \/ RollbackPop
  <2>1. txdb' = Set(txdb, TxSet(Top), 0) /\ pool' = pool \cup TxSet(Top)
    BY <1>3 DEF Disconnect, RollbackPop, PopBlock
  <2>2. txdb'[t] = IF t \in TxSet(Top) THEN 0 ELSE txdb[t]
    BY <1>1, <2>1 DEF Set
  <2> QED BY <2>1, <2>2
<1>4. CASE ProcessTx
  <2>1. pool' = pool \ {CurTx} /\ txdb' = Set(txdb, {CurTx}, Len(chain) + 1)
    BY <1>4 DEF ProcessTx, Take, AddTransaction
  <2>2. txdb'[t] = IF t = CurTx THEN Len(chain) + 1 ELSE txdb[t]
    BY <1>1, <2>1 DEF Set
  <2>3. Len(chain) + 1 # 0
    BY <1>1
  <2> QED BY <2>1, <2>2, <2>3
<1>5. CASE RejectTx
  <2>1. txdb' = txdb /\ pool \subseteq pool'
    BY <1>5 DEF RejectTx, db, pools
  <2> QED BY <2>1
<1>6. CASE UndoTx
  <2> DEFINE u == TxsOf[cur][done]
  <2>1. pool' = pool \cup {u} /\ txdb' = Set(txdb, {u}, 0)
    BY <1>6 DEF UndoTx, PurgeTransaction
  <2>2. txdb'[t] = IF t = u THEN 0 ELSE txdb[t]
    BY <1>1, <2>1 DEF Set
  <2> QED BY <2>1, <2>2
<1>7. ASSUME NEW u \in Tx, IncomingTx(u) \/ RemoveStuck(u) PROVE t \in pool' \/ txdb'[t] # 0
  BY <1>7 DEF IncomingTx, RemoveStuck, db
<1>8. CASE \/ ConnectNext \/ StartPush \/ PushExMain \/ EraseConnected
           \/ RollbackConnect \/ SwitchFailed \/ SwitchPretended
  <2>1. UNCHANGED << db, pools >>
    BY <1>8 DEF ConnectNext, StartPush, PushExMain, EraseConnected, RollbackConnect,
       SwitchFailed, SwitchPretended
  <2> QED BY <2>1, <1>2 DEF db, pools
<1>9. CASE EnterBlock \/ FinishBlock \/ UndoCoinbase \/ Commit
  BY <1>2, <1>9 DEF EnterBlock, FinishBlock, UndoCoinbase, Commit, db, pools
<1>10. CASE Throw \/ ThrowPush \/ ClearAltblocks \/ PruneAltBlocks \/ SetClock \/ UNCHANGED vars
  <2>1. UNCHANGED << db, pools >>
    BY <1>10 DEF Throw, ThrowPush, ClearAltblocks, PruneAltBlocks, SetClock, vars
  <2> QED BY <2>1, <1>2 DEF db, pools
<1>11. ASSUME NEW b \in Block, ReceiveMain(b) \/ ReceiveAlt(b) PROVE FALSE
  BY <1>11 DEF ReceiveMain, ReceiveAlt
<1>12. ASSUME NEW n \in TruncateTo, TruncateBlockchain(n) PROVE FALSE
  BY <1>12 DEF TruncateBlockchain
<1>13. CASE BlockThread
  BY <1>3, <1>4, <1>5, <1>6, <1>8, <1>9, <1>13 DEF BlockThread
<1> QED BY <1>7, <1>10, <1>11, <1>12, <1>13, Zenon DEF Next

\* The committed state changes only when the call ends; an abort is followed by its
\* end, and a call starts with everything as it was.
LEMMA CallSteps ==
  ASSUME [Next]_vars, pc' # "idle"
  PROVE  /\ com' = com
         /\ pc = "abort" => pc' = "abort"
         /\ pc = "idle" => chain' = chain /\ txdb' = txdb /\ spent' = spent /\ pool' = pool
<1> DEFINE P == /\ com' = com
                /\ pc = "abort" => pc' = "abort"
                /\ pc = "idle" => chain' = chain /\ txdb' = txdb /\ spent' = spent /\ pool' = pool
<1> SUFFICES P
  OBVIOUS
<1>1. ASSUME NEW b \in Block, ReceiveMain(b) \/ ReceiveAlt(b) PROVE P
  BY <1>1 DEF ReceiveMain, ReceiveAlt, db, pools
<1>2. CASE Disconnect \/ ConnectNext \/ StartPush \/ PushExMain \/ EraseConnected
  BY <1>2 DEF Disconnect, ConnectNext, StartPush, PushExMain, EraseConnected
<1>3. CASE RollbackPop \/ RollbackConnect \/ SwitchFailed \/ SwitchPretended
  BY <1>3 DEF RollbackPop, RollbackConnect, SwitchFailed, SwitchPretended
<1>4. CASE EnterBlock \/ ProcessTx \/ RejectTx \/ FinishBlock \/ UndoTx \/ UndoCoinbase
  BY <1>4 DEF EnterBlock, ProcessTx, RejectTx, FinishBlock, UndoTx, UndoCoinbase
<1>5. CASE Commit \/ Abort \/ Crash
  BY <1>5 DEF Commit, Abort, Crash, Idle
<1>6. CASE Throw \/ ThrowPush
  BY <1>6 DEF Throw, ThrowPush
<1>8. ASSUME NEW t \in Tx, IncomingTx(t) \/ RemoveStuck(t) PROVE P
  BY <1>8 DEF IncomingTx, RemoveStuck
<1>9. CASE ClearAltblocks \/ PruneAltBlocks \/ SetClock \/ UNCHANGED vars
  BY <1>9 DEF ClearAltblocks, PruneAltBlocks, SetClock, vars
<1>10. ASSUME NEW n \in TruncateTo, TruncateBlockchain(n) PROVE FALSE
  BY <1>10 DEF TruncateBlockchain
<1>11. CASE BlockThread
  BY <1>2, <1>3, <1>4, <1>5, <1>11 DEF BlockThread
<1> HIDE DEF P
<1> QED BY <1>1, <1>5, <1>6, <1>8, <1>9, <1>10, <1>11, Zenon DEF Next

LEMMA HandStep ==
  ASSUME IndInv, HandInv, RouteInv', [Next]_vars
  PROVE  HandInv'
<1>1. CASE pc' = "idle"
  <2>1. View' = com'
    BY <1>1 DEF RouteInv, PlaceInv
  <2>2. txdb' = com'.txdb
    BY <2>1 DEF View
  <2> QED BY <2>2 DEF HandInv
<1>2. CASE pc' # "idle" /\ pc' # "abort"
  <2>1. com' = com /\ pc # "abort" /\ (pc = "idle" => txdb' = txdb /\ pool' = pool)
    BY <1>2, CallSteps
  <2>2. ASSUME NEW t \in Tx, com'.txdb[t] # 0 PROVE t \in pool' \/ txdb'[t] # 0
    <3>1. t \in pool \/ txdb[t] # 0
      BY <2>1, <2>2 DEF HandInv
    <3>2. CASE pc = "idle"
      BY <2>1, <3>1, <3>2
    <3>3. CASE pc # "idle"
      <4>1. ~Abort /\ ~Crash
        BY <1>2 DEF Abort, Crash, Idle
      <4> QED BY <3>1, <3>3, <4>1, NothingDropped
    <3> QED BY <3>2, <3>3
  <2> QED BY <2>2 DEF HandInv
<1>3. CASE pc' = "abort"
  BY <1>3 DEF HandInv
<1> QED BY <1>1, <1>2, <1>3

\* The next transaction of a block of the old chain is in the pool: it was there
\* or in the table all the time, and it is not in the table now.
LEMMA RestoredTx ==
  ASSUME IndInv, ReorgInv, pc = "txs", mode = "restore", done < Len(TxsOf[cur])
  PROVE  CurTx \in pool /\ txdb[CurTx] = 0
<1>1. cur \in Block /\ done \in Nat /\ InCall
  BY DEF IndInv, TypeOK, InCall
<1>2. TxsOf[cur] \in Seq(Tx) /\ Len(TxsOf[cur]) \in Nat
  BY <1>1, TxSetMember
<1>3. done + 1 \in 1..Len(TxsOf[cur])
  BY <1>1, <1>2
<1>4. CurTx \in TxSet(cur) /\ CurTx \in Tx
  BY <1>1, <1>2, <1>3, TxSetMember DEF CurTx
<1> DEFINE n == Len(chain)
<1> DEFINE c == com.chain
<1>5. /\ chain \in Seq(Block) /\ c \in Seq(Block) /\ n \in Nat /\ Len(c) \in Nat
      /\ txdb \in [Tx -> Nat] /\ com.txdb \in [Tx -> Nat]
  BY IndTypes
<1>6. n < Len(c) /\ cur = c[n + 1] /\ Prefix(chain, c)
  BY <1>1 DEF ReorgInv, RouteInv, PlaceInv, Restoring
<1>7. n + 1 \in 1..Len(c)
  BY <1>5, <1>6
<1>8. com.txdb[CurTx] = n + 1
  BY <1>4, <1>6, <1>7 DEF ReorgInv, LinkInv, TxExact
<1>9. CurTx \in pool \/ txdb[CurTx] # 0
  BY <1>4, <1>5, <1>8 DEF ReorgInv, HandInv
<1>10. ASSUME txdb[CurTx] # 0 PROVE FALSE
  <2>1. TxExact(chain, txdb, TxsBy(cur, done))
    BY DEF ReorgInv, LinkInv, CurTxs
  <2>2. CurTx \in TxsBy(cur, done) \/ (txdb[CurTx] \in 1..n /\ CurTx \in TxSet(chain[txdb[CurTx]]))
    BY <1>4, <1>5, <1>10, <2>1 DEF TxExact
  <2>3. CASE CurTx \in TxsBy(cur, done)
    <3>1. PICK i \in 1..done : CurTx = TxsOf[cur][i]
      BY <2>3 DEF TxsBy
    <3>2. Good(cur, n + 1)
      BY <1>6, <1>7 DEF ReorgInv, LinkInv, AllGood
    <3>3. i \in 1..Len(TxsOf[cur]) /\ i # done + 1
      BY <1>1, <1>2, <1>3
    <3> QED BY <1>3, <3>1, <3>2, <3>3 DEF Good, CurTx
  <2>4. CASE txdb[CurTx] \in 1..n /\ CurTx \in TxSet(chain[txdb[CurTx]])
    <3> DEFINE j == txdb[CurTx]
    <3>1. j \in 1..Len(c) /\ CurTx \in TxSet(c[j])
      BY <1>5, <1>6, <2>4 DEF Prefix
    <3>2. com.txdb[CurTx] = j
      BY <3>1 DEF ReorgInv, LinkInv, TxExact
    <3> QED BY <1>5, <1>8, <2>4, <3>2
  <2> QED BY <2>2, <2>3, <2>4
<1> QED BY <1>9, <1>10

\* A block that is connected finds its transactions: those of the alternative
\* chain are kept with it, those of the old chain are still in the pool.
LEMMA TxsAtHand ==
  ASSUME IndInv, ReorgInv
  PROVE  SwitchHasTxs
<1> SUFFICES ASSUME pc = "txs", mode \in {"switch", "restore"}, done < Len(TxsOf[cur])
             PROVE  CurTx \in onb \cup pool
  BY DEF SwitchHasTxs
<1>1. cur \in Block /\ done \in Nat /\ InCall
  BY DEF IndInv, TypeOK, InCall
<1>2. TxsOf[cur] \in Seq(Tx) /\ Len(TxsOf[cur]) \in Nat
  BY <1>1, TxSetMember
<1>3. done + 1 \in 1..Len(TxsOf[cur])
  BY <1>1, <1>2
<1>4. CurTx \in TxSet(cur) /\ CurTx \in Tx
  BY <1>1, <1>2, <1>3, TxSetMember DEF CurTx
<1>5. CASE mode = "switch"
  BY <1>1, <1>4, <1>5 DEF ReorgInv, AltInv
<1>6. CASE mode = "restore"
  BY <1>6, RestoredTx
<1> QED BY <1>5, <1>6

\* Without exceptions, how the database transaction comes to be aborted.
LEMMA AbortSteps ==
  ASSUME IndInv, "throw" \notin Faults, [Next]_vars, pc' = "abort"
  PROVE  \/ pc = "abort" /\ txdb' = txdb
         \/ InCall /\ mode \in {"main", "sim"} /\ CurTxs = {} /\ txdb' = txdb
         \/ pc = "rolledback" /\ txdb' = txdb
<1>1. ASSUME NEW b \in Block, ReceiveMain(b) \/ ReceiveAlt(b) PROVE FALSE
  BY <1>1 DEF ReceiveMain, ReceiveAlt, Call
<1>2. CASE \/ Disconnect \/ ConnectNext \/ StartPush \/ PushExMain \/ EraseConnected
           \/ RollbackPop \/ RollbackConnect \/ SwitchPretended
  BY <1>2 DEF Disconnect, ConnectNext, StartPush, PushExMain, EraseConnected,
     RollbackPop, RollbackConnect, SwitchPretended, Call
<1>3. CASE SwitchFailed
  BY <1>3 DEF SwitchFailed, db
<1>4. ASSUME InCall PROVE mode \in {"main", "sim", "switch", "restore"}
  BY <1>4 DEF IndInv, SwitchInv, TypeOK, Modes
<1>5. CASE EnterBlock \/ UndoCoinbase
  <2>1. InCall /\ pc' = Returned(FALSE) /\ txdb' = txdb
    BY <1>5 DEF EnterBlock, UndoCoinbase, InCall
  <2>2. mode \in {"main", "sim"}
    BY <1>4, <2>1, ReturnedValue
  <2>3. pc = "enter" \/ done = 0
    BY <1>5 DEF EnterBlock, UndoCoinbase
  <2>4. TxsBy(cur, 0) = {}
    BY DEF TxsBy
  <2>5. CurTxs = {}
    BY <2>3, <2>4 DEF CurTxs
  <2> QED BY <2>1, <2>2, <2>5
<1>6. CASE ProcessTx \/ RejectTx \/ UndoTx
  BY <1>6 DEF ProcessTx, RejectTx, UndoTx
<1>7. CASE FinishBlock
  <2>1. InCall /\ mode # "sim" /\ pc' = Returned(TRUE)
    BY <1>7 DEF FinishBlock, InCall
  <2> QED BY <1>4, <2>1, ReturnedValue
<1>8. CASE Commit \/ Abort \/ Crash
  BY <1>8 DEF Commit, Abort, Crash, Idle
<1>9. CASE Throw \/ ThrowPush
  BY <1>9 DEF Throw, ThrowPush
<1>10. ASSUME NEW t \in Tx, IncomingTx(t) \/ RemoveStuck(t) PROVE pc = "abort" /\ txdb' = txdb
  BY <1>10 DEF IncomingTx, RemoveStuck, db
<1>11. CASE ClearAltblocks \/ PruneAltBlocks \/ SetClock \/ UNCHANGED vars
  BY <1>11 DEF ClearAltblocks, PruneAltBlocks, SetClock, vars, db
<1>12. ASSUME NEW n \in TruncateTo, TruncateBlockchain(n) PROVE FALSE
  BY <1>12 DEF TruncateBlockchain
<1>13. CASE BlockThread
  BY <1>2, <1>3, <1>5, <1>6, <1>7, <1>8, <1>13 DEF BlockThread
<1> QED BY <1>1, <1>8, <1>9, <1>10, <1>11, <1>12, <1>13, Zenon DEF Next

\* Without exceptions a view that is aborted keeps nothing that is not committed.
LEMMA AbortHandStep ==
  ASSUME IndInv, LinkInv, RouteInv, AbortInv, "throw" \notin Faults, [Next]_vars
  PROVE  AbortInv'
<1> SUFFICES ASSUME pc' = "abort" PROVE \A t \in Tx : txdb'[t] # 0 => com'.txdb[t] # 0
  BY DEF AbortInv
<1>1. com' = com
  BY CallSteps
<1>2. \/ pc = "abort" /\ txdb' = txdb
      \/ InCall /\ mode \in {"main", "sim"} /\ CurTxs = {} /\ txdb' = txdb
      \/ pc = "rolledback" /\ txdb' = txdb
  BY AbortSteps
<1>3. CASE pc = "abort" /\ txdb' = txdb
  BY <1>1, <1>3 DEF AbortInv
<1>4. /\ chain \in Seq(Block) /\ com.chain \in Seq(Block)
      /\ txdb \in [Tx -> Nat] /\ com.txdb \in [Tx -> Nat] /\ Len(chain) \in Nat
      /\ TxExact(com.chain, com.txdb, {})
  BY IndTypes DEF LinkInv
<1>5. CASE InCall /\ mode \in {"main", "sim"} /\ CurTxs = {} /\ txdb' = txdb
  <2>1. TxExact(chain, txdb, {})
    BY <1>5 DEF LinkInv, InCall
  <2>2. chain = com.chain
    BY <1>5 DEF RouteInv, PlaceInv
  <2>3. Prefix(chain, com.chain)
    BY <1>4, <2>2 DEF Prefix
  <2>4. ASSUME NEW t \in Tx, txdb[t] # 0 PROVE com.txdb[t] # 0
    BY <1>4, <2>4, <2>1, <2>3, TxOfPart, ZenonT(60)
  <2> QED BY <1>1, <1>5, <2>4
<1>6. CASE pc = "rolledback" /\ txdb' = txdb
  <2>1. TxExact(chain, txdb, {})
    BY <1>6 DEF LinkInv, CurTxs
  <2>2. Prefix(chain, com.chain)
    BY <1>6 DEF RouteInv, PlaceInv
  <2>4. ASSUME NEW t \in Tx, txdb[t] # 0 PROVE com.txdb[t] # 0
    BY <1>4, <2>4, <2>1, <2>2, TxOfPart, ZenonT(60)
  <2> QED BY <1>1, <1>6, <2>4
<1> QED BY <1>2, <1>3, <1>5, <1>6

-----------------------------------------------------------------------------
(***************************************************************************)
(* The invariants together.                                                *)
(***************************************************************************)
LEMMA InitReorgInv == Init => ReorgInv /\ AltTxsCount /\ AltBranchSpendsOnce /\ AbortInv
<1> SUFFICES ASSUME Init PROVE ReorgInv /\ AltTxsCount /\ AltBranchSpendsOnce /\ AbortInv
  OBVIOUS
<1>1. /\ chain = <<>> /\ com.chain = <<>> /\ pc = "idle" /\ alt = {} /\ disc = <<>> /\ pushed = 0
      /\ View = com /\ com.txdb = txdb
      /\ \A t \in Tx : txdb[t] = 0 /\ altTxs[t] = 0
  BY DEF Init, View
<1>2. Chained(<<>>) /\ AllGood(<<>>)
  BY GenesisBranch DEF Chained, LastOf, AllGood
<1>3. TxExact(<<>>, txdb, {})
  BY <1>1 DEF TxExact
<1>4. LinkInv /\ HeadInv
  BY <1>1, <1>2, <1>3 DEF LinkInv, HeadInv, CurTxs
<1>5. HandInv /\ AbortInv /\ RouteInv /\ AltInv /\ AltBranchSpendsOnce
  BY <1>1 DEF HandInv, AbortInv, RouteInv, PathInv, DiscInv, PlaceInv, AltInv, AltData, AltBranchSpendsOnce,
     Switching, InCall, Building, Restoring
<1>6. AltTxsCount
  <2>1. \A t : { b \in {} : t \in TxSet(b) } = {}
    OBVIOUS
  <2> QED BY <1>1, <2>1, FS_EmptySet DEF AltTxsCount
<1> QED BY <1>4, <1>5, <1>6 DEF ReorgInv

LEMMA ReorgStep ==
  ASSUME IndInv, IndInv', ReorgInv, [Next]_vars
  PROVE  ReorgInv'
<1>1. LinkInv' /\ HeadInv'
  BY LinkStep DEF ReorgInv
<1>2. RouteInv'
  BY RouteStep DEF ReorgInv
<1>3. HandInv'
  BY <1>2, HandStep DEF ReorgInv
<1>4. AltInv'
  BY AltStep DEF ReorgInv
<1> QED BY <1>1, <1>2, <1>3, <1>4 DEF ReorgInv

\* At every step of a reorganisation and of its rollback the view is a part of one
\* of the two branches concerned, made of checked blocks, and what is needed to go
\* on or to go back is at hand.
THEOREM ReorganisationOnRoute == Spec => []ReorgInv
<1>1. Init => ReorgInv
  BY InitReorgInv
<1>2. IndInv /\ IndInv' /\ ReorgInv /\ [Next]_vars => ReorgInv'
  BY ReorgStep
<1> QED BY <1>1, <1>2, Invariance, PTL DEF Spec

\* Every transaction of a block that a reorganisation connects is at hand, on the
\* way forward and on the way back, whatever failed before.
THEOREM ConnectedBlockHasTxs == Spec => []SwitchHasTxs
<1>1. IndInv /\ ReorgInv => SwitchHasTxs
  BY TxsAtHand
<1> QED BY <1>1, Invariance, ReorganisationOnRoute, PTL

\* At every step of a switch that has not yet pushed an old block back, and at every
\* step of any switch when there is room for every block, the blocks that alt_chain
\* points to are still alternative blocks.
THEOREM IteratorsAlive == Spec => []LiveInv
<1>1. Init => LiveInv
  BY DEF Init, LiveInv, Switching, InCall
<1>2. IndInv /\ IndInv' /\ ReorgInv' /\ LiveInv /\ [Next]_vars => LiveInv'
  BY LiveStep DEF ReorgInv
<1> QED BY <1>1, <1>2, Invariance, ReorganisationOnRoute, PTL DEF Spec

\* With room for every block no block is pruned while a switch holds an iterator to
\* it, so that nothing is erased twice.
THEOREM RoomErasesOnce ==
  ASSUME Room
  PROVE  Spec => []ErasedOnce
<1>1. LiveInv => ErasedOnce
  BY DEF LiveInv, ErasedOnce, Switching
<1> QED BY <1>1, IteratorsAlive, PTL

\* Whatever is inserted, pruned, switched to, refused, cleared, aborted or restarted,
\* m_alternative_chains_txs goes from a right count to a right count, unless connected
\* blocks are erased through iterators that pruning has left dead.
THEOREM AltTxsCounted == Spec => AltTxsExact
<1>1. IndInv /\ LiveInv /\ [Next]_vars => [AltTxsCount /\ ErasedOnce => AltTxsCount']_vars
  BY AltTxsStep
<1> QED BY <1>1, Invariance, IteratorsAlive, PTL DEF Spec, AltTxsExact

\* Hence it counts exactly, as long as no dead iterator is erased through.
THEOREM AltTxsAlwaysCount == Spec /\ []ErasedOnce => []AltTxsCount
<1>1. Init => AltTxsCount
  BY InitReorgInv
<1>2. IndInv /\ LiveInv /\ ErasedOnce /\ AltTxsCount /\ [Next]_vars => AltTxsCount'
  BY AltTxsStep
<1> QED BY <1>1, <1>2, Invariance, IteratorsAlive, PTL DEF Spec

\* The branch of an alternative block spends no key image twice, neither within
\* the alternative blocks nor against the main chain below the split.
THEOREM AltBranchesSpendOnce == Spec => []AltBranchSpendsOnce
<1>1. Init => AltBranchSpendsOnce
  BY InitReorgInv
<1>2. IndInv /\ ReorgInv /\ AltBranchSpendsOnce /\ [Next]_vars => AltBranchSpendsOnce'
  <2>1. ReorgInv => LinkInv /\ AltData
    BY DEF ReorgInv, AltInv, AltData
  <2> QED BY <2>1, AltApartStep
<1> QED BY <1>1, <1>2, Invariance, ReorganisationOnRoute, PTL DEF Spec

\* As long as nothing throws or crashes, no step of the processing of a block makes
\* a transaction disappear from both the pool and the main chain; aborting the
\* database transaction, which the pool does not take part in, is such a step too.
THEOREM NoTransactionLost ==
  ASSUME Faults = {}
  PROVE  Spec => NoTxLost
<1>1. Init => AbortInv
  BY InitReorgInv
<1>2. IndInv /\ ReorgInv /\ AbortInv /\ [Next]_vars => AbortInv'
  <2>1. ReorgInv => LinkInv /\ RouteInv
    BY DEF ReorgInv
  <2> QED BY <2>1, AbortHandStep
<1>3. IndInv /\ ReorgInv /\ AbortInv /\ [Next]_vars =>
        [pc # "idle" => \A t \in Tx : t \in pool \/ txdb[t] # 0 => t \in pool' \/ txdb'[t] # 0]_vars
  <2> SUFFICES ASSUME IndInv, ReorgInv, AbortInv, [Next]_vars, pc # "idle",
                      NEW t \in Tx, t \in pool \/ txdb[t] # 0
               PROVE  t \in pool' \/ txdb'[t] # 0
    OBVIOUS
  <2>1. ~Crash
    BY DEF Crash
  <2>2. CASE ~Abort
    BY <2>1, <2>2, NothingDropped
  <2>3. CASE Abort
    <3>1. pc = "abort" /\ txdb' = com.txdb /\ pool' = pool
      BY <2>3 DEF Abort, Restore
    <3> QED BY <3>1 DEF AbortInv
  <2> QED BY <2>2, <2>3
<1> QED BY <1>1, <1>2, <1>3, Invariance, ReorganisationOnRoute, PTL DEF Spec, NoTxLost

-----------------------------------------------------------------------------
(***************************************************************************)
(* The fork choice, when every block adds to the cumulative difficulty.    *)
(***************************************************************************)
DifficultyGrows == \A b \in Block : CumDiff[Parent[b]] < CumDiff[b]

\* A minimal counterexample has a smaller one in its parent.
LEMMA GrowsAlong ==
  ASSUME DifficultyGrows, NEW b \in Block, NEW n \in 1..(Height(b) - 1)
  PROVE  CumDiff[Branch[b][n]] < CumDiff[b]
<1> DEFINE Bad(a) == \E i \in 1..(Height(a) - 1) : ~(CumDiff[Branch[a][i]] < CumDiff[a])
<1> DEFINE T == { m \in Nat : \E a \in Block : Height(a) = m /\ Bad(a) }
<1>1. T = {}
  <2> SUFFICES ASSUME T # {} PROVE FALSE
    OBVIOUS
  <2>1. PICK m \in T : \A k \in T : ~(k < m)
    BY LeastElement
  <2>2. PICK a \in Block : Height(a) = m /\ Bad(a)
    OBVIOUS
  <2>3. PICK i \in 1..(Height(a) - 1) : ~(CumDiff[Branch[a][i]] < CumDiff[a])
    BY <2>2
  <2> DEFINE p == Parent[a]
  <2> DEFINE h == Height(p)
  <2>4. /\ Branch[p] \in Seq(Block) /\ h \in Nat /\ m = h + 1
        /\ \A x \in 1..h : Branch[a][x] = Branch[p][x]
    <3>1. /\ Branch[p] \in Seq(Block) /\ Len(Branch[a]) = Len(Branch[p]) + 1
          /\ \A x \in 1..Len(Branch[p]) : Branch[a][x] = Branch[p][x]
      BY BranchFacts
    <3> QED BY <2>2, <3>1 DEF Height
  <2> HIDE DEF h
  <2>5. i \in 1..h
    BY <2>2, <2>4
  <2>6. p \in Block
    <3>1. p \in Block \cup {Genesis}
      BY BlockAssumption
    <3>2. p = Genesis => h = 0
      BY GenesisBranch DEF h, Height
    <3> QED BY <2>4, <2>5, <3>1, <3>2
  <2>7. Branch[p][h] = p
    BY <2>6, BranchFacts DEF h, Height
  <2>8. CumDiff[p] < CumDiff[a] /\ CumDiff[p] \in Nat /\ CumDiff[a] \in Nat
    BY <2>6, ParameterAssumption DEF DifficultyGrows
  <2>9. i \in 1..(h - 1)
    BY <2>3, <2>4, <2>5, <2>7, <2>8
  <2>10. CumDiff[Branch[p][i]] < CumDiff[p]
    <3>1. ~Bad(p)
      <4>1. h < m
        BY <2>4
      <4> QED BY <2>1, <2>4, <2>6, <4>1 DEF h
    <3> QED BY <2>9, <3>1 DEF h
  <2>11. CumDiff[Branch[p][i]] \in Nat
    <3>1. Branch[p][i] \in Block
      <4>1. h = Len(Branch[p])
        BY DEF h, Height
      <4> QED BY <2>4, <2>5, <4>1
    <3> QED BY <3>1, ParameterAssumption
  <2>12. ~(CumDiff[Branch[p][i]] < CumDiff[a])
    BY <2>3, <2>4, <2>5
  <2> DEFINE x == CumDiff[Branch[p][i]]
  <2> DEFINE y == CumDiff[p]
  <2> DEFINE z == CumDiff[a]
  <2>13. x \in Nat /\ y \in Nat /\ z \in Nat /\ x < y /\ y < z /\ ~(x < z)
    BY <2>8, <2>10, <2>11, <2>12
  <2> HIDE DEF x, y, z
  <2> QED BY <2>13
<1>2. ~Bad(b)
  <2>1. Height(b) \in Nat
    BY HeightType
  <2> QED BY <1>1, <2>1
<1> QED BY <1>2

LEMMA PushNeedsNoSwitch ==
  ASSUME DifficultyGrows, IndInv, ReorgInv
  PROVE  NoRecursiveReorganize
<1> DEFINE b == disc[pushed + 1]
<1> SUFFICES ASSUME pc = "push", pushed < Len(disc) PROVE ~ReorganizeRequired(Top, b)
  BY DEF NoRecursiveReorganize
<1> DEFINE s == SplitHeight
<1> DEFINE l == Len(com.chain)
<1> DEFINE m == LastOf(com.chain)
<1>1. RouteInv /\ Switching /\ pc # "pop"
  BY DEF ReorgInv, Switching
<1>2. /\ Tip \in Block /\ Branch[Tip] \in Seq(Block) /\ Height(Tip) = Len(Branch[Tip])
      /\ ReorganizeRequired(m, Tip) /\ s \in Nat \ {0} /\ l \in Nat /\ com.chain \in Seq(Block)
      /\ pushed \in Nat /\ Len(disc) \in Nat /\ chain \in Seq(Block) /\ Len(chain) \in Nat
  BY <1>1, RouteFacts, IndTypes
\* The top of the view is the tip of the branch.
<1>3. Top = Tip
  <2>1. Prefix(chain, Branch[Tip]) /\ Len(chain) = Height(Tip)
    BY <1>1 DEF RouteInv, PlaceInv
  <2>2. chain = Branch[Tip]
    BY <1>2, <2>1, SameSeq DEF Prefix
  <2> QED BY <1>2, <2>2, BranchChained, TopIsLast
\* The pushed block is one of the old chain.
<1>4. PICK n \in 1..l : b = com.chain[n]
  <2>1. Len(disc) = l - s + 1 /\ \A i \in 1..Len(disc) : disc[i] = com.chain[s - 1 + i]
    BY <1>1 DEF RouteInv, DiscInv
  <2> HIDE DEF s, l
  <2>2. pushed + 1 \in 1..Len(disc) /\ s - 1 + (pushed + 1) \in 1..l
    BY <1>2, <2>1
  <2> QED BY <2>1, <2>2
<1>5. m \in Block /\ b \in Block /\ com.chain = Branch[m] /\ m = com.chain[l] /\ l > 0
  <2>1. l > 0 /\ b \in Block
    BY <1>2, <1>4
  <2>2. m \in Block /\ m = com.chain[l]
    BY <1>2, <2>1, LastOfType
  <2> QED BY <2>1, <2>2 DEF ReorgInv, LinkInv, Chained
<1>6. b = m \/ CumDiff[b] < CumDiff[m]
  <2>1. n = l \/ n \in 1..(l - 1)
    BY <1>2, <1>4
  <2>2. l = Height(m)
    BY <1>5 DEF Height
  <2> QED BY <1>4, <1>5, <2>1, <2>2, GrowsAlong
<1>7. CumDiff[b] \in Nat /\ CumDiff[m] \in Nat /\ CumDiff[Tip] \in Nat /\ Proof[m] \in Nat /\ Proof[Tip] \in Nat
  BY <1>2, <1>5, ParameterAssumption
<1> HIDE DEF b, m, s, l
<1>8. \/ CumDiff[m] < CumDiff[Tip]
      \/ CumDiff[m] = CumDiff[Tip] /\ Proof[m] < Proof[Tip]
  BY <1>2 DEF ReorganizeRequired
<1>9. ~(CumDiff[Tip] < CumDiff[b]) /\ (CumDiff[Tip] = CumDiff[b] => ~(Proof[Tip] < Proof[b]))
  BY <1>6, <1>7, <1>8
<1> QED BY <1>3, <1>9 DEF ReorganizeRequired

\* When every block adds to the cumulative difficulty, pushing the old chain back as
\* an alternative one never asks for a second reorganisation.
THEOREM NoSecondReorganisation ==
  ASSUME DifficultyGrows
  PROVE  Spec => []NoRecursiveReorganize
<1>1. IndInv /\ ReorgInv => NoRecursiveReorganize
  BY PushNeedsNoSwitch
<1> QED BY <1>1, Invariance, ReorganisationOnRoute, PTL

-----------------------------------------------------------------------------
(***************************************************************************)
(* The rollback, when the clock is never set back: every block of the old  *)
(* chain passes its checks again.                                          *)
(***************************************************************************)
Steady == [][clock <= clock']_vars

Stamped(c, now) == \A i \in 1..Len(c) : Timestamp[c[i]] <= now

LEMMA ClockForward ==
  ASSUME IndInv, IndInv', [clock <= clock']_vars
  PROVE  clock \in Nat /\ clock' \in Nat /\ clock <= clock'
<1>1. clock \in Nat /\ clock' \in Nat
  BY ParameterAssumption DEF IndInv, TypeOK
<1> QED BY <1>1 DEF vars

LEMMA StampedPart ==
  ASSUME NEW c \in Seq(Block), NEW n \in 0..Len(c), NEW now, Stamped(c, now)
  PROVE  Stamped(SubSeq(c, 1, n), now)
<1>1. Len(SubSeq(c, 1, n)) = n /\ \A i \in 1..n : SubSeq(c, 1, n)[i] = c[i] /\ i \in 1..Len(c)
  OBVIOUS
<1> QED BY <1>1 DEF Stamped

LEMMA StampedAppend ==
  ASSUME NEW c \in Seq(Block), NEW b \in Block, NEW now, Stamped(c, now), Timestamp[b] <= now
  PROVE  Stamped(Append(c, b), now)
<1>1. /\ Len(Append(c, b)) = Len(c) + 1 /\ Append(c, b)[Len(c) + 1] = b
      /\ \A i \in 1..Len(c) : Append(c, b)[i] = c[i]
      /\ \A i \in 1..(Len(c) + 1) : i \in 1..Len(c) \/ i = Len(c) + 1
  OBVIOUS
<1> QED BY <1>1 DEF Stamped

LEMMA StampedLater ==
  ASSUME NEW c \in Seq(Block), NEW now \in Nat, NEW then \in Nat, now <= then, Stamped(c, now)
  PROVE  Stamped(c, then)
<1>1. ASSUME NEW i \in 1..Len(c) PROVE Timestamp[c[i]] <= then
  <2>1. c[i] \in Block
    OBVIOUS
  <2>2. Timestamp[c[i]] \in Nat /\ Timestamp[c[i]] <= now
    BY <2>1, ParameterAssumption DEF Stamped
  <2> QED BY <2>2
<1> QED BY <1>1 DEF Stamped

LEMMA StampStep ==
  ASSUME IndInv, IndInv', StampInv, [Next]_vars, [clock <= clock']_vars
  PROVE  StampInv'
<1>1. /\ chain \in Seq(Block) /\ com.chain \in Seq(Block) /\ Len(chain) \in Nat
      /\ chain' \in Seq(Block) /\ com'.chain \in Seq(Block)
  BY IndTypes DEF IndInv, TypeOK, View, Ledgers
<1>2. clock \in Nat /\ clock' \in Nat /\ clock <= clock'
  BY ClockForward
<1>3. Stamped(chain, clock) /\ Stamped(com.chain, clock)
  BY DEF StampInv, Stamped
<1>4. Stamped(chain, clock') /\ Stamped(com.chain, clock')
  BY <1>1, <1>2, <1>3, StampedLater
<1>5. ASSUME NEW b \in Block, Timestamp[b] <= clock PROVE Timestamp[b] <= clock'
  <2>1. Timestamp[b] \in Nat
    BY ParameterAssumption
  <2> QED BY <1>2, <1>5, <2>1
\* The block in progress.
<1>6. ASSUME pc' = "txs" PROVE Timestamp[cur'] <= clock'
  <2>1. cur' \in Block
    BY <1>6 DEF IndInv, TypeOK
  <2>2. CASE pc = "txs" /\ cur' = cur
    BY <1>5, <2>1, <2>2 DEF StampInv
  <2>3. CASE EnterBlock
    <3>1. cur' = cur /\ HeaderOk(cur)
      <4>1. InCall /\ cur' = cur
        BY <2>3 DEF EnterBlock, InCall, call
      <4>2. mode \in {"main", "sim", "switch", "restore"}
        BY <4>1 DEF IndInv, SwitchInv, TypeOK, Modes
      <4>3. Returned(FALSE) # "txs"
        BY <4>2, ReturnedValue
      <4> QED BY <1>6, <2>3, <4>1, <4>3 DEF EnterBlock
    <3> QED BY <1>5, <2>1, <3>1 DEF HeaderOk, CheckTimestamp
  <2>4. CASE Disconnect \/ RollbackPop \/ RejectTx \/ UndoTx \/ Commit \/ Abort \/ Crash
    <3>1. pc' \in {"pop", "rollback", "undo", "idle"}
      BY <2>4 DEF Disconnect, RollbackPop, RejectTx, UndoTx, Commit, Abort, Crash, Idle
    <3> QED BY <1>6, <3>1
  <2>5. CASE ProcessTx
    BY <2>2, <2>5 DEF ProcessTx
  <2>6. CASE FinishBlock \/ UndoCoinbase
    <3>1. InCall /\ (pc' = "undo" \/ pc' = Returned(TRUE) \/ pc' = Returned(FALSE))
      BY <2>6 DEF FinishBlock, UndoCoinbase, InCall
    <3>2. mode \in {"main", "sim", "switch", "restore"}
      BY <3>1 DEF IndInv, SwitchInv, TypeOK, Modes
    <3> QED BY <1>6, <3>1, <3>2, ReturnedValue
  <2>7. ASSUME NEW n \in TruncateTo, TruncateBlockchain(n) PROVE FALSE
    BY <1>6, <2>7 DEF TruncateBlockchain
  <2>8. CASE Quiet
    BY <1>6, <2>2, <2>8 DEF Quiet
  <2> QED BY <2>3, <2>4, <2>5, <2>6, <2>7, <2>8, MovesOrQuiet DEF Moves
\* The two chains.
<1>7. Stamped(chain', clock') /\ Stamped(com'.chain, clock')
  <2>1. CASE chain' = chain /\ com' = com
    BY <1>4, <2>1
  <2>2. CASE Disconnect \/ RollbackPop
    <3>1. chain' = SubSeq(chain, 1, Len(chain) - 1) /\ com' = com
      BY <2>2 DEF Disconnect, RollbackPop, PopBlock
    <3>2. Len(chain) - 1 \in 0..Len(chain)
      <4>1. Switching
        BY <2>2 DEF Disconnect, RollbackPop, Switching
      <4>2. SplitHeight \in Nat \ {0} /\ Len(chain) >= SplitHeight
        BY <2>2, <4>1 DEF Disconnect, RollbackPop, AboveSplit, IndInv, SwitchInv
      <4> QED BY <1>1, <4>2
    <3> QED BY <1>1, <1>4, <3>1, <3>2, StampedPart
  <2>3. CASE EnterBlock \/ ProcessTx \/ RejectTx \/ UndoTx \/ UndoCoinbase
    BY <2>1, <2>3 DEF EnterBlock, ProcessTx, RejectTx, UndoTx, UndoCoinbase, db
  <2>4. CASE FinishBlock
    <3>1. pc = "txs" /\ com' = com /\ (chain' = chain \/ chain' = Append(chain, cur)) /\ cur \in Block
      BY <2>4 DEF FinishBlock, IndInv, TypeOK
    <3>2. Timestamp[cur] <= clock'
      BY <1>5, <3>1 DEF StampInv
    <3> QED BY <1>1, <1>4, <3>1, <3>2, StampedAppend
  <2>5. CASE Commit
    BY <1>4, <2>5 DEF Commit, View, db
  <2>6. CASE Abort \/ Crash
    BY <1>4, <2>6 DEF Abort, Crash, Restore
  <2>7. ASSUME NEW n \in TruncateTo, TruncateBlockchain(n)
        PROVE  Stamped(chain', clock') /\ Stamped(com'.chain, clock')
    <3>1. chain' = SubSeq(chain, 1, n) /\ com'.chain = chain' /\ n < Len(chain)
      BY <2>7 DEF TruncateBlockchain
    <3>2. n \in 0..Len(chain)
      BY <1>1, <3>1, ParameterAssumption
    <3> QED BY <1>1, <1>4, <3>1, <3>2, StampedPart
  <2>8. CASE Quiet
    BY <2>1, <2>8 DEF Quiet
  <2> QED BY <2>2, <2>3, <2>4, <2>5, <2>6, <2>7, <2>8, MovesOrQuiet DEF Moves
<1> QED BY <1>6, <1>7 DEF StampInv, Stamped

\* The block of the old chain that a rollback connects next.
LEMMA RestoreFacts ==
  ASSUME IndInv, ReorgInv, InCall, mode = "restore"
  PROVE  /\ cur \in Block /\ Len(chain) + 1 \in 1..Len(com.chain) /\ cur = com.chain[Len(chain) + 1]
         /\ Prefix(chain, com.chain) /\ Good(cur, Len(chain) + 1) /\ SpendsOnce(cur)
         /\ Parent[cur] = Top
<1> DEFINE n == Len(chain)
<1> DEFINE c == com.chain
<1>1. /\ cur \in Block /\ c \in Seq(Block) /\ chain \in Seq(Block) /\ n \in Nat /\ Len(c) \in Nat
  BY IndTypes DEF IndInv, TypeOK, InCall
<1>2. n < Len(c) /\ cur = c[n + 1] /\ Prefix(chain, c)
  BY DEF ReorgInv, RouteInv, PlaceInv, Restoring
<1>3. n + 1 \in 1..Len(c)
  BY <1>1, <1>2
<1>4. Good(cur, n + 1) /\ SpendsOnce(cur)
  BY <1>2, <1>3 DEF ReorgInv, LinkInv, AllGood, IndInv, ComInv, EachOnce
<1>5. Parent[cur] = Top
  <2> DEFINE p == Parent[cur]
  <2>1. Chained(c)
    BY DEF ReorgInv, LinkInv
  <2>2. LastOf(c) \in Block /\ c = Branch[LastOf(c)]
    BY <1>1, <1>3, <2>1, LastOfType DEF Chained
  <2>3. Len(Branch[cur]) = n + 1 /\ \A i \in 1..(n + 1) : Branch[cur][i] = c[i]
    <3>1. Prefix(Branch[c[n + 1]], c) /\ Len(Branch[c[n + 1]]) = n + 1
      BY <1>3, <2>2, BranchPrefix
    <3> QED BY <1>2, <3>1 DEF Prefix
  <2>4. /\ p \in Block \cup {Genesis} /\ Len(Branch[cur]) = Len(Branch[p]) + 1
        /\ Branch[p] \in Seq(Block)
        /\ \A i \in 1..Len(Branch[p]) : Branch[cur][i] = Branch[p][i]
    BY <1>1, BranchFacts, BlockAssumption
  <2>5. Len(Branch[p]) = n
    <3> HIDE DEF n
    <3>1. Len(Branch[p]) \in Nat
      BY <2>4
    <3> QED BY <1>1, <2>3, <2>4, <3>1
  <2>6. CASE n = 0
    <3>1. p = Genesis
      <4>1. p \in Block => Len(Branch[p]) # 0
        BY HeightType DEF Height
      <4> QED BY <2>4, <2>5, <2>6, <4>1
    <3>2. chain = <<>>
      BY <1>1, <2>6
    <3> QED BY <3>1, <3>2 DEF Top
  <2>7. CASE n > 0
    <3>1. p \in Block
      BY <2>4, <2>5, <2>7, GenesisBranch
    <3>2. Branch[p][n] = p
      BY <2>5, <3>1, BranchFacts
    <3>3. n \in 1..n /\ n \in 1..(n + 1)
      BY <1>1, <2>7
    <3>4. Branch[p][n] = c[n] /\ c[n] = chain[n]
      BY <1>2, <2>3, <2>4, <2>5, <3>3 DEF Prefix
    <3>5. Top = chain[n]
      BY <1>1, <2>7 DEF Top
    <3> QED BY <3>2, <3>4, <3>5
  <2> QED BY <1>1, <2>6, <2>7
<1> QED BY <1>1, <1>2, <1>3, <1>4, <1>5

\* Its key images are free, but for those it has recorded itself.
LEMMA RestoredKeysFree ==
  ASSUME IndInv, ReorgInv, InCall, mode = "restore", NEW k \in KiOf(cur), k \notin CurKi
  PROVE  spent[k] = 0
<1> DEFINE n == Len(chain)
<1> DEFINE c == com.chain
<1>1. /\ cur \in Block /\ n + 1 \in 1..Len(c) /\ cur = c[n + 1] /\ Prefix(chain, c)
  BY RestoreFacts
<1>2. /\ n \in Nat /\ Len(c) \in Nat /\ spent \in [Ki -> Nat] /\ k \in Ki
  BY <1>1, IndTypes, KiOfType
<1>3. com.spent[k] = n + 1
  BY <1>1 DEF IndInv, ComInv, Exact
<1>4. Exact(chain, spent, CurKi)
  BY DEF IndInv, ViewInv, InCall
<1>5. ASSUME spent[k] # 0 PROVE FALSE
  <2> DEFINE j == spent[k]
  <2>1. j \in 1..n /\ k \in KiOf(chain[j])
    BY <1>2, <1>4, <1>5 DEF Exact
  <2>2. j \in 1..Len(c) /\ k \in KiOf(c[j])
    BY <1>1, <1>2, <2>1 DEF Prefix
  <2>3. com.spent[k] = j
    BY <2>2 DEF IndInv, ComInv, Exact
  <2> QED BY <1>2, <1>3, <2>1, <2>3
<1> QED BY <1>5

LEMMA RestoredHeaderOk ==
  ASSUME IndInv, ReorgInv, StampInv, pc = "enter", mode = "restore"
  PROVE  HeaderOk(cur)
<1>1. InCall /\ CurKi = {}
  BY DEF InCall, CurKi
<1>2. /\ cur \in Block /\ Len(chain) + 1 \in 1..Len(com.chain) /\ cur = com.chain[Len(chain) + 1]
      /\ Good(cur, Len(chain) + 1) /\ Parent[cur] = Top
  BY <1>1, RestoreFacts
<1>3. CheckTimestamp(cur)
  BY <1>2 DEF StampInv, CheckTimestamp
<1>4. \A k \in Stake[cur] : spent[k] = 0
  <2>1. Stake[cur] \subseteq KiOf(cur)
    BY DEF KiOf
  <2> QED BY <1>1, <2>1, RestoredKeysFree
<1> QED BY <1>2, <1>3, <1>4 DEF HeaderOk, Good, GoodHeader

LEMMA RestoredTxPasses ==
  ASSUME IndInv, ReorgInv, pc = "txs", mode = "restore", done < Len(TxsOf[cur])
  PROVE  CurTx \in onb \cup pool /\ ProofsOk(CurTx) /\ InputsOk(CurTx) /\ txdb[CurTx] = 0
<1>1. InCall /\ CurKi = SpentBy(cur, done)
  BY DEF InCall, CurKi
<1>2. cur \in Block /\ Good(cur, Len(chain) + 1) /\ SpendsOnce(cur)
  BY <1>1, RestoreFacts
<1>3. done \in Nat /\ TxsOf[cur] \in Seq(Tx) /\ Len(TxsOf[cur]) \in Nat
  BY <1>2, TxSetMember DEF IndInv, TypeOK
<1>4. done + 1 \in 1..Len(TxsOf[cur])
  BY <1>3
<1>5. GoodTx(CurTx, Len(chain) + 1)
  BY <1>2, <1>4 DEF Good, CurTx
<1>6. ASSUME NEW k \in KiTx[CurTx] PROVE spent[k] = 0
  <2>1. k \in KiOf(cur)
    BY <1>2, <1>4, KiOfMember DEF CurTx
  <2>2. k \notin SpentBy(cur, done)
    <3>1. ASSUME k \in Stake[cur] PROVE FALSE
      BY <1>2, <1>4, <3>1 DEF SpendsOnce, CurTx
    <3>2. ASSUME NEW i \in 1..done, k \in KiTx[TxsOf[cur][i]] PROVE FALSE
      <4>1. i \in 1..Len(TxsOf[cur]) /\ i # done + 1
        BY <1>3
      <4> QED BY <1>2, <1>4, <3>2, <4>1 DEF SpendsOnce, CurTx
    <3> QED BY <3>1, <3>2 DEF SpentBy
  <2> QED BY <1>1, <2>1, <2>2, RestoredKeysFree
<1> QED BY <1>5, <1>6, RestoredTx DEF GoodTx, ProofsOk, InputsOk

\* So the processing of a block of the old chain never fails.
LEMMA RestoreNeverFails ==
  ASSUME IndInv, ReorgInv, StampInv, mode = "restore"
  PROVE  ~RejectTx /\ (EnterBlock => pc' = "txs") /\ (FinishBlock => pc' = "restored")
<1>1. ASSUME RejectTx PROVE FALSE
  <2>1. pc = "txs" /\ done < Len(TxsOf[cur])
    BY <1>1 DEF RejectTx
  <2>2. CurTx \in onb \cup pool /\ ProofsOk(CurTx) /\ InputsOk(CurTx) /\ txdb[CurTx] = 0
    BY <2>1, RestoredTxPasses
  <2> QED BY <1>1, <2>2 DEF RejectTx
<1>2. ASSUME EnterBlock PROVE pc' = "txs"
  <2>1. HeaderOk(cur)
    BY <1>2, RestoredHeaderOk DEF EnterBlock
  <2> QED BY <1>2, <2>1 DEF EnterBlock
<1>3. ASSUME FinishBlock PROVE pc' = "restored"
  <2>1. InCall
    BY <1>3 DEF FinishBlock, InCall
  <2>2. LateChecks(cur) /\ DeclaredSizeOk(cur)
    BY <2>1, RestoreFacts DEF Good
  <2> QED BY <1>3, <2>2, ReturnedValue DEF FinishBlock
<1> QED BY <1>1, <1>2, <1>3

\* The chain that the last step of a successful switch leaves.
LEMMA SwitchedChain ==
  ASSUME IndInv, ReorgInv, pc = "push"
  PROVE  /\ Tip \in Block /\ chain = Branch[Tip] /\ ReorganizeRequired(LastOf(com.chain), Tip)
         /\ Len(chain) = Height(Tip)
<1>1. RouteInv /\ Switching
  BY DEF ReorgInv, Switching
<1>2. /\ Tip \in Block /\ Branch[Tip] \in Seq(Block) /\ Height(Tip) = Len(Branch[Tip])
      /\ ReorganizeRequired(LastOf(com.chain), Tip) /\ chain \in Seq(Block)
  BY <1>1, RouteFacts, IndTypes
<1>3. Prefix(chain, Branch[Tip]) /\ Len(chain) = Height(Tip)
  BY <1>1 DEF RouteInv, PlaceInv
<1>4. chain = Branch[Tip]
  BY <1>2, <1>3, SameSeq DEF Prefix
<1> QED BY <1>2, <1>3, <1>4

\* The ways to the commit.
LEMMA CommitSteps ==
  ASSUME IndInv, ReorgInv, StampInv, CommitInv, [Next]_vars, pc' = "commit"
  PROVE  /\ com' = com
         /\ \/ /\ chain = com.chain /\ (chain' = chain \/ chain' = Append(chain, cur))
               /\ (chain' = Append(chain, cur) => cur \in Block /\ Parent[cur] = LastOf(com.chain))
            \/ pc = "push" /\ chain' = chain
            \/ pc = "commit" /\ chain' = chain
<1>1. com' = com
  BY CallSteps
<1> DEFINE P == \/ /\ chain = com.chain /\ (chain' = chain \/ chain' = Append(chain, cur))
                   /\ (chain' = Append(chain, cur) => cur \in Block /\ Parent[cur] = LastOf(com.chain))
                \/ pc = "push" /\ chain' = chain
                \/ pc = "commit" /\ chain' = chain
<1> SUFFICES P
  BY <1>1
<1>2. ASSUME chain' = chain, chain = com.chain PROVE P
  <2>1. chain \in Seq(Block)
    BY IndTypes
  <2>2. chain # Append(chain, cur)
    <3>1. Len(chain) \in Nat /\ Len(Append(chain, cur)) = Len(chain) + 1
      BY <2>1, AppendProperties
    <3> QED BY <3>1
  <2> QED BY <1>2, <2>2
<1>3. ASSUME NEW b \in Block, ReceiveMain(b) PROVE FALSE
  BY <1>3 DEF ReceiveMain, Call
<1>4. ASSUME NEW b \in Block, ReceiveAlt(b) PROVE P
  <2>1. pc = "idle" /\ chain' = chain
    BY <1>4 DEF ReceiveAlt, db
  <2>2. chain = com.chain
    BY <2>1 DEF ReorgInv, RouteInv, PlaceInv, View
  <2> QED BY <1>2, <2>1, <2>2
<1>5. CASE EraseConnected
  <2>1. (pc = "push" \/ pc = "erase") /\ chain' = chain
    BY <1>5 DEF EraseConnected, db
  <2>2. pc = "erase" => chain = com.chain
    BY DEF CommitInv
  <2> QED BY <1>2, <2>1, <2>2
<1>6. CASE \/ Disconnect \/ ConnectNext \/ StartPush \/ PushExMain \/ RollbackPop \/ RollbackConnect
           \/ SwitchFailed \/ SwitchPretended \/ ProcessTx \/ RejectTx \/ UndoTx
           \/ Commit \/ Abort \/ Crash \/ Throw \/ ThrowPush
  <2>1. CASE Disconnect \/ ConnectNext \/ StartPush \/ PushExMain \/ RollbackPop \/ RollbackConnect
    BY <2>1 DEF Disconnect, ConnectNext, StartPush, PushExMain, RollbackPop, RollbackConnect, Call
  <2>2. CASE SwitchFailed \/ SwitchPretended \/ ProcessTx \/ RejectTx \/ UndoTx
    BY <2>2 DEF SwitchFailed, SwitchPretended, ProcessTx, RejectTx, UndoTx
  <2>3. CASE Commit \/ Abort \/ Crash \/ Throw \/ ThrowPush
    BY <2>3 DEF Commit, Abort, Crash, Throw, ThrowPush, Idle
  <2> QED BY <1>6, <2>1, <2>2, <2>3
<1>7. CASE EnterBlock \/ UndoCoinbase \/ FinishBlock
  <2>1. InCall /\ cur \in Block
    BY <1>7 DEF EnterBlock, UndoCoinbase, FinishBlock, InCall, IndInv, TypeOK
  <2>2. mode \in {"main", "sim", "switch", "restore"}
    BY <2>1 DEF IndInv, SwitchInv, TypeOK, Modes
  <2>3. FinishBlock /\ mode = "main"
    BY <1>7, <2>2, ReturnedValue DEF EnterBlock, UndoCoinbase, FinishBlock
  <2>4. chain' = Append(chain, cur) /\ pc = "txs"
    BY <2>3 DEF FinishBlock
  <2>5. chain = com.chain
    BY <2>1, <2>3 DEF ReorgInv, RouteInv, PlaceInv
  <2>6. Parent[cur] = LastOf(com.chain)
    BY <2>4, <2>5, TopIsLast DEF ReorgInv, HeadInv
  <2> QED BY <2>1, <2>4, <2>5, <2>6
<1>8. ASSUME NEW t \in Tx, IncomingTx(t) \/ RemoveStuck(t) PROVE P
  BY <1>8 DEF IncomingTx, RemoveStuck, db
<1>9. CASE ClearAltblocks \/ PruneAltBlocks \/ SetClock \/ UNCHANGED vars
  BY <1>9 DEF ClearAltblocks, PruneAltBlocks, SetClock, vars, db
<1>10. ASSUME NEW n \in TruncateTo, TruncateBlockchain(n) PROVE FALSE
  BY <1>10 DEF TruncateBlockchain
<1> HIDE DEF P
<1>11. CASE BlockThread
  BY <1>5, <1>6, <1>7, <1>11 DEF BlockThread
<1> QED BY <1>3, <1>4, <1>6, <1>8, <1>9, <1>10, <1>11, Zenon DEF Next

LEMMA OutcomeStep ==
  ASSUME IndInv, ReorgInv, StampInv, CommitInv, [Next]_vars
  PROVE  CommitInv'
\* A commit.
<1>1. ASSUME pc' = "commit" PROVE Outcome'
  <2>1. CASE chain = com.chain /\ chain' = chain /\ com' = com
    BY <2>1 DEF Outcome
  <2>2. CASE /\ com' = com /\ chain = com.chain /\ chain' = Append(chain, cur) /\ cur \in Block
             /\ Parent[cur] = LastOf(com.chain)
    BY <2>2 DEF Outcome, LastOf
  <2>3. CASE pc = "push" /\ chain' = chain /\ com' = com
    <3>1. Tip \in Block /\ chain = Branch[Tip] /\ ReorganizeRequired(LastOf(com.chain), Tip)
      BY <2>3, SwitchedChain
    <3>2. \E b \in Block : ReorganizeRequired(LastOf(com.chain), b) /\ chain' = Branch[b]
      BY <2>3, <3>1
    <3>3. LastOf(com'.chain) = LastOf(com.chain)
      BY <2>3
    <3> QED BY <3>2, <3>3 DEF Outcome, ReorganizeRequired, IsPos
  <2>4. CASE pc = "commit" /\ chain' = chain /\ com' = com
    BY <2>4 DEF CommitInv, Outcome, LastOf, ReorganizeRequired, IsPos
  <2> QED BY <1>1, <2>1, <2>2, <2>3, <2>4, CommitSteps
\* A rollback.
<1>2. /\ pc' = "undo" => mode' # "restore"
      /\ pc' \in {"rolledback", "erase"} => chain' = com'.chain
  <2> DEFINE P == /\ pc' = "undo" => mode' # "restore"
                  /\ pc' \in {"rolledback", "erase"} => chain' = com'.chain
  <2> SUFFICES P
    OBVIOUS
  <2>1. ASSUME pc' = pc, mode' = mode, chain' = chain, com' = com PROVE P
    BY <2>1 DEF CommitInv
  <2>2. ASSUME NEW b \in Block, ReceiveMain(b) \/ ReceiveAlt(b) PROVE P
    BY <2>2 DEF ReceiveMain, ReceiveAlt, Call
  <2>3. CASE Disconnect \/ ConnectNext \/ StartPush \/ PushExMain \/ RollbackPop \/ EraseConnected
    BY <2>3 DEF Disconnect, ConnectNext, StartPush, PushExMain, RollbackPop, EraseConnected, Call
  <2>4. CASE RollbackConnect
    <3>1. chain' = chain /\ com' = com /\ pc' \in {"enter", "rolledback"}
      BY <2>4 DEF RollbackConnect, Call, db
    <3>2. Prefix(chain, com.chain) /\ (pc' = "rolledback" => Len(chain) = Len(com.chain))
      BY <2>4, RollbackConnectRoute DEF ReorgInv
    <3>3. chain \in Seq(Block) /\ com.chain \in Seq(Block)
      BY IndTypes
    <3>4. pc' = "rolledback" => chain = com.chain
      BY <3>2, <3>3, SameSeq DEF Prefix
    <3> QED BY <3>1, <3>4
  <2>5. CASE SwitchFailed \/ SwitchPretended
    BY <2>5 DEF SwitchFailed, SwitchPretended, CommitInv, db
  <2>6. CASE EnterBlock \/ UndoCoinbase \/ FinishBlock \/ RejectTx \/ ProcessTx \/ UndoTx
    <3>1. InCall /\ mode' = mode
      BY <2>6 DEF EnterBlock, UndoCoinbase, FinishBlock, RejectTx, ProcessTx, UndoTx, InCall, call
    <3>2. mode \in {"main", "sim", "switch", "restore"}
      BY <3>1 DEF IndInv, SwitchInv, TypeOK, Modes
    <3>3. CASE mode # "restore"
      <4>1. \/ pc' \in {"txs", "undo"}
            \/ pc' = Returned(FALSE) \/ pc' = Returned(TRUE)
        BY <2>6 DEF EnterBlock, UndoCoinbase, FinishBlock, RejectTx, ProcessTx, UndoTx
      <4> QED BY <3>1, <3>2, <3>3, <4>1, ReturnedValue
    <3>4. CASE mode = "restore"
      <4>1. pc # "undo"
        BY <3>4 DEF CommitInv
      <4>2. ~UndoCoinbase /\ ~UndoTx
        BY <4>1 DEF UndoCoinbase, UndoTx
      <4>3. pc' \in {"txs", "restored"}
        BY <2>6, <3>4, <4>2, RestoreNeverFails DEF ProcessTx
      <4> QED BY <4>3
    <3> QED BY <3>3, <3>4
  <2>7. CASE Commit \/ Abort \/ Crash \/ Throw \/ ThrowPush
    BY <2>7 DEF Commit, Abort, Crash, Throw, ThrowPush, Idle
  <2>8. ASSUME NEW t \in Tx, IncomingTx(t) \/ RemoveStuck(t) PROVE P
    BY <2>1, <2>8 DEF IncomingTx, RemoveStuck, db, call
  <2>9. CASE ClearAltblocks \/ PruneAltBlocks \/ SetClock \/ UNCHANGED vars
    BY <2>1, <2>9 DEF ClearAltblocks, PruneAltBlocks, SetClock, vars, db, call
  <2>10. ASSUME NEW n \in TruncateTo, TruncateBlockchain(n) PROVE P
    BY <2>10 DEF TruncateBlockchain
  <2> HIDE DEF P
  <2>11. CASE BlockThread
    BY <2>3, <2>4, <2>5, <2>6, <2>7, <2>11 DEF BlockThread
  <2> QED BY <2>2, <2>7, <2>8, <2>9, <2>10, <2>11, Zenon DEF Next
<1> QED BY <1>1, <1>2 DEF CommitInv

\* How a reorganisation is entered and goes on.
LEMMA SwitchSteps ==
  ASSUME IndInv, [Next]_vars, Switching'
  PROVE  \/ \E b \in Block : ReceiveAlt(b) /\ pc' = "pop"
         \/ Switching /\ path' = path
<1>1. ASSUME NEW b \in Block, ReceiveMain(b) PROVE FALSE
  BY <1>1 DEF ReceiveMain, Call, Switching, InCall
<1>2. ASSUME NEW b \in Block, ReceiveAlt(b) PROVE ReceiveAlt(b) /\ pc' = "pop"
  BY <1>2 DEF ReceiveAlt, Switching, InCall
<1>3. CASE \/ Disconnect \/ ConnectNext \/ StartPush \/ PushExMain \/ RollbackPop \/ RollbackConnect
           \/ SwitchPretended \/ ThrowPush
  BY <1>3 DEF Disconnect, ConnectNext, StartPush, PushExMain, RollbackPop, RollbackConnect,
     SwitchPretended, ThrowPush, Switching, switch
<1>4. CASE EraseConnected \/ SwitchFailed \/ Commit \/ Abort \/ Throw \/ Crash
  <2>1. pc' \in {"commit", "abort", "idle"}
    BY <1>4 DEF EraseConnected, SwitchFailed, Commit, Abort, Throw, Crash, Idle
  <2> QED BY <2>1 DEF Switching, InCall
<1>5. CASE EnterBlock \/ ProcessTx \/ RejectTx \/ FinishBlock \/ UndoTx \/ UndoCoinbase
  <2>1. InCall /\ mode' = mode /\ path' = path
    BY <1>5 DEF EnterBlock, ProcessTx, RejectTx, FinishBlock, UndoTx, UndoCoinbase, InCall, call, switch
  <2>2. InCall' \/ pc' = Returned(FALSE) \/ pc' = Returned(TRUE)
    BY <1>5 DEF EnterBlock, ProcessTx, RejectTx, FinishBlock, UndoTx, UndoCoinbase, InCall
  <2>3. mode \in {"main", "sim", "switch", "restore"}
    BY <2>1 DEF IndInv, SwitchInv, TypeOK, Modes
  <2>4. mode \in {"switch", "restore"}
    BY <2>1, <2>2, <2>3, ReturnedValue DEF Switching, InCall
  <2> QED BY <2>1, <2>4 DEF Switching
<1>6. ASSUME NEW t \in Tx, IncomingTx(t) \/ RemoveStuck(t) PROVE Switching /\ path' = path
  BY <1>6 DEF IncomingTx, RemoveStuck, call, switch, Switching, InCall
<1>7. CASE ClearAltblocks \/ PruneAltBlocks \/ SetClock \/ UNCHANGED vars
  BY <1>7 DEF ClearAltblocks, PruneAltBlocks, SetClock, vars, call, switch, Switching, InCall
<1>8. ASSUME NEW n \in TruncateTo, TruncateBlockchain(n) PROVE FALSE
  BY <1>8 DEF TruncateBlockchain, Switching, InCall
<1>9. CASE BlockThread
  BY <1>3, <1>4, <1>5, <1>9 DEF BlockThread
<1> QED BY <1>1, <1>2, <1>3, <1>4, <1>6, <1>7, <1>8, <1>9, Zenon DEF Next

LEMMA CheckpointStep ==
  ASSUME IndInv, ReorgInv, StampInv, CommitInv, CpInv, [Next]_vars
  PROVE  CpInv'
<1>1. CASE pc' = "idle"
  BY <1>1 DEF CpInv, Switching, InCall
<1>2. CASE pc' # "idle"
  <2>1. com' = com
    BY <1>2, CallSteps
  <2>2. chain \in Seq(Block) /\ Len(chain) \in Nat /\ CpHeight \in Nat
    BY IndTypes, ParameterAssumption
  <2> SUFFICES ASSUME CpHeight <= Len(com.chain)
               PROVE  /\ Switching' => CpHeight <= (Height(Tip))'
                      /\ pc' = "commit" => CpHeight <= Len(chain')
    BY <2>1 DEF CpInv
  <2>3. ASSUME Switching' PROVE CpHeight <= (Height(Tip))'
    <3>1. CASE Switching /\ path' = path
      BY <3>1 DEF CpInv, Tip, Height
    <3>2. ASSUME NEW b \in Block, ReceiveAlt(b), pc' = "pop" PROVE CpHeight <= (Height(Tip))'
      <4>1. PICK o \in OnboardOf(b), s \in Splits(b) : AltAccepts(b, o, s) /\ path' = AltPath(b, s)
        BY <3>2 DEF ReceiveAlt
      <4>2. chain = com.chain
        BY <3>2 DEF ReceiveAlt, ReorgInv, RouteInv, PlaceInv, View
      <4>3. ~CheckpointPassed(Height(b)) /\ Height(b) \in Nat
        BY <4>1, HeightType DEF AltAccepts
      <4>4. CpHeight <= Height(b)
        BY <2>2, <4>2, <4>3 DEF CheckpointPassed
      <4>5. Tip' = b
        BY <4>1, AltPathMore DEF Tip
      <4> QED BY <4>4, <4>5 DEF Height
    <3> QED BY <2>3, <3>1, <3>2, SwitchSteps
  <2>4. ASSUME pc' = "commit" PROVE CpHeight <= Len(chain')
    <3>1. CASE chain = com.chain /\ chain' = chain
      BY <3>1
    <3>2. CASE chain = com.chain /\ chain' = Append(chain, cur)
      <4>1. Len(chain') = Len(chain) + 1
        BY <2>2, <3>2
      <4> QED BY <2>2, <3>2, <4>1
    <3>3. CASE pc = "push" /\ chain' = chain
      <4>1. Switching
        BY <3>3 DEF Switching
      <4> QED BY <3>3, <4>1, SwitchedChain DEF CpInv
    <3>4. CASE pc = "commit" /\ chain' = chain
      BY <3>4 DEF CpInv
    <3> QED BY <2>4, <3>1, <3>2, <3>3, <3>4, CommitSteps
  <2> QED BY <2>3, <2>4
<1> QED BY <1>1, <1>2

LEMMA ComSteps ==
  ASSUME [Next]_vars
  PROVE  com' = com \/ Commit \/ \E n \in TruncateTo : TruncateBlockchain(n)
<1>1. CASE Quiet
  BY <1>1 DEF Quiet
<1>2. CASE Disconnect \/ RollbackPop \/ Abort \/ Crash
  BY <1>2 DEF Disconnect, RollbackPop, Abort, Crash
<1>3. CASE EnterBlock \/ ProcessTx \/ RejectTx \/ FinishBlock \/ UndoTx \/ UndoCoinbase
  BY <1>3 DEF EnterBlock, ProcessTx, RejectTx, FinishBlock, UndoTx, UndoCoinbase
<1> QED BY <1>1, <1>2, <1>3, MovesOrQuiet DEF Moves

\* Two branches of checked blocks that reach the checkpoint agree up to it.
LEMMA SameToCheckpoint ==
  ASSUME NEW c \in Seq(Block), NEW d \in Seq(Block), Chained(c), Chained(d), AllGood(c), AllGood(d),
         CpHeight > 0, CpHeight <= Len(c), CpHeight <= Len(d)
  PROVE  SubSeq(c, 1, CpHeight) = SubSeq(d, 1, CpHeight)
<1>1. CpHeight \in 1..Len(c) /\ CpHeight \in 1..Len(d) /\ CpHeight \in 0..Len(c) /\ CpHeight \in 0..Len(d)
  BY ParameterAssumption
<1>2. ASSUME NEW e \in Seq(Block), Chained(e), AllGood(e), CpHeight \in 1..Len(e)
      PROVE  e[CpHeight] = CpBlock
  <2>1. LastOf(e) \in Block /\ e = Branch[LastOf(e)]
    BY <1>2, LastOfType DEF Chained
  <2>2. Height(e[CpHeight]) = CpHeight
    BY <1>2, <2>1, BlockAssumption DEF Height
  <2>3. CheckBlock(e[CpHeight])
    BY <1>2 DEF AllGood, Good, GoodHeader
  <2> QED BY <2>2, <2>3 DEF CheckBlock
<1>3. c[CpHeight] = d[CpHeight]
  BY <1>1, <1>2
<1>4. \A i \in 1..CpHeight : c[i] = d[i]
  BY <1>1, <1>3, CommonPart
<1> DEFINE x == SubSeq(c, 1, CpHeight)
<1> DEFINE y == SubSeq(d, 1, CpHeight)
<1>5. /\ x \in Seq(Block) /\ Len(x) = CpHeight /\ \A i \in 1..CpHeight : x[i] = c[i]
      /\ y \in Seq(Block) /\ Len(y) = CpHeight /\ \A i \in 1..CpHeight : y[i] = d[i]
  BY <1>1
<1> HIDE DEF x, y
<1>6. x = y
  BY <1>4, <1>5, SameSeq
<1> QED BY <1>6 DEF x, y

SteadyInv == StampInv /\ CommitInv /\ CpInv

LEMMA InitSteadyInv == Init => SteadyInv
<1> SUFFICES ASSUME Init PROVE SteadyInv
  OBVIOUS
<1>1. chain = <<>> /\ com.chain = <<>> /\ pc = "idle"
  BY DEF Init
<1> QED BY <1>1 DEF SteadyInv, StampInv, CommitInv, CpInv, Switching, InCall

LEMMA SteadyStep ==
  ASSUME IndInv, IndInv', ReorgInv, SteadyInv, [Next]_vars, [clock <= clock']_vars
  PROVE  SteadyInv'
  BY StampStep, OutcomeStep, CheckpointStep DEF SteadyInv

\* While the clock is never set back, a reorganisation that is rolled back ends
\* where it started or has not ended, and what is committed is one of the three
\* outcomes the ledger allows.
THEOREM SteadyInvariance == Spec /\ Steady => []SteadyInv
<1>1. Init => SteadyInv
  BY InitSteadyInv
<1>2. IndInv /\ IndInv' /\ ReorgInv /\ SteadyInv /\ [Next]_vars /\ [clock <= clock']_vars => SteadyInv'
  BY SteadyStep
<1> QED BY <1>1, <1>2, Invariance, ReorganisationOnRoute, PTL DEF Spec, Steady

\* When a rollback is over, the writing thread sees exactly the committed chain and
\* the committed tables again: the old blocks pass all their checks a second time
\* unless the clock was set back in between.
THEOREM RollbackIsExact == Spec /\ Steady => []RollbackRestores
<1>1. IndInv /\ ReorgInv /\ SteadyInv => RollbackRestores
  <2> SUFFICES ASSUME IndInv, ReorgInv, SteadyInv, pc = "rolledback" PROVE View = com
    BY DEF RollbackRestores
  <2>1. chain = com.chain
    BY DEF SteadyInv, CommitInv
  <2>2. /\ chain \in Seq(Block) /\ txdb \in [Tx -> Nat] /\ spent \in [Ki -> Nat]
        /\ com.txdb \in [Tx -> Nat] /\ com.spent \in [Ki -> Nat]
    BY IndTypes
  <2>3. TxExact(chain, txdb, {}) /\ TxExact(chain, com.txdb, {})
    BY <2>1 DEF ReorgInv, LinkInv, CurTxs
  <2>4. Exact(chain, spent, {}) /\ Exact(chain, com.spent, {})
    BY <2>1 DEF IndInv, ViewInv, ComInv, CurKi
  <2>5. txdb = com.txdb /\ spent = com.spent
    BY <2>2, <2>3, <2>4, TablesUnique
  <2>6. com = [chain |-> com.chain, txdb |-> com.txdb, spent |-> com.spent]
    <3>1. com \in Ledgers
      BY DEF IndInv, TypeOK
    <3> QED BY <3>1 DEF Ledgers
  <2> QED BY <2>1, <2>5, <2>6 DEF View
<1> QED BY <1>1, Invariance, ReorganisationOnRoute, SteadyInvariance, PTL

\* The committed chain implements the abstract ledger, whatever throws, crashes or
\* is truncated in between.
THEOREM CommittedChainIsLedger == Spec /\ Steady => LedgerSpec
<1>1. Init => L!Init
  BY DEF Init, L!Init
<1>2. IndInv /\ IndInv' /\ ReorgInv /\ SteadyInv /\ [Next]_vars => [L!Next]_(com.chain)
  <2> SUFFICES ASSUME IndInv, IndInv', ReorgInv, SteadyInv, [Next]_vars, com'.chain # com.chain
               PROVE  L!Next
    BY DEF L!Next
  <2>1. L!SpentOnce(com'.chain)
    <3>1. com'.chain \in Seq(Block) /\ Exact(com'.chain, com'.spent, {})
      BY DEF IndInv, TypeOK, Ledgers, ComInv
    <3> QED BY <3>1, ExactOnce DEF L!SpentOnce
  <2>2. L!Tip = LastOf(com.chain)
    BY DEF L!Tip, LastOf
  <2>3. CASE Commit
    <3>1. com'.chain = chain /\ pc = "commit"
      BY <2>3 DEF Commit, View
    <3>2. Outcome
      BY <3>1 DEF SteadyInv, CommitInv
    <3>3. CASE \E b \in Block : Parent[b] = LastOf(com.chain) /\ chain = Append(com.chain, b)
      BY <2>1, <2>2, <3>1, <3>3 DEF L!Next, L!Extend
    <3>4. CASE \E b \in Block : ReorganizeRequired(LastOf(com.chain), b) /\ chain = Branch[b]
      BY <2>1, <2>2, <3>1, <3>4 DEF L!Next, L!Replace
    <3> QED BY <3>1, <3>2, <3>3, <3>4 DEF Outcome
  <2>4. ASSUME NEW n \in TruncateTo, TruncateBlockchain(n) PROVE L!Next
    <3>1. pc = "idle" /\ n < Len(chain) /\ com'.chain = SubSeq(chain, 1, n)
      BY <2>4 DEF TruncateBlockchain
    <3>2. chain = com.chain
      BY <3>1 DEF ReorgInv, RouteInv, PlaceInv, View
    <3> QED BY <3>1, <3>2 DEF L!Next, L!Truncate
  <2> QED BY <2>3, <2>4, ComSteps
<1> QED BY <1>1, <1>2, Invariance, ReorganisationOnRoute, SteadyInvariance, PTL DEF Spec, LedgerSpec, L!Spec

\* The committed chain keeps its blocks up to the checkpoint once it has it, as long
\* as the operator does not truncate below it.
THEOREM CheckpointIsFinal ==
  ASSUME \A n \in TruncateTo : CpHeight <= n
  PROVE  Spec /\ Steady => CheckpointFinal
<1> DEFINE A == CpHeight > 0 /\ CpHeight <= Len(com.chain) =>
                  Len(com'.chain) >= CpHeight /\ SubSeq(com'.chain, 1, CpHeight) = SubSeq(com.chain, 1, CpHeight)
<1>1. IndInv /\ IndInv' /\ ReorgInv /\ ReorgInv' /\ SteadyInv /\ [Next]_vars => [A]_vars
  <2> SUFFICES ASSUME IndInv, IndInv', ReorgInv, ReorgInv', SteadyInv, [Next]_vars,
                      CpHeight > 0, CpHeight <= Len(com.chain)
               PROVE  Len(com'.chain) >= CpHeight
                        /\ SubSeq(com'.chain, 1, CpHeight) = SubSeq(com.chain, 1, CpHeight)
    OBVIOUS
  <2>1. com.chain \in Seq(Block) /\ com'.chain \in Seq(Block) /\ CpHeight \in Nat
    BY IndTypes, ParameterAssumption DEF IndInv, TypeOK, Ledgers
  <2>2. CpHeight <= Len(com'.chain)
    <3>1. CASE Commit
      BY <3>1 DEF Commit, View, SteadyInv, CpInv
    <3>2. ASSUME NEW n \in TruncateTo, TruncateBlockchain(n) PROVE CpHeight <= Len(com'.chain)
      <4>1. com'.chain = SubSeq(chain, 1, n) /\ n < Len(chain) /\ chain \in Seq(Block)
        BY <3>2, IndTypes DEF TruncateBlockchain
      <4>2. n \in 0..Len(chain)
        BY <4>1, ParameterAssumption
      <4> QED BY <4>1, <4>2, PrefixFacts
    <3> QED BY <3>1, <3>2, ComSteps
  <2>3. Chained(com.chain) /\ AllGood(com.chain) /\ Chained(com'.chain) /\ AllGood(com'.chain)
    BY DEF ReorgInv, LinkInv
  <2>4. SubSeq(com'.chain, 1, CpHeight) = SubSeq(com.chain, 1, CpHeight)
    BY <2>1, <2>2, <2>3, SameToCheckpoint
  <2> QED BY <2>1, <2>2, <2>4
<1>2. [][A]_vars => CheckpointFinal
  BY DEF CheckpointFinal
<1> HIDE DEF A
<1> QED BY <1>1, <1>2, Invariance, ReorganisationOnRoute, SteadyInvariance, PTL DEF Spec

-----------------------------------------------------------------------------
(***************************************************************************)
(* The best chain.  Of the alternative blocks only the tip of a switch in  *)
(* progress is better than the committed chain; it leaves when the switch  *)
(* ends, one way or the other.                                             *)
(***************************************************************************)
BestInv ==
  /\ \A b \in alt : ReorganizeRequired(LastOf(com.chain), b) => Switching /\ b = Tip
  /\ Switching /\ pc # "pop" => nxt <= Len(path)

\* The preference is transitive, in the form that a commit needs.
LEMMA NotBetterLater ==
  ASSUME NEW m \in Block \cup {Genesis}, NEW a \in Block, NEW b \in Block,
         ReorganizeRequired(m, a) \/ CumDiff[m] < CumDiff[a], ~ReorganizeRequired(m, b)
  PROVE  ~ReorganizeRequired(a, b)
<1>1. CumDiff[m] \in Nat /\ CumDiff[a] \in Nat /\ CumDiff[b] \in Nat /\ Proof[a] \in Nat /\ Proof[b] \in Nat
  BY ParameterAssumption
<1>2. CASE CumDiff[m] < CumDiff[a]
  BY <1>1, <1>2 DEF ReorganizeRequired
<1>3. CASE CumDiff[m] = CumDiff[a] /\ IsPos(m) /\ Proof[m] < Proof[a]
  <2>1. Proof[m] \in Nat
    BY <1>3, ParameterAssumption DEF IsPos
  <2> QED BY <1>1, <1>3, <2>1 DEF ReorganizeRequired
<1> QED BY <1>2, <1>3 DEF ReorganizeRequired

\* The blocks of a chain are not better than its last one.
LEMMA OwnBlockNotBetter ==
  ASSUME DifficultyGrows, NEW c \in Seq(Block), Chained(c), NEW n \in 1..Len(c)
  PROVE  ~ReorganizeRequired(LastOf(c), c[n])
<1> DEFINE m == LastOf(c)
<1>1. Len(c) \in Nat /\ c[n] \in Block /\ Len(c) > 0
  OBVIOUS
<1>2. m \in Block /\ m = c[Len(c)] /\ c = Branch[m]
  BY <1>1, LastOfType DEF Chained
<1>3. c[n] = m \/ CumDiff[c[n]] < CumDiff[m]
  <2>1. n = Len(c) \/ n \in 1..(Len(c) - 1)
    BY <1>1
  <2>2. Len(c) = Height(m)
    BY <1>2 DEF Height
  <2> QED BY <1>2, <2>1, <2>2, GrowsAlong
<1>4. CumDiff[c[n]] \in Nat /\ CumDiff[m] \in Nat /\ Proof[m] \in Nat
  BY <1>1, <1>2, ParameterAssumption
<1> HIDE DEF m
<1>5. ~ReorganizeRequired(m, c[n])
  BY <1>3, <1>4 DEF ReorganizeRequired
<1> QED BY <1>5 DEF m

\* A switch ends with the removal of its tip from the alternative blocks.
LEMMA TipErased ==
  ASSUME IndInv, ReorgInv, BestInv, "throw" \notin Faults, [Next]_vars, Switching, ~Switching'
  PROVE  Tip \notin alt'
<1>1. /\ path \in Seq(Block) /\ Len(path) \in Nat \ {0} /\ nxt \in Nat \ {0}
  BY RouteFacts, IndTypes DEF ReorgInv
<1>2. CASE EraseConnected
  <2>1. Tip \in Elems(path)
    BY <1>1 DEF Tip, Elems
  <2>2. PICK S \in ErasedThrough(Elems(path)) : AltErase(S)
    BY <1>2 DEF EraseConnected
  <2> QED BY <2>1, <2>2 DEF ErasedThrough, AltErase
<1>3. CASE SwitchFailed
  <2>1. nxt <= Len(path)
    BY <1>3 DEF SwitchFailed, BestInv
  <2>2. Tip \in Elems(SubSeq(path, nxt, Len(path)))
    <3>1. /\ Len(SubSeq(path, nxt, Len(path))) = Len(path) - nxt + 1
          /\ SubSeq(path, nxt, Len(path))[Len(path) - nxt + 1] = path[Len(path)]
          /\ Len(path) - nxt + 1 \in 1..(Len(path) - nxt + 1)
      BY <1>1, <2>1
    <3> QED BY <3>1 DEF Tip, Elems
  <2> QED BY <1>3, <2>2 DEF SwitchFailed, AltErase
<1>4. CASE Crash
  BY <1>4 DEF Crash, ForgetAlt
<1>5. CASE EnterBlock \/ ProcessTx \/ RejectTx \/ FinishBlock \/ UndoTx \/ UndoCoinbase
  <2>1. InCall /\ mode' = mode /\ (InCall' \/ pc' = Returned(FALSE) \/ pc' = Returned(TRUE))
    BY <1>5 DEF EnterBlock, ProcessTx, RejectTx, FinishBlock, UndoTx, UndoCoinbase, InCall, call
  <2>2. mode \in {"switch", "restore"}
    BY <2>1 DEF Switching, InCall
  <2> QED BY <2>1, <2>2, ReturnedValue DEF Switching
<1>6. CASE \/ Disconnect \/ ConnectNext \/ StartPush \/ PushExMain \/ RollbackPop \/ RollbackConnect
           \/ SwitchPretended
  <2>1. \/ pc' \in {"pop", "connected", "push", "erase", "rollback", "restored", "rolledback"}
        \/ pc' = "enter" /\ mode' \in {"switch", "restore"}
    BY <1>6 DEF Disconnect, ConnectNext, StartPush, PushExMain, RollbackPop, RollbackConnect,
       SwitchPretended, Call
  <2> QED BY <2>1 DEF Switching, InCall
<1>7. CASE Commit \/ Abort \/ Throw \/ ThrowPush
  BY <1>7 DEF Commit, Abort, Throw, ThrowPush, Switching, InCall
<1>8. ASSUME NEW b \in Block, ReceiveMain(b) \/ ReceiveAlt(b) PROVE FALSE
  BY <1>8 DEF ReceiveMain, ReceiveAlt, Switching, InCall
<1>9. ASSUME NEW t \in Tx, IncomingTx(t) \/ RemoveStuck(t) PROVE FALSE
  BY <1>9 DEF IncomingTx, RemoveStuck, call, Switching, InCall
<1>10. CASE ClearAltblocks \/ PruneAltBlocks \/ SetClock \/ UNCHANGED vars
  BY <1>10 DEF ClearAltblocks, PruneAltBlocks, SetClock, vars, call, Switching, InCall
<1>11. ASSUME NEW n \in TruncateTo, TruncateBlockchain(n) PROVE FALSE
  BY <1>11 DEF TruncateBlockchain, Switching, InCall
<1>12. CASE BlockThread
  BY <1>2, <1>3, <1>5, <1>6, <1>7, <1>12 DEF BlockThread
<1> QED BY <1>4, <1>7, <1>8, <1>9, <1>10, <1>11, <1>12, Zenon DEF Next

\* Which block a step can add to the alternative ones.
LEMMA NewAltBlock ==
  ASSUME IndInv, "throw" \notin Faults, [Next]_vars, NEW b \in alt', b \notin alt
  PROVE  ReceiveAlt(b) \/ (PushExMain /\ pushed < Len(disc) /\ b = disc[pushed + 1])
<1>1. ASSUME alt' = alt \/ alt' = {} PROVE FALSE
  BY <1>1
<1>2. ASSUME NEW a \in Block, ReceiveMain(a) PROVE FALSE
  BY <1>1, <1>2 DEF ReceiveMain, mem
<1>3. ASSUME NEW a \in Block, ReceiveAlt(a) PROVE ReceiveAlt(b)
  <2>1. b = a
    BY <1>3 DEF ReceiveAlt, AltInsert
  <2> QED BY <1>3, <2>1
<1>4. CASE PushExMain
  <2> DEFINE a == disc[pushed + 1]
  <2>1. pushed < Len(disc) /\ (alt' = alt \/ \E o, S : AltInsert(a, o, S))
    BY <1>4 DEF PushExMain, mem
  <2>2. b = a
    BY <2>1 DEF AltInsert
  <2> QED BY <1>4, <2>1, <2>2
<1>5. CASE EraseConnected \/ SwitchFailed
  BY <1>5 DEF EraseConnected, SwitchFailed, AltErase
<1>6. CASE Throw \/ ThrowPush
  BY <1>6 DEF Throw, ThrowPush
<1>7. CASE Crash
  BY <1>1, <1>7 DEF Crash, ForgetAlt
<1>8. CASE \/ Disconnect \/ ConnectNext \/ StartPush \/ RollbackPop \/ RollbackConnect \/ SwitchPretended
           \/ EnterBlock \/ ProcessTx \/ RejectTx \/ FinishBlock \/ UndoTx \/ UndoCoinbase
           \/ Commit \/ Abort
  BY <1>1, <1>8 DEF Disconnect, ConnectNext, StartPush, RollbackPop, RollbackConnect, SwitchPretended,
     EnterBlock, ProcessTx, RejectTx, FinishBlock, UndoTx, UndoCoinbase, Commit, Abort, mem
<1>9. ASSUME NEW t \in Tx, IncomingTx(t) \/ RemoveStuck(t) PROVE FALSE
  BY <1>1, <1>9 DEF IncomingTx, RemoveStuck, mem
<1>10. CASE ClearAltblocks \/ PruneAltBlocks \/ SetClock \/ UNCHANGED vars
  BY <1>1, <1>10 DEF ClearAltblocks, ForgetAlt, PruneAltBlocks, AltErase, SetClock, vars, mem
<1>11. ASSUME NEW n \in TruncateTo, TruncateBlockchain(n) PROVE FALSE
  BY <1>1, <1>11 DEF TruncateBlockchain, ForgetAlt
<1>12. CASE BlockThread
  BY <1>4, <1>5, <1>8, <1>12 DEF BlockThread
<1> QED BY <1>2, <1>3, <1>6, <1>7, <1>9, <1>10, <1>11, <1>12, Zenon DEF Next

LEMMA NextInPath ==
  ASSUME IndInv, [Next]_vars, Switching /\ pc # "pop" => nxt <= Len(path), Switching', pc' # "pop"
  PROVE  nxt' <= Len(path')
<1>1. Switching /\ path' = path
  BY SwitchSteps
<1>2. path # <<>> /\ Len(path) \in Nat /\ nxt \in Nat /\ Len(path) >= 1
  <2>1. path # <<>> /\ path \in Seq(Block) /\ nxt \in Nat
    BY <1>1, IndTypes DEF IndInv, SwitchInv
  <2> QED BY <2>1
<1>3. CASE ConnectNext
  BY <1>1, <1>2, <1>3 DEF ConnectNext
<1>4. CASE Disconnect
  BY <1>4 DEF Disconnect
<1>5. CASE nxt' = nxt /\ pc # "pop"
  BY <1>1, <1>5
<1>6. CASE \/ StartPush \/ PushExMain \/ EraseConnected \/ RollbackPop \/ RollbackConnect
           \/ SwitchFailed \/ SwitchPretended \/ ThrowPush
           \/ EnterBlock \/ ProcessTx \/ RejectTx \/ FinishBlock \/ UndoTx \/ UndoCoinbase
  BY <1>5, <1>6 DEF StartPush, PushExMain, EraseConnected, RollbackPop, RollbackConnect, SwitchFailed,
     SwitchPretended, ThrowPush, EnterBlock, ProcessTx, RejectTx, FinishBlock, UndoTx, UndoCoinbase, switch
<1>7. CASE Commit \/ Abort \/ Throw \/ Crash
  <2>1. pc' \in {"idle", "abort"}
    BY <1>7 DEF Commit, Abort, Throw, Crash, Idle
  <2> QED BY <2>1 DEF Switching, InCall
<1>8. ASSUME NEW b \in Block, ReceiveMain(b) \/ ReceiveAlt(b) PROVE FALSE
  BY <1>1, <1>8 DEF ReceiveMain, ReceiveAlt, Switching, InCall
<1>9. ASSUME NEW t \in Tx, IncomingTx(t) \/ RemoveStuck(t) PROVE nxt' = nxt /\ pc # "pop"
  BY <1>9 DEF IncomingTx, RemoveStuck, switch
<1>10. CASE ClearAltblocks \/ PruneAltBlocks \/ SetClock \/ UNCHANGED vars
  BY <1>5, <1>10 DEF ClearAltblocks, PruneAltBlocks, SetClock, vars, switch
<1>11. ASSUME NEW n \in TruncateTo, TruncateBlockchain(n) PROVE FALSE
  BY <1>1, <1>11 DEF TruncateBlockchain, Switching, InCall
<1>12. CASE BlockThread
  BY <1>3, <1>4, <1>6, <1>7, <1>12 DEF BlockThread
<1> QED BY <1>5, <1>6, <1>7, <1>8, <1>9, <1>10, <1>11, <1>12, Zenon DEF Next

LEMMA BestStep ==
  ASSUME DifficultyGrows, "throw" \notin Faults, IndInv, IndInv', ReorgInv, SteadyInv, BestInv, [Next]_vars
  PROVE  BestInv'
<1> SUFFICES ASSUME NEW b \in alt', ReorganizeRequired(LastOf(com'.chain), b)
             PROVE  Switching' /\ b = Tip'
  BY NextInPath DEF BestInv
<1> DEFINE m == LastOf(com.chain)
<1>1. /\ chain \in Seq(Block) /\ com.chain \in Seq(Block) /\ m \in Block \cup {Genesis}
      /\ Chained(com.chain) /\ alt' \subseteq Block
  BY IndTypes, LastOfType DEF ReorgInv, LinkInv, IndInv, TypeOK
<1>2. CASE Commit
  <2>1. pc = "commit" /\ com'.chain = chain /\ alt' = alt
    BY <1>2 DEF Commit, View, mem
  <2>2. ~ReorganizeRequired(m, b)
    BY <2>1 DEF BestInv, Switching, InCall
  <2>3. Outcome
    BY <2>1 DEF SteadyInv, CommitInv
  <2>4. CASE chain = com.chain
    BY <2>1, <2>2, <2>4
  <2>5. ASSUME NEW a \in Block, Parent[a] = m, chain = Append(com.chain, a) PROVE FALSE
    <3>1. chain = Branch[a] /\ LastOf(chain) = a
      BY <1>1, <2>5, ChainedAppend, BranchChained
    <3>2. CumDiff[m] < CumDiff[a]
      BY <2>5 DEF DifficultyGrows
    <3> QED BY <1>1, <2>1, <2>2, <3>1, <3>2, NotBetterLater
  <2>6. ASSUME NEW a \in Block, ReorganizeRequired(m, a), chain = Branch[a] PROVE FALSE
    <3>1. LastOf(chain) = a
      BY <2>6, BranchChained
    <3> QED BY <1>1, <2>1, <2>2, <2>6, <3>1, NotBetterLater
  <2> QED BY <2>3, <2>4, <2>5, <2>6 DEF Outcome
<1>3. ASSUME NEW n \in TruncateTo, TruncateBlockchain(n) PROVE FALSE
  BY <1>3 DEF TruncateBlockchain, ForgetAlt
<1>4. CASE com' = com /\ b \in alt
  <2>1. Switching /\ b = Tip
    BY <1>4 DEF BestInv
  <2>2. Switching'
    BY <2>1, TipErased
  <2>3. path' = path
    BY <2>1, <2>2, SwitchSteps DEF ReceiveAlt, Switching, InCall
  <2> QED BY <2>1, <2>2, <2>3 DEF Tip
<1>5. CASE com' = com /\ b \notin alt
  <2>1. CASE ReceiveAlt(b)
    <3>1. Top = m
      BY <2>1, TopIsLast DEF ReceiveAlt, ReorgInv, RouteInv, PlaceInv, View
    <3>2. PICK s \in Splits(b) : path' = AltPath(b, s) /\ pc' = "pop"
      BY <1>5, <2>1, <3>1 DEF ReceiveAlt
    <3>3. path'[Len(path')] = b
      BY <1>1, <3>2, AltPathMore
    <3> QED BY <3>2, <3>3 DEF Switching, Tip
  <2>2. CASE PushExMain /\ pushed < Len(disc) /\ b = disc[pushed + 1]
    <3>1. RouteInv /\ Switching /\ pc # "pop"
      BY <2>2 DEF PushExMain, ReorgInv, Switching
    <3>2. /\ Len(disc) = Len(com.chain) - SplitHeight + 1 /\ SplitHeight \in Nat \ {0}
          /\ \A i \in 1..Len(disc) : disc[i] = com.chain[SplitHeight - 1 + i]
          /\ pushed \in Nat /\ Len(com.chain) \in Nat
      BY <3>1, RouteFacts, IndTypes DEF RouteInv, DiscInv
    <3> DEFINE n == SplitHeight + pushed
    <3>3. n \in 1..Len(com.chain) /\ b = com.chain[n]
      <4> DEFINE s == SplitHeight
      <4> HIDE DEF s
      <4>1. pushed + 1 \in 1..Len(disc) /\ s - 1 + (pushed + 1) = s + pushed /\ s + pushed \in 1..Len(com.chain)
        BY <2>2, <3>2 DEF s
      <4> QED BY <2>2, <3>2, <4>1 DEF s
    <3> QED BY <1>1, <1>5, <3>3, OwnBlockNotBetter
  <2> QED BY <1>5, <2>1, <2>2, NewAltBlock
<1> QED BY <1>2, <1>3, <1>4, <1>5, ComSteps

\* Between two blocks no alternative branch that connects to the main chain is better
\* than it, whichever branches were refused, switched to, pruned or pushed back: when
\* every block adds difficulty, no exception stops a switch between its last block and
\* the removal of its branch, and the clock is never set back.
THEOREM ChainIsBest ==
  ASSUME DifficultyGrows, "throw" \notin Faults
  PROVE  Spec /\ Steady => []BestChain
<1>1. Init => BestInv
  BY DEF Init, BestInv, Switching, InCall
<1>2. IndInv /\ IndInv' /\ ReorgInv /\ SteadyInv /\ BestInv /\ [Next]_vars => BestInv'
  BY BestStep
<1>3. ReorgInv /\ BestInv => BestChain
  <2> SUFFICES ASSUME ReorgInv, BestInv, pc = "idle", NEW b \in alt PROVE ~ReorganizeRequired(Top, b)
    BY DEF BestChain
  <2>1. Top = LastOf(com.chain)
    BY TopIsLast DEF ReorgInv, RouteInv, PlaceInv, View
  <2> QED BY <2>1 DEF BestInv, Switching, InCall
<1> QED BY <1>1, <1>2, <1>3, Invariance, ReorganisationOnRoute, SteadyInvariance, PTL DEF Spec

-----------------------------------------------------------------------------
(***************************************************************************)
(* Pool and chain, when transactions reach the node through the pool only: *)
(* a block takes every transaction from the pool, also one that a          *)
(* reorganisation connects, and the taken set keeps it out of the pool     *)
(* until the commit.                                                       *)
(***************************************************************************)
ThroughPool == Faults = {} /\ Onboard \subseteq {"bare"} /\ \A t \in Tx : KiTx[t] # {}

Disjoint  == \A t \in pool : txdb[t] = 0
Guarded   == \A t \in Tx : txdb[t] # 0 => com.txdb[t] # 0 \/ t \in taken
AltAtHand == \A b \in alt : \A t \in TxSet(b) : t \in pool \/ txdb[t] # 0
BareCall  == InCall /\ mode \in {"main", "sim"} => onb = {}
PoolInv ==
  /\ pc = "abort" => txdb = com.txdb
  /\ Disjoint /\ Guarded /\ AltAtHand /\ BareCall

\* The next transaction of a block is in the pool and not in the chain.
LEMMA TakenFromPool ==
  ASSUME ThroughPool, IndInv, ReorgInv, AltBranchSpendsOnce, PoolInv,
         pc = "txs", done < Len(TxsOf[cur]), CurTx \in onb \cup pool
  PROVE  CurTx \in pool /\ txdb[CurTx] = 0 /\ CurTx \in Tx
<1>1. cur \in Block /\ done \in Nat /\ InCall /\ mode \in {"main", "sim", "switch", "restore"}
  BY DEF IndInv, TypeOK, SwitchInv, Modes, InCall
<1>2. TxsOf[cur] \in Seq(Tx) /\ Len(TxsOf[cur]) \in Nat
  BY <1>1, TxSetMember
<1>3. done + 1 \in 1..Len(TxsOf[cur])
  BY <1>1, <1>2
<1>4. CurTx \in TxSet(cur) /\ CurTx \in Tx
  BY <1>1, <1>2, <1>3, TxSetMember DEF CurTx
<1>5. CASE mode \in {"main", "sim"}
  BY <1>1, <1>4, <1>5 DEF PoolInv, BareCall, Disjoint
<1>6. CASE mode = "restore"
  BY <1>4, <1>6, RestoredTx
<1>7. CASE mode = "switch"
  <2>1. /\ chain \in Seq(Block) /\ Len(chain) \in Nat /\ txdb \in [Tx -> Nat]
        /\ path \in Seq(Block) /\ nxt \in 1..Len(path) /\ cur = path[nxt]
    BY <1>1, <1>7, IndTypes DEF IndInv, SwitchInv, ReorgInv, RouteInv, PlaceInv
  <2>2. cur \in alt
    BY <1>1, <1>7, <2>1 DEF ReorgInv, AltInv, Building, Elems
  <2>3. Branch[cur] = Append(chain, cur) /\ Height(cur) = Len(chain) + 1
    <3>1. Parent[cur] = LastOf(chain) /\ Chained(chain)
      BY TopIsLast DEF ReorgInv, HeadInv, LinkInv
    <3> QED BY <1>1, <2>1, <3>1, ChainedAppend DEF Height
  <2>4. /\ Append(chain, cur)[Len(chain) + 1] = cur
        /\ \A i \in 1..Len(chain) : Append(chain, cur)[i] = chain[i]
    BY <1>1, <2>1
  <2>5. SpendsOnce(cur) /\ \A i \in 1..Len(chain) : KiOf(chain[i]) \cap KiOf(cur) = {}
    <3>1. Len(chain) + 1 \in 1..Height(cur) /\ \A i \in 1..Len(chain) : i \in 1..Height(cur) /\ i # Len(chain) + 1
      BY <2>1, <2>3
    <3> QED BY <2>2, <2>3, <2>4, <3>1 DEF AltBranchSpendsOnce
  <2>6. PICK k \in KiTx[CurTx] : TRUE
    BY <1>4 DEF ThroughPool
  <2>7. TxExact(chain, txdb, TxsBy(cur, done))
    BY DEF ReorgInv, LinkInv, CurTxs
  <2>8. ASSUME txdb[CurTx] # 0 PROVE FALSE
    <3>1. CurTx \in TxsBy(cur, done) \/ (txdb[CurTx] \in 1..Len(chain) /\ CurTx \in TxSet(chain[txdb[CurTx]]))
      BY <1>4, <2>1, <2>7, <2>8 DEF TxExact
    <3>2. CASE CurTx \in TxsBy(cur, done)
      <4>1. PICK i \in 1..done : CurTx = TxsOf[cur][i]
        BY <3>2 DEF TxsBy
      <4>2. i \in 1..Len(TxsOf[cur]) /\ i # done + 1
        BY <1>1, <1>2, <1>3
      <4> QED BY <1>3, <2>5, <2>6, <4>1, <4>2 DEF SpendsOnce, CurTx
    <3>3. CASE txdb[CurTx] \in 1..Len(chain) /\ CurTx \in TxSet(chain[txdb[CurTx]])
      <4> DEFINE b == chain[txdb[CurTx]]
      <4>1. b \in Block
        BY <2>1, <3>3
      <4>2. k \in KiOf(b)
        <5>1. PICK i \in 1..Len(TxsOf[b]) : CurTx = TxsOf[b][i]
          BY <3>3, <4>1, TxSetMember
        <5> QED BY <2>6, <4>1, <5>1, KiOfMember
      <4>3. k \in KiOf(cur)
        BY <1>1, <1>3, <2>6, KiOfMember DEF CurTx
      <4> QED BY <2>5, <3>3, <4>2, <4>3
    <3> QED BY <3>1, <3>2, <3>3
  <2> QED BY <1>4, <2>2, <2>8 DEF PoolInv, AltAtHand
<1> QED BY <1>1, <1>5, <1>6, <1>7

\* An aborted view has the committed transactions.
LEMMA AbortedAsCommitted ==
  ASSUME Faults = {}, IndInv, ReorgInv, SteadyInv, PoolInv, [Next]_vars, pc' = "abort"
  PROVE  txdb' = com'.txdb
<1>1. com' = com
  BY CallSteps
<1>2. \/ pc = "abort" /\ txdb' = txdb
      \/ InCall /\ mode \in {"main", "sim"} /\ CurTxs = {} /\ txdb' = txdb
      \/ pc = "rolledback" /\ txdb' = txdb
  BY AbortSteps
<1>3. CASE pc = "abort" /\ txdb' = txdb
  BY <1>1, <1>3 DEF PoolInv
<1>4. ASSUME chain = com.chain, TxExact(chain, txdb, {}) PROVE txdb = com.txdb
  <2>1. /\ com.chain \in Seq(Block) /\ txdb \in [Tx -> Nat] /\ com.txdb \in [Tx -> Nat]
        /\ com.spent \in [Ki -> Nat] /\ TxExact(com.chain, com.txdb, {}) /\ Exact(com.chain, com.spent, {})
    BY IndTypes DEF ReorgInv, LinkInv, IndInv, ComInv
  <2> QED BY <1>4, <2>1, TablesUnique
<1>5. CASE InCall /\ mode \in {"main", "sim"} /\ CurTxs = {} /\ txdb' = txdb
  <2>1. TxExact(chain, txdb, {})
    BY <1>5 DEF ReorgInv, LinkInv, InCall
  <2>2. chain = com.chain
    BY <1>5 DEF ReorgInv, RouteInv, PlaceInv
  <2> QED BY <1>1, <1>4, <1>5, <2>1, <2>2
<1>6. CASE pc = "rolledback" /\ txdb' = txdb
  <2>1. TxExact(chain, txdb, {})
    BY <1>6 DEF ReorgInv, LinkInv, CurTxs
  <2>2. chain = com.chain
    BY <1>6 DEF SteadyInv, CommitInv
  <2> QED BY <1>1, <1>4, <1>6, <2>1, <2>2
<1> QED BY <1>2, <1>3, <1>5, <1>6

\* A step that leaves pool and table alone and adds no alternative block.
LEMMA PoolKept ==
  ASSUME PoolInv, UNCHANGED << txdb, com, pool, taken >>, alt' \subseteq alt
  PROVE  Disjoint' /\ Guarded' /\ AltAtHand'
BY DEF PoolInv, Disjoint, Guarded, AltAtHand

\* Transactions that leave the table go to the pool.
LEMMA PoolReturned ==
  ASSUME IndInv, PoolInv, NEW S \in SUBSET Tx, txdb' = Set(txdb, S, 0), pool' = pool \cup S,
         UNCHANGED << com, alt, taken >>
  PROVE  Disjoint' /\ Guarded' /\ AltAtHand'
<1>1. \A t \in Tx : txdb'[t] = IF t \in S THEN 0 ELSE txdb[t]
  BY IndTypes DEF Set
<1>2. pool \subseteq Tx /\ alt \subseteq Block
  BY DEF IndInv, TypeOK
<1>3. \A b \in alt : TxSet(b) \subseteq Tx
  BY <1>2, TxSetType
<1> QED BY <1>1, <1>2, <1>3 DEF PoolInv, Disjoint, Guarded, AltAtHand

\* A new alternative block whose transactions are at hand.
LEMMA PoolNewAlt ==
  ASSUME PoolInv, UNCHANGED << txdb, com, pool, taken >>, NEW b, alt' \subseteq alt \cup {b},
         b \in alt' => \A t \in TxSet(b) : t \in pool \/ txdb[t] # 0
  PROVE  Disjoint' /\ Guarded' /\ AltAtHand'
BY DEF PoolInv, Disjoint, Guarded, AltAtHand

\* The steps of handle_block_to_main_chain on a transaction.
LEMMA PoolTx ==
  ASSUME ThroughPool, IndInv, ReorgInv, AltBranchSpendsOnce, PoolInv, ProcessTx \/ RejectTx \/ UndoTx
  PROVE  Disjoint' /\ Guarded' /\ AltAtHand'
<1>1. /\ pool \subseteq Tx /\ alt \subseteq Block /\ txdb \in [Tx -> Nat] /\ cur \in Block
      /\ done \in Nat /\ Len(chain) \in Nat
  BY IndTypes DEF IndInv, TypeOK, ProcessTx, RejectTx, UndoTx
<1>2. com' = com /\ alt' = alt
  BY DEF ProcessTx, RejectTx, UndoTx, mem
<1>3. CASE ProcessTx
  <2>1. CurTx \in pool /\ CurTx \in Tx
    BY <1>3, TakenFromPool DEF ProcessTx
  <2>2. /\ txdb' = Set(txdb, {CurTx}, Len(chain) + 1) /\ pool' = pool \ {CurTx}
        /\ taken' = taken \cup {CurTx}
    BY <1>3, <2>1 DEF ProcessTx, Take, AddTransaction
  <2>3. \A t \in Tx : txdb'[t] = IF t \in {CurTx} THEN Len(chain) + 1 ELSE txdb[t]
    BY <1>1, <2>2 DEF Set
  <2>4. Len(chain) + 1 # 0
    BY <1>1
  <2>5. \A b \in alt : TxSet(b) \subseteq Tx
    BY <1>1, TxSetType
  <2> QED BY <1>1, <1>2, <2>1, <2>2, <2>3, <2>4, <2>5 DEF PoolInv, Disjoint, Guarded, AltAtHand
<1>4. CASE RejectTx
  <2>1. txdb' = txdb /\ taken \subseteq taken'
    BY <1>4 DEF RejectTx, db, pools
  <2>2. pool' = pool \/ (pool' = pool \cup {CurTx} /\ CurTx \in onb \cup pool)
    BY <1>4 DEF RejectTx, pools
  <2>3. pool' = pool
    BY <1>4, <2>2, TakenFromPool DEF RejectTx
  <2> QED BY <1>2, <2>1, <2>3 DEF PoolInv, Disjoint, Guarded, AltAtHand
<1>5. CASE UndoTx
  <2> DEFINE t == TxsOf[cur][done]
  <2>1. t \in Tx
    <3>1. done \in 1..Len(TxsOf[cur])
      BY <1>1, <1>5, TxSetMember DEF UndoTx, IndInv, TypeOK
    <3> QED BY <1>1, <3>1, TxSetMember
  <2>2. txdb' = Set(txdb, {t}, 0) /\ pool' = pool \cup {t} /\ taken' = taken
    BY <1>5 DEF UndoTx, PurgeTransaction
  <2> HIDE DEF t
  <2> QED BY <1>2, <2>1, <2>2, PoolReturned
<1> QED BY <1>3, <1>4, <1>5

\* A block is popped.
LEMMA PoolPop ==
  ASSUME IndInv, ReorgInv, PoolInv, Disconnect \/ RollbackPop
  PROVE  Disjoint' /\ Guarded' /\ AltAtHand'
<1>1. PopBlock /\ UNCHANGED << com, alt >> /\ Switching /\ AboveSplit
  BY DEF Disconnect, RollbackPop, mem, Switching
<1>2. Top \in Block
  <2>1. chain \in Seq(Block) /\ Len(chain) \in Nat /\ SplitHeight \in Nat \ {0}
    BY <1>1, IndTypes, RouteFacts DEF ReorgInv
  <2>2. chain # <<>>
    BY <1>1, <2>1 DEF AboveSplit
  <2> QED BY <2>1, <2>2, TopType
<1>3. txdb' = Set(txdb, TxSet(Top), 0) /\ pool' = pool \cup TxSet(Top) /\ taken' = taken
  BY <1>1 DEF PopBlock
<1> QED BY <1>1, <1>2, <1>3, TxSetType, PoolReturned

\* An alternative block arrives or is pushed back.
LEMMA PoolAlt ==
  ASSUME ThroughPool, IndInv, ReorgInv, PoolInv, (\E b \in Block : ReceiveAlt(b)) \/ PushExMain
  PROVE  Disjoint' /\ Guarded' /\ AltAtHand'
<1>1. ASSUME NEW b \in Block, ReceiveAlt(b) PROVE Disjoint' /\ Guarded' /\ AltAtHand'
  <2>1. UNCHANGED << txdb, com, pool, taken >>
    BY <1>1 DEF ReceiveAlt, db, pools
  <2>2. PICK o \in OnboardOf(b) : \E s \in Splits(b) : AltAccepts(b, o, s) /\ alt' \subseteq alt \cup {b}
    BY <1>1 DEF ReceiveAlt, AltInsert
  <2>3. o = {}
    BY DEF ThroughPool, OnboardOf
  <2>4. \A t \in TxSet(b) : t \in pool \/ txdb[t] # 0
    BY <2>2, <2>3 DEF AltAccepts, AltTxsOk, Resolve
  <2> QED BY <2>1, <2>2, <2>4, PoolNewAlt
<1>2. CASE PushExMain
  <2> DEFINE b == disc[pushed + 1]
  <2>1. UNCHANGED << txdb, com, pool, taken >> /\ pushed < Len(disc) /\ pc = "push"
    BY <1>2 DEF PushExMain, db, pools
  <2>2. alt' = alt \/ \E o, S : AltInsert(b, o, S)
    BY <1>2 DEF PushExMain, mem
  <2>3. alt' \subseteq alt \cup {b}
    BY <2>2 DEF AltInsert
  <2>4. PICK n \in 1..Len(com.chain) : b = com.chain[n]
    <3>1. RouteInv /\ Switching /\ pc # "pop"
      BY <2>1 DEF ReorgInv, Switching
    <3> DEFINE s == SplitHeight
    <3>2. /\ Len(disc) = Len(com.chain) - s + 1 /\ s \in Nat \ {0}
          /\ \A i \in 1..Len(disc) : disc[i] = com.chain[s - 1 + i]
          /\ pushed \in Nat /\ Len(com.chain) \in Nat
      BY <3>1, RouteFacts, IndTypes DEF RouteInv, DiscInv
    <3> HIDE DEF s
    <3>3. pushed + 1 \in 1..Len(disc) /\ s - 1 + (pushed + 1) \in 1..Len(com.chain)
      BY <2>1, <3>2
    <3> QED BY <3>2, <3>3
  <2>5. \A t \in TxSet(b) : t \in pool \/ txdb[t] # 0
    <3>1. b \in Block /\ TxSet(b) \subseteq Tx
      BY <2>4, IndTypes, TxSetType
    <3>2. \A t \in TxSet(b) : com.txdb[t] = n
      BY <2>4 DEF ReorgInv, LinkInv, TxExact
    <3>3. n # 0
      OBVIOUS
    <3> QED BY <2>1, <3>1, <3>2, <3>3 DEF ReorgInv, HandInv
  <2> HIDE DEF b
  <2> QED BY <2>1, <2>3, <2>5, PoolNewAlt
<1> QED BY <1>1, <1>2

\* The other threads, the operator and the end of the database transaction.
LEMMA PoolOthers ==
  ASSUME IndInv, AltTxsCount, PoolInv,
         \/ Commit \/ Abort \/ ClearAltblocks \/ PruneAltBlocks
         \/ \E t \in Tx : IncomingTx(t) \/ RemoveStuck(t)
         \/ \E n \in TruncateTo : TruncateBlockchain(n)
  PROVE  Disjoint' /\ Guarded' /\ AltAtHand'
<1>1. pool \subseteq Tx /\ alt \subseteq Block /\ txdb \in [Tx -> Nat] /\ chain \in Seq(Block)
  BY IndTypes DEF IndInv, TypeOK
<1>2. CASE Commit
  <2>1. com'.txdb = txdb /\ txdb' = txdb /\ pool' = pool /\ alt' = alt
    BY <1>2 DEF Commit, View, db, mem
  <2> QED BY <2>1 DEF PoolInv, Disjoint, Guarded, AltAtHand
<1>3. CASE Abort
  <2>1. txdb' = com.txdb /\ com' = com /\ pool' = pool /\ alt' = alt /\ txdb = com.txdb
    BY <1>3 DEF Abort, Restore, mem, PoolInv
  <2> QED BY <2>1 DEF PoolInv, Disjoint, Guarded, AltAtHand
<1>4. CASE ClearAltblocks \/ PruneAltBlocks
  BY <1>4, PoolKept DEF ClearAltblocks, PruneAltBlocks, AltErase, ForgetAlt, db, pools
<1>5. ASSUME NEW t \in Tx, IncomingTx(t) PROVE Disjoint' /\ Guarded' /\ AltAtHand'
  <2>1. /\ pool' = pool \cup {t} /\ txdb' = txdb /\ com' = com /\ taken' = taken /\ alt' = alt
        /\ t \notin taken /\ com.txdb[t] = 0
    BY <1>5 DEF IncomingTx, db, mem
  <2>2. txdb[t] = 0
    BY <2>1 DEF PoolInv, Guarded
  <2> QED BY <2>1, <2>2 DEF PoolInv, Disjoint, Guarded, AltAtHand
<1>6. ASSUME NEW t \in Tx, RemoveStuck(t) PROVE Disjoint' /\ Guarded' /\ AltAtHand'
  <2>1. /\ pool' = pool \ {t} /\ txdb' = txdb /\ com' = com /\ taken' = taken /\ alt' = alt
        /\ altTxs[t] = 0
    BY <1>6 DEF RemoveStuck, db, mem
  <2>2. { b \in alt : t \in TxSet(b) } = {}
    <3>1. IsFiniteSet({ b \in alt : t \in TxSet(b) })
      <4>1. { b \in alt : t \in TxSet(b) } \in SUBSET Block
        BY <1>1
      <4> QED BY <4>1, FS_Subset, BlockAssumption
    <3>2. Cardinality({ b \in alt : t \in TxSet(b) }) = 0
      BY <2>1 DEF AltTxsCount
    <3> QED BY <3>1, <3>2, FS_EmptySet
  <2> QED BY <2>1, <2>2 DEF PoolInv, Disjoint, Guarded, AltAtHand
<1>7. ASSUME NEW n \in TruncateTo, TruncateBlockchain(n) PROVE Disjoint' /\ Guarded' /\ AltAtHand'
  <2> DEFINE gone == { chain[i] : i \in (n + 1)..Len(chain) }
  <2> DEFINE S == UNION { TxSet(b) : b \in gone }
  <2>1. /\ txdb' = Set(txdb, S, 0) /\ pool' = pool \cup S /\ alt' = {} /\ com'.txdb = txdb'
    BY <1>7 DEF TruncateBlockchain, ForgetAlt
  <2>2. S \subseteq Tx
    <3>1. gone \subseteq Block
      BY <1>1, ParameterAssumption
    <3> QED BY <3>1, TxSetType
  <2> HIDE DEF S
  <2>3. \A t \in Tx : txdb'[t] = IF t \in S THEN 0 ELSE txdb[t]
    BY <1>1, <2>1 DEF Set
  <2> QED BY <1>1, <2>1, <2>2, <2>3 DEF PoolInv, Disjoint, Guarded, AltAtHand
<1> QED BY <1>2, <1>3, <1>4, <1>5, <1>6, <1>7

LEMMA BareStep ==
  ASSUME ThroughPool, BareCall, [Next]_vars
  PROVE  BareCall'
<1>1. ASSUME NEW b \in Block, ReceiveMain(b) PROVE onb' = {}
  BY <1>1 DEF ReceiveMain, Call, ThroughPool, OnboardOf
<1>2. ASSUME NEW b \in Block, ReceiveAlt(b) PROVE ~InCall'
  BY <1>2 DEF ReceiveAlt, InCall
<1>3. CASE ConnectNext \/ RollbackConnect
  BY <1>3 DEF ConnectNext, RollbackConnect, Call, BareCall, InCall
<1>4. CASE \/ Disconnect \/ StartPush \/ PushExMain \/ EraseConnected \/ RollbackPop
           \/ SwitchFailed \/ SwitchPretended \/ Commit \/ Abort \/ Throw \/ ThrowPush \/ Crash
  <2>1. ~InCall'
    BY <1>4 DEF Disconnect, StartPush, PushExMain, EraseConnected, RollbackPop, SwitchFailed,
       SwitchPretended, Commit, Abort, Throw, ThrowPush, Crash, Idle, InCall
  <2> QED BY <2>1 DEF BareCall
<1>5. CASE EnterBlock \/ ProcessTx \/ RejectTx \/ FinishBlock \/ UndoTx \/ UndoCoinbase
  <2>1. InCall /\ mode' = mode /\ onb' = onb
    BY <1>5 DEF EnterBlock, ProcessTx, RejectTx, FinishBlock, UndoTx, UndoCoinbase, InCall, call
  <2> QED BY <2>1 DEF BareCall
<1>6. ASSUME NEW t \in Tx, IncomingTx(t) \/ RemoveStuck(t) PROVE BareCall'
  BY <1>6 DEF IncomingTx, RemoveStuck, call, BareCall, InCall
<1>7. ASSUME NEW n \in TruncateTo, TruncateBlockchain(n) PROVE BareCall'
  BY <1>7 DEF TruncateBlockchain, call, BareCall, InCall
<1>8. CASE ClearAltblocks \/ PruneAltBlocks \/ SetClock \/ UNCHANGED vars
  BY <1>8 DEF ClearAltblocks, PruneAltBlocks, SetClock, vars, call, BareCall, InCall
<1>9. CASE BlockThread
  BY <1>3, <1>4, <1>5, <1>9 DEF BlockThread
<1>10. ASSUME NEW b \in Block, ReceiveMain(b) \/ ReceiveAlt(b) PROVE BareCall'
  BY <1>1, <1>2, <1>10 DEF BareCall
<1> QED BY <1>4, <1>6, <1>7, <1>8, <1>9, <1>10, Zenon DEF Next

LEMMA PoolStep ==
  ASSUME ThroughPool, IndInv, ReorgInv, SteadyInv, AltTxsCount, AltBranchSpendsOnce, PoolInv, [Next]_vars
  PROVE  PoolInv'
<1> DEFINE P == Disjoint' /\ Guarded' /\ AltAtHand'
<1>1. pc' = "abort" => txdb' = com'.txdb
  BY AbortedAsCommitted DEF ThroughPool
<1>2. BareCall'
  BY BareStep DEF PoolInv
<1> SUFFICES P
  BY <1>1, <1>2 DEF PoolInv
<1>3. ASSUME NEW b \in Block, ReceiveMain(b) PROVE P
  BY <1>3, PoolKept DEF ReceiveMain, db, mem, pools
<1>4. ASSUME NEW b \in Block, ReceiveAlt(b) PROVE P
  BY <1>4, PoolAlt
<1>5. CASE PushExMain
  BY <1>5, PoolAlt
<1>6. CASE Disconnect \/ RollbackPop
  BY <1>6, PoolPop
<1>7. CASE ConnectNext \/ StartPush \/ RollbackConnect \/ SwitchPretended
           \/ EnterBlock \/ FinishBlock \/ UndoCoinbase
  BY <1>7, PoolKept DEF ConnectNext, StartPush, RollbackConnect, SwitchPretended,
     EnterBlock, FinishBlock, UndoCoinbase, db, mem, pools
<1>8. CASE EraseConnected \/ SwitchFailed
  <2>1. UNCHANGED << txdb, com, pool, taken >> /\ alt' \subseteq alt
    BY <1>8 DEF EraseConnected, SwitchFailed, AltErase, db, pools
  <2> QED BY <2>1, PoolKept
<1>9. CASE ProcessTx \/ RejectTx \/ UndoTx
  BY <1>9, PoolTx
<1>10. CASE Commit \/ Abort \/ ClearAltblocks \/ PruneAltBlocks
  BY <1>10, PoolOthers
<1>11. CASE Throw \/ ThrowPush \/ Crash
  BY <1>11 DEF Throw, ThrowPush, Crash, ThroughPool
<1>12. ASSUME NEW t \in Tx, IncomingTx(t) \/ RemoveStuck(t) PROVE P
  BY <1>12, PoolOthers
<1>13. ASSUME NEW n \in TruncateTo, TruncateBlockchain(n) PROVE P
  BY <1>13, PoolOthers
<1>14. CASE SetClock \/ UNCHANGED vars
  BY <1>14, PoolKept DEF SetClock, vars, db, mem, pools
<1> HIDE DEF P
<1>15. CASE BlockThread
  BY <1>5, <1>6, <1>7, <1>8, <1>9, <1>10, <1>15 DEF BlockThread
<1> QED BY <1>3, <1>4, <1>10, <1>11, <1>12, <1>13, <1>14, <1>15, Zenon DEF Next

\* Between two blocks no transaction is both in the pool and in the committed chain,
\* after any number of blocks, reorganisations and refused branches: when transactions
\* reach the node through the pool, each spends something, nothing throws or crashes,
\* no block is erased through a dead iterator, and the clock is never set back.
THEOREM PoolIsDisjoint ==
  ASSUME ThroughPool
  PROVE  Spec /\ Steady /\ []ErasedOnce => []PoolDisjointMain
<1>1. Init => PoolInv
  BY DEF Init, PoolInv, Disjoint, Guarded, AltAtHand, BareCall, InCall
<1>2. IndInv /\ ReorgInv /\ SteadyInv /\ AltTxsCount /\ AltBranchSpendsOnce /\ PoolInv /\ [Next]_vars => PoolInv'
  BY PoolStep
<1>3. ReorgInv /\ PoolInv => PoolDisjointMain
  <2> SUFFICES ASSUME ReorgInv, PoolInv, pc = "idle", NEW t \in pool PROVE com.txdb[t] = 0
    BY DEF PoolDisjointMain
  <2>1. com.txdb = txdb
    BY DEF ReorgInv, RouteInv, PlaceInv, View
  <2> QED BY <2>1 DEF PoolInv, Disjoint
<1> QED BY <1>1, <1>2, <1>3, Invariance, ReorganisationOnRoute, SteadyInvariance, AltTxsAlwaysCount,
        AltBranchesSpendOnce, PTL DEF Spec

=============================================================================
