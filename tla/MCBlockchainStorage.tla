------------------------ MODULE MCBlockchainStorage ------------------------
(***************************************************************************)
(* Instances of BlockchainStorage for TLC.  The block tree:                *)
(*                                                                         *)
(*             /- a1{t1} - a2{t2} - a3{}                                   *)
(*     Genesis                                                             *)
(*             \- b1{t3} - b2{t1} - b3{}                                   *)
(*                       \ c2{t4} - c3{}                                   *)
(*                       \ d2{t2}                                          *)
(*             \- e1{t5}                                                   *)
(*                                                                         *)
(* a2 and b2 are PoS blocks with the same stake and the same cumulative    *)
(* difficulty, so that the proof hashes decide between them; t2 and t3     *)
(* spend the same key image, so d2 is a double spend on its branch and a2  *)
(* conflicts with b1; t1 is in both branches; t4 has wrong proofs and t5   *)
(* inputs that refer to nothing.                                           *)
(***************************************************************************)
EXTENDS BlockchainStorage, TLC

CONSTANTS a1, a2, a3, b1, b2, b3, c2, c3, d2, e1, g, t1, t2, t3, t4, t5, k1, k2, k3, k4

AllBlocks   == { a1, a2, a3, b1, b2, b3, c2, c3, d2, e1 }
TwoBranches == { a1, a2, b1, b2, b3 }
ThreeForks  == { a1, a2, b1, b2, c2, c3, d2 }

ParentOf == (a1 :> g) @@ (a2 :> a1) @@ (a3 :> a2) @@ (b1 :> g) @@ (b2 :> b1) @@ (b3 :> b2)
              @@ (c2 :> b1) @@ (c3 :> c2) @@ (d2 :> b1) @@ (e1 :> g)
BranchOf == (g :> <<>>) @@ (a1 :> << a1 >>) @@ (a2 :> << a1, a2 >>) @@ (a3 :> << a1, a2, a3 >>)
              @@ (b1 :> << b1 >>) @@ (b2 :> << b1, b2 >>) @@ (b3 :> << b1, b2, b3 >>)
              @@ (c2 :> << b1, c2 >>) @@ (c3 :> << b1, c2, c3 >>) @@ (d2 :> << b1, d2 >>) @@ (e1 :> << e1 >>)
Restricted(f, S) == [x \in S |-> f[x]]
MCParent == Restricted(ParentOf, Block)
MCBranch == Restricted(BranchOf, Block \cup {g})

Txs      == { t1, t2, t3, t4, t5 }
Kis      == { k1, k2, k3, k4 }
MCTxsOf  == [b \in Block |-> CASE b = a1 -> << t1 >> [] b = a2 -> << t2 >> [] b = b1 -> << t3 >>
                               [] b = b2 -> << t1 >> [] b = c2 -> << t4 >> [] b = d2 -> << t2 >>
                               [] b = e1 -> << t5 >> [] OTHER -> <<>>]
MCKiTx   == (t1 :> {k1}) @@ (t2 :> {k2}) @@ (t3 :> {k2}) @@ (t4 :> {k4}) @@ (t5 :> {k4})
MCStake  == [b \in Block |-> IF b \in {a2, b2} THEN {k3} ELSE {}]
MCDiff   == [b \in Block \cup {g} |->
               CASE b = g -> 0 [] b \in {a1, b1} -> 2 [] b \in {a2, b2} -> 4
                 [] b = c2 -> 3 [] b = d2 -> 3 [] b = c3 -> 7 [] b = b3 -> 6 [] b = a3 -> 6 [] b = e1 -> 1]
\* b1 alone outweighs every other branch.
HeavyB1  == [b \in Block \cup {g} |-> IF b = b1 THEN 9 ELSE IF b \in {b2, b3} THEN 10 ELSE MCDiff[b]]
MCProof  == [b \in Block |-> CASE b = a1 -> 1 [] b = a2 -> 2 [] b = b1 -> 3 [] b = b2 -> 4
                               [] b = b3 -> 5 [] b = c2 -> 6 [] b = c3 -> 7 [] b = d2 -> 8 [] b = a3 -> 9 [] b = e1 -> 10]
MCStamp  == [b \in Block |-> IF b \in {a2, a3} THEN 3 ELSE 1]
OnlyB3   == { b3 }
OnlyA3   == { a3 }
OnlyD2   == { d2 }
OnlyT4   == { t4 }
OnlyT5   == { t5 }
NoBlock  == {}
=============================================================================
