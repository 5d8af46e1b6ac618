------------------------------ MODULE MCTxPool ------------------------------
(***************************************************************************)
(* Instances of TxPool for TLC.  The block tree:                           *)
(*                                                                         *)
(*             /- a1{t1} - a2{t3}                                          *)
(*     Genesis                                                             *)
(*             \- b1{t2} - b2                                              *)
(*                      \- c2{t1}                                          *)
(*                                                                         *)
(* t1 and t2 spend the same key image, so that c2 is refused; t3 spends an *)
(* output of t1.  The run has all of them but a2.                          *)
(***************************************************************************)
EXTENDS TxPool, TLC

CONSTANTS t1, t2, t3, k1, k2, k3, a1, a2, b1, b2, c2

Txs      == { t1, t2, t3 }
Kis      == { k1, k2, k3 }
MCKiOf   == (t1 :> {k1}) @@ (t2 :> {k1, k2}) @@ (t3 :> {k3})
MCRef    == (t1 :> None) @@ (t2 :> None) @@ (t3 :> t1)
AllBlocks == { a1, a2, b1, b2, c2 }
Tree     == AllBlocks \ { a2 }
ParentOf == (a1 :> Genesis) @@ (a2 :> a1) @@ (b1 :> Genesis) @@ (b2 :> b1) @@ (c2 :> b1)
TxIn     == (a1 :> t1) @@ (a2 :> t3) @@ (b1 :> t2) @@ (b2 :> None) @@ (c2 :> t1)
MCParent == [b \in Block |-> ParentOf[b]]
MCTxOf   == [b \in Block |-> TxIn[b]]
MCHeight == [b \in Block \cup {Genesis} |-> IF b = Genesis THEN 0 ELSE IF b \in {a1, b1} THEN 1 ELSE 2]
NoTx     == {}
OnlyT2   == { t2 }
=============================================================================
