------------------------------ MODULE MCWallet ------------------------------
(* An instance of Wallet for TLC. *)
EXTENDS Wallet

\* The account is paid by r, in a1 and in b1.  s, sent by this wallet, spends that output
\* and returns change; u, sent by another copy of the wallet, and k, the miner
\* transaction of a PoS block, spend the same output.
MCBlocks == {"g", "a1", "a2", "a3", "a4", "a5", "b1", "c2", "d2"}
MCParent == [b \in MCBlocks \ {"g"} |->
  CASE b \in {"a1", "b1"} -> "g" [] b \in {"a2", "c2", "d2"} -> "a1" [] b = "a3" -> "a2"
    [] b = "a4" -> "a3" [] b = "a5" -> "a4"]
MCWeight == [b \in MCBlocks |->
  CASE b = "g" -> 0 [] b = "a1" -> 1 [] b = "a2" -> 2 [] b = "c2" -> 3 [] b = "d2" -> 4
    [] b = "a3" -> 5 [] b = "a4" -> 6 [] b = "a5" -> 7 [] b = "b1" -> 8]
MCTxs == {"r", "s", "u", "k"}
MCTxsOf == [b \in MCBlocks |->
  CASE b \in {"a1", "b1"} -> << "r" >> [] b = "a2" -> << "s" >>
    [] b = "c2" -> << "k" >> [] OTHER -> << >>]
MCIns == [t \in MCTxs |-> IF t = "r" THEN {} ELSE {"o1"}]
MCOuts == [t \in MCTxs |->
  CASE t = "r" -> {"o1"} [] t = "s" -> {"o2"} [] t = "k" -> {"o3"} [] t = "u" -> {}]
MCBatches == {3}

\* A taller tree and one payment, in a2 and in c2, for following the chain.
LongBlocks == {"g", "a1", "a2", "a3", "a4", "b3", "b4", "b5", "c1", "c2", "c3"}
LongParent == [b \in LongBlocks \ {"g"} |->
  CASE b \in {"a1", "c1"} -> "g" [] b = "a2" -> "a1" [] b \in {"a3", "b3"} -> "a2"
    [] b = "a4" -> "a3" [] b = "b4" -> "b3" [] b = "b5" -> "b4" [] b = "c2" -> "c1" [] b = "c3" -> "c2"]
LongWeight == [b \in LongBlocks |->
  CASE b = "g" -> 0 [] b = "a1" -> 1 [] b = "a2" -> 2 [] b = "a3" -> 3 [] b = "a4" -> 4
    [] b = "b3" -> 5 [] b = "b4" -> 6 [] b = "b5" -> 7 [] b = "c1" -> 2 [] b = "c2" -> 6 [] b = "c3" -> 8]
LongTxs == {"r"}
LongTxsOf == [b \in LongBlocks |-> IF b \in {"a2", "c2"} THEN << "r" >> ELSE << >>]
LongBatches == {2, 3}
=============================================================================
