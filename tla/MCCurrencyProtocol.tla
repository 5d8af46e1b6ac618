------------------------- MODULE MCCurrencyProtocol -------------------------
(* Instances of CurrencyProtocol for TLC. *)
EXTENDS CurrencyProtocol

CONSTANTS p1, p2

\* A branch a of seven blocks and two heavy blocks that compete with it: x on the
\* genesis block, lighter than the whole branch only, and y on a1, heavier than all.
Branch == << "a1", "a2", "a3", "a4", "a5", "a6", "a7" >>
MCBlocks == {"g", "x", "y"} \cup Range(Branch)
MCParent == [b \in MCBlocks \ {"g"} |->
  CASE b \in {"x", "a1"} -> "g" [] b = "y" -> "a1"
    [] OTHER -> Branch[CHOOSE i \in 1 .. 6 : Branch[i + 1] = b]]
MCWeight == [b \in MCBlocks |->
  CASE b = "g" -> 0 [] b = "x" -> 13 [] b = "y" -> 15
    [] OTHER -> 2 * CHOOSE i \in 1 .. 7 : Branch[i] = b]
MCStarts == { [p \in Peers |-> IF p = p1 THEN "a7" ELSE "a5"] }
MCBatches == {4}

\* A branch a of four blocks, and a block y on a2 that outweighs the last two.
ForkBlocks == {"g", "a1", "a2", "a3", "a4", "y"}
ForkParent == [b \in ForkBlocks \ {"g"} |->
  CASE b = "a1" -> "g" [] b = "a2" -> "a1" [] b \in {"a3", "y"} -> "a2" [] b = "a4" -> "a3"]
ForkWeight == [b \in ForkBlocks |->
  CASE b = "g" -> 0 [] b = "a1" -> 2 [] b = "a2" -> 4 [] b = "a3" -> 6 [] b = "a4" -> 8 [] b = "y" -> 9]
ForkStarts == { [p \in Peers |-> "a4"] }
ForkBatches == {2}
=============================================================================
