------------------------------- MODULE Ledger -------------------------------
(***************************************************************************)
(* What blockchain_storage promises to everyone who reads the committed    *)
(* main chain: it is a chain of linked blocks in which no key image is     *)
(* spent twice, it grows by one block at its top, and apart from the       *)
(* operator's truncation it is only ever replaced, in one step, by the     *)
(* branch of a block that the fork choice prefers to its top.              *)
(***************************************************************************)
EXTENDS Naturals, Sequences

CONSTANTS Block, Genesis, Parent, Branch, KiOf(_), Better(_, _), TruncateTo

VARIABLE ledger

Tip == IF ledger = <<>> THEN Genesis ELSE ledger[Len(ledger)]

SpentOnce(c) == \A i, j \in 1..Len(c) : i # j => KiOf(c[i]) \cap KiOf(c[j]) = {}

Init == ledger = <<>>

Extend ==
  \E b \in Block : Parent[b] = Tip /\ ledger' = Append(ledger, b) /\ SpentOnce(ledger')

Replace ==
  \E b \in Block : Better(Tip, b) /\ ledger' = Branch[b] /\ SpentOnce(ledger')

Truncate ==
  \E n \in TruncateTo : n < Len(ledger) /\ ledger' = SubSeq(ledger, 1, n)

Next == Extend \/ Replace \/ Truncate

Spec == Init /\ [][Next]_ledger
=============================================================================
