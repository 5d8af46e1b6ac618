---------------------------- MODULE MCDbAccessor ----------------------------
(***************************************************************************)
(* Instances of DbAccessor for TLC.  Guarded threads are users of          *)
(* blockchain_storage; without guarded threads it is the database of the   *)
(* transaction pool.                                                       *)
(***************************************************************************)
EXTENDS DbAccessor, TLC

CONSTANTS t1, t2, k1, k2, v1, v2

TwoThreads   == { t1, t2 }
TwoKeys      == { k1, k2 }
TwoValues    == { v1, v2 }

\* Threads, and values, are interchangeable.
Symmetric == Permutations(Thread) \cup Permutations(Value) \cup Permutations(Key)
=============================================================================
