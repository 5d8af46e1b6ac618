----------------------- MODULE MCSharedRecursiveMutex -----------------------
(* An instance of SharedRecursiveMutex for TLC. *)
EXTENDS SharedRecursiveMutex

CONSTANTS t1, t2, t3

ThreeThreads == {t1, t2, t3}
OneUpgrader  == {t1}
=============================================================================
