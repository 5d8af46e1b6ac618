------------------------------- MODULE MCLevin -------------------------------
(* Instances of Levin for TLC. *)
EXTENDS Levin

CONSTANTS c1, c2, s1, n1

TwoAsync == { c1, c2 }
OneAsync == { c1 }
OneSync  == { s1 }
OneNotify == { n1 }
NoCall   == {}
=============================================================================
