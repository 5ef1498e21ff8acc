---------------------------- MODULE MCClientMap ----------------------------
(* Instances of ClientMap for TLC. *)
EXTENDS ClientMap, TLC

CONSTANTS c1, c2, tx1, tx2, rx1, e1, e2, t1, t2

TwoSenders == t1 :> tx1 @@ t2 :> tx1

Symmetry == Permutations(Cpus) \union Permutations(Elements)
=============================================================================
