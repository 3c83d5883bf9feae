------------------------------ MODULE MCMqueue ------------------------------
(* Mqueue for TLC: the members of each set are interchangeable. *)
EXTENDS Mqueue, TLC

Symmetry ==
    Permutations(Threads) \cup Permutations(Objs)
        \cup Permutations(Descs) \cup Permutations(Names)
=============================================================================
