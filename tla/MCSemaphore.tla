---------------------------- MODULE MCSemaphore -----------------------------
(* Semaphore for TLC: three handles, two names and one unnamed semaphore. *)
EXTENDS Semaphore, TLC

Symmetry == Permutations(Threads) \cup Permutations(Handles) \cup Permutations(Objs)
              \cup Permutations(Names)
=============================================================================
