---------------------------- MODULE MCLogSlots ----------------------------
(* Threads are interchangeable; slots are not, as the first free one is     *)
(* taken.                                                                  *)
EXTENDS LogSlots, TLC

Symmetry == Permutations(Thread)

=============================================================================
