-------------------------- MODULE MCThreadRegistry --------------------------
(* Instances of ThreadRegistry for TLC.                                    *)
EXTENDS ThreadRegistry, TLC

(* The threads other than Main, and the handles, are interchangeable.      *)
Symmetry ==
    Permutations(Thread \ {Main}) \cup Permutations(Handle)

=============================================================================
