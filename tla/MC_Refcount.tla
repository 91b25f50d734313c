---------------------------- MODULE MC_Refcount ----------------------------
(* Model-checking instance of Refcount: two addresses, three ties and a   *)
(* counter that saturates at 2, so that three ties holding one object     *)
(* exceed the ni_refcount_t limit.                                        *)
EXTENDS Refcount, TLC

CONSTANTS o1, o2, s1, s2, s3

MC_Objects == {o1, o2}
MC_Slots   == {s1, s2, s3}
MC_MaxRef  == 2

MC_Symmetry == Permutations(MC_Objects) \cup Permutations(MC_Slots)
=============================================================================
