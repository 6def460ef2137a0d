---------------------------- MODULE MCLifetime -----------------------------
(* A UI thread with two documents and two mode buttons. *)
EXTENDS Lifetime, TLC

CONSTANTS i1, i2, c1, c2, m1, m2, b1, b2

(* Neither threads, documents, addresses nor buttons are told apart. *)
Symmetry ==
  Permutations(Instances) \cup Permutations(Contexts)
  \cup Permutations(Addresses) \cup Permutations(Buttons)
=============================================================================
