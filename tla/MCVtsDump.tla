----------------------------- MODULE MCVtsDump -----------------------------
(* Instances of VtsDump for TLC: two or three workers and two zones.       *)
EXTENDS VtsDump, TLC

Symmetry == Permutations(Workers) \cup Permutations(Keys)
WorkerSymmetry == Permutations(Workers)
=============================================================================
