----------------------------- MODULE MCHostInit -----------------------------
(* Three runs of init.sh and two pages that curl may fetch, for TLC. *)
EXTENDS HostInit, TLC

(* Runs differ in nothing but their names, and so do the pages. *)
HostSymmetry == Permutations(Runs) \cup Permutations(Pages)
=============================================================================
