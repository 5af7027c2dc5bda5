------------------------------ MODULE MCVtsShm ------------------------------
(* Instances of VtsShm for TLC: two workers with one location each, one    *)
(* server zone and two filter zones.                                       *)
EXTENDS VtsShm, TLC

CONSTANTS w1, w2, c1, c2, srv, fa, fb

MCOwner == c1 :> w1 @@ c2 :> w2
MCTypeOf == srv :> "NO" @@ fa :> "FG" @@ fb :> "FG"
MCLimited == {fa, fb}

(* Distinct non-zero hashes. *)
DistinctHash == srv :> 1 @@ fa :> 2 @@ fb :> 3

PageSymmetry == Permutations(Slots)
=============================================================================
