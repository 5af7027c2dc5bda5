----------------------------- MODULE MCVtsNode -----------------------------
(* Instances of VtsNode for TLC: two server zones and a zone of upstreams. *)
EXTENDS VtsNode, TLC

CONSTANTS s1, s2, u

TwoBuckets == <<2, 1>>
ServerSymmetry == Permutations({s1, s2})
=============================================================================
