---------------------------- MODULE MCStateFile -----------------------------
(* StateFile for TLC: keys with two values each, so that the store of a    *)
(* running service, a snapshot and the store it is compared with can       *)
(* differ in what they have and in what they have it mapped to.            *)
EXTENDS StateFile, TLC

CONSTANTS k1, k2, v1, v2, c1, c2
=============================================================================
