---------------------------- MODULE MCIpfsMock ------------------------------
(* IpfsMock for TLC: two CIDs, so that one can be settled while a handler  *)
(* is interrupted on the other, and two requests, which may fetch the same *)
(* one; CIDs are interchangeable, and so are requests.                     *)
EXTENDS IpfsMock, TLC

CONSTANTS c1, c2, r1, r2

MCCid == {c1, c2}
MCSymmetry == Permutations(MCCid) \cup Permutations({r1, r2})
=============================================================================
