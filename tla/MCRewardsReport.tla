-------------------------- MODULE MCRewardsReport --------------------------
(* Two clients, one operator with one key at most, three members of whom   *)
(* two are the fast lane and two decide.                                   *)
(* Frames of two slots begin at time 2; MaxTime leaves room for reports in *)
(* two of them, one chained on the other.                                  *)
EXTENDS RewardsReport, TLC

CONSTANTS m1, m2, m3
MCMembers == <<m1, m2, m3>>
MCFastLane == <<m1, m2>>
MCSymmetry == Permutations(Client) \cup Permutations(Operator)

\* The run that AloneSubmits is about, till the next one begins.
Watched == IF disturbed THEN Nobody ELSE solo
\* A slot the clock has left is like any other.
Present(ref) == Begun(now) /\ ref = FrameRefSlot(now)

\* Left out: what a client's run does not read again, and history without Watched.
Locals(p) ==
  LET j == job[p]
  IN CASE At(p, "idle") -> IF p = Watched THEN <<j.prev, j.delta, j.report, end[p]>> ELSE <<>>
       [] pc[p] \in {"read", "build"} -> <<j.prev, j.unread, j.delta>>
       [] pc[p] \in {"pending", "epoch", "warpInitial", "frame", "reread"} -> <<j.prev, j.delta>>
       [] pc[p] = "fund" -> <<j.prev, j.delta, j.need>>
       [] pc[p] \in {"wait", "warp"} -> <<j.prev, j.delta, j.ref>>
       [] OTHER -> <<j.prev, j.delta, Present(j.ref), j.i>>
\* The others' votes weigh nothing in a slot the clock has left.
Weighed == [m \in Voter |-> IF Present(votes[m].ref) THEN votes[m] ELSE NoVote]
MCView ==
  <<now, active, Weighed, Present(processed), pending, tree,
    [o \in Operator |-> paid[o] + over[o]], pc, [p \in Client |-> Locals(p)],
    Watched, IF Watched = Nobody THEN <<>> ELSE <<changed, start>> >>
=============================================================================
