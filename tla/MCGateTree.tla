----------------------------- MODULE MCGateTree -----------------------------
(* Two clients of one gate, with one operator and the second leaf x = b of *)
(* its tree, which is also what the other recipes list.                    *)
EXTENDS GateTree, TLC

CONSTANTS a, b, x

MCExtra == [o \in Operator |-> x]
MCSymmetry == Permutations(Proc)

\* The locals of a recipe are gone when it has ended, but what history asks of
\* the last one.
MCView ==
  <<fork, at, history,
    [p \in Proc |-> IF AtRest(p) THEN NoTree ELSE seen[p]],
    [p \in Proc |-> IF AtRest(p) /\ p # solo THEN <<>> ELSE <<job[p], failed[p]>>]>>
=============================================================================
