---------------------------- MODULE MCKeyRecipes ----------------------------
(* Two clients, two operators of two keys; commands mixed by what they     *)
(* share.                                                                  *)
EXTENDS KeyRecipes, TLC

CONSTANTS o1, o2, x, y

\* A fork with so many keys added and deposited, the keys of o1 and o2 in turn.
MCFork(module, added, deposited) ==
  LET before(k) == {q \in Deposited([deposited |-> deposited]) :
                      q[2] < k[2] \/ (q[2] = k[2] /\ q[1] = o1 /\ k[1] = o2)}
  IN [module |-> module, added |-> added, vetted |-> added,
      limit |-> [o \in Operator |-> MaxKeys], deposited |-> deposited,
      turn |-> [k \in Key |-> IF k[2] < deposited[k[1]] THEN Cardinality(before(k)) + 1 ELSE 0],
      allocated |-> [k \in Key |-> 0], confirmed |-> {}, slashed |-> {}, withdrawn |-> {},
      manager |-> [o \in Operator |-> x], proposed |-> [o \in Operator |-> None],
      owes |-> {}, group |-> [o \in Operator |-> 0], share |-> [o \in Operator |-> 0],
      groups |-> 0, registered |-> module = "cm", source |-> TRUE, granted |-> FALSE,
      reported |-> 0, asking |-> None, until |-> 0, done |-> 0, day |-> 0]
Two(m, n) == [o \in Operator |-> IF o = o1 THEN m ELSE n]
With(names, about, flags, start) ==
  [commands |-> names, about |-> about, flags |-> flags, fork |-> start]
One == MCFork("cm", Two(1, 0), Two(1, 0))
Bare == MCFork("cm", Two(0, 0), Two(0, 0))

Both == MCFork("cm", Two(2, 0), Two(2, 0))
Undeposited == MCFork("cm", Two(2, 1), Two(0, 0))
Grouped(m, n) ==
  [Bare EXCEPT !.group = Two(m, n), !.share = [o \in Operator |-> IF Two(m, n)[o] = 0 THEN 0 ELSE AllBps],
               !.groups = IF n > m THEN n ELSE m]

MCScenario == {
  With({"deposit", "top-up-active-keys"}, {o1, o2}, {}, MCFork("csm02", Two(2, 1), Two(1, 0))),
  With({"top-up-active-keys", "increase-allocated-balance"}, {o1}, {}, Both),
  With({"top-up-active-keys", "withdraw"}, {o1}, {FALSE}, Both),
  With({"deposit", "unvet"}, {o1}, {}, Undeposited),
  With({"deposit", "remove-key"}, {o1}, {}, Undeposited),
  With({"unvet", "remove-key"}, {o1}, {}, Undeposited),
  With({"deposit", "set-target-limit"}, {o1}, BOOLEAN, Undeposited),
  With({"activate-keys", "report-balance"}, {o1}, {FALSE}, Both),
  With({"activate-keys", "withdraw"}, {o1}, {FALSE}, Both),
  With({"report-balance", "slash", "withdraw"}, {o1}, BOOLEAN, One),
  With({"add-keys", "confirm-manager"}, {o1}, {},
       [MCFork("cm", Two(1, 0), Two(0, 0)) EXCEPT !.proposed[o1] = y]),
  With({"propose-manager", "confirm-manager"}, {o1}, {}, Bare),
  With({"add-keys", "create-bond-debt", "add-bond"}, {o1}, {}, Bare),
  With({"add-keys", "settle-penalty"}, {o1}, {}, Bare),
  With({"report-penalty", "cancel-penalty", "settle-penalty", "compensate-penalty"}, {o1}, {}, Bare),
  With({"exit-request", "top-up-active-keys"}, {o1}, {TRUE}, One),
  With({"cl-activate", "increase-allocated-balance"}, {o1}, {TRUE}, One),
  With({"exit-request", "cl-activate"}, {o1}, BOOLEAN, One),
  With({"exit-request", "warp"}, {o1}, {FALSE}, One),
  With({"exit-request", "snapshot", "revert"}, {o1}, {TRUE}, One),
  With({"exit-request", "register-module"}, {o1}, {FALSE}, MCFork("csm02", Two(1, 0), Two(1, 0))),
  With({"register-module"}, {o1}, {}, [MCFork("csm02", Two(0, 0), Two(0, 0)) EXCEPT !.source = FALSE]),
  With({"create-operator-group"}, {o1}, {FALSE}, Grouped(1, 0)),
  With({"create-operator-group", "reset-operator-group"}, {o1}, {FALSE}, Grouped(1, 2)),
  With({"create-operator-group", "reset-operator-group"}, {o1}, {TRUE}, Grouped(1, 2))}

MCSymmetry == Permutations(Client)
\* Left out: how a run ended, and history that no step and no property asks for.
Undisturbed == solo # Nobody /\ ~disturbed /\ ~At(solo, "idle")
MCView ==
  <<fork, snap, impersonated, cl, pc, [p \in Client |-> IF At(p, "idle") THEN NoRun ELSE run[p]],
    scenario, IF Undisturbed THEN <<solo, begin>> ELSE <<>>, exited>>
=============================================================================
