------------------------------ MODULE GateTree ------------------------------
(***************************************************************************)
(* The recipes that change an entry gate on a fork (tools/recipes): set a  *)
(* gate's allow-list, add to it, create an operator through a curated or a *)
(* vetted gate, pause and resume.  A recipe is a process: each RPC is a    *)
(* step, and other recipes may run between any two.  actAs brackets the    *)
(* transactions; the fork keeps the impersonation flags, one per account,  *)
(* and the gate: its tree and whether it is paused.                        *)
(*                                                                         *)
(* The root stands for the set of leaves it commits to; grants of roles    *)
(* belong to the transaction they precede.  An RPC may be lost on the way  *)
(* there or on the way back, a creation refused, a recipe killed.          *)
(***************************************************************************)
CONSTANTS
  Leaf,      \* addresses an allow-list may hold
  Operator,  \* those that recipes create node operators for
  Extra,     \* Extra[a]: the second leaf of a's temporary tree
  Lists,     \* the allow-lists and additions recipes are called with
  Admin,     \* the account every gate role is granted to
  Proc,      \* the clients that run recipes
  Nobody

ASSUME GateAssumption ==
  /\ Operator \subseteq Leaf
  /\ Extra \in [Operator -> Leaf]
  /\ Lists \subseteq (SUBSET Leaf) \ {{}}
  /\ Admin \notin Operator
  /\ Nobody \notin Proc

\* What the on-chain CID leads to; only a real one can be fetched.
Cid == [kind : {"pinned"}, of : SUBSET Leaf] \cup [kind : {"unset", "temp"}, of : {{}}]
Tree == [root : SUBSET Leaf, cid : Cid]
Pinned(S) == [root |-> S, cid |-> [kind |-> "pinned", of |-> S]]
Temp(a) == [root |-> {a, Extra[a]}, cid |-> [kind |-> "temp", of |-> {}]]
NoTree == [root |-> {}, cid |-> [kind |-> "unset", of |-> {}]]

Job == [kind : {"set", "add"}, list : Lists, who : {Admin}]
         \cup {[kind |-> k, list |-> {a}, who |-> a] :
                 k \in {"curated", "vetted"}, a \in Operator}
         \cup [kind : {"pause", "resume"}, list : {{}}, who : {Admin}]
NoJob == [kind |-> "pause", list |-> {}, who |-> Admin]

Section == {"read", "install", "open", "create", "restore", "switch"}
Call == {"root", "cid", "impersonate", "look", "unpause", "try", "write", "stop"}
Rest == [section |-> "none", call |-> "none"]
At == [section : Section, call : Call] \cup {Rest}

VARIABLES
  tree,          \* the gate's treeRoot and treeCid
  paused,        \* its isPaused
  impersonated,  \* accounts the fork signs for
  job,           \* job[p]: what p runs or ran last
  at,            \* at[p]: the section of the recipe and the RPC it is about to send
  seen,          \* seen[p]: the tree as p read it, root and CID in turn
  failed,        \* failed[p]: an error is on its way to, or reached, the caller
  solo,          \* the process whose latest run has not overlapped another (history)
  before,        \* the tree when that run started (history)
  faults,        \* the sections in which it met a fault, or "killed" (history)
  stuck          \* accounts whose stop was never delivered (history)

fork == <<tree, paused, impersonated>>
history == <<solo, before, faults, stuck>>
vars == <<fork, job, at, seen, failed, history>>

TypeOK ==
  /\ tree \in Tree
  /\ paused \in BOOLEAN
  /\ impersonated \subseteq Operator \cup {Admin}
  /\ job \in [Proc -> Job]
  /\ at \in [Proc -> At]
  /\ seen \in [Proc -> Tree]
  /\ failed \in [Proc -> BOOLEAN]
  /\ solo \in Proc \cup {Nobody}
  /\ before \in Tree
  /\ faults \subseteq Section \cup {"killed"}
  /\ stuck \subseteq Operator \cup {Admin}

\* A fork starts with the live gate, which may not have been set up yet.
Init ==
  /\ tree \in {Pinned(S) : S \in Lists} \cup {NoTree}
  /\ paused \in BOOLEAN
  /\ impersonated = {}
  /\ job = [p \in Proc |-> NoJob]
  /\ at = [p \in Proc |-> Rest]
  /\ seen = [p \in Proc |-> NoTree]
  /\ failed = [p \in Proc |-> FALSE]
  /\ solo = Nobody
  /\ before = NoTree
  /\ faults = {}
  /\ stuck = {}

-----------------------------------------------------------------------------
(* The order of a recipe.                                                  *)

AtRest(p) == at[p].section = "none"
Adds(j) == j.kind \in {"add", "vetted"}

Entry(j, s) ==
  CASE s = "read"               -> IF j.kind = "curated" THEN "root" ELSE "cid"
    [] s \in {"open", "switch"} -> "look"
    [] s = "create"             -> IF j.kind = "curated" THEN "try" ELSE "impersonate"
    [] OTHER                    -> "impersonate"

Enter(j, s) == IF s = "none" THEN Rest ELSE [section |-> s, call |-> Entry(j, s)]

First(j) ==
  CASE j.kind = "set"                -> "install"
    [] j.kind \in {"pause", "resume"} -> "switch"
    [] OTHER                         -> "read"

After(j, s) ==
  CASE s = "read"                             -> "install"
    [] s = "install" /\ j.kind = "vetted"     -> "open"
    [] s = "install" /\ j.kind = "curated"    -> "create"
    [] s = "open"                             -> "create"
    [] s = "create" /\ j.kind = "curated"     -> "restore"
    [] OTHER                                  -> "none"

\* Mutant: the original tree is put back on success only.
AfterErrorGiveUp(j, s) == "none"

\* try/finally around the creation through a curated gate, and nowhere else.
AfterError(j, s) == IF s = "create" /\ j.kind = "curated" THEN "restore" ELSE "none"

\* actAs: the RPCs between the answer to impersonate and the end of stop.
InBracket(j, a) ==
  \/ a.call \in {"write", "unpause", "stop"}
  \/ a.section = "install" /\ a.call = "look"
  \/ a.call = "try" /\ j.kind = "vetted"

Account(p) == IF at[p].section = "create" THEN job[p].who ELSE Admin

Goto(p, c) == at' = [at EXCEPT ![p].call = c] /\ UNCHANGED failed
EnterSection(p, s) == at' = [at EXCEPT ![p] = Enter(job[p], s)] /\ UNCHANGED failed

\* Mutant: actAs without its finally.
ThrowPast(p) ==
  /\ failed' = [failed EXCEPT ![p] = TRUE]
  /\ at' = [at EXCEPT ![p] = Enter(job[p], AfterError(job[p], @.section))]

\* The error unwinds: to the finally of actAs, or past it.
Throw(p) ==
  /\ failed' = [failed EXCEPT ![p] = TRUE]
  /\ at' = [at EXCEPT ![p] =
              IF InBracket(job[p], @) /\ @.call # "stop" THEN [@ EXCEPT !.call = "stop"]
              ELSE Enter(job[p], AfterError(job[p], @.section))]

Note(k) == faults' = IF solo = Nobody THEN {} ELSE faults \cup {k}

-----------------------------------------------------------------------------
(* What the recipes read and decide.                                       *)

Start(p, j) ==
  /\ AtRest(p)
  /\ job' = [job EXCEPT ![p] = j]
  /\ at' = [at EXCEPT ![p] = Enter(j, First(j))]
  /\ seen' = [seen EXCEPT ![p] = NoTree]
  /\ failed' = [failed EXCEPT ![p] = FALSE]
  /\ IF \A q \in Proc \ {p} : AtRest(q)
     THEN solo' = p /\ before' = tree
     ELSE solo' = Nobody /\ before' = NoTree
  /\ faults' = {}
  /\ UNCHANGED <<fork, stuck>>

ReadRoot(p) ==
  /\ at[p].call = "root"
  /\ seen' = [seen EXCEPT ![p].root = tree.root]
  /\ Goto(p, "cid")
  /\ UNCHANGED <<fork, job, history>>

\* Mutant: without the no-op guard.
ReadCidUnguarded(p) ==
  /\ at[p].call = "cid"
  /\ seen' = [seen EXCEPT ![p].cid = tree.cid]
  /\ EnterSection(p, "install")
  /\ UNCHANGED <<fork, job, history>>

\* addGateAddrs goes on without a write when it has nothing to add.
ReadCid(p) ==
  /\ at[p].call = "cid"
  /\ seen' = [seen EXCEPT ![p].cid = tree.cid]
  /\ EnterSection(p, IF Adds(job[p]) /\ job[p].list \subseteq tree.cid.of
                     THEN After(job[p], "install") ELSE "install")
  /\ UNCHANGED <<fork, job, history>>

\* isPaused, with what to do about it.
Look(p) ==
  /\ at[p].call = "look"
  /\ CASE at[p].section = "install" -> Goto(p, IF paused THEN "unpause" ELSE "write")
       [] at[p].section = "open" ->
            IF paused THEN Goto(p, "impersonate") ELSE EnterSection(p, "create")
       [] OTHER ->
            IF paused = (job[p].kind = "pause") THEN EnterSection(p, "none")
            ELSE Goto(p, "impersonate")
  /\ UNCHANGED <<fork, job, seen, history>>

\* Mutant: the new root beside the placeholder that was read.
TargetKeepsCid(p) ==
  IF at[p].section = "restore" THEN seen[p]
  ELSE CASE job[p].kind = "curated" -> Temp(job[p].who)
         [] Adds(job[p]) -> LET S == seen[p].cid.of \cup job[p].list
                            IN  [root |-> S, cid |-> [seen[p].cid EXCEPT !.of = S]]
         [] OTHER -> Pinned(job[p].list)

\* Mutant: the additions replace the list.
TargetReplaces(p) ==
  IF at[p].section = "restore" THEN seen[p]
  ELSE IF job[p].kind = "curated" THEN Temp(job[p].who)
  ELSE Pinned(job[p].list)

\* The tree that the recipe installs, or puts back.
Target(p) ==
  IF at[p].section = "restore" THEN seen[p]
  ELSE CASE job[p].kind = "curated" -> Temp(job[p].who)
         [] Adds(job[p])            -> Pinned(seen[p].cid.of \cup job[p].list)
         [] OTHER                   -> Pinned(job[p].list)

\* Whether the gate takes the transaction.  A proof opens the tree it was made for.
Installs(p) == at[p].call = "write" /\ at[p].section \in {"install", "restore"}
Accepts(p) ==
  /\ at[p].section = "create" => ~paused /\ tree.root = Target(p).root
  /\ at[p].call = "unpause"   => paused
  /\ at[p].section = "switch" => paused # (job[p].kind = "pause")
  /\ Installs(p)              => tree.root # Target(p).root

\* What is sent after impersonate and after a transaction.
AfterImpersonate(p) ==
  CASE at[p].section = "install" /\ job[p].kind = "curated" -> "look"
    [] at[p].section = "open"                               -> "unpause"
    [] at[p].section = "create" /\ job[p].kind = "vetted"   -> "try"
    [] OTHER                                                -> "write"
AfterDo(p) == IF at[p].section = "install" /\ at[p].call = "unpause" THEN "write" ELSE "stop"

-----------------------------------------------------------------------------
(* The RPCs that change the fork, and their answers.                       *)

BeginImpersonation(p) ==
  /\ impersonated' = impersonated \cup {Account(p)}
  /\ UNCHANGED <<tree, paused>>

EndImpersonation(p) ==
  /\ impersonated' = impersonated \ {Account(p)}
  /\ UNCHANGED <<tree, paused>>

Transact(p) ==
  /\ Accepts(p)
  /\ Account(p) \in impersonated
  /\ tree' = IF Installs(p) THEN Target(p) ELSE tree
  /\ paused' = IF at[p].call = "unpause" THEN FALSE
               ELSE IF at[p].section = "switch" THEN job[p].kind = "pause"
               ELSE paused
  /\ UNCHANGED impersonated

Impersonate(p) ==
  /\ at[p].call = "impersonate"
  /\ BeginImpersonation(p)
  /\ Goto(p, AfterImpersonate(p))
  /\ UNCHANGED <<job, seen, history>>

\* simulateContract: an eth_call, from whatever account it names.
Simulate(p) ==
  /\ at[p].call = "try"
  /\ Accepts(p)
  /\ Goto(p, IF job[p].kind = "vetted" THEN "write" ELSE "impersonate")
  /\ UNCHANGED <<fork, job, seen, history>>

Do(p) ==
  /\ at[p].call \in {"write", "unpause"}
  /\ Transact(p)
  /\ Goto(p, AfterDo(p))
  /\ UNCHANGED <<job, seen, history>>

Stop(p) ==
  /\ at[p].call = "stop"
  /\ EndImpersonation(p)
  /\ EnterSection(p, IF failed[p] THEN AfterError(job[p], at[p].section)
                     ELSE After(job[p], at[p].section))
  /\ stuck' = stuck \ {Account(p)}
  /\ UNCHANGED <<job, seen, solo, before, faults>>

\* The gate reverts, or the fork has no key for the sender.
Reject(p) ==
  /\ at[p].call \in {"try", "write", "unpause"}
  /\ \/ ~Accepts(p)
     \/ at[p].call # "try" /\ Account(p) \notin impersonated
  /\ Throw(p)
  /\ UNCHANGED <<fork, job, seen, history>>

\* The module behind the gate refuses the operator.
RefuseCreation(p) ==
  /\ at[p].section = "create" /\ at[p].call \in {"try", "write"}
  /\ Throw(p)
  /\ Note("create")
  /\ UNCHANGED <<fork, job, seen, solo, before, stuck>>

-----------------------------------------------------------------------------
(* Faults.                                                                 *)

LoseRequest(p) ==
  /\ ~AtRest(p)
  /\ Throw(p)
  /\ Note(at[p].section)
  /\ stuck' = IF at[p].call = "stop" THEN stuck \cup {Account(p)} ELSE stuck
  /\ UNCHANGED <<fork, job, seen, solo, before>>

LoseReply(p) ==
  /\ \/ at[p].call = "impersonate" /\ BeginImpersonation(p)
                                   /\ stuck' = stuck \cup {Account(p)}
     \/ at[p].call = "stop" /\ EndImpersonation(p) /\ stuck' = stuck \ {Account(p)}
     \/ at[p].call \in {"write", "unpause"} /\ Transact(p) /\ UNCHANGED stuck
  /\ Throw(p)
  /\ Note(at[p].section)
  /\ UNCHANGED <<job, seen, solo, before>>

Die(p) ==
  /\ ~AtRest(p)
  /\ at' = [at EXCEPT ![p] = Rest]
  /\ failed' = [failed EXCEPT ![p] = TRUE]
  /\ Note("killed")
  /\ stuck' = IF InBracket(job[p], at[p]) THEN stuck \cup {Account(p)} ELSE stuck
  /\ UNCHANGED <<fork, job, seen, solo, before>>

-----------------------------------------------------------------------------
Step(p) ==
  \/ ReadRoot(p) \/ ReadCid(p) \/ Look(p)
  \/ Impersonate(p) \/ Simulate(p) \/ Do(p) \/ Stop(p)
  \/ Reject(p) \/ RefuseCreation(p)
  \/ LoseRequest(p) \/ LoseReply(p) \/ Die(p)

Next == \E p \in Proc : Step(p) \/ \E j \in Job : Start(p, j)

Spec == Init /\ [][Next]_vars

-----------------------------------------------------------------------------
(* Properties.                                                             *)

\* The CID leads to the leaves of the root, or there are none.
Listed(t) == t.root = t.cid.of

SoloKind(K) == solo # Nobody /\ job[solo].kind \in K
SoloEnded == AtRest(solo)

\* createCuratedOperator leaves the gate's original tree behind when no other
\* recipe runs meanwhile, even though root and CID are read apart and the
\* creation may fail at any point; a fault while it installs or restores the
\* tree, or a kill, is not covered by its finally (cm/index.ts:92-121).
RestoredWhenAlone ==
  SoloKind({"curated"}) /\ SoloEnded /\ faults \subseteq {"read", "create"} => tree = before

\* addGateAddrs, alone or inside createCsmOperator, keeps every member of a
\* gate whose CID leads to its members, at every moment and whatever fails, and
\* has added the new ones if it reports success (add-gate.ts:36-46).
AddKeepsMembers ==
  SoloKind({"add", "vetted"}) /\ Listed(before) =>
    /\ before.root \subseteq tree.root
    /\ SoloEnded /\ ~failed[solo] => job[solo].list \subseteq tree.root

\* setTreeParams reverts on the root it already has (add-gate.ts:42-43): only a
\* replacement by the same list, or a temporary tree equal to the original.
Unchanged(j, t) ==
  \/ j.kind = "set" /\ t.root = j.list
  \/ j.kind = "curated" /\ t.root = Temp(j.who).root

\* Without faults and without company, a recipe fails for an unchanged root and
\* for nothing else: what it finds paused it resumes, what it proves is what it
\* installed, whoever it sends for is still impersonated, and adding what is
\* there already is not an error.
AloneFailsOnlyUnchanged ==
  solo # Nobody /\ SoloEnded /\ faults = {} /\ Listed(before) =>
    (failed[solo] <=> Unchanged(job[solo], before))

\* actAs always stops impersonating (act-as.ts:10-11): once every recipe has
\* ended, however they overlapped and failed, the fork signs for nobody but
\* accounts whose stop never reached it.
NobodyLeftImpersonated ==
  (\A p \in Proc : AtRest(p)) => impersonated \subseteq stuck
=============================================================================
