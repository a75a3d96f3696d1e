--------------------------- MODULE GateTree_proofs --------------------------
(***************************************************************************)
(* Proofs about GateTree for any number of clients, operators and lists:   *)
(* type correctness, that nobody is left impersonated however the recipes  *)
(* overlap and fail, and, for a recipe that nothing overlaps, that the     *)
(* original tree is restored, that an addition keeps the members, and that *)
(* without faults it fails only where it leaves the gate unchanged.        *)
(***************************************************************************)
EXTENDS GateTree, TLAPS

\* The fork signs for whoever a bracket is open for, and for who was left.
Held ==
  \A acc \in impersonated :
    acc \in stuck \/ \E p \in Proc : InBracket(job[p], at[p]) /\ Account(p) = acc

\* While a run is alone, all others rest, and nobody ends its impersonation.
Company == solo # Nobody => \A q \in Proc \ {solo} : AtRest(q)
KeepsKey ==
  solo # Nobody /\ InBracket(job[solo], at[solo]) => Account(solo) \in impersonated

\* A curated creation on its own, section by section.
CuratedRun ==
  SoloKind({"curated"}) =>
    LET s == at[solo].section
        c == at[solo].call
        Original == tree = before
        Temporary == tree = Temp(job[solo].who) /\ before.root # Temp(job[solo].who).root
    IN  /\ s \in {"none", "read", "install", "create", "restore"}
        /\ s = "read" => /\ c \in {"root", "cid"}
                         /\ Original /\ ~failed[solo]
                         /\ c = "cid" => seen[solo].root = before.root
        /\ s = "install" => /\ c \in {"impersonate", "look", "unpause", "write", "stop"}
                            /\ c # "stop" => ~failed[solo]
        /\ s = "create" => c \in {"try", "impersonate", "write", "stop"}
        /\ s = "restore" => c \in {"impersonate", "write", "stop"}
        /\ s \in {"install", "create", "restore"} => seen[solo] = before
        /\ faults \subseteq {"read", "create"} =>
             /\ s = "none" => Original
             /\ s = "install" => IF c = "stop" /\ ~failed[solo] THEN Temporary ELSE Original
             /\ s = "create" => Temporary
             /\ s = "restore" => IF c = "stop" THEN Original ELSE Temporary

\* An addition on its own, section by section.
AddRun ==
  SoloKind({"add", "vetted"}) /\ Listed(before) =>
    LET s == at[solo].section
        c == at[solo].call
        Grown == Pinned(before.root \cup job[solo].list)
    IN  /\ s \notin {"restore", "switch"}
        /\ s = "read" <=> c \in {"root", "cid"}
        /\ s = "read" => tree = before
        /\ s = "install" => seen[solo].cid = before.cid
        /\ tree \in {before, Grown}
        /\ ~failed[solo] /\ s # "read" /\ (s = "install" => c = "stop")
             => job[solo].list \subseteq tree.root

\* The tree that job j installs in a gate with tree t.
New(j, t) ==
  CASE j.kind = "curated" -> Temp(j.who)
    [] Adds(j)            -> Pinned(t.cid.of \cup j.list)
    [] OTHER              -> Pinned(j.list)

\* A run of j on its own and without faults that began with tree b: a is where it
\* is, f whether it has failed, sn the tree it has read, t the tree there is, pz
\* whether the gate is paused.
Clean(j, a, f, sn, t, pz, b) ==
  LET s == a.section
      c == a.call
      w == Unchanged(j, b)
  IN  /\ f => w /\ (s = "none" \/ (s = "install" /\ c = "stop"))
      /\ s = "none" /\ w => f
      /\ s = "read" => t = b /\ c \in {"root", "cid"} /\ j.kind \in {"add", "curated", "vetted"}
      /\ s = "install" =>
           /\ c \in {"impersonate", "look", "unpause", "write", "stop"}
           /\ j.kind \in {"set", "add", "curated", "vetted"}
           /\ Adds(j) => sn.cid = b.cid /\ ~(j.list \subseteq b.cid.of)
           /\ c \in {"look", "unpause"} => j.kind = "curated"
           /\ c = "unpause" => pz
           /\ c \in {"write", "stop"} /\ j.kind = "curated" => ~pz
           /\ c # "stop" => t = b
           /\ c = "stop" /\ ~f => t = New(j, b) /\ ~w
      /\ s = "open" =>
           /\ c \in {"look", "impersonate", "unpause", "stop"}
           /\ j.kind = "vetted" /\ sn.cid = b.cid /\ t.root = New(j, b).root
           /\ c \in {"impersonate", "unpause"} => pz
           /\ c = "stop" => ~pz
      /\ s = "create" =>
           /\ c \in {"try", "impersonate", "write", "stop"}
           /\ j.kind \in {"curated", "vetted"}
           /\ j.kind = "vetted" => sn.cid = b.cid
           /\ ~pz /\ t.root = New(j, b).root /\ ~w
      /\ s = "restore" =>
           /\ c \in {"impersonate", "write", "stop"}
           /\ j.kind = "curated" /\ ~w
           /\ c # "stop" => t.root = New(j, b).root
      /\ s = "switch" =>
           /\ c \in {"look", "impersonate", "write", "stop"}
           /\ j.kind \in {"pause", "resume"}
           /\ c \in {"impersonate", "write"} => (pz <=> j.kind = "resume")

CleanRun ==
  solo # Nobody /\ faults = {} /\ Listed(before) =>
    Clean(job[solo], at[solo], failed[solo], seen[solo], tree, paused, before)

\* The inductive invariant.
IInv == TypeOK /\ Held /\ Company /\ KeepsKey /\ CuratedRun /\ AddRun /\ CleanRun

-----------------------------------------------------------------------------
(* Types.                                                                  *)

\* Entering a section leaves a process at one of its RPCs, or at rest.
LEMMA EnterTypes ==
  ASSUME NEW j, NEW s \in Section \cup {"none"}
  PROVE  Enter(j, s) \in At
<1>1. Entry(j, s) \in Call
  BY DEF Entry, Call
<1> QED
  BY <1>1 DEF Enter, At

\* The section that follows another is a section.
LEMMA AfterTypes ==
  ASSUME NEW j, NEW s
  PROVE  /\ After(j, s) \in Section \cup {"none"}
         /\ AfterError(j, s) \in Section \cup {"none"}
BY DEF After, AfterError, Section

\* Fields of a job.
LEMMA JobTypes ==
  ASSUME NEW j \in Job
  PROVE  /\ j.who \in Operator \cup {Admin}
         /\ j.list \subseteq Leaf
         /\ j.kind \in {"set", "add", "curated", "vetted", "pause", "resume"}
         /\ j.kind \in {"curated", "vetted"} => j.who \in Operator
BY GateAssumption DEF Job

\* What a recipe installs is a tree, and the account it sends from is known.
LEMMA TargetTypes ==
  ASSUME TypeOK, NEW p \in Proc
  PROVE  Target(p) \in Tree /\ Account(p) \in Operator \cup {Admin}
<1>1. job[p] \in Job /\ seen[p] \in Tree
  BY DEF TypeOK
<1>2. \A S \in SUBSET Leaf : Pinned(S) \in Tree
  BY DEF Pinned, Tree, Cid
<1>3. \A o \in Operator : Temp(o) \in Tree
  BY GateAssumption DEF Temp, Tree, Cid
<1>4. seen[p].cid.of \in SUBSET Leaf
  BY <1>1 DEF Tree, Cid
<1>5. Target(p) \in Tree
  BY <1>1, <1>2, <1>3, <1>4, JobTypes DEF Target
<1>6. Account(p) \in Operator \cup {Admin}
  BY <1>1, JobTypes DEF Account
<1> QED
  BY <1>5, <1>6

\* An error leaves a process at its stop, at a restore or at rest.
LEMMA ThrowTypes ==
  ASSUME TypeOK, NEW p \in Proc, Throw(p)
  PROVE  at' \in [Proc -> At] /\ failed' \in [Proc -> BOOLEAN]
<1>1. at[p] \in At
  BY DEF TypeOK
<1>2. Enter(job[p], AfterError(job[p], at[p].section)) \in At
  BY EnterTypes, AfterTypes
<1>3. ASSUME InBracket(job[p], at[p])
      PROVE  [at[p] EXCEPT !.call = "stop"] \in At
  <2>1. at[p] # Rest
    BY <1>3 DEF InBracket, Rest
  <2> QED
    BY <1>1, <2>1 DEF At, Call
<1> QED
  BY <1>1, <1>2, <1>3 DEF Throw, TypeOK

\* Moving to another RPC of the same section.
LEMMA GotoTypes ==
  ASSUME TypeOK, NEW p \in Proc, NEW c \in Call, at[p].call # "none", Goto(p, c)
  PROVE  at' \in [Proc -> At] /\ failed' \in [Proc -> BOOLEAN]
<1>1. at[p] \in At /\ at[p] # Rest
  BY DEF TypeOK, Rest
<1>2. [at[p] EXCEPT !.call = c] \in At
  BY <1>1 DEF At
<1> QED
  BY <1>2 DEF Goto, TypeOK

\* Moving to the start of another section.
LEMMA SectionTypes ==
  ASSUME TypeOK, NEW p \in Proc, NEW s \in Section \cup {"none"}, EnterSection(p, s)
  PROVE  at' \in [Proc -> At] /\ failed' \in [Proc -> BOOLEAN]
BY EnterTypes DEF EnterSection, TypeOK

\* Each step keeps the types.
LEMMA TypeStep == TypeOK /\ [Next]_vars => TypeOK'
<1> SUFFICES ASSUME TypeOK, [Next]_vars PROVE TypeOK'
  OBVIOUS
<1>1. CASE UNCHANGED vars
  BY <1>1 DEF vars, fork, history, TypeOK
<1>2. ASSUME NEW p \in Proc, NEW j \in Job, Start(p, j) PROVE TypeOK'
  <2>1. First(j) \in Section
    BY DEF First, Section
  <2>2. Enter(j, First(j)) \in At
    BY <2>1, EnterTypes
  <2>3. NoTree \in Tree
    BY DEF NoTree, Tree, Cid
  <2>4. job' \in [Proc -> Job] /\ at' \in [Proc -> At] /\ seen' \in [Proc -> Tree]
        /\ failed' \in [Proc -> BOOLEAN]
    BY <1>2, <2>2, <2>3 DEF Start, TypeOK
  <2>5. solo' \in Proc \cup {Nobody} /\ before' \in Tree /\ faults' \subseteq Section \cup {"killed"}
    BY <1>2, <2>3 DEF Start, TypeOK
  <2> QED
    BY <1>2, <2>4, <2>5 DEF Start, fork, TypeOK
<1>3. ASSUME NEW p \in Proc, ReadRoot(p) PROVE TypeOK'
  <2>1. at' \in [Proc -> At] /\ failed' \in [Proc -> BOOLEAN]
    BY <1>3, GotoTypes DEF ReadRoot, Call
  <2>2. seen' \in [Proc -> Tree]
    BY <1>3 DEF ReadRoot, TypeOK, Tree
  <2> QED
    BY <1>3, <2>1, <2>2 DEF ReadRoot, fork, history, TypeOK
<1>4. ASSUME NEW p \in Proc, ReadCid(p) PROVE TypeOK'
  <2>1. at' \in [Proc -> At] /\ failed' \in [Proc -> BOOLEAN]
    BY <1>4, SectionTypes, AfterTypes DEF ReadCid, Section
  <2>2. seen' \in [Proc -> Tree]
    BY <1>4 DEF ReadCid, TypeOK, Tree
  <2> QED
    BY <1>4, <2>1, <2>2 DEF ReadCid, fork, history, TypeOK
<1>5. ASSUME NEW p \in Proc, Look(p) PROVE TypeOK'
  <2>1. at' \in [Proc -> At] /\ failed' \in [Proc -> BOOLEAN]
    BY <1>5, GotoTypes, SectionTypes DEF Look, Section, Call
  <2> QED
    BY <1>5, <2>1 DEF Look, fork, history, TypeOK
<1>6. ASSUME NEW p \in Proc, Impersonate(p) PROVE TypeOK'
  <2>1. AfterImpersonate(p) \in Call
    BY DEF AfterImpersonate, Call
  <2>2. at' \in [Proc -> At] /\ failed' \in [Proc -> BOOLEAN]
    BY <1>6, <2>1, GotoTypes DEF Impersonate
  <2> QED
    BY <1>6, <2>2, TargetTypes DEF Impersonate, BeginImpersonation, history, TypeOK
<1>7. ASSUME NEW p \in Proc, Simulate(p) PROVE TypeOK'
  <2>1. at' \in [Proc -> At] /\ failed' \in [Proc -> BOOLEAN]
    BY <1>7, GotoTypes DEF Simulate, Call
  <2> QED
    BY <1>7, <2>1 DEF Simulate, fork, history, TypeOK
<1>8. ASSUME NEW p \in Proc, Transact(p) PROVE tree' \in Tree /\ paused' \in BOOLEAN
  BY <1>8, TargetTypes DEF Transact, TypeOK
<1>9. ASSUME NEW p \in Proc, Do(p) PROVE TypeOK'
  <2>1. at' \in [Proc -> At] /\ failed' \in [Proc -> BOOLEAN]
    BY <1>9, GotoTypes DEF Do, AfterDo, Call
  <2>2. tree' \in Tree /\ paused' \in BOOLEAN
    BY <1>9, <1>8 DEF Do
  <2> QED
    BY <1>9, <2>1, <2>2 DEF Do, Transact, history, TypeOK
<1>10. ASSUME NEW p \in Proc, Stop(p) PROVE TypeOK'
  <2>1. at' \in [Proc -> At] /\ failed' \in [Proc -> BOOLEAN]
    BY <1>10, SectionTypes, AfterTypes DEF Stop
  <2> QED
    BY <1>10, <2>1 DEF Stop, EndImpersonation, TypeOK
<1>11. ASSUME NEW p \in Proc, Reject(p) PROVE TypeOK'
  BY <1>11, ThrowTypes DEF Reject, fork, history, TypeOK
<1>12. ASSUME NEW k \in Section \cup {"killed"}, Note(k)
       PROVE  faults' \subseteq Section \cup {"killed"}
  BY <1>12 DEF Note, TypeOK
<1>13. ASSUME NEW p \in Proc, ~AtRest(p) PROVE at[p].section \in Section
  BY <1>13 DEF AtRest, TypeOK, At, Rest
<1>14. ASSUME NEW p \in Proc, RefuseCreation(p) PROVE TypeOK'
  BY <1>14, <1>12, ThrowTypes DEF RefuseCreation, fork, Section, TypeOK
<1>15. ASSUME NEW p \in Proc, LoseRequest(p) PROVE TypeOK'
  BY <1>15, <1>12, <1>13, ThrowTypes, TargetTypes DEF LoseRequest, fork, TypeOK
<1>16. ASSUME NEW p \in Proc, LoseReply(p) PROVE TypeOK'
  <2>1. at' \in [Proc -> At] /\ failed' \in [Proc -> BOOLEAN]
    BY <1>16, ThrowTypes DEF LoseReply
  <2>2. at[p].section \in Section
    BY <1>16 DEF LoseReply, TypeOK, At, Rest
  <2>3. faults' \subseteq Section \cup {"killed"}
    BY <1>16, <1>12, <2>2 DEF LoseReply
  <2>4. tree' \in Tree /\ paused' \in BOOLEAN
    BY <1>16, <1>8 DEF LoseReply, BeginImpersonation, EndImpersonation, TypeOK
  <2>5. impersonated' \subseteq Operator \cup {Admin} /\ stuck' \subseteq Operator \cup {Admin}
    BY <1>16, TargetTypes
    DEF LoseReply, BeginImpersonation, EndImpersonation, Transact, TypeOK
  <2> QED
    BY <1>16, <2>1, <2>3, <2>4, <2>5 DEF LoseReply, TypeOK
<1>17. ASSUME NEW p \in Proc, Die(p) PROVE TypeOK'
  <2>1. at' \in [Proc -> At] /\ failed' \in [Proc -> BOOLEAN]
    BY <1>17 DEF Die, At, TypeOK
  <2> QED
    BY <1>17, <1>12, <2>1, TargetTypes DEF Die, fork, TypeOK
<1> QED
  BY <1>1, <1>2, <1>3, <1>4, <1>5, <1>6, <1>7, <1>9, <1>10, <1>11, <1>14, <1>15, <1>16, <1>17
  DEF Next, Step

-----------------------------------------------------------------------------
(* Impersonation.                                                          *)

\* A step of p keeps Held if p answers for what it adds and for what it drops.
LEMMA HeldFrom ==
  ASSUME Held, NEW p \in Proc,
         \A q \in Proc \ {p} : job'[q] = job[q] /\ at'[q] = at[q],
         \A acc \in impersonated' \ stuck' :
           \/ /\ acc \in impersonated \ stuck
              /\ InBracket(job[p], at[p]) /\ acc = Account(p)
                   => InBracket(job'[p], at'[p]) /\ Account(p)' = acc
           \/ InBracket(job'[p], at'[p]) /\ Account(p)' = acc
  PROVE  Held'
<1> SUFFICES ASSUME NEW acc \in impersonated' \ stuck'
             PROVE  \E q \in Proc : InBracket(job'[q], at'[q]) /\ Account(q)' = acc
  BY DEF Held
<1>1. CASE InBracket(job'[p], at'[p]) /\ Account(p)' = acc
  BY <1>1
<1>2. CASE ~(InBracket(job'[p], at'[p]) /\ Account(p)' = acc)
  <2>1. PICK q \in Proc : InBracket(job[q], at[q]) /\ Account(q) = acc
    BY <1>2 DEF Held
  <2>2. q # p
    BY <1>2, <2>1
  <2> QED
    BY <2>1, <2>2 DEF Account
<1> QED
  BY <1>1, <1>2

\* Moving within a section keeps the account.
LEMMA GotoKeeps ==
  ASSUME TypeOK, NEW p \in Proc, NEW c, Goto(p, c), job' = job
  PROVE  /\ \A q \in Proc \ {p} : job'[q] = job[q] /\ at'[q] = at[q]
         /\ at'[p] = [at[p] EXCEPT !.call = c]
         /\ at[p].call # "none" => /\ at'[p].section = at[p].section
                                   /\ at'[p].call = c
                                   /\ Account(p)' = Account(p)
<1>1. /\ \A q \in Proc \ {p} : job'[q] = job[q] /\ at'[q] = at[q]
      /\ at'[p] = [at[p] EXCEPT !.call = c]
  BY DEF Goto, TypeOK
<1>2. at[p] \in At
  BY DEF TypeOK
<1>3. at[p].call # "none" => at'[p].section = at[p].section /\ at'[p].call = c
  BY <1>1, <1>2 DEF At, Rest
<1> QED
  BY <1>1, <1>3 DEF Account

\* An error inside a bracket leads to its stop.
LEMMA ThrowKeeps ==
  ASSUME TypeOK, NEW p \in Proc, Throw(p), job' = job
  PROVE  /\ \A q \in Proc \ {p} : job'[q] = job[q] /\ at'[q] = at[q]
         /\ failed'[p]
         /\ IF InBracket(job[p], at[p]) /\ at[p].call # "stop"
            THEN /\ at'[p].section = at[p].section
                 /\ at'[p].call = "stop"
                 /\ Account(p)' = Account(p)
                 /\ InBracket(job'[p], at'[p])
            ELSE at'[p] = Enter(job[p], AfterError(job[p], at[p].section))
<1>1. \A q \in Proc \ {p} : job'[q] = job[q] /\ at'[q] = at[q]
  BY DEF Throw, TypeOK
<1>2. failed'[p]
  BY DEF Throw, TypeOK
<1>3. at[p] \in At
  BY DEF TypeOK
<1>4. CASE InBracket(job[p], at[p]) /\ at[p].call # "stop"
  <2>1. at'[p] = [at[p] EXCEPT !.call = "stop"]
    BY <1>4 DEF Throw, TypeOK
  <2>2. at'[p].section = at[p].section /\ at'[p].call = "stop"
    BY <1>3, <2>1 DEF At, Rest
  <2> QED
    BY <1>1, <1>2, <1>4, <2>2 DEF Account, InBracket
<1>5. CASE ~(InBracket(job[p], at[p]) /\ at[p].call # "stop")
  BY <1>1, <1>2, <1>5 DEF Throw, TypeOK
<1> QED
  BY <1>4, <1>5

\* A process at rest is in no bracket.
LEMMA RestOutside ==
  ASSUME TypeOK, NEW p \in Proc, AtRest(p)
  PROVE  at[p] = Rest /\ ~InBracket(job[p], at[p])
<1>1. at[p] = Rest
  BY DEF TypeOK, At, AtRest, Section
<1> QED
  BY <1>1 DEF Rest, InBracket

\* Every impersonation has its bracket, or was left behind by a lost stop.
LEMMA HeldStep == TypeOK /\ Held /\ [Next]_vars => Held'
<1> SUFFICES ASSUME TypeOK, Held, [Next]_vars PROVE Held'
  OBVIOUS
<1>1. CASE UNCHANGED vars
  BY <1>1 DEF vars, fork, history, Held, Account
<1>2. ASSUME NEW p \in Proc, NEW j \in Job, Start(p, j) PROVE Held'
  <2>1. ~InBracket(job[p], at[p])
    BY <1>2, RestOutside DEF Start
  <2>2. \A q \in Proc \ {p} : job'[q] = job[q] /\ at'[q] = at[q]
    BY <1>2 DEF Start, TypeOK
  <2>3. impersonated' = impersonated /\ stuck' = stuck
    BY <1>2 DEF Start, fork
  <2> QED
    BY <2>1, <2>2, <2>3, HeldFrom
<1>3. ASSUME NEW p \in Proc, ReadRoot(p) PROVE Held'
  <2>1. ~InBracket(job[p], at[p]) /\ impersonated' = impersonated /\ stuck' = stuck
    BY <1>3 DEF ReadRoot, InBracket, fork, history
  <2>2. \A q \in Proc \ {p} : job'[q] = job[q] /\ at'[q] = at[q]
    BY <1>3, GotoKeeps DEF ReadRoot
  <2> QED
    BY <2>1, <2>2, HeldFrom
<1>4. ASSUME NEW p \in Proc, ReadCid(p) PROVE Held'
  <2>1. ~InBracket(job[p], at[p]) /\ impersonated' = impersonated /\ stuck' = stuck
    BY <1>4 DEF ReadCid, InBracket, fork, history
  <2>2. \A q \in Proc \ {p} : job'[q] = job[q] /\ at'[q] = at[q]
    BY <1>4 DEF ReadCid, EnterSection, TypeOK
  <2> QED
    BY <2>1, <2>2, HeldFrom
<1>5. ASSUME NEW p \in Proc, Look(p) PROVE Held'
  <2>1. impersonated' = impersonated /\ stuck' = stuck
    BY <1>5 DEF Look, fork, history
  <2>2. \A q \in Proc \ {p} : job'[q] = job[q] /\ at'[q] = at[q]
    BY <1>5 DEF Look, Goto, EnterSection, TypeOK
  <2>3. CASE at[p].section = "install"
    <3>1. PICK c \in {"unpause", "write"} : Goto(p, c)
      BY <1>5, <2>3 DEF Look
    <3>2. InBracket(job'[p], at'[p]) /\ Account(p)' = Account(p)
      BY <1>5, <3>1, GotoKeeps DEF Look, InBracket
    <3> QED
      BY <2>1, <2>2, <3>2, HeldFrom
  <2>4. CASE at[p].section # "install"
    <3>1. ~InBracket(job[p], at[p])
      BY <1>5, <2>4 DEF Look, InBracket
    <3> QED
      BY <2>1, <2>2, <3>1, HeldFrom
  <2> QED
    BY <2>3, <2>4
<1>6. ASSUME NEW p \in Proc, Impersonate(p) PROVE Held'
  <2>1. /\ \A q \in Proc \ {p} : job'[q] = job[q] /\ at'[q] = at[q]
        /\ at'[p].section = at[p].section
        /\ at'[p].call = AfterImpersonate(p)
        /\ Account(p)' = Account(p)
    BY <1>6, GotoKeeps DEF Impersonate
  <2>2. InBracket(job'[p], at'[p])
    BY <1>6, <2>1 DEF Impersonate, AfterImpersonate, InBracket
  <2>3. impersonated' = impersonated \cup {Account(p)} /\ stuck' = stuck
    BY <1>6 DEF Impersonate, BeginImpersonation, history
  <2> QED
    BY <2>1, <2>2, <2>3, HeldFrom
<1>7. ASSUME NEW p \in Proc, Simulate(p) PROVE Held'
  <2>1. /\ \A q \in Proc \ {p} : job'[q] = job[q] /\ at'[q] = at[q]
        /\ at'[p].call \in {"impersonate", "write"}
        /\ InBracket(job[p], at[p]) => at'[p].call = "write"
        /\ Account(p)' = Account(p)
    <3>1. PICK c \in {"impersonate", "write"} : Goto(p, c) /\ (job[p].kind = "vetted" => c = "write")
      BY <1>7 DEF Simulate
    <3>2. InBracket(job[p], at[p]) => job[p].kind = "vetted"
      BY <1>7 DEF Simulate, InBracket
    <3> QED
      BY <1>7, <3>1, <3>2, GotoKeeps DEF Simulate
  <2>2. InBracket(job[p], at[p]) => InBracket(job'[p], at'[p])
    BY <2>1 DEF InBracket
  <2>3. impersonated' = impersonated /\ stuck' = stuck
    BY <1>7 DEF Simulate, fork, history
  <2> QED
    BY <2>1, <2>2, <2>3, HeldFrom
<1>8. ASSUME NEW p \in Proc, Do(p) PROVE Held'
  <2>1. /\ \A q \in Proc \ {p} : job'[q] = job[q] /\ at'[q] = at[q]
        /\ at'[p].call \in {"write", "stop"}
        /\ Account(p)' = Account(p)
    BY <1>8, GotoKeeps DEF Do, AfterDo
  <2>2. InBracket(job'[p], at'[p])
    BY <2>1 DEF InBracket
  <2>3. impersonated' = impersonated /\ stuck' = stuck
    BY <1>8 DEF Do, Transact, history
  <2> QED
    BY <2>1, <2>2, <2>3, HeldFrom
<1>9. ASSUME NEW p \in Proc, Stop(p) PROVE Held'
  <2>1. \A q \in Proc \ {p} : job'[q] = job[q] /\ at'[q] = at[q]
    BY <1>9 DEF Stop, EnterSection, TypeOK
  <2>2. impersonated' = impersonated \ {Account(p)} /\ stuck' = stuck \ {Account(p)}
    BY <1>9 DEF Stop, EndImpersonation
  <2> QED
    BY <2>1, <2>2, HeldFrom
<1>10. ASSUME NEW p \in Proc, Throw(p), job' = job, stuck \subseteq stuck' \cup {Account(p)},
              \A acc \in impersonated' \ stuck' : acc \in impersonated \ stuck,
              at[p].call = "stop" => Account(p) \notin impersonated' \ stuck'
       PROVE  Held'
  BY <1>10, ThrowKeeps, HeldFrom
<1>11. ASSUME NEW p \in Proc, Reject(p) PROVE Held'
  BY <1>11, <1>10 DEF Reject, fork, history
<1>12. ASSUME NEW p \in Proc, RefuseCreation(p) PROVE Held'
  BY <1>12, <1>10 DEF RefuseCreation, fork
<1>13. ASSUME NEW p \in Proc, LoseRequest(p) PROVE Held'
  BY <1>13, <1>10 DEF LoseRequest, fork
<1>14. ASSUME NEW p \in Proc, LoseReply(p) PROVE Held'
  BY <1>14, <1>10 DEF LoseReply, BeginImpersonation, EndImpersonation, Transact
<1>15. ASSUME NEW p \in Proc, Die(p) PROVE Held'
  <2>1. \A q \in Proc \ {p} : job'[q] = job[q] /\ at'[q] = at[q]
    BY <1>15 DEF Die, TypeOK
  <2>2. /\ impersonated' = impersonated
        /\ stuck \subseteq stuck'
        /\ InBracket(job[p], at[p]) => Account(p) \in stuck'
    BY <1>15 DEF Die, fork
  <2> QED
    BY <2>1, <2>2, HeldFrom
<1> QED
  BY <1>1, <1>2, <1>3, <1>4, <1>5, <1>6, <1>7, <1>8, <1>9, <1>11, <1>12, <1>13, <1>14, <1>15
  DEF Next, Step

-----------------------------------------------------------------------------
(* Runs that nothing overlaps.                                             *)

\* Only a process that runs a recipe takes a step, and it leaves the others be.
LEMMA StepFrame ==
  ASSUME TypeOK, NEW p \in Proc, Step(p)
  PROVE  /\ ~AtRest(p)
         /\ job' = job /\ solo' = solo /\ before' = before
         /\ \A q \in Proc \ {p} : at'[q] = at[q]
<1>1. ASSUME at[p].call \in Call PROVE ~AtRest(p)
  BY <1>1, RestOutside DEF Call, Rest
<1>2. CASE ReadRoot(p)
  BY <1>1, <1>2, GotoKeeps DEF ReadRoot, history, Call
<1>3. CASE ReadCid(p)
  BY <1>1, <1>3 DEF ReadCid, EnterSection, history, Call, TypeOK
<1>4. CASE Look(p)
  <2>1. \A q \in Proc \ {p} : at'[q] = at[q]
    BY <1>4 DEF Look, Goto, EnterSection, TypeOK
  <2> QED
    BY <1>1, <1>4, <2>1 DEF Look, history, Call
<1>5. CASE Impersonate(p)
  BY <1>1, <1>5, GotoKeeps DEF Impersonate, history, Call
<1>6. CASE Simulate(p)
  BY <1>1, <1>6, GotoKeeps DEF Simulate, history, Call
<1>7. CASE Do(p)
  BY <1>1, <1>7, GotoKeeps DEF Do, history, Call
<1>8. CASE Stop(p)
  BY <1>1, <1>8 DEF Stop, EnterSection, Call, TypeOK
<1>9. CASE Reject(p)
  BY <1>1, <1>9, ThrowKeeps DEF Reject, history, Call
<1>10. CASE RefuseCreation(p)
  BY <1>1, <1>10, ThrowKeeps DEF RefuseCreation, Call
<1>11. CASE LoseRequest(p)
  BY <1>11, ThrowKeeps DEF LoseRequest
<1>12. CASE LoseReply(p)
  BY <1>1, <1>12, ThrowKeeps DEF LoseReply, Call
<1>13. CASE Die(p)
  BY <1>13 DEF Die, TypeOK
<1> QED
  BY <1>2, <1>3, <1>4, <1>5, <1>6, <1>7, <1>8, <1>9, <1>10, <1>11, <1>12, <1>13 DEF Step

\* While a run is alone, only its process takes steps.
LEMMA OnlySoloSteps ==
  ASSUME TypeOK, Company, NEW p \in Proc, Step(p), solo # Nobody
  PROVE  p = solo
BY StepFrame DEF Company

\* A run stays alone until another recipe starts.
LEMMA CompanyStep == TypeOK /\ Company /\ [Next]_vars => Company'
<1> SUFFICES ASSUME TypeOK, Company, [Next]_vars PROVE Company'
  OBVIOUS
<1>1. CASE UNCHANGED vars
  BY <1>1 DEF vars, history, Company, AtRest
<1>2. ASSUME NEW p \in Proc, NEW j \in Job, Start(p, j) PROVE Company'
  BY <1>2, GateAssumption DEF Start, Company, AtRest, TypeOK
<1>3. ASSUME NEW p \in Proc, Step(p) PROVE Company'
  BY <1>3, StepFrame, OnlySoloSteps DEF Company, AtRest
<1> QED
  BY <1>1, <1>2, <1>3 DEF Next

\* Entering a section is outside of every bracket.
LEMMA EnterOutside ==
  ASSUME NEW j, NEW s \in Section \cup {"none"}
  PROVE  ~InBracket(j, Enter(j, s))
<1>1. CASE s = "none"
  BY <1>1 DEF Enter, Rest, InBracket
<1>2. CASE s # "none"
  <2>1. /\ Entry(j, s) \in {"root", "cid", "look", "try", "impersonate"}
        /\ Entry(j, s) = "look" => s # "install"
        /\ Entry(j, s) = "try" => j.kind # "vetted"
    BY DEF Entry
  <2> QED
    BY <1>2, <2>1 DEF Enter, InBracket
<1> QED
  BY <1>1, <1>2

\* Nobody ends the impersonation of a run that is alone but the run itself.
LEMMA KeyStep == TypeOK /\ Company /\ KeepsKey /\ [Next]_vars => KeepsKey'
<1> SUFFICES ASSUME TypeOK, Company, KeepsKey, [Next]_vars, solo' # Nobody,
                    InBracket(job'[solo'], at'[solo'])
             PROVE  Account(solo)' \in impersonated'
  BY DEF KeepsKey
<1>1. CASE UNCHANGED vars
  BY <1>1 DEF vars, fork, history, KeepsKey, Account
<1>2. ASSUME NEW p \in Proc, NEW j \in Job, Start(p, j) PROVE FALSE
  <2>1. solo' = p /\ job'[p] = j /\ at'[p] = Enter(j, First(j))
    BY <1>2 DEF Start, TypeOK
  <2>2. First(j) \in Section
    BY DEF First, Section
  <2> QED
    BY <2>1, <2>2, EnterOutside
<1>3. ASSUME NEW p \in Proc, Step(p) PROVE Account(solo)' \in impersonated'
  <2>1. solo' = solo /\ p = solo /\ job' = job
    BY <1>3, StepFrame, OnlySoloSteps
  <2>2. ASSUME NEW s \in Section \cup {"none"}, EnterSection(p, s) PROVE FALSE
    BY <2>1, <2>2, EnterOutside DEF EnterSection, TypeOK
  <2>3. ASSUME Throw(p)
        PROVE  InBracket(job[p], at[p]) /\ at[p].call # "stop" /\ Account(p)' = Account(p)
    BY <2>1, <2>3, ThrowKeeps, EnterOutside, AfterTypes
  <2>4. ASSUME NEW c, Goto(p, c), at[p].call # "none" PROVE Account(p)' = Account(p) /\ at'[p].call = c
    BY <2>1, <2>4, GotoKeeps
  <2>5. CASE ReadRoot(p)
    BY <2>1, <2>4, <2>5 DEF ReadRoot, InBracket
  <2>6. CASE ReadCid(p)
    BY <2>2, <2>6, AfterTypes DEF ReadCid, Section
  <2>7. CASE Look(p)
    <3>1. CASE at[p].section = "install"
      BY <2>1, <2>4, <2>7, <3>1 DEF Look, InBracket, fork, KeepsKey
    <3>2. CASE at[p].section # "install"
      <4>1. Goto(p, "impersonate")
        BY <2>2, <2>7, <3>2 DEF Look, Section
      <4> QED
        BY <2>1, <2>4, <2>7, <4>1 DEF Look, InBracket
    <3> QED
      BY <3>1, <3>2
  <2>8. CASE Impersonate(p)
    BY <2>1, <2>4, <2>8 DEF Impersonate, BeginImpersonation
  <2>9. CASE Simulate(p)
    <3>1. CASE job[p].kind = "vetted"
      BY <2>1, <2>4, <2>9, <3>1 DEF Simulate, InBracket, fork, KeepsKey
    <3>2. CASE job[p].kind # "vetted"
      BY <2>1, <2>4, <2>9, <3>2 DEF Simulate, InBracket
    <3> QED
      BY <3>1, <3>2
  <2>10. CASE Do(p)
    BY <2>1, <2>4, <2>10 DEF Do, Transact
  <2>11. CASE Stop(p)
    <3>1. PICK s \in Section \cup {"none"} : EnterSection(p, s)
      BY <2>11, AfterTypes DEF Stop
    <3> QED
      BY <2>2, <3>1
  <2>12. CASE Reject(p)
    BY <2>1, <2>3, <2>12 DEF Reject, fork, KeepsKey
  <2>13. CASE RefuseCreation(p)
    BY <2>1, <2>3, <2>13 DEF RefuseCreation, fork, KeepsKey
  <2>14. CASE LoseRequest(p)
    BY <2>1, <2>3, <2>14 DEF LoseRequest, fork, KeepsKey
  <2>15. CASE LoseReply(p)
    BY <2>1, <2>3, <2>15
    DEF LoseReply, BeginImpersonation, EndImpersonation, Transact, KeepsKey
  <2>16. CASE Die(p)
    BY <2>1, <2>16 DEF Die, Rest, InBracket, TypeOK
  <2> QED
    BY <1>3, <2>5, <2>6, <2>7, <2>8, <2>9, <2>10, <2>11, <2>12, <2>13, <2>14, <2>15, <2>16 DEF Step
<1> QED
  BY <1>1, <1>2, <1>3 DEF Next

-----------------------------------------------------------------------------
(* The original tree comes back.                                           *)

\* The sections of a curated creation, in order.
LEMMA CuratedOrder ==
  ASSUME NEW j, j.kind = "curated"
  PROVE  /\ First(j) = "read"
         /\ After(j, "read") = "install" /\ After(j, "install") = "create"
         /\ After(j, "create") = "restore" /\ After(j, "restore") = "none"
         /\ AfterError(j, "create") = "restore"
         /\ \A s : s # "create" => AfterError(j, s) = "none"
         /\ Enter(j, "read") = [section |-> "read", call |-> "root"]
         /\ Enter(j, "install") = [section |-> "install", call |-> "impersonate"]
         /\ Enter(j, "create") = [section |-> "create", call |-> "try"]
         /\ Enter(j, "restore") = [section |-> "restore", call |-> "impersonate"]
         /\ Enter(j, "none") = Rest
         /\ ~Adds(j)
BY DEF First, After, AfterError, Enter, Entry, Adds

\* A recipe that starts alone finds the tree it has to restore.
LEMMA CuratedStart ==
  ASSUME TypeOK, NEW p \in Proc, NEW j \in Job, Start(p, j)
  PROVE  CuratedRun'
<1> SUFFICES ASSUME SoloKind({"curated"})' PROVE CuratedRun'
  BY DEF CuratedRun
<1>1. solo' = p /\ before' = tree /\ tree' = tree /\ job'[p] = j
  BY DEF Start, SoloKind, fork, TypeOK
<1>2. j.kind = "curated"
  BY <1>1 DEF SoloKind
<1>3. at'[p] = [section |-> "read", call |-> "root"] /\ ~failed'[p]
  BY <1>2, CuratedOrder DEF Start, TypeOK
<1> QED
  BY <1>1, <1>3 DEF CuratedRun

\* Each RPC of a curated creation that is alone.
LEMMA CuratedRPC ==
  ASSUME TypeOK, Company, KeepsKey, CuratedRun, NEW p \in Proc, Step(p)
  PROVE  CuratedRun'
<1> SUFFICES ASSUME SoloKind({"curated"})' PROVE CuratedRun'
  BY DEF CuratedRun
<1>1. /\ solo' = solo /\ before' = before /\ job' = job
      /\ solo # Nobody /\ p = solo /\ job[p].kind = "curated" /\ ~AtRest(p)
  BY StepFrame, OnlySoloSteps DEF SoloKind
<1> DEFINE s == at[p].section
           c == at[p].call
           T == Temp(job[p].who)
           Temporary == tree = T /\ before.root # T.root
           Harmless == faults \subseteq {"read", "create"}
<1>2. /\ s \in {"read", "install", "create", "restore"}
      /\ s = "read" => /\ c \in {"root", "cid"}
                       /\ tree = before /\ ~failed[p]
                       /\ c = "cid" => seen[p].root = before.root
      /\ s = "install" => /\ c \in {"impersonate", "look", "unpause", "write", "stop"}
                          /\ c # "stop" => ~failed[p]
      /\ s = "create" => c \in {"try", "impersonate", "write", "stop"}
      /\ s = "restore" => c \in {"impersonate", "write", "stop"}
      /\ s \in {"install", "create", "restore"} => seen[p] = before
  BY <1>1 DEF CuratedRun, SoloKind, AtRest
<1>3. Harmless =>
        /\ s = "install" => IF c = "stop" /\ ~failed[p] THEN Temporary ELSE tree = before
        /\ s = "create" => Temporary
        /\ s = "restore" => IF c = "stop" THEN tree = before ELSE Temporary
  BY <1>1 DEF CuratedRun, SoloKind
<1>4. \A t \in Section \cup {"none"} : EnterSection(p, t) => at'[p] = Enter(job[p], t) /\ failed' = failed
  BY DEF EnterSection, TypeOK
<1>5. \A d : Goto(p, d) /\ c # "none" => /\ at'[p].section = s /\ at'[p].call = d
                                         /\ failed' = failed
  BY <1>1, GotoKeeps DEF Goto
<1>6. Throw(p) => /\ failed'[p]
                  /\ IF InBracket(job[p], at[p]) /\ c # "stop"
                     THEN at'[p].section = s /\ at'[p].call = "stop"
                     ELSE at'[p] = Enter(job[p], AfterError(job[p], s))
  BY <1>1, ThrowKeeps
<1>7. ASSUME NEW k, Note(k) PROVE faults' = faults \cup {k}
  BY <1>1, <1>7 DEF Note
<1> HIDE DEF s, c, T
<1>8. CASE ReadRoot(p)
  <2>1. s = "read" /\ at'[p].section = "read" /\ at'[p].call = "cid" /\ failed' = failed
    BY <1>2, <1>5, <1>8 DEF ReadRoot, s, c
  <2>2. tree' = tree /\ seen'[p].root = tree.root
    BY <1>8 DEF ReadRoot, fork, TypeOK, Tree
  <2> QED
    BY <1>1, <1>2, <2>1, <2>2 DEF CuratedRun
<1>9. CASE ReadCid(p)
  <2>1. s = "read" /\ c = "cid"
    BY <1>2, <1>9 DEF ReadCid, s, c
  <2>2. at'[p] = [section |-> "install", call |-> "impersonate"] /\ failed' = failed
    BY <1>1, <1>4, <1>9, CuratedOrder DEF ReadCid, Section
  <2>3. tree' = tree /\ seen'[p] = [seen[p] EXCEPT !.cid = tree.cid]
    BY <1>9 DEF ReadCid, fork, TypeOK
  <2>4. seen'[p] = before
    BY <1>2, <2>1, <2>3 DEF TypeOK, Tree
  <2> QED
    BY <1>1, <1>2, <2>1, <2>2, <2>3, <2>4 DEF CuratedRun
<1>10. CASE Look(p)
  <2>1. s = "install" /\ c = "look"
    BY <1>2, <1>10 DEF Look, s, c
  <2>2. /\ at'[p].section = "install" /\ at'[p].call \in {"unpause", "write"}
        /\ failed' = failed
    BY <1>5, <1>10, <2>1 DEF Look, s, c
  <2>3. tree' = tree /\ seen' = seen /\ faults' = faults
    BY <1>10 DEF Look, fork, history
  <2> QED
    BY <1>1, <1>2, <1>3, <2>1, <2>2, <2>3 DEF CuratedRun
<1>11. CASE Impersonate(p)
  <2>1. s \in {"install", "create", "restore"} /\ c = "impersonate"
    BY <1>2, <1>11 DEF Impersonate, s, c
  <2>2. /\ at'[p].section = s /\ failed' = failed
        /\ at'[p].call = IF s = "install" THEN "look" ELSE "write"
    BY <1>1, <1>5, <1>11, <2>1 DEF Impersonate, AfterImpersonate, s, c
  <2>3. tree' = tree /\ seen' = seen /\ faults' = faults
    BY <1>11 DEF Impersonate, BeginImpersonation, history
  <2> QED
    BY <1>1, <1>2, <1>3, <2>1, <2>2, <2>3 DEF CuratedRun, T
<1>12. CASE Simulate(p)
  <2>1. s = "create" /\ c = "try"
    BY <1>2, <1>12 DEF Simulate, s, c
  <2>2. at'[p].section = s /\ at'[p].call = "impersonate" /\ failed' = failed
    BY <1>1, <1>5, <1>12, <2>1 DEF Simulate
  <2>3. tree' = tree /\ seen' = seen /\ faults' = faults
    BY <1>12 DEF Simulate, fork, history
  <2> QED
    BY <1>1, <1>2, <1>3, <2>1, <2>2, <2>3 DEF CuratedRun, T
<1>13. ASSUME Transact(p), c \in {"write", "unpause"}
       PROVE  /\ s = "install" /\ c = "write" => tree' = T /\ tree.root # T.root
              /\ s = "install" /\ c = "unpause" => tree' = tree
              /\ s = "create" => tree' = tree
              /\ s = "restore" => tree' = before
  <2>1. Installs(p) <=> c = "write" /\ s \in {"install", "restore"}
    BY DEF Installs, s, c
  <2>2. Target(p) = IF s = "restore" THEN seen[p] ELSE T
    BY <1>1 DEF Target, Adds, s, T
  <2>3. tree' = IF Installs(p) THEN Target(p) ELSE tree
    BY <1>13 DEF Transact
  <2>4. Installs(p) => tree.root # Target(p).root
    BY <1>13 DEF Transact, Accepts
  <2> QED
    BY <1>2, <1>13, <2>1, <2>2, <2>3, <2>4
<1>14. CASE Do(p)
  <2>1. c \in {"write", "unpause"} /\ s \in {"install", "create", "restore"}
    BY <1>2, <1>14 DEF Do, s, c
  <2>2. /\ at'[p].section = s /\ failed' = failed
        /\ at'[p].call = IF c = "unpause" THEN "write" ELSE "stop"
    BY <1>2, <1>5, <1>14, <2>1 DEF Do, AfterDo, s, c
  <2>3. seen' = seen /\ faults' = faults
    BY <1>14 DEF Do, history
  <2>4. Transact(p)
    BY <1>14 DEF Do
  <2> QED
    BY <1>1, <1>2, <1>3, <1>13, <2>1, <2>2, <2>3, <2>4 DEF CuratedRun, T
<1>15. CASE Stop(p)
  <2>1. s \in {"install", "create", "restore"} /\ c = "stop"
    BY <1>2, <1>15 DEF Stop, s, c
  <2>2. /\ at'[p] = Enter(job[p], IF failed[p] THEN AfterError(job[p], s) ELSE After(job[p], s))
        /\ failed' = failed
    BY <1>4, <1>15, AfterTypes DEF Stop, s
  <2>3. tree' = tree /\ seen' = seen /\ faults' = faults
    BY <1>15 DEF Stop, EndImpersonation
  <2>4. CASE s = "install" /\ failed[p]
    <3>1. at'[p] = Rest
      BY <1>1, <2>2, <2>4, CuratedOrder
    <3> QED
      BY <1>1, <1>3, <2>1, <2>3, <2>4, <3>1 DEF CuratedRun, Rest
  <2>5. CASE s = "install" /\ ~failed[p]
    <3>1. at'[p] = [section |-> "create", call |-> "try"]
      BY <1>1, <2>2, <2>5, CuratedOrder
    <3> QED
      BY <1>1, <1>2, <1>3, <2>1, <2>3, <2>5, <3>1 DEF CuratedRun, T
  <2>6. CASE s = "create"
    <3>1. at'[p] = [section |-> "restore", call |-> "impersonate"]
      BY <1>1, <2>2, <2>6, CuratedOrder
    <3> QED
      BY <1>1, <1>2, <1>3, <2>1, <2>3, <2>6, <3>1 DEF CuratedRun, T
  <2>7. CASE s = "restore"
    <3>1. at'[p] = Rest
      BY <1>1, <2>2, <2>7, CuratedOrder
    <3> QED
      BY <1>1, <1>3, <2>1, <2>3, <2>7, <3>1 DEF CuratedRun, Rest
  <2> QED
    BY <2>1, <2>4, <2>5, <2>6, <2>7
\* An error with the tree as it was, in every section but the restore.
<1>16. ASSUME Throw(p), tree' = tree, seen' = seen, s # "restore",
              faults' \subseteq {"read", "create"} => Harmless /\ (s = "install" => c # "stop")
       PROVE  CuratedRun'
  <2>1. CASE s = "read"
    <3>1. at'[p] = Rest
      BY <1>1, <1>2, <1>6, <1>16, <2>1, CuratedOrder DEF InBracket, s, c
    <3> QED
      BY <1>1, <1>2, <1>16, <2>1, <3>1 DEF CuratedRun, Rest
  <2>2. CASE s = "install" /\ InBracket(job[p], at[p]) /\ c # "stop"
    BY <1>1, <1>2, <1>3, <1>6, <1>16, <2>2 DEF CuratedRun
  <2>3. CASE s = "install" /\ ~(InBracket(job[p], at[p]) /\ c # "stop")
    <3>1. at'[p] = Rest
      BY <1>1, <1>6, <1>16, <2>3, CuratedOrder
    <3> QED
      BY <1>1, <1>3, <1>16, <2>3, <3>1 DEF CuratedRun, Rest
  <2>4. CASE s = "create" /\ InBracket(job[p], at[p]) /\ c # "stop"
    BY <1>1, <1>2, <1>3, <1>6, <1>16, <2>4 DEF CuratedRun, T
  <2>5. CASE s = "create" /\ ~(InBracket(job[p], at[p]) /\ c # "stop")
    <3>1. at'[p] = [section |-> "restore", call |-> "impersonate"]
      BY <1>1, <1>6, <1>16, <2>5, CuratedOrder
    <3> QED
      BY <1>1, <1>2, <1>3, <1>16, <2>5, <3>1 DEF CuratedRun, T
  <2> QED
    BY <1>2, <1>16, <2>1, <2>2, <2>3, <2>4, <2>5
\* Once a fault that the finally does not cover has been noted.
<1>17. ASSUME Throw(p), seen' = seen, s \in {"install", "restore"},
              ~(faults' \subseteq {"read", "create"})
       PROVE  CuratedRun'
  <2>1. CASE InBracket(job[p], at[p]) /\ c # "stop"
    BY <1>1, <1>2, <1>6, <1>17, <2>1 DEF CuratedRun
  <2>2. CASE ~(InBracket(job[p], at[p]) /\ c # "stop")
    <3>1. at'[p] = Rest
      BY <1>1, <1>6, <1>17, <2>2, CuratedOrder
    <3> QED
      BY <1>1, <1>17, <3>1 DEF CuratedRun, Rest
  <2> QED
    BY <2>1, <2>2
<1>18. CASE Reject(p)
  <2>1. /\ Throw(p) /\ tree' = tree /\ seen' = seen /\ faults' = faults
        /\ c \in {"try", "write", "unpause"}
    BY <1>18 DEF Reject, fork, history, c
  <2>2. CASE s # "restore"
    BY <1>16, <2>1, <2>2
  <2>3. CASE s = "restore"
    <3>1. c = "write" /\ seen[p] = before
      BY <1>2, <2>1, <2>3
    <3>2. InBracket(job[p], at[p])
      BY <3>1 DEF InBracket, c
    <3>3. Account(p) \in impersonated
      BY <1>1, <3>2 DEF KeepsKey
    <3>4. ~Accepts(p)
      BY <1>18, <3>3 DEF Reject
    <3>5. tree.root = before.root
      BY <2>3, <3>1, <3>4 DEF Accepts, Installs, Target, s, c
    <3>6. ~Harmless
      BY <1>3, <2>3, <3>1, <3>5
    <3> QED
      BY <1>17, <2>1, <2>3, <3>6
  <2> QED
    BY <2>2, <2>3
<1>19. CASE RefuseCreation(p)
  <2>1. Throw(p) /\ tree' = tree /\ seen' = seen /\ faults' = faults \cup {"create"} /\ s = "create"
    BY <1>7, <1>19 DEF RefuseCreation, fork, s
  <2> QED
    BY <1>16, <2>1
<1>20. ASSUME Throw(p), Note(s), seen' = seen, s \in {"read", "create"} => tree' = tree
       PROVE  CuratedRun'
  <2>1. faults' = faults \cup {s}
    BY <1>7, <1>20
  <2>2. CASE s \in {"read", "create"}
    BY <1>16, <1>20, <2>1, <2>2
  <2>3. CASE s \in {"install", "restore"}
    BY <1>17, <1>20, <2>1, <2>3
  <2> QED
    BY <1>2, <2>2, <2>3
<1>21. CASE LoseRequest(p)
  BY <1>20, <1>21 DEF LoseRequest, fork, s
<1>22. CASE LoseReply(p)
  <2>1. s \in {"read", "create"} => tree' = tree
    BY <1>13, <1>22, <1>2 DEF LoseReply, BeginImpersonation, EndImpersonation, c
  <2> QED
    BY <1>20, <1>22, <2>1 DEF LoseReply, s
<1>23. CASE Die(p)
  <2>1. at'[p] = Rest /\ faults' = faults \cup {"killed"}
    BY <1>7, <1>23 DEF Die, TypeOK
  <2> QED
    BY <1>1, <2>1 DEF CuratedRun, Rest
<1> QED
  BY <1>8, <1>9, <1>10, <1>11, <1>12, <1>14, <1>15, <1>18, <1>19, <1>21, <1>22, <1>23 DEF Step

-----------------------------------------------------------------------------
(* An addition keeps the members.                                          *)

\* The sections of an addition.
LEMMA AddOrder ==
  ASSUME NEW j, Adds(j)
  PROVE  /\ First(j) = "read" /\ Enter(j, "read") = [section |-> "read", call |-> "cid"]
         /\ \A s : After(j, s) \in {"install", "open", "create", "none"}
         /\ \A s : s # "read" => After(j, s) # "install"
         /\ After(j, "read") = "install"
         /\ \A s : AfterError(j, s) = "none"
         /\ Enter(j, "install") = [section |-> "install", call |-> "impersonate"]
         /\ Enter(j, "none") = Rest
         /\ Enter(j, "open") = [section |-> "open", call |-> "look"]
         /\ Enter(j, "create") = [section |-> "create", call |-> "impersonate"]
BY DEF First, After, AfterError, Enter, Entry, Adds

\* The union of the members that the CID leads to and the additions.
LEMMA GrownTree ==
  ASSUME NEW t \in Tree, Listed(t), NEW l \in SUBSET Leaf
  PROVE  /\ Pinned(t.root \cup l) = Pinned(t.cid.of \cup l)
         /\ t.root \subseteq Pinned(t.root \cup l).root
         /\ l \subseteq Pinned(t.root \cup l).root
BY DEF Listed, Pinned

\* An addition that starts alone reads the CID of the tree it must not lose.
LEMMA AddStart ==
  ASSUME TypeOK, NEW p \in Proc, NEW j \in Job, Start(p, j)
  PROVE  AddRun'
<1> SUFFICES ASSUME SoloKind({"add", "vetted"})' PROVE AddRun'
  BY DEF AddRun
<1>1. solo' = p /\ before' = tree /\ tree' = tree /\ job'[p] = j
  BY DEF Start, SoloKind, fork, TypeOK
<1>2. Adds(j)
  BY <1>1 DEF SoloKind, Adds
<1>3. at'[p] = [section |-> "read", call |-> "cid"]
  BY <1>2, AddOrder DEF Start, TypeOK
<1> QED
  BY <1>1, <1>3 DEF AddRun

\* Each RPC of an addition that is alone.
LEMMA AddRPC ==
  ASSUME TypeOK, Company, AddRun, NEW p \in Proc, Step(p)
  PROVE  AddRun'
<1> SUFFICES ASSUME SoloKind({"add", "vetted"})', Listed(before)' PROVE AddRun'
  BY DEF AddRun
<1>1. /\ solo' = solo /\ before' = before /\ job' = job
      /\ solo # Nobody /\ p = solo /\ Adds(job[p]) /\ ~AtRest(p) /\ Listed(before)
  BY StepFrame, OnlySoloSteps DEF SoloKind, Adds, Listed
<1> DEFINE s == at[p].section
           c == at[p].call
           l == job[p].list
           Grown == Pinned(before.root \cup l)
<1>2. /\ s \notin {"restore", "switch"}
      /\ s = "read" <=> c \in {"root", "cid"}
      /\ s = "read" => tree = before
      /\ s = "install" => seen[p].cid = before.cid
      /\ tree \in {before, Grown}
      /\ ~failed[p] /\ s # "read" /\ (s = "install" => c = "stop") => l \subseteq tree.root
  BY <1>1 DEF AddRun, SoloKind, Adds
<1>3. \A t \in Section \cup {"none"} : EnterSection(p, t) => at'[p] = Enter(job[p], t) /\ failed' = failed
  BY DEF EnterSection, TypeOK
<1>4. \A d : Goto(p, d) /\ c # "none" => /\ at'[p].section = s /\ at'[p].call = d
                                         /\ failed' = failed
  BY <1>1, GotoKeeps DEF Goto
<1>5. Throw(p) => /\ failed'[p]
                  /\ \/ at'[p].section = s /\ at'[p].call = "stop" /\ InBracket(job[p], at[p])
                     \/ at'[p] = Rest
  BY <1>1, ThrowKeeps, AddOrder
<1>6. l \subseteq Grown.root
  BY DEF Pinned
\* What AddRun' asks, in the terms of this step.
<1>7. ASSUME at'[p].section \notin {"restore", "switch"},
             at'[p].section = "read" <=> at'[p].call \in {"root", "cid"},
             at'[p].section = "read" => tree' = before,
             at'[p].section = "install" => seen'[p].cid = before.cid,
             tree' \in {before, Grown},
             ~failed'[p] /\ at'[p].section # "read"
               /\ (at'[p].section = "install" => at'[p].call = "stop") => l \subseteq tree'.root
      PROVE  AddRun'
  BY <1>1, <1>7 DEF AddRun
<1> HIDE DEF s, c, l, Grown
\* Moving on within a section, not to its stop, with the tree as it was.
<1>8. ASSUME NEW d, Goto(p, d), c # "none", d \notin {"stop", "root", "cid"},
             tree' = tree, seen' = seen, s # "read"
      PROVE  AddRun'
  <2>1. at'[p].section = s /\ at'[p].call = d /\ failed' = failed
    BY <1>4, <1>8
  <2> QED
    BY <1>2, <1>7, <1>8, <2>1
\* Leaving a section with the additions in the tree.
<1>9. ASSUME NEW t \in {"open", "create", "none"}, at'[p] = Enter(job[p], t), tree' = tree,
             ~failed'[p] => l \subseteq tree.root
      PROVE  AddRun'
  <2>1. at'[p].section = t /\ at'[p].call \notin {"root", "cid"}
    BY <1>1, <1>9, AddOrder DEF Rest
  <2> QED
    BY <1>2, <1>7, <1>9, <2>1
<1>10. ASSUME Throw(p), tree' \in {tree, Grown}, seen' = seen, s = "read" => tree' = tree
       PROVE  AddRun'
  <2>1. CASE at'[p] = Rest
    BY <1>2, <1>5, <1>7, <1>10, <2>1 DEF Rest
  <2>2. CASE at'[p] # Rest
    <3>1. /\ at'[p].section = s /\ at'[p].call = "stop" /\ failed'[p]
          /\ InBracket(job[p], at[p])
      BY <1>5, <1>10, <2>2
    <3>2. s # "read"
      BY <1>2, <3>1 DEF InBracket, s, c
    <3> QED
      BY <1>2, <1>7, <1>10, <3>1, <3>2
  <2> QED
    BY <2>1, <2>2
<1>11. ASSUME Transact(p), c \in {"write", "unpause"}
       PROVE  tree' = IF c = "write" /\ s = "install" THEN Grown ELSE tree
  <2>1. Installs(p) <=> c = "write" /\ s = "install"
    BY <1>2 DEF Installs, s, c
  <2>2. tree' = IF Installs(p) THEN Target(p) ELSE tree
    BY <1>11 DEF Transact
  <2>3. s = "install" => Target(p) = Pinned(before.cid.of \cup l)
    BY <1>1, <1>2 DEF Target, Adds, s, l
  <2>4. Pinned(before.cid.of \cup l) = Grown
    BY <1>1 DEF Listed, Grown
  <2> QED
    BY <2>1, <2>2, <2>3, <2>4
<1>12. CASE ReadRoot(p)
  <2>1. s = "read" /\ at'[p].section = s /\ at'[p].call = "cid" /\ failed' = failed
    BY <1>2, <1>4, <1>12 DEF ReadRoot, c
  <2>2. tree' = tree /\ seen'[p].cid = seen[p].cid
    BY <1>12 DEF ReadRoot, fork, TypeOK, Tree
  <2> QED
    BY <1>2, <1>7, <2>1, <2>2
<1>13. CASE ReadCid(p)
  <2>1. s = "read" /\ tree = before
    BY <1>2, <1>13 DEF ReadCid, c
  <2>2. tree' = tree /\ seen'[p].cid = tree.cid
    BY <1>13 DEF ReadCid, fork, TypeOK, Tree
  <2>3. CASE l \subseteq tree.cid.of
    <3>1. PICK t \in {"open", "create", "none"} : EnterSection(p, t)
      BY <1>1, <1>13, <2>3, AddOrder DEF ReadCid, l
    <3>2. l \subseteq tree.root
      BY <1>1, <2>1, <2>3 DEF Listed
    <3> QED
      BY <1>3, <1>9, <2>2, <3>1, <3>2 DEF Section
  <2>4. CASE ~(l \subseteq tree.cid.of)
    <3>1. EnterSection(p, "install")
      BY <1>13, <2>4 DEF ReadCid, l
    <3>2. at'[p] = [section |-> "install", call |-> "impersonate"]
      BY <1>1, <1>3, <3>1, AddOrder DEF Section
    <3> QED
      BY <1>7, <2>1, <2>2, <3>2
  <2> QED
    BY <2>3, <2>4
<1>14. CASE Look(p)
  <2>1. c = "look" /\ s # "read" /\ tree' = tree /\ seen' = seen
    BY <1>2, <1>14 DEF Look, fork, c
  <2>2. CASE s = "install"
    BY <1>8, <1>14, <2>1, <2>2 DEF Look, s
  <2>3. CASE s # "install"
    <3>1. Goto(p, "impersonate") \/ \E t \in {"create", "none"} : EnterSection(p, t)
      BY <1>14, <2>3 DEF Look, s
    <3>2. ASSUME NEW t \in {"create", "none"}, EnterSection(p, t) PROVE AddRun'
      BY <1>2, <1>3, <1>9, <2>1, <2>3, <3>2 DEF Section
    <3> QED
      BY <1>8, <2>1, <3>1, <3>2
  <2> QED
    BY <2>2, <2>3
<1>15. CASE Impersonate(p)
  <2>1. c = "impersonate" /\ s # "read" /\ tree' = tree /\ seen' = seen
    BY <1>2, <1>15 DEF Impersonate, BeginImpersonation, c
  <2>2. AfterImpersonate(p) \in {"look", "unpause", "try", "write"}
    BY DEF AfterImpersonate
  <2> QED
    BY <1>8, <1>15, <2>1, <2>2 DEF Impersonate
<1>16. CASE Simulate(p)
  <2>1. c = "try" /\ s # "read" /\ tree' = tree /\ seen' = seen
    BY <1>2, <1>16 DEF Simulate, fork, c
  <2> QED
    BY <1>8, <1>16, <2>1 DEF Simulate
<1>17. CASE Do(p)
  <2>1. /\ c \in {"write", "unpause"} /\ s # "read" /\ seen' = seen
        /\ Transact(p) /\ Goto(p, AfterDo(p))
    BY <1>2, <1>17 DEF Do, c
  <2>2. CASE s = "install" /\ c = "unpause"
    <3>1. Goto(p, "write") /\ tree' = tree
      BY <1>11, <2>1, <2>2 DEF AfterDo, s, c
    <3> QED
      BY <1>8, <2>1, <3>1
  <2>3. CASE ~(s = "install" /\ c = "unpause")
    <3>1. at'[p].section = s /\ at'[p].call = "stop" /\ failed' = failed
      BY <1>4, <2>1, <2>3 DEF AfterDo, s, c
    <3>2. tree' = IF s = "install" THEN Grown ELSE tree'
      BY <1>11, <2>1, <2>3
    <3>3. s # "install" => tree' = tree
      BY <1>11, <2>1
    <3> QED
      BY <1>2, <1>6, <1>7, <2>1, <3>1, <3>2, <3>3
  <2> QED
    BY <2>2, <2>3
<1>18. CASE Stop(p)
  <2>1. c = "stop" /\ s # "read" /\ tree' = tree
    BY <1>2, <1>18 DEF Stop, EndImpersonation, c
  <2>2. PICK t \in {"open", "create", "none"} : EnterSection(p, t)
    BY <1>1, <1>18, <2>1, AddOrder DEF Stop, s
  <2>3. at'[p] = Enter(job[p], t) /\ failed' = failed
    BY <1>3, <2>2 DEF Section
  <2>4. ~failed'[p] => l \subseteq tree.root
    BY <1>2, <2>1, <2>3
  <2> QED
    BY <1>9, <2>1, <2>3, <2>4
<1>19. CASE Reject(p)
  BY <1>10, <1>19 DEF Reject, fork
<1>20. CASE RefuseCreation(p)
  BY <1>10, <1>20 DEF RefuseCreation, fork
<1>21. CASE LoseRequest(p)
  BY <1>10, <1>21 DEF LoseRequest, fork
<1>22. CASE LoseReply(p)
  <2>1. tree' \in {tree, Grown} /\ (s = "read" => tree' = tree)
    BY <1>11, <1>22 DEF LoseReply, BeginImpersonation, EndImpersonation, c
  <2> QED
    BY <1>10, <1>22, <2>1 DEF LoseReply
<1>23. CASE Die(p)
  <2>1. at'[p] = Rest /\ failed'[p] /\ tree' = tree
    BY <1>23 DEF Die, fork, TypeOK
  <2> QED
    BY <1>2, <1>7, <2>1 DEF Rest
<1> QED
  BY <1>12, <1>13, <1>14, <1>15, <1>16, <1>17, <1>18, <1>19, <1>20, <1>21, <1>22, <1>23 DEF Step

-----------------------------------------------------------------------------
(* A recipe fails for an unchanged root only.                              *)

\* The sections of each recipe.
LEMMA Order ==
  ASSUME NEW j \in Job
  PROVE  /\ First(j) = IF j.kind = "set" THEN "install"
                       ELSE IF j.kind \in {"pause", "resume"} THEN "switch" ELSE "read"
         /\ Adds(j) <=> j.kind \in {"add", "vetted"}
         /\ After(j, "install") = IF j.kind = "vetted" THEN "open"
                                  ELSE IF j.kind = "curated" THEN "create" ELSE "none"
         /\ After(j, "open") = "create"
         /\ After(j, "create") = IF j.kind = "curated" THEN "restore" ELSE "none"
         /\ After(j, "restore") = "none" /\ After(j, "switch") = "none"
         /\ AfterError(j, "install") = "none"
         /\ Enter(j, "none") = Rest /\ Rest.section = "none"
         /\ Enter(j, "read") = [section |-> "read", call |-> IF j.kind = "curated" THEN "root" ELSE "cid"]
         /\ Enter(j, "install") = [section |-> "install", call |-> "impersonate"]
         /\ Enter(j, "open") = [section |-> "open", call |-> "look"]
         /\ Enter(j, "create") = [section |-> "create",
                                  call |-> IF j.kind = "curated" THEN "try" ELSE "impersonate"]
         /\ Enter(j, "restore") = [section |-> "restore", call |-> "impersonate"]
         /\ Enter(j, "switch") = [section |-> "switch", call |-> "look"]
<1>1. j.kind \in {"set", "add", "curated", "vetted", "pause", "resume"}
  BY JobTypes
<1> QED
  BY <1>1 DEF First, After, AfterError, Enter, Entry, Adds, Rest

\* What a recipe installs leaves the root as it is if and only if it was Unchanged.
LEMMA NewRoot ==
  ASSUME NEW j \in Job, j.kind \in {"set", "add", "curated", "vetted"},
         NEW b \in Tree, Listed(b), Adds(j) => ~(j.list \subseteq b.cid.of)
  PROVE  New(j, b).root = b.root <=> Unchanged(j, b)
BY Order DEF New, Unchanged, Listed, Pinned, Adds

\* An addition of what is there already changes nothing.
LEMMA NothingNew ==
  ASSUME NEW j \in Job, Adds(j), NEW b \in Tree, Listed(b), j.list \subseteq b.cid.of
  PROVE  New(j, b).root = b.root /\ ~Unchanged(j, b)
<1>1. j.kind \in {"add", "vetted"}
  BY DEF Adds
<1>2. b.cid.of \cup j.list = b.root
  BY DEF Listed
<1> QED
  BY <1>1, <1>2 DEF New, Unchanged, Pinned, Adds

\* A recipe starts clean.
LEMMA CleanStart ==
  ASSUME TypeOK, NEW p \in Proc, NEW j \in Job, Start(p, j)
  PROVE  CleanRun'
<1> SUFFICES ASSUME solo' # Nobody, Listed(before)'
             PROVE  Clean(j, at'[p], failed'[p], seen'[p], tree', paused', before')
  <2>1. solo' # Nobody => solo' = p /\ job'[p] = j
    BY DEF Start, TypeOK
  <2> QED
    BY <2>1 DEF CleanRun
<1>1. before' = tree /\ tree' = tree /\ ~failed'[p] /\ at'[p] = Enter(j, First(j))
  BY DEF Start, fork, TypeOK
<1>2. j.kind \in {"set", "add", "curated", "vetted", "pause", "resume"}
  BY JobTypes
<1>3. CASE j.kind = "set"
  BY <1>1, <1>3, Order DEF Clean
<1>4. CASE j.kind \in {"pause", "resume"}
  BY <1>1, <1>4, Order DEF Clean
<1>5. CASE j.kind \in {"add", "curated", "vetted"}
  BY <1>1, <1>5, Order DEF Clean
<1> QED
  BY <1>2, <1>3, <1>4, <1>5

\* Each RPC of a recipe that is alone and meets no fault.
LEMMA CleanRPC ==
  ASSUME TypeOK, Company, KeepsKey, CuratedRun, CleanRun, NEW p \in Proc, Step(p)
  PROVE  CleanRun'
<1> SUFFICES ASSUME solo' # Nobody, faults' = {}, Listed(before)' PROVE CleanRun'
  BY DEF CleanRun
<1>1. /\ solo' = solo /\ before' = before /\ job' = job
      /\ solo # Nobody /\ p = solo /\ ~AtRest(p) /\ Listed(before)
  BY StepFrame, OnlySoloSteps DEF Listed
<1>2. ASSUME NEW k, Note(k) PROVE FALSE
  BY <1>1, <1>2 DEF Note
<1>3. /\ faults = {}
      /\ ReadRoot(p) \/ ReadCid(p) \/ Look(p) \/ Impersonate(p) \/ Simulate(p) \/ Do(p)
           \/ Stop(p) \/ Reject(p)
  <2>1. ~RefuseCreation(p) /\ ~LoseRequest(p) /\ ~LoseReply(p) /\ ~Die(p)
    BY <1>2 DEF RefuseCreation, LoseRequest, LoseReply, Die
  <2>2. ReadRoot(p) \/ ReadCid(p) \/ Look(p) \/ Impersonate(p) \/ Simulate(p) \/ Do(p)
           \/ Stop(p) \/ Reject(p)
    BY <2>1 DEF Step
  <2>3. faults' = faults
    BY <2>2 DEF ReadRoot, ReadCid, Look, Impersonate, Simulate, Do, Stop, Reject, history
  <2> QED
    BY <2>2, <2>3
<1> DEFINE j == job[p]
           s == at[p].section
           c == at[p].call
           w == Unchanged(j, before)
           N == New(j, before)
           C(a, f, sn, t, pz) == Clean(j, a, f, sn, t, pz, before)
<1>4. C(at[p], failed[p], seen[p], tree, paused)
  BY <1>1, <1>3 DEF CleanRun
<1>5. SUFFICES C(at'[p], failed'[p], seen'[p], tree', paused')
  BY <1>1 DEF CleanRun
<1>6. j \in Job /\ before \in Tree /\ s # "none" /\ paused \in BOOLEAN
  BY <1>1 DEF TypeOK, AtRest
<1>7. \A t \in Section \cup {"none"} :
        EnterSection(p, t) => at'[p] = Enter(j, t) /\ failed' = failed
  BY DEF EnterSection, TypeOK
<1>8. \A d : Goto(p, d) /\ c # "none" => /\ at'[p].section = s /\ at'[p].call = d
                                         /\ failed' = failed
  BY <1>1, GotoKeeps DEF Goto
<1>9. s \in {"read", "install", "open", "create", "restore", "switch"}
  BY <1>6 DEF TypeOK, At, Section, Rest
<1>10. s \in {"create", "restore"} /\ j.kind = "curated" => seen[p] = before
  BY <1>1 DEF CuratedRun, SoloKind
<1>11. j.kind \in {"set", "add", "curated", "vetted", "pause", "resume"} /\ (Adds(j) <=> j.kind \in {"add", "vetted"})
  BY <1>6, JobTypes, Order
<1> HIDE DEF s, c, w, N, j
<1>12. CASE ReadRoot(p)
  <2>1. c = "root" /\ tree' = tree /\ paused' = paused
    BY <1>12 DEF ReadRoot, fork, c
  <2>2. at'[p].section = s /\ at'[p].call = "cid" /\ failed' = failed
    BY <1>8, <1>12, <2>1 DEF ReadRoot
  <2>3. s = "read"
    BY <1>4, <1>9, <2>1 DEF Clean, s, c
  <2> QED
    BY <1>4, <2>1, <2>2, <2>3 DEF Clean, s
<1>13. CASE ReadCid(p)
  <2>1. c = "cid" /\ tree' = tree /\ paused' = paused
    BY <1>13 DEF ReadCid, fork, c
  <2>2. s = "read"
    BY <1>4, <1>9, <2>1 DEF Clean, s, c
  <2>3. tree = before /\ ~failed[p] /\ j.kind \in {"add", "curated", "vetted"}
    BY <1>4, <2>2 DEF Clean, s
  <2>4. seen'[p].cid = before.cid
    BY <1>13, <2>3 DEF ReadCid, TypeOK, Tree
  <2>5. CASE Adds(j) /\ j.list \subseteq before.cid.of
    <3>1. EnterSection(p, After(j, "install"))
      BY <1>13, <2>3, <2>5 DEF ReadCid, j
    <3>2. N.root = before.root /\ ~w
      BY <1>1, <1>6, <2>5, NothingNew DEF N, w
    <3>3. CASE j.kind = "add"
      <4>1. at'[p] = Rest /\ failed' = failed /\ Rest.section = "none"
        BY <1>6, <1>7, <3>1, <3>3, Order
      <4> QED
        BY <2>1, <2>3, <3>2, <4>1 DEF Clean, w
    <3>4. CASE j.kind = "vetted"
      <4>1. at'[p] = [section |-> "open", call |-> "look"] /\ failed' = failed
        BY <1>6, <1>7, <3>1, <3>4, Order DEF Section
      <4> QED
        BY <2>1, <2>3, <2>4, <3>2, <3>4, <4>1 DEF Clean, w, N
    <3> QED
      BY <1>11, <2>5, <3>3, <3>4
  <2>6. CASE ~(Adds(j) /\ j.list \subseteq before.cid.of)
    <3>1. EnterSection(p, "install")
      BY <1>13, <2>3, <2>6 DEF ReadCid, j
    <3>2. at'[p] = [section |-> "install", call |-> "impersonate"] /\ failed' = failed
      BY <1>6, <1>7, <3>1, Order DEF Section
    <3> QED
      BY <2>1, <2>3, <2>4, <2>6, <3>2 DEF Clean
  <2> QED
    BY <2>5, <2>6
<1>14. CASE Look(p)
  <2>1. c = "look" /\ tree' = tree /\ paused' = paused /\ seen' = seen
    BY <1>14 DEF Look, fork, c
  <2>2. s \in {"install", "open", "switch"} /\ ~failed[p]
    BY <1>4, <1>9, <2>1 DEF Clean, s, c
  <2>3. CASE s = "install"
    <3>1. at'[p].section = s /\ at'[p].call = (IF paused THEN "unpause" ELSE "write")
          /\ failed' = failed
      BY <1>8, <1>14, <2>1, <2>3 DEF Look, s
    <3> QED
      BY <1>4, <1>6, <2>1, <2>2, <2>3, <3>1 DEF Clean, s, c
  <2>4. CASE s = "open" /\ paused
    <3>1. at'[p].section = s /\ at'[p].call = "impersonate" /\ failed' = failed
      BY <1>8, <1>14, <2>1, <2>4 DEF Look, s
    <3> QED
      BY <1>4, <2>1, <2>2, <2>4, <3>1 DEF Clean, s, c
  <2>5. CASE s = "open" /\ ~paused
    <3>1. EnterSection(p, "create") /\ j.kind = "vetted"
      BY <1>4, <1>14, <2>5 DEF Look, Clean, s
    <3>2. at'[p] = [section |-> "create", call |-> "impersonate"] /\ failed' = failed
      BY <1>6, <1>7, <3>1, Order DEF Section
    <3>3. ~w
      BY <3>1 DEF w, Unchanged
    <3> QED
      BY <1>4, <2>1, <2>2, <2>5, <3>1, <3>2, <3>3 DEF Clean, s, c, w
  <2>6. CASE s = "switch"
    <3>1. j.kind \in {"pause", "resume"} /\ ~w
      BY <1>4, <2>6 DEF Clean, s, w, Unchanged
    <3>2. CASE paused = (j.kind = "pause")
      <4>1. EnterSection(p, "none")
        BY <1>14, <2>6, <3>2 DEF Look, s, j
      <4>2. at'[p] = Rest /\ failed' = failed /\ Rest.section = "none"
        BY <1>6, <1>7, <4>1, Order
      <4> QED
        BY <2>2, <3>1, <4>2 DEF Clean, w
    <3>3. CASE paused # (j.kind = "pause")
      <4>1. Goto(p, "impersonate")
        BY <1>14, <2>6, <3>3 DEF Look, s, j
      <4>2. at'[p].section = s /\ at'[p].call = "impersonate" /\ failed' = failed
        BY <1>8, <2>1, <4>1
      <4>3. paused <=> j.kind = "resume"
        <5>1. paused <=> j.kind # "pause"
          BY <1>6, <3>3, Zenon
        <5> QED
          BY <3>1, <5>1
      <4> QED
        BY <2>1, <2>2, <2>6, <3>1, <4>2, <4>3 DEF Clean
    <3> QED
      BY <3>2, <3>3
  <2> QED
    BY <2>2, <2>3, <2>4, <2>5, <2>6
<1>15. CASE Impersonate(p)
  <2>1. c = "impersonate" /\ tree' = tree /\ paused' = paused /\ seen' = seen
    BY <1>15 DEF Impersonate, BeginImpersonation, c
  <2>2. at'[p].section = s /\ at'[p].call = AfterImpersonate(p) /\ failed' = failed
    BY <1>8, <1>15, <2>1 DEF Impersonate
  <2>3. AfterImpersonate(p) = IF s = "install" /\ j.kind = "curated" THEN "look"
                              ELSE IF s = "open" THEN "unpause"
                              ELSE IF s = "create" /\ j.kind = "vetted" THEN "try" ELSE "write"
    BY DEF AfterImpersonate, s, j
  <2>4. ~failed[p] /\ s \in {"install", "open", "create", "restore", "switch"}
    BY <1>4, <1>9, <2>1 DEF Clean, s, c
  <2> QED
    BY <1>4, <2>1, <2>2, <2>3, <2>4 DEF Clean, s, c
<1>16. CASE Simulate(p)
  <2>1. c = "try" /\ tree' = tree /\ paused' = paused /\ seen' = seen
    BY <1>16 DEF Simulate, fork, c
  <2>2. s = "create" /\ ~failed[p]
    BY <1>4, <1>9, <2>1 DEF Clean, s, c
  <2>3. PICK d \in {"write", "impersonate"} : Goto(p, d)
    BY <1>16 DEF Simulate
  <2>4. at'[p].section = s /\ at'[p].call = d /\ failed' = failed
    BY <1>8, <2>1, <2>3
  <2> QED
    BY <1>4, <2>1, <2>2, <2>3, <2>4 DEF Clean, s, c
<1>17. CASE Do(p)
  <2>1. /\ c \in {"write", "unpause"} /\ seen' = seen /\ Accepts(p)
        /\ tree' = (IF Installs(p) THEN Target(p) ELSE tree)
        /\ paused' = (IF c = "unpause" THEN FALSE
                      ELSE IF s = "switch" THEN j.kind = "pause" ELSE paused)
        /\ Goto(p, AfterDo(p))
    BY <1>17 DEF Do, Transact, c, s, j
  <2>2. at'[p].section = s /\ at'[p].call = AfterDo(p) /\ failed' = failed
    BY <1>8, <2>1
  <2>3. ~failed[p] /\ s \in {"install", "open", "create", "restore", "switch"}
    BY <1>4, <1>9, <2>1 DEF Clean, s, c
  <2>4. CASE s = "install" /\ c = "unpause"
    <3>1. tree' = tree /\ ~paused' /\ AfterDo(p) = "write"
      BY <2>1, <2>4 DEF Installs, AfterDo, s, c
    <3> QED
      BY <1>4, <2>1, <2>2, <2>3, <2>4, <3>1 DEF Clean, s, c
  <2>5. CASE s = "install" /\ c = "write"
    <3>1. /\ tree' = Target(p) /\ paused' = paused /\ AfterDo(p) = "stop"
          /\ tree.root # Target(p).root
      BY <2>1, <2>5 DEF Installs, AfterDo, Accepts, s, c
    <3>2. /\ j.kind \in {"set", "add", "curated", "vetted"}
          /\ Adds(j) => seen[p].cid = before.cid /\ ~(j.list \subseteq before.cid.of)
          /\ j.kind = "curated" => ~paused
          /\ tree = before
      BY <1>4, <2>5 DEF Clean, s, c
    <3>3. Target(p) = N
      BY <1>11, <2>5, <3>2 DEF Target, N, New, s, j
    <3>4. ~w
      BY <1>1, <1>6, <3>1, <3>2, <3>3, NewRoot DEF w, N
    <3> QED
      BY <2>1, <2>2, <2>3, <2>5, <3>1, <3>2, <3>3, <3>4 DEF Clean, w, N
  <2>6. CASE s = "open"
    <3>1. c = "unpause"
      BY <1>4, <2>1, <2>6 DEF Clean, s, c
    <3>2. tree' = tree /\ ~paused' /\ AfterDo(p) = "stop"
      BY <2>1, <2>6, <3>1 DEF Installs, AfterDo, s, c
    <3> QED
      BY <1>4, <2>1, <2>2, <2>3, <2>6, <3>2 DEF Clean, s, c
  <2>7. CASE s = "create"
    <3>1. c = "write"
      BY <1>4, <2>1, <2>7 DEF Clean, s, c
    <3>2. tree' = tree /\ paused' = paused /\ AfterDo(p) = "stop"
      BY <2>1, <2>7, <3>1 DEF Installs, AfterDo, s, c
    <3> QED
      BY <1>4, <2>1, <2>2, <2>3, <2>7, <3>2 DEF Clean, s, c
  <2>8. CASE s = "restore"
    <3>1. AfterDo(p) = "stop"
      BY <2>8 DEF AfterDo, s
    <3> QED
      BY <1>4, <2>2, <2>3, <2>8, <3>1 DEF Clean, s, c
  <2>9. CASE s = "switch"
    <3>1. AfterDo(p) = "stop"
      BY <2>9 DEF AfterDo, s
    <3> QED
      BY <1>4, <2>2, <2>3, <2>9, <3>1 DEF Clean, s, c
  <2> QED
    BY <2>1, <2>3, <2>4, <2>5, <2>6, <2>7, <2>8, <2>9
<1>18. CASE Stop(p)
  <2>1. c = "stop" /\ tree' = tree /\ paused' = paused /\ seen' = seen
    BY <1>18 DEF Stop, EndImpersonation, c
  <2>2. s \in {"install", "open", "create", "restore", "switch"}
    BY <1>4, <1>9, <2>1 DEF Clean, s, c
  <2>3. CASE failed[p]
    <3>1. w /\ s = "install"
      BY <1>4, <2>2, <2>3 DEF Clean, s, w
    <3>2. at'[p] = Rest /\ failed' = failed /\ Rest.section = "none"
      <4>1. EnterSection(p, AfterError(j, "install"))
        BY <1>18, <2>3, <3>1 DEF Stop, s, j
      <4> QED
        BY <1>6, <1>7, <4>1, Order
    <3> QED
      BY <2>3, <3>1, <3>2 DEF Clean, w
  <2>4. CASE ~failed[p]
    <3>1. EnterSection(p, After(j, s))
      BY <1>18, <2>4 DEF Stop, s, j
    <3>2. ~w
      BY <1>4, <2>1, <2>2 , <2>4 DEF Clean, s, c, w, Unchanged
    <3>3. CASE After(j, s) = "none"
      <4>1. at'[p] = Rest /\ failed' = failed /\ Rest.section = "none"
        BY <1>6, <1>7, <3>1, <3>3, Order
      <4> QED
        BY <2>4, <3>2, <4>1 DEF Clean, w
    <3>4. CASE After(j, s) = "open"
      <4>1. s = "install" /\ j.kind = "vetted"
        BY <1>6, <2>2, <3>4, Order
      <4>2. at'[p] = [section |-> "open", call |-> "look"] /\ failed' = failed
        BY <1>6, <1>7, <3>1, <3>4, Order DEF Section
      <4> QED
        BY <1>4, <1>11, <2>1, <2>4, <4>1, <4>2 DEF Clean, s, c
    <3>5. CASE After(j, s) = "create"
      <4>1. (s = "install" /\ j.kind = "curated") \/ (s = "open" /\ j.kind = "vetted")
        <5>1. s = "open" => j.kind = "vetted"
          BY <1>4 DEF Clean, s
        <5> QED
          BY <1>6, <2>2, <3>5, <5>1, Order
      <4>2. /\ at'[p].section = "create" /\ at'[p].call \in {"try", "impersonate"}
            /\ failed' = failed
        BY <1>6, <1>7, <3>1, <3>5, Order DEF Section
      <4> QED
        BY <1>4, <2>1, <2>4, <3>2, <4>1, <4>2 DEF Clean, s, c, w
    <3>6. CASE After(j, s) = "restore"
      <4>1. s = "create" /\ j.kind = "curated"
        BY <1>6, <2>2, <3>6, Order
      <4>2. at'[p] = [section |-> "restore", call |-> "impersonate"] /\ failed' = failed
        BY <1>6, <1>7, <3>1, <3>6, Order DEF Section
      <4> QED
        BY <1>4, <2>1, <2>4, <3>2, <4>1, <4>2 DEF Clean, s, c, w
    <3> QED
      BY <1>6, <2>2, <3>3, <3>4, <3>5, <3>6, Order
  <2> QED
    BY <2>3, <2>4
<1>19. CASE Reject(p)
  <2>1. /\ c \in {"try", "write", "unpause"} /\ Throw(p)
        /\ tree' = tree /\ paused' = paused /\ seen' = seen
        /\ (~Accepts(p)) \/ (c # "try" /\ Account(p) \notin impersonated)
    BY <1>19 DEF Reject, fork, c
  <2>2. c # "try" => InBracket(j, at[p]) /\ Account(p) \in impersonated
    BY <1>1, <2>1 DEF KeepsKey, InBracket, j, c
  <2>3. ~Accepts(p)
    BY <2>1, <2>2
  <2>4. s \in {"install", "open", "create", "restore", "switch"}
    BY <1>4, <1>9, <2>1 DEF Clean, s, c
  <2>5. s = "install" /\ c = "write" /\ tree.root = Target(p).root
    <3>1. CASE s = "create"
      <4>1. ~paused /\ tree.root = N.root /\ j.kind \in {"curated", "vetted"}
            /\ (j.kind = "vetted" => seen[p].cid = before.cid)
            /\ c \in {"try", "impersonate", "write", "stop"}
        BY <1>4, <3>1 DEF Clean, s, c, N
      <4>2. Target(p) = N
        BY <1>11, <3>1, <4>1 DEF Target, N, New, s, j
      <4> QED
        BY <2>3, <3>1, <4>1, <4>2 DEF Accepts, Installs, s, c
    <3>2. CASE s = "restore"
      <4>1. c = "write" /\ j.kind = "curated" /\ ~w /\ tree.root = N.root /\ seen[p] = before
        BY <1>4, <1>10, <2>1, <3>2 DEF Clean, s, c, w, N
      <4>2. N.root # before.root
        BY <1>1, <1>6, <1>11, <4>1, NewRoot DEF w, N
      <4> QED
        BY <2>3, <3>2, <4>1, <4>2 DEF Accepts, Installs, Target, s, c
    <3>3. CASE s = "open"
      <4>1. c = "unpause" /\ paused
        BY <1>4, <2>1, <3>3 DEF Clean, s, c
      <4> QED
        BY <2>3, <3>3, <4>1 DEF Accepts, Installs, s, c
    <3>4. CASE s = "switch"
      <4>1. c = "write" /\ j.kind \in {"pause", "resume"} /\ (paused <=> j.kind = "resume")
        BY <1>4, <2>1, <3>4 DEF Clean, s, c
      <4>2. paused # (j.kind = "pause")
        <5>1. paused <=> j.kind # "pause"
          BY <4>1
        <5> QED
          BY <5>1, Zenon
      <4> QED
        BY <2>3, <3>4, <4>1, <4>2, Zenon DEF Accepts, Installs, s, c, j
    <3>5. CASE s = "install"
      <4>1. c \in {"write", "unpause"} /\ (c = "unpause" => paused)
        BY <1>4, <2>1, <3>5 DEF Clean, s, c
      <4> QED
        BY <2>3, <3>5, <4>1 DEF Accepts, Installs, s, c
    <3> QED
      BY <2>4, <3>1, <3>2, <3>3, <3>4, <3>5
  <2>6. /\ j.kind \in {"set", "add", "curated", "vetted"}
        /\ Adds(j) => seen[p].cid = before.cid /\ ~(j.list \subseteq before.cid.of)
        /\ tree = before
    BY <1>4, <2>5 DEF Clean, s, c
  <2>7. Target(p) = N
    BY <1>11, <2>5, <2>6 DEF Target, N, New, s, j
  <2>8. w
    BY <1>1, <1>6, <2>5, <2>6, <2>7, NewRoot DEF w, N
  <2>9. at'[p].section = s /\ at'[p].call = "stop" /\ failed'[p]
    BY <1>1, <2>1, <2>2, <2>5, ThrowKeeps DEF s, c, j
  <2>10. j.kind = "curated" => ~paused
    BY <1>4, <2>5 DEF Clean, s, c
  <2> QED
    BY <2>1, <2>5, <2>6, <2>8, <2>9, <2>10 DEF Clean, w
<1> QED
  BY <1>3, <1>12, <1>13, <1>14, <1>15, <1>16, <1>17, <1>18, <1>19

-----------------------------------------------------------------------------
(* The theorems.                                                           *)

\* Nothing runs yet.
LEMMA InitInvariant == Init => IInv
<1> SUFFICES ASSUME Init PROVE IInv
  OBVIOUS
<1>1. TypeOK
  <2>1. NoTree \in Tree /\ \A S \in SUBSET Leaf : Pinned(S) \in Tree
    BY DEF NoTree, Pinned, Tree, Cid
  <2>2. NoJob \in Job
    BY DEF NoJob, Job
  <2>3. tree \in Tree
    BY <2>1, GateAssumption DEF Init
  <2> QED
    BY <2>1, <2>2, <2>3 DEF Init, TypeOK, At
<1>2. Held /\ Company /\ KeepsKey /\ CuratedRun /\ AddRun /\ CleanRun
  BY DEF Init, Held, Company, KeepsKey, CuratedRun, AddRun, CleanRun, SoloKind
<1> QED
  BY <1>1, <1>2 DEF IInv

\* Every step keeps the invariant.
LEMMA InvariantStep == IInv /\ [Next]_vars => IInv'
<1> SUFFICES ASSUME IInv, [Next]_vars PROVE IInv'
  OBVIOUS
<1>1. TypeOK' /\ Held' /\ Company' /\ KeepsKey'
  BY TypeStep, HeldStep, CompanyStep, KeyStep DEF IInv
<1>2. CuratedRun' /\ AddRun' /\ CleanRun'
  <2>1. CASE UNCHANGED vars
    BY <2>1 DEF vars, fork, history, IInv, CuratedRun, AddRun, CleanRun, SoloKind, Listed
  <2>2. CASE Next
    BY <2>2, CuratedStart, CuratedRPC, AddStart, AddRPC, CleanStart, CleanRPC DEF Next, IInv
  <2> QED
    BY <2>1, <2>2
<1> QED
  BY <1>1, <1>2 DEF IInv

\* The inductive invariant holds of every behaviour.
THEOREM Invariance == Spec => []IInv
<1> QED
  BY InitInvariant, InvariantStep, PTL DEF Spec

\* Trees, flags and recipes keep their types, for any clients, operators and lists.
THEOREM TypeCorrect == Spec => []TypeOK
<1>1. IInv => TypeOK
  BY DEF IInv
<1> QED
  BY <1>1, Invariance, PTL

\* actAs always stops impersonating: whoever the fork signs for when every recipe
\* has ended is an account whose stop never reached it.
THEOREM ImpersonationEnds == Spec => []NobodyLeftImpersonated
<1>1. IInv => NobodyLeftImpersonated
  BY RestOutside DEF IInv, Held, NobodyLeftImpersonated
<1> QED
  BY <1>1, Invariance, PTL

\* A curated creation that nothing overlaps leaves the original tree behind, when
\* nothing but the reads and the creation fails.
THEOREM OriginalTreeComesBack == Spec => []RestoredWhenAlone
<1>1. IInv => RestoredWhenAlone
  BY DEF IInv, CuratedRun, RestoredWhenAlone, SoloEnded, AtRest
<1> QED
  BY <1>1, Invariance, PTL

\* An addition that nothing overlaps keeps every member, whatever fails, and has
\* added what it was called with if it reports success.
THEOREM AdditionsKeepMembers == Spec => []AddKeepsMembers
<1>1. ASSUME IInv, SoloKind({"add", "vetted"}), Listed(before)
      PROVE  before.root \subseteq tree.root
  BY <1>1 DEF IInv, AddRun, Pinned
<1>2. ASSUME IInv, SoloKind({"add", "vetted"}), Listed(before), SoloEnded, ~failed[solo]
      PROVE  job[solo].list \subseteq tree.root
  BY <1>2 DEF IInv, AddRun, SoloEnded, AtRest
<1>3. IInv => AddKeepsMembers
  BY <1>1, <1>2 DEF AddKeepsMembers
<1> QED
  BY <1>3, Invariance, PTL

\* A recipe that nothing overlaps and no fault disturbs fails if and only if it asks
\* for the root that is there.
THEOREM FailsOnlyUnchanged == Spec => []AloneFailsOnlyUnchanged
<1>1. IInv => AloneFailsOnlyUnchanged
  BY DEF IInv, CleanRun, Clean, AloneFailsOnlyUnchanged, SoloEnded, AtRest
<1> QED
  BY <1>1, Invariance, PTL
=============================================================================
