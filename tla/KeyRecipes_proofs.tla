------------------------- MODULE KeyRecipes_proofs --------------------------
(***************************************************************************)
(* Proofs about KeyRecipes for any number of clients, operators and keys   *)
(* and any scenarios: type correctness, and that however recipes overlap,  *)
(* fail and are repeated the cl mock shows a validator to be exiting only  *)
(* if VEBO has processed a request for its exit; and that a recipe that    *)
(* overlaps no other and meets no fault fails only for a reason the fork   *)
(* gave it as it began, and otherwise does all of what it is for.          *)
(***************************************************************************)
EXTENDS KeyRecipes, FiniteSetTheorems, TLAPS

\* What set-target-limit sends is a number of keys, and what is posted a balance; what
\* is yet to be read are keys, or the operators of a new group; and an exit request has
\* had its data processed before they leave the list of its writes, and tells the cl
\* mock when the list is empty.
Fits(r, s, done) ==
  /\ r.job.kind = "set-target-limit" =>
       r.n \in 0 .. MaxKeys /\ s \in {"idle", "open", "send", "close"}
  /\ s = "post" => r.n \in 0 .. Cap
  /\ s \in {"balance", "post"} => r.job.kind \in {"exit-request", "cl-activate"}
  /\ s \in {"allocated", "keys"} => r.unread \subseteq Index \X BOOLEAN
  /\ s = "groups" /\ r.job.kind = "create-operator-group" => r.unread \subseteq Operator
  /\ s = "pubkey" => r.job.kind \in {"exit-request", "cl-activate"}
  /\ s \in {"summary", "simulate"} => r.job.kind = "deposit"
  /\ r.job.kind = "exit-request" =>
       /\ s \in {"idle", "pubkey", "module", "report", "clock", "open", "send", "close",
                 "balance", "post"}
       /\ 3 \notin r.todo => <<r.job.o, r.job.k>> \in done
       /\ s \in {"balance", "post"} => r.todo = {}
Fitting == \A p \in Client : Fits(run[p], pc[p], exited)

\* The inductive invariant.
IInv == TypeOK /\ Fitting /\ ExitingWasRequested

-----------------------------------------------------------------------------
(* Types.                                                                  *)

LEMMA JobsType ==
  ASSUME TypeOK
  PROVE  Jobs \subseteq Job
<1> SUFFICES ASSUME NEW j \in Jobs PROVE j \in Job
  OBVIOUS
<1>1. scenario.about \subseteq Operator /\ scenario.flags \subseteq BOOLEAN /\ NoJob.o \in Operator
  BY KeyRecipesAssumption DEF TypeOK, NoJob
<1>2. 0 .. MaxKeys - 1 \subseteq 0 .. MaxKeys /\ 1 .. MaxKeys \subseteq 0 .. MaxKeys /\ 0 \in Index
  BY KeyRecipesAssumption DEF Index
<1>3. NoJob.shares \in [Operator -> 0 .. AllBps]
  BY DEF NoJob, AllBps
<1>4. PICK c \in scenario.commands \cap Kind : j \in Options(c)
  BY Zenon DEF Jobs
<1>5. (CASE c \in {"add-keys", "deposit", "activate-keys"} -> 1 .. MaxKeys
         [] c \in {"unvet", "set-target-limit"}            -> 0 .. MaxKeys - 1
         [] OTHER                                          -> {0}) \subseteq 0 .. MaxKeys
  BY <1>2 DEF Index
<1>6. Options(c) \subseteq Job
  BY <1>1, <1>2, <1>3, <1>4, <1>5 DEF Options, Job
<1> QED
  BY <1>4, <1>6

LEMMA SignerType ==
  ASSUME NEW r \in Run
  PROVE  Signer(r) \in Account
BY DEF Signer, Run, Account

\* An operator has no more keys to deposit than places are left.
LEMMA Places ==
  ASSUME NEW f \in Fork, NEW o \in Operator
  PROVE  /\ Cardinality({k \in Depositable(f) : k[1] = o}) \in Nat
         /\ f.deposited[o] + Cardinality({k \in Depositable(f) : k[1] = o}) <= MaxKeys
<1> DEFINE D == {k \in Depositable(f) : k[1] = o}
           I == f.deposited[o] .. MaxKeys - 1
           pi == [k \in D |-> k[2]]
<1>1. f.deposited[o] \in 0 .. MaxKeys /\ f.vetted[o] \in 0 .. MaxKeys
  BY DEF Fork, Counts
<1>2. pi \in Injection(D, I)
  <2>1. \A k \in D : k \in Key /\ k[1] = o /\ k[2] \in I
    BY <1>1, KeyRecipesAssumption DEF Depositable, Key, Index
  <2>2. \A k, h \in D : k[2] = h[2] => k = h
    BY <2>1 DEF Key
  <2> QED
    BY <2>1, <2>2 DEF Injection, IsInjective
<1>3. IsFiniteSet(I) /\ Cardinality(I) = MaxKeys - f.deposited[o]
  <2>1. f.deposited[o] \in Int /\ MaxKeys - 1 \in Int /\ f.deposited[o] <= MaxKeys
    BY <1>1, KeyRecipesAssumption
  <2>2. /\ IsFiniteSet(I)
        /\ Cardinality(I) = IF f.deposited[o] > MaxKeys - 1 THEN 0
                            ELSE (MaxKeys - 1) - f.deposited[o] + 1
    BY <2>1, FS_Interval
  <2> QED
    BY <2>1, <2>2, KeyRecipesAssumption
<1>4. IsFiniteSet(D) /\ Cardinality(D) <= Cardinality(I)
  BY <1>2, <1>3, FS_Injection
<1>5. Cardinality(D) \in Nat
  BY <1>4, FS_CardinalityType
<1> QED
  BY <1>1, <1>3, <1>4, <1>5, KeyRecipesAssumption

LEMMA KeysFinite ==
  ASSUME NEW f \in Fork
  PROVE  /\ Cardinality(Deposited(f)) \in Nat
         /\ Cardinality(Depositable(f)) \in Nat
<1>1. IsFiniteSet(Key)
  <2>1. 0 \in Int /\ MaxKeys - 1 \in Int
    BY KeyRecipesAssumption
  <2>2. IsFiniteSet(Index)
    BY <2>1, FS_Interval DEF Index
  <2> QED
    BY <2>2, FS_Product, KeyRecipesAssumption DEF Key
<1> QED
  BY <1>1, FS_Subset, FS_CardinalityType DEF Deposited, Depositable

LEMMA DepositType ==
  ASSUME NEW f \in Fork, NEW c \in Nat, NEW s \in Turns(f, c)
  PROVE  Deposit(f, c, s) \in Fork
<1>1. \A o \in Operator : /\ Cardinality({i \in 1 .. c : s[i] = o}) \in Nat
                          /\ f.deposited[o] + Cardinality({i \in 1 .. c : s[i] = o}) <= MaxKeys
  <2> TAKE o \in Operator
  <2>1. IsFiniteSet(1 .. c)
    BY FS_Interval
  <2>2. Cardinality({i \in 1 .. c : s[i] = o}) \in Nat
    BY <2>1, FS_Subset, FS_CardinalityType
  <2>3. Cardinality({i \in 1 .. c : s[i] = o}) <= Cardinality({k \in Depositable(f) : k[1] = o})
    BY DEF Turns
  <2> QED
    BY <2>2, <2>3, Places, KeyRecipesAssumption DEF Fork, Counts
<1>2. [o \in Operator |-> f.deposited[o] + Cardinality({i \in 1 .. c : s[i] = o})] \in Counts
  BY <1>1, KeyRecipesAssumption DEF Fork, Counts
<1> DEFINE nth(i) == <<s[i], f.deposited[s[i]] + Cardinality({h \in 1 .. (i - 1) : s[h] = s[i]})>>
           place(k) == CHOOSE i \in 1 .. c : nth(i) = k
           turns == [k \in Key |-> IF \E i \in 1 .. c : nth(i) = k
                                   THEN Cardinality(Deposited(f)) + place(k)
                                   ELSE f.turn[k]]
<1>3. turns \in [Key -> Nat]
  <2> SUFFICES ASSUME NEW k \in Key PROVE turns[k] \in Nat
    OBVIOUS
  <2>1. CASE \E i \in 1 .. c : nth(i) = k
    <3>1. place(k) \in 1 .. c
      BY <2>1
    <3> HIDE DEF place, nth
    <3> QED
      BY <2>1, <3>1, KeysFinite
  <2>2. CASE ~\E i \in 1 .. c : nth(i) = k
    BY <2>2 DEF Fork
  <2> QED
    BY <2>1, <2>2
<1>4. Deposit(f, c, s) =
        [f EXCEPT !.deposited = [o \in Operator |-> f.deposited[o] + Cardinality({i \in 1 .. c : s[i] = o})],
                  !.turn = turns]
  BY DEF Deposit
<1> HIDE DEF turns
<1> QED
  BY <1>2, <1>3, <1>4, ZenonT(30) DEF Fork

\* The contracts stay what recipes read.
LEMMA EffectsType ==
  ASSUME NEW f \in Fork, NEW r \in Run, NEW w, Accepts(f, r, w),
         r.job.kind = "set-target-limit" => r.n \in 0 .. MaxKeys,
         NEW g \in Effects(f, r, w)
  PROVE  g \in Fork
<1> DEFINE j == r.job
           o == j.o
           key == <<o, w>>
<1>1. /\ j \in Job /\ o \in Operator /\ j.k \in Index /\ j.n \in 0 .. MaxKeys
      /\ <<o, j.k>> \in Key /\ r.n \in Nat /\ r.until \in Nat
  BY DEF Run, Job, Key
<1>2. /\ f.added[o] \in 0 .. MaxKeys /\ f.vetted[o] \in 0 .. MaxKeys
      /\ f.deposited[o] \in 0 .. MaxKeys
  BY <1>1 DEF Fork, Counts
<1>3. CASE j.kind = "add-keys"
  <2>1. f.added[o] + j.n \in 0 .. MaxKeys
    BY <1>1, <1>2, <1>3, KeyRecipesAssumption DEF Accepts, VerifierKind, GroupKind
  <2>2. \E v \in {f.vetted[o], f.added[o] + j.n} :
          g = [f EXCEPT !.added[o] = f.added[o] + j.n, !.vetted[o] = v, !.owes = f.owes \ {o}]
    BY <1>3 DEF Effects, GroupKind
  <2>3. PICK v \in 0 .. MaxKeys :
          g = [f EXCEPT !.added = [f.added EXCEPT ![o] = f.added[o] + j.n],
                        !.vetted = [f.vetted EXCEPT ![o] = v], !.owes = f.owes \ {o}]
    <3>1. {f.vetted[o], f.added[o] + j.n} \subseteq 0 .. MaxKeys
      BY <1>2, <2>1, Zenon
    <3> QED
      BY <2>2, <3>1, ZenonT(30)
  <2>4. /\ [f.added EXCEPT ![o] = f.added[o] + j.n] \in Counts
        /\ [f.vetted EXCEPT ![o] = v] \in Counts
    BY <2>1 DEF Fork, Counts
  <2> QED
    BY <2>3, <2>4, Zenon DEF Fork
<1>4. CASE j.kind = "remove-key"
  <2>1. f.added[o] - 1 \in 0 .. MaxKeys
    BY <1>1, <1>2, <1>4, KeyRecipesAssumption DEF Accepts, Index, VerifierKind, GroupKind
  <2>2. \E v \in {Minimum(f.vetted[o], f.added[o] - 1), f.added[o] - 1} :
          g = [f EXCEPT !.added[o] = f.added[o] - 1, !.vetted[o] = v]
    BY <1>4 DEF Effects, GroupKind
  <2>3. PICK v \in 0 .. MaxKeys :
          g = [f EXCEPT !.added = [f.added EXCEPT ![o] = f.added[o] - 1],
                        !.vetted = [f.vetted EXCEPT ![o] = v]]
    <3>1. Minimum(f.vetted[o], f.added[o] - 1) \in 0 .. MaxKeys
      BY <1>2, <2>1 DEF Minimum
    <3> QED
      BY <2>1, <2>2, <3>1, Zenon
  <2>4. /\ [f.added EXCEPT ![o] = f.added[o] - 1] \in Counts
        /\ [f.vetted EXCEPT ![o] = v] \in Counts
    BY <2>1 DEF Fork, Counts
  <2> QED
    BY <2>3, <2>4 DEF Fork
<1>5. CASE j.kind \in {"propose-manager", "confirm-manager"}
  <2>1. j.who \in Manager \cup {None} /\ f.proposed[o] \in Manager \cup {None}
    BY <1>1 DEF Job, Fork
  <2>2. CASE j.kind = "propose-manager"
    BY <1>1, <2>1, <2>2 DEF Effects, Fork, GroupKind
  <2>3. CASE j.kind = "confirm-manager"
    <3>1. r.as = f.proposed[o]
      BY <2>3 DEF Accepts, VerifierKind, GroupKind
    <3>2. g = [f EXCEPT !.manager = [f.manager EXCEPT ![o] = r.as],
                        !.proposed = [f.proposed EXCEPT ![o] = None]]
      BY <2>3 DEF Effects, GroupKind
    <3>3. /\ [f.manager EXCEPT ![o] = r.as] \in [Operator -> Manager \cup {None}]
          /\ [f.proposed EXCEPT ![o] = None] \in [Operator -> Manager \cup {None}]
      BY <1>1, <2>1, <3>1 DEF Fork
    <3> QED
      BY <3>2, <3>3 DEF Fork
  <2> QED
    BY <1>5, <2>2, <2>3
<1>6. CASE j.kind \in {"create-bond-debt", "report-penalty", "settle-penalty",
                       "add-bond", "cancel-penalty", "compensate-penalty"}
  <2>1. g \in {f, [f EXCEPT !.owes = @ \cup {o}], [f EXCEPT !.owes = @ \ {o}]}
    BY <1>6, Zenon DEF Effects, GroupKind
  <2> QED
    BY <1>1, <2>1 DEF Fork
<1>7. CASE j.kind = "unvet"
  BY <1>1, <1>7 DEF Effects, Fork, Counts, GroupKind
<1>8. CASE j.kind = "set-target-limit"
  BY <1>1, <1>8 DEF Effects, Fork, Counts, GroupKind
<1>9. CASE j.kind = "deposit"
  <2>1. CASE w = 2
    BY <1>1, <1>9, <2>1, DepositType DEF Effects, GroupKind
  <2>2. CASE w # 2
    BY <1>9, <2>2 DEF Effects, GroupKind
  <2> QED
    BY <2>1, <2>2
<1>10. CASE j.kind \in {"top-up-active-keys", "increase-allocated-balance"}
  <2>1. \E v \in 0 .. Cap : g = [f EXCEPT !.allocated[key] = v]
    <3>1. key \in Key
      BY <1>10 DEF Accepts, Deposited, VerifierKind, GroupKind
    <3>2. f.allocated[key] \in 0 .. Cap
      BY <3>1 DEF Fork
    <3>3. Cap = 2
      BY DEF Cap
    <3>4. CASE j.kind = "top-up-active-keys"
      <4>1. g = [f EXCEPT !.allocated[key] = Cap]
        BY <3>4 DEF Effects, GroupKind
      <4> QED
        BY <4>1, <3>3
    <3>5. CASE j.kind = "increase-allocated-balance"
      <4>1. g = [f EXCEPT !.allocated[key] = Minimum(Cap, f.allocated[key] + 1)]
        BY <3>5 DEF Effects, GroupKind
      <4>2. Minimum(Cap, f.allocated[key] + 1) \in 0 .. Cap
        BY <3>2, <3>3 DEF Minimum
      <4> QED
        BY <4>1, <4>2
    <3> QED
      BY <1>10, <3>4, <3>5
  <2>2. PICK v \in 0 .. Cap : g = [f EXCEPT !.allocated = [f.allocated EXCEPT ![key] = v]]
    BY <2>1
  <2>3. [f.allocated EXCEPT ![key] = v] \in [Key -> 0 .. Cap]
    BY DEF Fork
  <2> QED
    BY <2>2, <2>3, Zenon DEF Fork
<1>11. CASE j.kind \in VerifierKind
  <2>1. key \in Key
    BY <1>11 DEF Accepts, Deposited, VerifierKind, GroupKind
  <2>2. g \in {f, [f EXCEPT !.confirmed = f.confirmed \cup {key}],
                 [f EXCEPT !.slashed = f.slashed \cup {key}],
                 [f EXCEPT !.withdrawn = f.withdrawn \cup {key}]}
    BY <1>11, Zenon DEF Effects, VerifierKind, GroupKind
  <2> QED
    BY <2>1, <2>2 DEF Fork
<1>12. CASE j.kind = "register-module"
  <2>1. g \in {[f EXCEPT !.granted = TRUE], [f EXCEPT !.registered = TRUE]}
    BY <1>12 DEF Effects, GroupKind
  <2>2. \A b \in BOOLEAN : [f EXCEPT !.granted = b] \in Fork /\ [f EXCEPT !.registered = b] \in Fork
    BY DEF Fork
  <2> QED
    BY <2>1, <2>2, Zenon
<1>13. CASE j.kind \in GroupKind
  <2>1. CASE w \in 1 .. MaxGroup
    <3> DEFINE G == [x \in Operator |-> IF f.group[x] = w THEN 0 ELSE f.group[x]]
               S == [x \in Operator |-> IF f.group[x] = w THEN 0 ELSE f.share[x]]
    <3>1. g = [f EXCEPT !.group = G, !.share = S]
      <4>1. w # NewGroup
        BY <2>1, KeyRecipesAssumption DEF NewGroup
      <4>2. g \in {[f EXCEPT !.group = G, !.share = S]}
        BY <1>13, <2>1, <4>1, Zenon DEF Effects, GroupKind
      <4> QED
        BY <4>2
    <3>2. G \in [Operator -> 0 .. MaxGroup] /\ S \in [Operator -> 0 .. AllBps]
      BY KeyRecipesAssumption DEF Fork, AllBps
    <3> HIDE DEF G, S
    <3> QED
      BY <3>1, <3>2 DEF Fork
  <2>2. CASE w = NewGroup
    <3>1. w \notin 1 .. MaxGroup /\ MaxGroup \in Nat
      BY <2>2, KeyRecipesAssumption DEF NewGroup
    <3>2. f.groups + 1 \in 0 .. MaxGroup
      BY <1>13, <2>2, <3>1 DEF Accepts, GroupKind, Fork, VerifierKind
    <3>3. g = [f EXCEPT !.groups = f.groups + 1,
                 !.group = [x \in Operator |-> IF x \in j.named THEN f.groups + 1 ELSE f.group[x]],
                 !.share = [x \in Operator |-> IF x \in j.named THEN j.shares[x] ELSE f.share[x]]]
      BY <1>13, <2>2, <3>1 DEF Effects, GroupKind
    <3>4. j.shares \in [Operator -> 0 .. AllBps]
      BY <1>1 DEF Job
    <3> QED
      BY <3>2, <3>3, <3>4, Zenon DEF Fork
  <2>3. CASE w \notin 1 .. MaxGroup /\ w # NewGroup
    BY <1>13, <2>3, Zenon DEF Effects, GroupKind
  <2> QED
    BY <2>1, <2>2, <2>3
<1>14. CASE j.kind \in {"exit-request", "cl-activate"}
  <2>1. g \in {f, [f EXCEPT !.reported = r.n, !.asking = <<o, j.k>>, !.until = r.until],
                 [f EXCEPT !.done = r.n]}
    BY <1>14, Zenon DEF Effects, GroupKind
  <2>2. [f EXCEPT !.reported = r.n, !.asking = <<o, j.k>>, !.until = r.until] \in Fork
    BY <1>1 DEF Fork
  <2>3. [f EXCEPT !.done = r.n] \in Fork
    BY <1>1 DEF Fork
  <2> QED
    BY <2>1, <2>2, <2>3
<1>15. j.kind \in Kind
  BY <1>1 DEF Job
<1> QED
  BY <1>3, <1>4, <1>5, <1>6, <1>7, <1>8, <1>9, <1>10, <1>11, <1>12, <1>13, <1>14, <1>15
  DEF Kind, RouterKind, ManagerKind

\* Only the data of an exit request moves VEBO on: to this request, and only once.
LEMMA DataMoves ==
  ASSUME NEW f \in Fork, NEW r \in Run, NEW w, Accepts(f, r, w), NEW g \in Effects(f, r, w)
  PROVE  LET exit == r.job.kind = "exit-request" /\ w = 3
         IN  /\ g.done # f.done => exit
             /\ exit => /\ g.done # f.done /\ f.asking = <<r.job.o, r.job.k>>
                        /\ ~Accepts(g, r, w)
<1>1. CASE r.job.kind = "exit-request" /\ w = 3
  <2>1. f.done < r.n /\ f.asking = <<r.job.o, r.job.k>> /\ f.done \in Nat /\ r.n \in Nat
    BY <1>1 DEF Accepts, Fork, Run, VerifierKind, GroupKind
  <2>2. g = [f EXCEPT !.done = r.n]
    BY <1>1 DEF Effects, GroupKind
  <2>3. g.done = r.n
    BY <2>2 DEF Fork
  <2>4. ~Accepts(g, r, w)
    BY <1>1, <2>1, <2>3 DEF Accepts, VerifierKind, GroupKind
  <2> QED
    BY <1>1, <2>1, <2>3, <2>4
<1>2. CASE ~(r.job.kind = "exit-request" /\ w = 3)
  <2>1. g.done = f.done
    <3>1. CASE r.job.kind = "add-keys"
      <4>1. \E v \in {f.vetted[r.job.o], f.added[r.job.o] + r.job.n} :
              g = [f EXCEPT !.added = [f.added EXCEPT ![r.job.o] = f.added[r.job.o] + r.job.n],
                            !.vetted = [f.vetted EXCEPT ![r.job.o] = v],
                            !.owes = f.owes \ {r.job.o}]
        <5>1. \E v \in {f.vetted[r.job.o], f.added[r.job.o] + r.job.n} :
                g = [f EXCEPT !.added[r.job.o] = f.added[r.job.o] + r.job.n,
                              !.vetted[r.job.o] = v, !.owes = f.owes \ {r.job.o}]
          BY <3>1 DEF Effects, GroupKind
        <5> QED
          BY <5>1, Zenon
      <4> QED
        BY <4>1 DEF Fork
    <3>2. CASE r.job.kind = "remove-key"
      BY <3>2, ZenonT(30) DEF Effects, GroupKind, Fork
    <3>3. CASE r.job.kind \in {"propose-manager", "confirm-manager"}
      BY <3>3, Zenon DEF Effects, GroupKind, Fork
    <3>4. CASE r.job.kind \in {"create-bond-debt", "report-penalty", "settle-penalty",
                               "add-bond", "cancel-penalty", "compensate-penalty"}
      BY <3>4, Zenon DEF Effects, GroupKind, Fork
    <3>5. CASE r.job.kind \in {"unvet", "set-target-limit"}
      BY <3>5, Zenon DEF Effects, GroupKind, Fork
    <3>6. CASE r.job.kind = "deposit"
      BY <3>6, Zenon DEF Effects, GroupKind, Fork, Deposit
    <3>7. CASE r.job.kind \in {"top-up-active-keys", "increase-allocated-balance"} \cup VerifierKind
      BY <3>7, Zenon DEF Effects, GroupKind, Fork, VerifierKind
    <3>8. CASE r.job.kind = "register-module"
      BY <3>8 DEF Effects, GroupKind, Fork
    <3>9. CASE r.job.kind \in GroupKind
      BY <3>9, Zenon DEF Effects, GroupKind, Fork, NewGroup
    <3>10. CASE r.job.kind \in {"exit-request", "cl-activate"}
      BY <1>2, <3>10, Zenon DEF Effects, GroupKind, Fork
    <3>11. r.job.kind \in Kind
      BY DEF Run, Job
    <3> QED
      BY <3>1, <3>2, <3>3, <3>4, <3>5, <3>6, <3>7, <3>8, <3>9, <3>10, <3>11
      DEF Kind, RouterKind, ManagerKind
  <2> QED
    BY <1>2, <2>1
<1> QED
  BY <1>1, <1>2

-----------------------------------------------------------------------------
(* What the endings of an RPC come to.                                     *)

LEMMA AdvanceType ==
  ASSUME TypeOK, NEW p \in Client, NEW r \in Run, NEW s \in Stage, Advance(p, r, s)
  PROVE  /\ pc' = [pc EXCEPT ![p] = s] /\ run' = [run EXCEPT ![p] = r]
         /\ end' \in [Client -> {"none", "done", "failed"}] /\ disturbed' \in BOOLEAN
<1>1. pc' = [pc EXCEPT ![p] = s] /\ run' = [run EXCEPT ![p] = r]
  BY DEF Advance, End, Goto, Local
<1>2. end' \in [Client -> {"none", "done", "failed"}]
  BY DEF Advance, End, TypeOK
<1>3. disturbed' \in BOOLEAN
  BY Zenon DEF Advance, Fault, TypeOK
<1> QED
  BY <1>1, <1>2, <1>3

\* A run that throws keeps its locals, and has a bracket to close or is over.
LEMMA ThrowType ==
  ASSUME TypeOK, NEW p \in Client, NEW fault \in BOOLEAN, Throw(p, fault)
  PROVE  /\ \E s \in {"close", "idle"}, b \in BOOLEAN :
              /\ pc' = [pc EXCEPT ![p] = s]
              /\ run' = [run EXCEPT ![p] = [run[p] EXCEPT !.failed = b]]
         /\ end' \in [Client -> {"none", "done", "failed"}] /\ disturbed' \in BOOLEAN
<1>1. \E s \in {"close", "idle"}, b \in BOOLEAN :
        /\ pc' = [pc EXCEPT ![p] = s]
        /\ run' = [run EXCEPT ![p] = [run[p] EXCEPT !.failed = b]]
  <2>1. CASE pc[p] \in Bracketed
    <3>1. /\ pc' = [pc EXCEPT ![p] = "close"]
          /\ run' = [run EXCEPT ![p] = [run[p] EXCEPT !.failed = TRUE]]
      BY <2>1 DEF Throw, Goto, Local
    <3> QED
      BY <3>1, Zenon
  <2>2. CASE pc[p] \notin Bracketed
    <3>1. pc' = [pc EXCEPT ![p] = "idle"] /\ run' = run
      BY <2>2 DEF Throw, End, Goto
    <3>2. /\ run[p].failed \in BOOLEAN
          /\ run = [run EXCEPT ![p] = [run[p] EXCEPT !.failed = run[p].failed]]
      BY DEF TypeOK, Run
    <3>3. run' = [run EXCEPT ![p] = [run[p] EXCEPT !.failed = run[p].failed]]
      BY <3>1, <3>2
    <3> QED
      BY <3>1, <3>2, <3>3, Zenon
  <2> QED
    BY <2>1, <2>2
<1>3. end' \in [Client -> {"none", "done", "failed"}]
  BY DEF Throw, End, TypeOK
<1>4. disturbed' \in BOOLEAN
  BY Zenon DEF Throw, Fault, TypeOK
<1> QED
  BY <1>1, <1>3, <1>4

\* A step after which a client goes on at s with r.
LEMMA Goes ==
  ASSUME TypeOK, Fitting, NEW p \in Client, NEW r \in Run, NEW s \in Stage,
         pc' = [pc EXCEPT ![p] = s], run' = [run EXCEPT ![p] = r],
         exited \subseteq exited', Fits(r, s, exited')
  PROVE  pc' \in [Client -> Stage] /\ run' \in [Client -> Run] /\ Fitting'
<1>1. pc' \in [Client -> Stage] /\ run' \in [Client -> Run]
  BY DEF TypeOK
<1>2. Fitting'
  <2> SUFFICES ASSUME NEW q \in Client PROVE Fits(run'[q], pc'[q], exited')
    BY DEF Fitting
  <2>1. CASE q = p
    BY <2>1 DEF TypeOK
  <2>2. CASE q # p
    <3>1. run'[q] = run[q] /\ pc'[q] = pc[q]
      BY <2>2 DEF TypeOK
    <3> QED
      BY <3>1 DEF Fitting, Fits
  <2> QED
    BY <2>1, <2>2
<1> QED
  BY <1>1, <1>2

\* A step that throws, whatever it did to the contracts.
LEMMA Thrown ==
  ASSUME TypeOK, Fitting, NEW p \in Client, NEW fault \in BOOLEAN, Throw(p, fault),
         exited \subseteq exited'
  PROVE  /\ pc' \in [Client -> Stage] /\ run' \in [Client -> Run] /\ Fitting'
         /\ end' \in [Client -> {"none", "done", "failed"}] /\ disturbed' \in BOOLEAN
<1>1. PICK s \in {"close", "idle"}, b \in BOOLEAN :
        /\ pc' = [pc EXCEPT ![p] = s]
        /\ run' = [run EXCEPT ![p] = [run[p] EXCEPT !.failed = b]]
  BY ThrowType
<1> DEFINE r == [run[p] EXCEPT !.failed = b]
<1>2. /\ r \in Run /\ r.job = run[p].job /\ r.n = run[p].n /\ r.todo = run[p].todo
  BY DEF TypeOK, Run
<1>3. Fits(r, s, exited')
  BY <1>2 DEF Fitting, Fits
<1>4. s \in Stage
  BY DEF Stage
<1> QED
  BY <1>1, <1>2, <1>3, <1>4, Goes, ThrowType

\* A step that goes on at s with r.
LEMMA Advanced ==
  ASSUME TypeOK, Fitting, NEW p \in Client, NEW r \in Run, NEW s \in Stage,
         Advance(p, r, s), exited \subseteq exited', Fits(r, s, exited')
  PROVE  /\ pc' \in [Client -> Stage] /\ run' \in [Client -> Run] /\ Fitting'
         /\ end' \in [Client -> {"none", "done", "failed"}] /\ disturbed' \in BOOLEAN
BY AdvanceType, Goes

\* A step that goes on so or throws.
LEMMA Replied ==
  ASSUME TypeOK, Fitting, NEW p \in Client, NEW r \in Run, NEW s \in Stage,
         Reply(p, r, s), exited \subseteq exited', Fits(r, s, exited')
  PROVE  /\ pc' \in [Client -> Stage] /\ run' \in [Client -> Run] /\ Fitting'
         /\ end' \in [Client -> {"none", "done", "failed"}] /\ disturbed' \in BOOLEAN
BY Advanced, Thrown DEF Reply

-----------------------------------------------------------------------------
(* Each step preserves the invariant.                                      *)

\* What a read, and all that changes nothing but a client's locals, leaves alone.
LEMMA Kept ==
  ASSUME IInv, Reads, pc' \in [Client -> Stage], run' \in [Client -> Run], Fitting',
         end' \in [Client -> {"none", "done", "failed"}], disturbed' \in BOOLEAN
  PROVE  IInv'
<1>1. UNCHANGED <<fork, impersonated, exited, snap, cl, scenario, solo, begin>>
  BY DEF Reads, Steady
<1>2. TypeOK'
  BY <1>1 DEF IInv, TypeOK
<1>3. ExitingWasRequested'
  BY <1>1 DEF IInv, ExitingWasRequested
<1> QED
  BY <1>2, <1>3 DEF IInv

LEMMA KeptAdvance ==
  ASSUME IInv, Reads, NEW p \in Client, NEW r \in Run, NEW s \in Stage, Advance(p, r, s),
         Fits(r, s, exited)
  PROVE  IInv'
<1>1. exited' = exited
  BY DEF Reads, Steady
<1> QED
  BY <1>1, Advanced, Kept DEF IInv

LEMMA KeptThrow ==
  ASSUME IInv, Reads, NEW p \in Client, NEW fault \in BOOLEAN, Throw(p, fault)
  PROVE  IInv'
<1>1. exited' = exited
  BY DEF Reads, Steady
<1> QED
  BY <1>1, Thrown, Kept DEF IInv

LEMMA NoRunType == NoRun \in Run
<1>1. NoJob \in Job
  <2>1. NoJob.o \in Operator /\ 0 \in Index /\ 0 \in 0 .. MaxKeys
    BY KeyRecipesAssumption DEF NoJob, Index
  <2>2. NoJob.o = CHOOSE o \in Operator : TRUE
    BY DEF NoJob
  <2> QED
    BY <2>1, <2>2 DEF NoJob, Job, Kind, RouterKind, AllBps
<1>2. None \in Account
  BY DEF Account
<1> QED
  BY <1>1, <1>2 DEF NoRun, Run

LEMMA StartKeeps ==
  ASSUME IInv, NEW p \in Client, Start(p)
  PROVE  IInv'
<1>1. PICK j \in Jobs :
        /\ Local(p, [NoRun EXCEPT !.job = j, !.todo = Known(j),
                                  !.unread = j.named,
                                  !.n = IF j.kind = "set-target-limit" THEN targetLimit(j) ELSE j.n])
        /\ IF Invalid(j) THEN End(p, "failed")
           ELSE Goto(p, First(j.kind)) /\ end' = [end EXCEPT ![p] = "none"]
  BY Zenon DEF Start
<1> DEFINE u == j.named
           m == IF j.kind = "set-target-limit" THEN targetLimit(j) ELSE j.n
           r == [NoRun EXCEPT !.job = j, !.todo = Known(j), !.unread = u, !.n = m]
           s == IF Invalid(j) THEN "idle" ELSE First(j.kind)
<1>2. j \in Job
  BY JobsType DEF IInv
<1>3. m \in 0 .. MaxKeys /\ m \in Nat
  BY <1>2, KeyRecipesAssumption DEF Job, targetLimit
<1>4. Known(j) \subseteq Nat /\ (j.kind = "exit-request" => Known(j) = {1, 2, 3})
  <2>1. j.k \in Nat /\ NewGroup \in Nat
    BY <1>2, KeyRecipesAssumption DEF Job, Index, NewGroup
  <2> QED
    BY <2>1 DEF Known
<1>5. u \in SUBSET (Operator \cup (Index \X BOOLEAN)) /\ Known(j) \in SUBSET Nat
  BY <1>2, <1>4 DEF Job
<1>6. r \in Run /\ r.job = j /\ r.todo = Known(j) /\ r.unread = u /\ r.n = m
  <2> HIDE DEF m, u
  <2> QED
    BY <1>2, <1>3, <1>5, NoRunType DEF Run
<1>7. /\ s \in {"idle", "operator", "pubkey", "module", "groups", "open"}
      /\ j.kind = "set-target-limit" => s \in {"idle", "open"}
      /\ j.kind = "exit-request" => s \in {"idle", "pubkey"}
      /\ s = "pubkey" => j.kind \in {"exit-request", "cl-activate"}
  BY DEF First, ManagerKind, GroupKind
<1>8. pc' = [pc EXCEPT ![p] = s] /\ run' = [run EXCEPT ![p] = r]
  BY <1>1 DEF Local, End, Goto
<1>9. Fits(r, s, exited)
  <2>1. u \subseteq Operator
    BY <1>2 DEF Job
  <2> HIDE DEF r, s, u, m
  <2> QED
    BY <1>3, <1>4, <1>6, <1>7, <2>1 DEF Fits
<1>10. UNCHANGED <<fork, snap, impersonated, cl, scenario, exited>>
  BY DEF Start
<1>11. pc' \in [Client -> Stage] /\ run' \in [Client -> Run] /\ Fitting'
  <2>1. s \in Stage
    BY <1>7 DEF Stage
  <2> HIDE DEF r, s
  <2> QED
    BY <1>6, <1>8, <1>9, <1>10, <2>1, Goes DEF IInv
<1>12. end' \in [Client -> {"none", "done", "failed"}]
  BY <1>1 DEF IInv, TypeOK, End
<1>13. solo' \in Client \cup {Nobody} /\ disturbed' \in BOOLEAN /\ begin' \in Fork
  BY DEF Start, IInv, TypeOK
<1>14. TypeOK'
  BY <1>10, <1>11, <1>12, <1>13 DEF IInv, TypeOK
<1>15. ExitingWasRequested'
  BY <1>10 DEF IInv, ExitingWasRequested
<1> QED
  BY <1>11, <1>14, <1>15 DEF IInv

\* The parts of a run.
LEMMA RunParts ==
  ASSUME IInv, NEW p \in Client
  PROVE  /\ run[p] \in Run /\ run[p].job \in Job /\ run[p].job.o \in Operator
         /\ run[p].job.k \in Index /\ run[p].n \in Nat /\ run[p].todo \subseteq Nat
         /\ run[p].unread \subseteq Operator \cup (Index \X BOOLEAN)
         /\ run[p].keep \subseteq Nat /\ run[p].as \in Account
         /\ Fits(run[p], pc[p], exited) /\ fork \in Fork
BY DEF IInv, TypeOK, Run, Job, Fitting

LEMMA ReadOperatorKeeps ==
  ASSUME IInv, NEW p \in Client, ReadOperator(p)
  PROVE  IInv'
<1> DEFINE r == run[p]
           o == r.job.o
           total == fork.deposited[o]
<1>1. Reads /\ pc[p] = "operator"
  BY DEF ReadOperator, At
<1>2. total \in 0 .. MaxKeys /\ fork.manager[o] \in Account /\ fork.proposed[o] \in Account
  BY RunParts DEF Fork, Counts, Account
<1>3. \A a \in Account, s \in {"bond", "open"} :
        [r EXCEPT !.as = a] \in Run /\ s \in Stage /\ Fits([r EXCEPT !.as = a], s, exited)
  BY <1>1, RunParts DEF Run, Fits, Stage
<1>4. CASE r.job.kind \in ManagerKind \cup {"confirm-manager"}
  <2>1. \E a \in Account, s \in {"bond", "open"} : Advance(p, [r EXCEPT !.as = a], s)
    BY <1>2, <1>4 DEF ReadOperator, ManagerKind
  <2> QED
    BY <1>1, <1>3, <2>1, KeptAdvance
<1>5. CASE r.job.kind \in {"top-up-active-keys", "activate-keys"}
  <2> DEFINE new == [r EXCEPT !.keep = 0 .. total - 1,
                              !.unread = (0 .. total - 1) \X {r.job.kind = "top-up-active-keys"}]
             s == IF r.job.kind = "activate-keys" THEN "keys" ELSE "allocated"
  <2>1. Throw(p, FALSE) \/ Advance(p, new, s)
    BY <1>5 DEF ReadOperator, ManagerKind
  <2>2. 0 .. total - 1 \subseteq Index
    BY <1>2, KeyRecipesAssumption DEF Index
  <2>3. /\ (0 .. total - 1) \X {r.job.kind = "top-up-active-keys"} \subseteq Index \X BOOLEAN
        /\ 0 .. total - 1 \in SUBSET Nat
    <3>1. (r.job.kind = "top-up-active-keys") \in BOOLEAN
      OBVIOUS
    <3>2. 0 .. total - 1 \subseteq Nat
      BY <2>2 DEF Index
    <3> QED
      BY <2>2, <3>1, <3>2, Zenon
  <2>4. new \in Run /\ s \in Stage /\ Fits(new, s, exited)
    BY <1>1, <1>5, <2>3, RunParts, ZenonT(30) DEF Run, Fits, Stage
  <2> QED
    BY <1>1, <2>1, <2>4, KeptAdvance, KeptThrow
<1>6. CASE r.job.kind \notin ManagerKind \cup {"confirm-manager", "top-up-active-keys", "activate-keys"}
  <2>1. Throw(p, FALSE) \/ Advance(p, r, "withdrawn")
    BY <1>6 DEF ReadOperator, ManagerKind
  <2>2. Fits(r, "withdrawn", exited) /\ "withdrawn" \in Stage
    BY <1>1, RunParts DEF Fits, Stage
  <2> QED
    BY <1>1, <2>1, <2>2, RunParts, KeptAdvance, KeptThrow
<1> QED
  BY <1>4, <1>5, <1>6

LEMMA ReadKeyKeeps ==
  ASSUME IInv, NEW p \in Client, ReadKey(p)
  PROVE  IInv'
<1>1. Reads /\ pc[p] = "keys"
  BY DEF ReadKey, At
<1>2. PICK x \in run[p].unread :
        LET key == <<run[p].job.o, x[1]>>
            r == IF x[2]
                 THEN [run[p] EXCEPT !.unread = @ \ {x},
                                     !.keep = IF key \in fork.withdrawn THEN @ \ {x[1]} ELSE @]
                 ELSE [run[p] EXCEPT !.unread = (@ \ {x}) \cup {<<x[1], TRUE>>},
                                     !.keep = IF key \in fork.confirmed THEN @ \ {x[1]} ELSE @]
        IN CASE r.unread # {} -> Advance(p, r, "keys")
             [] r.unread = {} /\ r.job.kind = "top-up-active-keys" ->
                  Advance(p, [r EXCEPT !.todo = r.keep], IF r.keep = {} THEN "idle" ELSE "open")
             [] OTHER -> IF Cardinality(r.keep) < r.n THEN Throw(p, FALSE)
                         ELSE Advance(p, [r EXCEPT !.todo = FirstOf(r.keep, r.n)], "open")
  BY Zenon DEF ReadKey
<1> DEFINE key == <<run[p].job.o, x[1]>>
           unread == IF x[2] THEN run[p].unread \ {x} ELSE (run[p].unread \ {x}) \cup {<<x[1], TRUE>>}
           keep == IF key \in (IF x[2] THEN fork.withdrawn ELSE fork.confirmed)
                   THEN run[p].keep \ {x[1]} ELSE run[p].keep
           r == IF x[2]
                THEN [run[p] EXCEPT !.unread = @ \ {x},
                                    !.keep = IF key \in fork.withdrawn THEN @ \ {x[1]} ELSE @]
                ELSE [run[p] EXCEPT !.unread = (@ \ {x}) \cup {<<x[1], TRUE>>},
                                    !.keep = IF key \in fork.confirmed THEN @ \ {x[1]} ELSE @]
<1>3. run[p].unread \subseteq Index \X BOOLEAN /\ x[1] \in Index
  <2>1. run[p].unread \subseteq Index \X BOOLEAN
    BY <1>1, RunParts DEF Fits
  <2> QED
    BY <2>1
<1>4. unread \in SUBSET (Index \X BOOLEAN)
  <2>1. \A y \in Index \X BOOLEAN : <<y[1], TRUE>> \in Index \X BOOLEAN
    BY TRUE \in BOOLEAN, Zenon
  <2> QED
    BY <1>3, <2>1, Zenon
<1>5. keep \in SUBSET Nat
  BY RunParts
<1>6. r = [run[p] EXCEPT !.unread = unread, !.keep = keep]
  BY Zenon
<1> HIDE DEF r, unread, keep
<1>7. /\ r \in Run /\ r.job = run[p].job /\ r.n = run[p].n /\ r.todo = run[p].todo
      /\ r.unread = unread /\ r.keep = keep
  BY <1>4, <1>5, <1>6, RunParts DEF Run
<1>8. \/ Advance(p, r, "keys")
      \/ \E T \in SUBSET keep, s \in {"idle", "open"} : Advance(p, [r EXCEPT !.todo = T], s)
      \/ Throw(p, FALSE)
  <2>1. CASE r.unread # {}
    BY <1>2, <2>1 DEF r
  <2>2. CASE r.unread = {} /\ r.job.kind = "top-up-active-keys"
    <3>1. Advance(p, [r EXCEPT !.todo = r.keep], IF r.keep = {} THEN "idle" ELSE "open")
      BY <1>2, <2>2 DEF r
    <3> QED
      BY <1>7, <3>1
  <2>3. CASE r.unread = {} /\ r.job.kind # "top-up-active-keys"
    <3>1. IF Cardinality(r.keep) < r.n THEN Throw(p, FALSE)
          ELSE Advance(p, [r EXCEPT !.todo = FirstOf(r.keep, r.n)], "open")
      BY <1>2, <2>3 DEF r
    <3>2. FirstOf(r.keep, r.n) \in SUBSET keep
      BY <1>7 DEF FirstOf
    <3> QED
      BY <3>1, <3>2
  <2> QED
    BY <2>1, <2>2, <2>3
<1>9. CASE Advance(p, r, "keys")
  <2>1. Fits(r, "keys", exited) /\ "keys" \in Stage
    BY <1>1, <1>4, <1>7, RunParts DEF Fits, Stage
  <2> QED
    BY <1>1, <1>7, <1>9, <2>1, KeptAdvance
<1>10. ASSUME NEW T \in SUBSET keep, NEW s \in {"idle", "open"}, Advance(p, [r EXCEPT !.todo = T], s)
       PROVE  IInv'
  <2>1. [r EXCEPT !.todo = T] \in Run /\ s \in Stage
    BY <1>5, <1>7 DEF Run, Stage
  <2>2. Fits([r EXCEPT !.todo = T], s, exited)
    BY <1>1, <1>7, RunParts DEF Run, Fits
  <2> QED
    BY <1>1, <1>10, <2>1, <2>2, KeptAdvance
<1> QED
  BY <1>1, <1>8, <1>9, <1>10, KeptThrow

LEMMA OtherReadsKeep ==
  ASSUME IInv, NEW p \in Client,
         \/ ReadBond(p) \/ ReadAllocated(p) \/ ReadWithdrawn(p) \/ ReadPubkey(p)
         \/ FindModule(p) \/ ResolveModule(p) \/ ReadRole(p) \/ ReadSource(p) \/ ReadReport(p)
         \/ ReadClock(p) \/ Summary(p) \/ Simulate(p) \/ ReadBalance(p)
  PROVE  IInv'
<1> DEFINE r == run[p]
           key == <<r.job.o, r.job.k>>
<1>1. /\ r \in Run /\ Fits(r, pc[p], exited) /\ Reads
      /\ fork.reported \in Nat /\ fork.day \in Nat /\ fork.allocated[key] \in 0 .. Cap
  <2>1. key \in Key
    BY RunParts DEF Key
  <2>2. fork.reported \in Nat /\ fork.day \in Nat /\ fork.allocated[key] \in 0 .. Cap
    BY <2>1, RunParts, KeyRecipesAssumption DEF Fork
  <2>3. Reads
    BY DEF ReadBond, ReadAllocated, ReadWithdrawn, ReadPubkey, FindModule, ResolveModule,
        ReadRole, ReadSource, ReadReport, ReadClock, Summary, Simulate, ReadBalance
  <2> QED
    BY <2>2, <2>3, RunParts
<1>2. CASE ReadBond(p)
  <2>1. Short(fork, r.job.o) \in Nat
    BY DEF Short
  <2>2. r.n + Short(fork, r.job.o) \in Nat
    BY <2>1, RunParts
  <2>3. [r EXCEPT !.n = @ + Short(fork, r.job.o)] \in Run /\ "open" \in Stage
    BY <1>1, <2>2 DEF Run, Stage
  <2>4. Fits([r EXCEPT !.n = @ + Short(fork, r.job.o)], "open", exited)
    BY <1>1, <1>2 DEF Fits, Run, ReadBond, At
  <2> QED
    BY <1>1, <1>2, <2>3, <2>4, KeptAdvance DEF ReadBond
<1>3. CASE ReadAllocated(p)
  <2> DEFINE K == {i \in r.keep : fork.allocated[<<r.job.o, i>>] = 0}
  <2>1. K \in SUBSET Nat
    BY RunParts
  <2>2. [r EXCEPT !.keep = K] \in Run /\ "keys" \in Stage
    BY <1>1, <2>1 DEF Run, Stage
  <2>3. Fits([r EXCEPT !.keep = K], "keys", exited)
    BY <1>1, <1>3 DEF Fits, Run, ReadAllocated, At
  <2>4. Advance(p, [r EXCEPT !.keep = K], "keys")
    BY <1>3 DEF ReadAllocated
  <2> HIDE DEF K
  <2> QED
    BY <1>1, <2>2, <2>3, <2>4, KeptAdvance
<1>4. CASE ReadWithdrawn(p)
  <2>1. Fits(r, "open", exited) /\ "open" \in Stage
    BY <1>1, <1>4 DEF Fits, ReadWithdrawn, At, Stage
  <2> QED
    BY <1>1, <1>4, <2>1, KeptAdvance, KeptThrow DEF ReadWithdrawn
<1>5. CASE ReadPubkey(p)
  <2> DEFINE s == IF r.job.kind = "exit-request" THEN "module" ELSE "balance"
  <2>1. Fits(r, s, exited) /\ s \in Stage
    BY <1>1, <1>5 DEF Fits, ReadPubkey, At, Stage
  <2> QED
    BY <1>1, <1>5, <2>1, KeptAdvance, KeptThrow DEF ReadPubkey
<1>6. CASE FindModule(p)
  <2>1. \/ Throw(p, FALSE)
        \/ r.job.kind = "register-module" /\ \E s \in {"idle", "role"} : Advance(p, r, s)
        \/ Advance(p, r, "report")
    BY <1>6 DEF FindModule
  <2>2. \A s \in {"idle", "role"} : r.job.kind = "register-module" => Fits(r, s, exited)
    BY <1>1, <1>6 DEF Fits, FindModule, At
  <2>3. Fits(r, "report", exited)
    BY <1>1, <1>6 DEF Fits, FindModule, At
  <2>4. {"idle", "role", "report"} \subseteq Stage
    BY DEF Stage
  <2> QED
    BY <1>1, <2>1, <2>2, <2>3, <2>4, KeptAdvance, KeptThrow
<1>7. CASE ResolveModule(p)
  <2>1. Fits(r, "idle", exited) /\ "idle" \in Stage
    BY <1>1, <1>7 DEF Fits, ResolveModule, At, Stage
  <2> QED
    BY <1>1, <1>7, <2>1, KeptAdvance, KeptThrow DEF ResolveModule
<1>8. CASE ReadRole(p)
  <2>1. \E T \in {{2}, {1, 2}}, s \in {"open", "source"} : Advance(p, [r EXCEPT !.todo = T], s)
    BY <1>8 DEF ReadRole
  <2>2. \A T \in {{2}, {1, 2}}, s \in {"open", "source"} : [r EXCEPT !.todo = T] \in Run /\ s \in Stage
    BY <1>1 DEF Run, Stage
  <2>3. \A T \in {{2}, {1, 2}}, s \in {"open", "source"} : Fits([r EXCEPT !.todo = T], s, exited)
    BY <1>1, <1>8 DEF Fits, Run, ReadRole, At
  <2> QED
    BY <1>1, <2>1, <2>2, <2>3, KeptAdvance
<1>9. CASE ReadReport(p)
  <2>1. [r EXCEPT !.n = nextRef(fork)] \in Run /\ "clock" \in Stage
    BY <1>1 DEF Run, Stage, nextRef
  <2>2. Fits([r EXCEPT !.n = nextRef(fork)], "clock", exited)
    BY <1>1, <1>9 DEF Fits, Run, ReadReport, At
  <2> QED
    BY <1>1, <1>9, <2>1, <2>2, KeptAdvance DEF ReadReport
<1>10. CASE ReadClock(p)
  <2>1. [r EXCEPT !.until = fork.day + 1] \in Run /\ "open" \in Stage
    BY <1>1 DEF Run, Stage
  <2>2. Fits([r EXCEPT !.until = fork.day + 1], "open", exited)
    BY <1>1, <1>10 DEF Fits, Run, ReadClock, At
  <2> QED
    BY <1>1, <1>10, <2>1, <2>2, KeptAdvance DEF ReadClock
<1>11. CASE Summary(p)
  <2> DEFINE capped == Minimum(r.job.n, Cardinality(Depositable(fork)))
  <2>1. capped \in Nat
    BY RunParts, KeysFinite, KeyRecipesAssumption DEF Minimum, Job
  <2>2. [r EXCEPT !.n = capped] \in Run /\ "simulate" \in Stage
    BY <1>1, <2>1 DEF Run, Stage
  <2>3. Fits([r EXCEPT !.n = capped], "simulate", exited)
    BY <1>1, <1>11 DEF Fits, Run, Summary, At
  <2>4. Throw(p, FALSE) \/ Advance(p, [r EXCEPT !.n = capped], "simulate")
    BY <1>11 DEF Summary
  <2> HIDE DEF capped
  <2> QED
    BY <1>1, <2>2, <2>3, <2>4, KeptAdvance, KeptThrow
<1>12. CASE Simulate(p)
  <2>1. [r EXCEPT !.todo = {2}] \in Run /\ "send" \in Stage
    BY <1>1 DEF Run, Stage
  <2>2. Fits([r EXCEPT !.todo = {2}], "send", exited)
    BY <1>1, <1>12 DEF Fits, Run, Simulate, At
  <2> QED
    BY <1>1, <1>12, <2>1, <2>2, KeptAdvance, KeptThrow DEF Simulate
<1>13. CASE ReadBalance(p)
  <2>1. [r EXCEPT !.n = activeBalance(fork, key)] \in Run /\ "post" \in Stage
    BY <1>1 DEF Run, Stage, activeBalance, Cap
  <2>2. Fits([r EXCEPT !.n = activeBalance(fork, key)], "post", exited)
    BY <1>1, <1>13 DEF Fits, Run, ReadBalance, At, activeBalance
  <2> QED
    BY <1>1, <1>13, <2>1, <2>2, KeptAdvance DEF ReadBalance
<1>14. CASE ReadSource(p)
  <2>1. Fits(r, "open", exited) /\ "open" \in Stage
    BY <1>1, <1>14 DEF Fits, ReadSource, At, Stage
  <2> QED
    BY <1>1, <1>14, <2>1, KeptAdvance, KeptThrow DEF ReadSource
<1> QED
  BY <1>2, <1>3, <1>4, <1>5, <1>6, <1>7, <1>8, <1>9, <1>10, <1>11, <1>12, <1>13, <1>14

LEMMA ReadGroupKeeps ==
  ASSUME IInv, NEW p \in Client, ReadGroup(p)
  PROVE  IInv'
<1> DEFINE r == run[p]
<1>1. r \in Run /\ Fits(r, "groups", exited) /\ Reads /\ {"open", "groups"} \subseteq Stage
  BY RunParts, Zenon DEF ReadGroup, At, Stage
<1>2. \A x \in Operator : fork.group[x] \in Nat
  BY RunParts, KeyRecipesAssumption DEF Fork
<1>3. CASE r.job.kind = "create-operator-group"
  <2>1. PICK o \in r.unread :
          Advance(p, [r EXCEPT !.unread = @ \ {o}, !.todo = @ \cup ({fork.group[o]} \ {0})],
                  IF r.unread = {o} THEN "open" ELSE "groups")
    BY <1>3, Zenon DEF ReadGroup
  <2> DEFINE U == r.unread \ {o}
             T == r.todo \cup ({fork.group[o]} \ {0})
             s == IF r.unread = {o} THEN "open" ELSE "groups"
  <2>2. U \in SUBSET (Operator \cup (Index \X BOOLEAN)) /\ U \subseteq Operator /\ T \in SUBSET Nat
    BY <1>1, <1>2, <1>3, RunParts DEF Fits
  <2>3. Advance(p, [r EXCEPT !.unread = U, !.todo = T], s)
    BY <2>1
  <2> HIDE DEF U, T
  <2>4. [r EXCEPT !.unread = U, !.todo = T] \in Run /\ s \in Stage
    BY <1>1, <2>2 DEF Run
  <2>5. Fits([r EXCEPT !.unread = U, !.todo = T], s, exited)
    BY <1>1, <1>3, <2>2 DEF Fits, Run
  <2> QED
    BY <1>1, <2>3, <2>4, <2>5, KeptAdvance
<1>4. CASE r.job.kind # "create-operator-group"
  <2> DEFINE T == {fork.group[r.job.o]}
  <2>1. T \in SUBSET Nat
    BY <1>2, RunParts
  <2>2. Throw(p, FALSE) \/ Advance(p, [r EXCEPT !.todo = T], "open")
    BY <1>4 DEF ReadGroup
  <2> HIDE DEF T
  <2>3. [r EXCEPT !.todo = T] \in Run
    BY <1>1, <2>1 DEF Run
  <2>4. Fits([r EXCEPT !.todo = T], "open", exited)
    BY <1>1 DEF Fits, Run
  <2> QED
    BY <1>1, <2>2, <2>3, <2>4, KeptAdvance, KeptThrow
<1> QED
  BY <1>3, <1>4

LEMMA OpenKeeps ==
  ASSUME IInv, NEW p \in Client, Open(p)
  PROVE  IInv'
<1> DEFINE r == [run[p] EXCEPT !.as = Signer(run[p])]
<1>1. Signer(run[p]) \in Account
  BY RunParts, SignerType
<1>2. r \in Run /\ "send" \in Stage /\ Fits(r, "send", exited)
  BY <1>1, RunParts DEF Run, Stage, Fits, Open, At
<1>3. UNCHANGED <<fork, exited, snap, cl, scenario, solo, begin>> /\ Reply(p, r, "send")
  BY DEF Open, Steady
<1>4. impersonated' \subseteq Account
  BY <1>1 DEF Open, IInv, TypeOK
<1>5. /\ pc' \in [Client -> Stage] /\ run' \in [Client -> Run] /\ Fitting'
      /\ end' \in [Client -> {"none", "done", "failed"}] /\ disturbed' \in BOOLEAN
  BY <1>2, <1>3, Replied DEF IInv
<1>6. TypeOK'
  BY <1>3, <1>4, <1>5 DEF IInv, TypeOK
<1> QED
  BY <1>3, <1>5, <1>6 DEF IInv, ExitingWasRequested

LEMMA CloseKeeps ==
  ASSUME IInv, NEW p \in Client, Close(p)
  PROVE  IInv'
<1> DEFINE r == run[p]
           s == AfterWrites(r)
<1>1. s \in {"open", "source", "balance", "resolve", "idle"} /\ s \in Stage
  BY DEF AfterWrites, Stage
<1>2. Fits(r, s, exited)
  BY <1>1, RunParts DEF Fits, AfterWrites, Close, At
<1>3. /\ UNCHANGED <<fork, exited, snap, cl, scenario, solo, begin>>
      /\ Throw(p, FALSE) \/ Reply(p, r, s)
  BY DEF Close, Steady
<1>4. impersonated' \subseteq Account
  BY DEF Close, IInv, TypeOK
<1>5. /\ pc' \in [Client -> Stage] /\ run' \in [Client -> Run] /\ Fitting'
      /\ end' \in [Client -> {"none", "done", "failed"}] /\ disturbed' \in BOOLEAN
  BY <1>1, <1>2, <1>3, RunParts, Replied, Thrown DEF IInv
<1>6. TypeOK'
  BY <1>3, <1>4, <1>5 DEF IInv, TypeOK
<1> QED
  BY <1>3, <1>5, <1>6 DEF IInv, ExitingWasRequested

LEMMA PostKeeps ==
  ASSUME IInv, NEW p \in Client, Post(p)
  PROVE  IInv'
<1> DEFINE r == run[p]
           key == <<r.job.o, r.job.k>>
           entry == [status |-> IF r.job.kind = "cl-activate" THEN "active_ongoing"
                                ELSE "active_exiting",
                     balance |-> r.n]
<1>1. key \in Key /\ Fits(r, "post", exited) /\ Fits(r, "idle", exited) /\ "idle" \in Stage
  BY RunParts DEF Fits, Post, At, Stage, Key
<1>2. UNCHANGED <<fork, snap, impersonated, scenario, solo, begin, exited>> /\ Reply(p, r, "idle")
  BY DEF Post
<1>3. entry \in Entry
  BY <1>1 DEF Fits, Entry
<1>4. cl' = [cl EXCEPT ![key] = entry]
  BY DEF Post
<1>5. /\ pc' \in [Client -> Stage] /\ run' \in [Client -> Run] /\ Fitting'
      /\ end' \in [Client -> {"none", "done", "failed"}] /\ disturbed' \in BOOLEAN
  BY <1>1, <1>2, RunParts, Replied DEF IInv
<1>6. TypeOK'
  BY <1>1, <1>2, <1>3, <1>4, <1>5 DEF IInv, TypeOK
<1>7. ExitingWasRequested'
  <2> SUFFICES ASSUME NEW k \in Key, cl'[k].status = "active_exiting" PROVE k \in exited'
    BY DEF ExitingWasRequested
  <2>1. CASE k # key
    BY <1>1, <1>2, <1>4, <2>1 DEF IInv, TypeOK, ExitingWasRequested
  <2>2. CASE k = key
    <3>1. r.job.kind # "cl-activate"
      BY <1>1, <1>4, <2>2 DEF IInv, TypeOK
    <3>2. r.job.kind = "exit-request"
      BY <3>1, <1>1 DEF Fits
    <3> QED
      BY <1>1, <1>2, <2>2, <3>2 DEF Fits
  <2> QED
    BY <2>1, <2>2
<1> QED
  BY <1>5, <1>6, <1>7 DEF IInv

LEMMA SendKeeps ==
  ASSUME IInv, NEW p \in Client, Send(p)
  PROVE  IInv'
<1>1. PICK w \in NextWrites(run[p]) :
        LET r == [run[p] EXCEPT !.todo = @ \ {w}]
            s == CASE r.job.kind = "deposit" /\ w = 1 -> "summary"
                   [] Together(r) -> "send"
                   [] OTHER -> "close"
        IN /\ Takes(p, w) /\ fork' \in Effects(fork, run[p], w)
           /\ Reply(p, r, s) \/ Again(p)
  BY Zenon DEF Send
<1> DEFINE r == [run[p] EXCEPT !.todo = @ \ {w}]
           s == CASE r.job.kind = "deposit" /\ w = 1 -> "summary"
                  [] Together(r) -> "send"
                  [] OTHER -> "close"
           Exits == run[p].job.kind = "exit-request" /\ w = 3
           key == <<run[p].job.o, run[p].job.k>>
<1>2. /\ Accepts(fork, run[p], w) /\ fork' \in Effects(fork, run[p], w)
      /\ Reply(p, r, s) \/ Again(p)
  BY <1>1 DEF Takes
<1>3. pc[p] = "send" /\ Fits(run[p], "send", exited)
  BY RunParts DEF Send, At
<1>4. /\ exited' = exited \cup (IF fork'.done # fork.done THEN {fork.asking} ELSE {})
      /\ UNCHANGED <<impersonated, snap, cl, scenario, solo, begin>>
  BY DEF Send, Steady
<1>5. fork' \in Fork
  BY <1>2, <1>3, RunParts, EffectsType DEF Fits
<1>6. /\ fork'.done # fork.done => Exits
      /\ Exits => fork'.done # fork.done /\ fork.asking = key
  BY <1>2, RunParts, DataMoves
<1>7. key \in Key
  BY RunParts DEF Key
<1>8. /\ exited \subseteq exited' /\ exited' \subseteq Key
      /\ Exits => key \in exited'
  <2>1. exited \subseteq Key
    BY DEF IInv, TypeOK
  <2> QED
    BY <1>4, <1>6, <1>7, <2>1
<1>9. s \in {"summary", "send", "close"} /\ s \in Stage
  BY DEF Stage
<1>10. r \in Run /\ r.job = run[p].job /\ r.n = run[p].n /\ r.todo = run[p].todo \ {w}
  BY RunParts DEF Run
<1>11. s = "summary" => r.job.kind = "deposit"
  BY <1>10
<1>12. Fits(r, s, exited')
  <2>1. r.job.kind = "exit-request" /\ 3 \notin r.todo => key \in exited'
    <3> SUFFICES ASSUME r.job.kind = "exit-request", 3 \notin r.todo PROVE key \in exited'
      OBVIOUS
    <3>1. CASE 3 \in run[p].todo
      BY <1>8, <1>10, <3>1
    <3>2. CASE 3 \notin run[p].todo
      BY <1>3, <1>8, <1>10, <3>2 DEF Fits
    <3> QED
      BY <3>1, <3>2
  <2> HIDE DEF r, s
  <2> QED
    BY <1>3, <1>9, <1>10, <1>11, <2>1 DEF Fits
<1> HIDE DEF r, s
<1>13. /\ pc' \in [Client -> Stage] /\ run' \in [Client -> Run] /\ Fitting'
       /\ end' \in [Client -> {"none", "done", "failed"}] /\ disturbed' \in BOOLEAN
  <2>1. CASE Reply(p, r, s)
    BY <1>8, <1>9, <1>10, <1>12, <2>1, Replied DEF IInv
  <2>2. CASE Again(p)
    <3>1. UNCHANGED <<pc, run, end>> /\ disturbed' \in BOOLEAN
      BY <2>2, Zenon DEF Again, client, Fault, IInv, TypeOK
    <3>2. \A q \in Client : Fits(run[q], pc[q], exited')
      BY <1>8 DEF IInv, Fitting, Fits
    <3> QED
      BY <3>1, <3>2 DEF IInv, TypeOK, Fitting
  <2> QED
    BY <1>2, <2>1, <2>2
<1>14. TypeOK'
  BY <1>4, <1>5, <1>8, <1>13 DEF IInv, TypeOK
<1>15. ExitingWasRequested'
  BY <1>4, <1>8 DEF IInv, ExitingWasRequested
<1> QED
  BY <1>13, <1>14, <1>15 DEF IInv

LEMMA StepKeeps ==
  ASSUME IInv, NEW p \in Client, Step(p)
  PROVE  IInv'
<1>1. CASE SendFails(p)
  BY <1>1, KeptThrow DEF SendFails
<1>2. CASE Lose(p)
  BY <1>2, KeptThrow DEF Lose
<1>3. CASE Kill(p)
  <2>1. pc' = [pc EXCEPT ![p] = "idle"] /\ run' = run /\ Reads
    BY <1>3 DEF Kill, End, Goto
  <2>2. run' = [run EXCEPT ![p] = run[p]]
    BY <2>1 DEF IInv, TypeOK
  <2>3. exited' = exited /\ Fits(run[p], "idle", exited) /\ "idle" \in Stage
    BY <2>1, RunParts DEF Reads, Steady, Fits, Stage
  <2>4. pc' \in [Client -> Stage] /\ run' \in [Client -> Run] /\ Fitting'
    BY <2>1, <2>2, <2>3, RunParts, Goes DEF IInv
  <2>5. end' \in [Client -> {"none", "done", "failed"}]
    BY <1>3 DEF Kill, End, IInv, TypeOK
  <2>6. disturbed' \in BOOLEAN
    BY <1>3, Zenon DEF Kill, Fault, IInv, TypeOK
  <2> QED
    BY <2>1, <2>4, <2>5, <2>6, Kept
<1> QED
  BY <1>1, <1>2, <1>3, StartKeeps, ReadOperatorKeeps, ReadKeyKeeps, OtherReadsKeep,
     ReadGroupKeeps, OpenKeeps, SendKeeps, CloseKeeps, PostKeeps DEF Step

LEMMA WorldKeeps ==
  ASSUME IInv, warpBy \/ snapshot \/ revert
  PROVE  IInv'
<1>1. /\ UNCHANGED <<impersonated, cl, pc, run, end, scenario, solo, begin, exited>>
      /\ disturbed' = (disturbed \/ solo # Nobody)
  BY DEF warpBy, snapshot, revert, Passes, client
<1>2. disturbed' \in BOOLEAN
  BY <1>1, Zenon DEF IInv, TypeOK
<1>3. fork' \in Fork /\ snap' \in Fork \cup {None}
  <2>1. CASE warpBy
    <3>1. fork.day + 1 \in 0 .. MaxDay
      BY <2>1, KeyRecipesAssumption DEF warpBy, IInv, TypeOK, Fork
    <3>2. fork' = [fork EXCEPT !.day = fork.day + 1] /\ snap' = snap
      BY <2>1 DEF warpBy
    <3> QED
      BY <3>1, <3>2 DEF IInv, TypeOK, Fork
  <2>2. CASE snapshot
    BY <2>2 DEF snapshot, IInv, TypeOK
  <2>3. CASE revert
    BY <2>3 DEF revert, IInv, TypeOK
  <2> QED
    BY <2>1, <2>2, <2>3
<1>4. TypeOK'
  BY <1>1, <1>2, <1>3 DEF IInv, TypeOK
<1>5. Fitting' /\ ExitingWasRequested'
  BY <1>1 DEF IInv, Fitting, ExitingWasRequested
<1> QED
  BY <1>4, <1>5 DEF IInv

LEMMA Initially == Init => IInv
<1> SUFFICES ASSUME Init PROVE IInv
  OBVIOUS
<1>1. fork \in Fork
  BY KeyRecipesAssumption DEF Init
<1>2. "idle" \in Stage
  BY DEF Stage
<1>3. disturbed \in BOOLEAN
  BY Zenon DEF Init
<1>4. TypeOK
  BY <1>1, <1>2, <1>3, NoRunType DEF Init, TypeOK
<1>5. NoRun.job.kind = "deposit"
  BY DEF NoRun, NoJob
<1>6. Fitting
  BY <1>5 DEF Init, Fitting, Fits
<1>7. ExitingWasRequested
  BY DEF Init, ExitingWasRequested, NoEntry
<1> QED
  BY <1>4, <1>6, <1>7 DEF IInv

LEMMA NextKeeps ==
  ASSUME IInv, [Next]_vars
  PROVE  IInv'
<1>1. CASE Next
  BY <1>1, StepKeeps, WorldKeeps DEF Next
<1>2. CASE UNCHANGED vars
  BY <1>2 DEF vars, client, history, IInv, TypeOK, Fitting, ExitingWasRequested
<1> QED
  BY <1>1, <1>2

-----------------------------------------------------------------------------
(* Finite sets of keys, and a deposit.                                     *)

LEMMA AllKeysFinite == IsFiniteSet(Key)
<1>1. 0 \in Int /\ MaxKeys - 1 \in Int
  BY KeyRecipesAssumption
<1>2. IsFiniteSet(Index)
  BY <1>1, FS_Interval DEF Index
<1> QED
  BY <1>2, FS_Product, KeyRecipesAssumption DEF Key

\* The members of a finite set of numbers have the ranks below its size, in their order.
LEMMA Ranks ==
  ASSUME NEW S \in SUBSET Int, IsFiniteSet(S)
  PROVE  /\ \A i \in S : /\ Cardinality({h \in S : h < i}) \in Nat
                         /\ Cardinality({h \in S : h < i}) < Cardinality(S)
         /\ \A i, k \in S : i < k => Cardinality({h \in S : h < i}) < Cardinality({h \in S : h < k})
         /\ \A n \in 0 .. Cardinality(S) - 1 : \E i \in S : Cardinality({h \in S : h < i}) = n
<1> DEFINE below(i) == {h \in S : h < i}
<1>1. Cardinality(S) \in Nat
  BY FS_CardinalityType
<1>2. ASSUME NEW i \in S, NEW T \in SUBSET S, i \in T, below(i) \subseteq T
      PROVE  Cardinality(below(i)) \in Nat /\ Cardinality(below(i)) < Cardinality(T)
  <2>1. IsFiniteSet(T) /\ IsFiniteSet(below(i))
    BY FS_Subset
  <2>2. Cardinality(T \ {i}) = Cardinality(T) - 1 /\ IsFiniteSet(T \ {i})
    BY <1>2, <2>1, FS_RemoveElement
  <2>3. below(i) \in SUBSET (T \ {i})
    BY <1>2
  <2>4. Cardinality(below(i)) <= Cardinality(T \ {i})
    BY <2>2, <2>3, FS_Subset
  <2>5. Cardinality(below(i)) \in Nat /\ Cardinality(T) \in Nat
    BY <2>1, FS_CardinalityType
  <2> HIDE DEF below
  <2> QED
    BY <2>2, <2>4, <2>5
<1>3. \A i \in S : Cardinality(below(i)) \in Nat /\ Cardinality(below(i)) < Cardinality(S)
  BY <1>2
<1>4. \A i, k \in S : i < k => Cardinality(below(i)) < Cardinality(below(k))
  <2> SUFFICES ASSUME NEW i \in S, NEW k \in S, i < k
               PROVE  Cardinality(below(i)) < Cardinality(below(k))
    OBVIOUS
  <2>1. i \in below(k) /\ below(k) \in SUBSET S
    OBVIOUS
  <2>2. \A h \in S : h < i => h < k
    OBVIOUS
  <2>3. below(i) \subseteq below(k)
    BY <2>2
  <2> HIDE DEF below
  <2> QED
    BY <1>2, <2>1, <2>3
<1>5. \A n \in 0 .. Cardinality(S) - 1 : \E i \in S : Cardinality(below(i)) = n
  <2> DEFINE T == 0 .. Cardinality(S) - 1
             rank == [i \in S |-> Cardinality(below(i))]
  <2>1. IsFiniteSet(T) /\ Cardinality(T) = Cardinality(S)
    <3>1. 0 \in Int /\ Cardinality(S) - 1 \in Int
      BY <1>1
    <3> QED
      BY <1>1, <3>1, FS_Interval
  <2>2. \A i \in S : Cardinality(below(i)) \in T
    BY <1>1, <1>3
  <2>3. \A i, k \in S : Cardinality(below(i)) = Cardinality(below(k)) => i = k
    <3> SUFFICES ASSUME NEW i \in S, NEW k \in S, Cardinality(below(i)) = Cardinality(below(k)), i # k
                 PROVE  FALSE
      OBVIOUS
    <3>1. i < k \/ k < i
      OBVIOUS
    <3>2. Cardinality(below(i)) \in Nat
      BY <1>3
    <3> HIDE DEF below
    <3> QED
      BY <1>4, <3>1, <3>2
  <2> HIDE DEF below, T
  <2>4. rank \in Injection(S, T)
    BY <2>2, <2>3 DEF Injection, IsInjective
  <2>5. rank \in Surjection(S, T)
    BY <2>1, <2>4, FS_Injection
  <2> QED
    BY <2>5 DEF Surjection, T
<1> QED
  BY <1>3, <1>4, <1>5

\* A set of naturals that is not empty has a least member.
LEMMA LeastIs ==
  ASSUME NEW S \in SUBSET Nat, S # {}
  PROVE  Least(S) \in S /\ \A m \in S : Least(S) <= m
<1>0. \A m \in S : m \in Nat
  OBVIOUS
<1>1. PICK n \in S : TRUE
  OBVIOUS
<1> DEFINE T == {m \in S : m <= n}
           below(i) == {h \in T : h < i}
<1>2. IsFiniteSet(T) /\ Cardinality(T) \in Nat /\ Cardinality(T) # 0
  <2>1. IsFiniteSet(0 .. n)
    BY FS_Interval
  <2>2. T \subseteq 0 .. n /\ n \in T
    <3>1. \A m \in S : m <= n => m \in 0 .. n
      BY <1>0
    <3>2. n <= n
      BY <1>0
    <3> QED
      BY <3>1, <3>2, Zenon
  <2>3. IsFiniteSet(T)
    BY <2>1, <2>2, FS_Subset
  <2> QED
    BY <2>2, <2>3, FS_EmptySet, FS_CardinalityType
<1>3. PICK i \in T : Cardinality(below(i)) = 0
  <2>1. T \subseteq Int
    BY <1>0, Nat \subseteq Int, Zenon
  <2> HIDE DEF T
  <2>2. 0 \in 0 .. Cardinality(T) - 1
    BY <1>2
  <2> QED
    BY <1>2, <2>1, <2>2, Ranks
<1>4. below(i) = {}
  <2>1. IsFiniteSet(below(i))
    <3>1. below(i) \in SUBSET T
      OBVIOUS
    <3> QED
      BY <1>2, <3>1, FS_Subset
  <2> QED
    BY <1>3, <2>1, FS_EmptySet
<1>5. i \in S /\ \A m \in S : i <= m
  <2> SUFFICES ASSUME NEW m \in S PROVE i <= m
    OBVIOUS
  <2>1. CASE m \in T
    <3>1. m \notin below(i)
      BY <1>4
    <3> QED
      BY <2>1, <3>1
  <2>2. CASE m \notin T
    BY <2>2
  <2> QED
    BY <2>1, <2>2
<1> QED
  BY <1>5 DEF Least

\* The n least are n, where there are so many, and nothing that is not among them
\* comes before one.
LEMMA FirstOfIs ==
  ASSUME NEW S \in SUBSET Nat, IsFiniteSet(S), NEW n \in Nat, n <= Cardinality(S)
  PROVE  /\ FirstOf(S, n) \subseteq S /\ Cardinality(FirstOf(S, n)) = n
         /\ \A i \in FirstOf(S, n), h \in S \ FirstOf(S, n) : i < h
<1> DEFINE rank(i) == Cardinality({h \in S : h < i})
           F == FirstOf(S, n)
           T == 0 .. n - 1
           place == [i \in F |-> rank(i)]
<1>1. /\ \A i \in S : rank(i) \in Nat /\ rank(i) < Cardinality(S)
      /\ \A i, k \in S : i < k => rank(i) < rank(k)
      /\ \A m \in 0 .. Cardinality(S) - 1 : \E i \in S : rank(i) = m
  BY Ranks
<1>2. F = {i \in S : rank(i) < n} /\ Cardinality(S) \in Nat
  BY FS_CardinalityType DEF FirstOf
<1> HIDE DEF rank, F
<1>3. place \in [F -> T]
  <2> SUFFICES ASSUME NEW i \in F PROVE rank(i) \in T
    OBVIOUS
  <2> QED
    BY <1>1, <1>2
<1>4. \A i, k \in F : place[i] = place[k] => i = k
  <2> SUFFICES ASSUME NEW i \in F, NEW k \in F, rank(i) = rank(k), i # k
               PROVE  FALSE
    OBVIOUS
  <2>1. i < k \/ k < i
    BY <1>2
  <2>2. rank(i) \in Nat
    BY <1>1, <1>2
  <2> QED
    BY <1>1, <1>2, <2>1, <2>2
<1>5. \A m \in T : \E i \in F : place[i] = m
  <2> SUFFICES ASSUME NEW m \in T PROVE \E i \in F : rank(i) = m
    BY Zenon
  <2>1. m \in 0 .. Cardinality(S) - 1 /\ m < n
    BY <1>2
  <2>2. PICK i \in S : rank(i) = m
    BY <1>1, <2>1
  <2> QED
    BY <1>2, <2>1, <2>2
<1>6. place \in Bijection(F, T)
  BY <1>3, <1>4, <1>5 DEF Bijection, Injection, IsInjective, Surjection
<1>7. IsFiniteSet(F)
  BY <1>2, FS_Subset
<1>8. Cardinality(T) = Cardinality(F)
  BY <1>6, <1>7, FS_Bijection DEF ExistsBijection
<1>9. Cardinality(T) = n
  <2>1. 0 \in Int /\ n - 1 \in Int
    OBVIOUS
  <2> QED
    BY <2>1, FS_Interval
<1>10. ASSUME NEW i \in F, NEW h \in S \ F PROVE i < h
  <2>1. rank(i) < n /\ ~(rank(h) < n) /\ rank(i) \in Nat /\ rank(h) \in Nat /\ i \in Nat /\ h \in Nat
    BY <1>1, <1>2
  <2>2. ~(h < i) /\ h # i
    BY <1>1, <1>2, <2>1
  <2> QED
    BY <2>1, <2>2
<1> QED
  BY <1>2, <1>8, <1>9, <1>10 DEF F

\* A deposit takes each operator's keys in turn: as many as it is to, and none twice.
LEMMA DepositTakes ==
  ASSUME NEW f \in Fork, NEW c \in Nat, NEW s \in Turns(f, c), NEW g, g = Deposit(f, c, s)
  PROVE  /\ Deposited(f) \subseteq Deposited(g)
         /\ Cardinality(Deposited(g)) = Cardinality(Deposited(f)) + c
         /\ \A k \in Deposited(f) : g.turn[k] = f.turn[k]
         /\ \A k \in Deposited(g) \ Deposited(f) :
              Cardinality(Deposited(f)) < g.turn[k] /\ g.turn[k] <= Cardinality(Deposited(f)) + c
         /\ \A h, k \in Deposited(g) \ Deposited(f) :
              h[1] = k[1] /\ h[2] < k[2] => g.turn[h] < g.turn[k]
<1> DEFINE D == Deposited(f)
           of(o) == {i \in 1 .. c : s[i] = o}
           rank(i) == Cardinality({h \in 1 .. (i - 1) : s[h] = s[i]})
           nth(i) == <<s[i], f.deposited[s[i]] + rank(i)>>
           N == {nth(i) : i \in 1 .. c}
<1>1. /\ f.deposited \in [Operator -> 0 .. MaxKeys] /\ s \in [1 .. c -> Operator] /\ MaxKeys \in Nat
      /\ f.turn \in [Key -> Nat]
  BY KeyRecipesAssumption DEF Fork, Counts, Turns
<1>2. ASSUME NEW o \in Operator
      PROVE  /\ Cardinality(of(o)) \in Nat /\ f.deposited[o] + Cardinality(of(o)) <= MaxKeys
             /\ \A i \in of(o) : rank(i) \in Nat /\ rank(i) < Cardinality(of(o))
             /\ \A i, k \in of(o) : i < k => rank(i) < rank(k)
             /\ \A n \in 0 .. Cardinality(of(o)) - 1 : \E i \in of(o) : rank(i) = n
  <2>1. of(o) \in SUBSET Int /\ IsFiniteSet(of(o))
    <3>1. IsFiniteSet(1 .. c) /\ of(o) \in SUBSET (1 .. c)
      BY FS_Interval
    <3> QED
      BY <3>1, FS_Subset
  <2>2. \A i \in of(o) : rank(i) = Cardinality({h \in of(o) : h < i})
    <3> SUFFICES ASSUME NEW i \in of(o) PROVE {h \in 1 .. (i - 1) : s[h] = s[i]} = {h \in of(o) : h < i}
      BY Zenon
    <3> QED
      OBVIOUS
  <2>3. Cardinality(of(o)) \in Nat
    BY <2>1, FS_CardinalityType
  <2>4. Cardinality(of(o)) <= Cardinality({k \in Depositable(f) : k[1] = o})
    BY DEF Turns
  <2>5. f.deposited[o] + Cardinality(of(o)) <= MaxKeys
    <3>1. /\ Cardinality({k \in Depositable(f) : k[1] = o}) \in Nat
          /\ f.deposited[o] + Cardinality({k \in Depositable(f) : k[1] = o}) <= MaxKeys
          /\ f.deposited[o] \in Nat
      BY <1>1, Places
    <3> HIDE DEF of
    <3> QED
      BY <1>1, <2>3, <2>4, <3>1
  <2> DEFINE T == of(o)
  <2> HIDE DEF of, rank
  <2>6. /\ \A i \in T : /\ Cardinality({h \in T : h < i}) \in Nat
                        /\ Cardinality({h \in T : h < i}) < Cardinality(T)
        /\ \A i, k \in T : i < k => Cardinality({h \in T : h < i}) < Cardinality({h \in T : h < k})
        /\ \A n \in 0 .. Cardinality(T) - 1 : \E i \in T : Cardinality({h \in T : h < i}) = n
    <3> HIDE DEF T
    <3> QED
      BY <2>1, Ranks DEF T
  <2>7. /\ \A i \in T : rank(i) \in Nat /\ rank(i) < Cardinality(T)
        /\ \A i, k \in T : i < k => rank(i) < rank(k)
        /\ \A n \in 0 .. Cardinality(T) - 1 : \E i \in T : rank(i) = n
    BY <2>2, <2>6, Zenon
  <2> QED
    BY <2>3, <2>5, <2>7
<1>3. g.deposited = [o \in Operator |-> f.deposited[o] + Cardinality(of(o))]
  BY DEF Deposit, Fork
<1>4. g.turn = [k \in Key |-> IF \E i \in 1 .. c : nth(i) = k
                              THEN Cardinality(D) + CHOOSE i \in 1 .. c : nth(i) = k
                              ELSE f.turn[k]]
  BY DEF Deposit, Fork
<1> HIDE DEF rank
<1>5. ASSUME NEW i \in 1 .. c
      PROVE  /\ s[i] \in Operator /\ i \in of(s[i]) /\ rank(i) \in Nat
             /\ rank(i) < Cardinality(of(s[i])) /\ nth(i) \in Key \ D
             /\ nth(i)[2] < g.deposited[s[i]]
  <2>1. s[i] \in Operator /\ i \in of(s[i])
    BY <1>1
  <2> HIDE DEF of
  <2>2. rank(i) \in Nat /\ rank(i) < Cardinality(of(s[i])) /\ Cardinality(of(s[i])) \in Nat
        /\ f.deposited[s[i]] + Cardinality(of(s[i])) <= MaxKeys
    BY <1>2, <2>1
  <2>3. f.deposited[s[i]] \in Nat
    BY <1>1, <2>1
  <2>4. f.deposited[s[i]] + rank(i) \in Index /\ ~(f.deposited[s[i]] + rank(i) < f.deposited[s[i]])
    BY <1>1, <2>2, <2>3 DEF Index
  <2>5. g.deposited[s[i]] = f.deposited[s[i]] + Cardinality(of(s[i]))
    BY <1>3, <2>1
  <2> QED
    BY <2>1, <2>2, <2>3, <2>4, <2>5 DEF Key, Deposited
<1>6. ASSUME NEW i \in 1 .. c, NEW k \in 1 .. c, s[i] = s[k]
      PROVE  /\ i < k => rank(i) < rank(k)
             /\ nth(i)[2] < nth(k)[2] => i < k
             /\ nth(i) = nth(k) => i = k
  <2>1. i \in of(s[i]) /\ k \in of(s[i]) /\ s[i] \in Operator
    BY <1>1, <1>6
  <2> HIDE DEF of
  <2>2. (i < k => rank(i) < rank(k)) /\ (k < i => rank(k) < rank(i))
    BY <1>2, <2>1
  <2>3. rank(i) \in Nat /\ rank(k) \in Nat /\ f.deposited[s[i]] \in Nat
    <3>1. rank(i) \in Nat /\ rank(k) \in Nat
      BY <1>5
    <3> QED
      BY <1>1, <2>1, <3>1
  <2>4. nth(i)[2] = f.deposited[s[i]] + rank(i) /\ nth(k)[2] = f.deposited[s[i]] + rank(k)
    BY <1>6
  <2> HIDE DEF nth
  <2> QED
    BY <2>2, <2>3, <2>4
<1>7. Deposited(g) = D \cup N /\ D \cap N = {}
  <2>1. D \cap N = {} /\ N \subseteq Deposited(g)
    <3>1. \A i \in 1 .. c : nth(i)[1] = s[i]
      OBVIOUS
    <3> HIDE DEF nth
    <3>2. ASSUME NEW i \in 1 .. c PROVE nth(i) \in Deposited(g) /\ nth(i) \notin D
      BY <1>5, <3>1 DEF Deposited
    <3> HIDE DEF D
    <3> QED
      BY <3>2
  <2>2. D \subseteq Deposited(g)
    <3> SUFFICES ASSUME NEW k \in D PROVE k[2] < g.deposited[k[1]]
      BY DEF Deposited
    <3>1. k \in Key /\ k[1] \in Operator /\ k[2] \in Nat /\ k[2] < f.deposited[k[1]]
      BY DEF Deposited, Key, Index
    <3>2. g.deposited[k[1]] = f.deposited[k[1]] + Cardinality(of(k[1]))
      BY <1>3, <3>1
    <3> HIDE DEF of
    <3> QED
      BY <1>1, <1>2, <3>1, <3>2
  <2>3. ASSUME NEW k \in Deposited(g) \ D PROVE k \in N
    <3>1. k \in Key /\ k[1] \in Operator /\ k[2] \in Nat /\ k = <<k[1], k[2]>>
          /\ k[2] < g.deposited[k[1]] /\ ~(k[2] < f.deposited[k[1]])
      BY DEF Deposited, Key, Index
    <3>2. g.deposited[k[1]] = f.deposited[k[1]] + Cardinality(of(k[1]))
      BY <1>3, <3>1
    <3>3. f.deposited[k[1]] \in Nat
      BY <1>1, <3>1
    <3>4. Cardinality(of(k[1])) \in Nat
      BY <1>2, <3>1
    <3>5. k[2] - f.deposited[k[1]] \in 0 .. Cardinality(of(k[1])) - 1
      <4> HIDE DEF of
      <4> QED
        BY <3>1, <3>2, <3>3, <3>4
    <3>6. PICK i \in of(k[1]) : rank(i) = k[2] - f.deposited[k[1]]
      BY <1>2, <3>1, <3>5
    <3>7. i \in 1 .. c /\ s[i] = k[1]
      OBVIOUS
    <3>8. f.deposited[s[i]] + rank(i) = k[2]
      BY <3>1, <3>3, <3>6, <3>7
    <3> QED
      BY <3>1, <3>7, <3>8
  <2> QED
    BY <2>1, <2>2, <2>3
<1>8. Cardinality(Deposited(g)) = Cardinality(D) + c
  <2> DEFINE pi == [i \in 1 .. c |-> nth(i)]
  <2>1. IsFiniteSet(1 .. c) /\ Cardinality(1 .. c) = c
    BY FS_Interval
  <2>2. \A i, k \in 1 .. c : nth(i) = nth(k) => i = k
    <3>1. \A i \in 1 .. c : nth(i)[1] = s[i]
      OBVIOUS
    <3> HIDE DEF nth
    <3> QED
      BY <1>6, <3>1
  <2>3. pi \in Bijection(1 .. c, N)
    <3> HIDE DEF nth
    <3>1. pi \in [1 .. c -> N]
      OBVIOUS
    <3> QED
      BY <2>2, <3>1 DEF Bijection, Injection, IsInjective, Surjection
  <2>4. IsFiniteSet(N) /\ Cardinality(N) = c
    BY <2>1, <2>3, FS_Bijection DEF ExistsBijection
  <2>5. IsFiniteSet(D)
    BY AllKeysFinite, FS_Subset DEF Deposited
  <2>6. Cardinality(D) \in Nat /\ Cardinality(D \cap N) = 0
    BY <1>7, <2>5, FS_CardinalityType, FS_EmptySet
  <2>7. Cardinality(D \cup N) = Cardinality(D) + Cardinality(N) - Cardinality(D \cap N)
    BY <2>4, <2>5, FS_Union
  <2> HIDE DEF D, N
  <2> QED
    BY <1>7, <2>4, <2>6, <2>7
<1>9. \A k \in D : g.turn[k] = f.turn[k]
  <2> SUFFICES ASSUME NEW k \in D PROVE g.turn[k] = f.turn[k]
    OBVIOUS
  <2>1. k \in Key /\ ~\E i \in 1 .. c : nth(i) = k
    <3> HIDE DEF nth
    <3> QED
      BY <1>7 DEF Deposited
  <2> HIDE DEF nth
  <2> QED
    BY <1>4, <2>1
<1> DEFINE place == [k \in Deposited(g) \ D |-> CHOOSE i \in 1 .. c : nth(i) = k]
<1>10. ASSUME NEW k \in Deposited(g) \ D
       PROVE  place[k] \in 1 .. c /\ nth(place[k]) = k /\ g.turn[k] = Cardinality(D) + place[k]
  <2> HIDE DEF nth
  <2>1. k \in Key /\ \E i \in 1 .. c : nth(i) = k
    BY <1>7 DEF Deposited
  <2> QED
    BY <1>4, <2>1
<1>11. ASSUME NEW h \in Deposited(g) \ D, NEW k \in Deposited(g) \ D, h[1] = k[1], h[2] < k[2]
       PROVE  place[h] < place[k]
  <2> HIDE DEF place
  <2>1. place[h] \in 1 .. c /\ nth(place[h]) = h /\ place[k] \in 1 .. c /\ nth(place[k]) = k
    BY <1>10
  <2>2. s[place[h]] = h[1] /\ s[place[k]] = k[1]
    BY <2>1
  <2> HIDE DEF nth
  <2> QED
    BY <1>6, <1>11, <2>1, <2>2
<1>12. Cardinality(D) \in Nat
  BY KeysFinite
<1> HIDE DEF place, nth, D
<1>13. \A k \in Deposited(g) \ D : Cardinality(D) < g.turn[k] /\ g.turn[k] <= Cardinality(D) + c
  BY <1>10, <1>12
<1>14. \A h, k \in Deposited(g) \ D : h[1] = k[1] /\ h[2] < k[2] => g.turn[h] < g.turn[k]
  BY <1>10, <1>11, <1>12
<1> QED
  BY <1>7, <1>8, <1>9, <1>13, <1>14 DEF D

\* What was deposited in turn stays so.
LEMMA DepositConsistent ==
  ASSUME NEW f \in Fork, Consistent(f), NEW c \in Nat, NEW s \in Turns(f, c)
  PROVE  Consistent(Deposit(f, c, s))
<1>0. PICK g : g = Deposit(f, c, s)
  OBVIOUS
<1> DEFINE D == Deposited(f)
<1>1. /\ \A k \in Deposited(g) \ D :
           Cardinality(D) < g.turn[k] /\ g.turn[k] <= Cardinality(D) + c
      /\ \A h, k \in Deposited(g) \ D : h[1] = k[1] /\ h[2] < k[2] => g.turn[h] < g.turn[k]
      /\ Cardinality(Deposited(g)) = Cardinality(D) + c
      /\ \A k \in D : g.turn[k] = f.turn[k]
  BY <1>0, DepositTakes
<1>3. g \in Fork /\ g.done = f.done /\ g.reported = f.reported
  <2>1. g \in Fork
    BY <1>0, DepositType
  <2>2. g.done = f.done /\ g.reported = f.reported
    BY <1>0 DEF Deposit, Fork
  <2> QED
    BY <2>1, <2>2
<1>4. Cardinality(D) \in Nat
  BY KeysFinite
<1>5. \A k \in D : f.turn[k] \in Nat /\ f.turn[k] <= Cardinality(D)
  BY DEF Consistent, Fork, Deposited
<1>6. \A k \in Deposited(g) : g.turn[k] <= Cardinality(Deposited(g))
  <2> SUFFICES ASSUME NEW k \in Deposited(g) PROVE g.turn[k] <= Cardinality(Deposited(g))
    OBVIOUS
  <2> HIDE DEF D
  <2>1. CASE k \in D
    BY <1>1, <1>4, <1>5, <2>1
  <2>2. CASE k \notin D
    BY <1>1, <2>2
  <2> QED
    BY <2>1, <2>2
<1>7. ASSUME NEW o \in Operator, NEW h \in Index, NEW i \in Index, h < i, i < g.deposited[o]
      PROVE  g.turn[<<o, h>>] < g.turn[<<o, i>>]
  <2>1. g.deposited[o] \in Nat /\ f.deposited[o] \in Nat /\ h \in Nat /\ i \in Nat
    BY <1>3, KeyRecipesAssumption DEF Fork, Counts, Index
  <2>2. <<o, h>> \in Deposited(g) /\ <<o, i>> \in Deposited(g)
    BY <1>7, <2>1 DEF Deposited, Key
  <2>3. CASE i < f.deposited[o]
    <3>1. <<o, h>> \in D /\ <<o, i>> \in D
      BY <1>7, <2>1, <2>3 DEF Deposited, Key
    <3>2. f.turn[<<o, h>>] < f.turn[<<o, i>>]
      BY <1>7, <2>3 DEF Consistent
    <3> QED
      BY <1>1, <3>1, <3>2
  <2>4. CASE ~(i < f.deposited[o])
    <3>1. <<o, i>> \notin D
      BY <2>4 DEF Deposited
    <3>2. Cardinality(D) < g.turn[<<o, i>>] /\ g.turn[<<o, i>>] \in Nat
      BY <1>1, <1>3, <2>2, <3>1 DEF Fork, Deposited
    <3>3. CASE <<o, h>> \in D
      <4>1. g.turn[<<o, h>>] \in Nat /\ g.turn[<<o, h>>] <= Cardinality(D)
        BY <1>1, <1>5, <3>3
      <4> HIDE DEF D
      <4> QED
        BY <1>4, <3>2, <4>1
    <3>4. CASE <<o, h>> \notin D
      BY <1>1, <1>7, <2>2, <3>1, <3>4
    <3> QED
      BY <3>3, <3>4
  <2> QED
    BY <2>3, <2>4
<1> QED
  BY <1>0, <1>3, <1>6, <1>7 DEF Consistent

\* What no write but a deposit's changes, and what none but an exit request's does.
LEMMA EffectsLeave ==
  ASSUME NEW f \in Fork, NEW r \in Run, NEW w, NEW g \in Effects(f, r, w)
  PROVE  /\ r.job.kind # "deposit" => g.deposited = f.deposited /\ g.turn = f.turn
         /\ r.job.kind # "exit-request" => g.reported = f.reported /\ g.done = f.done
<1>1. CASE r.job.kind = "add-keys"
  <2>1. \E v \in {f.vetted[r.job.o], f.added[r.job.o] + r.job.n} :
          g = [f EXCEPT !.added = [f.added EXCEPT ![r.job.o] = f.added[r.job.o] + r.job.n],
                        !.vetted = [f.vetted EXCEPT ![r.job.o] = v],
                        !.owes = f.owes \ {r.job.o}]
    <3>1. \E v \in {f.vetted[r.job.o], f.added[r.job.o] + r.job.n} :
            g = [f EXCEPT !.added[r.job.o] = f.added[r.job.o] + r.job.n,
                          !.vetted[r.job.o] = v, !.owes = f.owes \ {r.job.o}]
      BY <1>1 DEF Effects, GroupKind
    <3> QED
      BY <3>1, Zenon
  <2> QED
    BY <1>1, <2>1 DEF Fork
<1>2. CASE r.job.kind \in {"remove-key", "unvet", "set-target-limit"}
  <2>1. CASE r.job.kind = "remove-key"
    <3>1. \E v \in {Minimum(f.vetted[r.job.o], f.added[r.job.o] - 1), f.added[r.job.o] - 1} :
            g = [f EXCEPT !.added[r.job.o] = f.added[r.job.o] - 1, !.vetted[r.job.o] = v]
      BY <2>1 DEF Effects, GroupKind
    <3>2. \E v : g = [f EXCEPT !.added = [f.added EXCEPT ![r.job.o] = f.added[r.job.o] - 1],
                               !.vetted = [f.vetted EXCEPT ![r.job.o] = v]]
      BY <3>1, Zenon
    <3> QED
      BY <2>1, <3>2 DEF Fork
  <2>2. CASE r.job.kind = "unvet"
    BY <2>2 DEF Effects, GroupKind, Fork
  <2>3. CASE r.job.kind = "set-target-limit"
    BY <2>3 DEF Effects, GroupKind, Fork
  <2> QED
    BY <1>2, <2>1, <2>2, <2>3
<1>3. CASE r.job.kind \in {"propose-manager", "confirm-manager"}
  BY <1>3, Zenon DEF Effects, GroupKind, Fork
<1>4. CASE r.job.kind \in {"create-bond-debt", "report-penalty", "settle-penalty",
                           "add-bond", "cancel-penalty", "compensate-penalty"}
  BY <1>4, Zenon DEF Effects, GroupKind, Fork
<1>5. CASE r.job.kind = "deposit"
  BY <1>5, Zenon DEF Effects, GroupKind, Fork, Deposit
<1>6. CASE r.job.kind \in {"top-up-active-keys", "increase-allocated-balance"} \cup VerifierKind
  BY <1>6, Zenon DEF Effects, GroupKind, Fork, VerifierKind
<1>7. CASE r.job.kind = "register-module"
  BY <1>7 DEF Effects, GroupKind, Fork
<1>8. CASE r.job.kind \in GroupKind
  BY <1>8, Zenon DEF Effects, GroupKind, Fork, NewGroup
<1>9. CASE r.job.kind \in {"exit-request", "cl-activate"}
  BY <1>9, ZenonT(30) DEF Effects, GroupKind, Fork
<1>10. r.job.kind \in Kind
  BY DEF Run, Job
<1> QED
  BY <1>1, <1>2, <1>3, <1>4, <1>5, <1>6, <1>7, <1>8, <1>9, <1>10 DEF Kind, RouterKind, ManagerKind

\* No write leaves a fork on which deposits were not in turn or VEBO is ahead of itself.
LEMMA EffectsConsistent ==
  ASSUME NEW f \in Fork, Consistent(f), NEW r \in Run, NEW w, Accepts(f, r, w),
         NEW g \in Effects(f, r, w)
  PROVE  Consistent(g)
<1>1. ASSUME g.deposited = f.deposited, g.turn = f.turn, g.done <= g.reported
      PROVE  Consistent(g)
  <2>1. Deposited(g) = Deposited(f)
    BY <1>1 DEF Deposited
  <2> QED
    BY <1>1, <2>1 DEF Consistent
<1>2. f.done <= f.reported /\ f.done \in Nat /\ f.reported \in Nat
  BY DEF Consistent, Fork
<1>3. CASE r.job.kind = "deposit"
  <2>1. CASE w = 2
    <3>1. PICK s \in Turns(f, r.n) : g = Deposit(f, r.n, s)
      BY <1>3, <2>1 DEF Effects, GroupKind
    <3>2. r.n \in Nat
      BY DEF Run
    <3> QED
      BY <3>1, <3>2, DepositConsistent
  <2>2. CASE w # 2
    BY <1>3, <2>2 DEF Effects, GroupKind
  <2> QED
    BY <2>1, <2>2
<1>4. CASE r.job.kind = "exit-request"
  <2>1. CASE w = 1
    <3>1. r.n >= f.reported /\ r.n \in Nat
      BY <1>4, <2>1 DEF Accepts, VerifierKind, GroupKind, Run
    <3>2. g.reported = r.n /\ g.done = f.done
      <4>1. g = [f EXCEPT !.reported = r.n, !.asking = <<r.job.o, r.job.k>>, !.until = r.until]
        BY <1>4, <2>1 DEF Effects, GroupKind
      <4> QED
        BY <4>1 DEF Fork
    <3>3. g.done <= g.reported
      BY <1>2, <3>1, <3>2
    <3> QED
      BY <1>1, <1>4, <3>3, EffectsLeave
  <2>2. CASE w = 3
    <3>1. r.n = f.reported
      BY <1>4, <2>2 DEF Accepts, VerifierKind, GroupKind
    <3>2. g.reported = f.reported /\ g.done = r.n
      BY <1>4, <2>2 DEF Effects, GroupKind, Fork
    <3>3. g.done <= g.reported
      BY <1>2, <3>1, <3>2
    <3> QED
      BY <1>1, <1>4, <3>3, EffectsLeave
  <2>3. CASE w \notin {1, 3}
    BY <1>4, <2>3 DEF Effects, GroupKind
  <2> QED
    BY <2>1, <2>2, <2>3
<1>5. CASE r.job.kind \notin {"deposit", "exit-request"}
  BY <1>1, <1>2, <1>5, EffectsLeave
<1> QED
  BY <1>3, <1>4, <1>5

-----------------------------------------------------------------------------
(* A run that overlaps no other and meets no fault: what its next RPC s    *)
(* and its locals r say of the fork g, when the fork was f as it began.    *)

\* The recipes of one write, which read the fork as it was.
OneWrite == {"add-keys", "remove-key", "propose-manager", "confirm-manager", "unvet",
             "set-target-limit", "increase-allocated-balance", "report-balance", "slash", "withdraw"}
InOne(s, r, f, g) ==
  LET j == r.job
  IN \/ s = "close" /\ r.todo = {}
     \/ /\ s \in {"operator", "bond", "withdrawn", "open", "send"}
        /\ g = f /\ r.todo = Known(j)
        /\ s = "operator" => j.kind \notin {"unvet", "set-target-limit", "slash", "withdraw"}
        /\ s = "withdrawn" => j.kind \in {"increase-allocated-balance", "report-balance"}
        /\ s # "operator" /\ j.kind \in ManagerKind => r.as = f.manager[j.o]
        /\ s # "operator" /\ j.kind = "confirm-manager" => r.as = f.proposed[j.o]
        /\ j.kind = "add-keys" =>
             r.n = j.n + (IF s \in {"open", "send"} THEN Short(f, j.o) ELSE 0)

\* The recipes that change a bond.
OfBond == {"create-bond-debt", "report-penalty", "cancel-penalty", "settle-penalty", "add-bond",
           "compensate-penalty"}
InBond(s, r) == s \in {"operator", "open", "send", "close"} /\ (s = "operator" => r.job.kind \in ManagerKind)

Asked(f, j) ==
  [f EXCEPT !.reported = f.reported + 1, !.asking = <<j.o, j.k>>, !.until = f.day + 1]
InExit(s, r, f, g) ==
  LET j == r.job
  IN /\ s \in {"pubkey", "module", "report", "clock"} => r.todo = {1, 2, 3}
     /\ s \in {"open", "send"} => r.todo \in {{1, 2, 3}, {2, 3}, {3}}
     /\ s = "close" => r.todo \in {{2, 3}, {3}, {}}
     /\ s \in {"balance", "post"} => r.todo = {}
     /\ s \in {"clock", "open", "send", "close"} /\ r.todo # {} => r.n = f.reported + 1
     /\ s \in {"open", "send", "close"} /\ r.todo # {} => r.until = f.day + 1
     /\ s = "post" => r.n = g.allocated[<<j.o, j.k>>]
     /\ g = IF r.todo = {1, 2, 3} THEN f
            ELSE IF r.todo # {} THEN Asked(f, j) ELSE [Asked(f, j) EXCEPT !.done = f.reported + 1]

InMirror(s, r, f, g) ==
  /\ s \in {"pubkey", "balance", "post"} /\ g = f
  /\ s = "post" => r.n = g.allocated[<<r.job.o, r.job.k>>]

Granted(f) == [f EXCEPT !.granted = TRUE]
InModule(s, r, f, g) ==
  /\ s \in {"module", "role"} => r.todo = {} /\ g = f
  /\ s \in {"open", "send"} => r.todo \in {{1, 2}, {2}}
  /\ s = "source" => r.todo = {2}
  /\ s = "close" => r.todo \in {{2}, {}}
  /\ s = "resolve" => r.todo = {}
  /\ s \in {"module", "role", "source", "open", "send", "close", "resolve"}
  /\ s # "module" => ~f.registered
  /\ s \in {"source", "open", "send", "close", "resolve"} =>
       g = IF r.todo = {1, 2} THEN f
           ELSE IF r.todo = {2} THEN Granted(f) ELSE [Granted(f) EXCEPT !.registered = TRUE]

InReset(s, r, f, g) ==
  LET at == f.group[r.job.o]
  IN \/ s = "groups" /\ g = f
     \/ s \in {"open", "send"} /\ g = f /\ r.todo = {at} /\ at # 0
     \/ /\ s = "close" /\ r.todo = {}
        /\ \A z \in Operator : g.group[z] = IF f.group[z] = at THEN 0 ELSE f.group[z]

\* Who is to be in the new group, and the groups that they leave.
Joined(j) == j.named
GroupsOf(f, X) == {f.group[z] : z \in X} \ {0}
InCreate(s, r, f, g) ==
  LET old == GroupsOf(f, Joined(r.job))
  IN \/ /\ s = "groups" /\ g = f /\ r.unread \subseteq Joined(r.job)
        /\ r.todo = {NewGroup} \cup GroupsOf(f, Joined(r.job) \ r.unread)
     \/ /\ s \in {"open", "send", "close"} /\ r.todo # {}
        /\ NewGroup \in r.todo /\ r.todo \subseteq old \cup {NewGroup}
        /\ g.groups = f.groups
        /\ \A z \in Operator : g.group[z] = IF f.group[z] \in old \ r.todo THEN 0 ELSE f.group[z]
     \/ s = "close" /\ r.todo = {} /\ Does(f, g, r.job, r.n)

DepositedOf(f, o) == 0 .. f.deposited[o] - 1
QueuedOf(f, o) == {i \in Index : <<o, i>> \in Queued(f)}
InTopUp(s, r, f, g) ==
  LET o == r.job.o
      all == DepositedOf(f, o)
      Q == QueuedOf(f, o)
  IN \/ s = "operator" /\ g = f
     \/ s = "allocated" /\ g = f /\ r.keep = all /\ r.unread = all \X {TRUE}
     \/ /\ s = "keys" /\ g = f /\ r.unread \subseteq all \X {TRUE}
        /\ r.keep = {i \in all : /\ f.allocated[<<o, i>>] = 0
                                 /\ <<i, TRUE>> \in r.unread \/ <<o, i>> \notin f.withdrawn}
     \/ /\ s \in {"open", "send", "close"}
        /\ s # "close" => r.todo # {}
        /\ r.todo \subseteq Q
        /\ \A h \in Q \ r.todo, i \in r.todo : h < i
        /\ g = [f EXCEPT !.allocated =
                  [k \in Key |-> IF k[1] = o /\ k[2] \in Q \ r.todo THEN Cap ELSE f.allocated[k]]]

InActivate(s, r, f, g) ==
  LET o == r.job.o
      all == DepositedOf(f, o)
      C == FirstOf(Eligible(f, o), r.job.n)
  IN \/ s = "operator" /\ g = f /\ r.n = r.job.n
     \/ /\ s = "keys" /\ g = f /\ r.n = r.job.n /\ r.unread \subseteq all \X BOOLEAN
        /\ \A i \in all : <<i, FALSE>> \notin r.unread \/ <<i, TRUE>> \notin r.unread
        /\ r.keep = {i \in all : \/ <<i, FALSE>> \in r.unread
                                 \/ /\ <<o, i>> \notin f.confirmed
                                    /\ <<i, TRUE>> \in r.unread \/ <<o, i>> \notin f.withdrawn}
     \/ /\ s \in {"open", "send", "close"}
        /\ s # "close" => r.todo # {}
        /\ r.todo \subseteq C /\ Cardinality(Eligible(f, o)) >= r.job.n
        /\ g = [f EXCEPT !.confirmed = f.confirmed \cup {<<o, i>> : i \in C \ r.todo}]

\* There is room in the top-up queue for n keys more.
Room(f, n) == f.module = "csm02" => Cardinality(Queued(f)) + n <= QueueLimit
InDeposit(s, r, f, g) ==
  LET most == Minimum(r.job.n, Cardinality(Depositable(f)))
  IN \/ s = "open" /\ g = f /\ r.todo = {1}
     \/ s = "send" /\ g = f /\ (r.todo = {1} \/ (r.todo = {2} /\ r.n = most /\ Room(f, most)))
     \/ s = "summary" /\ g = f /\ r.todo = {}
     \/ s = "simulate" /\ g = f /\ r.todo = {} /\ r.n = most
     \/ s = "close" /\ r.todo = {} /\ Does(f, g, r.job, r.n)

Sane(s, r, f, g) ==
  LET c == r.job.kind
  IN /\ r.failed => s = "close" /\ Refused(f, r.job)
     /\ c \in {"deposit", "activate-keys"} => r.job.n > 0
     /\ ~r.failed =>
          /\ c \in OneWrite => InOne(s, r, f, g)
          /\ c \in OfBond => InBond(s, r)
          /\ c = "exit-request" => InExit(s, r, f, g)
          /\ c = "cl-activate" => InMirror(s, r, f, g)
          /\ c = "register-module" => InModule(s, r, f, g)
          /\ c = "reset-operator-group" => InReset(s, r, f, g)
          /\ c = "create-operator-group" => InCreate(s, r, f, g)
          /\ c = "top-up-active-keys" => InTopUp(s, r, f, g)
          /\ c = "activate-keys" => InActivate(s, r, f, g)
          /\ c = "deposit" => InDeposit(s, r, f, g)

Alone == solo # Nobody => \A q \in Client \ {solo} : pc[q] = "idle"
AllConsistent == Consistent(fork) /\ Consistent(begin) /\ (snap # None => Consistent(snap))
Solitary(p) == solo = p /\ ~disturbed /\ pc[p] # "idle"
SaneRun ==
  \A p \in Client : Solitary(p) => /\ Sane(pc[p], run[p], begin, fork)
                                   /\ pc[p] \in Bracketed => run[p].as \in impersonated
KInv == IInv /\ AllConsistent /\ Alone /\ SaneRun

\* A step of such a run leaves it so, and ends it only as it ought to.
Proper(p) ==
  /\ pc'[p] # "idle" => /\ Sane(pc'[p], run'[p], begin', fork')
                        /\ pc'[p] \in Bracketed => run'[p].as \in impersonated'
  /\ FailsForReason(p) /\ DoesAll(p) /\ Mirrors(p)

-----------------------------------------------------------------------------
(* Steps of such a run.                                                    *)

\* Which RPC a client sends next decides its step, where it meets no fault.
LEMMA StepAt ==
  ASSUME NEW p \in Client, solo = p, ~disturbed', Step(p)
  PROVE  /\ (pc[p] = "idle" => Start(p))
         /\ (pc[p] = "operator" => ReadOperator(p))
         /\ (pc[p] = "bond" => ReadBond(p))
         /\ (pc[p] = "allocated" => ReadAllocated(p))
         /\ (pc[p] = "keys" => ReadKey(p))
         /\ (pc[p] = "withdrawn" => ReadWithdrawn(p))
         /\ (pc[p] = "pubkey" => ReadPubkey(p))
         /\ (pc[p] = "module" => FindModule(p))
         /\ (pc[p] = "resolve" => ResolveModule(p))
         /\ (pc[p] = "role" => ReadRole(p))
         /\ (pc[p] = "source" => ReadSource(p))
         /\ (pc[p] = "report" => ReadReport(p))
         /\ (pc[p] = "clock" => ReadClock(p))
         /\ (pc[p] = "groups" => ReadGroup(p))
         /\ (pc[p] = "open" => Open(p))
         /\ (pc[p] = "send" => Send(p) \/ SendFails(p))
         /\ (pc[p] = "summary" => Summary(p))
         /\ (pc[p] = "simulate" => Simulate(p))
         /\ (pc[p] = "close" => Close(p))
         /\ (pc[p] = "balance" => ReadBalance(p))
         /\ (pc[p] = "post" => Post(p))
<1>1. ~Lose(p) /\ ~Kill(p)
  BY DEF Lose, Kill, Throw, Fault
<1> QED
  BY <1>1, Zenon DEF Step, Start, ReadOperator, ReadBond, ReadAllocated, ReadKey, ReadWithdrawn,
     ReadPubkey, FindModule, ResolveModule, ReadRole, ReadSource, ReadReport, ReadClock, ReadGroup,
     Open, Send, SendFails, Summary, Simulate, Close, ReadBalance, Post, At

\* What is known of the run.
LEMMA SoloParts ==
  ASSUME KInv, NEW p \in Client, Solitary(p)
  PROVE  /\ Sane(pc[p], run[p], begin, fork)
         /\ pc[p] \in Bracketed => run[p].as \in impersonated
         /\ begin \in Fork /\ fork \in Fork /\ Consistent(begin) /\ Consistent(fork)
         /\ run[p] \in Run /\ run[p].job \in Job /\ run[p].job.o \in Operator
         /\ run[p].job.k \in Index /\ run[p].job.n \in 0 .. MaxKeys
         /\ run[p].todo \subseteq Nat /\ run[p].failed \in BOOLEAN
         /\ Fits(run[p], pc[p], exited)
<1>1. run[p] \in Run /\ run[p].job \in Job /\ begin \in Fork /\ fork \in Fork
      /\ Fits(run[p], pc[p], exited)
  BY RunParts DEF KInv, IInv, TypeOK
<1>2. Sane(pc[p], run[p], begin, fork) /\ (pc[p] \in Bracketed => run[p].as \in impersonated)
  BY DEF KInv, SaneRun
<1> QED
  BY <1>1, <1>2 DEF KInv, AllConsistent, Run, Job

\* A lost answer would have disturbed it.
LEMMA NoFault ==
  ASSUME NEW p \in Client, solo = p, ~disturbed'
  PROVE  ~Throw(p, TRUE) /\ (\A r, s : Reply(p, r, s) => Advance(p, r, s))
BY DEF Throw, Fault, Reply

\* A step with which it goes on.
LEMMA ProperAdvance ==
  ASSUME KInv, NEW p \in Client, Solitary(p), NEW r \in Run, NEW s \in Stage \ {"idle"},
         Advance(p, r, s), begin' = begin, Sane(s, r, begin, fork'),
         s \in Bracketed => r.as \in impersonated'
  PROVE  Proper(p)
<1>1. pc'[p] = s /\ run'[p] = r
  BY AdvanceType DEF KInv, IInv, TypeOK
<1>2. FailsForReason(p) /\ DoesAll(p) /\ Mirrors(p)
  BY <1>1 DEF FailsForReason, DoesAll, Mirrors, AloneEnds
<1> QED
  BY <1>1, <1>2 DEF Proper

\* A step with which it succeeds.
LEMMA ProperDone ==
  ASSUME KInv, NEW p \in Client, Solitary(p), NEW r \in Run, Advance(p, r, "idle"),
         Does(begin, fork', run[p].job, run[p].n),
         run[p].job.kind \in {"exit-request", "cl-activate"} /\ run[p].job.flag =>
           cl'[<<run[p].job.o, run[p].job.k>>] =
             [status |-> IF run[p].job.kind = "cl-activate" THEN "active_ongoing"
                         ELSE "active_exiting",
              balance |-> fork'.allocated[<<run[p].job.o, run[p].job.k>>]]
  PROVE  Proper(p)
<1>1. pc'[p] = "idle" /\ end'[p] = "done"
  BY DEF Advance, End, Goto, KInv, IInv, TypeOK
<1>2. FailsForReason(p) /\ DoesAll(p)
  BY <1>1 DEF FailsForReason, DoesAll, AloneEnds
<1>3. Mirrors(p)
  BY <1>1 DEF Mirrors, AloneEnds
<1> QED
  BY <1>1, <1>2, <1>3 DEF Proper

\* A step with which it throws.
LEMMA ProperThrow ==
  ASSUME KInv, NEW p \in Client, Solitary(p), Throw(p, FALSE), begin' = begin,
         Refused(begin, run[p].job)
  PROVE  Proper(p)
<1>1. CASE pc[p] \in Bracketed
  <2> DEFINE r == [run[p] EXCEPT !.failed = TRUE]
  <2>1. pc'[p] = "close" /\ run'[p] = r
    BY <1>1 DEF Throw, Goto, Local, KInv, IInv, TypeOK
  <2>2. r.failed /\ r.job = run[p].job
    BY SoloParts DEF Run
  <2> HIDE DEF r
  <2>3. Sane("close", r, begin', fork')
    <3>1. r.job.kind \in {"deposit", "activate-keys"} => r.job.n > 0
      BY <2>2, SoloParts DEF Sane
    <3> QED
      BY <2>2, <3>1 DEF Sane
  <2>4. FailsForReason(p) /\ DoesAll(p) /\ Mirrors(p) /\ pc'[p] \notin Bracketed
    BY <2>1 DEF FailsForReason, DoesAll, Mirrors, AloneEnds, Bracketed
  <2> QED
    BY <2>1, <2>3, <2>4 DEF Proper
<1>2. CASE pc[p] \notin Bracketed
  <2>1. pc'[p] = "idle" /\ end'[p] = "failed"
    BY <1>2 DEF Throw, End, Goto, KInv, IInv, TypeOK
  <2>2. FailsForReason(p) /\ DoesAll(p) /\ Mirrors(p)
    BY <2>1 DEF FailsForReason, DoesAll, Mirrors, AloneEnds
  <2> QED
    BY <2>1, <2>2 DEF Proper
<1> QED
  BY <1>1, <1>2

\* The bracket of a run that has failed closes, and so does the run.
LEMMA FailedProper ==
  ASSUME KInv, NEW p \in Client, Solitary(p), Step(p), ~disturbed', run[p].failed
  PROVE  Proper(p)
<1>1. pc[p] = "close" /\ Refused(begin, run[p].job)
  BY SoloParts DEF Sane
<1>2. Close(p)
  <2>1. solo = p
    BY DEF Solitary
  <2> QED
    BY <1>1, <2>1, StepAt
<1>3. Throw(p, FALSE) /\ begin' = begin
  BY <1>2 DEF Close, Steady
<1> QED
  BY <1>1, <1>3, ProperThrow

\* The RPCs of every kind.
LEMMA OpenGoes ==
  ASSUME KInv, NEW p \in Client, Solitary(p), Open(p), ~disturbed',
         Sane("send", [run[p] EXCEPT !.as = Signer(run[p])], begin, fork)
  PROVE  Proper(p)
<1> DEFINE r == [run[p] EXCEPT !.as = Signer(run[p])]
<1>1. r \in Run /\ r.as = Signer(run[p]) /\ "send" \in Stage \ {"idle"}
  BY SoloParts, SignerType DEF Run, Stage
<1>2. Advance(p, r, "send") /\ begin' = begin /\ fork' = fork /\ Signer(run[p]) \in impersonated'
  BY NoFault DEF Open, Steady, Solitary
<1> HIDE DEF r
<1>3. Sane("send", r, begin, fork')
  BY <1>2 DEF r
<1> QED
  BY <1>1, <1>2, <1>3, ProperAdvance

\* Which write is next is open only for a new group.
LEMMA NextIs ==
  ASSUME NEW r, r.job.kind # "create-operator-group" \/ r.todo = {NewGroup}
  PROVE  NextWrites(r) = {Least(r.todo)}
BY DEF NextWrites

LEMMA SendGoes ==
  ASSUME KInv, NEW p \in Client, Solitary(p), Send(p), ~disturbed'
  PROVE  /\ \E w \in NextWrites(run[p]) :
              LET s == CASE run[p].job.kind = "deposit" /\ w = 1 -> "summary"
                         [] Together([run[p] EXCEPT !.todo = @ \ {w}]) -> "send"
                         [] OTHER -> "close"
              IN  /\ Accepts(fork, run[p], w) /\ fork' \in Effects(fork, run[p], w)
                  /\ Advance(p, [run[p] EXCEPT !.todo = @ \ {w}], s)
         /\ begin' = begin /\ impersonated' = impersonated
<1>1. PICK w \in NextWrites(run[p]) :
        LET r == [run[p] EXCEPT !.todo = @ \ {w}]
            t == CASE r.job.kind = "deposit" /\ w = 1 -> "summary"
                   [] Together(r) -> "send"
                   [] OTHER -> "close"
        IN /\ Takes(p, w) /\ fork' \in Effects(fork, run[p], w)
           /\ Reply(p, r, t) \/ Again(p)
  BY Zenon DEF Send
<1> DEFINE r == [run[p] EXCEPT !.todo = @ \ {w}]
           s == CASE run[p].job.kind = "deposit" /\ w = 1 -> "summary"
                  [] Together(r) -> "send"
                  [] OTHER -> "close"
           t == CASE r.job.kind = "deposit" /\ w = 1 -> "summary"
                  [] Together(r) -> "send"
                  [] OTHER -> "close"
<1>2. t = s
  BY SoloParts DEF Run
<1>3. Reply(p, r, t) \/ Again(p)
  BY <1>1
<1> HIDE DEF r, s, t
<1>4. ~Again(p)
  BY DEF Again, Fault, Solitary
<1>5. Advance(p, r, s)
  BY <1>2, <1>3, <1>4, NoFault DEF Solitary
<1>6. Accepts(fork, run[p], w) /\ fork' \in Effects(fork, run[p], w)
  BY <1>1 DEF Takes
<1>7. begin' = begin /\ impersonated' = impersonated
  BY DEF Send, Steady
<1> QED
  BY <1>5, <1>6, <1>7, Zenon DEF r, s

\* The least of a run's writes, where it sends them in order.
LEMMA SendsLeast ==
  ASSUME KInv, NEW p \in Client, Solitary(p), Send(p), ~disturbed',
         run[p].job.kind # "create-operator-group" \/ run[p].todo = {NewGroup}
  PROVE  LET w == Least(run[p].todo)
             s == CASE run[p].job.kind = "deposit" /\ w = 1 -> "summary"
                    [] Together([run[p] EXCEPT !.todo = @ \ {w}]) -> "send"
                    [] OTHER -> "close"
         IN  /\ Accepts(fork, run[p], w) /\ fork' \in Effects(fork, run[p], w)
             /\ Advance(p, [run[p] EXCEPT !.todo = @ \ {w}], s)
             /\ begin' = begin /\ impersonated' = impersonated
<1>1. NextWrites(run[p]) = {Least(run[p].todo)}
  BY NextIs
<1> QED
  BY <1>1, SendGoes, Zenon

\* A write that leaves the run as it should be, whether or not the bracket stays open.
LEMMA WriteProper ==
  ASSUME KInv, NEW p \in Client, Solitary(p), Send(p), ~disturbed', pc[p] = "send",
         run[p].job.kind # "deposit",
         run[p].job.kind # "create-operator-group" \/ run[p].todo = {NewGroup}, NEW q \in Run,
         q = [run[p] EXCEPT !.todo = @ \ {Least(run[p].todo)}],
         q.todo # {} => Sane("send", q, begin, fork'), Sane("close", q, begin, fork')
  PROVE  Proper(p)
<1> DEFINE w == Least(run[p].todo)
           s == CASE run[p].job.kind = "deposit" /\ w = 1 -> "summary"
                  [] Together([run[p] EXCEPT !.todo = @ \ {w}]) -> "send"
                  [] OTHER -> "close"
<1>1. Advance(p, q, s) /\ begin' = begin /\ impersonated' = impersonated
  BY SendsLeast
<1>2. s \in {"send", "close"} /\ (s = "send" => q.todo # {})
  BY DEF Together
<1>3. q.as = run[p].as /\ run[p].as \in impersonated
  BY SoloParts DEF Bracketed, Run
<1> HIDE DEF s
<1>4. s \in Stage \ {"idle"} /\ Sane(s, q, begin, fork')
  BY <1>2 DEF Stage
<1>5. q.as \in impersonated'
  BY <1>1, <1>3
<1> QED
  BY <1>1, <1>4, <1>5, ProperAdvance

\* What is left to write.
LEMMA WriteLeaves ==
  ASSUME KInv, NEW p \in Client, Solitary(p), NEW q, run[p].todo # {},
         q = [run[p] EXCEPT !.todo = @ \ {Least(run[p].todo)}]
  PROVE  /\ q \in Run /\ q.job = run[p].job /\ q.failed = run[p].failed /\ q.n = run[p].n
         /\ q.until = run[p].until /\ q.todo = run[p].todo \ {Least(run[p].todo)}
         /\ Least(run[p].todo) \in run[p].todo
         /\ \A m \in run[p].todo : Least(run[p].todo) <= m
<1>1. run[p] \in Run /\ run[p].todo \in SUBSET Nat
  BY SoloParts
<1>2. Least(run[p].todo) \in run[p].todo /\ \A m \in run[p].todo : Least(run[p].todo) <= m
  BY <1>1, LeastIs
<1> QED
  BY <1>1, <1>2 DEF Run

LEMMA SendFailsFor ==
  ASSUME KInv, NEW p \in Client, Solitary(p), SendFails(p), pc[p] = "send"
  PROVE  /\ (\E w \in NextWrites(run[p]) : ~Accepts(fork, run[p], w)) \/ Doubtful(fork, run[p])
         /\ Throw(p, FALSE) /\ begin' = begin
<1>1. run[p].as \in impersonated
  BY SoloParts DEF Bracketed
<1> QED
  BY <1>1 DEF SendFails, Takes, Reads, Steady

LEMMA LeastFailsFor ==
  ASSUME KInv, NEW p \in Client, Solitary(p), SendFails(p), pc[p] = "send",
         run[p].job.kind # "create-operator-group" \/ run[p].todo = {NewGroup}
  PROVE  /\ ~Accepts(fork, run[p], Least(run[p].todo)) \/ Doubtful(fork, run[p])
         /\ Throw(p, FALSE) /\ begin' = begin
<1>1. NextWrites(run[p]) = {Least(run[p].todo)}
  BY NextIs
<1> QED
  BY <1>1, SendFailsFor, Zenon

LEMMA CloseGoes ==
  ASSUME KInv, NEW p \in Client, Solitary(p), Close(p), ~disturbed', ~run[p].failed
  PROVE  Advance(p, run[p], AfterWrites(run[p])) /\ begin' = begin /\ fork' = fork
BY NoFault DEF Close, Steady, Solitary

\* A read with which the run goes on, and one with which it throws.
LEMMA ReadGoes ==
  ASSUME KInv, NEW p \in Client, Solitary(p), Reads, NEW r \in Run, NEW s \in Stage \ {"idle"},
         Advance(p, r, s), Sane(s, r, begin, fork),
         s \in Bracketed => pc[p] \in Bracketed /\ r.as = run[p].as
  PROVE  Proper(p)
<1>1. begin' = begin /\ fork' = fork /\ impersonated' = impersonated
  BY DEF Reads, Steady
<1>2. Sane(s, r, begin, fork')
  BY <1>1
<1>3. s \in Bracketed => r.as \in impersonated'
  BY <1>1, SoloParts
<1> QED
  BY <1>1, <1>2, <1>3, ProperAdvance

LEMMA ReadThrows ==
  ASSUME KInv, NEW p \in Client, Solitary(p), Reads, Throw(p, FALSE), Refused(begin, run[p].job)
  PROVE  Proper(p)
<1>1. begin' = begin
  BY DEF Reads, Steady
<1> QED
  BY <1>1, ProperThrow

\* The last write of a list of one.
LEMMA LeastOne ==
  ASSUME NEW n \in Nat
  PROVE  Least({n}) = n /\ {n} \ {Least({n})} = {}
BY LeastIs

-----------------------------------------------------------------------------
(* Such a run of each kind.                                                *)

\* The recipes of one write.
LEMMA OneProper ==
  ASSUME KInv, NEW p \in Client, Solitary(p), Step(p), ~disturbed', ~run[p].failed,
         run[p].job.kind \in OneWrite
  PROVE  Proper(p)
<1> DEFINE r == run[p]
           j == r.job
           o == j.o
           key == <<o, j.k>>
<1>0. solo = p
  BY DEF Solitary
<1>1. /\ r \in Run /\ j \in Job /\ o \in Operator /\ j.k \in Index /\ j.k \in Nat /\ key \in Key
      /\ begin \in Fork /\ r.n \in Nat /\ j.n \in Nat /\ j.kind \in OneWrite
  BY SoloParts, KeyRecipesAssumption DEF Run, Key, Index
<1>2. InOne(pc[p], r, begin, fork)
  BY SoloParts DEF Sane
<1>3. \A s, q, g : q.job = j /\ ~q.failed /\ InOne(s, q, begin, g) => Sane(s, q, begin, g)
  BY <1>1 DEF Sane, OneWrite, OfBond
<1>4. CASE pc[p] = "operator"
  <2>1. ReadOperator(p) /\ Reads
    BY <1>0, <1>4, StepAt, Zenon DEF ReadOperator
  <2>2. /\ fork = begin /\ r.todo = Known(j) /\ (j.kind = "add-keys" => r.n = j.n)
        /\ j.kind \in ManagerKind \cup {"confirm-manager", "increase-allocated-balance", "report-balance"}
    <3>1. fork = begin /\ r.todo = Known(j)
      BY <1>2, <1>4 DEF InOne
    <3>2. j.kind = "add-keys" => r.n = j.n
      BY <1>1, <1>2, <1>4 DEF InOne
    <3>3. j.kind \notin {"unvet", "set-target-limit", "slash", "withdraw"}
      BY <1>2, <1>4 DEF InOne
    <3> QED
      BY <1>1, <3>1, <3>2, <3>3 DEF OneWrite, ManagerKind
  <2>3. CASE j.kind \in ManagerKind \cup {"confirm-manager"}
    <3>1. \E a \in Account, s \in {"bond", "open"} :
            /\ Advance(p, [r EXCEPT !.as = a], s)
            /\ j.kind \in ManagerKind => a = begin.manager[o]
            /\ j.kind = "confirm-manager" => a = begin.proposed[o]
            /\ j.kind = "add-keys" => s = "bond"
      <4>1. fork.manager[o] \in Account /\ fork.proposed[o] \in Account
        BY <1>1, <2>2 DEF Fork, Account
      <4> QED
        BY <2>1, <2>2, <2>3, <4>1 DEF ReadOperator, ManagerKind
    <3>2. PICK a \in Account : \E s \in {"bond", "open"} :
            /\ Advance(p, [r EXCEPT !.as = a], s)
            /\ j.kind \in ManagerKind => a = begin.manager[o]
            /\ j.kind = "confirm-manager" => a = begin.proposed[o]
            /\ j.kind = "add-keys" => s = "bond"
      BY <3>1
    <3>3. PICK s \in {"bond", "open"} :
            /\ Advance(p, [r EXCEPT !.as = a], s)
            /\ j.kind \in ManagerKind => a = begin.manager[o]
            /\ j.kind = "confirm-manager" => a = begin.proposed[o]
            /\ j.kind = "add-keys" => s = "bond"
      BY <3>2
    <3> DEFINE q == [r EXCEPT !.as = a]
    <3>4. q \in Run /\ q.job = j /\ q.n = r.n /\ q.as = a /\ q.todo = r.todo /\ ~q.failed
      BY <1>1 DEF Run
    <3>5. s \in Stage \ {"idle"} /\ s \notin Bracketed
      BY DEF Stage, Bracketed
    <3>6. Advance(p, q, s)
      BY <3>3
    <3> HIDE DEF q
    <3>7. InOne(s, q, begin, fork)
      <4>1. j.kind \in ManagerKind => q.as = begin.manager[o]
        BY <3>3, <3>4
      <4>2. j.kind = "confirm-manager" => q.as = begin.proposed[o]
        BY <3>3, <3>4
      <4>3. j.kind = "add-keys" => s = "bond" /\ q.n = j.n + 0
        BY <1>1, <2>2, <3>3, <3>4
      <4>4. s \in {"bond", "open"} /\ q.todo = Known(j) /\ fork = begin
        BY <2>2, <3>4
      <4> QED
        BY <3>4, <4>1, <4>2, <4>3, <4>4 DEF InOne
    <3> QED
      BY <1>3, <2>1, <3>4, <3>5, <3>6, <3>7, ReadGoes
  <2>4. CASE j.kind \in {"increase-allocated-balance", "report-balance"}
    <3>1. IF j.k >= fork.deposited[o] THEN Throw(p, FALSE) ELSE Advance(p, r, "withdrawn")
      BY <2>1, <2>4 DEF ReadOperator, ManagerKind
    <3>2. CASE j.k >= fork.deposited[o]
      <4>1. key \notin Deposited(begin)
        <5>1. begin.deposited[o] \in Nat /\ ~(j.k < begin.deposited[o])
          BY <1>1, <2>2, <3>2, KeyRecipesAssumption DEF Fork, Counts
        <5> QED
          BY <5>1 DEF Deposited
      <4>2. Refused(begin, j)
        BY <2>4, <4>1 DEF Refused, VerifierKind
      <4> QED
        BY <2>1, <3>1, <3>2, <4>2, ReadThrows
    <3>3. CASE ~(j.k >= fork.deposited[o])
      <4>1. InOne("withdrawn", r, begin, fork)
        BY <2>2, <2>4 DEF InOne, ManagerKind
      <4>2. "withdrawn" \in Stage \ {"idle"} /\ "withdrawn" \notin Bracketed
        BY DEF Stage, Bracketed
      <4> QED
        BY <1>1, <1>3, <2>1, <3>1, <3>3, <4>1, <4>2, ReadGoes
    <3> QED
      BY <3>2, <3>3
  <2> QED
    BY <2>2, <2>3, <2>4
<1>5. CASE pc[p] = "bond"
  <2>1. ReadBond(p) /\ Reads
    BY <1>0, <1>5, StepAt DEF ReadBond
  <2> DEFINE q == [r EXCEPT !.n = r.n + Short(fork, o)]
  <2>2. Short(fork, o) \in Nat
    BY DEF Short
  <2>3. q \in Run /\ q.job = j /\ q.n = r.n + Short(fork, o) /\ q.as = r.as /\ q.todo = r.todo /\ ~q.failed
    BY <1>1, <2>2 DEF Run
  <2>4. Advance(p, q, "open")
    BY <2>1 DEF ReadBond
  <2> HIDE DEF q
  <2>5. InOne("open", q, begin, fork)
    <3>1. j.kind = "add-keys" => q.n = j.n + Short(begin, o)
      BY <1>1, <1>2, <1>5, <2>3 DEF InOne
    <3> QED
      BY <1>2, <1>5, <2>3, <3>1 DEF InOne
  <2>6. "open" \in Stage \ {"idle"} /\ "open" \notin Bracketed
    BY DEF Stage, Bracketed
  <2> QED
    BY <1>3, <2>1, <2>3, <2>4, <2>5, <2>6, ReadGoes
<1>6. CASE pc[p] = "withdrawn"
  <2>1. ReadWithdrawn(p) /\ Reads
    BY <1>0, <1>6, StepAt DEF ReadWithdrawn
  <2>2. fork = begin /\ j.kind \in {"increase-allocated-balance", "report-balance"}
    BY <1>2, <1>6 DEF InOne
  <2>3. CASE key \in fork.withdrawn
    <3>1. Throw(p, FALSE)
      BY <2>1, <2>3 DEF ReadWithdrawn
    <3>2. Refused(begin, j)
      BY <2>2, <2>3 DEF Refused, VerifierKind
    <3> QED
      BY <2>1, <3>1, <3>2, ReadThrows
  <2>4. CASE key \notin fork.withdrawn
    <3>1. Advance(p, r, "open")
      BY <2>1, <2>4 DEF ReadWithdrawn
    <3>2. InOne("open", r, begin, fork)
      BY <1>2, <1>6, <2>2 DEF InOne
    <3>3. "open" \in Stage \ {"idle"} /\ "open" \notin Bracketed
      BY DEF Stage, Bracketed
    <3> QED
      BY <1>1, <1>3, <2>1, <3>1, <3>2, <3>3, ReadGoes
  <2> QED
    BY <2>3, <2>4
<1>7. CASE pc[p] = "open"
  <2>1. Open(p)
    BY <1>0, <1>7, StepAt
  <2> DEFINE q == [r EXCEPT !.as = Signer(r)]
  <2>2. q.job = j /\ q.n = r.n /\ q.as = Signer(r) /\ q.todo = r.todo /\ ~q.failed
    BY <1>1 DEF Run
  <2>3. j.kind \in ManagerKind \cup {"confirm-manager"} => Signer(r) = r.as
    BY DEF Signer, ManagerKind, RouterKind, VerifierKind, GroupKind
  <2>4. InOne("send", q, begin, fork)
    <3> HIDE DEF q
    <3> QED
      BY <1>2, <1>7, <2>2, <2>3 DEF InOne
  <2>5. Sane("send", q, begin, fork)
    <3> HIDE DEF q
    <3> QED
      BY <1>3, <2>2, <2>4
  <2> QED
    BY <2>1, <2>5, OpenGoes
<1>8. CASE pc[p] = "send"
  <2>1. fork = begin /\ r.todo = Known(j)
    BY <1>2, <1>8 DEF InOne
  <2>2. PICK w \in Nat : r.todo = {w} /\ w = (IF j.kind \in {"increase-allocated-balance", "report-balance", "slash", "withdraw"} THEN j.k ELSE 1)
    BY <1>1, <2>1 DEF Known, OneWrite
  <2>3. Least(r.todo) = w /\ r.todo \ {Least(r.todo)} = {}
    BY <2>2, LeastOne
  <2>4. CASE Send(p)
    <3> DEFINE q == [r EXCEPT !.todo = @ \ {Least(r.todo)}]
    <3>1. q \in Run /\ q.job = j /\ q.todo = {} /\ ~q.failed
      BY <1>1, <2>3 DEF Run
    <3>2. ~Together(q)
      BY <3>1 DEF Together
    <3>3. Advance(p, q, "close") /\ begin' = begin
      <4>1. j.kind # "deposit" /\ j.kind # "create-operator-group"
        BY <1>1 DEF OneWrite
      <4> HIDE DEF q
      <4> QED
        BY <2>4, <3>2, <4>1, SendsLeast DEF q
    <3> HIDE DEF q
    <3>4. Sane("close", q, begin, fork')
      BY <1>3, <3>1 DEF InOne
    <3>5. "close" \in Stage \ {"idle"} /\ "close" \notin Bracketed
      BY DEF Stage, Bracketed
    <3> QED
      BY <3>1, <3>3, <3>4, <3>5, ProperAdvance
  <2>5. CASE SendFails(p)
    <3>1. /\ ~Accepts(begin, r, w) \/ Doubtful(begin, r)
          /\ Throw(p, FALSE) /\ begin' = begin
      <4>1. j.kind # "create-operator-group"
        BY <1>1 DEF OneWrite
      <4> QED
        BY <1>8, <2>1, <2>3, <2>5, <4>1, LeastFailsFor
    <3>2. Refused(begin, j)
      <4>1. CASE j.kind = "add-keys"
        <5>1. r.as = begin.manager[o] /\ r.n = j.n + Short(begin, o)
          BY <1>2, <1>8, <4>1 DEF InOne, ManagerKind
        <5>2. ~Accepts(begin, r, w)
          BY <3>1, <4>1 DEF Doubtful
        <5>3. begin.added[o] \in Nat /\ Short(begin, o) \in Nat
          BY <1>1, KeyRecipesAssumption DEF Fork, Counts, Short
        <5>4. begin.added[o] + j.n > MaxKeys
          BY <1>1, <4>1, <5>1, <5>2, <5>3, KeyRecipesAssumption DEF Accepts, GroupKind, VerifierKind
        <5> QED
          BY <4>1, <5>4 DEF Refused, VerifierKind
      <4>2. CASE j.kind = "remove-key"
        <5>1. r.as = begin.manager[o]
          BY <1>2, <1>8, <4>2 DEF InOne, ManagerKind
        <5>2. ~Accepts(begin, r, w)
          BY <3>1, <4>2 DEF Doubtful
        <5>3. begin.added[o] \in Nat /\ begin.deposited[o] \in Nat
          BY <1>1, KeyRecipesAssumption DEF Fork, Counts
        <5>4. ~(begin.deposited[o] <= j.k) \/ ~(j.k < begin.added[o])
          BY <4>2, <5>1, <5>2 DEF Accepts, GroupKind, VerifierKind
        <5>5. key \in Deposited(begin) \/ begin.added[o] <= j.k
          BY <1>1, <5>3, <5>4 DEF Deposited
        <5> QED
          BY <4>2, <5>5 DEF Refused, VerifierKind
      <4>3. CASE j.kind = "propose-manager"
        <5>1. r.as = begin.manager[o]
          BY <1>2, <1>8, <4>3 DEF InOne, ManagerKind
        <5>2. ~Accepts(begin, r, w)
          BY <3>1, <4>3 DEF Doubtful
        <5>3. j.who \in {begin.manager[o], begin.proposed[o]}
          BY <4>3, <5>1, <5>2 DEF Accepts, GroupKind, VerifierKind
        <5> QED
          BY <4>3, <5>3 DEF Refused, GroupKind, VerifierKind
      <4>4. CASE j.kind = "confirm-manager"
        <5>1. r.as = begin.proposed[o]
          BY <1>2, <1>8, <4>4 DEF InOne
        <5>2. Accepts(begin, r, w)
          BY <4>4, <5>1 DEF Accepts, GroupKind, VerifierKind
        <5>3. begin.proposed[o] = None
          BY <3>1, <4>4, <5>1, <5>2 DEF Doubtful
        <5> QED
          BY <4>4, <5>3 DEF Refused, VerifierKind
      <4>5. CASE j.kind = "unvet"
        <5>1. ~Accepts(begin, r, w)
          BY <3>1, <4>5 DEF Doubtful
        <5>2. begin.vetted[o] \in Nat /\ begin.deposited[o] \in Nat
          BY <1>1, KeyRecipesAssumption DEF Fork, Counts
        <5>3. j.n < begin.deposited[o] \/ begin.vetted[o] <= j.n
          BY <1>1, <4>5, <5>1, <5>2 DEF Accepts, GroupKind, VerifierKind
        <5> QED
          BY <4>5, <5>3 DEF Refused, VerifierKind
      <4>6. CASE j.kind = "set-target-limit"
        <5>1. Accepts(begin, r, w)
          BY <4>6 DEF Accepts, GroupKind, VerifierKind
        <5>2. ~Doubtful(begin, r)
          BY <4>6 DEF Doubtful
        <5> QED
          BY <3>1, <5>1, <5>2
      <4>7. CASE j.kind \in {"increase-allocated-balance", "report-balance", "slash", "withdraw"}
        <5>1. w = j.k
          BY <2>2, <4>7
        <5>2. CASE j.kind = "increase-allocated-balance"
          <6>1. ~Accepts(begin, r, w)
            BY <3>1, <5>2 DEF Doubtful
          <6>2. key \notin Deposited(begin) \ begin.withdrawn \/ (begin.module = "csm02" /\ ~IsHead(begin, key))
            BY <5>1, <5>2, <6>1 DEF Accepts, GroupKind, VerifierKind
          <6> QED
            BY <5>2, <6>2 DEF Refused, VerifierKind
        <5>3. CASE j.kind = "slash"
          <6>1. ~Accepts(begin, r, w)
            BY <3>1, <5>3 DEF Doubtful
          <6>2. key \notin Deposited(begin) \ begin.withdrawn \/ key \in begin.slashed
            BY <5>1, <5>3, <6>1 DEF Accepts, GroupKind, VerifierKind
          <6> QED
            BY <5>3, <6>2 DEF Refused, VerifierKind
        <5>4. CASE j.kind = "withdraw"
          <6>1. Doubtful(begin, r) => j.flag \/ key \in begin.slashed
            BY <5>4 DEF Doubtful
          <6>2. ~Accepts(begin, r, w) => key \notin Deposited(begin) \ begin.withdrawn
            BY <5>1, <5>4 DEF Accepts, GroupKind, VerifierKind
          <6> QED
            BY <3>1, <5>4, <6>1, <6>2 DEF Refused, VerifierKind
        <5>5. CASE j.kind = "report-balance"
          <6>1. Doubtful(begin, r) => j.flag
            BY <5>5 DEF Doubtful
          <6>2. ~Accepts(begin, r, w) => key \notin Deposited(begin) \ begin.withdrawn
            BY <5>1, <5>5 DEF Accepts, GroupKind, VerifierKind
          <6> QED
            BY <3>1, <5>5, <6>1, <6>2 DEF Refused, VerifierKind
        <5> QED
          BY <4>7, <5>2, <5>3, <5>4, <5>5
      <4> QED
        BY <1>1, <4>1, <4>2, <4>3, <4>4, <4>5, <4>6, <4>7 DEF OneWrite
    <3> QED
      BY <3>1, <3>2, ProperThrow
  <2> QED
    BY <1>0, <1>8, <2>4, <2>5, StepAt
<1>9. CASE pc[p] = "close"
  <2>1. Close(p) /\ r.todo = {}
    BY <1>0, <1>2, <1>9, StepAt DEF InOne
  <2>2. AfterWrites(r) = "idle" /\ j.kind \notin {"exit-request", "cl-activate"}
    BY <1>1, <2>1 DEF AfterWrites, OneWrite
  <2>3. Advance(p, r, "idle") /\ fork' = fork
    BY <2>1, <2>2, CloseGoes
  <2>4. Does(begin, fork', j, r.n)
    BY <1>1 DEF Does, OneWrite
  <2> QED
    BY <1>1, <2>2, <2>3, <2>4, ProperDone
<1> QED
  BY <1>2, <1>4, <1>5, <1>6, <1>7, <1>8, <1>9 DEF InOne

\* The reads that both kinds of runs that write to the cl mock end with.
LEMMA PubkeyThrows ==
  ASSUME KInv, NEW p \in Client, Solitary(p), ReadPubkey(p), fork = begin,
         run[p].job.kind \in {"exit-request", "cl-activate"},
         run[p].job.k >= fork.added[run[p].job.o]
  PROVE  Proper(p)
<1> DEFINE j == run[p].job
<1>1. j.k \in Nat /\ fork.added[j.o] \in Nat
  BY SoloParts, KeyRecipesAssumption DEF Index, Fork, Counts
<1>2. Refused(begin, j)
  BY <1>1 DEF Refused, VerifierKind
<1>3. Throw(p, FALSE) /\ Reads
  BY DEF ReadPubkey
<1> QED
  BY <1>2, <1>3, ReadThrows

LEMMA PostGoes ==
  ASSUME KInv, NEW p \in Client, Solitary(p), Post(p), ~disturbed',
         run[p].job.kind \in {"exit-request", "cl-activate"},
         run[p].n = fork.allocated[<<run[p].job.o, run[p].job.k>>],
         Does(begin, fork, run[p].job, run[p].n)
  PROVE  Proper(p)
<1> DEFINE r == run[p]
           j == r.job
           key == <<j.o, j.k>>
           entry == [status |-> IF j.kind = "cl-activate" THEN "active_ongoing" ELSE "active_exiting",
                     balance |-> r.n]
<1>1. key \in Key /\ r \in Run
  BY SoloParts DEF Key
<1>2. Advance(p, r, "idle") /\ fork' = fork
  BY NoFault DEF Post, Solitary
<1>3. cl' = [cl EXCEPT ![key] = entry]
  BY DEF Post
<1>4. cl'[key] = entry
  BY <1>1, <1>3 DEF KInv, IInv, TypeOK
<1>5. cl'[key] = [status |-> IF j.kind = "cl-activate" THEN "active_ongoing" ELSE "active_exiting",
                  balance |-> fork'.allocated[key]]
  BY <1>2, <1>4
<1>6. Does(begin, fork', j, r.n)
  BY <1>2
<1> QED
  BY <1>1, <1>2, <1>5, <1>6, ProperDone

LEMMA BalanceGoes ==
  ASSUME KInv, NEW p \in Client, Solitary(p), ReadBalance(p)
  PROVE  LET r == run[p]
             q == [r EXCEPT !.n = fork.allocated[<<r.job.o, r.job.k>>]]
         IN  /\ Advance(p, q, "post") /\ Reads
             /\ q \in Run /\ q.job = r.job /\ q.todo = r.todo /\ q.failed = r.failed
             /\ q.n = fork.allocated[<<q.job.o, q.job.k>>]
<1> DEFINE r == run[p]
           q == [r EXCEPT !.n = fork.allocated[<<r.job.o, r.job.k>>]]
<1>1. Advance(p, q, "post") /\ Reads
  BY DEF ReadBalance, activeBalance
<1>2. fork.allocated[<<r.job.o, r.job.k>>] \in Nat
  <2>1. <<r.job.o, r.job.k>> \in Key
    BY SoloParts DEF Key
  <2> QED
    BY <2>1, SoloParts DEF Fork, Cap
<1>3. q \in Run /\ q.job = r.job /\ q.todo = r.todo /\ q.failed = r.failed
      /\ q.n = fork.allocated[<<r.job.o, r.job.k>>]
  BY <1>2, SoloParts DEF Run
<1> QED
  BY <1>1, <1>3

\* cl-activate.
LEMMA MirrorProper ==
  ASSUME KInv, NEW p \in Client, Solitary(p), Step(p), ~disturbed', ~run[p].failed,
         run[p].job.kind = "cl-activate"
  PROVE  Proper(p)
<1> DEFINE r == run[p]
           j == r.job
<1>0. solo = p /\ r \in Run /\ fork \in Fork
  BY SoloParts DEF Solitary
<1>1. InMirror(pc[p], r, begin, fork)
  BY SoloParts DEF Sane
<1>2. \A s, q, g : q.job = j /\ ~q.failed /\ InMirror(s, q, begin, g) => Sane(s, q, begin, g)
  BY DEF Sane, OneWrite, OfBond
<1>3. \A s \in {"balance", "post"} : s \in Stage \ {"idle"} /\ s \notin Bracketed
  BY DEF Stage, Bracketed
<1>4. CASE pc[p] = "pubkey"
  <2>1. ReadPubkey(p) /\ Reads /\ fork = begin
    BY <1>0, <1>1, <1>4, StepAt DEF ReadPubkey, InMirror
  <2>2. CASE ~(j.k >= fork.added[j.o])
    <3>1. Advance(p, r, "balance")
      BY <2>1, <2>2 DEF ReadPubkey
    <3>2. Sane("balance", r, begin, fork)
      BY <1>2, <2>1 DEF InMirror
    <3> QED
      BY <1>0, <1>3, <2>1, <3>1, <3>2, ReadGoes
  <2> QED
    BY <2>1, <2>2, PubkeyThrows
<1>5. CASE pc[p] = "balance"
  <2> DEFINE q == [r EXCEPT !.n = fork.allocated[<<r.job.o, r.job.k>>]]
  <2>1. ReadBalance(p) /\ fork = begin
    BY <1>0, <1>1, <1>5, StepAt DEF InMirror
  <2>2. /\ Advance(p, q, "post") /\ Reads
        /\ q \in Run /\ q.job = r.job /\ ~q.failed /\ q.n = fork.allocated[<<q.job.o, q.job.k>>]
    BY <2>1, BalanceGoes
  <2> HIDE DEF q
  <2>3. Sane("post", q, begin, fork)
    BY <1>2, <2>1, <2>2 DEF InMirror
  <2> QED
    BY <1>3, <2>2, <2>3, ReadGoes
<1>6. CASE pc[p] = "post"
  <2>1. Post(p) /\ fork = begin /\ r.n = fork.allocated[<<j.o, j.k>>]
    BY <1>0, <1>1, <1>6, StepAt DEF InMirror
  <2>2. Does(begin, fork, j, r.n)
    BY DEF Does
  <2> QED
    BY <2>1, <2>2, PostGoes
<1> QED
  BY <1>1, <1>4, <1>5, <1>6 DEF InMirror

\* exit-request.
LEMMA ExitDoes ==
  ASSUME NEW f \in Fork, NEW j \in Job, j.kind = "exit-request", NEW n
  PROVE  Does(f, [Asked(f, j) EXCEPT !.done = f.reported + 1], j, n)
<1>1. [Asked(f, j) EXCEPT !.done = f.reported + 1] =
        [f EXCEPT !.reported = @ + 1, !.done = f.reported + 1,
                  !.asking = <<j.o, j.k>>, !.until = f.day + 1]
  BY DEF Asked, Fork
<1> QED
  BY <1>1 DEF Does

LEMMA ExitSends ==
  ASSUME KInv, NEW p \in Client, Solitary(p), Step(p), ~disturbed', ~run[p].failed,
         run[p].job.kind = "exit-request", pc[p] = "send"
  PROVE  Proper(p)
<1> DEFINE r == run[p]
           j == r.job
           w == Least(r.todo)
           q == [r EXCEPT !.todo = @ \ {w}]
<1>1. /\ solo = p /\ r \in Run /\ j \in Job /\ begin \in Fork /\ fork \in Fork
      /\ begin.done <= begin.reported /\ begin.done \in Nat /\ begin.reported \in Nat
      /\ begin.day \in Nat
  BY SoloParts, KeyRecipesAssumption DEF Solitary, Consistent, Fork
<1>2. /\ r.todo \in {{1, 2, 3}, {2, 3}, {3}}
      /\ r.n = begin.reported + 1 /\ r.until = begin.day + 1
      /\ fork = IF r.todo = {1, 2, 3} THEN begin ELSE Asked(begin, j)
  <2>1. InExit(pc[p], r, begin, fork)
    BY SoloParts DEF Sane
  <2>2. r.todo \in {{1, 2, 3}, {2, 3}, {3}}
    BY <2>1 DEF InExit
  <2>3. r.todo # {}
    BY <2>2
  <2> QED
    BY <2>1, <2>2, <2>3 DEF InExit
<1>3. q \in Run /\ q.job = j /\ ~q.failed /\ q.n = r.n /\ q.until = r.until /\ q.todo = r.todo \ {w}
      /\ w \in r.todo /\ \A m \in r.todo : w <= m
  <2>1. r.todo # {}
    BY <1>2
  <2> QED
    BY <2>1, WriteLeaves
<1> HIDE DEF q
<1>5. \/ r.todo = {1, 2, 3} /\ w = 1 /\ q.todo = {2, 3}
      \/ r.todo = {2, 3} /\ w = 2 /\ q.todo = {3}
      \/ r.todo = {3} /\ w = 3 /\ q.todo = {}
  <2> HIDE DEF w
  <2>1. CASE r.todo = {1, 2, 3}
    <3>1. w = 1
      BY <1>3, <2>1
    <3> QED
      BY <1>3, <2>1, <3>1
  <2>2. CASE r.todo = {2, 3}
    <3>1. w = 2
      BY <1>3, <2>2
    <3> QED
      BY <1>3, <2>2, <3>1
  <2>3. CASE r.todo = {3}
    <3>1. w = 3
      BY <1>3, <2>3
    <3> QED
      BY <1>3, <2>3, <3>1
  <2> QED
    BY <1>2, <2>1, <2>2, <2>3
<1>6. /\ {1, 2, 3} # {2, 3} /\ {1, 2, 3} # {3} /\ {2, 3} # {} /\ {3} # {} /\ {1, 2, 3} # {}
  <2>1. 1 \in {1, 2, 3} /\ 1 \notin {2, 3} /\ 1 \notin {3}
    OBVIOUS
  <2> QED
    BY <2>1
<1> HIDE DEF w
<1>7. Asked(begin, j).reported = begin.reported + 1 /\ Asked(begin, j).asking = <<j.o, j.k>>
      /\ Asked(begin, j).done = begin.done /\ Asked(begin, j).day = begin.day
      /\ Asked(begin, j).until = begin.day + 1
  BY <1>1 DEF Asked, Fork
<1>8. Accepts(fork, r, w) /\ ~Doubtful(fork, r)
  <2>1. ~Doubtful(fork, r)
    BY DEF Doubtful
  <2>2. CASE w = 1
    <3>1. r.n >= fork.reported /\ r.n > fork.done /\ r.until > fork.day
      BY <1>1, <1>2, <1>5, <2>2
    <3> QED
      BY <2>1, <2>2, <3>1 DEF Accepts, VerifierKind, GroupKind
  <2>3. CASE w = 2
    BY <2>1, <2>3 DEF Accepts, VerifierKind, GroupKind
  <2>4. CASE w = 3
    <3>1. fork = Asked(begin, j)
      BY <1>2, <1>5, <1>6, <2>4
    <3>2. r.n = fork.reported /\ fork.asking = <<j.o, j.k>> /\ fork.done < r.n /\ fork.day <= fork.until
      BY <1>1, <1>2, <1>7, <3>1
    <3> QED
      BY <2>1, <2>4, <3>2 DEF Accepts, VerifierKind, GroupKind
  <2> QED
    BY <1>5, <2>2, <2>3, <2>4
<1>9. Send(p)
  <2>1. ~SendFails(p)
    BY <1>8, LeastFailsFor DEF w
  <2> QED
    BY <1>1, <2>1, StepAt
<1>10. fork' \in Effects(fork, r, w)
  BY <1>9, SendsLeast DEF w
<1>11. fork' = IF q.todo # {} THEN Asked(begin, j) ELSE [Asked(begin, j) EXCEPT !.done = begin.reported + 1]
  <2>1. CASE w = 1
    <3>1. fork = begin
      BY <1>2, <1>5, <2>1
    <3>2. fork' = [begin EXCEPT !.reported = r.n, !.asking = <<j.o, j.k>>, !.until = r.until]
      BY <1>10, <2>1, <3>1 DEF Effects, GroupKind
    <3> QED
      BY <1>2, <1>5, <1>6, <2>1, <3>2 DEF Asked
  <2>2. CASE w = 2
    <3>1. fork' = fork
      BY <1>10, <2>2 DEF Effects, GroupKind
    <3> QED
      BY <1>2, <1>5, <1>6, <2>2, <3>1
  <2>3. CASE w = 3
    <3>1. fork' = [fork EXCEPT !.done = r.n]
      BY <1>10, <2>3 DEF Effects, GroupKind
    <3> QED
      BY <1>2, <1>5, <1>6, <2>3, <3>1
  <2> QED
    BY <1>5, <2>1, <2>2, <2>3
<1>12. InExit("close", q, begin, fork') /\ (q.todo # {} => InExit("send", q, begin, fork'))
  BY <1>2, <1>3, <1>5, <1>6, <1>11 DEF InExit
<1>13. Sane("close", q, begin, fork') /\ (q.todo # {} => Sane("send", q, begin, fork'))
  BY <1>3, <1>12 DEF Sane, OneWrite, OfBond
<1> QED
  BY <1>3, <1>9, <1>13, WriteProper DEF q, w

LEMMA ExitProper ==
  ASSUME KInv, NEW p \in Client, Solitary(p), Step(p), ~disturbed', ~run[p].failed,
         run[p].job.kind = "exit-request"
  PROVE  Proper(p)
<1> DEFINE r == run[p]
           j == r.job
<1>0. solo = p /\ r \in Run /\ fork \in Fork /\ begin \in Fork /\ j \in Job
  BY SoloParts DEF Solitary
<1>1. InExit(pc[p], r, begin, fork)
  BY SoloParts DEF Sane
<1>2. \A s, q, g : q.job = j /\ ~q.failed /\ InExit(s, q, begin, g) => Sane(s, q, begin, g)
  BY DEF Sane, OneWrite, OfBond
<1>3. \A s \in {"module", "report", "clock", "open", "balance", "post"} :
        s \in Stage \ {"idle"} /\ s \notin Bracketed
  BY DEF Stage, Bracketed
<1>4. CASE pc[p] \in {"pubkey", "module", "report", "clock"}
  <2>1. r.todo = {1, 2, 3} /\ fork = begin
    BY <1>1, <1>4 DEF InExit
  <2>2. CASE pc[p] = "pubkey"
    <3>1. ReadPubkey(p) /\ Reads
      BY <1>0, <2>2, StepAt DEF ReadPubkey
    <3>2. CASE ~(j.k >= fork.added[j.o])
      <4>1. Advance(p, r, "module")
        BY <3>1, <3>2 DEF ReadPubkey
      <4>2. Sane("module", r, begin, fork)
        BY <1>2, <2>1 DEF InExit
      <4> QED
        BY <1>0, <1>3, <3>1, <4>1, <4>2, ReadGoes
    <3> QED
      BY <2>1, <3>1, <3>2, PubkeyThrows
  <2>3. CASE pc[p] = "module"
    <3>1. FindModule(p) /\ Reads
      BY <1>0, <2>3, StepAt DEF FindModule
    <3>2. CASE fork.registered
      <4>1. Advance(p, r, "report")
        BY <3>1, <3>2 DEF FindModule
      <4>2. Sane("report", r, begin, fork)
        BY <1>2, <2>1 DEF InExit
      <4> QED
        BY <1>0, <1>3, <3>1, <4>1, <4>2, ReadGoes
    <3>3. CASE ~fork.registered
      <4>1. Throw(p, FALSE)
        BY <3>1, <3>3 DEF FindModule
      <4>2. Refused(begin, j)
        BY <2>1, <3>3 DEF Refused, VerifierKind
      <4> QED
        BY <3>1, <4>1, <4>2, ReadThrows
    <3> QED
      BY <3>2, <3>3
  <2>4. CASE pc[p] = "report"
    <3> DEFINE q == [r EXCEPT !.n = fork.reported + 1]
    <3>1. Advance(p, q, "clock") /\ Reads
      BY <1>0, <2>4, StepAt DEF ReadReport, nextRef
    <3>2. q \in Run /\ q.job = j /\ ~q.failed /\ q.todo = r.todo /\ q.n = fork.reported + 1
      <4>1. fork.reported + 1 \in Nat
        BY <1>0 DEF Fork
      <4> QED
        BY <1>0, <4>1 DEF Run
    <3> HIDE DEF q
    <3>3. Sane("clock", q, begin, fork)
      BY <1>2, <2>1, <3>2 DEF InExit
    <3> QED
      BY <1>3, <3>1, <3>2, <3>3, ReadGoes
  <2>5. CASE pc[p] = "clock"
    <3> DEFINE q == [r EXCEPT !.until = fork.day + 1]
    <3>1. Advance(p, q, "open") /\ Reads
      BY <1>0, <2>5, StepAt DEF ReadClock
    <3>2. q \in Run /\ q.job = j /\ ~q.failed /\ q.todo = r.todo /\ q.n = r.n /\ q.until = fork.day + 1
      <4>1. fork.day + 1 \in Nat
        BY <1>0, KeyRecipesAssumption DEF Fork
      <4> QED
        BY <1>0, <4>1 DEF Run
    <3>3. r.n = begin.reported + 1
      BY <1>1, <2>1, <2>5 DEF InExit
    <3> HIDE DEF q
    <3>4. Sane("open", q, begin, fork)
      BY <1>2, <2>1, <3>2, <3>3 DEF InExit
    <3> QED
      BY <1>3, <3>1, <3>2, <3>4, ReadGoes
  <2> QED
    BY <1>4, <2>2, <2>3, <2>4, <2>5
<1>5. CASE pc[p] = "open"
  <2>1. Open(p)
    BY <1>0, <1>5, StepAt
  <2> DEFINE q == [r EXCEPT !.as = Signer(r)]
  <2>2. q.job = j /\ q.n = r.n /\ q.todo = r.todo /\ q.until = r.until /\ ~q.failed
    BY <1>0 DEF Run
  <2> HIDE DEF q
  <2>3. Sane("send", q, begin, fork)
    BY <1>1, <1>2, <1>5, <2>2 DEF InExit
  <2> QED
    BY <2>1, <2>3, OpenGoes DEF q
<1>6. CASE pc[p] = "close"
  <2>1. Close(p)
    BY <1>0, <1>6, StepAt
  <2>2. Advance(p, r, AfterWrites(r)) /\ begin' = begin /\ fork' = fork
    BY <2>1, CloseGoes
  <2>3. CASE r.todo # {}
    <3>1. AfterWrites(r) = "open" /\ r.todo \in {{2, 3}, {3}}
      BY <1>1, <1>6, <2>3 DEF AfterWrites, InExit
    <3>2. Sane("open", r, begin, fork')
      BY <1>1, <1>2, <1>6, <2>2, <2>3, <3>1 DEF InExit
    <3> QED
      BY <1>0, <1>3, <2>2, <3>1, <3>2, ProperAdvance
  <2>4. CASE r.todo = {}
    <3>1. fork = [Asked(begin, j) EXCEPT !.done = begin.reported + 1]
      BY <1>1, <2>4 DEF InExit
    <3>2. CASE j.flag
      <4>1. AfterWrites(r) = "balance"
        BY <2>4, <3>2 DEF AfterWrites
      <4>2. Sane("balance", r, begin, fork')
        BY <1>1, <1>2, <2>2, <2>4 DEF InExit
      <4> QED
        BY <1>0, <1>3, <2>2, <4>1, <4>2, ProperAdvance
    <3>3. CASE ~j.flag
      <4>1. AfterWrites(r) = "idle"
        BY <2>4, <3>3 DEF AfterWrites
      <4>2. Does(begin, fork', j, r.n)
        BY <1>0, <2>2, <3>1, ExitDoes
      <4> QED
        BY <1>0, <2>2, <3>3, <4>1, <4>2, ProperDone
    <3> QED
      BY <3>2, <3>3
  <2> QED
    BY <2>3, <2>4
<1>7. CASE pc[p] = "balance"
  <2> DEFINE q == [r EXCEPT !.n = fork.allocated[<<r.job.o, r.job.k>>]]
  <2>1. ReadBalance(p)
    BY <1>0, <1>7, StepAt
  <2>2. /\ Advance(p, q, "post") /\ Reads /\ q.todo = r.todo
        /\ q \in Run /\ q.job = r.job /\ ~q.failed /\ q.n = fork.allocated[<<q.job.o, q.job.k>>]
    BY <2>1, BalanceGoes
  <2> HIDE DEF q
  <2>3. Sane("post", q, begin, fork)
    BY <1>1, <1>2, <1>7, <2>2 DEF InExit
  <2> QED
    BY <1>3, <2>2, <2>3, ReadGoes
<1>8. CASE pc[p] = "post"
  <2>1. Post(p)
    BY <1>0, <1>8, StepAt
  <2>2. r.n = fork.allocated[<<j.o, j.k>>]
    BY <1>1, <1>8 DEF InExit
  <2>3. fork = [Asked(begin, j) EXCEPT !.done = begin.reported + 1]
    BY <1>1, <1>8 DEF InExit
  <2>4. Does(begin, fork, j, r.n)
    BY <1>0, <2>3, ExitDoes
  <2> QED
    BY <2>1, <2>2, <2>4, PostGoes
<1>9. pc[p] \in {"idle", "pubkey", "module", "report", "clock", "open", "send", "close", "balance", "post"}
  BY SoloParts DEF Fits
<1> QED
  BY <1>4, <1>5, <1>6, <1>7, <1>8, <1>9, ExitSends DEF Solitary

\* The recipes that change a bond, which the contracts may refuse at any time.
LEMMA BondProper ==
  ASSUME KInv, NEW p \in Client, Solitary(p), Step(p), ~disturbed', ~run[p].failed,
         run[p].job.kind \in OfBond
  PROVE  Proper(p)
<1> DEFINE r == run[p]
           j == r.job
<1>1. \A s, q, g : q.job = j /\ ~q.failed /\ s \in {"open", "send", "close"} => Sane(s, q, begin, g)
  BY DEF Sane, OneWrite, OfBond, InBond
<1>2. Refused(begin, j)
  <2>1. Doubtful(begin, [job |-> j, as |-> None])
    BY DEF Doubtful, OfBond
  <2> QED
    BY <2>1 DEF Refused, VerifierKind, OfBond
<1>3. \A g, n : Does(begin, g, j, n)
  BY DEF Does, OfBond
<1>4. r \in Run /\ solo = p /\ fork \in Fork /\ j.o \in Operator /\ InBond(pc[p], r)
      /\ {"open", "send", "close"} \subseteq Stage \ {"idle"}
  BY SoloParts DEF Solitary, Stage, Sane
<1>5. CASE pc[p] = "operator"
  <2> DEFINE q == [r EXCEPT !.as = fork.manager[j.o]]
  <2>1. ReadOperator(p) /\ Reads
    BY <1>4, <1>5, StepAt, Zenon DEF ReadOperator
  <2>2. q \in Run /\ q.job = j /\ ~q.failed
    <3>1. fork.manager[j.o] \in Account
      BY <1>4 DEF Fork, Account
    <3> QED
      BY <1>4, <3>1 DEF Run
  <2>3. Advance(p, q, "open")
    <3>1. j.kind \in ManagerKind \ {"add-keys"}
      BY <1>4, <1>5 DEF InBond, OfBond
    <3> QED
      BY <2>1, <3>1 DEF ReadOperator, ManagerKind
  <2> HIDE DEF q
  <2> QED
    BY <1>1, <1>4, <2>1, <2>2, <2>3, ReadGoes DEF Bracketed
<1>6. CASE pc[p] = "open"
  <2>1. Open(p)
    BY <1>4, <1>6, StepAt
  <2> DEFINE q == [r EXCEPT !.as = Signer(r)]
  <2>2. q.job = j /\ ~q.failed
    BY <1>4 DEF Run
  <2>3. Sane("send", q, begin, fork)
    BY <1>1, <2>2
  <2> QED
    BY <2>1, <2>3, OpenGoes
<1>7. CASE pc[p] = "send"
  <2>1. CASE Send(p)
    <3> DEFINE q == [r EXCEPT !.todo = @ \ {Least(r.todo)}]
    <3>1. q \in Run /\ q.job = j /\ ~q.failed
      BY <1>4 DEF Run
    <3>2. Sane("send", q, begin, fork') /\ Sane("close", q, begin, fork')
      BY <1>1, <3>1
    <3>3. j.kind # "deposit" /\ j.kind # "create-operator-group"
      BY DEF OfBond
    <3> QED
      BY <1>7, <2>1, <3>1, <3>2, <3>3, WriteProper
  <2>2. CASE SendFails(p)
    <3>1. Throw(p, FALSE) /\ begin' = begin
      BY <1>7, <2>2, SendFailsFor
    <3> QED
      BY <1>2, <3>1, ProperThrow
  <2> QED
    BY <1>4, <1>7, <2>1, <2>2, StepAt
<1>8. CASE pc[p] = "close"
  <2>1. Close(p)
    BY <1>4, <1>8, StepAt
  <2>2. Advance(p, r, AfterWrites(r)) /\ begin' = begin
    BY <2>1, CloseGoes
  <2>3. CASE r.todo # {}
    <3>1. Advance(p, r, "open") /\ Sane("open", r, begin, fork')
      BY <1>1, <2>2, <2>3 DEF AfterWrites, OfBond
    <3> QED
      BY <1>4, <2>2, <3>1, ProperAdvance DEF Bracketed
  <2>4. CASE r.todo = {}
    <3>1. Advance(p, r, "idle") /\ j.kind \notin {"exit-request", "cl-activate"}
      BY <2>2, <2>4 DEF AfterWrites, OfBond
    <3>2. Does(begin, fork', j, r.n)
      BY <1>3
    <3> QED
      BY <1>4, <3>1, <3>2, ProperDone
  <2> QED
    BY <2>3, <2>4
<1> QED
  BY <1>4, <1>5, <1>6, <1>7, <1>8 DEF InBond

\* register-module.
LEMMA ModuleProper ==
  ASSUME KInv, NEW p \in Client, Solitary(p), Step(p), ~disturbed', ~run[p].failed,
         run[p].job.kind = "register-module"
  PROVE  Proper(p)
<1> DEFINE r == run[p]
           j == r.job
           done == [Granted(begin) EXCEPT !.registered = TRUE]
<1>0. solo = p /\ r \in Run /\ fork \in Fork /\ begin \in Fork /\ j \in Job
  BY SoloParts, KeyRecipesAssumption DEF Solitary, KInv, IInv, TypeOK, Run
<1>1. InModule(pc[p], r, begin, fork)
  BY SoloParts DEF Sane
<1>2. \A s, q, g : q.job = j /\ ~q.failed /\ InModule(s, q, begin, g) => Sane(s, q, begin, g)
  BY DEF Sane, OneWrite, OfBond
<1>3. \A s \in {"role", "source", "open", "resolve"} : s \in Stage \ {"idle"} /\ s \notin Bracketed
  BY DEF Stage, Bracketed
<1>4. /\ {1, 2} # {2} /\ {1, 2} # {} /\ {2} # {}
  <2>1. 1 \in {1, 2} /\ 1 \notin {2} /\ 2 \in {2}
    OBVIOUS
  <2> QED
    BY <2>1
<1>5. /\ Granted(begin) \in Fork /\ done \in Fork
      /\ Granted(begin).granted /\ Granted(begin).registered = begin.registered
      /\ done.registered
      /\ begin.granted => Granted(begin) = begin
      /\ done = [begin EXCEPT !.granted = TRUE, !.registered = TRUE]
  BY <1>0 DEF Granted, Fork
<1> HIDE DEF done
<1>6. CASE pc[p] = "module"
  <2>1. FindModule(p) /\ Reads /\ r.todo = {} /\ fork = begin
    BY <1>0, <1>1, <1>6, StepAt DEF FindModule, InModule
  <2>2. CASE fork.registered
    <3>1. Advance(p, r, "idle") /\ fork' = begin
      BY <2>1, <2>2 DEF FindModule, Reads
    <3>2. Does(begin, fork', j, r.n)
      BY <2>1, <2>2, <3>1 DEF Does
    <3> QED
      BY <1>0, <3>1, <3>2, ProperDone
  <2>3. CASE ~fork.registered
    <3>1. Advance(p, r, "role")
      BY <2>1, <2>3 DEF FindModule
    <3>2. Sane("role", r, begin, fork)
      BY <1>2, <2>1, <2>3 DEF InModule
    <3> QED
      BY <1>0, <1>3, <2>1, <3>1, <3>2, ReadGoes
  <2> QED
    BY <2>2, <2>3
<1>7. CASE pc[p] = "role"
  <2> DEFINE q == [r EXCEPT !.todo = IF fork.granted THEN {2} ELSE {1, 2}]
             t == IF fork.granted THEN "source" ELSE "open"
  <2>1. ReadRole(p) /\ Reads /\ fork = begin /\ ~begin.registered /\ Advance(p, q, t)
    BY <1>0, <1>1, <1>7, StepAt DEF ReadRole, InModule
  <2>2. q \in Run /\ q.job = j /\ ~q.failed /\ q.todo = IF fork.granted THEN {2} ELSE {1, 2}
    BY <1>0 DEF Run
  <2> HIDE DEF q
  <2>3. InModule(t, q, begin, fork)
    BY <1>4, <1>5, <2>1, <2>2 DEF InModule
  <2>4. Sane(t, q, begin, fork)
    BY <1>2, <2>2, <2>3
  <2> QED
    BY <1>3, <2>1, <2>2, <2>4, ReadGoes
<1>12. CASE pc[p] = "source"
  <2>1. ReadSource(p) /\ Reads /\ fork = Granted(begin) /\ ~begin.registered /\ r.todo = {2}
    BY <1>0, <1>1, <1>4, <1>12, StepAt DEF ReadSource, InModule
  <2>2. fork.source = begin.source /\ ~fork.registered
    BY <1>0, <1>5, <2>1 DEF Granted, Fork
  <2>3. CASE fork.source
    <3>1. Advance(p, r, "open")
      BY <2>1, <2>3 DEF ReadSource
    <3>2. Sane("open", r, begin, fork)
      BY <1>1, <1>2, <1>12, <2>1 DEF InModule
    <3> QED
      BY <1>0, <1>3, <2>1, <3>1, <3>2, ReadGoes
  <2>4. CASE ~fork.source
    <3>1. Throw(p, FALSE)
      BY <2>1, <2>2, <2>4 DEF ReadSource
    <3>2. Refused(begin, j)
      BY <2>1, <2>2, <2>4 DEF Refused, VerifierKind
    <3> QED
      BY <2>1, <3>1, <3>2, ReadThrows
  <2> QED
    BY <2>3, <2>4
<1>8. CASE pc[p] = "open"
  <2>1. Open(p)
    BY <1>0, <1>8, StepAt
  <2> DEFINE q == [r EXCEPT !.as = Signer(r)]
  <2>2. q.job = j /\ q.todo = r.todo /\ ~q.failed
    BY <1>0 DEF Run
  <2> HIDE DEF q
  <2>3. Sane("send", q, begin, fork)
    BY <1>1, <1>2, <1>8, <2>2 DEF InModule
  <2> QED
    BY <2>1, <2>3, OpenGoes DEF q
<1>9. CASE pc[p] = "send"
  <2> DEFINE w == Least(r.todo)
             q == [r EXCEPT !.todo = @ \ {w}]
  <2>1. ~begin.registered /\ r.todo \in {{1, 2}, {2}}
        /\ fork = IF r.todo = {1, 2} THEN begin ELSE Granted(begin)
    BY <1>1, <1>9 DEF InModule
  <2>2. q \in Run /\ q.job = j /\ ~q.failed /\ q.todo = r.todo \ {w}
        /\ w \in r.todo /\ \A m \in r.todo : w <= m
    <3>1. r.todo # {}
      BY <2>1
    <3> QED
      BY <3>1, WriteLeaves
  <2> HIDE DEF q
  <2>3. \/ r.todo = {1, 2} /\ w = 1 /\ q.todo = {2}
        \/ r.todo = {2} /\ w = 2 /\ q.todo = {}
    <3> HIDE DEF w
    <3>1. CASE r.todo = {1, 2}
      <4>1. w = 1
        BY <2>2, <3>1
      <4> QED
        BY <2>2, <3>1, <4>1
    <3>2. CASE r.todo = {2}
      <4>1. w = 2
        BY <2>2, <3>2
      <4> QED
        BY <2>2, <3>2, <4>1
    <3> QED
      BY <2>1, <3>1, <3>2
  <2> HIDE DEF w
  <2>4. Accepts(fork, r, w) /\ ~Doubtful(fork, r)
    <3>1. ~Doubtful(fork, r)
      BY DEF Doubtful
    <3>2. CASE w = 1
      BY <3>1, <3>2 DEF Accepts, VerifierKind, GroupKind
    <3>3. CASE w = 2
      <4>1. fork.granted /\ ~fork.registered
        BY <1>4, <1>5, <2>1, <2>3, <3>3
      <4> QED
        BY <3>1, <3>3, <4>1 DEF Accepts, VerifierKind, GroupKind
    <3> QED
      BY <2>3, <3>2, <3>3
  <2>5. Send(p)
    <3>1. ~SendFails(p)
      BY <1>9, <2>4, LeastFailsFor DEF w
    <3> QED
      BY <1>0, <1>9, <3>1, StepAt
  <2>6. fork' \in Effects(fork, r, w)
    BY <2>5, SendsLeast DEF w
  <2>7. fork' = IF q.todo = {2} THEN Granted(begin) ELSE done
    <3>1. CASE w = 1
      BY <1>4, <2>1, <2>3, <2>6, <3>1 DEF Effects, GroupKind, Granted
    <3>2. CASE w = 2
      BY <1>4, <2>1, <2>3, <2>6, <3>2 DEF Effects, GroupKind, done
    <3> QED
      BY <2>3, <3>1, <3>2
  <2>8. InModule("close", q, begin, fork') /\ (q.todo # {} => InModule("send", q, begin, fork'))
    BY <1>4, <2>1, <2>3, <2>7 DEF InModule, done
  <2>9. Sane("close", q, begin, fork') /\ (q.todo # {} => Sane("send", q, begin, fork'))
    BY <1>2, <2>2, <2>8
  <2> QED
    BY <1>9, <2>2, <2>5, <2>9, WriteProper DEF q, w
<1>10. CASE pc[p] = "close"
  <2>1. Close(p)
    BY <1>0, <1>10, StepAt
  <2>2. Advance(p, r, AfterWrites(r)) /\ begin' = begin /\ fork' = fork
    BY <2>1, CloseGoes
  <2>3. CASE r.todo # {}
    <3>1. AfterWrites(r) = "source" /\ r.todo = {2}
      BY <1>1, <1>10, <2>3 DEF AfterWrites, InModule
    <3>2. Sane("source", r, begin, fork')
      BY <1>1, <1>2, <1>10, <2>2, <3>1 DEF InModule
    <3> QED
      BY <1>0, <1>3, <2>2, <3>1, <3>2, ProperAdvance
  <2>4. CASE r.todo = {}
    <3>1. AfterWrites(r) = "resolve"
      BY <2>4 DEF AfterWrites
    <3>2. Sane("resolve", r, begin, fork')
      BY <1>1, <1>2, <1>10, <2>2, <2>4 DEF InModule
    <3> QED
      BY <1>0, <1>3, <2>2, <3>1, <3>2, ProperAdvance
  <2> QED
    BY <2>3, <2>4
<1>11. CASE pc[p] = "resolve"
  <2>1. ResolveModule(p) /\ fork' = fork
    BY <1>0, <1>11, StepAt DEF ResolveModule, Reads
  <2>2. fork = done /\ ~begin.registered
    BY <1>1, <1>4, <1>11 DEF InModule, done
  <2>3. Advance(p, r, "idle")
    BY <1>5, <2>1, <2>2 DEF ResolveModule
  <2>4. Does(begin, fork', j, r.n)
    BY <1>5, <2>1, <2>2 DEF Does
  <2> QED
    BY <1>0, <2>3, <2>4, ProperDone
<1> QED
  BY <1>1, <1>6, <1>7, <1>8, <1>9, <1>10, <1>11, <1>12 DEF InModule

\* reset-operator-group.
LEMMA ResetProper ==
  ASSUME KInv, NEW p \in Client, Solitary(p), Step(p), ~disturbed', ~run[p].failed,
         run[p].job.kind = "reset-operator-group"
  PROVE  Proper(p)
<1> DEFINE r == run[p]
           j == r.job
           at == begin.group[j.o]
<1>0. solo = p /\ r \in Run /\ fork \in Fork /\ begin \in Fork /\ j.o \in Operator /\ at \in 0 .. MaxGroup
  BY SoloParts DEF Solitary, Fork
<1>1. InReset(pc[p], r, begin, fork)
  BY SoloParts DEF Sane
<1>2. \A s, q, g : q.job = j /\ ~q.failed /\ InReset(s, q, begin, g) => Sane(s, q, begin, g)
  BY DEF Sane, OneWrite, OfBond
<1>3. \A s \in {"open"} : s \in Stage \ {"idle"} /\ s \notin Bracketed
  BY DEF Stage, Bracketed
<1>4. CASE pc[p] = "groups"
  <2> DEFINE q == [r EXCEPT !.todo = {fork.group[j.o]}]
  <2>1. ReadGroup(p) /\ Reads /\ fork = begin
    BY <1>0, <1>1, <1>4, StepAt, Zenon DEF ReadGroup, InReset
  <2>2. CASE at = 0
    <3>1. Throw(p, FALSE) /\ Refused(begin, j)
      BY <2>1, <2>2 DEF ReadGroup, Refused, VerifierKind
    <3> QED
      BY <2>1, <3>1, ReadThrows
  <2>3. CASE at # 0
    <3>1. Advance(p, q, "open")
      BY <2>1, <2>3 DEF ReadGroup
    <3>2. q \in Run /\ q.job = j /\ ~q.failed /\ q.todo = {at}
      <4>1. {at} \subseteq Nat
        BY <1>0, KeyRecipesAssumption
      <4> QED
        BY <1>0, <2>1, <4>1 DEF Run
    <3> HIDE DEF q
    <3>3. Sane("open", q, begin, fork)
      BY <1>2, <2>1, <2>3, <3>2 DEF InReset
    <3> QED
      BY <1>3, <2>1, <3>1, <3>2, <3>3, ReadGoes
  <2> QED
    BY <2>2, <2>3
<1>5. CASE pc[p] = "open"
  <2>1. Open(p)
    BY <1>0, <1>5, StepAt
  <2> DEFINE q == [r EXCEPT !.as = Signer(r)]
  <2>2. q.job = j /\ q.todo = r.todo /\ ~q.failed
    BY <1>0 DEF Run
  <2> HIDE DEF q
  <2>3. Sane("send", q, begin, fork)
    BY <1>1, <1>2, <1>5, <2>2 DEF InReset
  <2> QED
    BY <2>1, <2>3, OpenGoes DEF q
<1>6. CASE pc[p] = "send"
  <2> DEFINE w == Least(r.todo)
             q == [r EXCEPT !.todo = @ \ {w}]
  <2>1. fork = begin /\ r.todo = {at} /\ at # 0
    BY <1>1, <1>6 DEF InReset
  <2>2. q \in Run /\ q.job = j /\ ~q.failed /\ q.todo = r.todo \ {w} /\ w \in r.todo
    <3>1. r.todo # {}
      BY <2>1
    <3> QED
      BY <3>1, WriteLeaves
  <2> HIDE DEF q, w
  <2>3. w = at /\ q.todo = {}
    BY <2>1, <2>2
  <2>4. w \in 1 .. MaxGroup /\ w # NewGroup
    <3>1. w \in 1 .. MaxGroup
      BY <1>0, <2>1, <2>3, KeyRecipesAssumption
    <3> QED
      BY <3>1, KeyRecipesAssumption DEF NewGroup
  <2>5. Accepts(fork, r, w) /\ ~Doubtful(fork, r)
    BY <2>4 DEF Accepts, Doubtful, VerifierKind
  <2>6. Send(p)
    <3>1. ~SendFails(p)
      BY <1>6, <2>5, LeastFailsFor DEF w
    <3> QED
      BY <1>0, <1>6, <3>1, StepAt
  <2>7. fork' \in Effects(fork, r, w)
    BY <2>6, SendsLeast DEF w
  <2>8. fork' = [fork EXCEPT !.group = [x \in Operator |-> IF @[x] = w THEN 0 ELSE @[x]],
                             !.share = [x \in Operator |-> IF fork.group[x] = w THEN 0 ELSE @[x]]]
    BY <2>4, <2>7 DEF Effects, GroupKind
  <2>9. \A z \in Operator : fork'.group[z] = IF begin.group[z] = at THEN 0 ELSE begin.group[z]
    <3>1. fork'.group = [x \in Operator |-> IF fork.group[x] = w THEN 0 ELSE fork.group[x]]
      BY <1>0, <2>8 DEF Fork
    <3> QED
      BY <2>1, <2>3, <3>1
  <2>10. Sane("close", q, begin, fork')
    BY <1>2, <2>2, <2>3, <2>9 DEF InReset
  <2> QED
    BY <1>6, <2>2, <2>3, <2>6, <2>10, WriteProper DEF q, w
<1>7. CASE pc[p] = "close"
  <2>1. Close(p)
    BY <1>0, <1>7, StepAt
  <2>2. r.todo = {} /\ \A z \in Operator : fork.group[z] = IF begin.group[z] = at THEN 0 ELSE begin.group[z]
    BY <1>1, <1>7 DEF InReset
  <2>3. Advance(p, r, "idle") /\ fork' = fork
    BY <2>1, <2>2, CloseGoes DEF AfterWrites
  <2>4. Does(begin, fork', j, r.n)
    BY <2>2, <2>3 DEF Does
  <2> QED
    BY <1>0, <2>3, <2>4, ProperDone
<1> QED
  BY <1>1, <1>4, <1>5, <1>6, <1>7 DEF InReset

\* create-operator-group: what is left of the fork when a write is taken.
LEMMA GroupsMade ==
  ASSUME NEW f \in Fork, NEW g \in Fork, NEW h, NEW r \in Run, r.job.kind = "create-operator-group",
         h \in Effects(g, r, NewGroup),
         \A z \in Operator : g.group[z] = IF f.group[z] \in GroupsOf(f, Joined(r.job)) THEN 0
                                          ELSE f.group[z]
  PROVE  \A n : Does(f, h, r.job, n)
<1> DEFINE j == r.job
           old == GroupsOf(f, Joined(j))
<1>1. NewGroup \notin 1 .. MaxGroup /\ g.groups \in Nat /\ j.named \subseteq Operator
  BY KeyRecipesAssumption DEF NewGroup, Fork, Run, Job, AllBps
<1>2. h = [g EXCEPT !.groups = g.groups + 1,
              !.group = [x \in Operator |-> IF x \in j.named THEN g.groups + 1 ELSE g.group[x]],
              !.share = [x \in Operator |-> IF x \in j.named THEN j.shares[x] ELSE g.share[x]]]
  BY <1>1 DEF Effects, GroupKind
<1>3. /\ h.groups = g.groups + 1
      /\ h.group = [x \in Operator |-> IF x \in j.named THEN g.groups + 1 ELSE g.group[x]]
      /\ h.share = [x \in Operator |-> IF x \in j.named THEN j.shares[x] ELSE g.share[x]]
  BY <1>2 DEF Fork
<1>4. \A x \in j.named : h.share[x] = j.shares[x] /\ h.group[x] = h.groups
  BY <1>1, <1>3
<1>5. \A x \in Operator \ j.named : h.group[x] = IF \E y \in j.named : f.group[x] = f.group[y]
                                                THEN 0 ELSE f.group[x]
  <2> SUFFICES ASSUME NEW x \in Operator \ j.named
               PROVE  h.group[x] = IF \E y \in j.named : f.group[x] = f.group[y] THEN 0 ELSE f.group[x]
    OBVIOUS
  <2>1. h.group[x] = IF f.group[x] \in old THEN 0 ELSE f.group[x]
    BY <1>3
  <2>2. f.group[x] \in old <=> f.group[x] # 0 /\ \E y \in j.named : f.group[x] = f.group[y]
    BY DEF GroupsOf, Joined
  <2> QED
    BY <2>1, <2>2
<1> QED
  BY <1>4, <1>5 DEF Does

LEMMA CreateSends ==
  ASSUME KInv, NEW p \in Client, Solitary(p), Step(p), ~disturbed', ~run[p].failed,
         run[p].job.kind = "create-operator-group", pc[p] = "send"
  PROVE  Proper(p)
<1> DEFINE r == run[p]
           j == r.job
           q(w) == [r EXCEPT !.todo = @ \ {w}]
           old == GroupsOf(begin, Joined(j))
<1>1. /\ solo = p /\ r \in Run /\ j \in Job /\ begin \in Fork /\ fork \in Fork
      /\ \A z \in Operator : begin.group[z] \in 0 .. MaxGroup
      /\ fork.groups \in 0 .. MaxGroup
  BY SoloParts DEF Solitary, Fork
<1>2. \A n \in old : n \in 1 .. MaxGroup /\ n < NewGroup /\ n # 0
  <2>1. Joined(j) \subseteq Operator
    BY <1>1 DEF Joined, Job
  <2> QED
    BY <1>1, <2>1, KeyRecipesAssumption DEF GroupsOf, NewGroup
<1>3. /\ r.todo # {} /\ NewGroup \in r.todo /\ r.todo \subseteq old \cup {NewGroup}
      /\ fork.groups = begin.groups
      /\ \A z \in Operator : fork.group[z] = IF begin.group[z] \in old \ r.todo THEN 0 ELSE begin.group[z]
  <2>1. InCreate(pc[p], r, begin, fork)
    BY SoloParts DEF Sane
  <2> QED
    BY <2>1 DEF InCreate
<1>4. \A w : q(w) \in Run /\ q(w).job = j /\ ~q(w).failed /\ q(w).todo = r.todo \ {w} /\ q(w).n = r.n
            /\ q(w).as = r.as
  BY <1>1 DEF Run
<1>5. \A w, s, g : InCreate(s, q(w), begin, g) => Sane(s, q(w), begin, g)
  <2> HIDE DEF q, old
  <2> QED
    BY <1>4 DEF Sane, OneWrite, OfBond
<1>6. CASE r.todo # {NewGroup}
  <2>1. NextWrites(r) = r.todo \ {NewGroup}
    BY <1>6 DEF NextWrites
  <2>2. \A w \in NextWrites(r) : w \in old /\ w \in r.todo /\ w \in 1 .. MaxGroup /\ w # 0 /\ w # NewGroup
    <3> HIDE DEF old
    <3> QED
      BY <1>2, <1>3, <2>1
  <2>3. Send(p)
    <3>1. \A w \in NextWrites(r) : Accepts(fork, r, w)
      BY <2>2 DEF Accepts, VerifierKind
    <3>2. ~Doubtful(fork, r)
      BY <1>6 DEF Doubtful
    <3>3. ~SendFails(p)
      BY <3>1, <3>2, SendFailsFor
    <3> QED
      BY <1>1, <3>3, StepAt
  <2>4. PICK w \in NextWrites(r) :
          LET s == CASE r.job.kind = "deposit" /\ w = 1 -> "summary"
                     [] Together(q(w)) -> "send"
                     [] OTHER -> "close"
          IN  fork' \in Effects(fork, r, w) /\ Advance(p, q(w), s)
    BY <2>3, SendGoes, Zenon
  <2> DEFINE s == CASE r.job.kind = "deposit" /\ w = 1 -> "summary"
                    [] Together(q(w)) -> "send"
                    [] OTHER -> "close"
  <2>5. /\ fork' \in Effects(fork, r, w) /\ Advance(p, q(w), s)
        /\ w \in old /\ w \in r.todo /\ w \in 1 .. MaxGroup /\ w # 0 /\ w # NewGroup
        /\ begin' = begin /\ impersonated' = impersonated
    BY <2>2, <2>3, <2>4, SendGoes
  <2>6. s \in {"send", "close"} /\ s \in Stage \ {"idle"}
    BY DEF Stage
  <2> HIDE DEF q, old, s
  <2>7. fork' = [fork EXCEPT !.group = [x \in Operator |-> IF @[x] = w THEN 0 ELSE @[x]],
                             !.share = [x \in Operator |-> IF fork.group[x] = w THEN 0 ELSE @[x]]]
    BY <2>5 DEF Effects, GroupKind
  <2>8. /\ fork'.group = [x \in Operator |-> IF fork.group[x] = w THEN 0 ELSE fork.group[x]]
        /\ fork'.groups = begin.groups
    BY <1>1, <1>3, <2>7 DEF Fork
  <2>9. q(w).todo # {} /\ NewGroup \in q(w).todo /\ q(w).todo \subseteq old \cup {NewGroup}
    BY <1>3, <1>4, <2>5
  <2>10. \A z \in Operator : fork'.group[z] = IF begin.group[z] \in old \ q(w).todo THEN 0 ELSE begin.group[z]
    <3> SUFFICES ASSUME NEW z \in Operator
                 PROVE  fork'.group[z] = IF begin.group[z] \in old \ q(w).todo THEN 0 ELSE begin.group[z]
      OBVIOUS
    <3>1. fork'.group[z] = IF fork.group[z] = w THEN 0 ELSE fork.group[z]
      BY <2>8
    <3>2. CASE begin.group[z] = w
      <4>1. begin.group[z] \notin old \ r.todo /\ begin.group[z] \in old \ q(w).todo
        BY <1>4, <2>5, <3>2
      <4> QED
        BY <1>3, <3>1, <3>2, <4>1
    <3>3. CASE begin.group[z] # w
      <4>1. begin.group[z] \in old \ r.todo <=> begin.group[z] \in old \ q(w).todo
        BY <1>4, <3>3
      <4> QED
        BY <1>3, <2>5, <3>1, <3>3, <4>1
    <3> QED
      BY <3>2, <3>3
  <2>11. InCreate(s, q(w), begin, fork')
    BY <1>4, <2>6, <2>8, <2>9, <2>10 DEF InCreate, old
  <2>12. Sane(s, q(w), begin, fork')
    BY <1>5, <2>11
  <2>13. q(w).as \in impersonated' /\ q(w) \in Run
    BY <1>4, <2>5, SoloParts DEF Bracketed
  <2> QED
    BY <2>5, <2>6, <2>12, <2>13, ProperAdvance
<1>7. CASE r.todo = {NewGroup}
  <2>1. Least(r.todo) = NewGroup
    BY <1>7, LeastOne, KeyRecipesAssumption DEF NewGroup
  <2>2. \A z \in Operator : fork.group[z] = IF begin.group[z] \in old THEN 0 ELSE begin.group[z]
    <3>1. old \ r.todo = old
      BY <1>2, <1>7, KeyRecipesAssumption DEF NewGroup
    <3> QED
      BY <1>3, <3>1
  <2>3. CASE Send(p)
    <3> DEFINE z == q(NewGroup)
    <3>1. fork' \in Effects(fork, r, NewGroup)
      BY <1>7, <2>1, <2>3, SendsLeast
    <3>2. Does(begin, fork', j, r.n)
      BY <1>1, <2>2, <3>1, GroupsMade
    <3>3. z \in Run /\ z.todo = {} /\ z.n = r.n /\ z.job = j
      BY <1>4, <1>7
    <3>4. Sane("close", z, begin, fork')
      <4> HIDE DEF q
      <4> QED
        BY <1>5, <3>2, <3>3 DEF InCreate
    <3>5. z = [r EXCEPT !.todo = @ \ {Least(r.todo)}]
      BY <2>1
    <3> HIDE DEF z
    <3> QED
      BY <1>7, <2>3, <3>3, <3>4, <3>5, WriteProper
  <2>4. CASE SendFails(p)
    <3>1. /\ ~Accepts(fork, r, NewGroup) \/ Doubtful(fork, r)
          /\ Throw(p, FALSE) /\ begin' = begin
      BY <1>7, <2>1, <2>4, LeastFailsFor
    <3>2. \A x \in j.named : fork.group[x] = 0
      <4> SUFFICES ASSUME NEW x \in j.named PROVE fork.group[x] = 0
        OBVIOUS
      <4>1. x \in Operator
        BY <1>1 DEF Job
      <4>2. begin.group[x] \in old \/ begin.group[x] = 0
        BY DEF GroupsOf, Joined
      <4> QED
        BY <2>2, <4>1, <4>2
    <3>3. Doubtful(fork, r) => \E x \in j.named : j.shares[x] = 0
      BY DEF Doubtful
    <3>4. ~Accepts(fork, r, NewGroup) => ~(fork.groups < MaxGroup) \/ j.twice
      BY <3>2 DEF Accepts, VerifierKind, GroupKind
    <3>5. ~(fork.groups < MaxGroup) => begin.groups = MaxGroup
      BY <1>1, <1>3, KeyRecipesAssumption
    <3>6. Refused(begin, j)
      BY <3>1, <3>3, <3>4, <3>5 DEF Refused, VerifierKind
    <3> QED
      BY <3>1, <3>6, ProperThrow
  <2> QED
    BY <1>1, <2>3, <2>4, StepAt
<1> QED
  BY <1>6, <1>7

LEMMA CreateProper ==
  ASSUME KInv, NEW p \in Client, Solitary(p), Step(p), ~disturbed', ~run[p].failed,
         run[p].job.kind = "create-operator-group"
  PROVE  Proper(p)
<1> DEFINE r == run[p]
           j == r.job
           old == GroupsOf(begin, Joined(j))
<1>0. solo = p /\ r \in Run /\ fork \in Fork /\ begin \in Fork /\ j \in Job
      /\ \A z \in Operator : begin.group[z] \in Nat
  BY SoloParts, KeyRecipesAssumption DEF Solitary, Fork
<1>1. InCreate(pc[p], r, begin, fork)
  BY SoloParts DEF Sane
<1>2. \A s, q, g : q.job = j /\ ~q.failed /\ InCreate(s, q, begin, g) => Sane(s, q, begin, g)
  BY DEF Sane, OneWrite, OfBond
<1>3. \A s \in {"groups", "open"} : s \in Stage \ {"idle"} /\ s \notin Bracketed
  BY DEF Stage, Bracketed
<1>4. CASE pc[p] = "groups"
  <2>1. ReadGroup(p) /\ Reads /\ fork = begin /\ r.unread \subseteq Joined(j)
        /\ r.todo = {NewGroup} \cup GroupsOf(begin, Joined(j) \ r.unread)
    BY <1>0, <1>1, <1>4, StepAt, Zenon DEF ReadGroup, InCreate
  <2>2. PICK o \in r.unread :
          Advance(p, [r EXCEPT !.unread = @ \ {o}, !.todo = @ \cup ({fork.group[o]} \ {0})],
                  IF r.unread = {o} THEN "open" ELSE "groups")
    BY <2>1, Zenon DEF ReadGroup
  <2> DEFINE q == [r EXCEPT !.unread = @ \ {o}, !.todo = @ \cup ({fork.group[o]} \ {0})]
  <2>3. o \in Joined(j) /\ o \in Operator
    BY <1>0, <2>1 DEF Joined, Job
  <2>4. q \in Run /\ q.job = j /\ ~q.failed /\ q.unread = r.unread \ {o}
        /\ q.todo = r.todo \cup ({begin.group[o]} \ {0})
    <3>1. {fork.group[o]} \ {0} \subseteq Nat
      BY <1>0, <2>1, <2>3
    <3> QED
      BY <1>0, <2>1, <3>1 DEF Run
  <2>5. q.todo = {NewGroup} \cup GroupsOf(begin, Joined(j) \ q.unread)
    <3>1. GroupsOf(begin, Joined(j) \ q.unread) =
            GroupsOf(begin, Joined(j) \ r.unread) \cup ({begin.group[o]} \ {0})
      BY <2>1, <2>3, <2>4 DEF GroupsOf
    <3> QED
      BY <2>1, <2>4, <3>1
  <2> HIDE DEF q
  <2>6. CASE r.unread = {o}
    <3>1. q.todo = {NewGroup} \cup old
      <4>1. q.unread = {}
        BY <2>4, <2>6
      <4>2. Joined(j) \ q.unread = Joined(j)
        BY <4>1
      <4> QED
        BY <2>5, <4>2
    <3>2. q.todo # {} /\ NewGroup \in q.todo /\ q.todo \subseteq old \cup {NewGroup} /\ old \ q.todo = {}
      BY <3>1
    <3>3. InCreate("open", q, begin, fork)
      BY <2>1, <2>4, <3>2 DEF InCreate
    <3> QED
      BY <1>2, <1>3, <2>1, <2>2, <2>4, <2>6, <3>3, ReadGoes DEF q
  <2>7. CASE r.unread # {o}
    <3>1. InCreate("groups", q, begin, fork)
      BY <2>1, <2>4, <2>5 DEF InCreate
    <3> QED
      BY <1>2, <1>3, <2>1, <2>2, <2>4, <2>7, <3>1, ReadGoes DEF q
  <2> QED
    BY <2>6, <2>7
<1>5. CASE pc[p] = "open"
  <2>1. Open(p)
    BY <1>0, <1>5, StepAt
  <2> DEFINE q == [r EXCEPT !.as = Signer(r)]
  <2>2. q.job = j /\ q.todo = r.todo /\ ~q.failed
    BY <1>0 DEF Run
  <2> HIDE DEF q
  <2>3. Sane("send", q, begin, fork)
    BY <1>1, <1>2, <1>5, <2>2 DEF InCreate
  <2> QED
    BY <2>1, <2>3, OpenGoes DEF q
<1>6. CASE pc[p] = "close"
  <2>1. Close(p)
    BY <1>0, <1>6, StepAt
  <2>2. Advance(p, r, AfterWrites(r)) /\ begin' = begin /\ fork' = fork
    BY <2>1, CloseGoes
  <2>3. CASE r.todo # {}
    <3>1. AfterWrites(r) = "open"
      BY <2>3 DEF AfterWrites
    <3>2. Sane("open", r, begin, fork')
      BY <1>1, <1>2, <1>6, <2>2, <2>3 DEF InCreate
    <3> QED
      BY <1>0, <1>3, <2>2, <3>1, <3>2, ProperAdvance
  <2>4. CASE r.todo = {}
    <3>1. AfterWrites(r) = "idle" /\ Does(begin, fork', j, r.n)
      BY <1>1, <1>6, <2>2, <2>4 DEF AfterWrites, InCreate
    <3> QED
      BY <1>0, <2>2, <3>1, ProperDone
  <2> QED
    BY <2>3, <2>4
<1>7. pc[p] \in {"groups", "open", "send", "close"}
  BY <1>1 DEF InCreate
<1> QED
  BY <1>4, <1>5, <1>6, <1>7, CreateSends

LEMMA Pair ==
  ASSUME NEW S, NEW b, NEW x, x \in S \X {b}
  PROVE  x = <<x[1], b>>
<1>1. x = <<x[1], x[2]>> /\ x[2] \in {b}
  OBVIOUS
<1>2. x[2] = b
  BY <1>1
<1> QED
  BY <1>1, <1>2

\* The queue of an operator's keys.
LEMMA QueueOf ==
  ASSUME NEW f \in Fork, NEW o \in Operator
  PROVE  /\ \A i : i \in QueuedOf(f, o) <=> i \in DepositedOf(f, o) /\ f.allocated[<<o, i>>] = 0
                                              /\ <<o, i>> \notin f.withdrawn
         /\ \A k \in Key : k[1] = o => (k \in Queued(f) <=> k[2] \in QueuedOf(f, o))
         /\ QueuedOf(f, o) \subseteq Index /\ DepositedOf(f, o) \subseteq Index
         /\ \A i \in Index : i \in DepositedOf(f, o) <=> <<o, i>> \in Deposited(f)
<1>1. f.deposited[o] \in 0 .. MaxKeys
  BY DEF Fork, Counts
<1>2. \A i \in Index : <<o, i>> \in Key /\ <<o, i>>[1] = o /\ <<o, i>>[2] = i
  BY DEF Key
<1>3. \A i : i \in DepositedOf(f, o) <=> i \in Index /\ i < f.deposited[o]
  BY <1>1, KeyRecipesAssumption DEF DepositedOf, Index
<1>4. \A i \in Index : i \in DepositedOf(f, o) <=> <<o, i>> \in Deposited(f)
  BY <1>2, <1>3 DEF Deposited
<1>5. \A i \in Index : <<o, i>> \in Queued(f) <=> /\ <<o, i>> \in Deposited(f)
                                                  /\ <<o, i>> \notin f.withdrawn
                                                  /\ f.allocated[<<o, i>>] = 0
  BY DEF Queued
<1>6. \A k \in Key : k[2] \in Index /\ k = <<k[1], k[2]>>
  BY DEF Key
<1> QED
  BY <1>3, <1>4, <1>5, <1>6 DEF QueuedOf

\* top-up-active-keys: topped up in the order of the queue.
LEMMA TopUpSends ==
  ASSUME KInv, NEW p \in Client, Solitary(p), Step(p), ~disturbed', ~run[p].failed,
         run[p].job.kind = "top-up-active-keys", pc[p] = "send"
  PROVE  Proper(p)
<1> DEFINE r == run[p]
           j == r.job
           o == j.o
           w == Least(r.todo)
           q == [r EXCEPT !.todo = @ \ {w}]
           Q == QueuedOf(begin, o)
           upTo(T) == [begin EXCEPT !.allocated =
                         [k \in Key |-> IF k[1] = o /\ k[2] \in Q \ T THEN Cap ELSE begin.allocated[k]]]
<1>1. /\ solo = p /\ r \in Run /\ o \in Operator /\ begin \in Fork /\ fork \in Fork
      /\ Consistent(begin)
  BY SoloParts DEF Solitary
<1>2. /\ r.todo # {} /\ r.todo \subseteq Q
      /\ \A h \in Q \ r.todo, i \in r.todo : h < i
      /\ fork = upTo(r.todo)
  <2>1. InTopUp(pc[p], r, begin, fork)
    BY SoloParts DEF Sane
  <2> QED
    BY <2>1 DEF InTopUp
<1>3. q \in Run /\ q.job = j /\ ~q.failed /\ q.todo = r.todo \ {w} /\ q.n = r.n
      /\ w \in r.todo /\ \A m \in r.todo : w <= m
  BY <1>2, WriteLeaves
<1> HIDE DEF q, w
<1>4. w \in Q /\ w \in Index /\ <<o, w>> \in Key /\ <<o, w>> \in Queued(begin) /\ Q \subseteq Index
  BY <1>1, <1>2, <1>3, QueueOf DEF Key
<1>5. /\ fork.withdrawn = begin.withdrawn /\ Deposited(fork) = Deposited(begin)
      /\ fork.turn = begin.turn /\ fork.module = begin.module
      /\ \A k \in Key : fork.allocated[k] = IF k[1] = o /\ k[2] \in Q \ r.todo THEN Cap
                                            ELSE begin.allocated[k]
  <2>1. fork.deposited = begin.deposited
    BY <1>1, <1>2, Zenon DEF Fork
  <2> QED
    BY <1>1, <1>2, <2>1, Zenon DEF Fork, Deposited
<1>6. Queued(fork) \subseteq Queued(begin)
      /\ \A k \in Queued(fork) : k[1] = o => k[2] \in r.todo
  <2> SUFFICES ASSUME NEW k \in Queued(fork)
               PROVE  k \in Queued(begin) /\ (k[1] = o => k[2] \in r.todo)
    OBVIOUS
  <2>1. k \in Key /\ k \in Deposited(begin) /\ k \notin begin.withdrawn /\ fork.allocated[k] = 0
    BY <1>5 DEF Queued, Deposited
  <2>2. ~(k[1] = o /\ k[2] \in Q \ r.todo) /\ begin.allocated[k] = 0
    BY <1>5, <2>1 DEF Cap
  <2>3. k \in Queued(begin)
    BY <2>1, <2>2 DEF Queued
  <2> QED
    BY <1>1, <2>1, <2>2, <2>3, QueueOf
<1>7. <<o, w>> \in Queued(fork)
  <2>1. fork.allocated[<<o, w>>] = begin.allocated[<<o, w>>]
    BY <1>3, <1>4, <1>5
  <2> QED
    BY <1>4, <1>5, <2>1 DEF Queued
<1>8. CASE Send(p)
  <2>1. fork' \in Effects(fork, r, w)
    BY <1>8, SendsLeast DEF w
  <2>2. fork' = [fork EXCEPT !.allocated[<<o, w>>] = Cap]
    BY <2>1 DEF Effects, GroupKind
  <2>3. fork' = upTo(q.todo)
    <3>1. [fork.allocated EXCEPT ![<<o, w>>] = Cap] =
            [k \in Key |-> IF k[1] = o /\ k[2] \in Q \ q.todo THEN Cap ELSE begin.allocated[k]]
      <4>1. fork.allocated \in [Key -> 0 .. Cap]
        BY <1>1 DEF Fork
      <4>2. \A k \in Key : [fork.allocated EXCEPT ![<<o, w>>] = Cap][k] =
              IF k[1] = o /\ k[2] \in Q \ q.todo THEN Cap ELSE begin.allocated[k]
        <5> SUFFICES ASSUME NEW k \in Key
                     PROVE  [fork.allocated EXCEPT ![<<o, w>>] = Cap][k] =
                              IF k[1] = o /\ k[2] \in Q \ q.todo THEN Cap ELSE begin.allocated[k]
          OBVIOUS
        <5>1. CASE k = <<o, w>>
          BY <1>3, <1>4, <4>1, <5>1
        <5>2. CASE k # <<o, w>>
          <6>1. [fork.allocated EXCEPT ![<<o, w>>] = Cap][k] = fork.allocated[k]
            BY <4>1, <5>2
          <6>2. k[1] = o => k[2] # w
            BY <5>2 DEF Key
          <6> QED
            BY <1>3, <1>5, <6>1, <6>2
        <5> QED
          BY <5>1, <5>2
      <4> QED
        BY <4>1, <4>2
    <3>2. fork' = [fork EXCEPT !.allocated = [fork.allocated EXCEPT ![<<o, w>>] = Cap]]
      BY <2>2, Zenon
    <3>3. fork' = [fork EXCEPT !.allocated =
                     [k \in Key |-> IF k[1] = o /\ k[2] \in Q \ q.todo THEN Cap ELSE begin.allocated[k]]]
      BY <3>1, <3>2
    <3> QED
      BY <1>1, <1>2, <3>3, Zenon DEF Fork
  <2>4. q.todo \subseteq Q /\ \A h \in Q \ q.todo, i \in q.todo : h < i
    <3>1. \A i \in q.todo : w < i
      <4>1. \A i \in Q : i \in Nat
        BY <1>4, KeyRecipesAssumption DEF Index
      <4> QED
        BY <1>2, <1>3, <4>1
    <3> QED
      BY <1>2, <1>3, <3>1
  <2>5. InTopUp("close", q, begin, fork') /\ (q.todo # {} => InTopUp("send", q, begin, fork'))
    BY <1>3, <2>3, <2>4 DEF InTopUp
  <2>6. Sane("close", q, begin, fork') /\ (q.todo # {} => Sane("send", q, begin, fork'))
    BY <1>3, <2>5 DEF Sane, OneWrite, OfBond
  <2> QED
    BY <1>3, <1>8, <2>6, WriteProper DEF q, w
<1>9. CASE SendFails(p)
  <2>1. ~Accepts(fork, r, w) /\ Throw(p, FALSE) /\ begin' = begin
    <3>1. ~Doubtful(fork, r)
      BY DEF Doubtful
    <3> QED
      BY <1>9, <3>1, LeastFailsFor DEF w
  <2>2. <<o, w>> \in Deposited(fork) \ fork.withdrawn
    BY <1>7 DEF Queued
  <2>3. fork.module = "csm02" /\ ~IsHead(fork, <<o, w>>)
    BY <2>1, <2>2 DEF Accepts, GroupKind, VerifierKind
  <2>4. PICK k \in Queued(fork) : ~(fork.turn[<<o, w>>] <= fork.turn[k])
    BY <1>7, <2>3 DEF IsHead
  <2>5. k \in Key /\ begin.turn[k] < begin.turn[<<o, w>>] /\ k \in Queued(begin)
    <3>1. k \in Key
      BY <2>4 DEF Queued, Deposited
    <3>2. begin.turn[k] \in Nat /\ begin.turn[<<o, w>>] \in Nat
      BY <1>1, <1>4, <3>1 DEF Fork
    <3> QED
      BY <1>5, <1>6, <2>4, <3>1, <3>2
  <2>6. k[1] # o
    <3> SUFFICES ASSUME k[1] = o PROVE FALSE
      OBVIOUS
    <3>1. k[2] \in r.todo /\ k[2] \in Index /\ k = <<o, k[2]>>
      BY <1>6, <2>4, <2>5 DEF Key
    <3>2. w <= k[2] /\ w # k[2]
      <4>1. begin.turn[<<o, w>>] \in Nat
        BY <1>1, <1>4 DEF Fork
      <4> QED
        BY <1>3, <2>5, <3>1, <4>1
    <3>3. w < k[2]
      BY <1>4, <3>1, <3>2, KeyRecipesAssumption DEF Index
    <3>4. k[2] < begin.deposited[o]
      BY <2>5 DEF Queued, Deposited
    <3>5. begin.turn[<<o, w>>] < begin.turn[k]
      BY <1>1, <1>4, <3>1, <3>3, <3>4 DEF Consistent
    <3>6. begin.turn[k] \in Nat /\ begin.turn[<<o, w>>] \in Nat
      BY <1>1, <1>4, <2>5 DEF Fork
    <3> QED
      BY <2>5, <3>5, <3>6
  <2>7. Refused(begin, j)
    <3>1. begin.module = "csm02" /\ \E h, i \in Queued(begin) : h[1] # o /\ i[1] = o /\ begin.turn[h] < begin.turn[i]
      BY <1>4, <1>5, <2>3, <2>5, <2>6
    <3> QED
      BY <3>1 DEF Refused, VerifierKind
  <2> QED
    BY <2>1, <2>7, ProperThrow
<1> QED
  BY <1>1, <1>8, <1>9, StepAt

LEMMA TopUpDoes ==
  ASSUME NEW f \in Fork, NEW j \in Job, j.kind = "top-up-active-keys", NEW g, NEW n,
         g = [f EXCEPT !.allocated =
                [k \in Key |-> IF k[1] = j.o /\ k[2] \in QueuedOf(f, j.o) THEN Cap ELSE f.allocated[k]]]
  PROVE  Does(f, g, j, n)
<1>1. j.o \in Operator
  BY DEF Job
<1>2. [k \in Key |-> IF k[1] = j.o /\ k[2] \in QueuedOf(f, j.o) THEN Cap ELSE f.allocated[k]] =
        [k \in Key |-> IF k[1] = j.o /\ k \in Queued(f) THEN Cap ELSE f.allocated[k]]
  BY <1>1, QueueOf
<1>3. g = [f EXCEPT !.allocated =
             [k \in Key |-> IF k[1] = j.o /\ k \in Queued(f) THEN Cap ELSE @[k]]]
  BY <1>2
<1> QED
  BY <1>3 DEF Does

LEMMA TopUpProper ==
  ASSUME KInv, NEW p \in Client, Solitary(p), Step(p), ~disturbed', ~run[p].failed,
         run[p].job.kind = "top-up-active-keys"
  PROVE  Proper(p)
<1> DEFINE r == run[p]
           j == r.job
           o == j.o
           all == DepositedOf(begin, o)
           Q == QueuedOf(begin, o)
<1>0. /\ solo = p /\ r \in Run /\ fork \in Fork /\ begin \in Fork /\ j \in Job /\ o \in Operator
      /\ begin.deposited[o] \in Nat /\ all \subseteq Index /\ Index \subseteq Nat
  <2>1. begin \in Fork /\ o \in Operator
    BY SoloParts
  <2>2. all \subseteq Index
    BY <2>1, QueueOf
  <2> QED
    BY <2>1, <2>2, SoloParts, KeyRecipesAssumption DEF Solitary, Fork, Counts, Index
<1>1. InTopUp(pc[p], r, begin, fork)
  BY SoloParts DEF Sane
<1>2. \A s, q, g : q.job = j /\ ~q.failed /\ InTopUp(s, q, begin, g) => Sane(s, q, begin, g)
  BY DEF Sane, OneWrite, OfBond
<1>3. \A s \in {"operator", "allocated", "keys", "open"} : s \in Stage \ {"idle"} /\ s \notin Bracketed
  BY DEF Stage, Bracketed
<1>4. CASE pc[p] = "operator"
  <2> DEFINE q == [r EXCEPT !.keep = 0 .. begin.deposited[o] - 1,
                            !.unread = (0 .. begin.deposited[o] - 1) \X {TRUE}]
  <2>1. ReadOperator(p) /\ Reads /\ fork = begin
    BY <1>0, <1>1, <1>4, StepAt, Zenon DEF ReadOperator, InTopUp
  <2>2. CASE begin.deposited[o] = 0
    <3>1. Throw(p, FALSE)
      BY <2>1, <2>2 DEF ReadOperator, ManagerKind
    <3>2. Refused(begin, j)
      BY <2>2 DEF Refused, VerifierKind
    <3> QED
      BY <2>1, <3>1, <3>2, ReadThrows
  <2>3. CASE begin.deposited[o] # 0
    <3>1. Advance(p, q, "allocated")
      <4>1. (0 .. begin.deposited[o] - 1) \X {j.kind = "top-up-active-keys"} =
              (0 .. begin.deposited[o] - 1) \X {TRUE}
        OBVIOUS
      <4>2. Advance(p, [r EXCEPT !.keep = 0 .. begin.deposited[o] - 1,
                                 !.unread = (0 .. begin.deposited[o] - 1) \X {j.kind = "top-up-active-keys"}],
                    IF j.kind = "activate-keys" THEN "keys" ELSE "allocated")
        BY <2>1, <2>3 DEF ReadOperator, ManagerKind
      <4> QED
        BY <4>1, <4>2
    <3>2. q \in Run /\ q.job = j /\ ~q.failed /\ q.keep = all /\ q.unread = all \X {TRUE}
      <4>1. all \subseteq Nat /\ all \X {TRUE} \subseteq Operator \cup (Index \X BOOLEAN)
        BY <1>0
      <4> QED
        BY <1>0, <4>1 DEF Run, DepositedOf
    <3> HIDE DEF q
    <3>3. Sane("allocated", q, begin, fork)
      BY <1>2, <2>1, <3>2 DEF InTopUp
    <3> QED
      BY <1>3, <2>1, <3>1, <3>2, <3>3, ReadGoes
  <2> QED
    BY <2>2, <2>3
<1>5. CASE pc[p] = "allocated"
  <2> DEFINE q == [r EXCEPT !.keep = {i \in @ : fork.allocated[<<r.job.o, i>>] = 0}]
  <2>1. ReadAllocated(p) /\ Reads /\ Advance(p, q, "keys") /\ fork = begin
        /\ r.keep = all /\ r.unread = all \X {TRUE}
    BY <1>0, <1>1, <1>5, StepAt DEF ReadAllocated, InTopUp
  <2>2. q \in Run /\ q.job = j /\ ~q.failed /\ q.unread = r.unread
        /\ q.keep = {i \in all : begin.allocated[<<o, i>>] = 0}
    <3>1. q = [r EXCEPT !.keep = {i \in all : begin.allocated[<<o, i>>] = 0}]
      BY <2>1
    <3>2. {i \in all : begin.allocated[<<o, i>>] = 0} \subseteq Nat
      BY <1>0
    <3> HIDE DEF q
    <3> QED
      BY <1>0, <3>1, <3>2 DEF Run
  <2> HIDE DEF q
  <2>3. q.keep = {i \in all : /\ begin.allocated[<<o, i>>] = 0
                              /\ <<i, TRUE>> \in q.unread \/ <<o, i>> \notin begin.withdrawn}
    BY <2>1, <2>2
  <2>4. InTopUp("keys", q, begin, fork)
    BY <2>1, <2>2, <2>3, Zenon DEF InTopUp
  <2> QED
    BY <1>2, <1>3, <2>1, <2>2, <2>4, ReadGoes
<1>6. CASE pc[p] = "keys"
  <2>1. ReadKey(p) /\ Reads /\ fork = begin /\ r.unread \subseteq all \X {TRUE}
        /\ r.keep = {i \in all : /\ begin.allocated[<<o, i>>] = 0
                                 /\ <<i, TRUE>> \in r.unread \/ <<o, i>> \notin begin.withdrawn}
    BY <1>0, <1>1, <1>6, StepAt, Zenon DEF ReadKey, InTopUp
  <2>2. PICK x \in r.unread :
          LET key == <<o, x[1]>>
              q == IF x[2]
                   THEN [r EXCEPT !.unread = @ \ {x},
                                  !.keep = IF key \in fork.withdrawn THEN @ \ {x[1]} ELSE @]
                   ELSE [r EXCEPT !.unread = (@ \ {x}) \cup {<<x[1], TRUE>>},
                                  !.keep = IF key \in fork.confirmed THEN @ \ {x[1]} ELSE @]
          IN CASE q.unread # {} -> Advance(p, q, "keys")
               [] q.unread = {} /\ q.job.kind = "top-up-active-keys" ->
                    Advance(p, [q EXCEPT !.todo = q.keep], IF q.keep = {} THEN "idle" ELSE "open")
               [] OTHER -> IF Cardinality(q.keep) < q.n THEN Throw(p, FALSE)
                           ELSE Advance(p, [q EXCEPT !.todo = FirstOf(q.keep, q.n)], "open")
    BY <2>1, Zenon DEF ReadKey
  <2> DEFINE q == [r EXCEPT !.unread = @ \ {x},
                            !.keep = IF <<o, x[1]>> \in begin.withdrawn THEN @ \ {x[1]} ELSE @]
             t == [q EXCEPT !.todo = q.keep]
  <2>3. x[2] = TRUE /\ x = <<x[1], TRUE>> /\ x[1] \in all
    <3>1. x \in all \X {TRUE}
      BY <2>1
    <3>2. x[2] = TRUE
      BY <3>1
    <3>3. x = <<x[1], TRUE>>
      BY <3>1, Pair
    <3>4. x[1] \in all
      BY <3>1
    <3> QED
      BY <3>2, <3>3, <3>4
  <2>4. q \in Run /\ q.job = j /\ ~q.failed /\ q.unread = r.unread \ {x}
        /\ q.keep = IF <<o, x[1]>> \in begin.withdrawn THEN r.keep \ {x[1]} ELSE r.keep
    BY <1>0 DEF Run
  <2>5. t \in Run /\ t.job = j /\ ~t.failed /\ t.todo = q.keep
    BY <1>0 DEF Run
  <2>6. (CASE q.unread # {} -> Advance(p, q, "keys")
           [] q.unread = {} /\ q.job.kind = "top-up-active-keys" ->
               Advance(p, t, IF q.keep = {} THEN "idle" ELSE "open")
           [] OTHER -> IF Cardinality(q.keep) < q.n THEN Throw(p, FALSE)
                       ELSE Advance(p, [q EXCEPT !.todo = FirstOf(q.keep, q.n)], "open"))
    BY <2>1, <2>2, <2>3, Zenon
  <2> HIDE DEF q
  <2>7. q.keep = {i \in all : /\ begin.allocated[<<o, i>>] = 0
                              /\ <<i, TRUE>> \in q.unread \/ <<o, i>> \notin begin.withdrawn}
    <3>1. \A i \in all : <<i, TRUE>> \in q.unread <=> <<i, TRUE>> \in r.unread /\ i # x[1]
      <4>1. \A i : <<i, TRUE>> = x <=> i = x[1]
        <5>1. \A i : <<i, TRUE>> = <<x[1], TRUE>> <=> i = x[1]
          OBVIOUS
        <5> QED
          BY <2>3, <5>1, Zenon
      <4> QED
        BY <2>4, <4>1
    <3>2. x \in r.unread
      OBVIOUS
    <3>3. \A i \in all : i \in q.keep <=> /\ begin.allocated[<<o, i>>] = 0
                                          /\ <<i, TRUE>> \in q.unread \/ <<o, i>> \notin begin.withdrawn
      BY <2>1, <2>3, <2>4, <3>1, <3>2, Zenon
    <3>4. q.keep \subseteq all
      BY <2>1, <2>4
    <3> QED
      BY <3>3, <3>4
  <2>8. CASE q.unread # {}
    <3>1. Advance(p, q, "keys")
      BY <2>6, <2>8
    <3>2. InTopUp("keys", q, begin, fork)
      BY <2>1, <2>4, <2>7 DEF InTopUp
    <3> QED
      BY <1>2, <1>3, <2>1, <2>4, <3>1, <3>2, ReadGoes
  <2>9. CASE q.unread = {}
    <3>1. q.keep = Q
      <4>1. \A i : i \in q.keep <=> i \in Q
        BY <1>0, <2>7, <2>9, QueueOf
      <4> QED
        BY <4>1
    <3>2. Advance(p, t, IF q.keep = {} THEN "idle" ELSE "open")
      BY <2>4, <2>6, <2>9
    <3> HIDE DEF t
    <3>3. CASE Q = {}
      <4>1. begin = [begin EXCEPT !.allocated =
                       [k \in Key |-> IF k[1] = o /\ k[2] \in Q THEN Cap ELSE begin.allocated[k]]]
        <5>1. begin.allocated = [k \in Key |-> IF k[1] = o /\ k[2] \in Q THEN Cap ELSE begin.allocated[k]]
          BY <1>0, <3>3 DEF Fork
        <5> QED
          BY <1>0, <5>1 DEF Fork
      <4>2. Does(begin, begin, j, r.n)
        BY <1>0, <4>1, TopUpDoes
      <4>3. Advance(p, t, "idle") /\ fork' = begin
        BY <2>1, <3>1, <3>2, <3>3 DEF Reads
      <4> QED
        BY <2>5, <4>2, <4>3, ProperDone
    <3>4. CASE Q # {}
      <4>1. Advance(p, t, "open")
        BY <3>1, <3>2, <3>4
      <4>2. fork = [begin EXCEPT !.allocated =
                      [k \in Key |-> IF k[1] = o /\ k[2] \in Q \ t.todo THEN Cap ELSE begin.allocated[k]]]
        <5>1. begin.allocated = [k \in Key |-> IF k[1] = o /\ k[2] \in Q \ t.todo THEN Cap
                                               ELSE begin.allocated[k]]
          BY <1>0, <2>5, <3>1 DEF Fork
        <5> QED
          BY <1>0, <2>1, <5>1 DEF Fork
      <4>3. t.todo = Q
        BY <2>5, <3>1
      <4>4. InTopUp("open", t, begin, fork)
        BY <2>5, <3>4, <4>2, <4>3 DEF InTopUp
      <4> QED
        BY <1>2, <1>3, <2>1, <2>5, <4>1, <4>4, ReadGoes
    <3> QED
      BY <3>3, <3>4
  <2> QED
    BY <2>8, <2>9
<1>7. CASE pc[p] = "open"
  <2>1. Open(p)
    BY <1>0, <1>7, StepAt
  <2> DEFINE q == [r EXCEPT !.as = Signer(r)]
  <2>2. q.job = j /\ q.todo = r.todo /\ ~q.failed
    BY <1>0 DEF Run
  <2> HIDE DEF q
  <2>3. /\ r.todo # {} /\ r.todo \subseteq Q
        /\ \A h \in Q \ r.todo, i \in r.todo : h < i
        /\ fork = [begin EXCEPT !.allocated =
                     [k \in Key |-> IF k[1] = o /\ k[2] \in Q \ r.todo THEN Cap ELSE begin.allocated[k]]]
    BY <1>1, <1>7 DEF InTopUp
  <2>4. InTopUp("send", q, begin, fork)
    BY <2>2, <2>3 DEF InTopUp
  <2>5. Sane("send", q, begin, fork)
    BY <1>2, <2>2, <2>4
  <2> QED
    BY <2>1, <2>5, OpenGoes DEF q
<1>8. CASE pc[p] = "close"
  <2>1. Close(p)
    BY <1>0, <1>8, StepAt
  <2>2. Advance(p, r, AfterWrites(r)) /\ begin' = begin /\ fork' = fork
    BY <2>1, CloseGoes
  <2>3. CASE r.todo # {}
    <3>1. AfterWrites(r) = "open"
      BY <2>3 DEF AfterWrites
    <3>2. Sane("open", r, begin, fork')
      BY <1>1, <1>2, <1>8, <2>2, <2>3 DEF InTopUp
    <3> QED
      BY <1>0, <1>3, <2>2, <3>1, <3>2, ProperAdvance
  <2>4. CASE r.todo = {}
    <3>1. AfterWrites(r) = "idle"
      BY <2>4 DEF AfterWrites
    <3>2. fork = [begin EXCEPT !.allocated =
                    [k \in Key |-> IF k[1] = o /\ k[2] \in Q THEN Cap ELSE begin.allocated[k]]]
      <4>1. Q \ r.todo = Q
        BY <2>4
      <4>2. fork = [begin EXCEPT !.allocated =
                      [k \in Key |-> IF k[1] = o /\ k[2] \in Q \ r.todo THEN Cap ELSE begin.allocated[k]]]
        BY <1>1, <1>8 DEF InTopUp
      <4> QED
        BY <4>1, <4>2
    <3>3. Does(begin, fork', j, r.n)
      BY <1>0, <2>2, <3>2, TopUpDoes
    <3> QED
      BY <1>0, <2>2, <3>1, <3>3, ProperDone
  <2> QED
    BY <2>3, <2>4
<1>9. pc[p] \in {"operator", "allocated", "keys", "open", "send", "close"}
  BY <1>1 DEF InTopUp
<1> QED
  BY <1>4, <1>5, <1>6, <1>7, <1>8, <1>9, TopUpSends

\* The keys of an operator that can be activated, and those that are.
LEMMA EligibleOf ==
  ASSUME NEW f \in Fork, NEW o \in Operator
  PROVE  /\ Eligible(f, o) \in SUBSET Nat /\ Eligible(f, o) \subseteq Index
         /\ IsFiniteSet(Eligible(f, o)) /\ Cardinality(Eligible(f, o)) \in Nat
         /\ \A i : i \in Eligible(f, o) <=> i \in DepositedOf(f, o) /\ <<o, i>> \notin f.confirmed
                                              /\ <<o, i>> \notin f.withdrawn
<1>1. Index \subseteq Nat /\ IsFiniteSet(Index)
  BY KeyRecipesAssumption, FS_Interval DEF Index
<1>2. Eligible(f, o) \subseteq Index
  BY DEF Eligible
<1>3. IsFiniteSet(Eligible(f, o))
  BY <1>1, <1>2, FS_Subset
<1>4. \A i : i \in Eligible(f, o) <=> i \in DepositedOf(f, o) /\ <<o, i>> \notin f.confirmed
                                      /\ <<o, i>> \notin f.withdrawn
  BY QueueOf DEF Eligible
<1> QED
  BY <1>1, <1>2, <1>3, <1>4, FS_CardinalityType

Taken(j, f) == FirstOf(Eligible(f, j.o), j.n)
LEMMA TakenAre ==
  ASSUME NEW f \in Fork, NEW j \in Job, Cardinality(Eligible(f, j.o)) >= j.n
  PROVE  /\ Taken(j, f) \subseteq Eligible(f, j.o) /\ Cardinality(Taken(j, f)) = j.n
         /\ \A i \in Taken(j, f), h \in Eligible(f, j.o) \ Taken(j, f) : i < h
<1>1. j.o \in Operator /\ j.n \in Nat
  BY KeyRecipesAssumption DEF Job
<1>2. j.n <= Cardinality(Eligible(f, j.o))
  BY <1>1, EligibleOf
<1> QED
  BY <1>1, <1>2, EligibleOf, FirstOfIs DEF Taken

LEMMA ActivateDoes ==
  ASSUME NEW f \in Fork, NEW j \in Job, j.kind = "activate-keys", NEW g, NEW n,
         Cardinality(Eligible(f, j.o)) >= j.n,
         g = [f EXCEPT !.confirmed = f.confirmed \cup {<<j.o, i>> : i \in Taken(j, f)}]
  PROVE  Does(f, g, j, n)
<1> DEFINE C == Taken(j, f)
<1>1. /\ C \in SUBSET Eligible(f, j.o) /\ Cardinality(C) = j.n
      /\ \A i \in C, h \in Eligible(f, j.o) \ C : i < h
  BY TakenAre
<1>2. g = [f EXCEPT !.confirmed = @ \cup {<<j.o, i>> : i \in C}]
  OBVIOUS
<1> HIDE DEF C
<1>3. \E D \in SUBSET Eligible(f, j.o) :
        /\ Cardinality(D) = j.n
        /\ \A i \in D, h \in Eligible(f, j.o) \ D : i < h
        /\ g = [f EXCEPT !.confirmed = @ \cup {<<j.o, i>> : i \in D}]
  BY <1>1, <1>2
<1> QED
  BY <1>3 DEF Does

\* activate-keys: one key read.
ActivateKeeps(r, f, U, K) ==
  /\ U \subseteq DepositedOf(f, r.job.o) \X BOOLEAN
  /\ \A i \in DepositedOf(f, r.job.o) : <<i, FALSE>> \notin U \/ <<i, TRUE>> \notin U
  /\ K = {i \in DepositedOf(f, r.job.o) :
            \/ <<i, FALSE>> \in U
            \/ /\ <<r.job.o, i>> \notin f.confirmed
               /\ <<i, TRUE>> \in U \/ <<r.job.o, i>> \notin f.withdrawn}

LEMMA ActivateReads ==
  ASSUME NEW f, NEW r, NEW U, NEW K, ActivateKeeps(r, f, U, K), NEW i \in DepositedOf(f, r.job.o)
  PROVE  /\ <<i, TRUE>> \in U =>
              ActivateKeeps(r, f, U \ {<<i, TRUE>>},
                            IF <<r.job.o, i>> \in f.withdrawn THEN K \ {i} ELSE K)
         /\ <<i, FALSE>> \in U =>
              ActivateKeeps(r, f, (U \ {<<i, FALSE>>}) \cup {<<i, TRUE>>},
                            IF <<r.job.o, i>> \in f.confirmed THEN K \ {i} ELSE K)
<1> DEFINE all == DepositedOf(f, r.job.o)
           Free(V, h) == \/ <<h, FALSE>> \in V
                         \/ /\ <<r.job.o, h>> \notin f.confirmed
                            /\ <<h, TRUE>> \in V \/ <<r.job.o, h>> \notin f.withdrawn
<1>1. /\ U \subseteq all \X BOOLEAN /\ \A h \in all : <<h, FALSE>> \notin U \/ <<h, TRUE>> \notin U
      /\ K = {h \in all : Free(U, h)}
  BY DEF ActivateKeeps
<1>2. \A h : <<h, TRUE>> # <<i, FALSE>> /\ <<h, FALSE>> # <<i, TRUE>>
             /\ (<<h, TRUE>> = <<i, TRUE>> <=> h = i) /\ (<<h, FALSE>> = <<i, FALSE>> <=> h = i)
  OBVIOUS
<1>3. ASSUME NEW V, NEW L, V \subseteq all \X BOOLEAN, L \subseteq all,
             \A h \in all : <<h, FALSE>> \notin V \/ <<h, TRUE>> \notin V,
             \A h \in all : h \in L <=> Free(V, h)
      PROVE  ActivateKeeps(r, f, V, L)
  <2>1. L = {h \in all : Free(V, h)}
    BY <1>3, Zenon
  <2> QED
    BY <1>3, <2>1, Zenon DEF ActivateKeeps
<1>4. \A h : h \in K <=> h \in all /\ Free(U, h)
  BY <1>1, Zenon
<1>5. K \subseteq all
  BY <1>1, Zenon
<1> HIDE DEF all
<1>6. ASSUME <<i, TRUE>> \in U
      PROVE  ActivateKeeps(r, f, U \ {<<i, TRUE>>}, IF <<r.job.o, i>> \in f.withdrawn THEN K \ {i} ELSE K)
  <2> DEFINE V == U \ {<<i, TRUE>>}
             L == IF <<r.job.o, i>> \in f.withdrawn THEN K \ {i} ELSE K
  <2>1. \A h : <<h, FALSE>> \in V <=> <<h, FALSE>> \in U
    BY <1>2, Zenon
  <2>2. \A h : <<h, TRUE>> \in V <=> <<h, TRUE>> \in U /\ h # i
    BY <1>2, Zenon
  <2>3. V \subseteq all \X BOOLEAN
    BY <1>1, Zenon
  <2>4. \A h \in all : h \in L <=> h \in K /\ (h = i => <<r.job.o, i>> \notin f.withdrawn)
    BY Zenon
  <2>5. L \subseteq all
    BY <1>5, Zenon
  <2>6. i \in all
    BY DEF all
  <2> HIDE DEF V, L
  <2>7. \A h \in all : <<h, FALSE>> \notin V \/ <<h, TRUE>> \notin V
    BY <1>1, <2>1, <2>2, Zenon
  <2>8. \A h \in all : h \in L <=> Free(V, h)
    <3> SUFFICES ASSUME NEW h \in all PROVE h \in L <=> Free(V, h)
      BY Zenon
    <3>1. CASE h = i
      BY <1>1, <1>4, <1>6, <2>1, <2>2, <2>4, <3>1, Zenon
    <3>2. CASE h # i
      BY <1>1, <1>4, <2>1, <2>2, <2>4, <3>2, Zenon
    <3> QED
      BY <3>1, <3>2
  <2>9. ActivateKeeps(r, f, V, L)
    BY <1>3, <2>3, <2>5, <2>7, <2>8, Zenon
  <2> QED
    BY <2>9 DEF V, L
<1>7. ASSUME <<i, FALSE>> \in U
      PROVE  ActivateKeeps(r, f, (U \ {<<i, FALSE>>}) \cup {<<i, TRUE>>},
                           IF <<r.job.o, i>> \in f.confirmed THEN K \ {i} ELSE K)
  <2> DEFINE V == (U \ {<<i, FALSE>>}) \cup {<<i, TRUE>>}
             L == IF <<r.job.o, i>> \in f.confirmed THEN K \ {i} ELSE K
  <2>1. \A h : <<h, FALSE>> \in V <=> <<h, FALSE>> \in U /\ h # i
    BY <1>2, Zenon
  <2>2. \A h : <<h, TRUE>> \in V <=> <<h, TRUE>> \in U \/ h = i
    BY <1>2, Zenon
  <2>3. i \in all
    BY DEF all
  <2>4. V \subseteq all \X BOOLEAN
    <3>1. <<i, TRUE>> \in all \X BOOLEAN
      BY <2>3
    <3> QED
      BY <1>1, <3>1, Zenon
  <2>5. \A h \in all : h \in L <=> h \in K /\ (h = i => <<r.job.o, i>> \notin f.confirmed)
    BY Zenon
  <2>6. L \subseteq all
    BY <1>5, Zenon
  <2> HIDE DEF V, L
  <2>7. \A h \in all : <<h, FALSE>> \notin V \/ <<h, TRUE>> \notin V
    BY <1>1, <2>1, <2>2, Zenon
  <2>8. \A h \in all : h \in L <=> Free(V, h)
    <3> SUFFICES ASSUME NEW h \in all PROVE h \in L <=> Free(V, h)
      BY Zenon
    <3>1. CASE h = i
      BY <1>1, <1>4, <1>7, <2>1, <2>2, <2>5, <3>1, Zenon
    <3>2. CASE h # i
      BY <1>1, <1>4, <2>1, <2>2, <2>5, <3>2, Zenon
    <3> QED
      BY <3>1, <3>2
  <2>9. ActivateKeeps(r, f, V, L)
    BY <1>3, <2>4, <2>6, <2>7, <2>8, Zenon
  <2> QED
    BY <2>9 DEF V, L
<1> QED
  BY <1>6, <1>7

LEMMA ActivateSends ==
  ASSUME KInv, NEW p \in Client, Solitary(p), Step(p), ~disturbed', ~run[p].failed,
         run[p].job.kind = "activate-keys", pc[p] = "send"
  PROVE  Proper(p)
<1> DEFINE r == run[p]
           j == r.job
           o == j.o
           w == Least(r.todo)
           q == [r EXCEPT !.todo = @ \ {w}]
           C == Taken(j, begin)
<1>1. solo = p /\ r \in Run /\ o \in Operator /\ begin \in Fork /\ fork \in Fork /\ j \in Job
      /\ j.n > 0
  BY SoloParts DEF Solitary, Run, Sane
<1>2. /\ r.todo # {} /\ r.todo \subseteq C /\ Cardinality(Eligible(begin, o)) >= j.n
      /\ fork = [begin EXCEPT !.confirmed = begin.confirmed \cup {<<o, i>> : i \in C \ r.todo}]
  <2>1. InActivate(pc[p], r, begin, fork)
    BY SoloParts DEF Sane
  <2> QED
    BY <2>1 DEF InActivate, Taken
<1>3. q \in Run /\ q.job = j /\ ~q.failed /\ q.todo = r.todo \ {w} /\ w \in r.todo
  BY <1>2, WriteLeaves
<1> HIDE DEF q, w
<1>4. w \in C /\ w \in Eligible(begin, o)
  BY <1>1, <1>2, <1>3, TakenAre
<1>5. Accepts(fork, r, w)
  <2>1. w \in Index /\ w \in DepositedOf(begin, o) /\ <<o, w>> \notin begin.withdrawn
    BY <1>1, <1>4, EligibleOf
  <2>2. <<o, w>> \in Deposited(begin)
    BY <1>1, <2>1, QueueOf
  <2>3. fork.deposited = begin.deposited /\ fork.withdrawn = begin.withdrawn
    BY <1>1, <1>2, Zenon DEF Fork
  <2>4. <<o, w>> \in Deposited(fork) \ fork.withdrawn
    BY <2>1, <2>2, <2>3 DEF Deposited
  <2> QED
    BY <2>4 DEF Accepts, VerifierKind, GroupKind
<1>6. Send(p)
  <2>1. ~Doubtful(fork, r)
    BY DEF Doubtful
  <2>2. ~SendFails(p)
    BY <1>5, <2>1, LeastFailsFor DEF w
  <2> QED
    BY <1>1, <2>2, StepAt
<1>7. fork' \in Effects(fork, r, w)
  BY <1>6, SendsLeast DEF w
<1>8. fork' = [fork EXCEPT !.confirmed = @ \cup {<<o, w>>}]
  BY <1>7 DEF Effects, GroupKind
<1>9. fork' = [begin EXCEPT !.confirmed = begin.confirmed \cup {<<o, i>> : i \in C \ q.todo}]
  <2>1. {<<o, i>> : i \in C \ q.todo} = {<<o, i>> : i \in C \ r.todo} \cup {<<o, w>>}
    <3>1. \A i : i \in C \ q.todo <=> i \in C \ r.todo \/ i = w
      BY <1>3, <1>4
    <3> HIDE DEF C
    <3>2. \A k : (\E i \in C \ q.todo : k = <<o, i>>) <=> (\E i \in C \ r.todo : k = <<o, i>>) \/ k = <<o, w>>
      BY <3>1, Zenon
    <3>3. \A k : k \in {<<o, i>> : i \in C \ q.todo} <=> k \in {<<o, i>> : i \in C \ r.todo} \cup {<<o, w>>}
      BY <3>2, Zenon
    <3> QED
      BY <3>3
  <2> DEFINE X == {<<o, i>> : i \in C \ q.todo}
             Y == {<<o, i>> : i \in C \ r.todo}
  <2>2. fork = [begin EXCEPT !.confirmed = begin.confirmed \cup Y] /\ X = Y \cup {<<o, w>>}
    BY <1>2, <2>1
  <2> HIDE DEF X, Y
  <2>3. fork' = [begin EXCEPT !.confirmed = begin.confirmed \cup X]
    <3>1. fork.confirmed = begin.confirmed \cup Y
      BY <1>1, <2>2 DEF Fork
    <3>2. fork.confirmed \cup {<<o, w>>} = begin.confirmed \cup X
      BY <2>2, <3>1
    <3>3. fork' = [fork EXCEPT !.confirmed = begin.confirmed \cup X]
      BY <1>8, <3>2
    <3> QED
      BY <1>1, <2>2, <3>3 DEF Fork
  <2> QED
    BY <2>3 DEF X
<1>10. InActivate("close", q, begin, fork') /\ (q.todo # {} => InActivate("send", q, begin, fork'))
  <2>1. q.todo \subseteq C
    BY <1>2, <1>3
  <2> HIDE DEF C
  <2>2. FirstOf(Eligible(begin, q.job.o), q.job.n) = C
    BY <1>3 DEF C, Taken
  <2> QED
    BY <1>2, <1>3, <1>9, <2>1, <2>2 DEF InActivate
<1>11. Sane("close", q, begin, fork') /\ (q.todo # {} => Sane("send", q, begin, fork'))
  BY <1>1, <1>3, <1>10 DEF Sane, OneWrite, OfBond
<1> QED
  BY <1>3, <1>6, <1>11, WriteProper DEF q, w

LEMMA BooleanPair ==
  ASSUME NEW S, NEW x, x \in S \X BOOLEAN
  PROVE  \E i \in S : x = <<i, TRUE>> \/ x = <<i, FALSE>>
<1>1. x = <<x[1], x[2]>> /\ x[1] \in S /\ x[2] \in BOOLEAN
  OBVIOUS
<1>2. x[2] = TRUE \/ x[2] = FALSE
  BY <1>1, Zenon
<1>3. x = <<x[1], TRUE>> \/ x = <<x[1], FALSE>>
  BY <1>1, <1>2, Zenon
<1> QED
  BY <1>1, <1>3

LEMMA ActivateKeys ==
  ASSUME KInv, NEW p \in Client, Solitary(p), Step(p), ~disturbed', ~run[p].failed,
         run[p].job.kind = "activate-keys", pc[p] = "keys"
  PROVE  Proper(p)
<1> DEFINE r == run[p]
           j == r.job
           o == j.o
           all == DepositedOf(begin, o)
           E == Eligible(begin, o)
<1>1. /\ solo = p /\ r \in Run /\ o \in Operator /\ begin \in Fork /\ fork \in Fork /\ j \in Job
      /\ j.n > 0 /\ all \subseteq Index /\ Index \subseteq Nat
  <2>1. begin \in Fork /\ o \in Operator
    BY SoloParts
  <2>2. all \subseteq Index
    BY <2>1, QueueOf
  <2> QED
    BY <2>1, <2>2, SoloParts, KeyRecipesAssumption DEF Solitary, Run, Sane, Index
<1>2. fork = begin /\ r.n = j.n /\ ActivateKeeps(r, begin, r.unread, r.keep)
  <2>1. InActivate(pc[p], r, begin, fork)
    BY SoloParts DEF Sane
  <2> QED
    BY <2>1 DEF InActivate, ActivateKeeps
<1>3. \A s, q, g : q.job = j /\ ~q.failed /\ InActivate(s, q, begin, g) => Sane(s, q, begin, g)
  BY <1>1 DEF Sane, OneWrite, OfBond
<1>4. \A s \in {"keys", "open"} : s \in Stage \ {"idle"} /\ s \notin Bracketed
  BY DEF Stage, Bracketed
<1>5. ReadKey(p) /\ Reads
  BY <1>1, StepAt, Zenon DEF ReadKey
<1>6. ASSUME NEW U \in SUBSET (all \X BOOLEAN), NEW K \in SUBSET all, NEW q,
             q = [r EXCEPT !.unread = U, !.keep = K],
             ActivateKeeps(r, begin, U, K),
             (CASE q.unread # {} -> Advance(p, q, "keys")
                [] q.unread = {} /\ q.job.kind = "top-up-active-keys" ->
                     Advance(p, [q EXCEPT !.todo = q.keep], IF q.keep = {} THEN "idle" ELSE "open")
                [] OTHER -> IF Cardinality(q.keep) < q.n THEN Throw(p, FALSE)
                            ELSE Advance(p, [q EXCEPT !.todo = FirstOf(q.keep, q.n)], "open"))
      PROVE  Proper(p)
  <2>1. q \in Run /\ q.job = j /\ ~q.failed /\ q.unread = U /\ q.keep = K /\ q.n = j.n
    <3>1. U \subseteq Operator \cup (Index \X BOOLEAN) /\ K \subseteq Nat
      BY <1>1
    <3> QED
      BY <1>1, <1>2, <1>6, <3>1 DEF Run
  <2>2. CASE U # {}
    <3>1. Advance(p, q, "keys")
      BY <1>6, <2>1, <2>2
    <3>2. InActivate("keys", q, begin, fork)
      BY <1>2, <1>6, <2>1 DEF InActivate, ActivateKeeps
    <3> QED
      BY <1>3, <1>4, <1>5, <2>1, <3>1, <3>2, ReadGoes
  <2>3. CASE U = {}
    <3>1. K = E
      <4>1. \A i : i \in K <=> i \in all /\ <<o, i>> \notin begin.confirmed /\ <<o, i>> \notin begin.withdrawn
        BY <1>6, <2>3 DEF ActivateKeeps
      <4>2. \A i : i \in K <=> i \in E
        BY <1>1, <4>1, EligibleOf
      <4> QED
        BY <4>2
    <3>2. CASE Cardinality(E) < j.n
      <4>1. Throw(p, FALSE)
        BY <1>6, <2>1, <2>3, <3>1, <3>2
      <4>2. Refused(begin, j)
        BY <3>2 DEF Refused
      <4> QED
        BY <1>5, <4>1, <4>2, ReadThrows
    <3>3. CASE ~(Cardinality(E) < j.n)
      <4> DEFINE t == [q EXCEPT !.todo = FirstOf(q.keep, q.n)]
      <4>1. Advance(p, t, "open")
        BY <1>6, <2>1, <2>3, <3>1, <3>3
      <4>2. Cardinality(E) >= j.n
        <5>1. Cardinality(E) \in Nat /\ j.n \in Nat
          BY <1>1, EligibleOf, KeyRecipesAssumption DEF Job
        <5> QED
          BY <3>3, <5>1
      <4>3. Taken(j, begin) \subseteq E /\ Cardinality(Taken(j, begin)) = j.n
        BY <1>1, <4>2, TakenAre
      <4>4. E \subseteq Nat
        BY <1>1, EligibleOf
      <4>5. Taken(j, begin) # {}
        BY <1>1, <4>3, FS_EmptySet
      <4>6. FirstOf(q.keep, q.n) = Taken(j, begin)
        BY <2>1, <3>1 DEF Taken
      <4>7. t = [q EXCEPT !.todo = Taken(j, begin)]
        BY <4>6
      <4> HIDE DEF t, E
      <4>8. t \in Run /\ t.job = j /\ ~t.failed /\ t.todo = Taken(j, begin)
        <5>1. Taken(j, begin) \subseteq Nat
          BY <4>3, <4>4
        <5> QED
          BY <2>1, <4>7, <5>1 DEF Run
      <4>9. begin = [begin EXCEPT !.confirmed = begin.confirmed \cup {<<o, i>> : i \in Taken(j, begin) \ t.todo}]
        <5>1. Taken(j, begin) \ t.todo = {}
          BY <4>8
        <5>2. {<<o, i>> : i \in Taken(j, begin) \ t.todo} = {}
          BY <5>1
        <5>3. begin.confirmed \cup {<<o, i>> : i \in Taken(j, begin) \ t.todo} = begin.confirmed
          BY <5>2
        <5> QED
          BY <1>1, <5>3 DEF Fork
      <4>10. InActivate("open", t, begin, fork)
        <5>1. FirstOf(Eligible(begin, t.job.o), t.job.n) = Taken(j, begin)
          BY <4>8 DEF Taken
        <5> QED
          BY <1>2, <4>2, <4>5, <4>8, <4>9, <5>1 DEF InActivate, E
      <4> QED
        BY <1>3, <1>4, <1>5, <4>1, <4>8, <4>10, ReadGoes
    <3> QED
      BY <3>2, <3>3
  <2> QED
    BY <2>2, <2>3
<1>7. PICK x \in r.unread :
        LET key == <<o, x[1]>>
            q == IF x[2]
                 THEN [r EXCEPT !.unread = @ \ {x},
                                !.keep = IF key \in fork.withdrawn THEN @ \ {x[1]} ELSE @]
                 ELSE [r EXCEPT !.unread = (@ \ {x}) \cup {<<x[1], TRUE>>},
                                !.keep = IF key \in fork.confirmed THEN @ \ {x[1]} ELSE @]
        IN CASE q.unread # {} -> Advance(p, q, "keys")
             [] q.unread = {} /\ q.job.kind = "top-up-active-keys" ->
                  Advance(p, [q EXCEPT !.todo = q.keep], IF q.keep = {} THEN "idle" ELSE "open")
             [] OTHER -> IF Cardinality(q.keep) < q.n THEN Throw(p, FALSE)
                         ELSE Advance(p, [q EXCEPT !.todo = FirstOf(q.keep, q.n)], "open")
  BY <1>5, Zenon DEF ReadKey
<1>8. x \in all \X BOOLEAN /\ r.unread \subseteq all \X BOOLEAN /\ r.keep \subseteq all
  <2>1. r.unread \subseteq all \X BOOLEAN /\ r.keep \subseteq all
    BY <1>2 DEF ActivateKeeps
  <2> QED
    BY <2>1
<1>9. PICK i \in all : x = <<i, TRUE>> \/ x = <<i, FALSE>>
  BY <1>8, BooleanPair, ZenonT(30)
<1> HIDE DEF all
<1>10. CASE x = <<i, TRUE>>
  <2> DEFINE U == r.unread \ {<<i, TRUE>>}
             K == IF <<o, i>> \in begin.withdrawn THEN r.keep \ {i} ELSE r.keep
             q == [r EXCEPT !.unread = U, !.keep = K]
  <2>1. x[1] = i /\ x[2] = TRUE
    BY <1>10
  <2>2. q = [r EXCEPT !.unread = @ \ {x}, !.keep = IF <<o, x[1]>> \in fork.withdrawn THEN @ \ {x[1]} ELSE @]
    BY <1>2, <1>10, <2>1
  <2>3. U \in SUBSET (all \X BOOLEAN) /\ K \in SUBSET all
    BY <1>8
  <2>4. ActivateKeeps(r, begin, U, K)
    BY <1>2, <1>10, ActivateReads DEF all
  <2> HIDE DEF q, U, K
  <2>5. (CASE q.unread # {} -> Advance(p, q, "keys")
           [] q.unread = {} /\ q.job.kind = "top-up-active-keys" ->
                Advance(p, [q EXCEPT !.todo = q.keep], IF q.keep = {} THEN "idle" ELSE "open")
           [] OTHER -> IF Cardinality(q.keep) < q.n THEN Throw(p, FALSE)
                       ELSE Advance(p, [q EXCEPT !.todo = FirstOf(q.keep, q.n)], "open"))
    BY <1>7, <2>1, <2>2
  <2> QED
    BY <1>6, <2>3, <2>4, <2>5, Zenon DEF q
<1>11. CASE x = <<i, FALSE>>
  <2> DEFINE U == (r.unread \ {<<i, FALSE>>}) \cup {<<i, TRUE>>}
             K == IF <<o, i>> \in begin.confirmed THEN r.keep \ {i} ELSE r.keep
             q == [r EXCEPT !.unread = U, !.keep = K]
  <2>1. x[1] = i /\ x[2] = FALSE
    BY <1>11
  <2>2. q = [r EXCEPT !.unread = (@ \ {x}) \cup {<<x[1], TRUE>>},
                      !.keep = IF <<o, x[1]>> \in fork.confirmed THEN @ \ {x[1]} ELSE @]
    BY <1>2, <1>11, <2>1
  <2>3. U \in SUBSET (all \X BOOLEAN) /\ K \in SUBSET all
    <3>1. <<i, TRUE>> \in all \X BOOLEAN
      OBVIOUS
    <3>2. U \subseteq all \X BOOLEAN
      BY <1>8, <3>1, Zenon
    <3> QED
      BY <1>8, <3>2
  <2>4. ActivateKeeps(r, begin, U, K)
    BY <1>2, <1>11, ActivateReads DEF all
  <2> HIDE DEF q, U, K
  <2>5. (CASE q.unread # {} -> Advance(p, q, "keys")
           [] q.unread = {} /\ q.job.kind = "top-up-active-keys" ->
                Advance(p, [q EXCEPT !.todo = q.keep], IF q.keep = {} THEN "idle" ELSE "open")
           [] OTHER -> IF Cardinality(q.keep) < q.n THEN Throw(p, FALSE)
                       ELSE Advance(p, [q EXCEPT !.todo = FirstOf(q.keep, q.n)], "open"))
    BY <1>7, <2>1, <2>2
  <2> QED
    BY <1>6, <2>3, <2>4, <2>5, Zenon DEF q
<1> QED
  BY <1>9, <1>10, <1>11

LEMMA ActivateProper ==
  ASSUME KInv, NEW p \in Client, Solitary(p), Step(p), ~disturbed', ~run[p].failed,
         run[p].job.kind = "activate-keys"
  PROVE  Proper(p)
<1> DEFINE r == run[p]
           j == r.job
           o == j.o
           all == DepositedOf(begin, o)
<1>0. /\ solo = p /\ r \in Run /\ fork \in Fork /\ begin \in Fork /\ j \in Job /\ o \in Operator
      /\ begin.deposited[o] \in Nat /\ all \subseteq Index /\ Index \subseteq Nat /\ j.n > 0
  <2>1. begin \in Fork /\ o \in Operator
    BY SoloParts
  <2>2. all \subseteq Index
    BY <2>1, QueueOf
  <2> QED
    BY <2>1, <2>2, SoloParts, KeyRecipesAssumption DEF Solitary, Fork, Counts, Index, Sane
<1>1. InActivate(pc[p], r, begin, fork)
  BY SoloParts DEF Sane
<1>2. \A s, q, g : q.job = j /\ ~q.failed /\ InActivate(s, q, begin, g) => Sane(s, q, begin, g)
  BY <1>0 DEF Sane, OneWrite, OfBond
<1>3. \A s \in {"keys", "open"} : s \in Stage \ {"idle"} /\ s \notin Bracketed
  BY DEF Stage, Bracketed
<1>4. CASE pc[p] = "operator"
  <2> DEFINE q == [r EXCEPT !.keep = 0 .. begin.deposited[o] - 1,
                            !.unread = (0 .. begin.deposited[o] - 1) \X {FALSE}]
  <2>1. ReadOperator(p) /\ Reads /\ fork = begin /\ r.n = j.n
    BY <1>0, <1>1, <1>4, StepAt, Zenon DEF ReadOperator, InActivate
  <2>2. CASE begin.deposited[o] = 0
    <3>1. Throw(p, FALSE)
      BY <2>1, <2>2 DEF ReadOperator, ManagerKind
    <3>2. Eligible(begin, o) = {}
      <4>1. DepositedOf(begin, o) = {}
        BY <2>2 DEF DepositedOf
      <4> QED
        BY <1>0, <4>1, EligibleOf
    <3>3. Refused(begin, j)
      <4>1. Cardinality(Eligible(begin, o)) = 0
        BY <3>2, FS_EmptySet
      <4> QED
        BY <1>0, <4>1 DEF Refused
    <3> QED
      BY <2>1, <3>1, <3>3, ReadThrows
  <2>3. CASE begin.deposited[o] # 0
    <3>1. Advance(p, q, "keys")
      <4>1. (0 .. begin.deposited[o] - 1) \X {j.kind = "top-up-active-keys"} =
              (0 .. begin.deposited[o] - 1) \X {FALSE}
        OBVIOUS
      <4>2. Advance(p, [r EXCEPT !.keep = 0 .. begin.deposited[o] - 1,
                                 !.unread = (0 .. begin.deposited[o] - 1) \X {j.kind = "top-up-active-keys"}],
                    IF j.kind = "activate-keys" THEN "keys" ELSE "allocated")
        BY <2>1, <2>3 DEF ReadOperator, ManagerKind
      <4> QED
        BY <4>1, <4>2
    <3>2. q \in Run /\ q.job = j /\ ~q.failed /\ q.keep = all /\ q.unread = all \X {FALSE} /\ q.n = j.n
      <4>1. all \subseteq Nat /\ all \X {FALSE} \subseteq Operator \cup (Index \X BOOLEAN)
        BY <1>0
      <4> QED
        BY <1>0, <2>1, <4>1 DEF Run, DepositedOf
    <3> HIDE DEF q
    <3>3. /\ \A i \in all : <<i, FALSE>> \in q.unread /\ <<i, TRUE>> \notin q.unread
          /\ q.unread \subseteq all \X BOOLEAN
      BY <3>2
    <3>4. InActivate("keys", q, begin, fork)
      <4>1. q.keep = {i \in all : \/ <<i, FALSE>> \in q.unread
                                  \/ /\ <<o, i>> \notin begin.confirmed
                                     /\ <<i, TRUE>> \in q.unread \/ <<o, i>> \notin begin.withdrawn}
        BY <3>2, <3>3
      <4> QED
        BY <2>1, <3>2, <3>3, <4>1 DEF InActivate
    <3> QED
      BY <1>2, <1>3, <2>1, <3>1, <3>2, <3>4, ReadGoes
  <2> QED
    BY <2>2, <2>3
<1>5. CASE pc[p] \in {"open", "close"}
  <2>1. /\ r.todo \subseteq Taken(j, begin) /\ Cardinality(Eligible(begin, o)) >= j.n
        /\ pc[p] = "open" => r.todo # {}
        /\ fork = [begin EXCEPT !.confirmed = begin.confirmed \cup {<<o, i>> : i \in Taken(j, begin) \ r.todo}]
    BY <1>1, <1>5 DEF InActivate, Taken
  <2>2. \A q, s : q.job = j /\ q.todo = r.todo /\ q.todo # {} /\ s \in {"open", "send"} => InActivate(s, q, begin, fork)
    BY <2>1 DEF InActivate, Taken
  <2>3. CASE pc[p] = "open"
    <3>1. Open(p)
      BY <1>0, <2>3, StepAt
    <3> DEFINE q == [r EXCEPT !.as = Signer(r)]
    <3>2. q.job = j /\ q.todo = r.todo /\ ~q.failed
      BY <1>0 DEF Run
    <3> HIDE DEF q
    <3>3. Sane("send", q, begin, fork)
      BY <1>2, <2>1, <2>2, <2>3, <3>2
    <3> QED
      BY <3>1, <3>3, OpenGoes DEF q
  <2>4. CASE pc[p] = "close"
    <3>1. Close(p)
      BY <1>0, <2>4, StepAt
    <3>2. Advance(p, r, AfterWrites(r)) /\ begin' = begin /\ fork' = fork
      BY <3>1, CloseGoes
    <3>3. CASE r.todo # {}
      <4>1. AfterWrites(r) = "open"
        BY <3>3 DEF AfterWrites
      <4>2. Sane("open", r, begin, fork')
        BY <1>2, <2>2, <3>2, <3>3
      <4> QED
        BY <1>0, <1>3, <3>2, <4>1, <4>2, ProperAdvance
    <3>4. CASE r.todo = {}
      <4>1. AfterWrites(r) = "idle"
        BY <3>4 DEF AfterWrites
      <4>2. Taken(j, begin) \ r.todo = Taken(j, begin)
        BY <3>4
      <4>3. fork' = [begin EXCEPT !.confirmed = begin.confirmed \cup {<<o, i>> : i \in Taken(j, begin)}]
        BY <2>1, <3>2, <4>2
      <4>4. Does(begin, fork', j, r.n)
        BY <1>0, <2>1, <4>3, ActivateDoes
      <4> QED
        BY <1>0, <3>2, <4>1, <4>4, ProperDone
    <3> QED
      BY <3>3, <3>4
  <2> QED
    BY <1>5, <2>3, <2>4
<1>6. pc[p] \in {"operator", "keys", "open", "send", "close"}
  BY <1>1 DEF InActivate
<1> QED
  BY <1>4, <1>5, <1>6, ActivateKeys, ActivateSends

\* deposit: both writes, and the simulation between them.
LEMMA DepositSends ==
  ASSUME KInv, NEW p \in Client, Solitary(p), Step(p), ~disturbed', ~run[p].failed,
         run[p].job.kind = "deposit", pc[p] = "send"
  PROVE  Proper(p)
<1> DEFINE r == run[p]
           j == r.job
           w == Least(r.todo)
           q == [r EXCEPT !.todo = @ \ {w}]
           most == Minimum(j.n, Cardinality(Depositable(begin)))
           s == CASE j.kind = "deposit" /\ w = 1 -> "summary"
                  [] Together(q) -> "send"
                  [] OTHER -> "close"
<1>1. solo = p /\ r \in Run /\ begin \in Fork /\ fork \in Fork /\ j \in Job /\ j.n > 0
  BY SoloParts DEF Solitary, Run, Sane
<1>2. fork = begin /\ (r.todo = {1} \/ (r.todo = {2} /\ r.n = most /\ Room(begin, most)))
  <2>1. InDeposit(pc[p], r, begin, fork)
    BY SoloParts DEF Sane
  <2> QED
    BY <2>1 DEF InDeposit
<1>3. /\ q \in Run /\ q.job = j /\ ~q.failed /\ q.todo = r.todo \ {w} /\ q.n = r.n /\ q.as = r.as
      /\ w \in r.todo
  <2>1. r.todo # {}
    BY <1>2
  <2>2. q.as = r.as
    BY <1>1 DEF Run
  <2> QED
    BY <2>1, <2>2, WriteLeaves
<1> HIDE DEF w, q
<1>4. r.todo = {w} /\ q.todo = {} /\ (w = 1 \/ (w = 2 /\ r.n = most /\ Room(begin, most)))
  <2>1. CASE r.todo = {1}
    <3>1. w = 1
      BY <1>3, <2>1
    <3>2. r.todo = {w} /\ q.todo = {}
      BY <1>3, <2>1, <3>1
    <3> QED
      BY <3>1, <3>2
  <2>2. CASE r.todo = {2} /\ r.n = most /\ Room(begin, most)
    <3>1. w = 2
      BY <1>3, <2>2
    <3> QED
      BY <1>3, <2>2, <3>1
  <2> QED
    BY <1>2, <2>1, <2>2
<1>5. Send(p)
  <2>1. ~Doubtful(fork, r)
    BY DEF Doubtful
  <2>2. Accepts(fork, r, w)
    <3>1. CASE w = 1
      BY <3>1 DEF Accepts, VerifierKind, GroupKind
    <3>2. CASE w = 2 /\ r.n = most /\ Room(begin, most)
      <4>1. Cardinality(Depositable(begin)) \in Nat /\ j.n \in Nat
        BY <1>1, KeysFinite, KeyRecipesAssumption DEF Job
      <4>2. r.n <= Cardinality(Depositable(fork))
        BY <1>2, <3>2, <4>1 DEF Minimum
      <4> QED
        BY <1>2, <3>2, <4>2 DEF Accepts, Room, VerifierKind, GroupKind
    <3> QED
      BY <1>4, <3>1, <3>2
  <2>3. ~SendFails(p)
    BY <2>1, <2>2, LeastFailsFor DEF w
  <2> QED
    BY <1>1, <2>3, StepAt
<1>6. /\ fork' \in Effects(fork, r, w) /\ Advance(p, q, s)
      /\ begin' = begin /\ impersonated' = impersonated
  BY <1>5, SendsLeast DEF q, w
<1>7. q.as \in impersonated'
  BY <1>3, <1>6, SoloParts DEF Bracketed
<1>8. \A z, g : InDeposit(z, q, begin, g) => Sane(z, q, begin, g)
  BY <1>1, <1>3 DEF Sane, OneWrite, OfBond
<1>9. CASE w = 1
  <2>1. fork' = fork
    BY <1>6, <1>9 DEF Effects, GroupKind
  <2>2. Advance(p, q, "summary")
    <3>1. s = "summary"
      BY <1>4, <1>9 DEF Together
    <3> QED
      BY <1>6, <3>1
  <2>3. InDeposit("summary", q, begin, fork')
    BY <1>2, <1>4, <2>1 DEF InDeposit
  <2> QED
    BY <1>3, <1>6, <1>7, <1>8, <2>2, <2>3, ProperAdvance DEF Stage
<1>10. CASE w = 2 /\ r.n = most
  <2>1. PICK t \in Turns(begin, r.n) : fork' = Deposit(begin, r.n, t)
    BY <1>2, <1>6, <1>10 DEF Effects, GroupKind
  <2>2. r.n \in Nat
    BY <1>1 DEF Run
  <2>3. Cardinality(Deposited(fork')) = Cardinality(Deposited(begin)) + r.n
    BY <1>1, <2>1, <2>2, DepositTakes
  <2>4. Does(begin, fork', j, q.n)
    BY <1>3, <1>10, <2>3 DEF Does
  <2>5. Advance(p, q, "close")
    BY <1>4, <1>6, <1>10 DEF Together
  <2>6. InDeposit("close", q, begin, fork')
    BY <1>3, <1>4, <2>4 DEF InDeposit
  <2> QED
    BY <1>3, <1>6, <1>7, <1>8, <2>5, <2>6, ProperAdvance DEF Stage
<1> QED
  BY <1>4, <1>9, <1>10

LEMMA DepositProper ==
  ASSUME KInv, NEW p \in Client, Solitary(p), Step(p), ~disturbed', ~run[p].failed,
         run[p].job.kind = "deposit"
  PROVE  Proper(p)
<1> DEFINE r == run[p]
           j == r.job
           free == Cardinality(Depositable(begin))
           most == Minimum(j.n, free)
<1>0. /\ solo = p /\ r \in Run /\ fork \in Fork /\ begin \in Fork /\ j \in Job
      /\ j.n > 0 /\ j.n \in Nat /\ free \in Nat
  BY SoloParts, KeysFinite, KeyRecipesAssumption DEF Solitary, Run, Job, Sane
<1>1. InDeposit(pc[p], r, begin, fork)
  BY SoloParts DEF Sane
<1>2. \A s, q, g : q.job = j /\ ~q.failed /\ InDeposit(s, q, begin, g) => Sane(s, q, begin, g)
  BY <1>0 DEF Sane, OneWrite, OfBond
<1>3. \A s \in {"send", "simulate"} : s \in Stage \ {"idle"}
  BY DEF Stage
<1>4. CASE pc[p] = "open"
  <2>1. Open(p)
    BY <1>0, <1>4, StepAt
  <2> DEFINE q == [r EXCEPT !.as = Signer(r)]
  <2>2. q.job = j /\ q.todo = r.todo /\ ~q.failed
    BY <1>0 DEF Run
  <2> HIDE DEF q
  <2>3. InDeposit("send", q, begin, fork)
    BY <1>1, <1>4, <2>2 DEF InDeposit
  <2>4. Sane("send", q, begin, fork)
    BY <1>2, <2>2, <2>3
  <2> QED
    BY <2>1, <2>4, OpenGoes DEF q
<1>5. CASE pc[p] = "summary"
  <2>1. Summary(p) /\ Reads /\ fork = begin /\ r.todo = {} /\ pc[p] \in Bracketed
    BY <1>0, <1>1, <1>5, StepAt DEF Summary, InDeposit, Bracketed
  <2>2. IF most = 0 THEN Throw(p, FALSE) ELSE Advance(p, [r EXCEPT !.n = most], "simulate")
    BY <2>1 DEF Summary
  <2>3. CASE most = 0
    <3>1. Refused(begin, j)
      BY <2>3 DEF Refused, VerifierKind
    <3> QED
      BY <2>1, <2>2, <2>3, <3>1, ReadThrows
  <2>4. CASE most # 0
    <3> DEFINE q == [r EXCEPT !.n = most]
    <3>1. Advance(p, q, "simulate")
      BY <2>2, <2>4
    <3>2. q \in Run /\ q.job = j /\ ~q.failed /\ q.n = most /\ q.todo = {} /\ q.as = r.as
      <4>1. most \in Nat
        BY <1>0 DEF Minimum
      <4> QED
        BY <1>0, <2>1, <4>1 DEF Run
    <3> HIDE DEF q
    <3>3. InDeposit("simulate", q, begin, fork)
      BY <2>1, <3>2 DEF InDeposit
    <3>4. Sane("simulate", q, begin, fork)
      BY <1>2, <3>2, <3>3
    <3> QED
      BY <1>3, <2>1, <3>1, <3>2, <3>4, ReadGoes
  <2> QED
    BY <2>3, <2>4
<1>6. CASE pc[p] = "simulate"
  <2>1. Simulate(p) /\ Reads /\ fork = begin /\ r.n = most /\ pc[p] \in Bracketed
    BY <1>0, <1>1, <1>6, StepAt DEF Simulate, InDeposit, Bracketed
  <2>2. CASE Room(begin, most)
    <3>1. Accepts(fork, r, 2)
      <4>1. r.n <= Cardinality(Depositable(fork))
        BY <1>0, <2>1 DEF Minimum
      <4> QED
        BY <2>1, <2>2, <4>1 DEF Accepts, Room, VerifierKind, GroupKind
    <3> DEFINE q == [r EXCEPT !.todo = {2}]
    <3>2. Advance(p, q, "send")
      BY <2>1, <3>1 DEF Simulate
    <3>3. q \in Run /\ q.job = j /\ ~q.failed /\ q.n = r.n /\ q.todo = {2} /\ q.as = r.as
      BY <1>0 DEF Run
    <3> HIDE DEF q
    <3>4. InDeposit("send", q, begin, fork)
      BY <2>1, <2>2, <3>3 DEF InDeposit
    <3>5. Sane("send", q, begin, fork)
      BY <1>2, <3>3, <3>4
    <3> QED
      BY <1>3, <2>1, <3>2, <3>3, <3>5, ReadGoes
  <2>3. CASE ~Room(begin, most)
    <3>1. Cardinality(Queued(begin)) \in Nat /\ most \in Nat
      <4>1. Queued(begin) \subseteq Key
        BY DEF Queued, Deposited
      <4> QED
        BY <1>0, <4>1, AllKeysFinite, FS_Subset, FS_CardinalityType DEF Minimum
    <3>2. begin.module = "csm02" /\ Cardinality(Queued(begin)) + most > QueueLimit
      BY <2>3, <3>1, KeyRecipesAssumption DEF Room
    <3>3. ~Accepts(fork, r, 2)
      BY <2>1, <2>3 DEF Accepts, Room, VerifierKind, GroupKind
    <3>4. Refused(begin, j)
      BY <3>2 DEF Refused, VerifierKind
    <3> QED
      BY <2>1, <3>3, <3>4, ReadThrows DEF Simulate
  <2> QED
    BY <2>2, <2>3
<1>7. CASE pc[p] = "close"
  <2>1. Close(p)
    BY <1>0, <1>7, StepAt
  <2>2. Advance(p, r, AfterWrites(r)) /\ begin' = begin /\ fork' = fork
    BY <2>1, CloseGoes
  <2>3. AfterWrites(r) = "idle" /\ Does(begin, fork', j, r.n)
    BY <1>1, <1>7, <2>2 DEF AfterWrites, InDeposit
  <2> QED
    BY <1>0, <2>2, <2>3, ProperDone
<1>8. pc[p] \in {"open", "send", "summary", "simulate", "close"}
  BY <1>1 DEF InDeposit
<1> QED
  BY <1>4, <1>5, <1>6, <1>7, <1>8, DepositSends

-----------------------------------------------------------------------------
(* Any step.                                                               *)

LEMMA AllProper ==
  ASSUME KInv, NEW p \in Client, Solitary(p), Step(p), ~disturbed'
  PROVE  Proper(p)
<1>1. run[p].job.kind \in Kind
  BY SoloParts DEF Job
<1>2. run[p].job.kind \in OneWrite \cup OfBond \cup
        {"exit-request", "cl-activate", "register-module", "reset-operator-group",
         "create-operator-group", "top-up-active-keys", "activate-keys", "deposit"}
  BY <1>1 DEF Kind, RouterKind, VerifierKind, ManagerKind, GroupKind, OneWrite, OfBond
<1> QED
  BY <1>2, FailedProper, OneProper, BondProper, ExitProper, MirrorProper, ModuleProper, ResetProper,
     CreateProper, TopUpProper, ActivateProper, DepositProper

\* A run that begins is as it should be.
LEMMA StartSane ==
  ASSUME IInv, NEW p \in Client, Start(p), pc'[p] # "idle"
  PROVE  Sane(pc'[p], run'[p], begin', fork') /\ pc'[p] \notin Bracketed
<1>1. PICK j \in Jobs :
        /\ Local(p, [NoRun EXCEPT !.job = j, !.todo = Known(j),
                                  !.unread = j.named,
                                  !.n = IF j.kind = "set-target-limit" THEN targetLimit(j) ELSE j.n])
        /\ IF Invalid(j) THEN End(p, "failed")
           ELSE Goto(p, First(j.kind)) /\ end' = [end EXCEPT ![p] = "none"]
  BY Zenon DEF Start
<1> DEFINE u == j.named
           m == IF j.kind = "set-target-limit" THEN targetLimit(j) ELSE j.n
           r == [NoRun EXCEPT !.job = j, !.todo = Known(j), !.unread = u, !.n = m]
           s == First(j.kind)
<1>2. j \in Job
  BY JobsType DEF IInv
<1>3. r.job = j /\ r.todo = Known(j) /\ r.unread = u /\ r.n = m /\ ~r.failed
  <2> HIDE DEF m, u
  <2> QED
    BY DEF NoRun
<1>4. pc'[p] = s /\ run'[p] = r
  <2>1. ~Invalid(j)
    BY <1>1 DEF End, Goto, IInv, TypeOK
  <2> QED
    BY <1>1, <2>1 DEF Goto, Local, IInv, TypeOK
<1>5. begin' = fork /\ fork' = fork
  BY DEF Start
<1>6. j.kind \in {"deposit", "activate-keys"} => j.n > 0
  <2>1. PICK c \in scenario.commands \cap Kind : j \in Options(c)
    BY Zenon DEF Jobs
  <2>2. j.kind = c /\ (c \in {"deposit", "activate-keys"} => j.n \in 1 .. MaxKeys)
    BY <2>1 DEF Options
  <2> QED
    BY <2>2, KeyRecipesAssumption
<1> HIDE DEF r
<1>7. CASE j.kind \in OneWrite
  <2>1. s \in {"operator", "open"} /\ (s = "operator" <=> j.kind \notin {"unvet", "set-target-limit", "slash", "withdraw"})
    BY <1>7 DEF OneWrite, First, ManagerKind, GroupKind
  <2>2. InOne(s, r, fork, fork)
    <3>1. j.kind = "add-keys" => r.n = j.n + 0
      BY <1>2, <1>3, KeyRecipesAssumption DEF Job
    <3>2. s # "operator" => j.kind \notin ManagerKind /\ j.kind # "confirm-manager" /\ j.kind # "add-keys"
      BY <1>7, <2>1 DEF OneWrite, ManagerKind
    <3> HIDE DEF s
    <3> QED
      BY <1>3, <2>1, <3>1, <3>2 DEF InOne
  <2> HIDE DEF s
  <2>3. Sane(s, r, fork, fork)
    BY <1>3, <1>7, <2>2 DEF Sane, OneWrite, OfBond
  <2> QED
    BY <1>4, <1>5, <2>1, <2>3 DEF Bracketed
<1>8. CASE j.kind \in OfBond
  <2>1. s \in {"operator", "open"} /\ (s = "operator" => j.kind \in ManagerKind)
    BY <1>8 DEF OfBond, First, ManagerKind, GroupKind
  <2> HIDE DEF s
  <2>2. Sane(s, r, fork, fork)
    BY <1>3, <1>8, <2>1 DEF Sane, OneWrite, OfBond, InBond
  <2> QED
    BY <1>4, <1>5, <2>1, <2>2 DEF Bracketed
<1>9. CASE j.kind \in {"exit-request", "cl-activate"}
  <2>1. s = "pubkey" /\ (j.kind = "exit-request" => r.todo = {1, 2, 3})
    BY <1>3, <1>9 DEF First, Known, ManagerKind, GroupKind
  <2>2. Sane("pubkey", r, fork, fork)
    BY <1>3, <1>9, <2>1 DEF Sane, OneWrite, OfBond, InExit, InMirror
  <2> QED
    BY <1>4, <1>5, <2>1, <2>2 DEF Bracketed
<1>10. CASE j.kind = "register-module"
  <2>1. s = "module" /\ r.todo = {}
    BY <1>3, <1>10 DEF First, Known, ManagerKind, GroupKind
  <2>2. Sane("module", r, fork, fork)
    BY <1>3, <1>10, <2>1 DEF Sane, OneWrite, OfBond, InModule
  <2> QED
    BY <1>4, <1>5, <2>1, <2>2 DEF Bracketed
<1>11. CASE j.kind = "reset-operator-group"
  <2>1. s = "groups"
    BY <1>11 DEF First, ManagerKind, GroupKind
  <2>2. Sane("groups", r, fork, fork)
    BY <1>3, <1>11, <2>1 DEF Sane, OneWrite, OfBond, InReset
  <2> QED
    BY <1>4, <1>5, <2>1, <2>2 DEF Bracketed
<1>12. CASE j.kind = "create-operator-group"
  <2>1. s = "groups" /\ r.todo = {NewGroup} /\ r.unread = Joined(j)
    BY <1>3, <1>12 DEF First, Known, ManagerKind, GroupKind, Joined
  <2>2. GroupsOf(fork, Joined(j) \ r.unread) = {}
    BY <2>1 DEF GroupsOf
  <2>3. InCreate("groups", r, fork, fork)
    BY <1>3, <2>1, <2>2 DEF InCreate
  <2>4. Sane("groups", r, fork, fork)
    BY <1>3, <1>12, <2>3 DEF Sane, OneWrite, OfBond
  <2> QED
    BY <1>4, <1>5, <2>1, <2>4 DEF Bracketed
<1>13. CASE j.kind = "top-up-active-keys"
  <2>1. s = "operator"
    BY <1>13 DEF First, ManagerKind, GroupKind
  <2>2. Sane("operator", r, fork, fork)
    BY <1>3, <1>13, <2>1 DEF Sane, OneWrite, OfBond, InTopUp
  <2> QED
    BY <1>4, <1>5, <2>1, <2>2 DEF Bracketed
<1>14. CASE j.kind = "activate-keys"
  <2>1. s = "operator" /\ r.n = j.n
    BY <1>3, <1>14 DEF First, ManagerKind, GroupKind
  <2>2. InActivate("operator", r, fork, fork)
    BY <1>3, <2>1 DEF InActivate
  <2>3. Sane("operator", r, fork, fork)
    BY <1>3, <1>6, <1>14, <2>2 DEF Sane, OneWrite, OfBond
  <2> QED
    BY <1>4, <1>5, <2>1, <2>3 DEF Bracketed
<1>15. CASE j.kind = "deposit"
  <2>1. s = "open" /\ r.todo = {1}
    BY <1>3, <1>15 DEF First, Known, ManagerKind, GroupKind
  <2>2. InDeposit("open", r, fork, fork)
    BY <2>1 DEF InDeposit
  <2>3. Sane("open", r, fork, fork)
    BY <1>3, <1>6, <1>15, <2>2 DEF Sane, OneWrite, OfBond
  <2> QED
    BY <1>4, <1>5, <2>1, <2>3 DEF Bracketed
<1>16. j.kind \in OneWrite \cup OfBond \cup
         {"exit-request", "cl-activate", "register-module", "reset-operator-group",
          "create-operator-group", "top-up-active-keys", "activate-keys", "deposit"}
  BY <1>2 DEF Job, Kind, RouterKind, VerifierKind, ManagerKind, GroupKind, OneWrite, OfBond
<1> QED
  BY <1>7, <1>8, <1>9, <1>10, <1>11, <1>12, <1>13, <1>14, <1>15, <1>16

\* What a step leaves of the other clients and of the history.
LEMMA StepMoves ==
  ASSUME IInv, NEW q \in Client, Step(q)
  PROVE  /\ \A p \in Client \ {q} : pc'[p] = pc[p] /\ run'[p] = run[p]
         /\ Start(q) \/ (pc[q] # "idle" /\ solo' = solo /\ begin' = begin /\ (disturbed => disturbed'))
<1>1. \A r, s : Advance(q, r, s) => /\ pc' = [pc EXCEPT ![q] = s] /\ run' = [run EXCEPT ![q] = r]
                                    /\ disturbed => disturbed'
  BY DEF Advance, End, Goto, Local, Fault
<1>2. \A y : Throw(q, y) =>
        /\ \E s : pc' = [pc EXCEPT ![q] = s]
        /\ run' = run \/ (\E r : run' = [run EXCEPT ![q] = r])
        /\ disturbed => disturbed'
  BY DEF Throw, End, Goto, Local, Fault
<1>3. (\E r, s : Advance(q, r, s)) \/ (\E y : Throw(q, y)) =>
        /\ \A p \in Client \ {q} : pc'[p] = pc[p] /\ run'[p] = run[p]
        /\ disturbed => disturbed'
  <2>1. ASSUME NEW r, NEW s, Advance(q, r, s)
        PROVE  /\ \A p \in Client \ {q} : pc'[p] = pc[p] /\ run'[p] = run[p]
               /\ disturbed => disturbed'
    BY <1>1, <2>1 DEF IInv, TypeOK
  <2>2. ASSUME NEW y, Throw(q, y)
        PROVE  /\ \A p \in Client \ {q} : pc'[p] = pc[p] /\ run'[p] = run[p]
               /\ disturbed => disturbed'
    BY <1>2, <2>2 DEF IInv, TypeOK
  <2> QED
    BY <2>1, <2>2
<1>4. CASE Start(q)
  <2>1. \A p \in Client \ {q} : pc'[p] = pc[p]
    BY <1>4 DEF Start, End, Goto, IInv, TypeOK
  <2>2. \A p \in Client \ {q} : run'[p] = run[p]
    BY <1>4 DEF Start, Local, IInv, TypeOK
  <2> QED
    BY <1>4, <2>1, <2>2
<1>5. CASE Kill(q)
  BY <1>5 DEF Kill, End, Goto, Fault, At, Reads, Steady, IInv, TypeOK
<1>6. CASE Send(q)
  <2>1. pc[q] = "send" /\ solo' = solo /\ begin' = begin
    BY <1>6 DEF Send, At, Steady
  <2>2. (\E r, s : Advance(q, r, s)) \/ (\E y : Throw(q, y)) \/ Again(q)
    <3>1. \E r, s : Reply(q, r, s) \/ Again(q)
      BY <1>6, Zenon DEF Send
    <3> QED
      BY <3>1, Zenon DEF Reply
  <2>3. Again(q) => /\ \A p \in Client \ {q} : pc'[p] = pc[p] /\ run'[p] = run[p]
                    /\ disturbed => disturbed'
    BY DEF Again, client, Fault
  <2>4. /\ \A p \in Client \ {q} : pc'[p] = pc[p] /\ run'[p] = run[p]
        /\ disturbed => disturbed'
    BY <1>3, <2>2, <2>3
  <2> QED
    BY <2>1, <2>4
<1>7. CASE ReadKey(q)
  <2>1. PICK x \in run[q].unread :
          LET key == <<run[q].job.o, x[1]>>
              r == IF x[2]
                   THEN [run[q] EXCEPT !.unread = @ \ {x},
                                       !.keep = IF key \in fork.withdrawn THEN @ \ {x[1]} ELSE @]
                   ELSE [run[q] EXCEPT !.unread = (@ \ {x}) \cup {<<x[1], TRUE>>},
                                       !.keep = IF key \in fork.confirmed THEN @ \ {x[1]} ELSE @]
          IN CASE r.unread # {} -> Advance(q, r, "keys")
               [] r.unread = {} /\ r.job.kind = "top-up-active-keys" ->
                    Advance(q, [r EXCEPT !.todo = r.keep], IF r.keep = {} THEN "idle" ELSE "open")
               [] OTHER -> IF Cardinality(r.keep) < r.n THEN Throw(q, FALSE)
                           ELSE Advance(q, [r EXCEPT !.todo = FirstOf(r.keep, r.n)], "open")
    BY <1>7, Zenon DEF ReadKey
  <2> DEFINE r == IF x[2]
                  THEN [run[q] EXCEPT !.unread = @ \ {x},
                          !.keep = IF <<run[q].job.o, x[1]>> \in fork.withdrawn THEN @ \ {x[1]} ELSE @]
                  ELSE [run[q] EXCEPT !.unread = (@ \ {x}) \cup {<<x[1], TRUE>>},
                          !.keep = IF <<run[q].job.o, x[1]>> \in fork.confirmed THEN @ \ {x[1]} ELSE @]
  <2>2. (CASE r.unread # {} -> Advance(q, r, "keys")
           [] r.unread = {} /\ r.job.kind = "top-up-active-keys" ->
                Advance(q, [r EXCEPT !.todo = r.keep], IF r.keep = {} THEN "idle" ELSE "open")
           [] OTHER -> IF Cardinality(r.keep) < r.n THEN Throw(q, FALSE)
                       ELSE Advance(q, [r EXCEPT !.todo = FirstOf(r.keep, r.n)], "open"))
    BY <2>1
  <2> HIDE DEF r
  <2>3. (\E t, s : Advance(q, t, s)) \/ (\E y : Throw(q, y))
    BY <2>2
  <2>4. pc[q] # "idle" /\ solo' = solo /\ begin' = begin
    BY <1>7 DEF ReadKey, At, Reads, Steady
  <2> QED
    BY <1>3, <2>3, <2>4
<1>8. CASE ReadGroup(q)
  <2>1. (\E r, s : Advance(q, r, s)) \/ (\E y : Throw(q, y))
    BY <1>8, Zenon DEF ReadGroup
  <2>2. pc[q] # "idle" /\ solo' = solo /\ begin' = begin
    BY <1>8, Zenon DEF ReadGroup, At, Reads, Steady
  <2> QED
    BY <1>3, <2>1, <2>2
<1>9. CASE ReadOperator(q)
  <2>1. (\E r, s : Advance(q, r, s)) \/ (\E y : Throw(q, y))
    <3>1. CASE run[q].job.kind \in ManagerKind \cup {"confirm-manager"}
      BY <1>9, <3>1 DEF ReadOperator, ManagerKind
    <3>2. CASE run[q].job.kind \in {"top-up-active-keys", "activate-keys"}
      BY <1>9, <3>2 DEF ReadOperator, ManagerKind
    <3>3. CASE run[q].job.kind \notin ManagerKind \cup {"confirm-manager", "top-up-active-keys", "activate-keys"}
      BY <1>9, <3>3 DEF ReadOperator, ManagerKind
    <3> QED
      BY <3>1, <3>2, <3>3
  <2>2. pc[q] # "idle" /\ solo' = solo /\ begin' = begin
    BY <1>9 DEF ReadOperator, At, Reads, Steady
  <2> QED
    BY <1>3, <2>1, <2>2
<1>10. CASE \/ ReadBond(q) \/ ReadAllocated(q) \/ ReadWithdrawn(q) \/ ReadPubkey(q) \/ FindModule(q)
            \/ ResolveModule(q) \/ ReadRole(q) \/ ReadSource(q) \/ ReadReport(q) \/ ReadClock(q)
            \/ ReadBalance(q)
  <2>1. (\E r, s : Advance(q, r, s)) \/ (\E y : Throw(q, y))
    BY <1>10 DEF ReadBond, ReadAllocated, ReadWithdrawn, ReadPubkey, FindModule, ResolveModule,
                 ReadRole, ReadSource, ReadReport, ReadClock, ReadBalance
  <2>2. pc[q] # "idle" /\ solo' = solo /\ begin' = begin
    BY <1>10 DEF ReadBond, ReadAllocated, ReadWithdrawn, ReadPubkey, FindModule, ResolveModule,
                 ReadRole, ReadSource, ReadReport, ReadClock, ReadBalance, At, Reads, Steady
  <2> QED
    BY <1>3, <2>1, <2>2
<1>11. CASE \/ Open(q) \/ SendFails(q) \/ Summary(q) \/ Simulate(q) \/ Close(q) \/ Post(q) \/ Lose(q)
  <2>1. (\E r, s : Advance(q, r, s)) \/ (\E y : Throw(q, y))
    BY <1>11 DEF Open, SendFails, Summary, Simulate, Close, Post, Lose, Reply
  <2>2. pc[q] # "idle" /\ solo' = solo /\ begin' = begin
    BY <1>11 DEF Open, SendFails, Summary, Simulate, Close, Post, Lose, At, Reads, Steady
  <2> QED
    BY <1>3, <2>1, <2>2
<1> QED
  BY <1>4, <1>5, <1>6, <1>7, <1>8, <1>9, <1>10, <1>11 DEF Step

\* The fork stays one that deposits took keys from in turn.
LEMMA SendConsistent ==
  ASSUME IInv, Consistent(fork), NEW p \in Client, Send(p)
  PROVE  Consistent(fork')
<1>1. PICK w \in NextWrites(run[p]) : Accepts(fork, run[p], w) /\ fork' \in Effects(fork, run[p], w)
  BY Zenon DEF Send, Takes
<1>2. run[p] \in Run /\ fork \in Fork
  BY DEF IInv, TypeOK
<1> QED
  BY <1>1, <1>2, EffectsConsistent

LEMMA StepConsistent ==
  ASSUME IInv, AllConsistent, NEW p \in Client, Step(p)
  PROVE  AllConsistent'
<1>1. snap' = snap
  BY Zenon DEF Step, Start, ReadOperator, ReadBond, ReadAllocated, ReadKey, ReadWithdrawn, ReadPubkey,
     FindModule, ResolveModule, ReadRole, ReadSource, ReadReport, ReadClock, ReadGroup, Open, Send, SendFails,
     Summary, Simulate, Close, ReadBalance, Post, Lose, Kill, Reads, Steady
<1>2. Consistent(fork')
  <2>1. CASE ~Send(p)
    <3>1. fork' = fork
      BY <2>1, Zenon DEF Step, Start, ReadOperator, ReadBond, ReadAllocated, ReadKey, ReadWithdrawn,
         ReadPubkey, FindModule, ResolveModule, ReadRole, ReadSource, ReadReport, ReadClock, ReadGroup, Open,
         SendFails, Summary, Simulate, Close, ReadBalance, Post, Lose, Kill, Reads
    <3> QED
      BY <3>1 DEF AllConsistent
  <2>2. CASE Send(p)
    BY <2>2, SendConsistent DEF AllConsistent
  <2> QED
    BY <2>1, <2>2
<1>3. Consistent(begin')
  <2>1. CASE Start(p)
    BY <2>1 DEF Start, AllConsistent
  <2>2. CASE ~Start(p)
    <3>1. begin' = begin
      BY <2>2, StepMoves
    <3> QED
      BY <3>1 DEF AllConsistent
  <2> QED
    BY <2>1, <2>2
<1> QED
  BY <1>1, <1>2, <1>3 DEF AllConsistent

LEMMA WorldConsistent ==
  ASSUME IInv, AllConsistent, warpBy \/ snapshot \/ revert
  PROVE  AllConsistent'
<1>1. begin' = begin
  BY DEF warpBy, snapshot, revert, Passes
<1>2. CASE warpBy
  <2>1. fork' = [fork EXCEPT !.day = fork.day + 1] /\ snap' = snap
    BY <1>2 DEF warpBy
  <2>2. fork'.turn = fork.turn /\ fork'.deposited = fork.deposited /\ fork'.done = fork.done
        /\ fork'.reported = fork.reported
    BY <2>1 DEF IInv, TypeOK, Fork
  <2>3. Consistent(fork')
    BY <2>2 DEF AllConsistent, Consistent, Deposited
  <2> QED
    BY <1>1, <2>1, <2>3 DEF AllConsistent
<1>3. CASE snapshot
  BY <1>1, <1>3 DEF snapshot, AllConsistent
<1>4. CASE revert
  BY <1>1, <1>4 DEF revert, AllConsistent
<1> QED
  BY <1>2, <1>3, <1>4

\* A client's step preserves what is known of the run that is alone.
LEMMA StepAlone ==
  ASSUME KInv, NEW q \in Client, Step(q)
  PROVE  Alone' /\ SaneRun'
<1>1. /\ \A p \in Client \ {q} : pc'[p] = pc[p] /\ run'[p] = run[p]
      /\ Start(q) \/ (pc[q] # "idle" /\ solo' = solo /\ begin' = begin /\ (disturbed => disturbed'))
  BY StepMoves DEF KInv
<1>2. Nobody \notin Client
  BY KeyRecipesAssumption
<1>3. Start(q) => solo' = IF \A z \in Client \ {q} : pc[z] = "idle" THEN q ELSE Nobody
  BY DEF Start, At
<1>4. Alone'
  <2>1. CASE Start(q)
    BY <1>1, <1>3, <2>1 DEF Alone
  <2>2. CASE ~Start(q)
    <3>1. solo # Nobody => q = solo
      BY <1>1, <2>2 DEF KInv, Alone
    <3> QED
      BY <1>1, <2>2, <3>1 DEF KInv, Alone
  <2> QED
    BY <2>1, <2>2
<1>5. ASSUME NEW p \in Client, solo' = p, ~disturbed', pc'[p] # "idle"
      PROVE  /\ Sane(pc'[p], run'[p], begin', fork')
             /\ pc'[p] \in Bracketed => run'[p].as \in impersonated'
  <2>1. CASE Start(q)
    <3>1. p = q
      BY <1>2, <1>3, <1>5, <2>1
    <3> QED
      BY <1>5, <2>1, <3>1, StartSane DEF KInv
  <2>2. CASE ~Start(q)
    <3>1. solo = p /\ ~disturbed /\ pc[q] # "idle"
      BY <1>1, <1>5, <2>2
    <3>2. p = q
      BY <1>2, <3>1 DEF KInv, Alone
    <3>3. Solitary(p)
      BY <3>1, <3>2 DEF Solitary
    <3>4. Proper(p)
      BY <1>5, <3>2, <3>3, AllProper
    <3> QED
      BY <1>5, <3>4 DEF Proper
  <2> QED
    BY <2>1, <2>2
<1>6. SaneRun'
  BY <1>5 DEF SaneRun, Solitary
<1> QED
  BY <1>4, <1>6

\* Only its own step ends a run that is alone, and then as it ought to.
LEMMA EndsProper ==
  ASSUME KInv, Next, NEW p \in Client
  PROVE  FailsForReason(p) /\ DoesAll(p) /\ Mirrors(p)
<1> SUFFICES ASSUME solo = p, pc[p] # "idle", pc'[p] = "idle", ~disturbed'
             PROVE  FailsForReason(p) /\ DoesAll(p) /\ Mirrors(p)
  BY DEF FailsForReason, DoesAll, Mirrors, AloneEnds, At
<1>1. PICK q \in Client : Step(q)
  BY DEF Next, warpBy, snapshot, revert, Passes, client
<1>2. /\ \A z \in Client \ {q} : pc'[z] = pc[z]
      /\ Start(q) \/ (pc[q] # "idle" /\ solo' = solo /\ (disturbed => disturbed'))
  BY <1>1, StepMoves DEF KInv
<1>3. p = q
  BY <1>2
<1>4. ~Start(q)
  BY <1>3, Zenon DEF Start, At
<1>5. Solitary(p)
  BY <1>2, <1>4 DEF Solitary
<1> QED
  BY <1>1, <1>3, <1>5, AllProper DEF Proper

-----------------------------------------------------------------------------
(* The results.                                                            *)

\* IInv holds in every reachable state: the typed fork, locals and history, and what
\* each recipe's locals say about the exits that VEBO has processed.
THEOREM Invariance == Spec => []IInv
<1>1. IInv /\ [Next]_vars => IInv'
  BY NextKeeps
<1> QED
  BY <1>1, Initially, PTL DEF Spec

\* Every variable keeps its type: no recipe, fault or revert takes a count of keys past
\* its bound, or has a client send a write or tell the cl mock a balance that is none.
THEOREM TypeCorrect == Spec => []TypeOK
<1>1. IInv => TypeOK
  BY DEF IInv
<1> QED
  BY <1>1, Invariance, PTL

\* However the recipes of any number of clients overlap, fail, are killed and repeated,
\* and whatever is snapshot and reverted, a validator that the cl mock shows to be
\* exiting had its exit processed by VEBO (exit-request.ts).
THEOREM ExitingIsRequested == Spec => []ExitingWasRequested
<1>1. IInv => ExitingWasRequested
  BY DEF IInv
<1> QED
  BY <1>1, Invariance, PTL

\* KInv holds in every reachable state: as long as a client's run overlaps no other and
\* meets no fault, its next RPC and its locals say what the fork was when the run began
\* and what of its writes the fork has, whatever earlier runs left there.
THEOREM SoloInvariance == Spec => []KInv
<1>1. Init => KInv
  <2> SUFFICES ASSUME Init PROVE KInv
    OBVIOUS
  <2>1. IInv
    BY Initially
  <2>2. AllConsistent
    BY ForkAssumption DEF Init, AllConsistent
  <2>3. Alone /\ SaneRun
    BY DEF Init, Alone, SaneRun, Solitary
  <2> QED
    BY <2>1, <2>2, <2>3 DEF KInv
<1>2. KInv /\ [Next]_vars => KInv'
  <2> SUFFICES ASSUME KInv, [Next]_vars PROVE KInv'
    OBVIOUS
  <2>1. IInv'
    BY NextKeeps DEF KInv
  <2>2. CASE \E p \in Client : Step(p)
    BY <2>1, <2>2, StepConsistent, StepAlone DEF KInv
  <2>3. CASE warpBy \/ snapshot \/ revert
    <3>1. AllConsistent'
      BY <2>3, WorldConsistent DEF KInv
    <3>2. pc' = pc /\ run' = run /\ solo' = solo /\ begin' = begin /\ (solo # Nobody => disturbed')
      BY <2>3 DEF warpBy, snapshot, revert, Passes, client
    <3>3. Alone'
      BY <3>2 DEF KInv, Alone
    <3>4. SaneRun'
      BY <3>2, KeyRecipesAssumption DEF SaneRun, Solitary
    <3> QED
      BY <2>1, <3>1, <3>3, <3>4 DEF KInv
  <2>4. CASE UNCHANGED vars
    <3>1. AllConsistent' /\ Alone' /\ SaneRun'
      BY <2>4 DEF KInv, AllConsistent, Alone, SaneRun, Solitary, vars, client, history
    <3> QED
      BY <2>1, <3>1 DEF KInv
  <2> QED
    BY <2>2, <2>3, <2>4 DEF Next
<1> QED
  BY <1>1, <1>2, PTL DEF Spec

LEMMA RunsEndProperly ==
  ASSUME KInv, [Next]_vars
  PROVE  [\A p \in Client : FailsForReason(p) /\ DoesAll(p) /\ Mirrors(p)]_vars
BY EndsProper

\* A recipe that overlaps no other and meets no fault fails only for a reason that the
\* fork gave as it began: a half-finished run, a duplicate, a kill or a revert before it
\* leaves nothing in its way, whichever contracts' state and options it is for.
THEOREM AloneRunsSucceed == Spec => AloneSucceeds
<1>1. KInv /\ [Next]_vars => [\A p \in Client : FailsForReason(p)]_vars
  BY RunsEndProperly
<1> QED
  BY <1>1, SoloInvariance, PTL DEF Spec, AloneSucceeds

\* If it succeeds the fork has all that it is for, and nothing else has changed: as many
\* deposits as it said, the whole queue of the operator topped up, the least keys
\* activated, the exit processed, the module registered, the groups made or dissolved.
THEOREM AloneRunsDo == Spec => AloneDoes
<1>1. KInv /\ [Next]_vars => [\A p \in Client : DoesAll(p)]_vars
  BY RunsEndProperly
<1> QED
  BY <1>1, SoloInvariance, PTL DEF Spec, AloneDoes

\* Then the cl mock shows the validator with its status and the balance that the fork
\* has allocated to its key (exit-request.ts, cl-activate.ts).
THEOREM AloneRunsMirror == Spec => AloneMirrors
<1>1. KInv /\ [Next]_vars => [\A p \in Client : Mirrors(p)]_vars
  BY RunsEndProperly
<1> QED
  BY <1>1, SoloInvariance, PTL DEF Spec, AloneMirrors
=============================================================================
