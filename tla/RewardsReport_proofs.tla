------------------------ MODULE RewardsReport_proofs ------------------------
(***************************************************************************)
(* What FeeDistributor promises is covered: the current tree, and every    *)
(* tree a client has carried forward, is below what accepted reports have  *)
(* paid out and what was carried forward beyond it, and what a client is   *)
(* about to report is its tree and the draws it distributes.  And the run of a client that is  *)
(* alone and undisturbed finds, at each RPC, what its last one has left.   *)
(***************************************************************************)
EXTENDS RewardsReport, FiniteSetTheorems, TLAPS

\* A report has been made and is on its way.
Reporting == Pc \ {"idle", "read", "build"}

\* Before the first vote of a run.
Unvoted == Pc \ {"idle", "vote", "data"}

\* What holds of the locals j of a client at s.
Fine(s, j) ==
  /\ \A o \in Operator : j.prev[o] <= paid[o] + over[o]
  /\ s \in Reporting => /\ j.report.tree = cumulatives(j.prev, j.delta)
                        /\ j.report.distributed = j.distributed
  /\ s = "fund" => j.need > 0
  /\ s \in Unvoted => j.i = 1
  /\ s = "vote" => j.i \in 1 .. Len(j.voters)

\* Nothing that was distributed or carried forward is taken back.
Grows ==
  /\ paid' \in Tree /\ over' \in Tree
  /\ \A o \in Operator : paid[o] + over[o] <= paid'[o] + over'[o]

IInv == TypeOK /\ Solvent /\ \A p \in Client : Fine(pc[p], job[p])

-----------------------------------------------------------------------------
(* Numbers.                                                                *)

LEMMA ZeroType == Zero \in Tree /\ \A o \in Operator : Zero[o] = 0
BY DEF Zero, Tree

LEMMA ProductType == ASSUME NEW m \in Nat, NEW n \in Nat PROVE m * n \in Nat
OBVIOUS

\* A draw is a number of shares.
LEMMA DrawType == ASSUME NEW n \in 0 .. MaxKeys, NEW d \in Draws(n) PROVE d \in Nat
<1>1. n \in Nat /\ MinReward \in Nat /\ MinReward + RewardSpan - 1 \in Nat
  BY RewardsAssumption
<1>2. n * MinReward \in Nat /\ n * (MinReward + RewardSpan - 1) \in Nat
  BY <1>1, ProductType
<1> QED
  BY <1>2 DEF Draws

\* Trees add up, leaf by leaf.
LEMMA CumulativesType ==
  ASSUME NEW prev \in Tree, NEW delta \in Tree
  PROVE  /\ cumulatives(prev, delta) \in Tree
         /\ \A o \in Operator : cumulatives(prev, delta)[o] = prev[o] + delta[o]
BY DEF cumulatives, Tree

LEMMA FrameType == ASSUME NEW t \in Int PROVE FrameRefSlot(t) \in Int
<1>1. EpochAt(t) \in Int
  BY RewardsAssumption DEF EpochAt
<1>2. FrameAt(t) \in Int /\ FrameSlots \in Int
  BY <1>1, RewardsAssumption DEF FrameAt, FrameSlots
<1> QED
  BY <1>2, RewardsAssumption DEF FrameRefSlot

LEMMA FrameStartType == ASSUME NEW ref \in Int PROVE frameStart(ref) \in Int /\ initialStart \in Int
BY RewardsAssumption DEF frameStart, initialStart, FrameSlots

-----------------------------------------------------------------------------
(* A step of one client.                                                   *)

LEMMA NoJobType == NoJob \in Job /\ NoReport \in Report
<1>1. NoReport \in Report
  BY ZeroType DEF NoReport, Report
<1>2. <<>> \in Seq(Voter)
  OBVIOUS
<1> QED
  BY <1>1, <1>2, ZeroType DEF NoJob, Job

\* The client goes on at s with the locals j, and nothing is taken back.
LEMMA Goes ==
  ASSUME IInv, NEW p \in Client, NEW s \in Pc, NEW j \in Job,
         pc' = [pc EXCEPT ![p] = s], job' = [job EXCEPT ![p] = j],
         Grows,
         Fine(s, j)
  PROVE  /\ pc' \in [Client -> Pc] /\ job' \in [Client -> Job]
         /\ \A q \in Client : Fine(pc[q], job[q])'
<1>1. pc' \in [Client -> Pc] /\ job' \in [Client -> Job]
  BY DEF IInv, TypeOK
<1>2. ASSUME NEW q \in Client PROVE Fine(pc[q], job[q])'
  <2>1. Fine(pc'[q], job'[q]) /\ job'[q] \in Job
    BY <1>1 DEF IInv, TypeOK
  <2>2. \A o \in Operator : job'[q].prev[o] <= paid'[o] + over'[o]
    <3>1. ASSUME NEW o \in Operator PROVE job'[q].prev[o] <= paid'[o] + over'[o]
      <4>1. /\ job'[q].prev[o] <= paid[o] + over[o]
            /\ paid[o] + over[o] <= paid'[o] + over'[o]
        BY <2>1 DEF Fine, Grows
      <4>2. /\ job'[q].prev[o] \in Nat /\ paid[o] \in Nat /\ over[o] \in Nat
            /\ paid'[o] \in Nat /\ over'[o] \in Nat
        BY <2>1 DEF Job, Tree, IInv, TypeOK, Grows
      <4> QED
        BY <4>1, <4>2
    <3> QED
      BY <3>1
  <2> QED
    BY <2>1, <2>2 DEF Fine
<1> QED
  BY <1>1, <1>2

\* The same, with the locals as they are.
LEMMA Stays ==
  ASSUME IInv, NEW p \in Client, NEW s \in Pc,
         pc' = [pc EXCEPT ![p] = s], job' = job,
         Grows,
         Fine(s, job[p])
  PROVE  /\ pc' \in [Client -> Pc] /\ job' \in [Client -> Job]
         /\ \A q \in Client : Fine(pc[q], job[q])'
<1>1. job[p] \in Job /\ job' = [job EXCEPT ![p] = job[p]]
  BY DEF IInv, TypeOK
<1> QED
  BY <1>1, Goes

\* How a step ends.
LEMMA Ends ==
  ASSUME IInv, NEW p \in Client, NEW s \in Pc \ {"fund", "vote"}, NEW fault \in BOOLEAN,
         NEW how \in {"none", "submitted", "skipped", "failed"},
         Advance(p, s) \/ Throw(p, fault) \/ Reply(p, s) \/ End(p, how)
  PROVE  /\ end' \in [Client -> {"none", "submitted", "skipped", "failed"}]
         /\ disturbed' \in BOOLEAN
         /\ \E t \in {s, "idle"} : pc' = [pc EXCEPT ![p] = t]
BY DEF Advance, Throw, Reply, End, Goto, IInv, TypeOK

LEMMA PaidStays ==
  ASSUME IInv, UNCHANGED Distributed
  PROVE  Grows
BY DEF Grows, Distributed, IInv, TypeOK, Tree

\* A step that only the client's locals take part in.
LEMMA LocalStep ==
  ASSUME IInv, UNCHANGED <<Fork, Kept, Distributed>>,
         pc' \in [Client -> Pc], job' \in [Client -> Job],
         \A q \in Client : Fine(pc[q], job[q])',
         end' \in [Client -> {"none", "submitted", "skipped", "failed"}], disturbed' \in BOOLEAN
  PROVE  IInv'
BY DEF IInv, TypeOK, Solvent, Fork, Kept, Distributed

\* The next RPC of the client may be any but a funding or a vote.
LEMMA Advances ==
  ASSUME IInv, NEW p \in Client, NEW s \in Pc \ {"fund", "vote"}, NEW j \in Job,
         Local(p, j), Goto(p, s), UNCHANGED <<Fork, Kept, Distributed, end, disturbed>>, Fine(s, j)
  PROVE  IInv'
<1>1. end' \in [Client -> {"none", "submitted", "skipped", "failed"}] /\ disturbed' \in BOOLEAN
  BY DEF IInv, TypeOK
<1>2. /\ pc' \in [Client -> Pc] /\ job' \in [Client -> Job]
      /\ \A q \in Client : Fine(pc[q], job[q])'
  BY Goes, PaidStays DEF Local, Goto
<1> QED
  BY <1>1, <1>2, LocalStep

\* A run that ends leaves its locals alone.
LEMMA Throws ==
  ASSUME IInv, NEW p \in Client, NEW fault \in BOOLEAN, Throw(p, fault),
         UNCHANGED <<Fork, Kept, Distributed, job>>
  PROVE  IInv'
<1>1. /\ end' \in [Client -> {"none", "submitted", "skipped", "failed"}] /\ disturbed' \in BOOLEAN
      /\ pc' = [pc EXCEPT ![p] = "idle"]
  BY DEF Throw, Goto, IInv, TypeOK
<1>2. Fine("idle", job[p]) /\ "idle" \in Pc
  BY DEF Fine, IInv, Reporting, Unvoted, Pc
<1>3. /\ pc' \in [Client -> Pc] /\ job' \in [Client -> Job]
      /\ \A q \in Client : Fine(pc[q], job[q])'
  BY <1>1, <1>2, Stays, PaidStays
<1> QED
  BY <1>1, <1>3, LocalStep

-----------------------------------------------------------------------------
(* Reading and building.                                                   *)

\* A tree that is carried forward is covered from then on.
LEMMA BeyondCovers ==
  ASSUME IInv, NEW given \in Carried, over' = Beyond(given), paid' = paid
  PROVE  Grows /\ \A o \in Operator : given[o] <= paid'[o] + over'[o]
<1>1. ASSUME NEW o \in Operator
      PROVE  /\ over'[o] \in Nat /\ paid[o] + over[o] <= paid'[o] + over'[o]
             /\ given[o] <= paid'[o] + over'[o]
  <2>1. over'[o] = IF given[o] > paid[o] + over[o] THEN given[o] - paid[o] ELSE over[o]
    BY DEF Beyond
  <2>2. given[o] \in Nat /\ paid[o] \in Nat /\ over[o] \in Nat
    BY RewardsAssumption DEF Carried, IInv, TypeOK, Tree
  <2> QED
    BY <2>1, <2>2
<1>2. over' \in Tree /\ paid' \in Tree
  BY <1>1 DEF Beyond, Tree, IInv, TypeOK
<1> QED
  BY <1>1, <1>2 DEF Grows

LEMMA StartKeeps ==
  ASSUME IInv, NEW p \in Client, Start(p)
  PROVE  IInv'
<1>1. PICK given \in Carried : Begin(p, given, given)
  BY DEF Start
<1> DEFINE j == [NoJob EXCEPT !.prev = given, !.unread = Operator]
<1>2. given \in Tree
  BY RewardsAssumption DEF Carried, Tree
<1>3. j \in Job /\ j.prev = given /\ j.i = 1
  BY <1>2, NoJobType DEF Job, NoJob
<1>4. over' = Beyond(given) /\ paid' = paid
  BY <1>1 DEF Begin
<1>5. Grows /\ (\A o \in Operator : j.prev[o] <= paid'[o] + over'[o]) /\ "read" \in Pc
  BY <1>3, <1>4, BeyondCovers DEF Pc
<1>6. pc' = [pc EXCEPT ![p] = "read"] /\ job' = [job EXCEPT ![p] = j]
  BY <1>1 DEF Begin, Local, Goto
<1> HIDE DEF j
<1>7. /\ pc' \in [Client -> Pc] /\ job' \in [Client -> Job]
      /\ \A q \in Client : Fine(pc[q], job[q])'
  <2>1. \A q \in Client \ {p} : pc'[q] = pc[q] /\ job'[q] = job[q]
    BY <1>6 DEF IInv, TypeOK
  <2>2. pc' \in [Client -> Pc] /\ job' \in [Client -> Job]
    BY <1>3, <1>5, <1>6 DEF IInv, TypeOK
  <2>3. pc'[p] = "read" /\ job'[p] = j
    BY <1>6 DEF IInv, TypeOK
  <2>4. Fine(pc[p], job[p])'
    BY <1>3, <1>5, <2>3 DEF Fine, Reporting, Unvoted, Pc
  <2>5. ASSUME NEW q \in Client \ {p} PROVE Fine(pc[q], job[q])'
    <3>1. ASSUME NEW o \in Operator PROVE job[q].prev[o] <= paid'[o] + over'[o]
      <4>1. /\ job[q].prev[o] <= paid[o] + over[o]
            /\ paid[o] + over[o] <= paid'[o] + over'[o]
        BY <1>5 DEF IInv, Fine, Grows
      <4>2. /\ job[q].prev[o] \in Nat /\ paid[o] \in Nat /\ over[o] \in Nat
            /\ paid'[o] \in Nat /\ over'[o] \in Nat
        BY <1>5 DEF IInv, TypeOK, Job, Tree, Grows
      <4> QED
        BY <4>1, <4>2
    <3> QED
      BY <2>1, <3>1 DEF IInv, Fine
  <2> QED
    BY <2>2, <2>4, <2>5
<1>8. /\ UNCHANGED <<now, active, votes, processed, pending, tree>>
      /\ end' = [end EXCEPT ![p] = "none"] /\ disturbed' = FALSE /\ changed' = FALSE
      /\ start' = tree /\ solo' \in Client \cup {Nobody}
  BY <1>1 DEF Begin, Fork
<1>9. Solvent'
  <2>1. ASSUME NEW o \in Operator PROVE tree'[o] <= paid'[o] + over'[o]
    <3>1. tree[o] <= paid[o] + over[o] /\ paid[o] + over[o] <= paid'[o] + over'[o] /\ tree' = tree
      BY <1>5, <1>8 DEF IInv, Solvent, Grows
    <3>2. /\ tree[o] \in Nat /\ paid[o] \in Nat /\ over[o] \in Nat
          /\ paid'[o] \in Nat /\ over'[o] \in Nat
      BY <1>5 DEF IInv, TypeOK, Tree, Grows
    <3> QED
      BY <3>1, <3>2
  <2> QED
    BY <2>1 DEF Solvent
<1> QED
  BY <1>5, <1>7, <1>8, <1>9 DEF IInv, TypeOK, Grows

LEMMA ReadOperatorKeeps ==
  ASSUME IInv, NEW p \in Client, ReadOperator(p)
  PROVE  IInv'
<1>1. PICK o \in job[p].unread, d \in UNION {Draws(n) : n \in 0 .. MaxKeys} :
        /\ Local(p, [job[p] EXCEPT !.unread = @ \ {o}, !.delta[o] = d, !.distributed = @ + d])
        /\ Advance(p, IF job[p].unread = {o} THEN "build" ELSE "read")
  BY DEF ReadOperator
<1> DEFINE j == [job[p] EXCEPT !.unread = @ \ {o}, !.delta[o] = d, !.distributed = @ + d]
           s == IF job[p].unread = {o} THEN "build" ELSE "read"
<1>2. job[p] \in Job
  BY DEF IInv, TypeOK
<1>3. o \in Operator
  BY <1>2 DEF Job
<1>4. d \in Nat
  BY DrawType
<1>5. [job[p].delta EXCEPT ![o] = d] \in Tree /\ job[p].distributed + d \in Nat
      /\ job[p].unread \ {o} \in SUBSET Operator
  BY <1>2, <1>3, <1>4 DEF Job, Tree
<1>6. j \in Job /\ j.prev = job[p].prev /\ j.i = job[p].i
  BY <1>2, <1>5 DEF Job
<1>7. Fine(s, j) /\ s \in Pc \ {"fund", "vote"}
  BY <1>6 DEF ReadOperator, At, Fine, Reporting, Unvoted, Pc, IInv
<1> HIDE DEF j, s
<1>8. Local(p, j) /\ Goto(p, s) /\ UNCHANGED <<Fork, Kept, Distributed, end, disturbed>>
  BY <1>1 DEF j, s, ReadOperator, Advance
<1> QED
  BY <1>6, <1>7, <1>8, Advances

LEMMA BuildKeeps ==
  ASSUME IInv, NEW p \in Client, Build(p)
  PROVE  IInv'
<1> DEFINE cum == cumulatives(job[p].prev, job[p].delta)
<1>1. job[p] \in Job /\ (\A o \in Operator : job[p].prev[o] <= paid[o] + over[o])
  BY DEF IInv, TypeOK, Fine
<1>2. UNCHANGED <<Fork, Kept, Distributed>>
  BY DEF Build
<1>3. CASE cum = Zero
  <2>1. End(p, "skipped") /\ UNCHANGED job
    BY <1>3 DEF Build
  <2>2. /\ end' \in [Client -> {"none", "submitted", "skipped", "failed"}] /\ disturbed' \in BOOLEAN
        /\ pc' = [pc EXCEPT ![p] = "idle"]
    BY <2>1 DEF End, Goto, IInv, TypeOK
  <2>3. Fine("idle", job[p]) /\ "idle" \in Pc
    BY <1>1 DEF Fine, Reporting, Unvoted, Pc
  <2>4. /\ pc' \in [Client -> Pc] /\ job' \in [Client -> Job]
        /\ \A q \in Client : Fine(pc[q], job[q])'
    BY <1>2, <2>1, <2>2, <2>3, Stays, PaidStays
  <2> QED
    BY <1>2, <2>2, <2>4, LocalStep
<1>4. CASE cum # Zero
  <2>1. PICK given \in SUBSET {"tree", "log"} : \E out \in Pins(given) :
          IF out = "throws" THEN Throw(p, TRUE) /\ UNCHANGED job
          ELSE /\ Local(p, [job[p] EXCEPT !.report =
                     [tree |-> cum, distributed |-> job[p].distributed, cids |-> out = "pinned"]])
               /\ Advance(p, "pending")
    BY <1>4 DEF Build
  <2>2. PICK out \in Pins(given) :
          IF out = "throws" THEN Throw(p, TRUE) /\ UNCHANGED job
          ELSE /\ Local(p, [job[p] EXCEPT !.report =
                     [tree |-> cum, distributed |-> job[p].distributed, cids |-> out = "pinned"]])
               /\ Advance(p, "pending")
    BY <2>1
  <2>3. CASE out = "throws"
    BY <1>2, <2>2, <2>3, Throws
  <2>4. CASE out # "throws"
    <3> DEFINE pinned == out = "pinned"
               r == [tree |-> cum, distributed |-> job[p].distributed, cids |-> pinned]
               j == [job[p] EXCEPT !.report = r]
    <3>1. cum \in Tree /\ job[p].distributed \in Nat
      BY <1>1, CumulativesType DEF Job
    <3>2. \A b \in BOOLEAN :
            [tree |-> cum, distributed |-> job[p].distributed, cids |-> b] \in Report
      BY <3>1, SMT DEF Report
    <3>3. pinned \in BOOLEAN
      BY Zenon
    <3>4. r \in Report /\ r.tree = cum /\ r.distributed = job[p].distributed
      BY <3>2, <3>3, Zenon
    <3>5. Local(p, j) /\ Advance(p, "pending")
      BY <2>2, <2>4, Zenon
    <3> HIDE DEF r, cum
    <3>6. /\ j \in Job /\ j.prev = job[p].prev /\ j.delta = job[p].delta
          /\ j.distributed = job[p].distributed /\ j.report = r /\ j.i = 1
      BY <1>1, <3>4 DEF Job, Build, At, IInv, Fine, Unvoted, Pc
    <3>7. Fine("pending", j) /\ "pending" \in Pc \ {"fund", "vote"}
      BY <1>1, <3>4, <3>6 DEF Fine, Unvoted, Pc, cum
    <3> HIDE DEF j
    <3> QED
      BY <1>2, <3>5, <3>6, <3>7, Advances DEF Advance
  <2> QED
    BY <2>3, <2>4
<1> QED
  BY <1>3, <1>4

-----------------------------------------------------------------------------
(* Submitting.                                                             *)

\* Going on between two RPCs of a report.
LEMMA GoesOn ==
  ASSUME IInv, NEW p \in Client, NEW s \in Pc \ {"fund", "vote"}, pc[p] \in Reporting \cap Unvoted,
         Advance(p, s), UNCHANGED <<Fork, Kept, Distributed, job>>
  PROVE  IInv'
<1>1. Fine(s, job[p]) /\ job[p] \in Job
  BY DEF IInv, TypeOK, Fine, Reporting, Unvoted
<1>2. Local(p, job[p]) /\ Goto(p, s) /\ UNCHANGED <<Fork, Kept, Distributed, end, disturbed>>
  BY DEF Local, Advance, IInv, TypeOK
<1> QED
  BY <1>1, <1>2, Advances

LEMMA ReadPendingKeeps ==
  ASSUME IInv, NEW p \in Client, ReadPending(p)
  PROVE  IInv'
<1>1. job[p] \in Job /\ pc[p] \in Reporting \cap Unvoted /\ pending \in Nat
  BY DEF IInv, TypeOK, ReadPending, At, Reporting, Unvoted, Pc
<1>2. CASE pending < job[p].distributed
  <2> DEFINE need == job[p].distributed - pending
             j == [job[p] EXCEPT !.need = need]
  <2>1. Local(p, j) /\ Advance(p, "fund") /\ UNCHANGED <<Fork, Kept, Distributed>>
    BY <1>2 DEF ReadPending
  <2>2. need \in Nat /\ need > 0
    BY <1>1, <1>2 DEF Job
  <2>3. j \in Job /\ j.need = need /\ j.prev = job[p].prev /\ j.delta = job[p].delta
        /\ j.distributed = job[p].distributed /\ j.report = job[p].report /\ j.i = job[p].i
    BY <1>1, <2>2 DEF Job
  <2>4. Fine("fund", j) /\ "fund" \in Pc
    BY <1>1, <2>2, <2>3 DEF Fine, Unvoted, Pc, IInv
  <2>5. /\ pc' \in [Client -> Pc] /\ job' \in [Client -> Job]
        /\ \A q \in Client : Fine(pc[q], job[q])'
    <3> HIDE DEF j
    <3> QED
      BY <2>1, <2>3, <2>4, Goes, PaidStays DEF Local, Advance, Goto
  <2>6. end' = end /\ disturbed' = disturbed
    BY <2>1 DEF Advance
  <2> QED
    BY <2>1, <2>5, <2>6, LocalStep DEF IInv, TypeOK
<1>3. CASE ~(pending < job[p].distributed)
  <2>1. Advance(p, "epoch") /\ UNCHANGED <<Fork, Kept, Distributed, job>> /\ "epoch" \in Pc \ {"fund", "vote"}
    BY <1>3 DEF ReadPending, Pc
  <2> QED
    BY <1>1, <2>1, GoesOn
<1> QED
  BY <1>2, <1>3

\* A write of the fork's other variables, the client going on, or not having the reply.
LEMMA WriteStep ==
  ASSUME IInv, NEW p \in Client, NEW s \in Pc \ {"fund", "vote"}, pc[p] \in Reporting \cap Unvoted,
         Reply(p, s) \/ Throw(p, FALSE), UNCHANGED <<active, tree, job, Kept, Distributed>>,
         now' \in Nat, pending' \in Nat, votes' = votes, processed' = processed
  PROVE  IInv'
<1>1. PICK t \in {s, "idle"} : pc' = [pc EXCEPT ![p] = t]
  BY Ends
<1>2. /\ end' \in [Client -> {"none", "submitted", "skipped", "failed"}]
      /\ disturbed' \in BOOLEAN
  BY Ends
<1>3. Fine(t, job[p]) /\ t \in Pc
  BY DEF IInv, TypeOK, Fine, Reporting, Unvoted, Pc
<1>4. /\ pc' \in [Client -> Pc] /\ job' \in [Client -> Job]
      /\ \A q \in Client : Fine(pc[q], job[q])'
  BY <1>1, <1>3, Stays, PaidStays
<1> QED
  BY <1>2, <1>4 DEF IInv, TypeOK, Solvent, Kept, Distributed

LEMMA FundKeeps ==
  ASSUME IInv, NEW p \in Client, Fund(p)
  PROVE  IInv'
<1>1. PICK rounding \in {0, 1} : pending' = pending + job[p].need - rounding + Ether
  BY DEF Fund
<1>2. pending \in Nat /\ job[p].need \in Nat /\ job[p].need > 0 /\ Ether \in Nat
  BY RewardsAssumption DEF IInv, TypeOK, Job, Fine, Fund, At
<1>3. pending' \in Nat
  BY <1>1, <1>2
<1>4. /\ pc[p] \in Reporting \cap Unvoted /\ "epoch" \in Pc /\ Reply(p, "epoch")
      /\ UNCHANGED <<now, active, votes, processed, tree, job, Kept, Distributed>>
  BY DEF Fund, At, Reporting, Unvoted, Pc
<1>5. now' \in Nat
  BY <1>4 DEF IInv, TypeOK
<1> QED
  BY <1>3, <1>4, <1>5, WriteStep

LEMMA WarpKeeps ==
  ASSUME IInv, NEW p \in Client, NEW t \in Int, NEW s \in Pc \ {"fund", "vote"},
         pc[p] \in Reporting \cap Unvoted, WarpTo(p, t, s)
  PROVE  IInv'
<1>1. now' \in Nat
  <2>1. now \in Nat
    BY DEF IInv, TypeOK
  <2>2. now' = now \/ (t > now /\ now' = t)
    BY DEF WarpTo
  <2> QED
    BY <2>1, <2>2
<1>2. UNCHANGED <<active, votes, processed, pending, tree, job, Kept, Distributed>>
  BY DEF WarpTo
<1>3. Reply(p, s) \/ Throw(p, FALSE)
  BY DEF WarpTo
<1>4. pending' \in Nat
  BY <1>2 DEF IInv, TypeOK
<1> QED
  BY <1>1, <1>2, <1>3, <1>4, WriteStep

LEMMA ReadFrameKeeps ==
  ASSUME IInv, NEW p \in Client, ReadFrame(p) \/ ReadFrameAgain(p)
  PROVE  IInv'
<1>0. FrameRefSlot(now) \in Int
  <2>1. now \in Int
    BY DEF IInv, TypeOK
  <2> QED
    BY <2>1, FrameType
<1>1. job[p] \in Job /\ pc[p] \in Reporting \cap Unvoted /\ FrameRefSlot(now) \in Int
  BY <1>0 DEF IInv, TypeOK, ReadFrame, ReadFrameAgain, At, Reporting, Unvoted, Pc
<1> DEFINE j == [job[p] EXCEPT !.ref = FrameRefSlot(now)]
<1>2. /\ j \in Job /\ j.prev = job[p].prev /\ j.delta = job[p].delta
      /\ j.distributed = job[p].distributed /\ j.report = job[p].report /\ j.i = job[p].i
  BY <1>1 DEF Job
<1>3. ASSUME NEW s \in {"wait", "members"} PROVE Fine(s, j) /\ s \in Pc \ {"fund", "vote"}
  BY <1>1, <1>2, <1>3 DEF Fine, Unvoted, Pc, IInv
<1>4. CASE ReadFrame(p) /\ ~Begun(now)
  <2>1. Throw(p, FALSE) /\ UNCHANGED <<Fork, Kept, Distributed, job>>
    BY <1>4 DEF ReadFrame
  <2> QED
    BY <2>1, Throws
<1>5. CASE ~(ReadFrame(p) /\ ~Begun(now))
  <2>1. PICK s \in {"wait", "members"} :
          Local(p, j) /\ Advance(p, s) /\ UNCHANGED <<Fork, Kept, Distributed>>
    BY <1>5 DEF ReadFrame, ReadFrameAgain
  <2>2. Fine(s, j) /\ s \in Pc \ {"fund", "vote"}
    BY <1>3
  <2> HIDE DEF j
  <2> QED
    BY <1>2, <2>1, <2>2, Advances DEF Advance
<1> QED
  BY <1>4, <1>5

LEMMA ReadMembersKeeps ==
  ASSUME IInv, NEW p \in Client, ReadMembers(p)
  PROVE  IInv'
<1> DEFINE voters == Voters
           j == [job[p] EXCEPT !.voters = voters]
<1>1. job[p] \in Job /\ pc[p] \in Reporting \cap Unvoted
  BY DEF IInv, TypeOK, ReadMembers, At, Reporting, Unvoted, Pc
<1>2. voters \in Seq(Voter) /\ voters # <<>>
  BY RewardsAssumption DEF Voters
<1>3. Len(voters) \in Nat \ {0}
  BY <1>2
<1> HIDE DEF voters
<1>4. /\ j \in Job /\ j.prev = job[p].prev /\ j.delta = job[p].delta /\ j.voters = voters
      /\ j.distributed = job[p].distributed /\ j.report = job[p].report /\ j.i = job[p].i
  BY <1>1, <1>2 DEF Job
<1>5. Fine("vote", j) /\ "vote" \in Pc
  <2>1. Fine(pc[p], job[p])
    BY DEF IInv
  <2>2. job[p].i = 1
    BY <1>1, <2>1 DEF Fine
  <2>3. 1 \in 1 .. Len(voters)
    BY <1>3
  <2> HIDE DEF j
  <2> QED
    BY <1>1, <1>4, <2>1, <2>2, <2>3 DEF Fine, Reporting, Unvoted, Pc
<1> HIDE DEF j
<1>6. Local(p, j) /\ Goto(p, "vote") /\ UNCHANGED <<Fork, Kept, Distributed, end, disturbed>>
  BY DEF ReadMembers, Advance, j, voters
<1>7. /\ pc' \in [Client -> Pc] /\ job' \in [Client -> Job]
      /\ \A q \in Client : Fine(pc[q], job[q])'
  BY <1>4, <1>5, <1>6, Goes, PaidStays DEF Local, Goto
<1> QED
  BY <1>6, <1>7, LocalStep DEF IInv, TypeOK

LEMMA DataType ==
  ASSUME IInv, NEW p \in Client
  PROVE  Data(p) \in Vote /\ Data(p).ref = job[p].ref /\ Data(p).report = job[p].report
BY DEF Data, Vote, Job, IInv, TypeOK

LEMMA SubmitReportKeeps ==
  ASSUME IInv, NEW p \in Client, SubmitReport(p)
  PROVE  IInv'
<1> DEFINE m == job[p].voters[job[p].i]
<1>1. /\ job[p] \in Job /\ pc[p] = "vote" /\ Fine(pc[p], job[p])
      /\ UNCHANGED <<now, active, processed, pending, tree, Kept, Distributed>>
  BY DEF IInv, TypeOK, SubmitReport, At
<1>2. m \in Voter
  BY <1>1 DEF Fine, Job
<1>3. CASE CanVote(m, job[p].ref)
  <2> DEFINE s == IF job[p].i = Len(job[p].voters) THEN "data" ELSE "vote"
             j == [job[p] EXCEPT !.i = @ + 1]
  <2>1. votes' = Counted(m, Data(p)) /\ Local(p, j) /\ Reply(p, s)
    BY <1>3 DEF SubmitReport
  <2>2. votes' \in [Voter -> Vote]
    <3> HIDE DEF m
    <3> QED
      BY <1>2, <2>1, DataType DEF Counted, IInv, TypeOK
  <2>3. /\ j \in Job /\ j.prev = job[p].prev /\ j.delta = job[p].delta /\ j.voters = job[p].voters
        /\ j.distributed = job[p].distributed /\ j.report = job[p].report /\ j.i = job[p].i + 1
    BY <1>1 DEF Job
  <2>4. job[p].i \in 1 .. Len(job[p].voters) /\ Len(job[p].voters) \in Nat
    BY <1>1 DEF Fine, Job
  <2>5. s = "vote" => job[p].i + 1 \in 1 .. Len(job[p].voters)
    BY <2>4
  <2>6. Fine(s, j) /\ Fine("idle", j) /\ s \in Pc /\ "idle" \in Pc
    <3>1. s \in {"data", "vote"}
      OBVIOUS
    <3> HIDE DEF j, s
    <3> QED
      BY <1>1, <2>3, <2>5, <3>1 DEF Fine, Reporting, Unvoted, Pc
  <2>7. PICK t \in {s, "idle"} : pc' = [pc EXCEPT ![p] = t]
    BY <2>1 DEF Reply, Advance, Throw, Goto
  <2>8. /\ end' \in [Client -> {"none", "submitted", "skipped", "failed"}] /\ disturbed' \in BOOLEAN
    BY <2>1 DEF Reply, Advance, Throw, IInv, TypeOK
  <2>9. /\ pc' \in [Client -> Pc] /\ job' \in [Client -> Job]
        /\ \A q \in Client : Fine(pc[q], job[q])'
    <3> HIDE DEF j, s
    <3> QED
      BY <1>1, <2>1, <2>3, <2>6, <2>7, Goes, PaidStays DEF Local
  <2> QED
    BY <1>1, <2>2, <2>8, <2>9 DEF IInv, TypeOK, Solvent, Kept, Distributed
<1>4. CASE ~CanVote(m, job[p].ref)
  <2>1. Throw(p, FALSE) /\ UNCHANGED <<votes, job>>
    BY <1>4 DEF SubmitReport
  <2> QED
    BY <1>1, <2>1, Throws DEF Fork
<1> QED
  BY <1>3, <1>4

LEMMA SubmitReportDataKeeps ==
  ASSUME IInv, NEW p \in Client, SubmitReportData(p)
  PROVE  IInv'
<1>1. /\ job[p] \in Job /\ pc[p] = "data" /\ Fine(pc[p], job[p])
      /\ UNCHANGED <<now, active, votes, job, Kept>>
  BY DEF IInv, TypeOK, SubmitReportData, At
<1>2. /\ job[p].report.tree = cumulatives(job[p].prev, job[p].delta)
      /\ job[p].report.distributed = job[p].distributed
      /\ \A o \in Operator : job[p].prev[o] <= paid[o] + over[o]
  BY <1>1 DEF Fine, Reporting, Pc
<1>3. /\ job[p].prev \in Tree /\ job[p].delta \in Tree /\ paid \in Tree /\ tree \in Tree
      /\ over \in Tree /\ job[p].distributed \in Nat /\ job[p].ref \in Int /\ pending \in Nat
  BY <1>1 DEF Job, IInv, TypeOK
<1>4. CASE CanProcess(Data(p))
  <2>1. /\ processed' = job[p].ref /\ pending' = pending - job[p].distributed
        /\ tree' = (IF job[p].distributed > 0 THEN job[p].report.tree ELSE tree)
        /\ paid' = cumulatives(paid, job[p].delta) /\ over' = over
        /\ End(p, "submitted") \/ Throw(p, TRUE)
    BY <1>4 DEF SubmitReportData
  <2>2. job[p].distributed <= pending
    BY <1>2, <1>4, DataType DEF CanProcess
  <2>3. pending' \in Nat /\ processed' \in Int
    BY <1>3, <2>1, <2>2
  <2>4. /\ paid' \in Tree /\ \A o \in Operator : paid'[o] = paid[o] + job[p].delta[o]
    BY <1>3, <2>1, CumulativesType
  <2>5. Grows
    BY <1>3, <2>1, <2>4 DEF Tree, Grows
  <2>6. /\ cumulatives(job[p].prev, job[p].delta) \in Tree
        /\ \A o \in Operator : cumulatives(job[p].prev, job[p].delta)[o]
                              = job[p].prev[o] + job[p].delta[o]
    BY <1>3, CumulativesType
  <2>7. tree' \in Tree /\ Solvent'
    <3>1. tree' \in Tree
      BY <1>2, <1>3, <2>1, <2>6
    <3>2. ASSUME NEW o \in Operator PROVE tree'[o] <= paid'[o] + over'[o]
      <4>1. /\ job[p].prev[o] \in Nat /\ job[p].delta[o] \in Nat /\ paid[o] \in Nat
            /\ over[o] \in Nat /\ tree[o] \in Nat
            /\ tree[o] <= paid[o] + over[o] /\ job[p].prev[o] <= paid[o] + over[o]
        BY <1>2, <1>3 DEF Tree, IInv, Solvent
      <4> QED
        BY <1>2, <2>1, <2>4, <2>6, <4>1
    <3> QED
      BY <3>1, <3>2 DEF Solvent
  <2>8. /\ end' \in [Client -> {"none", "submitted", "skipped", "failed"}] /\ disturbed' \in BOOLEAN
        /\ pc' = [pc EXCEPT ![p] = "idle"]
    BY <2>1 DEF End, Throw, Goto, IInv, TypeOK
  <2>9. Fine("idle", job[p]) /\ "idle" \in Pc
    BY <1>1 DEF Fine, Reporting, Unvoted, Pc
  <2>10. /\ pc' \in [Client -> Pc] /\ job' \in [Client -> Job]
         /\ \A q \in Client : Fine(pc[q], job[q])'
    BY <1>1, <2>4, <2>5, <2>8, <2>9, Stays
  <2> QED
    BY <1>1, <2>1, <1>3, <2>3, <2>4, <2>7, <2>8, <2>10 DEF IInv, TypeOK, Kept
<1>5. CASE ~CanProcess(Data(p))
  <2>1. Throw(p, FALSE) /\ UNCHANGED <<processed, pending, tree, Distributed>>
    BY <1>5 DEF SubmitReportData
  <2> QED
    BY <1>1, <2>1, Throws DEF Fork
<1> QED
  BY <1>4, <1>5

-----------------------------------------------------------------------------
(* Every step.                                                             *)

LEMMA Initially == Init => IInv
<1> SUFFICES ASSUME Init PROVE IInv
  OBVIOUS
<1>1. TypeOK
  <2>1. NoVote \in Vote
    BY NoJobType DEF NoVote, Vote
  <2> QED
    <3>1. /\ now \in Nat /\ active \in [Operator -> 0 .. MaxKeys] /\ processed \in Int
          /\ pending \in Nat /\ tree \in Tree /\ start \in Tree
          /\ paid \in Tree /\ over \in Tree
      BY ZeroType, RewardsAssumption DEF Init
    <3>2. votes \in [Voter -> Vote]
      BY <2>1 DEF Init
    <3>3. pc \in [Client -> Pc] /\ job \in [Client -> Job]
      BY NoJobType DEF Init, Pc
    <3>4. /\ end \in [Client -> {"none", "submitted", "skipped", "failed"}]
          /\ solo \in Client \cup {Nobody} /\ disturbed \in BOOLEAN /\ changed \in BOOLEAN
      BY DEF Init
    <3> QED
      BY <3>1, <3>2, <3>3, <3>4 DEF TypeOK
<1>2. Solvent
  BY ZeroType DEF Init, Solvent
<1>3. ASSUME NEW p \in Client PROVE Fine(pc[p], job[p])
  BY ZeroType DEF Init, Fine, Reporting, Unvoted, NoJob
<1> QED
  BY <1>1, <1>2, <1>3 DEF IInv

LEMMA NextKeeps == IInv /\ [Next]_vars => IInv'
<1> SUFFICES ASSUME IInv, [Next]_vars PROVE IInv'
  OBVIOUS
<1>1. ASSUME NEW p \in Client, Step(p) PROVE IInv'
  <2>1. CASE Start(p)
    BY <2>1, StartKeeps
  <2>2. CASE ReadOperator(p)
    BY <2>2, ReadOperatorKeeps
  <2>3. CASE Build(p)
    BY <2>3, BuildKeeps
  <2>4. CASE ReadPending(p)
    BY <2>4, ReadPendingKeeps
  <2>5. CASE Fund(p)
    BY <2>5, FundKeeps
  <2>6. CASE ReadEpoch(p)
    <3>1. PICK s \in {"frame", "warpInitial"} : Advance(p, s)
      BY <2>6 DEF ReadEpoch
    <3>2. pc[p] \in Reporting \cap Unvoted /\ s \in Pc \ {"fund", "vote"}
          /\ UNCHANGED <<Fork, Kept, Distributed, job>>
      BY <2>6 DEF ReadEpoch, At, Reporting, Unvoted, Pc
    <3> QED
      BY <3>1, <3>2, GoesOn
  <2>7. CASE WarpInitial(p)
    <3>1. pc[p] \in Reporting \cap Unvoted /\ "frame" \in Pc \ {"fund", "vote"}
          /\ WarpTo(p, initialStart, "frame")
      BY <2>7 DEF WarpInitial, At, Reporting, Unvoted, Pc
    <3>2. initialStart \in Int
      BY RewardsAssumption DEF initialStart
    <3> QED
      BY <3>1, <3>2, WarpKeeps
  <2>8. CASE ReadFrame(p)
    BY <2>8, ReadFrameKeeps
  <2>9. CASE ReadClock(p)
    <3>1. PICK s \in {"warp", "reread"} : Advance(p, s)
      BY <2>9 DEF ReadClock
    <3>2. pc[p] \in Reporting \cap Unvoted /\ s \in Pc \ {"fund", "vote"}
          /\ UNCHANGED <<Fork, Kept, Distributed, job>>
      BY <2>9 DEF ReadClock, At, Reporting, Unvoted, Pc
    <3> QED
      BY <3>1, <3>2, GoesOn
  <2>10. CASE Warp(p)
    <3>1. pc[p] \in Reporting \cap Unvoted /\ "reread" \in Pc \ {"fund", "vote"}
          /\ WarpTo(p, frameStart(job[p].ref), "reread")
      BY <2>10 DEF Warp, At, Reporting, Unvoted, Pc
    <3>2. frameStart(job[p].ref) \in Int
      BY FrameStartType DEF IInv, TypeOK, Job
    <3> QED
      BY <3>1, <3>2, WarpKeeps
  <2>11. CASE ReadFrameAgain(p)
    BY <2>11, ReadFrameKeeps
  <2>12. CASE ReadMembers(p)
    BY <2>12, ReadMembersKeeps
  <2>13. CASE SubmitReport(p)
    BY <2>13, SubmitReportKeeps
  <2>14. CASE SubmitReportData(p)
    BY <2>14, SubmitReportDataKeeps
  <2>15. CASE Lose(p)
    BY <2>15, Throws DEF Lose
  <2> QED
    BY <1>1, <2>1, <2>2, <2>3, <2>4, <2>5, <2>6, <2>7, <2>8, <2>9, <2>10, <2>11, <2>12,
       <2>13, <2>14, <2>15 DEF Step
<1>2. CASE Tick
  <2>1. now' \in Nat /\ disturbed' \in BOOLEAN
    BY <1>2 DEF Tick, IInv, TypeOK
  <2> QED
    BY <1>2, <2>1 DEF Tick, Kept, Distributed, IInv, TypeOK, Solvent, Fine
<1>3. CASE ChangeKeys
  <2>1. active' \in [Operator -> 0 .. MaxKeys] /\ changed' \in BOOLEAN
    BY <1>3 DEF ChangeKeys, IInv, TypeOK
  <2> QED
    BY <1>3, <2>1 DEF ChangeKeys, client, Distributed, IInv, TypeOK, Solvent, Fine
<1>4. CASE UNCHANGED vars
  BY <1>4 DEF vars, client, history, Distributed, IInv, TypeOK, Solvent, Fine
<1> QED
  BY <1>1, <1>2, <1>3, <1>4 DEF Next

-----------------------------------------------------------------------------
(* Frames and their reference slots.                                       *)

LEMMA DivBounds ==
  ASSUME NEW a \in Int, NEW b \in Nat \ {0}
  PROVE  a \div b \in Int /\ b * (a \div b) <= a /\ a < b * (a \div b) + b
OBVIOUS

LEMMA DivReaches ==
  ASSUME NEW a \in Int, NEW b \in Nat \ {0}, NEW k \in Int
  PROVE  a \div b >= k <=> a >= b * k
BY DivBounds

\* When frame k begins, and the slot it reports on.
FrameBegin(k) == Genesis + (InitialEpoch * SlotsPerEpoch + k * FrameSlots) * SecondsPerSlot
RefOf(k) == InitialEpoch * SlotsPerEpoch + k * FrameSlots - 1

LEMMA TimeType ==
  ASSUME NEW t \in Int
  PROVE  EpochAt(t) \in Int /\ FrameAt(t) \in Int /\ FrameSlots \in Nat \ {0}
<1>1. EpochAt(t) \in Int
  BY RewardsAssumption DEF EpochAt
<1> QED
  BY <1>1, RewardsAssumption DEF FrameAt, FrameSlots

\* A moment is in frame k or in a later one just when frame k has begun.
LEMMA FrameReached ==
  ASSUME NEW t \in Int, NEW k \in Int
  PROVE  FrameAt(t) >= k <=> t >= FrameBegin(k)
<1> DEFINE slot == (t - Genesis) \div SecondsPerSlot
           e == InitialEpoch + EpochsPerFrame * k
<1>1. /\ Genesis \in Int /\ SecondsPerSlot \in Nat \ {0} /\ SlotsPerEpoch \in Nat \ {0}
      /\ EpochsPerFrame \in Nat \ {0} /\ InitialEpoch \in Int
  BY RewardsAssumption
<1>2. slot \in Int /\ EpochAt(t) = slot \div SlotsPerEpoch /\ EpochAt(t) \in Int
  BY <1>1, TimeType DEF EpochAt
<1>3. e \in Int /\ SlotsPerEpoch * e \in Int
  BY <1>1
<1>4. FrameAt(t) >= k <=> EpochAt(t) - InitialEpoch >= EpochsPerFrame * k
  BY <1>1, <1>2, DivReaches DEF FrameAt
<1>5. EpochAt(t) - InitialEpoch >= EpochsPerFrame * k <=> EpochAt(t) >= e
  BY <1>1, <1>2
<1>6. EpochAt(t) >= e <=> slot >= SlotsPerEpoch * e
  BY <1>1, <1>2, <1>3, DivReaches
<1>7. slot >= SlotsPerEpoch * e <=> t - Genesis >= SecondsPerSlot * (SlotsPerEpoch * e)
  BY <1>1, <1>3, DivReaches
<1>8. FrameBegin(k) = Genesis + SecondsPerSlot * (SlotsPerEpoch * e)
  BY <1>1 DEF FrameBegin, FrameSlots
<1> QED
  BY <1>1, <1>3, <1>4, <1>5, <1>6, <1>7, <1>8

\* The recipe's two ways of saying when a frame begins are the contract's.
LEMMA Begins ==
  ASSUME NEW k \in Int
  PROVE  /\ FrameBegin(k) \in Int /\ RefOf(k) \in Int
         /\ frameStart(RefOf(k)) = FrameBegin(k + 1)
         /\ initialStart = FrameBegin(0) + 1
<1>1. /\ Genesis \in Int /\ SecondsPerSlot \in Int /\ SlotsPerEpoch \in Int
      /\ FrameSlots \in Int /\ InitialEpoch \in Int
  BY RewardsAssumption DEF FrameSlots
<1>2. InitialEpoch * SlotsPerEpoch \in Int /\ k * FrameSlots \in Int
  BY <1>1
<1>3. (k + 1) * FrameSlots = k * FrameSlots + FrameSlots
  BY <1>1
<1>4. frameStart(RefOf(k)) = FrameBegin(k + 1)
  BY <1>1, <1>2, <1>3 DEF frameStart, RefOf, FrameBegin
<1>5. initialStart = FrameBegin(0) + 1
  BY <1>1, <1>2 DEF initialStart, FrameBegin
<1>6. FrameBegin(k) \in Int /\ RefOf(k) \in Int
  BY <1>1, <1>2 DEF FrameBegin, RefOf
<1> QED
  BY <1>4, <1>5, <1>6

\* A later frame reports on a later slot, and none on a slot before 0.
LEMMA RefsGrow ==
  ASSUME NEW k \in Int, NEW l \in Int
  PROVE  /\ k <= l => RefOf(k) <= RefOf(l)
         /\ k < l => RefOf(k) < RefOf(l)
         /\ 0 <= k => 0 <= RefOf(k)
<1>1. /\ SlotsPerEpoch \in Nat \ {0} /\ FrameSlots \in Nat \ {0} /\ InitialEpoch \in Nat \ {0}
  BY RewardsAssumption DEF FrameSlots
<1>2. InitialEpoch * SlotsPerEpoch >= 1 /\ InitialEpoch * SlotsPerEpoch \in Int
  BY <1>1
<1>3. \A n \in Int : 0 <= n => 0 <= n * FrameSlots
  BY <1>1
<1>4. \A n \in Int : 0 < n => 0 < n * FrameSlots
  BY <1>1
<1>5. l * FrameSlots = k * FrameSlots + (l - k) * FrameSlots
  BY <1>1
<1>6. k * FrameSlots \in Int /\ (l - k) * FrameSlots \in Int /\ l * FrameSlots \in Int
  BY <1>1
<1>7. k <= l => 0 <= (l - k) * FrameSlots
  BY <1>3
<1>8. k < l => 0 < (l - k) * FrameSlots
  BY <1>4
<1>9. 0 <= k => 0 <= k * FrameSlots
  BY <1>3
<1> QED
  BY <1>2, <1>5, <1>6, <1>7, <1>8, <1>9 DEF RefOf

\* What the fork's clock says of frames.
LEMMA Frames ==
  ASSUME NEW t \in Int
  PROVE  /\ FrameRefSlot(t) = RefOf(FrameAt(t)) /\ FrameRefSlot(t) \in Int
         /\ Begun(t) <=> FrameAt(t) >= 0
         /\ Begun(t) <=> t >= FrameBegin(0)
<1>0. InitialEpoch \in Int /\ EpochsPerFrame \in Nat \ {0}
  BY RewardsAssumption
<1>1. EpochAt(t) \in Int /\ FrameAt(t) \in Int
  BY TimeType
<1>2. FrameAt(t) >= 0 <=> EpochAt(t) - InitialEpoch >= EpochsPerFrame * 0
  BY <1>0, <1>1, DivReaches DEF FrameAt
<1>3. FrameAt(t) >= 0 <=> Begun(t)
  BY <1>0, <1>1, <1>2 DEF Begun
<1> QED
  BY <1>1, <1>3, FrameReached, FrameType DEF FrameRefSlot, RefOf

\* Time only takes the fork into later frames.
LEMMA TimeGrows ==
  ASSUME NEW t \in Int, NEW u \in Int, t <= u
  PROVE  /\ FrameAt(t) <= FrameAt(u) /\ FrameRefSlot(t) <= FrameRefSlot(u)
         /\ Begun(t) => Begun(u)
<1>1. FrameAt(t) \in Int /\ FrameAt(u) \in Int
  BY TimeType
<1>2. t >= FrameBegin(FrameAt(t)) /\ FrameBegin(FrameAt(t)) \in Int
  BY <1>1, FrameReached, Begins
<1>3. FrameAt(t) <= FrameAt(u)
  BY <1>1, <1>2, FrameReached
<1> QED
  BY <1>1, <1>3, RefsGrow, Frames

-----------------------------------------------------------------------------
(* A run that overlaps no other.                                           *)

\* No report has been processed of a slot that is still to come.
Past == processed = 0 \/ (Begun(now) /\ processed <= FrameRefSlot(now))

Alone == solo # Nobody => \A q \in Client \ {solo} : pc[q] = "idle"

\* What an undisturbed run that is at s, its locals j, has come to: in what it
\* has read and built,
Drawn(s, j) ==
  /\ tree = start
  /\ \A o \in Operator \ j.unread : changed \/ j.delta[o] \in Draws(active[o])
  /\ j.distributed = 0 => \A o \in Operator : j.delta[o] = 0
  /\ s # "read" => j.unread = {}
  /\ s \in Reporting => j.report.cids

\* in what FeeDistributor has,
Funded(s, j) ==
  /\ s = "fund" => j.need = j.distributed - pending
  /\ s \in Reporting \ {"pending", "fund"} => j.distributed <= pending

\* in the frame the fork is in,
Timed(s, j) ==
  /\ s = "warpInitial" => now < FrameBegin(0)
  /\ s = "frame" => Begun(now)
  /\ s \in {"wait", "warp"} => \E k \in Nat : j.ref = RefOf(k) /\ processed <= j.ref
  /\ s = "warp" => now < frameStart(j.ref)
  /\ s = "reread" => Begun(now) /\ processed < FrameRefSlot(now)
  /\ s \in {"members", "vote", "data"} => InFrame(j.ref) /\ processed < j.ref

\* and in the votes.
Voted(s, j) ==
  /\ s \in {"vote", "data"} => j.voters = Voters
  /\ s = "vote" => \A k \in 1 .. j.i - 1 : votes[Voters[k]] = [ref |-> j.ref, report |-> j.report]
  /\ s = "data" => \A k \in DOMAIN Voters : votes[Voters[k]] = [ref |-> j.ref, report |-> j.report]

Clean(s, j) == Drawn(s, j) /\ Funded(s, j) /\ Timed(s, j) /\ Voted(s, j)

\* What AloneSubmits says of a run that has ended so.
Well(how, j) ==
  /\ how = "failed" => (j.distributed > 0 /\ j.report.tree = start)
  /\ how = "submitted" /\ j.prev = start =>
       \A o \in Operator : /\ tree[o] = start[o] + j.delta[o]
                           /\ changed \/ j.delta[o] \in Draws(active[o])

Run(p) == IF pc[p] = "idle" THEN Well(end[p], job[p]) ELSE Clean(pc[p], job[p])

AInv == IInv /\ Past /\ Alone /\ (solo # Nobody /\ ~disturbed => Run(solo))

\* Where an undisturbed run is.
LEMMA Running ==
  ASSUME AInv, NEW p \in Client, solo = p, ~disturbed, pc[p] # "idle"
  PROVE  /\ Drawn(pc[p], job[p]) /\ Funded(pc[p], job[p])
         /\ Timed(pc[p], job[p]) /\ Voted(pc[p], job[p])
         /\ Fine(pc[p], job[p]) /\ job[p] \in Job /\ now \in Int
         /\ pending \in Nat /\ processed \in Int
<1>1. solo # Nobody
  BY RewardsAssumption
<1> QED
  BY <1>1 DEF AInv, Run, Clean, IInv, TypeOK

\* How an undisturbed run goes on.
LEMMA Undisturbed ==
  ASSUME IInv, NEW p \in Client, solo = p, ~disturbed', NEW s \in Pc
  PROVE  /\ Reply(p, s) => pc'[p] = s /\ ~disturbed
         /\ Advance(p, s) => pc'[p] = s /\ ~disturbed
         /\ Throw(p, FALSE) => pc'[p] = "idle" /\ end'[p] = "failed" /\ ~disturbed
         /\ ~Throw(p, TRUE)
BY DEF Reply, Advance, Throw, Goto, IInv, TypeOK

LEMMA LocalIs ==
  ASSUME IInv, NEW p \in Client, NEW j \in Job, Local(p, j)
  PROVE  job'[p] = j
BY DEF Local, IInv, TypeOK

LEMMA DrawnStays ==
  ASSUME NEW p \in Client, Drawn(pc[p], job[p]), pc[p] \in Reporting, pc'[p] \in Reporting,
         UNCHANGED <<tree, start, changed, active>>,
         job'[p].unread = job[p].unread, job'[p].delta = job[p].delta,
         job'[p].distributed = job[p].distributed, job'[p].report = job[p].report
  PROVE  Drawn(pc[p], job[p])'
BY DEF Drawn, Reporting, Pc

LEMMA FundedStays ==
  ASSUME NEW p \in Client, Funded(pc[p], job[p]),
         pc[p] \in Reporting \ {"pending", "fund"}, pc'[p] \in Reporting \ {"pending", "fund"},
         pending' = pending, job'[p].distributed = job[p].distributed
  PROVE  Funded(pc[p], job[p])'
BY DEF Funded

\* A pin that does not throw after the guard gives its CID.
LEMMA PinsSucceed ==
  ASSUME NEW given \in SUBSET {"tree", "log"}, NEW out \in Pins(given), out # "throws"
  PROVE  out = "pinned"
<1>1. ASSUME NEW e \in Env, NEW up, NEW before, assertPinnable(e, before)
      PROVE  maybePin(e, up) \in {"pinned", "throws"}
  BY <1>1 DEF assertPinnable, maybePin
<1>2. GuardedPins \subseteq {"pinned", "throws"}
  BY <1>1 DEF GuardedPins
<1> QED
  BY <1>2 DEF Pins

-----------------------------------------------------------------------------
(* Its steps.                                                              *)

LEMMA RunReads ==
  ASSUME AInv, NEW p \in Client, solo = p, ~disturbed', ReadOperator(p)
  PROVE  Run(p)'
<1>1. PICK o \in job[p].unread, d \in UNION {Draws(n) : n \in 0 .. MaxKeys} :
        /\ d \in Draws(active[o])
        /\ Local(p, [job[p] EXCEPT !.unread = @ \ {o}, !.delta[o] = d, !.distributed = @ + d])
        /\ Advance(p, IF job[p].unread = {o} THEN "build" ELSE "read")
  BY DEF ReadOperator
<1> DEFINE j == [job[p] EXCEPT !.unread = @ \ {o}, !.delta[o] = d, !.distributed = @ + d]
           s == IF job[p].unread = {o} THEN "build" ELSE "read"
<1>2. /\ pc[p] = "read" /\ UNCHANGED <<active, tree, start, changed>>
  BY DEF ReadOperator, At, Fork, Kept
<1>3. s \in Pc /\ s \in {"read", "build"}
  BY DEF Pc
<1>4. pc'[p] = s /\ ~disturbed
  BY <1>1, <1>3, Undisturbed DEF AInv
<1>5. job[p] \in Job /\ Drawn("read", job[p])
  BY <1>2, <1>4, Running
<1>6. o \in Operator /\ d \in Nat
  BY <1>1, <1>5, DrawType DEF Job
<1>7. [job[p].delta EXCEPT ![o] = d] \in Tree /\ job[p].distributed + d \in Nat
      /\ job[p].unread \ {o} \in SUBSET Operator
  BY <1>5, <1>6 DEF Job, Tree
<1>8. /\ j \in Job /\ j.unread = job[p].unread \ {o}
      /\ j.delta = [job[p].delta EXCEPT ![o] = d] /\ j.distributed = job[p].distributed + d
  BY <1>5, <1>7 DEF Job
<1> HIDE DEF j
<1>9. job'[p] = j
  BY <1>1, <1>8, LocalIs DEF j, AInv
<1>10. /\ tree' = start'
       /\ \A x \in Operator \ j.unread : changed' \/ j.delta[x] \in Draws(active'[x])
  <2>1. \A x \in Operator : j.delta[x] = IF x = o THEN d ELSE job[p].delta[x]
    BY <1>5, <1>8 DEF Job, Tree
  <2> QED
    BY <1>1, <1>2, <1>5, <1>8, <2>1 DEF Drawn
<1>11. j.distributed = 0 => \A x \in Operator : j.delta[x] = 0
  <2>1. job[p].distributed \in Nat
    BY <1>5 DEF Job
  <2>2. j.distributed = 0 => job[p].distributed = 0 /\ d = 0
    BY <1>6, <1>8, <2>1
  <2> QED
    BY <1>5, <1>8, <2>2 DEF Job, Tree, Drawn
<1>12. s # "read" => j.unread = {}
  BY <1>8
<1>13. Drawn(pc[p], job[p])'
  BY <1>3, <1>4, <1>9, <1>10, <1>11, <1>12 DEF Drawn, Reporting
<1>14. pc'[p] \in {"read", "build"}
  BY <1>3, <1>4
<1> QED
  BY <1>13, <1>14 DEF Run, Clean, Funded, Timed, Voted, Reporting

LEMMA RunBuilds ==
  ASSUME AInv, NEW p \in Client, solo = p, ~disturbed', Build(p)
  PROVE  Run(p)'
<1> DEFINE cum == cumulatives(job[p].prev, job[p].delta)
<1>1. pc[p] = "build" /\ UNCHANGED <<active, tree, start, changed>>
  BY DEF Build, At, Fork, Kept
<1>2. CASE cum = Zero
  <2>1. pc'[p] = "idle" /\ end'[p] = "skipped"
    BY <1>2 DEF Build, End, Goto, AInv, IInv, TypeOK
  <2> QED
    BY <2>1 DEF Run, Well
<1>3. CASE cum # Zero
  <2>0. PICK given \in SUBSET {"tree", "log"} : \E out \in Pins(given) :
          IF out = "throws" THEN Throw(p, TRUE) /\ UNCHANGED job
          ELSE /\ Local(p, [job[p] EXCEPT !.report =
                     [tree |-> cum, distributed |-> job[p].distributed, cids |-> out = "pinned"]])
               /\ Advance(p, "pending")
    BY <1>3 DEF Build
  <2>1. PICK out \in Pins(given) :
          IF out = "throws" THEN Throw(p, TRUE) /\ UNCHANGED job
          ELSE /\ Local(p, [job[p] EXCEPT !.report =
                     [tree |-> cum, distributed |-> job[p].distributed, cids |-> out = "pinned"]])
               /\ Advance(p, "pending")
    BY <2>0
  <2>2. ~Throw(p, TRUE)
    BY Undisturbed DEF AInv, Pc
  <2>3. out = "pinned"
    BY <2>1, <2>2, PinsSucceed
  <2> DEFINE r == [tree |-> cum, distributed |-> job[p].distributed, cids |-> TRUE]
             j == [job[p] EXCEPT !.report = r]
  <2>4. Local(p, j) /\ Advance(p, "pending")
    <3>1. (out = "pinned") = TRUE
      BY <2>3, Zenon
    <3> QED
      BY <2>1, <2>3, <3>1
  <2>5. pc'[p] = "pending" /\ ~disturbed /\ "pending" \in Pc
    BY <2>4, Undisturbed DEF AInv, Pc
  <2>6. job[p] \in Job /\ Drawn("build", job[p])
    BY <1>1, <2>5, Running
  <2>7. r \in Report /\ r.cids = TRUE
    BY <2>6, CumulativesType DEF Report, Job
  <2> HIDE DEF r, cum
  <2>8. /\ j \in Job /\ j.unread = job[p].unread /\ j.delta = job[p].delta
        /\ j.distributed = job[p].distributed /\ j.report = r
    BY <2>6, <2>7 DEF Job
  <2> HIDE DEF j
  <2>9. job'[p] = j
    BY <2>4, <2>8, LocalIs DEF AInv
  <2>10. Drawn(pc[p], job[p])'
    BY <1>1, <2>5, <2>6, <2>7, <2>8, <2>9 DEF Drawn, Reporting, Pc
  <2> QED
    BY <2>5, <2>10 DEF Run, Clean, Funded, Timed, Voted
<1> QED
  BY <1>2, <1>3

LEMMA RunPends ==
  ASSUME AInv, NEW p \in Client, solo = p, ~disturbed', ReadPending(p)
  PROVE  Run(p)'
<1>1. pc[p] = "pending" /\ UNCHANGED <<active, tree, start, changed, pending>>
  BY DEF ReadPending, At, Fork, Kept
<1>2. CASE pending < job[p].distributed
  <2> DEFINE j == [job[p] EXCEPT !.need = job[p].distributed - pending]
  <2>1. Local(p, j) /\ Advance(p, "fund")
    BY <1>2 DEF ReadPending
  <2>2. pc'[p] = "fund" /\ ~disturbed
    BY <2>1, Undisturbed DEF AInv, Pc
  <2>3. job[p] \in Job /\ Drawn("pending", job[p]) /\ pending \in Nat
    BY <1>1, <2>2, Running
  <2>4. job[p].distributed - pending \in Nat
    BY <1>2, <2>3 DEF Job
  <2>5. /\ j \in Job /\ j.unread = job[p].unread /\ j.delta = job[p].delta
        /\ j.distributed = job[p].distributed /\ j.report = job[p].report
        /\ j.need = job[p].distributed - pending
    BY <2>3, <2>4 DEF Job
  <2> HIDE DEF j
  <2>6. job'[p] = j
    BY <2>1, <2>5, LocalIs DEF AInv
  <2>7. Drawn(pc[p], job[p])'
    BY <1>1, <2>2, <2>3, <2>5, <2>6 DEF Drawn, Reporting, Pc
  <2>8. Funded(pc[p], job[p])'
    BY <1>1, <2>2, <2>5, <2>6 DEF Funded
  <2> QED
    BY <2>2, <2>7, <2>8 DEF Run, Clean, Timed, Voted
<1>3. CASE ~(pending < job[p].distributed)
  <2>1. Advance(p, "epoch") /\ job' = job
    BY <1>3 DEF ReadPending
  <2>2. pc'[p] = "epoch" /\ ~disturbed
    BY <2>1, Undisturbed DEF AInv, Pc
  <2>3. job[p] \in Job /\ Drawn(pc[p], job[p]) /\ pending \in Nat
    BY <1>1, <2>2, Running
  <2>4. job[p].distributed <= pending
    BY <1>3, <2>3 DEF Job
  <2>5. Drawn(pc[p], job[p])'
    BY <1>1, <2>1, <2>2, <2>3, DrawnStays DEF Reporting, Pc
  <2>6. Funded(pc[p], job[p])'
    BY <1>1, <2>1, <2>2, <2>4 DEF Funded
  <2> QED
    BY <2>2, <2>5, <2>6 DEF Run, Clean, Timed, Voted
<1> QED
  BY <1>2, <1>3

\* One ether more than what rounds down covers the report.
LEMMA RunFunds ==
  ASSUME AInv, NEW p \in Client, solo = p, ~disturbed', Fund(p)
  PROVE  Run(p)'
<1>1. PICK rounding \in {0, 1} : pending' = pending + job[p].need - rounding + Ether
  BY DEF Fund
<1>2. /\ pc[p] = "fund" /\ UNCHANGED <<active, tree, start, changed, job>> /\ Reply(p, "epoch")
  BY DEF Fund, At, Kept
<1>3. pc'[p] = "epoch" /\ ~disturbed
  BY <1>2, Undisturbed DEF AInv, Pc
<1>4. /\ job[p] \in Job /\ Drawn(pc[p], job[p]) /\ Funded(pc[p], job[p]) /\ pending \in Nat
  BY <1>2, <1>3, Running
<1>5. job[p].distributed <= pending'
  <2>1. job[p].need = job[p].distributed - pending
    BY <1>2, <1>4 DEF Funded
  <2>2. job[p].distributed \in Nat
    BY <1>4 DEF Job
  <2>3. Ether \in Nat \ {0}
    BY RewardsAssumption
  <2> QED
    BY <1>1, <1>4, <2>1, <2>2, <2>3
<1>6. Drawn(pc[p], job[p])'
  BY <1>2, <1>3, <1>4, DrawnStays DEF Reporting, Pc
<1>7. Funded(pc[p], job[p])'
  BY <1>2, <1>3, <1>5 DEF Funded
<1> QED
  BY <1>3, <1>6, <1>7 DEF Run, Clean, Timed, Voted

\* Between two reads of the clock: what is there is not touched.
LEMMA RunStays ==
  ASSUME AInv, NEW p \in Client, solo = p, ~disturbed,
         pc[p] \in Reporting \ {"pending", "fund"}, pc'[p] \in Reporting \ {"pending", "fund"},
         UNCHANGED <<active, pending, tree, start, changed>>,
         job'[p].unread = job[p].unread, job'[p].delta = job[p].delta,
         job'[p].distributed = job[p].distributed, job'[p].report = job[p].report
  PROVE  Drawn(pc[p], job[p])' /\ Funded(pc[p], job[p])'
<1>1. Drawn(pc[p], job[p]) /\ Funded(pc[p], job[p])
  BY Running DEF Reporting, Pc
<1> QED
  BY <1>1, DrawnStays, FundedStays

LEMMA RunReadsEpoch ==
  ASSUME AInv, NEW p \in Client, solo = p, ~disturbed', ReadEpoch(p)
  PROVE  Run(p)'
<1>1. PICK s \in {"frame", "warpInitial"} :
        Advance(p, s) /\ (s = "frame" <=> Begun(now))
  BY DEF ReadEpoch
<1>2. pc[p] = "epoch" /\ UNCHANGED <<now, active, pending, tree, start, changed, job>>
  BY DEF ReadEpoch, At, Fork, Kept
<1>3. pc'[p] = s /\ ~disturbed
  BY <1>1, Undisturbed DEF AInv, Pc
<1>4. now \in Int
  BY <1>2, <1>3, Running
<1>5. Drawn(pc[p], job[p])' /\ Funded(pc[p], job[p])'
  BY <1>2, <1>3, RunStays DEF Reporting, Pc
<1>6. s = "warpInitial" => now < FrameBegin(0)
  BY <1>1, <1>4, Frames, Begins
<1>7. Timed(pc[p], job[p])'
  BY <1>1, <1>2, <1>3, <1>6 DEF Timed, Begun, EpochAt, FrameBegin, FrameSlots
<1> QED
  BY <1>3, <1>5, <1>7 DEF Run, Clean, Voted

LEMMA RunWarpsInitially ==
  ASSUME AInv, NEW p \in Client, solo = p, ~disturbed', WarpInitial(p)
  PROVE  Run(p)'
<1>1. /\ pc[p] = "warpInitial" /\ UNCHANGED <<active, pending, tree, start, changed, job>>
      /\ WarpTo(p, initialStart, "frame")
  BY DEF WarpInitial, WarpTo, At, Kept
<1>2. ~disturbed
  BY <1>1, Undisturbed DEF WarpTo, AInv, Pc
<1>3. now < FrameBegin(0) /\ now \in Int
  BY <1>1, <1>2, Running DEF Timed
<1>4. initialStart = FrameBegin(0) + 1 /\ FrameBegin(0) \in Int
  BY Begins
<1>5. initialStart > now
  BY <1>3, <1>4
<1>6. now' = initialStart /\ Reply(p, "frame")
  BY <1>1, <1>5 DEF WarpTo
<1>7. pc'[p] = "frame"
  BY <1>6, Undisturbed DEF AInv, Pc
<1>8. Drawn(pc[p], job[p])' /\ Funded(pc[p], job[p])'
  BY <1>1, <1>2, <1>7, RunStays DEF Reporting, Pc
<1>9. Begun(now)'
  <2>1. Begun(initialStart)
    BY <1>4, Frames
  <2> QED
    BY <1>6, <2>1 DEF Begun, EpochAt
<1>10. Timed(pc[p], job[p])'
  BY <1>7, <1>9 DEF Timed
<1> QED
  BY <1>7, <1>8, <1>10 DEF Run, Clean, Voted

LEMMA RunReadsFrame ==
  ASSUME AInv, NEW p \in Client, solo = p, ~disturbed', ReadFrame(p)
  PROVE  Run(p)'
<1> DEFINE ref == FrameRefSlot(now)
           j == [job[p] EXCEPT !.ref = ref]
<1>1. pc[p] = "frame" /\ UNCHANGED <<now, active, processed, pending, tree, start, changed>>
  BY DEF ReadFrame, At, Fork, Kept
<1>2. ~disturbed
  <2>1. Throw(p, FALSE) \/ Advance(p, "wait")
    BY DEF ReadFrame
  <2> QED
    BY <2>1, Undisturbed DEF AInv, Pc
<1>3. Begun(now) /\ now \in Int /\ job[p] \in Job /\ processed \in Int
  BY <1>1, <1>2, Running DEF Timed
<1>4. Local(p, j) /\ Advance(p, "wait")
  BY <1>3 DEF ReadFrame
<1>5. pc'[p] = "wait"
  BY <1>4, Undisturbed DEF AInv, Pc
<1>6. ref = RefOf(FrameAt(now)) /\ ref \in Int /\ FrameAt(now) >= 0 /\ FrameAt(now) \in Int
  BY <1>3, Frames, TimeType
<1>7. processed <= ref
  <2>1. 0 <= ref
    BY <1>6, RefsGrow
  <2> QED
    BY <1>3, <1>6, <2>1 DEF AInv, Past
<1>8. \E k \in Nat : ref = RefOf(k)
  <2>1. FrameAt(now) \in Nat
    BY <1>6
  <2> QED
    BY <1>6, <2>1
<1> HIDE DEF ref
<1>9. /\ j \in Job /\ j.ref = ref /\ j.unread = job[p].unread /\ j.delta = job[p].delta
      /\ j.distributed = job[p].distributed /\ j.report = job[p].report
  BY <1>3, <1>6 DEF Job
<1> HIDE DEF j
<1>10. job'[p] = j
  BY <1>4, <1>9, LocalIs DEF AInv
<1>11. Drawn(pc[p], job[p])' /\ Funded(pc[p], job[p])'
  BY <1>1, <1>2, <1>5, <1>9, <1>10, RunStays DEF Reporting, Pc
<1>12. Timed(pc[p], job[p])'
  BY <1>1, <1>5, <1>7, <1>8, <1>9, <1>10 DEF Timed, RefOf, FrameSlots
<1> QED
  BY <1>5, <1>11, <1>12 DEF Run, Clean, Voted

\* When the frame after the one read has begun, the one read is over: its slot,
\* and with it all that was processed before, is behind the one to report on.
LEMMA NextFrame ==
  ASSUME NEW t \in Int, NEW k \in Nat, NEW done \in Int,
         t >= frameStart(RefOf(k)), done <= RefOf(k)
  PROVE  Begun(t) /\ done < FrameRefSlot(t)
<1>1. FrameAt(t) >= k + 1 /\ FrameAt(t) \in Int
  BY Begins, FrameReached, TimeType
<1>2. Begun(t) /\ FrameRefSlot(t) = RefOf(FrameAt(t))
  BY <1>1, Frames
<1>3. RefOf(k) < RefOf(FrameAt(t)) /\ RefOf(k) \in Int /\ RefOf(FrameAt(t)) \in Int
  BY <1>1, RefsGrow, Begins
<1> QED
  BY <1>2, <1>3

LEMMA RunReadsClock ==
  ASSUME AInv, NEW p \in Client, solo = p, ~disturbed', ReadClock(p)
  PROVE  Run(p)'
<1>1. PICK s \in {"warp", "reread"} :
        Advance(p, s) /\ (s = "warp" <=> frameStart(job[p].ref) > now)
  BY DEF ReadClock
<1>2. pc[p] = "wait" /\ UNCHANGED <<now, active, processed, pending, tree, start, changed, job>>
  BY DEF ReadClock, At, Fork, Kept
<1>3. pc'[p] = s /\ ~disturbed
  BY <1>1, Undisturbed DEF AInv, Pc
<1>4. now \in Int /\ processed \in Int /\ job[p] \in Job /\ Timed("wait", job[p])
  BY <1>2, <1>3, Running
<1>5. PICK k \in Nat : job[p].ref = RefOf(k) /\ processed <= job[p].ref
  BY <1>4 DEF Timed
<1>6. Drawn(pc[p], job[p])' /\ Funded(pc[p], job[p])'
  BY <1>2, <1>3, RunStays DEF Reporting, Pc
<1>7. frameStart(job[p].ref) \in Int
  BY <1>4, FrameStartType DEF Job
<1>8. s = "reread" => Begun(now) /\ processed < FrameRefSlot(now)
  <2> SUFFICES ASSUME s = "reread" PROVE Begun(now) /\ processed < FrameRefSlot(now)
    OBVIOUS
  <2>1. now >= frameStart(RefOf(k)) /\ processed <= RefOf(k)
    BY <1>1, <1>4, <1>5, <1>7
  <2> QED
    BY <1>4, <2>1, NextFrame
<1>9. s = "warp" => now < frameStart(job[p].ref)
  BY <1>1, <1>4, <1>7
<1>10. \E n \in Nat : job[p].ref = RefOf(n) /\ processed <= job[p].ref
  BY <1>5
<1>11. Timed(pc[p], job[p])'
  BY <1>2, <1>3, <1>8, <1>9, <1>10
     DEF Timed, RefOf, FrameSlots, frameStart, Begun, EpochAt, FrameRefSlot, FrameAt
<1> QED
  BY <1>3, <1>6, <1>11 DEF Run, Clean, Voted

LEMMA RunWarps ==
  ASSUME AInv, NEW p \in Client, solo = p, ~disturbed', Warp(p)
  PROVE  Run(p)'
<1> DEFINE t == frameStart(job[p].ref)
<1>1. /\ pc[p] = "warp" /\ UNCHANGED <<active, processed, pending, tree, start, changed, job>>
      /\ WarpTo(p, t, "reread")
  BY DEF Warp, WarpTo, At, Kept
<1>2. ~disturbed
  BY <1>1, Undisturbed DEF WarpTo, AInv, Pc
<1>3. now \in Int /\ processed \in Int /\ job[p] \in Job /\ Timed("warp", job[p])
  BY <1>1, <1>2, Running
<1>4. PICK k \in Nat : job[p].ref = RefOf(k) /\ processed <= job[p].ref
  BY <1>3 DEF Timed
<1>5. now < t /\ t \in Int
  BY <1>3, FrameStartType DEF Timed, Job
<1>6. now' = t /\ Reply(p, "reread")
  BY <1>1, <1>3, <1>5 DEF WarpTo
<1>7. pc'[p] = "reread"
  BY <1>6, Undisturbed DEF AInv, Pc
<1>8. Drawn(pc[p], job[p])' /\ Funded(pc[p], job[p])'
  BY <1>1, <1>2, <1>7, RunStays DEF Reporting, Pc
<1>9. Begun(t) /\ processed < FrameRefSlot(t)
  <2>1. t >= frameStart(RefOf(k)) /\ processed <= RefOf(k)
    BY <1>4, <1>5
  <2> HIDE DEF t
  <2> QED
    BY <1>3, <1>5, <2>1, NextFrame
<1> HIDE DEF t
<1>10. Timed(pc[p], job[p])'
  BY <1>1, <1>6, <1>7, <1>9 DEF Timed, Begun, EpochAt, FrameRefSlot, FrameAt, FrameSlots
<1> QED
  BY <1>7, <1>8, <1>10 DEF Run, Clean, Voted

LEMMA RunReadsFrameAgain ==
  ASSUME AInv, NEW p \in Client, solo = p, ~disturbed', ReadFrameAgain(p)
  PROVE  Run(p)'
<1> DEFINE ref == FrameRefSlot(now)
           j == [job[p] EXCEPT !.ref = ref]
<1>1. /\ pc[p] = "reread" /\ UNCHANGED <<now, active, processed, pending, tree, start, changed>>
      /\ Local(p, j) /\ Advance(p, "members")
  BY DEF ReadFrameAgain, At, Fork, Kept
<1>2. pc'[p] = "members" /\ ~disturbed
  BY <1>1, Undisturbed DEF AInv, Pc
<1>3. now \in Int /\ job[p] \in Job /\ Timed("reread", job[p])
  BY <1>1, <1>2, Running
<1>4. ref \in Int /\ InFrame(ref) /\ processed < ref
  BY <1>3, Frames DEF InFrame, Timed
<1> HIDE DEF ref
<1>5. /\ j \in Job /\ j.ref = ref /\ j.unread = job[p].unread /\ j.delta = job[p].delta
      /\ j.distributed = job[p].distributed /\ j.report = job[p].report
  BY <1>3, <1>4 DEF Job
<1> HIDE DEF j
<1>6. job'[p] = j
  BY <1>1, <1>5, LocalIs DEF AInv
<1>7. Drawn(pc[p], job[p])' /\ Funded(pc[p], job[p])'
  BY <1>1, <1>2, <1>5, <1>6, RunStays DEF Reporting, Pc
<1>8. Timed(pc[p], job[p])'
  BY <1>1, <1>2, <1>4, <1>5, <1>6
     DEF Timed, InFrame, Begun, EpochAt, FrameRefSlot, FrameAt, FrameSlots
<1> QED
  BY <1>2, <1>7, <1>8 DEF Run, Clean, Voted

LEMMA RunReadsMembers ==
  ASSUME AInv, NEW p \in Client, solo = p, ~disturbed', ReadMembers(p)
  PROVE  Run(p)'
<1> DEFINE j == [job[p] EXCEPT !.voters = Voters]
<1>1. /\ pc[p] = "members" /\ UNCHANGED <<now, active, processed, pending, tree, start, changed>>
      /\ Local(p, j) /\ Advance(p, "vote")
  BY DEF ReadMembers, At, Fork, Kept
<1>2. pc'[p] = "vote" /\ ~disturbed
  BY <1>1, Undisturbed DEF AInv, Pc
<1>3. job[p] \in Job /\ Timed("members", job[p]) /\ job[p].i = 1
  BY <1>1, <1>2, Running DEF Fine, Unvoted, Pc
<1>4. Voters \in Seq(Voter)
  BY RewardsAssumption DEF Voters
<1>5. /\ j \in Job /\ j.ref = job[p].ref /\ j.unread = job[p].unread /\ j.delta = job[p].delta
      /\ j.distributed = job[p].distributed /\ j.report = job[p].report
      /\ j.voters = Voters /\ j.i = 1
  BY <1>3, <1>4 DEF Job
<1> HIDE DEF j
<1>6. job'[p] = j
  BY <1>1, <1>5, LocalIs DEF AInv
<1>7. Drawn(pc[p], job[p])' /\ Funded(pc[p], job[p])'
  BY <1>1, <1>2, <1>5, <1>6, RunStays DEF Reporting, Pc
<1>8. Timed(pc[p], job[p])'
  BY <1>1, <1>2, <1>3, <1>5, <1>6
     DEF Timed, InFrame, Begun, EpochAt, FrameRefSlot, FrameAt, FrameSlots
<1>9. Voted(pc[p], job[p])'
  BY <1>2, <1>5, <1>6 DEF Voted, Voters
<1> QED
  BY <1>2, <1>7, <1>8, <1>9 DEF Run, Clean

\* Every member may vote: the frame is the report's, and its slot not processed.
LEMMA RunVotes ==
  ASSUME AInv, NEW p \in Client, solo = p, ~disturbed', SubmitReport(p)
  PROVE  Run(p)'
<1> DEFINE i == job[p].i
           m == job[p].voters[i]
           s == IF i = Len(job[p].voters) THEN "data" ELSE "vote"
           j == [job[p] EXCEPT !.i = @ + 1]
<1>1. /\ pc[p] = "vote" /\ UNCHANGED <<now, active, processed, pending, tree, start, changed>>
  BY DEF SubmitReport, At, Kept
<1>2. ~disturbed
  <2>1. Reply(p, s) \/ Throw(p, FALSE)
    BY DEF SubmitReport
  <2> QED
    BY <2>1, Undisturbed DEF AInv, Pc
<1>3. /\ job[p] \in Job /\ Timed("vote", job[p]) /\ Voted("vote", job[p])
      /\ i \in 1 .. Len(Voters) /\ job[p].voters = Voters /\ processed \in Int
  BY <1>1, <1>2, Running DEF Fine, Voted
<1>4. job[p].ref \in Int /\ InFrame(job[p].ref) /\ processed < job[p].ref
  BY <1>3 DEF Timed, Job
<1>5. Voters \in Seq(Voter) /\ Len(Voters) \in Nat /\ DOMAIN Voters = 1 .. Len(Voters)
  BY RewardsAssumption DEF Voters
<1>6. m = Voters[i] /\ m \in Voter
  BY <1>3, <1>5
<1>7. CanVote(m, job[p].ref)
  <2>1. FastLane = <<>> \/ \E x \in DOMAIN FastLane : FastLane[x] = m
    BY <1>3, <1>5, <1>6 DEF Voters
  <2> QED
    BY <1>3, <1>4, <2>1 DEF CanVote
<1>8. votes' = Counted(m, Data(p)) /\ Local(p, j) /\ Reply(p, s)
  BY <1>7 DEF SubmitReport
<1>9. pc'[p] = s /\ s \in {"vote", "data"}
  <2>1. s \in {"vote", "data"} /\ s \in Pc
    BY DEF Pc
  <2> HIDE DEF s
  <2> QED
    BY <1>8, <2>1, Undisturbed DEF AInv
<1>10. /\ j \in Job /\ j.ref = job[p].ref /\ j.unread = job[p].unread /\ j.delta = job[p].delta
       /\ j.distributed = job[p].distributed /\ j.report = job[p].report
       /\ j.voters = Voters /\ j.i = i + 1
  BY <1>3 DEF Job
<1>11. votes' = [votes EXCEPT ![m] = [ref |-> job[p].ref, report |-> job[p].report]]
  BY <1>3, <1>4, <1>8 DEF Counted, Data
<1>12. \A k \in 1 .. i : votes'[Voters[k]] = [ref |-> job[p].ref, report |-> job[p].report]
  <2>1. \A k \in 1 .. i : k < i => votes[Voters[k]] = [ref |-> job[p].ref, report |-> job[p].report]
    BY <1>3 DEF Voted
  <2>2. \A k \in 1 .. i : Voters[k] \in Voter /\ (k < i \/ k = i)
    BY <1>3, <1>5
  <2>3. votes \in [Voter -> Vote]
    BY DEF AInv, IInv, TypeOK
  <2> HIDE DEF m, i
  <2> QED
    BY <1>6, <1>11, <2>1, <2>2, <2>3
<1>13. s = "data" => \A k \in DOMAIN Voters : k \in 1 .. i
  BY <1>3, <1>5
<1>14. s = "vote" => \A k \in 1 .. (i + 1) - 1 : k \in 1 .. i
  BY <1>3
<1> HIDE DEF j, i, m, s
<1>15. job'[p] = j
  BY <1>8, <1>10, LocalIs DEF AInv
<1>16. Drawn(pc[p], job[p])' /\ Funded(pc[p], job[p])'
  BY <1>1, <1>2, <1>9, <1>10, <1>15, RunStays DEF Reporting, Pc
<1>17. Timed(pc[p], job[p])'
  BY <1>1, <1>4, <1>9, <1>10, <1>15
     DEF Timed, InFrame, Begun, EpochAt, FrameRefSlot, FrameAt, FrameSlots
<1>18. Voted(pc[p], job[p])'
  BY <1>9, <1>10, <1>12, <1>13, <1>14, <1>15 DEF Voted, Voters
<1> QED
  BY <1>9, <1>16, <1>17, <1>18 DEF Run, Clean

LEMMA SeqRange ==
  ASSUME NEW S, NEW q \in Seq(S)
  PROVE  IsFiniteSet({q[k] : k \in DOMAIN q})
<1> DEFINE R == {q[k] : k \in DOMAIN q}
<1>1. DOMAIN q = 1 .. Len(q) /\ Len(q) \in Nat
  OBVIOUS
<1>2. IsFiniteSet(DOMAIN q)
  BY <1>1, FS_Interval
<1>3. q \in Surjection(DOMAIN q, R)
  BY DEF Surjection
<1> HIDE DEF R
<1>4. IsFiniteSet(R)
  BY <1>2, <1>3, FS_Surjection
<1> QED
  BY <1>4 DEF R

\* When every one of the members has voted, they decide.
LEMMA EveryVoteDecides ==
  ASSUME IInv, NEW v, \A k \in DOMAIN Voters : votes[Voters[k]] = v
  PROVE  Agreed(v)
<1> DEFINE V == {Voters[k] : k \in DOMAIN Voters}
           A == {m \in Voter : votes[m] = v}
           F == {FastLane[k] : k \in DOMAIN FastLane}
           M == {Members[k] : k \in DOMAIN Members}
<1>1. IsFiniteSet(Voter)
  <2>1. IsFiniteSet(M)
    BY SeqRange, RewardsAssumption
  <2>2. IsFiniteSet(F)
    BY SeqRange, RewardsAssumption
  <2>3. Voter = M \cup F
    BY DEF Voter
  <2> QED
    BY <2>1, <2>2, <2>3, FS_Union
<1>2. V \subseteq A
  BY DEF Voters, Voter
<1>3. A \subseteq Voter
  OBVIOUS
<1>4. IsFiniteSet(A)
  BY <1>1, <1>3, FS_Subset
<1>5. Cardinality(V) <= Cardinality(A) /\ Cardinality(A) \in Nat
  BY <1>2, <1>4, FS_Subset, FS_CardinalityType
<1>6. Cardinality(V) \in Nat
  BY <1>2, <1>4, FS_Subset, FS_CardinalityType
<1>7. Cardinality(V) >= Quorum /\ Quorum \in Nat
  BY QuorumAssumption, RewardsAssumption
<1> QED
  BY <1>5, <1>6, <1>7 DEF Agreed

\* The report is taken, unless it distributes something by the tree that is there.
LEMMA RunSubmits ==
  ASSUME AInv, NEW p \in Client, solo = p, ~disturbed', SubmitReportData(p)
  PROVE  Run(p)'
<1> DEFINE v == Data(p)
           j == job[p]
<1>1. pc[p] = "data" /\ UNCHANGED <<active, start, changed, job>>
  BY DEF SubmitReportData, At, Kept
<1>2. pc'[p] = "idle" /\ ~disturbed
  BY DEF SubmitReportData, End, Throw, Goto, AInv, IInv, TypeOK
<1>3. /\ j \in Job /\ Drawn("data", j) /\ Funded("data", j) /\ Timed("data", j)
      /\ Voted("data", j) /\ Fine("data", j) /\ processed \in Int
  BY <1>1, <1>2, Running
<1>4. v.ref = j.ref /\ v.report = j.report /\ v = [ref |-> j.ref, report |-> j.report]
  BY DEF Data
<1>5. Agreed(v)
  <2>1. \A k \in DOMAIN Voters : votes[Voters[k]] = v
    BY <1>3, <1>4 DEF Voted
  <2> QED
    BY <2>1, EveryVoteDecides DEF AInv
<1>6. InFrame(v.ref) /\ v.ref > processed
  BY <1>3, <1>4 DEF Timed, Job
<1>7. /\ v.report.cids /\ v.report.distributed = j.distributed /\ j.distributed <= pending
      /\ v.report.tree = cumulatives(j.prev, j.delta)
  BY <1>3, <1>4 DEF Drawn, Funded, Fine, Reporting, Pc
<1>8. CASE CanProcess(v)
  <2>1. tree' = (IF j.distributed > 0 THEN j.report.tree ELSE tree) /\ end'[p] = "submitted"
    <3>1. ~Throw(p, TRUE)
      BY Undisturbed DEF AInv, Pc
    <3> QED
      BY <1>8, <3>1 DEF SubmitReportData, End, AInv, IInv, TypeOK
  <2>2. ASSUME j.prev = start, NEW o \in Operator
        PROVE  /\ tree'[o] = start[o] + j.delta[o]
               /\ changed \/ j.delta[o] \in Draws(active[o])
    <3>1. j.delta \in Tree /\ start \in Tree /\ j.distributed \in Nat /\ j.unread = {}
      BY <1>3 DEF Job, AInv, IInv, TypeOK, Drawn
    <3>2. changed \/ j.delta[o] \in Draws(active[o])
      BY <1>3, <3>1 DEF Drawn
    <3>3. CASE j.distributed > 0
      <4>1. tree' = cumulatives(start, j.delta)
        BY <1>4, <1>7, <2>1, <2>2, <3>3
      <4>2. cumulatives(start, j.delta)[o] = start[o] + j.delta[o]
        BY <3>1, CumulativesType
      <4> QED
        BY <3>2, <4>1, <4>2
    <3>4. CASE j.distributed = 0
      <4>1. j.delta[o] = 0 /\ tree = start /\ start[o] \in Nat
        BY <1>3, <3>1, <3>4 DEF Drawn, Tree
      <4>2. tree' = start
        BY <2>1, <3>4, <4>1
      <4> QED
        BY <3>2, <4>1, <4>2
    <3> QED
      BY <3>1, <3>2, <3>3, <3>4
  <2>3. \A o \in Operator : Draws(active[o])' = Draws(active[o])
    BY <1>1 DEF Draws
  <2> QED
    BY <1>1, <1>2, <2>1, <2>2, <2>3 DEF Run, Well
<1>9. CASE ~CanProcess(v)
  <2>1. v.report.distributed > 0 /\ v.report.tree = tree
    BY <1>5, <1>6, <1>7, <1>9 DEF CanProcess
  <2>2. j.distributed > 0 /\ j.report.tree = start
    BY <1>3, <1>4, <1>7, <2>1 DEF Drawn
  <2>3. end'[p] = "failed"
    BY <1>9 DEF SubmitReportData, Throw, AInv, IInv, TypeOK
  <2> QED
    BY <1>1, <1>2, <2>2, <2>3 DEF Run, Well
<1> QED
  BY <1>8, <1>9

LEMMA RunSteps ==
  ASSUME AInv, NEW p \in Client, solo = p, ~disturbed', Step(p), ~Start(p)
  PROVE  Run(p)'
<1>1. ~Throw(p, TRUE)
  BY Undisturbed DEF AInv, Pc
<1>2. ~Lose(p)
  BY <1>1 DEF Lose
<1> QED
  BY <1>2, RunReads, RunBuilds, RunPends, RunFunds, RunReadsEpoch, RunWarpsInitially,
     RunReadsFrame, RunReadsClock, RunWarps, RunReadsFrameAgain, RunReadsMembers, RunVotes,
     RunSubmits DEF Step

\* A frame that began would have disturbed the run, where it is committed to one.
LEMMA RunTicks ==
  ASSUME AInv, NEW p \in Client, solo = p, ~disturbed', Tick
  PROVE  Run(p)'
<1>1. /\ ~disturbed /\ now' = now + 1
      /\ pc[p] \in Committed => FrameAt(now + 1) = FrameAt(now)
      /\ UNCHANGED <<active, votes, processed, pending, tree, pc, job, end, solo, changed, start>>
  <2>1. solo # Nobody
    BY RewardsAssumption
  <2> QED
    BY <2>1 DEF Tick, Kept
<1>2. CASE pc[p] = "idle"
  <2>1. Well(end[p], job[p])
    <3>1. solo # Nobody
      BY RewardsAssumption
    <3> QED
      BY <1>1, <1>2, <3>1 DEF AInv, Run
  <2> QED
    BY <1>1, <1>2, <2>1 DEF Run, Well, Draws
<1>3. CASE pc[p] # "idle"
  <2>1. /\ Drawn(pc[p], job[p]) /\ Funded(pc[p], job[p]) /\ Timed(pc[p], job[p])
        /\ Voted(pc[p], job[p]) /\ job[p] \in Job /\ now \in Int /\ processed \in Int
    BY <1>1, <1>3, Running
  <2>2. Drawn(pc[p], job[p])' /\ Funded(pc[p], job[p])' /\ Voted(pc[p], job[p])'
    BY <1>1, <2>1 DEF Drawn, Funded, Voted, Voters
  <2>3. /\ FrameAt(now) \in Int /\ FrameAt(now') \in Int
        /\ Begun(now) => Begun(now') /\ FrameRefSlot(now) <= FrameRefSlot(now')
        /\ FrameRefSlot(now) \in Int /\ FrameRefSlot(now') \in Int
        /\ pc[p] \in Committed => FrameAt(now') = FrameAt(now)
    <3>1. now <= now' /\ now' \in Int
      BY <1>1, <2>1
    <3>2. pc[p] \in Committed => FrameAt(now') = FrameAt(now)
      BY <1>1
    <3> QED
      BY <2>1, <3>1, <3>2, TimeGrows, TimeType, Frames
  <2>4. /\ pc[p] = "warpInitial" => now' < FrameBegin(0)
        /\ pc[p] = "warp" => now' < frameStart(job[p].ref)
    <3>1. pc[p] \in Committed => \A k \in Int : now < FrameBegin(k) => now' < FrameBegin(k)
      <4> SUFFICES ASSUME pc[p] \in Committed, NEW k \in Int, now < FrameBegin(k)
                   PROVE  now' < FrameBegin(k)
        OBVIOUS
      <4>1. FrameBegin(k) \in Int /\ now' \in Int
        BY <1>1, <2>1, Begins
      <4>2. ~(FrameAt(now) >= k)
        BY <2>1, <4>1, FrameReached
      <4>3. ~(FrameAt(now') >= k)
        BY <2>3, <4>2
      <4> QED
        BY <4>1, <4>3, FrameReached
    <3>2. pc[p] = "warp" => \E k \in Int : frameStart(job[p].ref) = FrameBegin(k)
      BY <2>1, Begins DEF Timed
    <3>3. pc[p] = "warpInitial" => now' < FrameBegin(0)
      BY <2>1, <3>1 DEF Timed, Committed
    <3>4. pc[p] = "warp" => now' < frameStart(job[p].ref)
      BY <2>1, <3>1, <3>2 DEF Timed, Committed
    <3> QED
      BY <3>3, <3>4
  <2>5. pc[p] \in {"members", "vote", "data"} =>
          Begun(now') /\ job[p].ref = FrameRefSlot(now') /\ processed < job[p].ref
    BY <2>1, <2>3 DEF Timed, InFrame, FrameRefSlot, Committed
  <2>6. pc[p] = "reread" => Begun(now') /\ processed < FrameRefSlot(now')
    BY <2>1, <2>3 DEF Timed
  <2>7. pc[p] = "frame" => Begun(now')
    BY <2>1, <2>3 DEF Timed
  <2>8. pc[p] \in {"wait", "warp"} => \E k \in Nat : job[p].ref = RefOf(k) /\ processed <= job[p].ref
    BY <2>1 DEF Timed
  <2>9. Timed(pc[p], job[p])'
    BY <1>1, <2>4, <2>5, <2>6, <2>7, <2>8
       DEF Timed, InFrame, RefOf, FrameBegin, frameStart, Begun, EpochAt, FrameRefSlot, FrameAt,
           FrameSlots
  <2> QED
    BY <1>1, <1>3, <2>2, <2>9 DEF Run, Clean
<1> QED
  BY <1>2, <1>3

LEMMA RunKeepsThroughKeys ==
  ASSUME AInv, NEW p \in Client, solo = p, ~disturbed', ChangeKeys
  PROVE  Run(p)'
<1>1. /\ ~disturbed /\ changed'
      /\ UNCHANGED <<now, votes, processed, pending, tree, pc, job, end, start>>
  BY DEF ChangeKeys, client
<1>2. solo # Nobody
  BY RewardsAssumption
<1>3. CASE pc[p] = "idle"
  <2>1. Well(end[p], job[p])
    BY <1>1, <1>2, <1>3 DEF AInv, Run
  <2> QED
    BY <1>1, <1>3, <2>1 DEF Run, Well
<1>4. CASE pc[p] # "idle"
  <2>1. /\ Drawn(pc[p], job[p]) /\ Funded(pc[p], job[p]) /\ Timed(pc[p], job[p])
        /\ Voted(pc[p], job[p])
    BY <1>1, <1>4, Running
  <2>2. Drawn(pc[p], job[p])' /\ Funded(pc[p], job[p])' /\ Voted(pc[p], job[p])'
    BY <1>1, <2>1 DEF Drawn, Funded, Voted, Voters
  <2>3. Timed(pc[p], job[p])'
    BY <1>1, <2>1
       DEF Timed, InFrame, RefOf, FrameBegin, frameStart, Begun, EpochAt, FrameRefSlot, FrameAt,
           FrameSlots
  <2> QED
    BY <1>1, <1>4, <2>2, <2>3 DEF Run, Clean
<1> QED
  BY <1>3, <1>4

LEMMA RunStarts ==
  ASSUME AInv, NEW p \in Client, Start(p)
  PROVE  Run(p)'
<1>1. PICK given \in Carried : Begin(p, given, given)
  BY DEF Start
<1> DEFINE j == [NoJob EXCEPT !.prev = given, !.unread = Operator]
<1>2. /\ pc'[p] = "read" /\ start' = tree /\ tree' = tree
  BY <1>1 DEF Begin, Goto, Fork, AInv, IInv, TypeOK
<1>3. j \in Job /\ j.unread = Operator /\ j.delta = Zero
  <2>1. given \in Tree
    BY RewardsAssumption DEF Carried, Tree
  <2> QED
    BY <2>1, NoJobType DEF Job, NoJob
<1> HIDE DEF j
<1>4. job'[p] = j
  <2>1. Local(p, j)
    BY <1>1 DEF Begin, j
  <2> QED
    BY <1>3, <2>1, LocalIs DEF AInv
<1>5. Drawn(pc[p], job[p])'
  BY <1>2, <1>3, <1>4, ZeroType DEF Drawn, Reporting
<1> QED
  BY <1>2, <1>5 DEF Run, Clean, Funded, Timed, Voted, Reporting

\* Another client moves only from a fork on which no run is alone.
LEMMA OthersStep ==
  ASSUME AInv, NEW p \in Client, Step(p), ~Start(p), solo # p
  PROVE  solo = Nobody /\ solo' = Nobody
<1>1. pc[p] # "idle"
  BY DEF Step, ReadOperator, Build, ReadPending, Fund, ReadEpoch, WarpInitial, ReadFrame,
         ReadClock, Warp, ReadFrameAgain, ReadMembers, SubmitReport, SubmitReportData, Lose, At
<1>2. solo = Nobody
  BY <1>1 DEF AInv, Alone
<1>3. solo' = solo
  BY DEF Step, ReadOperator, Build, ReadPending, Fund, ReadEpoch, WarpInitial, WarpTo, ReadFrame,
         ReadClock, Warp, ReadFrameAgain, ReadMembers, SubmitReport, SubmitReportData, Lose, Kept
<1> QED
  BY <1>2, <1>3

\* A step of one client leaves the others where they are.
LEMMA StepsAlone ==
  ASSUME IInv, NEW p \in Client, Step(p), NEW q \in Client \ {p}
  PROVE  pc'[q] = pc[q]
<1>1. \E s \in Pc : pc' = [pc EXCEPT ![p] = s]
  <2>1. ASSUME NEW s \in Pc, Advance(p, s) \/ Reply(p, s) \/ Goto(p, s) PROVE \E x \in Pc : pc' = [pc EXCEPT ![p] = x]
    BY <2>1 DEF Advance, Reply, Throw, Goto, Pc
  <2>2. ASSUME NEW f, Throw(p, f) PROVE \E x \in Pc : pc' = [pc EXCEPT ![p] = x]
    BY <2>2 DEF Throw, Goto, Pc
  <2>3. ASSUME NEW how, End(p, how) PROVE \E x \in Pc : pc' = [pc EXCEPT ![p] = x]
    BY <2>3 DEF End, Goto, Pc
  <2>4. {"read", "build", "pending", "fund", "epoch", "warpInitial", "frame", "wait", "warp",
         "reread", "members", "vote", "data"} \subseteq Pc
    BY DEF Pc
  <2>5. CASE Start(p)
    BY <2>1, <2>4, <2>5 DEF Start, Begin
  <2>6. CASE ReadOperator(p)
    <3>1. Advance(p, "build") \/ Advance(p, "read")
      BY <2>6 DEF ReadOperator
    <3> QED
      BY <2>1, <2>4, <3>1
  <2>7. CASE Build(p)
    <3>1. End(p, "skipped") \/ Throw(p, TRUE) \/ Advance(p, "pending")
      <4>1. CASE cumulatives(job[p].prev, job[p].delta) = Zero
        BY <2>7, <4>1 DEF Build
      <4>2. CASE cumulatives(job[p].prev, job[p].delta) # Zero
        <5>1. \E given \in SUBSET {"tree", "log"} : \E out \in Pins(given) :
                IF out = "throws" THEN Throw(p, TRUE) ELSE Advance(p, "pending")
          BY <2>7, <4>2 DEF Build
        <5> QED
          BY <5>1
      <4> QED
        BY <4>1, <4>2
    <3> QED
      BY <2>1, <2>2, <2>3, <2>4, <3>1
  <2>8. CASE ReadPending(p) \/ Fund(p) \/ ReadEpoch(p) \/ ReadFrame(p) \/ ReadClock(p)
             \/ ReadFrameAgain(p) \/ ReadMembers(p)
    <3>1. \/ Throw(p, FALSE) \/ Reply(p, "epoch")
          \/ \E s \in {"fund", "epoch", "frame", "warpInitial", "wait", "warp", "reread", "members",
                       "vote"} : Advance(p, s)
      BY <2>8 DEF ReadPending, Fund, ReadEpoch, ReadFrame, ReadClock, ReadFrameAgain, ReadMembers
    <3> QED
      BY <2>1, <2>2, <2>4, <3>1
  <2>9. CASE WarpInitial(p) \/ Warp(p)
    <3>1. Throw(p, FALSE) \/ Reply(p, "frame") \/ Reply(p, "reread")
      BY <2>9 DEF WarpInitial, Warp, WarpTo
    <3> QED
      BY <2>1, <2>2, <2>4, <3>1
  <2>10. CASE SubmitReport(p)
    <3>1. Throw(p, FALSE) \/ Reply(p, "data") \/ Reply(p, "vote")
      BY <2>10 DEF SubmitReport
    <3> QED
      BY <2>1, <2>2, <2>4, <3>1
  <2>11. CASE SubmitReportData(p) \/ Lose(p)
    <3>1. Throw(p, FALSE) \/ Throw(p, TRUE) \/ End(p, "submitted")
      BY <2>11 DEF SubmitReportData, Lose
    <3> QED
      BY <2>2, <2>3, <3>1
  <2> QED
    BY <2>5, <2>6, <2>7, <2>8, <2>9, <2>10, <2>11 DEF Step
<1> QED
  BY <1>1 DEF IInv, TypeOK

\* A report that is processed is of the frame the fork is in.
LEMMA PastKeeps ==
  ASSUME IInv, Past, [Next]_vars
  PROVE  Past'
<1>1. now \in Int /\ processed \in Int
  BY DEF IInv, TypeOK
<1>2. now' \in Int /\ now <= now'
  <2>1. ASSUME NEW p \in Client, Step(p) PROVE now' \in Int /\ now <= now'
    <3>1. ASSUME NEW t \in Int, NEW s, WarpTo(p, t, s) PROVE now' \in Int /\ now <= now'
      <4>1. now' = now \/ (t > now /\ now' = t)
        BY <3>1 DEF WarpTo
      <4> QED
        BY <1>1, <4>1
    <3>2. initialStart \in Int /\ frameStart(job[p].ref) \in Int
      BY FrameStartType DEF IInv, TypeOK, Job
    <3>3. CASE WarpInitial(p) \/ Warp(p)
      BY <3>1, <3>2, <3>3 DEF WarpInitial, Warp
    <3>4. CASE ~(WarpInitial(p) \/ Warp(p))
      <4>1. now' = now
        BY <2>1, <3>4
           DEF Step, Start, Begin, ReadOperator, Build, ReadPending, Fund, ReadEpoch, ReadFrame,
               ReadClock, ReadFrameAgain, ReadMembers, SubmitReport, SubmitReportData, Lose, Fork
      <4> QED
        BY <1>1, <4>1
    <3> QED
      BY <3>3, <3>4
  <2>2. CASE Tick
    BY <1>1, <2>2 DEF Tick
  <2>3. CASE ChangeKeys
    BY <1>1, <2>3 DEF ChangeKeys
  <2> QED
    BY <1>1, <2>1, <2>2, <2>3 DEF Next, vars
<1>3. processed' = processed \/ (InFrame(processed') /\ now' = now)
  <2>1. ASSUME NEW p \in Client, Step(p)
        PROVE  processed' = processed \/ (InFrame(processed') /\ now' = now)
    <3>1. CASE SubmitReportData(p)
      <4>1. CanProcess(Data(p)) => InFrame(job[p].ref)
        BY DEF CanProcess, Data
      <4> QED
        BY <3>1, <4>1 DEF SubmitReportData
    <3>2. CASE ~SubmitReportData(p)
      BY <2>1, <3>2
         DEF Step, Start, Begin, ReadOperator, Build, ReadPending, Fund, ReadEpoch, ReadFrame,
             ReadClock, ReadFrameAgain, ReadMembers, SubmitReport, WarpInitial, Warp, WarpTo,
             Lose, Fork
    <3> QED
      BY <3>1, <3>2
  <2> QED
    BY <2>1 DEF Next, Tick, ChangeKeys, vars
<1>4. CASE processed' = processed
  <2>1. FrameRefSlot(now) <= FrameRefSlot(now') /\ (Begun(now) => Begun(now'))
        /\ FrameRefSlot(now) \in Int /\ FrameRefSlot(now') \in Int
    BY <1>1, <1>2, TimeGrows, Frames
  <2>2. processed' = 0 \/ (Begun(now') /\ processed' <= FrameRefSlot(now'))
    BY <1>1, <1>4, <2>1 DEF Past
  <2> QED
    BY <2>2 DEF Past, Begun, EpochAt, FrameRefSlot, FrameAt, FrameSlots
<1>5. CASE InFrame(processed') /\ now' = now
  <2>1. Begun(now') /\ processed' <= FrameRefSlot(now')
    BY <1>1, <1>5, Frames DEF InFrame
  <2> QED
    BY <2>1 DEF Past, Begun, EpochAt, FrameRefSlot, FrameAt, FrameSlots
<1> QED
  BY <1>3, <1>4, <1>5

LEMMA AloneKeeps ==
  ASSUME AInv, [Next]_vars, IInv'
  PROVE  Alone' /\ (solo # Nobody /\ ~disturbed => Run(solo))'
<1> DEFINE Goal == Alone' /\ (solo # Nobody /\ ~disturbed => Run(solo))'
<1>0. Nobody \notin Client /\ (solo' # Nobody => solo' \in Client)
  BY RewardsAssumption DEF IInv, TypeOK
<1>1. ASSUME NEW p \in Client, Start(p) PROVE Goal
  <2>1. solo' = (IF \A q \in Client \ {p} : At(q, "idle") THEN p ELSE Nobody)
    BY <1>1 DEF Start, Begin
  <2>2. solo' # Nobody => solo' = p /\ \A q \in Client \ {p} : pc[q] = "idle"
    BY <2>1 DEF At
  <2>3. \A q \in Client \ {p} : pc'[q] = pc[q]
    BY <1>1, StepsAlone DEF Step, AInv
  <2>4. Run(p)'
    BY <1>1, RunStarts
  <2>5. solo' = p => Run(solo)'
    BY <2>4 DEF Run, Clean
  <2> QED
    BY <2>2, <2>3, <2>5 DEF Alone
<1>2. ASSUME NEW p \in Client, Step(p), ~Start(p), solo = p PROVE Goal
  <2>1. solo' = p
    BY <1>2
       DEF Step, ReadOperator, Build, ReadPending, Fund, ReadEpoch, WarpInitial, WarpTo, ReadFrame,
           ReadClock, Warp, ReadFrameAgain, ReadMembers, SubmitReport, SubmitReportData, Lose, Kept
  <2>2. \A q \in Client \ {p} : pc'[q] = pc[q]
    BY <1>2, StepsAlone DEF AInv
  <2>3. \A q \in Client \ {p} : pc[q] = "idle"
    BY <1>0, <1>2 DEF AInv, Alone
  <2>4. ~disturbed' => Run(p)'
    BY <1>2, RunSteps
  <2>5. Run(p)' => Run(solo)'
    BY <2>1 DEF Run, Clean
  <2> QED
    BY <2>1, <2>2, <2>3, <2>4, <2>5 DEF Alone
<1>3. ASSUME NEW p \in Client, Step(p), ~Start(p), solo # p PROVE Goal
  BY <1>3, OthersStep DEF Alone
<1>4. ASSUME Tick \/ ChangeKeys PROVE Goal
  <2>1. solo' = solo /\ pc' = pc
    BY <1>4 DEF Tick, ChangeKeys, Kept, client
  <2>2. ASSUME NEW p \in Client, solo = p, ~disturbed' PROVE Run(p)'
    BY <1>4, <2>2, RunTicks, RunKeepsThroughKeys
  <2>3. ASSUME NEW p \in Client, solo = p, Run(p)' PROVE Run(solo)'
    BY <2>1, <2>3 DEF Run, Clean
  <2>4. (solo # Nobody /\ ~disturbed => Run(solo))'
    BY <1>0, <2>1, <2>2, <2>3
  <2> QED
    BY <2>1, <2>4 DEF AInv, Alone
<1>5. ASSUME UNCHANGED vars PROVE Goal
  <2>1. UNCHANGED <<now, active, votes, processed, pending, tree, pc, job, end, solo, disturbed,
                    changed, start>>
    BY <1>5 DEF vars, client, history
  <2>2. ASSUME NEW p \in Client, solo = p, Run(p) PROVE Run(solo)'
    <3>1. pc[p] = "idle" => Well(end[p], job[p])'
      BY <2>1, <2>2 DEF Run, Well, Draws
    <3>2. pc[p] # "idle" => /\ Drawn(pc[p], job[p])' /\ Funded(pc[p], job[p])'
                            /\ Voted(pc[p], job[p])'
      BY <2>1, <2>2 DEF Run, Clean, Drawn, Funded, Voted, Voters
    <3>3. pc[p] # "idle" => Timed(pc[p], job[p])'
      BY <2>1, <2>2
         DEF Run, Clean, Timed, InFrame, RefOf, FrameBegin, frameStart, Begun, EpochAt,
             FrameRefSlot, FrameAt, FrameSlots
    <3>4. Run(p)'
      BY <2>1, <3>1, <3>2, <3>3 DEF Run, Clean
    <3> QED
      BY <2>1, <2>2, <3>4 DEF Run, Clean
  <2> QED
    BY <1>0, <2>1, <2>2 DEF AInv, Alone
<1> QED
  BY <1>1, <1>2, <1>3, <1>4, <1>5 DEF Next

-----------------------------------------------------------------------------
(* The results.                                                            *)

\* IInv is inductive: types, what FeeDistributor promises, and what the locals of
\* every client count on, as runs overlap, fail half-way and are repeated.
THEOREM Invariance == Spec => []IInv
BY Initially, NextKeeps, PTL DEF Spec

\* Every variable keeps its type: what FeeDistributor has yet to distribute never
\* goes below zero.
THEOREM TypeCorrect == Spec => []TypeOK
<1>1. IInv => TypeOK
  BY DEF IInv
<1> QED
  BY <1>1, Invariance, PTL

\* No operator is promised more shares than accepted reports have distributed to it
\* and the most a caller carried forward beyond that, whatever trees are carried
\* forward and however runs overlap and fail.
THEOREM AlwaysSolvent == Spec => []Solvent
<1>1. IInv => Solvent
  BY DEF IInv
<1> QED
  BY <1>1, Invariance, PTL

\* AInv is inductive: what an undisturbed run has read, funded, waited for and
\* voted, between any two of its RPCs, is still so when the next one comes.
THEOREM AloneInvariance == Spec => []AInv
<1>1. Init => AInv
  BY Initially DEF Init, AInv, Past, Alone
<1>2. AInv /\ [Next]_vars => AInv'
  <2> SUFFICES ASSUME AInv, [Next]_vars PROVE AInv'
    OBVIOUS
  <2>1. IInv'
    BY NextKeeps DEF AInv
  <2>2. Past'
    BY PastKeeps DEF AInv
  <2> QED
    BY <2>1, <2>2, AloneKeeps DEF AInv
<1> QED
  BY <1>1, <1>2, PTL DEF Spec

\* A run that overlaps no other and meets no fault is accepted, in whatever state
\* earlier runs left the fork and whatever the moment, unless the tree is there
\* already; chained on the current tree, it adds to it what it has drawn.
THEOREM AloneIsAccepted == Spec => []AloneSubmits
<1>1. AInv => AloneSubmits
  <2> SUFFICES ASSUME AInv, solo # Nobody, At(solo, "idle"), ~disturbed
               PROVE  Well(end[solo], job[solo])
    BY DEF AloneSubmits, Well
  <2> QED
    BY DEF AInv, Run, At
<1> QED
  BY <1>1, AloneInvariance, PTL
=============================================================================
