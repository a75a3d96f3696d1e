---------------------------- MODULE RewardsReport ----------------------------
(***************************************************************************)
(* makeRewards and submitRewards (tools/recipes): clients of one fork read *)
(* the operators, draw rewards, pin the cumulative tree, fund the          *)
(* FeeDistributor, warp to the next consensus frame, have the members vote *)
(* for the report one after the other and submit its data.  Each RPC is a  *)
(* step; between two of them the other client runs, time passes and        *)
(* operators' keys change.  An RPC may be lost there or on the way back.   *)
(*                                                                         *)
(* The contracts are external.  A vote's hash stands for the report and    *)
(* its reference slot, a tree for the shares of every operator (0: no      *)
(* leaf; the pad leaf commits to nothing).                                 *)
(***************************************************************************)
EXTENDS Integers, Sequences, FiniteSets, PinTarget

CONSTANTS
  Operator, MaxKeys,               \* node operators, and the keys one may have active
  Members, FastLane, Quorum,       \* the consensus members in order, the fast lane's, the quorum
  Client, Nobody,
  Genesis, SecondsPerSlot, SlotsPerEpoch, EpochsPerFrame, InitialEpoch,
  MinReward, RewardSpan,           \* a key's draw is in MinReward .. MinReward + RewardSpan - 1
  Ether,                           \* shares that 1 ether buys
  MaxTime, MaxCarried              \* bounds: the last moment modelled, a leaf carried forward

Voter == {Members[i] : i \in DOMAIN Members} \cup {FastLane[i] : i \in DOMAIN FastLane}

ASSUME RewardsAssumption ==
  /\ Members \in Seq(Voter) /\ FastLane \in Seq(Voter)
  /\ Members # <<>> /\ Nobody \notin Client
  /\ Quorum \in Nat \ {0} /\ MinReward \in Nat \ {0} /\ RewardSpan \in Nat \ {0}
  /\ MaxKeys \in Nat /\ Ether \in Nat \ {0}
  /\ Genesis \in Nat /\ MaxTime \in Nat /\ MaxCarried \in Nat /\ InitialEpoch \in Nat \ {0}
  /\ SecondsPerSlot \in Nat \ {0} /\ SlotsPerEpoch \in Nat \ {0} /\ EpochsPerFrame \in Nat \ {0}

\* Who votes: the fast lane, or everybody where there is none.  The recipe relies on
\* their number: "reaches consensus across the fast-lane members".
Voters == IF FastLane = <<>> THEN Members ELSE FastLane
ASSUME QuorumAssumption == Cardinality({Voters[i] : i \in DOMAIN Voters}) >= Quorum

Tree == [Operator -> Nat]
Zero == [o \in Operator |-> 0]
Report == [tree : Tree, distributed : Nat, cids : BOOLEAN]  \* cids: both CIDs are there
NoReport == [tree |-> Zero, distributed |-> 0, cids |-> FALSE]
Vote == [ref : Int, report : Report]
NoVote == [ref |-> 0, report |-> NoReport]

Pc == {"idle", "read", "build", "pending", "fund", "epoch", "warpInitial", "frame",
       "wait", "warp", "reread", "members", "vote", "data"}
\* delta and distributed: this frame's draws; ref: the reference slot last read.
Job == [prev : Tree, unread : SUBSET Operator, delta : Tree, distributed : Nat,
        report : Report, need : Nat, ref : Int, voters : Seq(Voter), i : Nat]
NoJob == [prev |-> Zero, unread |-> {}, delta |-> Zero, distributed |-> 0,
          report |-> NoReport, need |-> 0, ref |-> 0, voters |-> <<>>, i |-> 1]

VARIABLES
  now, active,         \* the fork's clock; each operator's deposited less withdrawn keys
  votes, processed,    \* each member's last vote; the last reference slot processed
  pending, tree,       \* FeeDistributor: shares not yet distributed; the current tree
  pc, job, end,        \* each client's next RPC, its locals, how its last run ended
  solo,                \* the client whose latest run has not overlapped another (history)
  disturbed, changed,  \* that run met a fault or a frame began too late; keys changed (history)
  start, paid,         \* the tree when it began; shares distributed so far (history)
  over                 \* the most a run carried forward beyond what was distributed (history)

client == <<pc, job, end>>
Distributed == <<paid, over>>
history == <<solo, disturbed, changed, start, Distributed>>
vars == <<now, active, votes, processed, pending, tree, client, history>>

TypeOK ==
  /\ now \in Nat /\ active \in [Operator -> 0 .. MaxKeys]
  /\ votes \in [Voter -> Vote] /\ processed \in Int
  /\ pending \in Nat /\ tree \in Tree
  /\ pc \in [Client -> Pc] /\ job \in [Client -> Job]
  /\ end \in [Client -> {"none", "submitted", "skipped", "failed"}]
  /\ solo \in Client \cup {Nobody} /\ disturbed \in BOOLEAN /\ changed \in BOOLEAN
  /\ start \in Tree /\ paid \in Tree /\ over \in Tree

Init ==
  /\ now = Genesis
  /\ active \in [Operator -> 0 .. MaxKeys]
  /\ votes = [m \in Voter |-> NoVote] /\ processed = 0
  /\ pending = 0 /\ tree = Zero
  /\ pc = [p \in Client |-> "idle"] /\ job = [p \in Client |-> NoJob]
  /\ end = [p \in Client |-> "none"]
  /\ solo = Nobody /\ disturbed = FALSE /\ changed = FALSE
  /\ start = Zero /\ paid = Zero /\ over = Zero

-----------------------------------------------------------------------------
(* HashConsensus, FeeOracle and FeeDistributor.                            *)

EpochAt(t) == ((t - Genesis) \div SecondsPerSlot) \div SlotsPerEpoch
FrameSlots == SlotsPerEpoch * EpochsPerFrame
FrameAt(t) == (EpochAt(t) - InitialEpoch) \div EpochsPerFrame
FrameRefSlot(t) == InitialEpoch * SlotsPerEpoch + FrameAt(t) * FrameSlots - 1
Begun(t) == EpochAt(t) >= InitialEpoch
\* getCurrentFrame and what requires the frame to be v's.
InFrame(ref) == Begun(now) /\ ref = FrameRefSlot(now)

\* submitReport.  A fast lane has the first slots of its frame to itself.
CanVote(m, ref) ==
  /\ InFrame(ref)
  /\ FastLane = <<>> \/ \E i \in DOMAIN FastLane : FastLane[i] = m
  /\ ref <= processed => votes[m].ref # ref
\* A vote on a slot already processed is let through and not counted.
Counted(m, v) == IF v.ref <= processed THEN votes ELSE [votes EXCEPT ![m] = v]
Agreed(v) == Cardinality({m \in Voter : votes[m] = v}) >= Quorum

\* submitReportData and processOracleReport.
CanProcess(v) ==
  /\ InFrame(v.ref) /\ v.ref > processed /\ Agreed(v)
  /\ v.report.cids /\ v.report.distributed <= pending
  /\ v.report.distributed > 0 => v.report.tree # tree

-----------------------------------------------------------------------------
(* The recipes' arithmetic.                                                *)

\* What the draws of n keys can come to.
Draws(n) == n * MinReward .. n * (MinReward + RewardSpan - 1)
cumulatives(prev, delta) == [o \in Operator |-> prev[o] + delta[o]]
\* Mutant: the last slot of the frame that is running.
frameStartEarly(ref) == Genesis + (ref + FrameSlots) * SecondsPerSlot
frameStart(ref) == Genesis + (ref + FrameSlots + 1) * SecondsPerSlot
initialStart == Genesis + 1 + InitialEpoch * SlotsPerEpoch * SecondsPerSlot

\* What pinning comes to with some of opts.treeCid and opts.logCid given: with
\* one of them the tree is pinned all the same.
Pins(given) == IF given = {"tree", "log"} THEN {"pinned"} ELSE GuardedPins \cup {"throws"}

-----------------------------------------------------------------------------
(* A client's run, one RPC at a time.                                      *)

At(p, s) == pc[p] = s
Goto(p, s) == pc' = [pc EXCEPT ![p] = s]
Local(p, j) == job' = [job EXCEPT ![p] = j]
Advance(p, s) == Goto(p, s) /\ UNCHANGED <<end, disturbed>>
End(p, how) == Goto(p, "idle") /\ end' = [end EXCEPT ![p] = how] /\ UNCHANGED disturbed
\* The run throws; by a fault of the network and not of the fork's state if so said.
Throw(p, fault) ==
  /\ Goto(p, "idle") /\ end' = [end EXCEPT ![p] = "failed"]
  /\ disturbed' = (disturbed \/ (fault /\ p = solo))
\* The reply to a write may be lost when its effect is there.
Reply(p, s) == Advance(p, s) \/ Throw(p, TRUE)

Fork == <<now, active, votes, processed, pending, tree>>
Kept == <<solo, changed, start>>

\* Leaf by leaf, the most of over and of what prev has beyond what was distributed.
Beyond(prev) ==
  [o \in Operator |-> IF prev[o] > paid[o] + over[o] THEN prev[o] - paid[o] ELSE over[o]]

\* The run begins with prev; the caller gave given.
Begin(p, prev, given) ==
  /\ At(p, "idle")
  /\ Local(p, [NoJob EXCEPT !.prev = prev, !.unread = Operator])
  /\ Goto(p, "read") /\ end' = [end EXCEPT ![p] = "none"]
  /\ solo' = IF \A q \in Client \ {p} : At(q, "idle") THEN p ELSE Nobody
  /\ disturbed' = FALSE /\ changed' = FALSE /\ start' = tree
  /\ over' = Beyond(given)
  /\ UNCHANGED <<Fork, paid>>

\* What a caller may carry forward: nothing, the current tree, the report it made
\* last, accepted or not, or whatever else.
Carried == [Operator -> 0 .. MaxCarried]

\* Mutant: without a tree to carry forward the last report made is taken.
StartFromLast(p) ==
  \E given \in Carried :
    Begin(p, IF given = Zero THEN job[p].report.tree ELSE given, given)

Start(p) == \E given \in Carried : Begin(p, given, given)

ReadOperator(p) ==
  /\ At(p, "read")
  /\ \E o \in job[p].unread, d \in UNION {Draws(n) : n \in 0 .. MaxKeys} :
       /\ d \in Draws(active[o])
       /\ Local(p, [job[p] EXCEPT !.unread = @ \ {o}, !.delta[o] = d, !.distributed = @ + d])
       /\ Advance(p, IF job[p].unread = {o} THEN "build" ELSE "read")
  /\ UNCHANGED <<Fork, Kept, Distributed>>

Build(p) ==
  /\ At(p, "build")
  /\ LET cum == cumulatives(job[p].prev, job[p].delta)
     IN IF cum = Zero THEN End(p, "skipped") /\ UNCHANGED job
        ELSE \E given \in SUBSET {"tree", "log"} : \E out \in Pins(given) :
               IF out = "throws" THEN Throw(p, TRUE) /\ UNCHANGED job
               ELSE /\ Local(p, [job[p] EXCEPT !.report =
                          [tree |-> cum, distributed |-> job[p].distributed,
                           cids |-> out = "pinned"]])
                    /\ Advance(p, "pending")
  /\ UNCHANGED <<Fork, Kept, Distributed>>

\* Mutant: what is missing is not compared with what is there.
ReadPendingBlindly(p) ==
  /\ At(p, "pending")
  /\ Local(p, [job[p] EXCEPT !.need = job[p].distributed - pending]) /\ Advance(p, "fund")
  /\ UNCHANGED <<Fork, Kept, Distributed>>

ReadPending(p) ==
  /\ At(p, "pending")
  /\ IF pending < job[p].distributed
     THEN Local(p, [job[p] EXCEPT !.need = job[p].distributed - pending]) /\ Advance(p, "fund")
     ELSE Advance(p, "epoch") /\ UNCHANGED job
  /\ UNCHANGED <<Fork, Kept, Distributed>>

\* getPooledEthByShares rounds down; 1 ether more is sent.
Fund(p) ==
  /\ At(p, "fund")
  /\ \E rounding \in {0, 1} : pending' = pending + job[p].need - rounding + Ether
  /\ Reply(p, "epoch")
  /\ UNCHANGED <<now, active, votes, processed, tree, job, Kept, Distributed>>

ReadEpoch(p) ==
  /\ At(p, "epoch")
  /\ Advance(p, IF Begun(now) THEN "frame" ELSE "warpInitial")
  /\ UNCHANGED <<Fork, job, Kept, Distributed>>

\* warpTo; the fork refuses to go back in time.
WarpTo(p, t, s) ==
  /\ IF t > now THEN t <= MaxTime /\ now' = t /\ Reply(p, s) ELSE Throw(p, FALSE) /\ UNCHANGED now
  /\ UNCHANGED <<active, votes, processed, pending, tree, job, Kept, Distributed>>
WarpInitial(p) == At(p, "warpInitial") /\ WarpTo(p, initialStart, "frame")
Warp(p) == At(p, "warp") /\ WarpTo(p, frameStart(job[p].ref), "reread")

ReadFrame(p) ==
  /\ At(p, "frame")
  /\ IF Begun(now)
     THEN Local(p, [job[p] EXCEPT !.ref = FrameRefSlot(now)]) /\ Advance(p, "wait")
     ELSE Throw(p, FALSE) /\ UNCHANGED job
  /\ UNCHANGED <<Fork, Kept, Distributed>>

ReadClock(p) ==
  /\ At(p, "wait")
  /\ Advance(p, IF frameStart(job[p].ref) > now THEN "warp" ELSE "reread")
  /\ UNCHANGED <<Fork, job, Kept, Distributed>>

ReadFrameAgain(p) ==
  /\ At(p, "reread")
  /\ Local(p, [job[p] EXCEPT !.ref = FrameRefSlot(now)]) /\ Advance(p, "members")
  /\ UNCHANGED <<Fork, Kept, Distributed>>

ReadMembers(p) ==
  /\ At(p, "members")
  /\ Local(p, [job[p] EXCEPT !.voters = Voters])
  /\ Advance(p, "vote")
  /\ UNCHANGED <<Fork, Kept, Distributed>>

Data(p) == [ref |-> job[p].ref, report |-> job[p].report]

SubmitReport(p) ==
  /\ At(p, "vote")
  /\ LET m == job[p].voters[job[p].i]
     IN IF CanVote(m, job[p].ref)
        THEN /\ votes' = Counted(m, Data(p))
             /\ Local(p, [job[p] EXCEPT !.i = @ + 1])
             /\ Reply(p, IF job[p].i = Len(job[p].voters) THEN "data" ELSE "vote")
        ELSE Throw(p, FALSE) /\ UNCHANGED <<votes, job>>
  /\ UNCHANGED <<now, active, processed, pending, tree, Kept, Distributed>>

SubmitReportData(p) ==
  /\ At(p, "data")
  /\ IF CanProcess(Data(p))
     THEN /\ processed' = job[p].ref
          /\ pending' = pending - job[p].distributed
          /\ tree' = IF job[p].distributed > 0 THEN job[p].report.tree ELSE tree
          /\ paid' = cumulatives(paid, job[p].delta) /\ over' = over
          /\ End(p, "submitted") \/ Throw(p, TRUE)
     ELSE Throw(p, FALSE) /\ UNCHANGED <<processed, pending, tree, Distributed>>
  /\ UNCHANGED <<now, active, votes, job, Kept>>

\* An RPC that never reaches the fork; the client may as well be killed.
Lose(p) ==
  /\ ~At(p, "idle") /\ Throw(p, TRUE)
  /\ UNCHANGED <<Fork, job, Kept, Distributed>>

-----------------------------------------------------------------------------
(* The fork's clock and the operators' keys.                               *)

\* From here a new frame comes too late for the run.
Committed == {"warpInitial", "warp", "members", "vote", "data"}

Tick ==
  /\ now < MaxTime
  /\ now' = now + 1
  /\ disturbed' = (disturbed \/ (solo # Nobody /\ pc[solo] \in Committed
                                  /\ FrameAt(now + 1) # FrameAt(now)))
  /\ UNCHANGED <<active, votes, processed, pending, tree, pc, job, end, Kept, Distributed>>

\* Deposits and withdrawals.
ChangeKeys ==
  /\ \E o \in Operator, n \in 0 .. MaxKeys :
       n # active[o] /\ active' = [active EXCEPT ![o] = n]
  /\ changed' = TRUE
  /\ UNCHANGED <<now, votes, processed, pending, tree, client, solo, disturbed, start, Distributed>>

Step(p) ==
  \/ Start(p) \/ ReadOperator(p) \/ Build(p) \/ ReadPending(p) \/ Fund(p)
  \/ ReadEpoch(p) \/ WarpInitial(p) \/ ReadFrame(p) \/ ReadClock(p) \/ Warp(p)
  \/ ReadFrameAgain(p) \/ ReadMembers(p) \/ SubmitReport(p) \/ SubmitReportData(p)
  \/ Lose(p)
Next == (\E p \in Client : Step(p)) \/ Tick \/ ChangeKeys
Spec == Init /\ [][Next]_vars

-----------------------------------------------------------------------------
(* Properties.                                                             *)

\* However runs overlap, fail half-way and are repeated, no operator is promised more
\* shares than accepted reports have distributed to it and the most a caller carried
\* forward beyond that.  So FeeDistributor can honour every leaf as long as callers
\* chain on a tree that was in force, and a report never accepted that is chained on
\* is owed once, however often it is built upon.
Solvent == \A o \in Operator : tree[o] <= paid[o] + over[o]

\* The run of a client that overlaps no other and meets no fault, in whatever
\* state earlier runs left the fork, is accepted unless there is nothing to
\* report or the same tree is there already.  If it carries the tree forward, the
\* new tree is that tree and, for every operator, the draws of its active keys.
AloneSubmits ==
  (solo # Nobody /\ At(solo, "idle") /\ ~disturbed) =>
    LET j == job[solo]
    IN /\ end[solo] = "failed" => (j.distributed > 0 /\ j.report.tree = start)
       /\ end[solo] = "submitted" /\ j.prev = start =>
            \A o \in Operator : /\ tree[o] = start[o] + j.delta[o]
                                /\ changed \/ j.delta[o] \in Draws(active[o])
=============================================================================
