----------------------------- MODULE KeyRecipes -----------------------------
(***************************************************************************)
(* The recipes about operators' keys, bonds and groups, exits and the cl   *)
(* mock (tools/recipes), run by clients against one fork.  A recipe reads, *)
(* then opens actAs brackets and sends its writes in ascending order; each *)
(* RPC is a step, and between two the other clients run.  An RPC may be    *)
(* lost on its way; the answer to a write may be, and then the transport   *)
(* sends the write again (three times at most; here any number) or the     *)
(* recipe throws; a client may be killed.                                  *)
(*                                                                         *)
(* The contracts are external, one record of what the recipes read and of  *)
(* what the errors of their interface (fixtures/receipts) speak of.  Where *)
(* an error's condition is not known they may refuse or not.  Grants to    *)
(* the one who acts, reward addresses and single reads are left out.       *)
(***************************************************************************)
EXTENDS Integers, FiniteSets, Functions

CONSTANTS
  Operator, MaxKeys,  \* node operators; bound: keys of one
  Manager, None,      \* addresses that manage operators; None: the zero address
  MaxGroup, MaxDay,   \* bounds: operator groups ever made, days the fork is warped by
  MaxReport,          \* bound: the last report of VEBO
  QueueLimit,         \* keys that the top-up queue holds
  Client, Nobody,
  Scenario            \* bound: sets of commands, each with the operators they are about,
                      \* the values of their options and the fork they run on

Index == 0 .. MaxKeys - 1
Key == Operator \X Index
Cap == 2          \* MAX_TOPUP_PER_KEY; --amount is a part of it
AllBps == 2       \* shares of a group add up to it
NewGroup == MaxGroup + 1  \* the number of the write that makes one
Counts == [Operator -> 0 .. MaxKeys]

\* turn: a key's place in the order of deposits, which is the top-up queue's.
\* owes: operators whose bond is short.  reported, asking, until: the last consensus
\* report of VEBO, the exit it asks for and its deadline; done: the last processed.
\* source: the router has a module to clone.
Fork ==
  [module : {"csm02", "cm"}, added : Counts, vetted : Counts, limit : Counts,
   deposited : Counts, turn : [Key -> Nat], allocated : [Key -> 0 .. Cap],
   confirmed : SUBSET Key, slashed : SUBSET Key, withdrawn : SUBSET Key,
   manager : [Operator -> Manager \cup {None}], proposed : [Operator -> Manager \cup {None}],
   owes : SUBSET Operator,
   group : [Operator -> 0 .. MaxGroup], share : [Operator -> 0 .. AllBps], groups : 0 .. MaxGroup,
   registered : BOOLEAN, source : BOOLEAN, granted : BOOLEAN,
   reported : Nat, asking : Key \cup {None}, until : Nat, done : Nat, day : 0 .. MaxDay]

RouterKind == {"unvet", "set-target-limit", "deposit", "top-up-active-keys",
               "increase-allocated-balance"}
VerifierKind == {"activate-keys", "report-balance", "slash", "withdraw"}
ManagerKind == {"add-keys", "remove-key", "propose-manager", "add-bond", "compensate-penalty"}
GroupKind == {"create-operator-group", "reset-operator-group"}
Kind == RouterKind \cup VerifierKind \cup ManagerKind \cup GroupKind
          \cup {"confirm-manager", "create-bond-debt", "report-penalty", "cancel-penalty",
                "settle-penalty", "exit-request", "cl-activate", "register-module"}
World == {"warp", "snapshot", "revert"}

ASSUME KeyRecipesAssumption ==
  /\ MaxKeys \in Nat \ {0} /\ MaxGroup \in Nat /\ MaxDay \in Nat /\ MaxReport \in Nat
  /\ QueueLimit \in Nat
  /\ Operator # {} /\ IsFiniteSet(Operator) /\ Nobody \notin Client
  /\ None \notin Manager \cup Key
  /\ \A s \in Scenario :
       /\ s.commands \subseteq Kind \cup World /\ s.about \subseteq Operator
       /\ s.flags \subseteq BOOLEAN /\ s.fork \in Fork

\* n: a count, a limit or an amount; flag: --cl-mock-url, a target mode other than 0,
\* a slashing penalty, a balance below what a validator starts with.  named, shares,
\* twice: whom a group's pairs name, what for, and whether one is named twice.
Job == [kind : Kind, o : Operator, k : Index, n : 0 .. MaxKeys, who : Manager \cup {None},
        flag : BOOLEAN, named : SUBSET Operator, shares : [Operator -> 0 .. AllBps],
        twice : BOOLEAN]

NoJob == [kind |-> "deposit", o |-> CHOOSE o \in Operator : TRUE, k |-> 0, n |-> 0, who |-> None,
          flag |-> FALSE, named |-> {}, shares |-> [o \in Operator |-> 0], twice |-> FALSE]

Account == {"router", "verifier", "consensus", "vebo-admin", "router-admin", "group-manager",
            "module", "reporter", "settler", None} \cup Manager
Stage == {"idle", "operator", "bond", "allocated", "keys", "withdrawn", "pubkey", "module",
          "role", "source", "report", "clock", "groups", "open", "send", "summary", "simulate", "close",
          "balance", "post", "resolve"}
\* todo: numbers of the writes still to send; unread, keep: keys, or operators, to read
\* and those it goes on with; n: what it computed; as: whom it acts as.
Run == [job : Job, todo : SUBSET Nat, unread : SUBSET (Operator \cup (Index \X BOOLEAN)),
        keep : SUBSET Nat, n : Nat, until : Nat, as : Account, failed : BOOLEAN]
Entry == [status : {"active_ongoing", "active_exiting"}, balance : 0 .. Cap]
NoEntry == [status |-> "none", balance |-> 0]

VARIABLES
  fork, snap,     \* the contracts, and a snapshot of them or None
  impersonated,   \* accounts the fork signs for
  cl,             \* the cl mock's entry for each key
  pc, run, end,   \* each client's next RPC, its locals, how its last run ended
  scenario,       \* the one of this behaviour
  solo,           \* the client whose latest run has not overlapped another (history)
  disturbed,      \* that run met a fault or a warp (history)
  begin,          \* the fork when it began (history)
  exited          \* keys whose exit VEBO has ever processed (history)

client == <<pc, run, end>>
history == <<solo, disturbed, begin, exited>>
vars == <<fork, snap, impersonated, cl, client, scenario, history>>

TypeOK ==
  /\ fork \in Fork /\ snap \in Fork \cup {None} /\ impersonated \subseteq Account
  /\ cl \in [Key -> Entry \cup {NoEntry}]
  /\ pc \in [Client -> Stage] /\ run \in [Client -> Run]
  /\ end \in [Client -> {"none", "done", "failed"}]
  /\ scenario \in Scenario
  /\ solo \in Client \cup {Nobody} /\ disturbed \in BOOLEAN /\ begin \in Fork
  /\ exited \subseteq Key

-----------------------------------------------------------------------------
(* The commands, with the options that matter (cli/commands).              *)

NoRun == [job |-> NoJob, todo |-> {}, unread |-> {}, keep |-> {}, n |-> 0, until |-> 0,
          as |-> None, failed |-> FALSE]
OfKey == {"remove-key", "increase-allocated-balance", "report-balance", "slash", "withdraw",
          "exit-request", "cl-activate"}
Options(c) ==
  [kind : {c},
   o : IF c \in {"deposit", "register-module", "create-operator-group"}
       THEN {NoJob.o} ELSE scenario.about,
   k : IF c \in OfKey THEN Index ELSE {0},
   n : CASE c \in {"add-keys", "deposit", "activate-keys"} -> 1 .. MaxKeys
         [] c \in {"unvet", "set-target-limit"}            -> 0 .. MaxKeys - 1
         [] OTHER                                          -> {0},
   who : IF c = "propose-manager" THEN Manager ELSE {None},
   flag : IF c \in {"exit-request", "cl-activate", "set-target-limit", "withdraw", "report-balance"}
          THEN scenario.flags ELSE {FALSE},
   named : IF c = "create-operator-group" THEN SUBSET Operator ELSE {{}},
   shares : IF c = "create-operator-group" THEN [Operator -> 0 .. AllBps] ELSE {NoJob.shares},
   twice : IF c = "create-operator-group" THEN scenario.flags ELSE {FALSE}]
Jobs ==
  {j \in UNION {Options(c) : c \in scenario.commands \cap Kind} :
     \A o \in Operator : j.shares[o] > 0 => o \in j.named}

\* A live fork, where nobody runs anything yet.
Init ==
  /\ scenario \in Scenario /\ fork = scenario.fork
  /\ snap = None /\ impersonated = {} /\ cl = [k \in Key |-> NoEntry]
  /\ pc = [p \in Client |-> "idle"] /\ run = [p \in Client |-> NoRun]
  /\ end = [p \in Client |-> "none"]
  /\ solo = Nobody /\ disturbed = FALSE /\ begin = fork /\ exited = {}

-----------------------------------------------------------------------------
(* The contracts (external).                                               *)

Deposited(f) == {k \in Key : k[2] < f.deposited[k[1]]}
Depositable(f) ==
  {k \in Key : LET o == k[1]
                IN f.deposited[o] <= k[2] /\ k[2] < f.vetted[o] /\ k[2] < f.limit[o]}
\* Whose keys c deposits may take, one after the other.
Turns(f, c) ==
  {s \in [1 .. c -> Operator] :
     \A o \in Operator :
       Cardinality({i \in 1 .. c : s[i] = o}) <= Cardinality({k \in Depositable(f) : k[1] = o})}
Deposit(f, c, s) ==
  LET nth(i) == <<s[i], f.deposited[s[i]] + Cardinality({h \in 1 .. (i - 1) : s[h] = s[i]})>>
  IN [f EXCEPT !.deposited = [o \in Operator |-> @[o] + Cardinality({i \in 1 .. c : s[i] = o})],
               !.turn = [k \in Key |-> IF \E i \in 1 .. c : nth(i) = k
                                       THEN Cardinality(Deposited(f)) + CHOOSE i \in 1 .. c : nth(i) = k
                                       ELSE @[k]]]

\* The top-up queue of csm02: deposited keys that nothing has been allocated to.
Queued(f) == {k \in Deposited(f) \ f.withdrawn : f.allocated[k] = 0}
IsHead(f, k) == k \in Queued(f) /\ \A q \in Queued(f) : f.turn[k] <= f.turn[q]
\* A fork on which deposits took each operator's keys in turn, and VEBO has processed
\* no report later than its last.
Consistent(f) ==
  /\ \A k \in Deposited(f) : f.turn[k] <= Cardinality(Deposited(f))
  /\ \A o \in Operator, h, i \in Index :
       h < i /\ i < f.deposited[o] => f.turn[<<o, h>>] < f.turn[<<o, i>>]
  /\ f.done <= f.reported
ASSUME ForkAssumption == \A s \in Scenario : Consistent(s.fork)

Least(S) == CHOOSE n \in S : \A m \in S : n <= m
Minimum(a, b) == IF a < b THEN a ELSE b
Short(f, o) == IF o \in f.owes THEN 1 ELSE 0

\* Whether the contracts take write w of the run r.
Accepts(f, r, w) ==
  LET j == r.job
      o == j.o
      key == <<o, w>>
  IN CASE j.kind = "add-keys" ->
            r.as = f.manager[o] /\ f.added[o] + j.n <= MaxKeys /\ r.n >= j.n + Short(f, o)
       [] j.kind = "remove-key" ->
            r.as = f.manager[o] /\ f.deposited[o] <= j.k /\ j.k < f.added[o]
       [] j.kind = "propose-manager" ->
            r.as = f.manager[o] /\ j.who \notin {f.manager[o], f.proposed[o]}
       [] j.kind = "confirm-manager" -> r.as = f.proposed[o]
       [] j.kind = "unvet" -> f.deposited[o] <= j.n /\ j.n < f.vetted[o]
       [] j.kind = "deposit" /\ w = 2 ->
            /\ r.n <= Cardinality(Depositable(f))
            /\ f.module = "csm02" => Cardinality(Queued(f)) + r.n <= QueueLimit
       [] j.kind \in {"top-up-active-keys", "increase-allocated-balance"} ->
            /\ key \in Deposited(f) \ f.withdrawn
            /\ f.module = "csm02" => IsHead(f, key)
       [] j.kind \in VerifierKind ->
            /\ key \in Deposited(f) \ f.withdrawn
            /\ j.kind = "slash" => key \notin f.slashed
       [] j.kind = "register-module" /\ w = 2 -> f.granted /\ ~f.registered
       [] j.kind \in GroupKind /\ w = NewGroup ->
            /\ f.groups < MaxGroup
            /\ \A x \in j.named : f.group[x] = 0
            /\ ~j.twice
       [] j.kind = "exit-request" /\ w = 1 ->
            r.n >= f.reported /\ r.n > f.done /\ r.until > f.day
       [] j.kind = "exit-request" /\ w = 3 ->
            /\ r.n = f.reported /\ f.asking = <<o, j.k>>
            /\ f.done < r.n /\ f.day <= f.until
       [] OTHER -> TRUE

\* What the contracts can come to by it.
Effects(f, r, w) ==
  LET j == r.job
      o == j.o
      key == <<o, w>>
  IN CASE j.kind = "add-keys" ->
            {[f EXCEPT !.added[o] = @ + j.n, !.vetted[o] = v, !.owes = @ \ {o}] :
               v \in {f.vetted[o], f.added[o] + j.n}}
       [] j.kind = "remove-key" ->
            {[f EXCEPT !.added[o] = @ - 1, !.vetted[o] = v] :
               v \in {Minimum(f.vetted[o], f.added[o] - 1), f.added[o] - 1}}
       [] j.kind = "propose-manager" -> {[f EXCEPT !.proposed[o] = j.who]}
       [] j.kind = "confirm-manager" -> {[f EXCEPT !.manager[o] = r.as, !.proposed[o] = None]}
       [] j.kind \in {"create-bond-debt", "report-penalty", "settle-penalty"} ->
            {f, [f EXCEPT !.owes = @ \cup {o}]}
       [] j.kind \in {"add-bond", "cancel-penalty", "compensate-penalty"} ->
            {f, [f EXCEPT !.owes = @ \ {o}]}
       [] j.kind = "unvet" -> {[f EXCEPT !.vetted[o] = j.n]}
       [] j.kind = "set-target-limit" -> {[f EXCEPT !.limit[o] = r.n]}
       [] j.kind = "deposit" /\ w = 2 -> {Deposit(f, r.n, s) : s \in Turns(f, r.n)}
       [] j.kind = "top-up-active-keys" -> {[f EXCEPT !.allocated[key] = Cap]}
       [] j.kind = "increase-allocated-balance" ->
            {[f EXCEPT !.allocated[key] = Minimum(Cap, @ + 1)]}
       [] j.kind = "activate-keys" -> {[f EXCEPT !.confirmed = @ \cup {key}]}
       [] j.kind = "report-balance" -> {f, [f EXCEPT !.confirmed = @ \cup {key}]}
       [] j.kind = "slash" -> {[f EXCEPT !.slashed = @ \cup {key}]}
       [] j.kind = "withdraw" -> {[f EXCEPT !.withdrawn = @ \cup {key}]}
       [] j.kind = "register-module" ->
            {IF w = 1 THEN [f EXCEPT !.granted = TRUE] ELSE [f EXCEPT !.registered = TRUE]}
       [] j.kind \in GroupKind /\ w \in 1 .. MaxGroup ->
            {[f EXCEPT !.group = [x \in Operator |-> IF @[x] = w THEN 0 ELSE @[x]],
                       !.share = [x \in Operator |-> IF f.group[x] = w THEN 0 ELSE @[x]]]}
       [] j.kind \in GroupKind /\ w = NewGroup ->
            {[f EXCEPT !.groups = @ + 1,
                       !.group = [x \in Operator |-> IF x \in j.named THEN f.groups + 1 ELSE @[x]],
                       !.share = [x \in Operator |-> IF x \in j.named THEN j.shares[x] ELSE @[x]]]}
       [] j.kind = "exit-request" /\ w = 1 ->
            {[f EXCEPT !.reported = r.n, !.asking = <<o, j.k>>, !.until = r.until]}
       [] j.kind = "exit-request" /\ w = 3 -> {[f EXCEPT !.done = r.n]}
       [] OTHER -> {f}

-----------------------------------------------------------------------------
(* What the recipes compute.                                               *)

\* Mutant: the slot before the last report's.
nextRefBefore(f) == f.reported - 1
\* Mutant: the slot of the last report.
nextRefSame(f) == f.reported
nextRef(f) == f.reported + 1

\* Mutant: every key that could be.
FirstOfAll(S, n) == S
\* The n least.
FirstOf(S, n) == {k \in S : Cardinality({h \in S : h < k}) < n}

\* Mutant: a status and no balance.
activeBalanceDropped(f, k) == 0
activeBalance(f, k) == f.allocated[k]

targetLimit(j) == IF j.flag THEN j.n ELSE MaxKeys
Total(shares) == FoldFunction(LAMBDA x, y : x + y, 0, shares)
\* What the recipes refuse before any RPC.
Invalid(j) ==
  \/ j.kind = "cl-activate" /\ ~j.flag
  \/ j.kind = "create-operator-group" /\ Total(j.shares) # AllBps

\* The first RPC, and the writes that are known before it.
First(kind) ==
  CASE kind \in ManagerKind \cup {"confirm-manager", "top-up-active-keys", "activate-keys",
                  "increase-allocated-balance", "report-balance"} -> "operator"
    [] kind \in {"exit-request", "cl-activate"} -> "pubkey"
    [] kind = "register-module"                 -> "module"
    [] kind \in GroupKind                       -> "groups"
    [] OTHER                                    -> "open"
Known(j) ==
  CASE j.kind \in {"top-up-active-keys", "activate-keys", "cl-activate", "register-module",
                   "reset-operator-group"} -> {}
    [] j.kind \in {"increase-allocated-balance", "report-balance", "slash", "withdraw"} -> {j.k}
    [] j.kind = "create-operator-group" -> {NewGroup}
    [] j.kind = "exit-request"          -> {1, 2, 3}
    [] OTHER                            -> {1}

Signer(r) ==
  CASE r.job.kind \in RouterKind                          -> "router"
    [] r.job.kind \in VerifierKind                        -> "verifier"
    [] r.job.kind \in GroupKind                           -> "group-manager"
    [] r.job.kind = "register-module"                     -> "router-admin"
    [] r.job.kind = "exit-request" /\ Least(r.todo) = 1   -> "consensus"
    [] r.job.kind = "exit-request" /\ Least(r.todo) # 1   -> "vebo-admin"
    [] r.job.kind = "create-bond-debt"                    -> "module"
    [] r.job.kind \in {"report-penalty", "cancel-penalty"} -> "reporter"
    [] r.job.kind = "settle-penalty"                      -> "settler"
    [] OTHER                                              -> r.as
\* Whether the next write is in the bracket that is open.
Together(r) == r.todo # {} /\ r.job.kind # "register-module" /\ Signer(r) = r.as

\* What comes when all is written.
AfterWrites(r) ==
  IF r.todo # {} THEN IF r.job.kind = "register-module" THEN "source" ELSE "open"
  ELSE CASE r.job.kind = "exit-request" /\ r.job.flag -> "balance"
         [] r.job.kind = "register-module"            -> "resolve"
         [] OTHER                                     -> "idle"

-----------------------------------------------------------------------------
(* A client's run, one RPC at a time.                                      *)

At(p, s) == pc[p] = s
Goto(p, s) == pc' = [pc EXCEPT ![p] = s]
Local(p, r) == run' = [run EXCEPT ![p] = r]
End(p, how) == Goto(p, "idle") /\ end' = [end EXCEPT ![p] = how]
Fault(p, yes) == disturbed' = (disturbed \/ (yes /\ p = solo))
Advance(p, r, s) ==
  /\ IF s = "idle" THEN End(p, "done") ELSE Goto(p, s) /\ UNCHANGED end
  /\ Local(p, r) /\ Fault(p, FALSE)

Bracketed == {"send", "summary", "simulate"}
\* An error, of the network if so said: inside of a bracket it is closed first.
Throw(p, fault) ==
  /\ IF pc[p] \in Bracketed
     THEN Goto(p, "close") /\ Local(p, [run[p] EXCEPT !.failed = TRUE]) /\ UNCHANGED end
     ELSE End(p, "failed") /\ UNCHANGED run
  /\ Fault(p, fault)
Reply(p, r, s) == Advance(p, r, s) \/ Throw(p, TRUE)

Steady == <<snap, cl, scenario, solo, begin>>
Reads == UNCHANGED <<fork, impersonated, exited, Steady>>

Start(p) ==
  /\ At(p, "idle")
  /\ \E j \in Jobs :
       /\ Local(p, [NoRun EXCEPT !.job = j, !.todo = Known(j),
                                 !.unread = j.named,
                                 !.n = IF j.kind = "set-target-limit" THEN targetLimit(j) ELSE j.n])
       /\ IF Invalid(j) THEN End(p, "failed")
          ELSE Goto(p, First(j.kind)) /\ end' = [end EXCEPT ![p] = "none"]
  /\ solo' = IF \A q \in Client \ {p} : At(q, "idle") THEN p ELSE Nobody
  /\ disturbed' = FALSE /\ begin' = fork
  /\ UNCHANGED <<fork, snap, impersonated, cl, scenario, exited>>

\* getNodeOperator: the manager, the address proposed, or how many keys are deposited.
ReadOperator(p) ==
  /\ At(p, "operator")
  /\ LET r == run[p]
         o == r.job.o
         total == fork.deposited[o]
     IN CASE r.job.kind = "add-keys" -> Advance(p, [r EXCEPT !.as = fork.manager[o]], "bond")
          [] r.job.kind \in ManagerKind \ {"add-keys"} ->
               Advance(p, [r EXCEPT !.as = fork.manager[o]], "open")
          [] r.job.kind = "confirm-manager" ->
               Advance(p, [r EXCEPT !.as = fork.proposed[o]], "open")
          [] r.job.kind \in {"top-up-active-keys", "activate-keys"} ->
               IF total = 0 THEN Throw(p, FALSE)
               ELSE Advance(p, [r EXCEPT !.keep = 0 .. total - 1,
                                         !.unread = (0 .. total - 1) \X {r.job.kind = "top-up-active-keys"}],
                            IF r.job.kind = "activate-keys" THEN "keys" ELSE "allocated")
          [] OTHER -> IF r.job.k >= total THEN Throw(p, FALSE) ELSE Advance(p, r, "withdrawn")
  /\ Reads

ReadBond(p) ==
  /\ At(p, "bond")
  /\ Advance(p, [run[p] EXCEPT !.n = @ + Short(fork, run[p].job.o)], "open")
  /\ Reads

ReadAllocated(p) ==
  /\ At(p, "allocated")
  /\ Advance(p, [run[p] EXCEPT !.keep = {i \in @ : fork.allocated[<<run[p].job.o, i>>] = 0}], "keys")
  /\ Reads

\* One key's confirmed balance, or whether it is withdrawn; the keys in any order.
ReadKey(p) ==
  /\ At(p, "keys")
  /\ \E x \in run[p].unread :
       LET key == <<run[p].job.o, x[1]>>
           r == IF x[2]
                THEN [run[p] EXCEPT !.unread = @ \ {x},
                                    !.keep = IF key \in fork.withdrawn THEN @ \ {x[1]} ELSE @]
                ELSE [run[p] EXCEPT !.unread = (@ \ {x}) \cup {<<x[1], TRUE>>},
                                    !.keep = IF key \in fork.confirmed THEN @ \ {x[1]} ELSE @]
       IN CASE r.unread # {} -> Advance(p, r, "keys")
            [] r.unread = {} /\ r.job.kind = "top-up-active-keys" ->
                 Advance(p, [r EXCEPT !.todo = r.keep], IF r.keep = {} THEN "idle" ELSE "open")
            [] OTHER -> IF Cardinality(r.keep) < r.n THEN Throw(p, FALSE)
                        ELSE Advance(p, [r EXCEPT !.todo = FirstOf(r.keep, r.n)], "open")
  /\ Reads

ReadWithdrawn(p) ==
  /\ At(p, "withdrawn")
  /\ IF <<run[p].job.o, run[p].job.k>> \in fork.withdrawn THEN Throw(p, FALSE)
     ELSE Advance(p, run[p], "open")
  /\ Reads

ReadPubkey(p) ==
  /\ At(p, "pubkey")
  /\ IF run[p].job.k >= fork.added[run[p].job.o] THEN Throw(p, FALSE)
     ELSE Advance(p, run[p], IF run[p].job.kind = "exit-request" THEN "module" ELSE "balance")
  /\ Reads

\* findModuleId, or resolveModuleId, which throws.
FindModule(p) ==
  /\ At(p, "module")
  /\ IF run[p].job.kind = "register-module"
     THEN Advance(p, run[p], IF fork.registered THEN "idle" ELSE "role")
     ELSE IF fork.registered THEN Advance(p, run[p], "report") ELSE Throw(p, FALSE)
  /\ Reads
ResolveModule(p) ==
  /\ At(p, "resolve")
  /\ IF fork.registered THEN Advance(p, run[p], "idle") ELSE Throw(p, FALSE)
  /\ Reads

\* getRoleMemberCount; where nobody has the role the admin grants it to itself first.
ReadRole(p) ==
  /\ At(p, "role")
  /\ IF fork.granted THEN Advance(p, [run[p] EXCEPT !.todo = {2}], "source")
     ELSE Advance(p, [run[p] EXCEPT !.todo = {1, 2}], "open")
  /\ Reads
\* getStakingModuleIds, after the grant: a module to clone.
ReadSource(p) ==
  /\ At(p, "source")
  /\ IF fork.source \/ fork.registered THEN Advance(p, run[p], "open") ELSE Throw(p, FALSE)
  /\ Reads

ReadReport(p) ==
  /\ At(p, "report") /\ fork.reported < MaxReport
  /\ Advance(p, [run[p] EXCEPT !.n = nextRef(fork)], "clock")
  /\ Reads
ReadClock(p) ==
  /\ At(p, "clock")
  /\ Advance(p, [run[p] EXCEPT !.until = fork.day + 1], "open")
  /\ Reads

\* getNodeOperatorGroupId of the operators of a new group, in any order, or of one.
ReadGroup(p) ==
  /\ At(p, "groups")
  /\ IF run[p].job.kind = "create-operator-group"
     THEN \E o \in run[p].unread :
            Advance(p, [run[p] EXCEPT !.unread = @ \ {o}, !.todo = @ \cup ({fork.group[o]} \ {0})],
                    IF run[p].unread = {o} THEN "open" ELSE "groups")
     ELSE IF fork.group[run[p].job.o] = 0 THEN Throw(p, FALSE)
          ELSE Advance(p, [run[p] EXCEPT !.todo = {fork.group[run[p].job.o]}], "open")
  /\ Reads

-----------------------------------------------------------------------------
(* actAs and the writes.                                                   *)

Open(p) ==
  /\ At(p, "open")
  /\ impersonated' = impersonated \cup {Signer(run[p])}
  /\ Reply(p, [run[p] EXCEPT !.as = Signer(run[p])], "send")
  /\ UNCHANGED <<fork, exited, Steady>>

\* The groups are dissolved as the pairs name them, in any order, before the new one is made.
NextWrites(r) ==
  IF r.job.kind = "create-operator-group" /\ r.todo # {NewGroup} THEN r.todo \ {NewGroup}
  ELSE {Least(r.todo)}
\* Sent by whom the fork signs for.
Takes(p, w) == run[p].as \in impersonated /\ Accepts(fork, run[p], w)
\* What the contracts may refuse: bond changes, a confirmation of nothing, a slashing
\* penalty or its absence, a low balance, an operator with no share of its group.
Doubtful(f, r) ==
  \/ r.job.kind \in {"create-bond-debt", "report-penalty", "cancel-penalty", "settle-penalty",
                     "add-bond", "compensate-penalty"}
  \/ r.job.kind = "confirm-manager" /\ r.as = None
  \/ r.job.kind = "withdraw" /\ (r.job.flag \/ <<r.job.o, r.job.k>> \in f.slashed)
  \/ r.job.kind = "report-balance" /\ r.job.flag
  \/ r.job.kind = "create-operator-group" /\ r.todo = {NewGroup} /\ \E o \in r.job.named : r.job.shares[o] = 0
\* The answer is lost and the transport sends the write again.
Again(p) == UNCHANGED client /\ Fault(p, TRUE)
Send(p) ==
  /\ At(p, "send")
  /\ \E w \in NextWrites(run[p]) :
       LET r == [run[p] EXCEPT !.todo = @ \ {w}]
           s == CASE r.job.kind = "deposit" /\ w = 1 -> "summary"
                  [] Together(r) -> "send"
                  [] OTHER -> "close"
       IN /\ Takes(p, w) /\ fork' \in Effects(fork, run[p], w)
          /\ Reply(p, r, s) \/ Again(p)
  /\ exited' = exited \cup (IF fork'.done # fork.done THEN {fork.asking} ELSE {})
  /\ UNCHANGED <<impersonated, Steady>>
\* Mutant: it goes on when VEBO refuses the data.
SendFailsUnnoticed(p) ==
  /\ At(p, "send") /\ \E w \in NextWrites(run[p]) : ~Takes(p, w)
  /\ IF run[p].job.kind = "exit-request" /\ run[p].todo = {3}
     THEN Advance(p, [run[p] EXCEPT !.todo = {}], "close")
     ELSE Throw(p, FALSE)
  /\ Reads
SendFails(p) ==
  /\ At(p, "send")
  /\ (\E w \in NextWrites(run[p]) : ~Takes(p, w)) \/ Doubtful(fork, run[p])
  /\ Throw(p, FALSE)
  /\ Reads

Summary(p) ==
  /\ At(p, "summary")
  /\ LET capped == Minimum(run[p].job.n, Cardinality(Depositable(fork)))
     IN IF capped = 0 THEN Throw(p, FALSE)
        ELSE Advance(p, [run[p] EXCEPT !.n = capped], "simulate")
  /\ Reads
\* simulateContract: the keys that the write is reported to deposit.
Simulate(p) ==
  /\ At(p, "simulate")
  /\ IF Accepts(fork, run[p], 2) THEN Advance(p, [run[p] EXCEPT !.todo = {2}], "send")
     ELSE Throw(p, FALSE)
  /\ Reads

Close(p) ==
  /\ At(p, "close")
  /\ impersonated' = impersonated \ {run[p].as}
  /\ IF run[p].failed THEN Throw(p, FALSE) ELSE Reply(p, run[p], AfterWrites(run[p]))
  /\ UNCHANGED <<fork, exited, Steady>>

ReadBalance(p) ==
  /\ At(p, "balance")
  /\ Advance(p, [run[p] EXCEPT !.n = activeBalance(fork, <<run[p].job.o, run[p].job.k>>)], "post")
  /\ Reads
Post(p) ==
  /\ At(p, "post")
  /\ cl' = [cl EXCEPT ![<<run[p].job.o, run[p].job.k>>] =
              [status |-> IF run[p].job.kind = "cl-activate" THEN "active_ongoing"
                          ELSE "active_exiting",
               balance |-> run[p].n]]
  /\ Reply(p, run[p], "idle")
  /\ UNCHANGED <<fork, snap, impersonated, scenario, solo, begin, exited>>

\* An RPC never arrives, or the client is killed.
Lose(p) == ~At(p, "idle") /\ Throw(p, TRUE) /\ Reads
Kill(p) ==
  /\ ~At(p, "idle") /\ End(p, "failed") /\ Fault(p, TRUE)
  /\ UNCHANGED run /\ Reads

-----------------------------------------------------------------------------
(* The world: a day goes by, a snapshot, a revert.                         *)

Passes == disturbed' = (disturbed \/ solo # Nobody)
          /\ UNCHANGED <<impersonated, cl, client, scenario, solo, begin, exited>>
warpBy ==
  /\ "warp" \in scenario.commands /\ fork.day < MaxDay
  /\ fork' = [fork EXCEPT !.day = @ + 1] /\ Passes /\ UNCHANGED snap
snapshot == "snapshot" \in scenario.commands /\ snap' = fork /\ Passes /\ UNCHANGED fork
revert ==
  /\ "revert" \in scenario.commands /\ snap # None
  /\ fork' = snap /\ snap' = None /\ Passes

Step(p) ==
  \/ Start(p) \/ ReadOperator(p) \/ ReadBond(p) \/ ReadAllocated(p) \/ ReadKey(p)
  \/ ReadWithdrawn(p) \/ ReadPubkey(p) \/ FindModule(p) \/ ResolveModule(p) \/ ReadRole(p)
  \/ ReadSource(p) \/ ReadReport(p) \/ ReadClock(p) \/ ReadGroup(p)
  \/ Open(p) \/ Send(p) \/ SendFails(p) \/ Summary(p) \/ Simulate(p) \/ Close(p)
  \/ ReadBalance(p) \/ Post(p) \/ Lose(p) \/ Kill(p)
Next == (\E p \in Client : Step(p)) \/ warpBy \/ snapshot \/ revert
Spec == Init /\ [][Next]_vars

-----------------------------------------------------------------------------
(* Properties.                                                             *)

\* p's run ends, which overlapped no other and met no fault.
AloneEnds(p, how) ==
  solo = p /\ ~At(p, "idle") /\ pc'[p] = "idle" /\ ~disturbed' /\ end'[p] = how
Eligible(f, o) == {i \in Index : <<o, i>> \in Deposited(f) \ (f.confirmed \cup f.withdrawn)}

\* What a fork in the state f gives a recipe reason to fail for.
Refused(f, j) ==
  LET o == j.o
      key == <<o, j.k>>
  IN CASE j.kind = "top-up-active-keys" ->
            \/ f.deposited[o] = 0
            \/ /\ f.module = "csm02"
               /\ \E q, k \in Queued(f) : q[1] # o /\ k[1] = o /\ f.turn[q] < f.turn[k]
       [] j.kind = "increase-allocated-balance" ->
            \/ key \notin Deposited(f) \ f.withdrawn
            \/ f.module = "csm02" /\ ~IsHead(f, key)
       [] j.kind = "activate-keys" -> Cardinality(Eligible(f, o)) < j.n
       [] j.kind \in VerifierKind \ {"activate-keys"} ->
            \/ key \notin Deposited(f) \ f.withdrawn
            \/ j.kind = "slash" /\ key \in f.slashed
            \/ j.kind = "withdraw" /\ (j.flag \/ key \in f.slashed)
            \/ j.kind = "report-balance" /\ j.flag
       [] j.kind = "deposit" ->
            LET n == Minimum(j.n, Cardinality(Depositable(f)))
            IN n = 0 \/ (f.module = "csm02" /\ Cardinality(Queued(f)) + n > QueueLimit)
       [] j.kind = "unvet" -> j.n < f.deposited[o] \/ f.vetted[o] <= j.n
       [] j.kind = "remove-key" -> key \in Deposited(f) \/ f.added[o] <= j.k
       [] j.kind = "add-keys" -> f.added[o] + j.n > MaxKeys
       [] j.kind = "exit-request" -> f.added[o] <= j.k \/ ~f.registered
       [] j.kind = "cl-activate" -> f.added[o] <= j.k \/ ~j.flag
       [] j.kind = "create-operator-group" ->
            \/ Total(j.shares) # AllBps \/ f.groups = MaxGroup
            \/ j.twice \/ \E x \in j.named : j.shares[x] = 0
       [] j.kind = "reset-operator-group" -> f.group[o] = 0
       [] j.kind = "propose-manager" -> j.who \in {f.manager[o], f.proposed[o]}
       [] j.kind = "confirm-manager" -> f.proposed[o] = None
       [] j.kind = "register-module" -> ~f.registered /\ ~f.source
       [] OTHER -> Doubtful(f, [job |-> j, as |-> None])

\* The run of a client that overlaps no other and meets no fault fails only if the
\* fork it began on gives reason to: what runs before it did or left half-way done
\* (a report without its data, a role without its module, keys topped up or groups
\* dissolved in part, accounts still impersonated) is no reason.
FailsForReason(p) == AloneEnds(p, "failed") => Refused(begin, run[p].job)
AloneSucceeds == [][\A p \in Client : FailsForReason(p)]_vars

\* If it succeeds it has done all of what it is for, whichever keys, groups and reports
\* it found and however many writes that takes: every key of the operator that waits
\* for it is topped up, the first eligible ones are activated, as many deposited as
\* were asked for or could be, the exit reported and processed, the module registered,
\* the group made or dissolved.  What a recipe of one write does is that write's.
Does(f, g, j, n) ==
  LET o == j.o
  IN CASE j.kind = "top-up-active-keys" ->
            g = [f EXCEPT !.allocated =
                   [k \in Key |-> IF k[1] = o /\ k \in Queued(f) THEN Cap ELSE @[k]]]
       [] j.kind = "activate-keys" ->
            \E C \in SUBSET Eligible(f, o) :
              /\ Cardinality(C) = j.n
              /\ \A i \in C, h \in Eligible(f, o) \ C : i < h
              /\ g = [f EXCEPT !.confirmed = @ \cup {<<o, i>> : i \in C}]
       [] j.kind = "deposit" ->
            /\ n = Minimum(j.n, Cardinality(Depositable(f)))
            /\ Cardinality(Deposited(g)) = Cardinality(Deposited(f)) + n
       [] j.kind = "exit-request" ->
            g = [f EXCEPT !.reported = @ + 1, !.done = f.reported + 1,
                          !.asking = <<o, j.k>>, !.until = f.day + 1]
       [] j.kind = "register-module" ->
            g = IF f.registered THEN f ELSE [f EXCEPT !.granted = TRUE, !.registered = TRUE]
       [] j.kind = "create-operator-group" ->
            /\ \A x \in j.named : g.share[x] = j.shares[x] /\ g.group[x] = g.groups
            /\ \A x \in Operator \ j.named :
                 g.group[x] = IF \E y \in j.named : f.group[x] = f.group[y] THEN 0 ELSE f.group[x]
       [] j.kind = "reset-operator-group" ->
            \A x \in Operator : g.group[x] = IF f.group[x] = f.group[o] THEN 0 ELSE f.group[x]
       [] OTHER -> TRUE
DoesAll(p) == AloneEnds(p, "done") => Does(begin, fork', run[p].job, run[p].n)
AloneDoes == [][\A p \in Client : DoesAll(p)]_vars

\* Then the cl mock has the key's status with the balance that the fork allocated.
Mirrors(p) ==
  LET j == run[p].job
  IN (AloneEnds(p, "done") /\ j.kind \in {"exit-request", "cl-activate"} /\ j.flag) =>
       cl'[<<j.o, j.k>>] =
         [status |-> IF j.kind = "cl-activate" THEN "active_ongoing" ELSE "active_exiting",
          balance |-> fork'.allocated[<<j.o, j.k>>]]
AloneMirrors == [][\A p \in Client : Mirrors(p)]_vars

\* However runs overlap, fail and are repeated, the cl mock shows a validator to be
\* exiting only if VEBO has processed a request for its exit.
ExitingWasRequested ==
  \A k \in Key : cl[k].status = "active_exiting" => k \in exited
=============================================================================
