------------------------------- MODULE Survey -------------------------------
(***************************************************************************)
(* The commands of tools/survey against one PostgreSQL database, for one   *)
(* node operator and one main address (every statement names one of them). *)
(* A client runs a command statement by statement.  In a transaction the   *)
(* rows it writes are locked until it commits, nobody sees them before,    *)
(* and a statement that meets a locked row waits and looks at the row      *)
(* again, but not for rows that have come since it began (READ COMMITTED). *)
(* A client may die at any moment, which rolls its transaction back.  A    *)
(* statement takes its locks in the step of what follows it, which nobody  *)
(* can tell apart.                                                         *)
(*                                                                         *)
(* Comments, points, reviewers and the tables only reset touches are left  *)
(* out; an address drawn at random is any address.                         *)
(***************************************************************************)
EXTENDS Naturals, FiniteSets

CONSTANTS
  SlotCount,  \* slots of a members row; 4 in the code
  Address,
  None,     \* no row, and an empty slot of a request
  Id,       \* bound: rows there may be of a table at one time
  Client,
  Mix       \* bound: sets of commands; a behaviour uses those of one set

Slot == 1 .. SlotCount
Status == {"REVIEW", "APPROVED", "REJECTED"}
Members == [Slot -> Address]
Slots == [Slot -> Address \cup {None}]
Request == [slots : Slots, status : Status, superseded : BOOLEAN]
\* IDVTC forms bind to the operator when seeded, ICS forms are issued in review.
Form == [kind : {"ics", "idvtc"}, status : Status, outdated : BOOLEAN,
         issued : BOOLEAN, bound : BOOLEAN]
Row == {"members", "request", "form"} \X (Id \cup {None})

Command == {"create", "review", "set", "clear", "reset", "pending-rotation", "ics-seed",
            "idvtc-seed", "idvtc-with-members", "ics-review", "idvtc-review"}

ASSUME SurveyAssumption ==
  /\ SlotCount \in Nat \ {0} /\ IsFiniteSet(Id) /\ Id \cap Client = {}
  /\ None \notin Address \cup Id \cup Members \cup Request \cup Form
  /\ Mix \subseteq SUBSET Command

Stage == {"idle", "look", "supersede", "insert", "find", "merge", "apply", "decide", "set",
          "clear", "wipe-1", "wipe-2", "wipe-3", "wipe", "outdate", "new-form", "find-form",
          "status", "issue"}
\* want: the rows that the last statement has found and still has to lock.
Job == [command : Command, slots : Slots, status : Status, flag : BOOLEAN, id : Id \cup {None},
        merged : Slots, want : SUBSET Row]
Empty == [i \in Slot |-> None]
NoJob == [command |-> "clear", slots |-> Empty, status |-> "REVIEW", flag |-> FALSE, id |-> None,
          merged |-> Empty, want |-> {}]

VARIABLES
  members, request, form,  \* committed rows; None where there is none
  at, job, held,           \* each client's next statement, its locals, the rows it has locked
  mix,                     \* the commands used in this behaviour
  overlap,                 \* overlap[p]: commands that overlapped p's run (history)
  racing,                  \* commands two runs of which have overlapped (history)
  applied,                 \* requests whose slots reached the members row (history)
  stranded                 \* requests, and clients creating one, that the row they counted
                           \* on has been taken from (history)

tables == <<members, request, form>>
history == <<overlap, racing, applied, stranded>>
vars == <<tables, at, job, held, mix, history>>

TypeOK ==
  /\ members \in Members \cup {None}
  /\ request \in [Id -> Request \cup {None}] /\ form \in [Id -> Form \cup {None}]
  /\ at \in [Client -> Stage] /\ job \in [Client -> Job] /\ held \in [Client -> SUBSET Row]
  /\ mix \in Mix /\ overlap \in [Client -> SUBSET Command] /\ racing \subseteq Command
  /\ applied \subseteq Id /\ stranded \subseteq Id \cup Client

-----------------------------------------------------------------------------
(* Rows and slots.                                                         *)

Present(table) == {id \in DOMAIN table : table[id] # None}
Open(r) == ~r.superseded /\ r.status # "APPROVED"
OpenRequests == {id \in Present(request) : Open(request[id])}

\* What an address list comes to in slots: it fills them from the first.
buildSlotColumns(s) ==
  /\ s[1] # None
  /\ \A i \in Slot \ {1} : s[i] # None => s[i - 1] # None

Creates == {"create", "pending-rotation"}
Seeds == {"ics-seed", "idvtc-seed", "idvtc-with-members"}

Agree(s, t) == \A i \in Slot : s[i] # None => t[i] = s[i]
\* Mutant: a first request is not filled up.
PaddedNever(s, active) == {s}
\* The slots a request may be created with when active is the members row.
Padded(s, active) == IF active # None THEN {s} ELSE {m \in Members : Agree(s, m)}

\* Mutant: the slots of the request and nothing else.
mergeSlotsAlone(active, s) == s
\* Mutant: a slot the request leaves open loses its member.
mergeSlotsFirst(active, s) == [i \in Slot |-> IF s[i] # None THEN s[i] ELSE s[1]]
mergeSlots(active, s) == [i \in Slot |-> IF s[i] # None THEN s[i] ELSE active[i]]

Mergeable(active, s) ==
  /\ active = None => \A i \in Slot : s[i] # None
  /\ LET m == [i \in Slot |-> IF s[i] # None THEN s[i] ELSE active[i]]
     IN \A i, j \in Slot : m[i] = m[j] => i = j

MembersRow == IF members = None THEN {} ELSE {<<"members", None>>}
Rows(name, ids) == {<<name, id>> : id \in ids}
Ids(name, rows) == {r[2] : r \in {x \in rows : x[1] = name}}
Kind(command) == IF command \in {"ics-seed", "ics-review"} THEN "ics" ELSE "idvtc"

\* Where there are reviews of requests and nobody to create one, one waits already.
Init ==
  /\ mix \in Mix
  /\ IF "review" \in mix /\ mix \cap Creates = {}
     THEN /\ members \in Members \cup {None}
          /\ \E id \in Id, s \in IF members = None THEN Members
                                 ELSE {x \in Slots : buildSlotColumns(x)} :
               request = [x \in Id |-> IF x # id THEN None ELSE
                            [slots |-> s, status |-> "REVIEW", superseded |-> FALSE]]
     ELSE members = None /\ request = [id \in Id |-> None]
  /\ form = [id \in Id |-> None]
  /\ at = [p \in Client |-> "idle"] /\ job = [p \in Client |-> NoJob]
  /\ held = [p \in Client |-> {}]
  /\ overlap = [p \in Client |-> {}]
  /\ racing = {} /\ applied = {} /\ stranded = {}

-----------------------------------------------------------------------------
(* Statements, locks and commits.                                          *)

At(p, s) == at[p] = s
Goto(p, s) == at' = [at EXCEPT ![p] = s]
Local(p, j) == job' = [job EXCEPT ![p] = j]
\* A statement has found these rows to write; s follows when it has them.
Write(p, rows, s) ==
  /\ Goto(p, s) /\ Local(p, [job[p] EXCEPT !.want = rows])
  /\ UNCHANGED <<tables, held, mix, history>>
\* The end of a transaction, or of a statement outside of one, and of the command.
Release(p) == held' = [held EXCEPT ![p] = {}] /\ UNCHANGED <<mix, racing>>
Ends(p) ==
  /\ Goto(p, "idle") /\ Local(p, NoJob) /\ Release(p)
  /\ overlap' = [overlap EXCEPT ![p] = {}]

\* What is left, once it is free, of a row that was found.
StillThere(p, r) ==
  \/ r[1] = "members"
  \/ r[1] = "request" /\ request[r[2]] # None /\ (job[p].command \in Creates => Open(request[r[2]]))
  \/ r[1] = "form" /\ form[r[2]] # None
Free(p, rows) == \A q \in Client \ {p} : held[q] \cap rows = {}
Locks(p) == Free(p, job[p].want)
Mine(p) == held[p] \cup {r \in job[p].want : StillThere(p, r)}
\* The transaction goes on with another statement.
Hold(p, rows, s) ==
  /\ Locks(p) /\ held' = [held EXCEPT ![p] = Mine(p)]
  /\ Goto(p, s) /\ Local(p, [job[p] EXCEPT !.want = rows])
  /\ UNCHANGED <<tables, mix, history>>

\* The command throws, or its client dies: the transaction is rolled back.
Abort(p) ==
  /\ Ends(p)
  /\ stranded' = stranded \ {p}
  /\ UNCHANGED <<tables, applied>>
Die(p) == ~At(p, "idle") /\ Abort(p)

-----------------------------------------------------------------------------
(* Commands.                                                               *)

\* Mutant: issues whatever the review says.
AllowedAlways(c, status, flag) == TRUE
\* --issued and --bind are for approved forms.
Allowed(c, status, flag) ==
  (c \in {"idvtc-seed", "ics-review"} /\ flag) => status = "APPROVED"

\* flag: --bind, --issued, and reset's --main-address.
Jobs(c) ==
  [command : {c},
   slots : CASE c = "create" -> {x \in Slots : buildSlotColumns(x)}
             [] c \in {"set", "pending-rotation", "idvtc-with-members"} -> Members
             [] OTHER -> {Empty},
   status : IF c \in {"review", "ics-seed", "idvtc-seed", "ics-review", "idvtc-review"}
            THEN Status ELSE {"APPROVED"},
   flag : IF c \in {"reset", "idvtc-seed", "ics-review"}
          THEN BOOLEAN ELSE {c = "idvtc-with-members"},
   id : {None}, merged : {Empty}, want : {{}}]

First(c) ==
  CASE c = "create" -> "look"
    [] c = "review" -> "find"
    [] c \in {"set", "pending-rotation"} -> "set"
    [] c = "clear" -> "clear"
    [] c = "reset" -> "wipe-1"
    [] c \in Seeds -> "outdate"
    [] OTHER -> "find-form"

Start(p) ==
  /\ At(p, "idle")
  /\ \E c \in mix : \E j \in Jobs(c) :
       /\ Allowed(c, j.status, j.flag)
       /\ LET running == {q \in Client \ {p} : ~At(q, "idle")}
              names == {job[q].command : q \in running}
          IN /\ overlap' = [q \in Client |-> IF q = p THEN names
                                             ELSE IF q \in running THEN overlap[q] \cup {c}
                                             ELSE overlap[q]]
             /\ racing' = IF c \in names THEN racing \cup {c} ELSE racing
       /\ Local(p, j) /\ Goto(p, First(c))
  /\ UNCHANGED <<tables, held, mix, applied, stranded>>

\* rotation create: the look at the members row is outside of the transaction.
Look(p) ==
  /\ At(p, "look")
  /\ \E s \in Padded(job[p].slots, members) : Local(p, [job[p] EXCEPT !.slots = s])
  /\ Goto(p, "supersede")
  /\ UNCHANGED <<tables, held, mix, history>>
\* Mutant: rejected requests stay.
SupersedeWaiting(p) ==
  At(p, "supersede")
    /\ Write(p, Rows("request", {id \in OpenRequests : request[id].status = "REVIEW"}), "insert")
Supersede(p) == At(p, "supersede") /\ Write(p, Rows("request", OpenRequests), "insert")
\* The partial unique index: a second request that waits for a review, but for those
\* that p is about to supersede.
Taken(p) ==
  {id \in OpenRequests : request[id].status = "REVIEW" /\ <<"request", id>> \notin Mine(p)}
Insert(p) ==
  /\ At(p, "insert") /\ Locks(p) /\ Taken(p) = {}
  /\ \E id \in Id \ Present(request) :
       /\ \A q \in Client : job[q].id # id
       /\ request' = [x \in Id |->
            IF x = id
            THEN [slots |-> job[p].slots, status |-> "REVIEW", superseded |-> FALSE]
            ELSE IF <<"request", x>> \in Mine(p) THEN [request[x] EXCEPT !.superseded = TRUE]
            ELSE request[x]]
       /\ stranded' = ((stranded \ {id}) \cup (IF p \in stranded THEN {id} ELSE {})) \ {p}
  /\ Ends(p) /\ UNCHANGED <<members, form, applied>>

InsertFails(p) ==
  /\ At(p, "insert") /\ Locks(p)
  /\ Taken(p) # {} /\ Free(p, Rows("request", Taken(p)))
  /\ Abort(p)

\* rotation review, one transaction: the newest open request; the index leaves one.
Find(p) ==
  /\ At(p, "find")
  /\ \E id \in {x \in OpenRequests : request[x].status = "REVIEW"} :
       IF job[p].status = "APPROVED"
       THEN /\ Local(p, [job[p] EXCEPT !.id = id, !.slots = request[id].slots])
            /\ Goto(p, "merge")
       ELSE /\ Local(p, [job[p] EXCEPT !.id = id, !.want = {<<"request", id>>}])
            /\ Goto(p, "decide")
  /\ UNCHANGED <<tables, held, mix, history>>
FindNone(p) ==
  /\ At(p, "find") /\ {x \in OpenRequests : request[x].status = "REVIEW"} = {}
  /\ Abort(p)
Merge(p) ==
  /\ At(p, "merge") /\ Mergeable(members, job[p].slots)
  /\ Goto(p, "apply")
  /\ Local(p, [job[p] EXCEPT !.merged = mergeSlots(members, job[p].slots),
                             !.want = {<<"members", None>>}])
  /\ UNCHANGED <<tables, held, mix, history>>
MergeFails(p) == At(p, "merge") /\ ~Mergeable(members, job[p].slots) /\ Abort(p)
\* Mutant: not in the transaction.
ApplyAtOnce(p) ==
  /\ At(p, "apply") /\ Locks(p)
  /\ members' = job[p].merged /\ applied' = applied \cup {job[p].id}
  /\ Goto(p, "decide") /\ Local(p, [job[p] EXCEPT !.want = {<<"request", job[p].id>>}])
  /\ UNCHANGED <<request, form, held, mix, overlap, racing, stranded>>
Apply(p) == At(p, "apply") /\ Hold(p, {<<"request", job[p].id>>}, "decide")

Approves(p) == job[p].command = "review" /\ job[p].status = "APPROVED"
\* A request decided by another review meanwhile cannot wait again beside a newer one.
Clashes(p) ==
  /\ job[p].status = "REVIEW" /\ request[job[p].id] # None /\ ~request[job[p].id].superseded
  /\ Taken(p) # {}
\* prisma throws when there is no row to update, and on the index.
Decide(p) ==
  /\ At(p, "decide") /\ Locks(p) /\ request[job[p].id] # None /\ ~Clashes(p)
  /\ request' = [request EXCEPT ![job[p].id].status = job[p].status]
  /\ members' = IF Approves(p) THEN job[p].merged ELSE members
  /\ applied' = IF Approves(p) THEN applied \cup {job[p].id} ELSE applied
  /\ Ends(p) /\ UNCHANGED <<form, stranded>>
DecideFails(p) ==
  /\ At(p, "decide") /\ Locks(p)
  /\ \/ request[job[p].id] = None
     \/ Clashes(p) /\ Free(p, Rows("request", Taken(p)))
  /\ Abort(p)

\* members set, alone or as a step of a scenario.
SetMembers(p) ==
  /\ At(p, "set") /\ Free(p, {<<"members", None>>})
  /\ members' = job[p].slots
  /\ IF job[p].command = "pending-rotation"
     THEN \E a \in Address :
            /\ Goto(p, "look") /\ Release(p) /\ UNCHANGED overlap
            /\ Local(p, [job[p] EXCEPT !.slots = [Empty EXCEPT ![1] = a]])
     ELSE Ends(p)
  /\ UNCHANGED <<request, form, applied, stranded>>

Creating == {q \in Client : at[q] \in {"supersede", "insert"}}
Strands ==
  stranded' = IF members # None /\ members' = None
              THEN stranded \cup Present(request) \cup Creating ELSE stranded
\* members clear.
ClearMembers(p) ==
  /\ At(p, "clear") /\ Free(p, MembersRow)
  /\ members' = None /\ Strands
  /\ Ends(p) /\ UNCHANGED <<request, form, applied>>

\* wipeOperator and the forms of --main-address, one transaction.
Wiped(p, name) ==
  CASE name = "members" -> MembersRow
    [] name = "request" -> Rows("request", Present(request))
    [] name = "form"    -> Rows("form", {id \in Present(form) : job[p].flag \/ form[id].bound})
\* Mutant: requests before members.
WipedInReverse ==
  [s \in {"wipe-1", "wipe-2", "wipe-3"} |->
     CASE s = "wipe-1" -> <<"request", "wipe-2">>
       [] s = "wipe-2" -> <<"members", "wipe-3">>
       [] s = "wipe-3" -> <<"form", "wipe">>]
WipeOrder ==
  [s \in {"wipe-1", "wipe-2", "wipe-3"} |->
     CASE s = "wipe-1" -> <<"members", "wipe-2">>
       [] s = "wipe-2" -> <<"request", "wipe-3">>
       [] s = "wipe-3" -> <<"form", "wipe">>]
WipeTable(p) ==
  at[p] \in DOMAIN WipeOrder /\ Hold(p, Wiped(p, WipeOrder[at[p]][1]), WipeOrder[at[p]][2])
Wipe(p) ==
  /\ At(p, "wipe") /\ Locks(p)
  /\ members' = IF <<"members", None>> \in Mine(p) THEN None ELSE members
  /\ request' = [id \in Id |-> IF <<"request", id>> \in Mine(p) THEN None ELSE request[id]]
  /\ form' = [id \in Id |-> IF <<"form", id>> \in Mine(p) THEN None ELSE form[id]]
  /\ applied' = {id \in applied : <<"request", id>> \notin Mine(p)}
  /\ Strands /\ Ends(p)

\* Seeding a form, one transaction.
Outdate(p) ==
  /\ At(p, "outdate")
  /\ Write(p, Rows("form", {id \in Present(form) : form[id].kind = Kind(job[p].command)}), "new-form")
NewForm(p) ==
  /\ At(p, "new-form") /\ Locks(p)
  /\ \E id \in Id \ Present(form) :
       /\ \A q \in Client : job[q].id # id
       /\ form' = [x \in Id |->
            IF x = id
            THEN [kind |-> Kind(job[p].command), status |-> job[p].status, outdated |-> FALSE,
                  issued |-> job[p].flag, bound |-> job[p].flag]
            ELSE IF <<"form", x>> \in Mine(p) THEN [form[x] EXCEPT !.outdated = TRUE]
            ELSE form[x]]
  /\ IF job[p].command = "idvtc-with-members"
     THEN /\ Goto(p, "set") /\ Release(p) /\ UNCHANGED overlap
          /\ Local(p, [job[p] EXCEPT !.want = {}])
     ELSE Ends(p)
  /\ UNCHANGED <<members, request, applied, stranded>>

\* Reviewing a form: its review and its form are updated one after the other.
Current(kind) == {id \in Present(form) : form[id].kind = kind /\ ~form[id].outdated}
FindForm(p) ==
  /\ At(p, "find-form")
  /\ \E id \in Current(Kind(job[p].command)) : Local(p, [job[p] EXCEPT !.id = id])
  /\ Goto(p, "status")
  /\ UNCHANGED <<tables, held, mix, history>>
FindNoForm(p) == At(p, "find-form") /\ Current(Kind(job[p].command)) = {} /\ Abort(p)
SetStatus(p) ==
  /\ At(p, "status") /\ form[job[p].id] # None
  /\ form' = [form EXCEPT ![job[p].id].status = job[p].status]
  /\ IF job[p].flag THEN Goto(p, "issue") /\ Release(p) /\ UNCHANGED <<job, overlap>> ELSE Ends(p)
  /\ UNCHANGED <<members, request, applied, stranded>>
SetStatusFails(p) == At(p, "status") /\ form[job[p].id] = None /\ Abort(p)
Issue(p) ==
  /\ At(p, "issue") /\ Free(p, {<<"form", job[p].id>>}) /\ form[job[p].id] # None
  /\ form' = [form EXCEPT ![job[p].id].issued = TRUE]
  /\ Ends(p) /\ UNCHANGED <<members, request, applied, stranded>>
IssueFails(p) ==
  /\ At(p, "issue") /\ Free(p, {<<"form", job[p].id>>}) /\ form[job[p].id] = None
  /\ Abort(p)

Step(p) ==
  \/ Start(p) \/ Die(p)
  \/ Look(p) \/ Supersede(p) \/ Insert(p) \/ InsertFails(p)
  \/ Find(p) \/ FindNone(p) \/ Merge(p) \/ MergeFails(p) \/ Apply(p)
  \/ Decide(p) \/ DecideFails(p)
  \/ SetMembers(p) \/ ClearMembers(p) \/ WipeTable(p) \/ Wipe(p)
  \/ Outdate(p) \/ NewForm(p)
  \/ FindForm(p) \/ FindNoForm(p) \/ SetStatus(p) \/ SetStatusFails(p)
  \/ Issue(p) \/ IssueFails(p)
Next == \E p \in Client : Step(p)
Spec == Init /\ [][Next]_vars

-----------------------------------------------------------------------------
(* Properties.                                                             *)

EndsNow(p, s) == at[p] = s /\ at'[p] = "idle"
MemberWriters == {"review", "set", "clear", "reset", "pending-rotation", "idvtc-with-members"}

\* Nobody waits for a row of one who waits for a row of his: the commands lock
\* the members row before a request and a request before a form, so PostgreSQL
\* never has to kill one of them.
Waits(p, q) == job[p].want \cap held[q] # {}
NoCircularWait == \A p, q \in Client : ~(p # q /\ Waits(p, q) /\ Waits(q, p))

\* Of a request no two reviews dealt with at once, it is approved if and only if
\* its slots have reached the members row: a kill in between undoes both.
ApprovedIsApplied ==
  "review" \notin racing =>
    \A id \in Present(request) : request[id].status = "APPROVED" <=> id \in applied

\* A request that waits for its review could be approved: every slot it leaves
\* open has a member, unless the members row it counted on was deleted since.
WaitingHasMembers ==
  \A id \in OpenRequests :
    (members = None /\ id \notin stranded) => \A i \in Slot : request[id].slots[i] # None

\* A request created while no other was being created is then the only one that
\* is neither approved nor superseded, whatever else goes on; but for reviews of
\* one request at a time, the later of which takes an approval back.
CreatesAlone(p) ==
  (EndsNow(p, "insert") /\ request' # request
     /\ overlap[p] \cap Creates = {} /\ "review" \notin racing)
    => Cardinality(OpenRequests') = 1
CreateSupersedes == [][\A p \in Client : CreatesAlone(p)]_vars

\* An approval that no other writer of the members row overlapped changes the
\* slots of its request and keeps the other members.
KeepsOthers(p) ==
  (EndsNow(p, "decide") /\ Approves(p) /\ request' # request
     /\ overlap[p] \cap MemberWriters = {})
    => \A i \in Slot :
         members'[i] = IF request[job[p].id].slots[i] # None
                       THEN request[job[p].id].slots[i] ELSE members[i]
ApprovalKeepsOthers == [][\A p \in Client : KeepsOthers(p)]_vars

\* A form seeded while no other was being seeded is the only current one of its
\* kind; and issued or bound is only an approved form, if nothing overlapped.
SeedsAlone(p) ==
  (at[p] = "new-form" /\ at'[p] # at[p] /\ form' # form /\ overlap[p] \cap Seeds = {})
    => \E id \in Id : \A x \in Present(form)' :
         x = id <=> ~form'[x].outdated /\ form'[x].kind = Kind(job[p].command)
IssuesApproved(p) ==
  (form' # form /\ at'[p] # at[p] /\ overlap[p] = {})
    => \A id \in Present(form)' :
         (form'[id].issued /\ (form[id] # None => ~form[id].issued))
           => form'[id].status = "APPROVED"
SeedIsCurrent == [][\A p \in Client : SeedsAlone(p) /\ IssuesApproved(p)]_vars
=============================================================================
