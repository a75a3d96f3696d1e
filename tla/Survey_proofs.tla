---------------------------- MODULE Survey_proofs ---------------------------
(***************************************************************************)
(* Proofs about Survey for any number of clients, slots, addresses and     *)
(* rows and any mixes of commands: type correctness, that no two clients   *)
(* wait for each other, that a request is approved exactly if its slots    *)
(* were applied, that one that waits for its review could be approved, and *)
(* what a command may count on that no rival command has overlapped.       *)
(***************************************************************************)
EXTENDS Survey, FiniteSetTheorems, TLAPS

Named(rows, names) == \A r \in rows : r[1] \in names

\* A client's locals and locks at each statement.  Members are locked before
\* requests and requests before forms.
Locals(s, j, h) ==
  /\ s \in {"merge", "apply", "decide", "status", "issue"} => j.id \in Id
  /\ s \in {"find", "merge", "apply", "decide"} => j.command = "review"
  /\ s \in {"set", "status", "issue", "find-form"} => j.command # "review"
  /\ s = "set" => j.slots \in Members
  /\ s \in {"outdate", "new-form"} /\ j.command = "idvtc-with-members" => j.slots \in Members
  /\ s = "apply" \/ (s = "decide" /\ j.status = "APPROVED") => j.merged \in Members
  /\ s \in {"apply", "wipe-2"} => Named(j.want, {"members"})
  /\ s \in {"decide", "wipe-3"} => Named(h, {"members"}) /\ Named(j.want, {"request"})
  /\ s = "wipe" => Named(h, {"members", "request"}) /\ Named(j.want, {"form"})
  /\ s \notin {"decide", "wipe-3", "wipe"} => h = {}
  /\ s = "wipe-1" => j.want = {}
Ordered == \A p \in Client : Locals(at[p], job[p], held[p])

\* Until two reviews race there is one review at a time, and what it deals with is
\* not approved, unless it is gone.
OneReview ==
  "review" \notin racing =>
    /\ \A p, q \in Client :
         (at[p] # "idle" /\ at[q] # "idle" /\ job[p].command = "review"
            /\ job[q].command = "review") => p = q
    /\ \A p \in Client :
         (at[p] \in {"merge", "apply", "decide"} /\ request[job[p].id] # None)
           => request[job[p].id].status # "APPROVED"

\* No slot is left open that has no member, in a request or in one to be created,
\* unless the members row was deleted since.
Full(s) == \A i \in Slot : s[i] # None
Filled ==
  members = None =>
    /\ \A id \in Present(request) \ stranded : Full(request[id].slots)
    /\ \A p \in Creating \ stranded : Full(job[p].slots)

\* The inductive invariant.
IInv ==
  /\ TypeOK /\ Ordered /\ OneReview /\ Filled
  /\ applied \subseteq Present(request) /\ ApprovedIsApplied

-----------------------------------------------------------------------------
(* Types.                                                                  *)

LEMMA Rowless ==
  /\ None \notin Members /\ None \notin Request /\ None \notin Form
  /\ None \notin Id /\ None \notin Address /\ Members \subseteq Slots
BY SurveyAssumption DEF Members, Slots

LEMMA NoJobType == NoJob \in Job /\ Empty \in Slots
<1>1. Empty \in Slots
  BY DEF Empty, Slots
<1> QED
  BY <1>1 DEF NoJob, Job, Command, Status

LEMMA JobsType ==
  ASSUME NEW c \in Command, NEW j \in Jobs(c)
  PROVE  /\ j \in Job /\ j.command = c /\ j.id = None /\ j.want = {}
         /\ c \in {"set", "pending-rotation", "idvtc-with-members"} => j.slots \in Members
<1> DEFINE S == CASE c = "create" -> {x \in Slots : buildSlotColumns(x)}
                  [] c \in {"set", "pending-rotation", "idvtc-with-members"} -> Members
                  [] OTHER -> {Empty}
           T == IF c \in {"review", "ics-seed", "idvtc-seed", "ics-review", "idvtc-review"}
                THEN Status ELSE {"APPROVED"}
           F == IF c \in {"reset", "idvtc-seed", "ics-review"}
                THEN BOOLEAN ELSE {c = "idvtc-with-members"}
<1>1. j \in [command : {c}, slots : S, status : T, flag : F, id : {None}, merged : {Empty},
             want : {{}}]
  BY DEF Jobs
<1>2. S \subseteq Slots /\ (c \in {"set", "pending-rotation", "idvtc-with-members"} => S = Members)
  BY NoJobType, Rowless
<1>3. T \subseteq Status
  BY DEF Status
<1>4. F \subseteq BOOLEAN
  <2>1. (c = "idvtc-with-members") \in BOOLEAN
    OBVIOUS
  <2> QED
    BY <2>1, Zenon
<1> HIDE DEF S, T, F
<1> QED
  BY <1>1, <1>2, <1>3, <1>4, NoJobType DEF Job

LEMMA Merged ==
  ASSUME NEW active \in Members \cup {None}, NEW s \in Slots, Mergeable(active, s)
  PROVE  mergeSlots(active, s) \in Members
<1>1. CASE active = None
  BY <1>1 DEF Mergeable, mergeSlots, Members, Slots
<1>2. CASE active \in Members
  BY <1>2 DEF mergeSlots, Members, Slots
<1> QED
  BY <1>1, <1>2

LEMMA RowTypes ==
  /\ <<"members", None>> \in Row
  /\ \A S \in SUBSET Id, name \in {"members", "request", "form"} :
       /\ Rows(name, S) \subseteq Row
       /\ Named(Rows(name, S), {name})
  /\ MembersRow \subseteq Row /\ Named(MembersRow, {"members"})
<1>1. <<"members", None>> \in Row
  BY DEF Row
<1>2. ASSUME NEW S \in SUBSET Id, NEW name \in {"members", "request", "form"}
      PROVE  Rows(name, S) \subseteq Row /\ Named(Rows(name, S), {name})
  BY DEF Row, Rows, Named
<1>3. MembersRow \subseteq Row /\ Named(MembersRow, {"members"})
  BY <1>1 DEF MembersRow, Named
<1> QED
  BY <1>1, <1>2, <1>3

-----------------------------------------------------------------------------
(* What a client's step leaves of the parts of the invariant.              *)

\* Its statement, its locals and its locks.
LEMMA Goes ==
  ASSUME TypeOK, Ordered, NEW p \in Client, NEW s \in Stage, NEW j \in Job,
         NEW h \in SUBSET Row, at' = [at EXCEPT ![p] = s], job' = [job EXCEPT ![p] = j],
         held' = [held EXCEPT ![p] = h], Locals(s, j, h)
  PROVE  /\ at' \in [Client -> Stage] /\ job' \in [Client -> Job]
         /\ held' \in [Client -> SUBSET Row] /\ Ordered'
<1>1. /\ at' \in [Client -> Stage] /\ job' \in [Client -> Job]
      /\ held' \in [Client -> SUBSET Row]
  BY DEF TypeOK
<1>2. Ordered'
  <2> SUFFICES ASSUME NEW q \in Client PROVE Locals(at'[q], job'[q], held'[q])
    BY DEF Ordered
  <2>1. CASE q = p
    BY <2>1 DEF TypeOK
  <2>2. CASE q # p
    <3>1. at'[q] = at[q] /\ job'[q] = job[q] /\ held'[q] = held[q]
      BY <2>2 DEF TypeOK
    <3> QED
      BY <3>1 DEF Ordered
  <2> QED
    BY <2>1, <2>2
<1> QED
  BY <1>1, <1>2

\* Its part in reviews, where it approves nothing.
LEMMA Reviews ==
  ASSUME TypeOK, Ordered, OneReview, NEW p \in Client, NEW s \in Stage, NEW j \in Job,
         at' = [at EXCEPT ![p] = s], job' = [job EXCEPT ![p] = j], racing' = racing,
         s # "idle" /\ j.command = "review" => at[p] # "idle" /\ job[p].command = "review",
         s \in {"merge", "apply", "decide"} => j.id \in Id,
         s \in {"merge", "apply", "decide"} /\ request[j.id] # None =>
           request[j.id].status # "APPROVED" \/ "review" \in racing,
         \A id \in Id :
           request'[id] # None /\ request'[id].status = "APPROVED" =>
             request[id] # None /\ request[id].status = "APPROVED"
  PROVE  OneReview'
<1> SUFFICES ASSUME "review" \notin racing PROVE OneReview'
  BY DEF OneReview
<1>1. ASSUME NEW q \in Client, NEW r \in Client, at'[q] # "idle", at'[r] # "idle",
             job'[q].command = "review", job'[r].command = "review"
      PROVE  q = r
  <2>1. \A x \in {q, r} : at[x] # "idle" /\ job[x].command = "review"
    BY <1>1 DEF TypeOK
  <2> QED
    BY <2>1 DEF OneReview
<1>2. ASSUME NEW q \in Client, at'[q] \in {"merge", "apply", "decide"},
             request'[job'[q].id] # None
      PROVE  request'[job'[q].id].status # "APPROVED"
  <2>2. CASE q = p
    <3>1. at'[q] = s /\ job'[q] = j
      BY <2>2 DEF TypeOK
    <3> QED
      BY <1>2, <3>1
  <2>3. CASE q # p
    <3>1. at'[q] = at[q] /\ job'[q] = job[q]
      BY <2>3 DEF TypeOK
    <3>2. job[q].id \in Id
      BY <1>2, <3>1 DEF Ordered, Locals
    <3> QED
      BY <1>2, <3>1, <3>2 DEF OneReview
  <2> QED
    BY <2>2, <2>3
<1> QED
  BY <1>1, <1>2 DEF OneReview

\* A step that changes no table and no history.
LEMMA Kept ==
  ASSUME IInv, UNCHANGED <<tables, mix, history>>,
         NEW p \in Client, NEW s \in Stage, NEW j \in Job,
         NEW h \in SUBSET Row, at' = [at EXCEPT ![p] = s], job' = [job EXCEPT ![p] = j],
         held' = [held EXCEPT ![p] = h], Locals(s, j, h),
         s # "idle" /\ j.command = "review" => at[p] # "idle" /\ job[p].command = "review",
         s \in {"merge", "apply", "decide"} /\ request[j.id] # None =>
           request[j.id].status # "APPROVED" \/ "review" \in racing,
         s \in {"supersede", "insert"} /\ members = None /\ p \notin stranded => Full(j.slots)
  PROVE  IInv'
<1>1. UNCHANGED <<members, request, form, mix, overlap, racing, applied, stranded>>
  BY DEF tables, history
<1>2. TypeOK' /\ Ordered'
  <2>1. /\ at' \in [Client -> Stage] /\ job' \in [Client -> Job]
        /\ held' \in [Client -> SUBSET Row] /\ Ordered'
    BY Goes DEF IInv
  <2> QED
    BY <1>1, <2>1 DEF IInv, TypeOK
<1>3. OneReview'
  <2>1. \A id \in Id :
          request'[id] # None /\ request'[id].status = "APPROVED" =>
            request[id] # None /\ request[id].status = "APPROVED"
    BY <1>1
  <2>2. s \in {"merge", "apply", "decide"} => j.id \in Id
    BY DEF Locals
  <2> QED
    BY <1>1, <2>1, <2>2, Reviews DEF IInv
<1>4. Filled'
  <2>1. \A q \in Client : q # p => at'[q] = at[q] /\ job'[q] = job[q]
    BY DEF IInv, TypeOK
  <2>2. at'[p] = s /\ job'[p] = j
    BY DEF IInv, TypeOK
  <2> QED
    BY <1>1, <2>1, <2>2 DEF IInv, Filled, Creating, Present
<1>5. applied' \subseteq Present(request') /\ ApprovedIsApplied'
  BY <1>1 DEF IInv, ApprovedIsApplied, Present
<1> QED
  BY <1>2, <1>3, <1>4, <1>5 DEF IInv, Present

\* The parts of a client's state.
LEMMA Parts ==
  ASSUME IInv, NEW p \in Client
  PROVE  /\ job[p] \in Job /\ job[p].slots \in Slots /\ job[p].id \in Id \cup {None}
         /\ job[p].want \subseteq Row /\ held[p] \in SUBSET Row /\ at[p] \in Stage
         /\ job[p].command \in Command /\ job[p].status \in Status
         /\ Locals(at[p], job[p], held[p])
BY DEF IInv, TypeOK, Job, Ordered

LEMMA AbortKeeps ==
  ASSUME IInv, NEW p \in Client, Abort(p)
  PROVE  IInv'
<1>1. /\ at' = [at EXCEPT ![p] = "idle"] /\ job' = [job EXCEPT ![p] = NoJob]
      /\ held' = [held EXCEPT ![p] = {}] /\ overlap' = [overlap EXCEPT ![p] = {}]
      /\ stranded' = stranded \ {p}
      /\ UNCHANGED <<members, request, form, mix, racing, applied>>
  BY DEF Abort, Ends, Release, Goto, Local, tables
<1>2. Locals("idle", NoJob, {}) /\ "idle" \in Stage
  BY DEF Locals, Stage
<1>3. /\ at' \in [Client -> Stage] /\ job' \in [Client -> Job]
      /\ held' \in [Client -> SUBSET Row] /\ Ordered'
  BY <1>1, <1>2, NoJobType, Goes DEF IInv
<1>4. TypeOK'
  BY <1>1, <1>3 DEF IInv, TypeOK
<1>5. OneReview'
  <2>1. \A id \in Id :
          request'[id] # None /\ request'[id].status = "APPROVED" =>
            request[id] # None /\ request[id].status = "APPROVED"
    BY <1>1
  <2> QED
    BY <1>1, <1>2, <2>1, NoJobType, Reviews DEF IInv
<1>6. Filled'
  <2>1. \A q \in Client : at'[q] # "idle" => q # p /\ at'[q] = at[q] /\ job'[q] = job[q]
    BY <1>1 DEF IInv, TypeOK
  <2>2. p \notin Id
    BY SurveyAssumption
  <2> QED
    BY <1>1, <2>1, <2>2 DEF IInv, TypeOK, Filled, Creating, Present
<1>7. applied' \subseteq Present(request') /\ ApprovedIsApplied'
  BY <1>1 DEF IInv, ApprovedIsApplied, Present
<1> QED
  BY <1>3, <1>4, <1>5, <1>6, <1>7 DEF IInv, Present

-----------------------------------------------------------------------------
(* Each step preserves the invariant.                                      *)

\* Statements that find rows to write, outside of a transaction's locks.
LEMMA WriteKeeps ==
  ASSUME IInv, NEW p \in Client, Supersede(p) \/ Outdate(p)
  PROVE  IInv'
<1> DEFINE new(rows) == [job[p] EXCEPT !.want = rows]
<1>1. PICK rows \in SUBSET Row, s \in {"insert", "new-form"} :
        /\ Write(p, rows, s)
        /\ s = "insert" => at[p] = "supersede"
        /\ s = "new-form" => at[p] = "outdate"
  <2>1. CASE Supersede(p)
    <3>1. Rows("request", OpenRequests) \in SUBSET Row
      <4>1. OpenRequests \in SUBSET Id
        BY DEF OpenRequests, Present, IInv, TypeOK
      <4> QED
        BY <4>1, RowTypes
    <3> QED
      BY <2>1, <3>1 DEF Supersede, At
  <2>2. CASE Outdate(p)
    <3> DEFINE S == {id \in Present(form) : form[id].kind = Kind(job[p].command)}
    <3>1. Rows("form", S) \in SUBSET Row
      <4>1. S \in SUBSET Id
        BY DEF Present, IInv, TypeOK
      <4> QED
        BY <4>1, RowTypes
    <3> QED
      BY <2>2, <3>1 DEF Outdate, At
  <2> QED
    BY <2>1, <2>2
<1>2. /\ at' = [at EXCEPT ![p] = s] /\ job' = [job EXCEPT ![p] = new(rows)]
      /\ held' = held /\ UNCHANGED <<tables, mix, history>>
  BY <1>1 DEF Write, Goto, Local
<1>3. held' = [held EXCEPT ![p] = held[p]]
  BY <1>2 DEF IInv, TypeOK
<1>4. /\ new(rows) \in Job /\ new(rows).command = job[p].command
      /\ new(rows).slots = job[p].slots /\ s \in Stage
  BY Parts DEF Job, Stage
<1>5. Locals(s, new(rows), held[p])
  BY <1>1, <1>4, Parts DEF Locals
<1>6. s = "insert" /\ members = None /\ p \notin stranded => Full(new(rows).slots)
  BY <1>1, <1>4 DEF IInv, Filled, Creating
<1> HIDE DEF new
<1> QED
  BY <1>1, <1>2, <1>3, <1>4, <1>5, <1>6, Parts, Kept

\* A statement of a transaction that has its locks.
LEMMA HoldKeeps ==
  ASSUME IInv, NEW p \in Client, Apply(p) \/ WipeTable(p)
  PROVE  IInv'
<1> DEFINE new(rows) == [job[p] EXCEPT !.want = rows]
<1>1. Mine(p) \in SUBSET Row
  BY Parts DEF Mine
<1>2. PICK rows \in SUBSET Row, s \in {"decide", "wipe-2", "wipe-3", "wipe"} :
        /\ Hold(p, rows, s)
        /\ s = "decide" => at[p] = "apply" /\ Named(rows, {"request"})
        /\ s = "wipe-2" => at[p] = "wipe-1" /\ Named(rows, {"members"})
        /\ s = "wipe-3" => at[p] = "wipe-2" /\ Named(rows, {"request"})
        /\ s = "wipe" => at[p] = "wipe-3" /\ Named(rows, {"form"})
  <2>1. CASE Apply(p)
    <3>1. at[p] = "apply" /\ Hold(p, {<<"request", job[p].id>>}, "decide")
      BY <2>1 DEF Apply, At
    <3>2. {<<"request", job[p].id>>} \in SUBSET Row /\ Named({<<"request", job[p].id>>}, {"request"})
      BY Parts DEF Row, Named
    <3> QED
      BY <3>1, <3>2
  <2>2. CASE WipeTable(p)
    <3>1. /\ at[p] \in {"wipe-1", "wipe-2", "wipe-3"}
          /\ Hold(p, Wiped(p, WipeOrder[at[p]][1]), WipeOrder[at[p]][2])
      BY <2>2 DEF WipeTable, WipeOrder
    <3>2. /\ Wiped(p, "members") \in SUBSET Row /\ Named(Wiped(p, "members"), {"members"})
          /\ Wiped(p, "request") \in SUBSET Row /\ Named(Wiped(p, "request"), {"request"})
          /\ Wiped(p, "form") \in SUBSET Row /\ Named(Wiped(p, "form"), {"form"})
      <4>1. Present(request) \in SUBSET Id
        BY DEF Present, IInv, TypeOK
      <4>2. {id \in Present(form) : job[p].flag \/ form[id].bound} \in SUBSET Id
        BY DEF Present, IInv, TypeOK
      <4> QED
        BY <4>1, <4>2, RowTypes DEF Wiped
    <3>3. CASE at[p] = "wipe-1"
      BY <3>1, <3>2, <3>3 DEF WipeOrder
    <3>4. CASE at[p] = "wipe-2"
      BY <3>1, <3>2, <3>4 DEF WipeOrder
    <3>5. CASE at[p] = "wipe-3"
      BY <3>1, <3>2, <3>5 DEF WipeOrder
    <3> QED
      BY <3>1, <3>3, <3>4, <3>5
  <2> QED
    BY <2>1, <2>2
<1>3. /\ at' = [at EXCEPT ![p] = s] /\ job' = [job EXCEPT ![p] = new(rows)]
      /\ held' = [held EXCEPT ![p] = Mine(p)] /\ UNCHANGED <<tables, mix, history>>
  BY <1>2 DEF Hold, Goto, Local
<1>4. /\ new(rows) \in Job /\ new(rows).command = job[p].command /\ new(rows).want = rows
      /\ new(rows).id = job[p].id /\ new(rows).merged = job[p].merged
      /\ new(rows).status = job[p].status /\ s \in Stage
  BY Parts DEF Job, Stage
<1>5. Locals(s, new(rows), Mine(p))
  <2> HIDE DEF new
  <2>1. \A r \in Mine(p) : r \in held[p] \/ r \in job[p].want
    BY DEF Mine
  <2>2. CASE s = "decide"
    BY <1>2, <1>4, <2>1, <2>2, Parts DEF Locals, Named
  <2>3. CASE s = "wipe-2"
    <3>1. held[p] = {}
      BY <1>2, <2>3, Parts DEF Locals
    <3> QED
      BY <1>2, <1>4, <2>1, <2>3, <3>1, Parts DEF Locals, Named
  <2>4. CASE s \in {"wipe-3", "wipe"}
    BY <1>2, <1>4, <2>1, <2>4, Parts DEF Locals, Named
  <2> QED
    BY <2>2, <2>3, <2>4
<1>6. s = "decide" /\ request[new(rows).id] # None =>
        request[new(rows).id].status # "APPROVED" \/ "review" \in racing
  BY <1>2, <1>4 DEF IInv, OneReview
<1> HIDE DEF new
<1> QED
  BY <1>1, <1>2, <1>3, <1>4, <1>5, <1>6, Parts, Kept

LEMMA ReadsKeep ==
  ASSUME IInv, NEW p \in Client, Look(p) \/ Find(p) \/ Merge(p) \/ FindForm(p)
  PROVE  IInv'
<1>1. held' = [held EXCEPT ![p] = held[p]] /\ UNCHANGED <<tables, mix, history>>
  BY DEF Look, Find, Merge, FindForm, IInv, TypeOK
<1>2. {"supersede", "merge", "decide", "apply", "status"} \subseteq Stage
  BY DEF Stage
<1>3. CASE Look(p)
  <2>1. PICK s \in Padded(job[p].slots, members) :
          at' = [at EXCEPT ![p] = "supersede"] /\ job' = [job EXCEPT ![p] = [job[p] EXCEPT !.slots = s]]
    BY <1>3 DEF Look, Goto, Local
  <2>2. s \in Slots /\ (members = None => Full(s))
    <3>1. CASE members = None
      <4>1. s \in Members
        BY <3>1 DEF Padded
      <4> QED
        BY <4>1, Rowless DEF Members, Full
    <3>2. CASE members # None
      BY <3>2, Parts DEF Padded
    <3> QED
      BY <3>1, <3>2
  <2> DEFINE j == [job[p] EXCEPT !.slots = s]
  <2>3. j \in Job /\ j.command = job[p].command /\ j.slots = s
    BY <2>2, Parts DEF Job
  <2>4. at[p] = "look" /\ Locals("supersede", j, held[p])
    BY <1>3, <2>3, Parts DEF Locals, Look, At
  <2> HIDE DEF j
  <2> QED
    BY <1>1, <1>2, <2>1, <2>2, <2>3, <2>4, Parts, Kept DEF j
<1>4. CASE Find(p)
  <2>1. PICK id \in {x \in OpenRequests : request[x].status = "REVIEW"} :
          IF job[p].status = "APPROVED"
          THEN /\ Local(p, [job[p] EXCEPT !.id = id, !.slots = request[id].slots])
               /\ Goto(p, "merge")
          ELSE /\ Local(p, [job[p] EXCEPT !.id = id, !.want = {<<"request", id>>}])
               /\ Goto(p, "decide")
    BY <1>4 DEF Find
  <2>2. /\ id \in Id /\ request[id] \in Request /\ request[id].status # "APPROVED"
        /\ request[id].slots \in Slots /\ at[p] = "find"
        /\ {<<"request", id>>} \in SUBSET Row /\ Named({<<"request", id>>}, {"request"})
    <3>1. id \in Id /\ request[id] # None /\ request[id].status = "REVIEW" /\ at[p] = "find"
      BY <1>4, <2>1 DEF OpenRequests, Present, IInv, TypeOK, Find, At
    <3>2. request[id] \in Request
      BY <3>1 DEF IInv, TypeOK
    <3>3. request[id].slots \in Slots
      BY <3>2 DEF Request
    <3>4. {<<"request", id>>} \in SUBSET Row /\ Named({<<"request", id>>}, {"request"})
      BY <3>1 DEF Row, Named
    <3> QED
      BY <3>1, <3>2, <3>3, <3>4
  <2>3. CASE job[p].status = "APPROVED"
    <3> DEFINE j == [job[p] EXCEPT !.id = id, !.slots = request[id].slots]
    <3>1. j \in Job /\ j.command = job[p].command /\ j.id = id
      BY <2>2, Parts DEF Job
    <3>2. Locals("merge", j, held[p])
      BY <2>2, <3>1, Parts DEF Locals
    <3>3. at' = [at EXCEPT ![p] = "merge"] /\ job' = [job EXCEPT ![p] = j]
      BY <2>1, <2>3 DEF Goto, Local
    <3> HIDE DEF j
    <3> QED
      BY <1>1, <1>2, <2>2, <3>1, <3>2, <3>3, Parts, Kept
  <2>4. CASE job[p].status # "APPROVED"
    <3> DEFINE j == [job[p] EXCEPT !.id = id, !.want = {<<"request", id>>}]
    <3>1. /\ j \in Job /\ j.command = job[p].command /\ j.id = id /\ j.status = job[p].status
          /\ j.want = {<<"request", id>>}
      BY <2>2, Parts DEF Job
    <3>2. Locals("decide", j, held[p])
      BY <2>2, <2>4, <3>1, Parts DEF Locals, Named
    <3>3. at' = [at EXCEPT ![p] = "decide"] /\ job' = [job EXCEPT ![p] = j]
      BY <2>1, <2>4 DEF Goto, Local
    <3> HIDE DEF j
    <3> QED
      BY <1>1, <1>2, <2>2, <3>1, <3>2, <3>3, Parts, Kept
  <2> QED
    BY <2>3, <2>4
<1>5. CASE Merge(p)
  <2> DEFINE j == [job[p] EXCEPT !.merged = mergeSlots(members, job[p].slots),
                                 !.want = {<<"members", None>>}]
  <2>1. mergeSlots(members, job[p].slots) \in Members
    BY <1>5, Parts, Merged DEF Merge, IInv, TypeOK
  <2>2. {<<"members", None>>} \subseteq Row
    BY RowTypes
  <2>3. /\ j \in Job /\ j.command = job[p].command /\ j.id = job[p].id
        /\ j.merged \in Members /\ j.want = {<<"members", None>>}
    <3> HIDE DEF mergeSlots
    <3> QED
      BY <2>1, <2>2, Rowless, Parts DEF Job
  <2>4. at[p] = "merge" /\ at' = [at EXCEPT ![p] = "apply"] /\ job' = [job EXCEPT ![p] = j]
    BY <1>5 DEF Merge, At, Goto, Local
  <2>5. Locals("apply", j, held[p])
    BY <2>3, <2>4, Parts DEF Locals, Named
  <2>6. request[j.id] # None => request[j.id].status # "APPROVED" \/ "review" \in racing
    BY <2>3, <2>4 DEF IInv, OneReview
  <2> HIDE DEF j
  <2> QED
    BY <1>1, <1>2, <2>3, <2>4, <2>5, <2>6, Parts, Kept
<1>6. CASE FindForm(p)
  <2>1. PICK id \in Current(Kind(job[p].command)) :
          job' = [job EXCEPT ![p] = [job[p] EXCEPT !.id = id]]
    BY <1>6 DEF FindForm, Local
  <2> DEFINE j == [job[p] EXCEPT !.id = id]
  <2>2. id \in Id
    BY DEF Current, Present, IInv, TypeOK
  <2>3. j \in Job /\ j.command = job[p].command /\ j.id = id
    BY <2>2, Parts DEF Job
  <2>4. at[p] = "find-form" /\ at' = [at EXCEPT ![p] = "status"]
    BY <1>6 DEF FindForm, At, Goto
  <2>5. Locals("status", j, held[p])
    BY <2>2, <2>3, <2>4, Parts DEF Locals
  <2> HIDE DEF j
  <2> QED
    BY <1>1, <1>2, <2>1, <2>3, <2>4, <2>5, Parts, Kept DEF j
<1> QED
  BY <1>3, <1>4, <1>5, <1>6

\* The parts of the invariant about requests, where a commit changes none and
\* leaves the members row as it is or gives it members.
LEMMA SameRequests ==
  ASSUME IInv, NEW p \in Client, NEW s \in Stage \ {"merge", "apply", "decide", "supersede", "insert"},
         NEW j \in Job, at' = [at EXCEPT ![p] = s], job' = [job EXCEPT ![p] = j],
         s # "idle" => j.command = job[p].command /\ j.command # "review",
         UNCHANGED <<request, racing, applied, stranded>>,
         members' = None => members = None
  PROVE  /\ OneReview' /\ Filled' /\ applied' \subseteq Present(request)' /\ ApprovedIsApplied'
<1>1. OneReview'
  <2>1. \A id \in Id :
          request'[id] # None /\ request'[id].status = "APPROVED" =>
            request[id] # None /\ request[id].status = "APPROVED"
    OBVIOUS
  <2> QED
    BY <2>1, Reviews DEF IInv
<1>2. Filled'
  <2>1. \A q \in Client : q # p => at'[q] = at[q] /\ job'[q] = job[q]
    BY DEF IInv, TypeOK
  <2>2. at'[p] = s
    BY DEF IInv, TypeOK
  <2> QED
    BY <2>1, <2>2 DEF IInv, Filled, Creating, Present
<1> QED
  BY <1>1, <1>2 DEF IInv, ApprovedIsApplied, Present

LEMMA FormsKeep ==
  ASSUME IInv, NEW p \in Client, NewForm(p) \/ SetStatus(p) \/ Issue(p)
  PROVE  IInv'
<1>1. UNCHANGED <<members, request, mix, racing, applied, stranded>>
  BY DEF NewForm, SetStatus, Issue, Ends, Release
<1>2. PICK s \in {"idle", "set", "issue"}, j \in Job :
        /\ at' = [at EXCEPT ![p] = s] /\ job' = [job EXCEPT ![p] = j]
        /\ s # "idle" => j.command = job[p].command /\ j.command # "review"
        /\ Locals(s, j, {})
  <2>0. Locals("idle", NoJob, {})
    BY DEF Locals
  <2>1. CASE Ends(p)
    BY <2>0, <2>1, NoJobType DEF Ends, Goto, Local
  <2>2. CASE NewForm(p) /\ job[p].command = "idvtc-with-members"
    <3> DEFINE j == [job[p] EXCEPT !.want = {}]
    <3>1. at' = [at EXCEPT ![p] = "set"] /\ job' = [job EXCEPT ![p] = j] /\ at[p] = "new-form"
      BY <2>2 DEF NewForm, Goto, Local, At
    <3>2. j \in Job /\ j.command = job[p].command /\ j.slots = job[p].slots
      BY Parts DEF Job
    <3>3. Locals("set", j, {})
      BY <2>2, <3>1, <3>2, Parts DEF Locals
    <3> HIDE DEF j
    <3> QED
      BY <2>2, <3>1, <3>2, <3>3
  <2>3. CASE SetStatus(p) /\ job[p].flag
    <3>1. at' = [at EXCEPT ![p] = "issue"] /\ job' = job /\ at[p] = "status"
      BY <2>3 DEF SetStatus, Goto, At
    <3>2. job' = [job EXCEPT ![p] = job[p]]
      BY <3>1 DEF IInv, TypeOK
    <3>3. job[p].command # "review"
      BY <3>1, Parts DEF Locals
    <3>4. Locals("issue", job[p], {})
      BY <3>1, Parts DEF Locals
    <3> QED
      BY <3>1, <3>2, <3>3, <3>4, Parts
  <2> QED
    BY <2>1, <2>2, <2>3 DEF NewForm, SetStatus, Issue
<1>3. held' = [held EXCEPT ![p] = {}] /\ overlap' \in [Client -> SUBSET Command]
  BY DEF NewForm, SetStatus, Issue, Ends, Release, IInv, TypeOK
<1>4. s \in Stage \ {"merge", "apply", "decide", "supersede", "insert"}
  BY DEF Stage
<1>5. form' \in [Id -> Form \cup {None}]
  <2>1. CASE NewForm(p)
    <3> DEFINE fresh == [kind |-> Kind(job[p].command), status |-> job[p].status,
                         outdated |-> FALSE, issued |-> job[p].flag, bound |-> job[p].flag]
    <3>1. fresh \in Form
      <4>1. Kind(job[p].command) \in {"ics", "idvtc"}
        BY DEF Kind
      <4>2. job[p].status \in Status /\ job[p].flag \in BOOLEAN /\ FALSE \in BOOLEAN
        BY Parts DEF Job
      <4> QED
        BY <4>1, <4>2, Zenon DEF Form
    <3> HIDE DEF fresh
    <3>2. PICK id \in Id :
            form' = [x \in Id |-> IF x = id THEN fresh
                                  ELSE IF <<"form", x>> \in Mine(p)
                                       THEN [form[x] EXCEPT !.outdated = TRUE] ELSE form[x]]
      BY <2>1 DEF NewForm, fresh
    <3>3. ASSUME NEW x \in Id, <<"form", x>> \in Mine(p)
          PROVE  [form[x] EXCEPT !.outdated = TRUE] \in Form
      <4>1. form[x] \in Form
        <5>1. <<"form", x>> \notin held[p]
          BY <2>1, Parts DEF Locals, NewForm, At
        <5>2. form[x] # None
          BY <3>3, <5>1 DEF Mine, StillThere
        <5> QED
          BY <5>2 DEF IInv, TypeOK
      <4>2. \A b \in BOOLEAN : [form[x] EXCEPT !.outdated = b] \in Form
        BY <4>1 DEF Form
      <4> QED
        BY <4>2, Zenon
    <3> QED
      BY <3>1, <3>2, <3>3 DEF IInv, TypeOK
  <2>2. CASE SetStatus(p)
    <3>1. form[job[p].id] \in Form /\ job[p].id \in Id
      BY <2>2, Parts DEF SetStatus, At, Locals, IInv, TypeOK
    <3>2. [form[job[p].id] EXCEPT !.status = job[p].status] \in Form
      BY <3>1, Parts DEF Form
    <3>3. form' = [form EXCEPT ![job[p].id] = [form[job[p].id] EXCEPT !.status = job[p].status]]
      BY <2>2 DEF SetStatus
    <3> QED
      BY <3>1, <3>2, <3>3 DEF IInv, TypeOK
  <2>3. CASE Issue(p)
    <3>1. form[job[p].id] \in Form /\ job[p].id \in Id
      BY <2>3, Parts DEF Issue, At, Locals, IInv, TypeOK
    <3>2. \A b \in BOOLEAN : [form[job[p].id] EXCEPT !.issued = b] \in Form
      BY <3>1 DEF Form
    <3>3. form' = [form EXCEPT ![job[p].id] = [form[job[p].id] EXCEPT !.issued = TRUE]]
      BY <2>3 DEF Issue
    <3>4. [form[job[p].id] EXCEPT !.issued = TRUE] \in Form
      BY <3>2, Zenon
    <3> QED
      BY <3>1, <3>3, <3>4 DEF IInv, TypeOK
  <2> QED
    BY <2>1, <2>2, <2>3
<1>6. /\ at' \in [Client -> Stage] /\ job' \in [Client -> Job]
      /\ held' \in [Client -> SUBSET Row] /\ Ordered'
  BY <1>2, <1>3, <1>4, Goes DEF IInv
<1>7. TypeOK'
  BY <1>1, <1>3, <1>5, <1>6 DEF IInv, TypeOK
<1>8. OneReview' /\ Filled' /\ applied' \subseteq Present(request)' /\ ApprovedIsApplied'
  BY <1>1, <1>2, <1>4, SameRequests
<1> QED
  BY <1>6, <1>7, <1>8 DEF IInv

LEMMA SetMembersKeeps ==
  ASSUME IInv, NEW p \in Client, SetMembers(p)
  PROVE  IInv'
<1>1. /\ UNCHANGED <<request, form, mix, racing, applied, stranded>>
      /\ at[p] = "set" /\ members' = job[p].slots
      /\ held' = [held EXCEPT ![p] = {}] /\ overlap' \in [Client -> SUBSET Command]
  BY DEF SetMembers, Ends, Release, At, IInv, TypeOK
<1>2. members' \in Members /\ members' # None
  BY <1>1, Parts, Rowless DEF Locals
<1>3. PICK s \in {"idle", "look"}, j \in Job :
        /\ at' = [at EXCEPT ![p] = s] /\ job' = [job EXCEPT ![p] = j]
        /\ s # "idle" => j.command = job[p].command /\ j.command # "review"
        /\ Locals(s, j, {})
  <2>1. CASE job[p].command = "pending-rotation"
    <3>1. PICK a \in Address :
            /\ at' = [at EXCEPT ![p] = "look"]
            /\ job' = [job EXCEPT ![p] = [job[p] EXCEPT !.slots = [Empty EXCEPT ![1] = a]]]
      BY <2>1 DEF SetMembers, Goto, Local
    <3>2. [Empty EXCEPT ![1] = a] \in Slots
      BY NoJobType DEF Slots
    <3> DEFINE j == [job[p] EXCEPT !.slots = [Empty EXCEPT ![1] = a]]
    <3>3. j \in Job /\ j.command = job[p].command
      BY <3>2, Parts DEF Job
    <3>4. Locals("look", j, {})
      BY DEF Locals
    <3> HIDE DEF j
    <3> QED
      BY <2>1, <3>1, <3>3, <3>4 DEF j
  <2>2. CASE job[p].command # "pending-rotation"
    <3>1. Locals("idle", NoJob, {})
      BY DEF Locals
    <3> QED
      BY <2>2, <3>1, NoJobType DEF SetMembers, Ends, Goto, Local
  <2> QED
    BY <2>1, <2>2
<1>4. s \in Stage \ {"merge", "apply", "decide", "supersede", "insert"}
  BY DEF Stage
<1>5. /\ at' \in [Client -> Stage] /\ job' \in [Client -> Job]
      /\ held' \in [Client -> SUBSET Row] /\ Ordered'
  BY <1>1, <1>3, <1>4, Goes DEF IInv
<1>6. TypeOK'
  BY <1>1, <1>2, <1>5 DEF IInv, TypeOK
<1>7. OneReview' /\ Filled' /\ applied' \subseteq Present(request)' /\ ApprovedIsApplied'
  BY <1>1, <1>2, <1>3, <1>4, SameRequests
<1> QED
  BY <1>5, <1>6, <1>7 DEF IInv

\* A client ends its command and its transaction.
LEMMA EndsParts ==
  ASSUME IInv, NEW p \in Client, Ends(p)
  PROVE  /\ at' \in [Client -> Stage] /\ job' \in [Client -> Job]
         /\ held' \in [Client -> SUBSET Row] /\ Ordered'
         /\ overlap' \in [Client -> SUBSET Command] /\ mix' = mix /\ racing' = racing
         /\ at' = [at EXCEPT ![p] = "idle"] /\ job' = [job EXCEPT ![p] = NoJob]
         /\ \A q \in Client : at'[q] # "idle" => q # p /\ at'[q] = at[q] /\ job'[q] = job[q]
<1>1. /\ at' = [at EXCEPT ![p] = "idle"] /\ job' = [job EXCEPT ![p] = NoJob]
      /\ held' = [held EXCEPT ![p] = {}] /\ overlap' = [overlap EXCEPT ![p] = {}]
      /\ mix' = mix /\ racing' = racing
  BY DEF Ends, Release, Goto, Local
<1>2. Locals("idle", NoJob, {}) /\ "idle" \in Stage
  BY DEF Locals, Stage
<1>3. /\ at' \in [Client -> Stage] /\ job' \in [Client -> Job]
      /\ held' \in [Client -> SUBSET Row] /\ Ordered'
  BY <1>1, <1>2, NoJobType, Goes DEF IInv
<1>4. overlap' \in [Client -> SUBSET Command]
  BY <1>1 DEF IInv, TypeOK
<1>5. \A q \in Client : at'[q] # "idle" => q # p /\ at'[q] = at[q] /\ job'[q] = job[q]
  BY <1>1 DEF IInv, TypeOK
<1> QED
  BY <1>1, <1>3, <1>4, <1>5

\* Where it approves nothing.
LEMMA EndsReviews ==
  ASSUME IInv, NEW p \in Client, Ends(p),
         \A id \in Id :
           request'[id] # None /\ request'[id].status = "APPROVED" =>
             request[id] # None /\ request[id].status = "APPROVED"
  PROVE  OneReview'
<1>1. "idle" \in Stage
  BY DEF Stage
<1> QED
  BY <1>1, EndsParts, NoJobType, Reviews DEF IInv

LEMMA StrandsFill ==
  ASSUME IInv, NEW p \in Client, Ends(p), Strands,
         \A id \in Present(request') : id \in Present(request) /\ request'[id] = request[id],
         members' = None \/ members' = members
  PROVE  Filled' /\ stranded' \subseteq Id \cup Client
<1>1. stranded' = IF members # None /\ members' = None
                  THEN stranded \cup Present(request) \cup Creating ELSE stranded
  BY DEF Strands
<1>2. stranded' \subseteq Id \cup Client
  BY <1>1 DEF IInv, TypeOK, Present, Creating
<1>3. \A q \in Creating' : q \in Creating /\ job'[q] = job[q]
  BY EndsParts DEF Creating
<1>4. Filled'
  <2> SUFFICES ASSUME members' = None PROVE /\ \A id \in Present(request') \ stranded' : Full(request'[id].slots)
                                            /\ \A q \in Creating' \ stranded' : Full(job'[q].slots)
    BY DEF Filled, Present
  <2>1. CASE members = None
    BY <1>1, <1>3, <2>1 DEF IInv, Filled
  <2>2. CASE members # None
    BY <1>1, <1>3, <2>2
  <2> QED
    BY <2>1, <2>2
<1> QED
  BY <1>2, <1>4

LEMMA ClearKeeps ==
  ASSUME IInv, NEW p \in Client, ClearMembers(p)
  PROVE  IInv'
<1>1. Ends(p) /\ Strands /\ members' = None /\ UNCHANGED <<request, form, applied>>
  BY DEF ClearMembers
<1>2. Filled' /\ stranded' \subseteq Id \cup Client
  BY <1>1, StrandsFill
<1>3. TypeOK' /\ Ordered'
  BY <1>1, <1>2, EndsParts DEF IInv, TypeOK
<1>4. OneReview'
  BY <1>1, EndsReviews
<1>5. applied' \subseteq Present(request)' /\ ApprovedIsApplied'
  BY <1>1, EndsParts DEF IInv, ApprovedIsApplied, Present
<1> QED
  BY <1>2, <1>3, <1>4, <1>5 DEF IInv

LEMMA WipeKeeps ==
  ASSUME IInv, NEW p \in Client, Wipe(p)
  PROVE  IInv'
<1>1. /\ Ends(p) /\ Strands
      /\ members' \in {None, members}
      /\ request' = [id \in Id |-> IF <<"request", id>> \in Mine(p) THEN None ELSE request[id]]
      /\ form' = [id \in Id |-> IF <<"form", id>> \in Mine(p) THEN None ELSE form[id]]
      /\ applied' = {id \in applied : <<"request", id>> \notin Mine(p)}
  BY DEF Wipe
<1>2. \A id \in Present(request') :
        id \in Present(request) /\ request'[id] = request[id] /\ <<"request", id>> \notin Mine(p)
  BY <1>1 DEF Present, IInv, TypeOK
<1>3. Filled' /\ stranded' \subseteq Id \cup Client
  BY <1>1, <1>2, StrandsFill
<1>4. TypeOK' /\ Ordered'
  <2>1. /\ request' \in [Id -> Request \cup {None}] /\ form' \in [Id -> Form \cup {None}]
        /\ members' \in Members \cup {None} /\ applied' \subseteq Id
    BY <1>1 DEF IInv, TypeOK
  <2> QED
    BY <1>1, <1>3, <2>1, EndsParts DEF IInv, TypeOK
<1>5. OneReview'
  <2>1. \A id \in Id : request'[id] # None => request[id] = request'[id]
    BY <1>1
  <2> QED
    BY <1>1, <2>1, EndsReviews
<1>6. applied' \subseteq Present(request')
  BY <1>1 DEF IInv, Present, TypeOK
<1>7. ApprovedIsApplied'
  <2>1. \A id \in Present(request') : id \in applied' <=> id \in applied
    BY <1>1, <1>2
  <2> QED
    BY <1>1, <1>2, <2>1, EndsParts DEF IInv, ApprovedIsApplied, Present
<1> QED
  BY <1>3, <1>4, <1>5, <1>6, <1>7 DEF IInv, Present

LEMMA InsertKeeps ==
  ASSUME IInv, NEW p \in Client, Insert(p)
  PROVE  IInv'
<1> DEFINE fresh == [slots |-> job[p].slots, status |-> "REVIEW", superseded |-> FALSE]
<1>1. PICK id \in Id \ Present(request) :
        /\ request' = [x \in Id |->
             IF x = id THEN fresh
             ELSE IF <<"request", x>> \in Mine(p) THEN [request[x] EXCEPT !.superseded = TRUE]
             ELSE request[x]]
        /\ stranded' = ((stranded \ {id}) \cup (IF p \in stranded THEN {id} ELSE {})) \ {p}
  BY DEF Insert
<1>2. Ends(p) /\ at[p] = "insert" /\ UNCHANGED <<members, form, applied>>
  BY DEF Insert, At
<1>3. fresh \in Request /\ fresh.slots = job[p].slots /\ fresh.status = "REVIEW"
  BY Parts DEF Request, Status
<1>4. request' \in [Id -> Request \cup {None}]
      /\ \A x \in Id \ {id} : /\ request'[x] # None <=> request[x] # None
                              /\ request[x] # None => /\ request'[x].slots = request[x].slots
                                                      /\ request'[x].status = request[x].status
  <2>1. ASSUME NEW x \in Id, <<"request", x>> \in Mine(p)
        PROVE  LET r == [request[x] EXCEPT !.superseded = TRUE]
               IN r \in Request /\ r.slots = request[x].slots /\ r.status = request[x].status
                    /\ request[x] # None
    <3>1. request[x] # None
      <4>1. <<"request", x>> \notin held[p]
        BY <1>2, Parts DEF Locals
      <4> QED
        BY <2>1, <4>1 DEF Mine, StillThere
    <3>2. request[x] \in Request
      BY <3>1 DEF IInv, TypeOK
    <3>3. \A b \in BOOLEAN : LET r == [request[x] EXCEPT !.superseded = b]
                             IN r \in Request /\ r.slots = request[x].slots
                                  /\ r.status = request[x].status
      BY <3>2 DEF Request
    <3> QED
      BY <3>1, <3>3, Zenon
  <2> HIDE DEF fresh
  <2> QED
    BY <1>1, <1>3, <2>1, Rowless DEF IInv, TypeOK
<1>5. request'[id] = fresh /\ request[id] = None /\ fresh # None
  BY <1>1, <1>3, Rowless DEF Present, IInv, TypeOK
<1> HIDE DEF fresh
<1>6. stranded' \subseteq Id \cup Client /\ id # p /\ Id \cap Client = {}
  BY <1>1, SurveyAssumption DEF IInv, TypeOK
<1>7. TypeOK' /\ Ordered'
  BY <1>2, <1>4, <1>6, EndsParts DEF IInv, TypeOK
<1>8. OneReview'
  <2>1. \A x \in Id : request'[x] # None /\ request'[x].status = "APPROVED" =>
                        request[x] # None /\ request[x].status = "APPROVED"
    BY <1>3, <1>4, <1>5
  <2> QED
    BY <1>2, <2>1, EndsReviews
<1>9. Filled'
  <2> SUFFICES ASSUME members = None
               PROVE  /\ \A x \in Present(request') \ stranded' : Full(request'[x].slots)
                      /\ \A q \in Creating' \ stranded' : Full(job'[q].slots)
    BY <1>2 DEF Filled, Present
  <2>1. ASSUME NEW x \in Present(request') \ stranded' PROVE Full(request'[x].slots)
    <3>0. x \in Id
      BY <1>4 DEF Present
    <3>1. CASE x = id
      <4>1. p \notin stranded
        BY <1>1, <1>6, <2>1, <3>1
      <4>2. Full(job[p].slots)
        BY <1>2, <4>1 DEF IInv, Filled, Creating
      <4> QED
        BY <1>3, <1>5, <3>1, <4>2
    <3>2. CASE x # id
      <4>1. x \in Present(request) \ stranded
        BY <1>1, <1>4, <1>6, <2>1, <3>0, <3>2 DEF Present, IInv, TypeOK
      <4> QED
        BY <1>4, <3>0, <3>2, <4>1 DEF IInv, Filled, Present
    <3> QED
      BY <3>1, <3>2
  <2>2. ASSUME NEW q \in Creating' \ stranded' PROVE Full(job'[q].slots)
    <3>1. q \in Creating /\ q # p /\ job'[q] = job[q] /\ q \in Client
      BY <1>2, <2>2, EndsParts DEF Creating
    <3>2. q \notin stranded
      BY <1>1, <1>6, <2>2, <3>1
    <3> QED
      BY <3>1, <3>2 DEF IInv, Filled
  <2> QED
    BY <2>1, <2>2
<1>10. applied' \subseteq Present(request')
  BY <1>2, <1>4, <1>5 DEF IInv, Present, TypeOK
<1>11. ApprovedIsApplied'
  <2> SUFFICES ASSUME "review" \notin racing, NEW x \in Present(request')
               PROVE  request'[x].status = "APPROVED" <=> x \in applied
    BY <1>2, EndsParts DEF ApprovedIsApplied, Present
  <2>1. x \in Id
    BY <1>4 DEF Present
  <2>2. CASE x = id
    BY <1>3, <1>5, <2>2 DEF IInv, Present
  <2>3. CASE x # id
    BY <1>4, <2>1, <2>3 DEF IInv, ApprovedIsApplied, Present, TypeOK
  <2> QED
    BY <2>2, <2>3
<1> QED
  BY <1>7, <1>8, <1>9, <1>10, <1>11 DEF IInv, Present

LEMMA DecideKeeps ==
  ASSUME IInv, NEW p \in Client, Decide(p)
  PROVE  IInv'
<1> DEFINE id == job[p].id
           st == job[p].status
<1>1. /\ at[p] = "decide" /\ job[p].command = "review" /\ id \in Id /\ st \in Status
      /\ st = "APPROVED" => job[p].merged \in Members
      /\ Ends(p) /\ UNCHANGED <<form, stranded>>
  BY Parts DEF Decide, At, Locals
<1>2. request[id] \in Request
  BY <1>1 DEF Decide, IInv, TypeOK
<1>3. /\ members' = IF st = "APPROVED" THEN job[p].merged ELSE members
      /\ applied' = IF st = "APPROVED" THEN applied \cup {id} ELSE applied
  BY <1>1 DEF Decide, Approves
<1>4. /\ request' \in [Id -> Request \cup {None}]
      /\ request'[id] # None /\ request'[id].status = st /\ request'[id].slots = request[id].slots
      /\ \A x \in Id \ {id} : request'[x] = request[x]
  <2>1. [request[id] EXCEPT !.status = st] \in Request
    BY <1>1, <1>2 DEF Request
  <2>2. request' = [request EXCEPT ![id] = [request[id] EXCEPT !.status = st]]
    BY DEF Decide
  <2>3. request'[id] = [request[id] EXCEPT !.status = st]
    BY <1>1, <2>2 DEF IInv, TypeOK
  <2> QED
    BY <1>1, <1>2, <2>1, <2>2, <2>3, Rowless DEF IInv, TypeOK, Request
<1>5. TypeOK' /\ Ordered'
  BY <1>1, <1>3, <1>4, EndsParts DEF IInv, TypeOK
<1>6. OneReview'
  <2> SUFFICES ASSUME "review" \notin racing
               PROVE  /\ \A q, r \in Client :
                           (at'[q] # "idle" /\ at'[r] # "idle" /\ job'[q].command = "review"
                              /\ job'[r].command = "review") => q = r
                      /\ \A q \in Client : at'[q] \notin {"merge", "apply", "decide"}
    BY <1>1, EndsParts DEF OneReview
  <2>1. \A q \in Client : at'[q] # "idle" /\ job'[q].command = "review" => q = p
    BY <1>1, EndsParts DEF IInv, OneReview
  <2>2. \A q \in Client : at'[q] \in {"merge", "apply", "decide"} => job'[q].command = "review"
    BY <1>5 DEF Ordered, Locals
  <2>3. at'[p] = "idle"
    BY <1>1, EndsParts
  <2> QED
    BY <2>1, <2>2, <2>3
<1>7. Filled'
  <2> SUFFICES ASSUME members' = None
               PROVE  /\ \A x \in Present(request') \ stranded : Full(request'[x].slots)
                      /\ \A q \in Creating' \ stranded : Full(job'[q].slots)
    BY <1>1 DEF Filled, Present
  <2>1. members = None
    BY <1>1, <1>3, Rowless
  <2>2. \A q \in Creating' : q \in Creating /\ job'[q] = job[q]
    BY <1>1, EndsParts DEF Creating
  <2>3. \A x \in Present(request') : x \in Present(request) /\ request'[x].slots = request[x].slots
    BY <1>1, <1>2, <1>4, Rowless DEF Present, IInv, TypeOK
  <2> QED
    BY <2>1, <2>2, <2>3 DEF IInv, Filled
<1>8. applied' \subseteq Present(request')
  BY <1>1, <1>3, <1>4 DEF IInv, Present, TypeOK
<1>9. ApprovedIsApplied'
  <2> SUFFICES ASSUME "review" \notin racing, NEW x \in Present(request')
               PROVE  request'[x].status = "APPROVED" <=> x \in applied'
    BY <1>1, EndsParts DEF ApprovedIsApplied, Present
  <2>1. x \in Id
    BY <1>4 DEF Present
  <2>2. CASE x = id
    <3>1. id \in Present(request) /\ request[id].status # "APPROVED"
      BY <1>1, <1>2, Rowless DEF IInv, OneReview, Present, TypeOK
    <3>2. id \notin applied
      BY <3>1 DEF IInv, ApprovedIsApplied
    <3> QED
      BY <1>3, <1>4, <2>2, <3>2
  <2>3. CASE x # id
    <3>1. x \in Present(request) /\ request'[x] = request[x]
      BY <1>4, <2>1, <2>3 DEF Present, IInv, TypeOK
    <3> QED
      BY <1>3, <2>3, <3>1 DEF IInv, ApprovedIsApplied
  <2> QED
    BY <2>2, <2>3
<1> QED
  BY <1>5, <1>6, <1>7, <1>8, <1>9 DEF IInv, Present

LEMMA StartKeeps ==
  ASSUME IInv, NEW p \in Client, Start(p)
  PROVE  IInv'
<1>0. PICK c \in mix : \E j \in Jobs(c) :
        LET running == {q \in Client \ {p} : ~At(q, "idle")}
            names == {job[q].command : q \in running}
        IN /\ overlap' = [q \in Client |-> IF q = p THEN names
                                           ELSE IF q \in running THEN overlap[q] \cup {c}
                                           ELSE overlap[q]]
           /\ racing' = IF c \in names THEN racing \cup {c} ELSE racing
           /\ Local(p, j) /\ Goto(p, First(c))
  BY DEF Start
<1>1. PICK j \in Jobs(c) :
        LET running == {q \in Client \ {p} : ~At(q, "idle")}
            names == {job[q].command : q \in running}
        IN /\ overlap' = [q \in Client |-> IF q = p THEN names
                                           ELSE IF q \in running THEN overlap[q] \cup {c}
                                           ELSE overlap[q]]
           /\ racing' = IF c \in names THEN racing \cup {c} ELSE racing
           /\ Local(p, j) /\ Goto(p, First(c))
  BY <1>0
<1> DEFINE running == {q \in Client \ {p} : ~At(q, "idle")}
           names == {job[q].command : q \in running}
<1>2. UNCHANGED <<members, request, form, held, mix, applied, stranded>> /\ at[p] = "idle"
  BY DEF Start, tables, At
<1>3. c \in Command
  BY SurveyAssumption DEF IInv, TypeOK
<1>4. /\ j \in Job /\ j.command = c /\ j.want = {}
      /\ c \in {"set", "pending-rotation", "idvtc-with-members"} => j.slots \in Members
  BY <1>3, JobsType
<1>5. /\ First(c) \in {"look", "find", "set", "clear", "wipe-1", "outdate", "find-form"}
      /\ First(c) = "find" <=> c = "review"
      /\ First(c) = "set" => c \in {"set", "pending-rotation"}
      /\ c = "idvtc-with-members" => First(c) = "outdate"
  BY <1>3 DEF First, Command, Seeds
<1>6. at' = [at EXCEPT ![p] = First(c)] /\ job' = [job EXCEPT ![p] = j]
  BY <1>1 DEF Local, Goto
<1>7. held' = [held EXCEPT ![p] = {}]
  BY <1>2, Parts DEF IInv, TypeOK, Locals
<1>8. Locals(First(c), j, {}) /\ First(c) \in Stage
  BY <1>4, <1>5 DEF Locals, Stage
<1>9. /\ at' \in [Client -> Stage] /\ job' \in [Client -> Job]
      /\ held' \in [Client -> SUBSET Row] /\ Ordered'
  <2> HIDE DEF First
  <2> QED
    BY <1>4, <1>6, <1>7, <1>8, Goes DEF IInv
<1>10. names \subseteq Command
  BY Parts
<1>11. overlap' \in [Client -> SUBSET Command] /\ racing' \subseteq Command /\ racing \subseteq racing'
  BY <1>1, <1>3, <1>10 DEF IInv, TypeOK
<1>12. TypeOK'
  BY <1>2, <1>9, <1>11 DEF IInv, TypeOK
<1>13. \A q \in Client \ {p} : at'[q] = at[q] /\ job'[q] = job[q]
  BY <1>6 DEF IInv, TypeOK
<1>14. at'[p] = First(c) /\ job'[p] = j
  BY <1>6 DEF IInv, TypeOK
<1>15. OneReview'
  <2> SUFFICES ASSUME "review" \notin racing' PROVE OneReview'
    BY DEF OneReview
  <2>1. "review" \notin racing /\ (c = "review" => "review" \notin names)
    BY <1>1, <1>11
  <2>2. c = "review" => \A q \in Client \ {p} : at[q] = "idle" \/ job[q].command # "review"
    BY <2>1 DEF At
  <2>3. ASSUME NEW q \in Client, NEW r \in Client, at'[q] # "idle", at'[r] # "idle",
               job'[q].command = "review", job'[r].command = "review"
        PROVE  q = r
    <3>1. CASE c = "review"
      BY <1>13, <2>2, <2>3, <3>1
    <3>2. CASE c # "review"
      <4>1. q # p /\ r # p
        BY <1>4, <1>14, <2>3, <3>2
      <4> QED
        BY <1>13, <2>1, <2>3, <4>1 DEF IInv, OneReview
    <3> QED
      BY <3>1, <3>2
  <2>4. ASSUME NEW q \in Client, at'[q] \in {"merge", "apply", "decide"},
               request[job'[q].id] # None
        PROVE  request[job'[q].id].status # "APPROVED"
    <3>1. q # p
      BY <1>5, <1>14, <2>4
    <3> QED
      BY <1>13, <2>1, <2>4, <3>1 DEF IInv, OneReview
  <2> QED
    BY <1>2, <2>3, <2>4 DEF OneReview
<1>16. Filled'
  <2>1. \A q \in Creating' : q \in Creating /\ job'[q] = job[q]
    BY <1>5, <1>13, <1>14 DEF Creating
  <2> QED
    BY <1>2, <2>1 DEF IInv, Filled, Present
<1>17. applied' \subseteq Present(request)' /\ ApprovedIsApplied'
  BY <1>2, <1>11 DEF IInv, ApprovedIsApplied, Present
<1> QED
  BY <1>9, <1>12, <1>15, <1>16, <1>17 DEF IInv

LEMMA Initially ==
  ASSUME Init
  PROVE  IInv
<1>1. "idle" \in Stage /\ Locals("idle", NoJob, {}) /\ (\A p \in Client : at[p] = "idle")
  BY DEF Stage, Locals, Init
<1>2. /\ members \in Members \cup {None} /\ request \in [Id -> Request \cup {None}]
      /\ \A id \in Present(request) : request[id].status = "REVIEW"
      /\ members = None => \A id \in Present(request) : Full(request[id].slots)
  <2>1. CASE "review" \in mix /\ mix \cap Creates = {}
    <3>1. PICK id \in Id, s \in IF members = None THEN Members
                                ELSE {x \in Slots : buildSlotColumns(x)} :
            request = [x \in Id |-> IF x # id THEN None ELSE
                         [slots |-> s, status |-> "REVIEW", superseded |-> FALSE]]
      BY <2>1 DEF Init
    <3> DEFINE fresh == [slots |-> s, status |-> "REVIEW", superseded |-> FALSE]
    <3>2. s \in Slots
      BY Rowless
    <3>3. fresh \in Request /\ fresh.status = "REVIEW" /\ fresh.slots = s
      BY <3>2 DEF Request, Status
    <3>4. members = None => Full(s)
      <4>1. SUFFICES ASSUME members = None PROVE Full(s)
        OBVIOUS
      <4>2. s \in Members
        BY <4>1
      <4> QED
        BY <4>2, Rowless DEF Members, Full
    <3> HIDE DEF fresh
    <3>5. request = [x \in Id |-> IF x # id THEN None ELSE fresh]
      BY <3>1 DEF fresh
    <3> QED
      BY <2>1, <3>3, <3>4, <3>5 DEF Init, Present
  <2>2. CASE ~("review" \in mix /\ mix \cap Creates = {})
    BY <2>2 DEF Init, Present
  <2> QED
    BY <2>1, <2>2
<1>3. TypeOK
  BY <1>1, <1>2, NoJobType DEF Init, TypeOK
<1>4. Ordered
  BY <1>1 DEF Init, Ordered
<1>5. OneReview
  BY <1>1 DEF OneReview
<1>6. Filled
  BY <1>1, <1>2 DEF Filled, Creating
<1>7. applied \subseteq Present(request) /\ ApprovedIsApplied
  BY <1>2 DEF Init, ApprovedIsApplied
<1> QED
  BY <1>3, <1>4, <1>5, <1>6, <1>7 DEF IInv

LEMMA StepKeeps ==
  ASSUME IInv, NEW p \in Client, Step(p)
  PROVE  IInv'
<1>1. CASE Die(p) \/ FindNone(p) \/ InsertFails(p) \/ MergeFails(p) \/ DecideFails(p) \/ FindNoForm(p)
             \/ SetStatusFails(p) \/ IssueFails(p)
  BY <1>1, AbortKeeps
  DEF Die, FindNone, InsertFails, MergeFails, DecideFails, FindNoForm, SetStatusFails, IssueFails
<1> QED
  BY <1>1, StartKeeps, ReadsKeep, WriteKeeps, HoldKeeps, InsertKeeps, DecideKeeps,
     SetMembersKeeps, ClearKeeps, WipeKeeps, FormsKeep DEF Step

LEMMA StutterKeeps ==
  ASSUME IInv, UNCHANGED vars
  PROVE  IInv'
BY DEF vars, tables, history, IInv, TypeOK, Ordered, OneReview, Filled, Creating, Present,
       ApprovedIsApplied

-----------------------------------------------------------------------------
(* The results.                                                            *)

\* IInv holds in every reachable state: types, the order of locks, one review at a
\* time until two race, and what the slots of requests count on.
THEOREM Invariance == Spec => []IInv
<1>1. Init => IInv
  BY Initially
<1>2. IInv /\ [Next]_vars => IInv'
  <2> SUFFICES ASSUME IInv, [Next]_vars PROVE IInv'
    OBVIOUS
  <2>1. CASE Next
    BY <2>1, StepKeeps DEF Next
  <2>2. CASE UNCHANGED vars
    BY <2>2, StutterKeeps
  <2> QED
    BY <2>1, <2>2
<1> QED
  BY <1>1, <1>2, PTL DEF Spec

\* Every variable keeps its type: the members row is always complete, and every row a
\* statement writes was there.
THEOREM TypeCorrect == Spec => []TypeOK
<1>1. IInv => TypeOK
  BY DEF IInv
<1> QED
  BY <1>1, Invariance, PTL

\* No two commands of tools/survey ever wait for each other's rows: members are locked
\* before requests and requests before forms (rotation.ts, maintenance.ts).
THEOREM NeverCircular == Spec => []NoCircularWait
<1>1. IInv => NoCircularWait
  <2> SUFFICES ASSUME IInv, NEW p \in Client, NEW q \in Client, p # q, Waits(p, q), Waits(q, p)
               PROVE  FALSE
    BY DEF NoCircularWait
  <2>1. PICK x \in job[p].want : x \in held[q]
    BY DEF Waits
  <2>2. PICK y \in job[q].want : y \in held[p]
    BY DEF Waits
  <2>3. at[p] \in {"decide", "wipe-3", "wipe"} /\ at[q] \in {"decide", "wipe-3", "wipe"}
    BY <2>1, <2>2, Parts DEF Locals
  <2>4. CASE at[p] = "wipe"
    <3>1. x[1] = "form"
      BY <2>4, Parts DEF Locals, Named
    <3> QED
      BY <2>1, <2>3, <3>1, Parts DEF Locals, Named
  <2>5. CASE at[p] # "wipe"
    <3>1. x[1] = "request" /\ y[1] = "members"
      BY <2>1, <2>2, <2>3, <2>5, Parts DEF Locals, Named
    <3> QED
      BY <2>2, <2>3, <3>1, Parts DEF Locals, Named
  <2> QED
    BY <2>4, <2>5
<1> QED
  BY <1>1, Invariance, PTL

\* While no two reviews deal with requests at once, a request is approved if and only if
\* its slots have reached the members row (rotation review's transaction).
THEOREM ApprovalsApplied == Spec => []ApprovedIsApplied
<1>1. IInv => ApprovedIsApplied
  BY DEF IInv
<1> QED
  BY <1>1, Invariance, PTL

\* A request that waits for its review leaves no slot open that has no member, unless
\* the members row it counted on was deleted since (rotation create's filling up).
THEOREM WaitingIsFull == Spec => []WaitingHasMembers
<1>1. IInv => WaitingHasMembers
  BY DEF IInv, WaitingHasMembers, Filled, Full, OpenRequests
<1> QED
  BY <1>1, Invariance, PTL

-----------------------------------------------------------------------------
(* What a command relies on from one statement to the next, as long as no  *)
(* other command that could take it away has overlapped it.                *)

\* The statements of a command.
Statements(c) ==
  CASE c = "create" -> {"look", "supersede", "insert"}
    [] c = "pending-rotation" -> {"set", "look", "supersede", "insert"}
    [] c = "review" -> {"find", "merge", "apply", "decide"}
    [] c = "set" -> {"set"}
    [] c = "clear" -> {"clear"}
    [] c = "reset" -> {"wipe-1", "wipe-2", "wipe-3", "wipe"}
    [] c = "idvtc-with-members" -> {"outdate", "new-form", "set"}
    [] c \in {"ics-seed", "idvtc-seed"} -> {"outdate", "new-form"}
    [] OTHER -> {"find-form", "status", "issue"}

\* --issued and --bind are for approved forms, to the end of the command.
Consented(s, j) ==
  (j.flag \/ s = "issue") /\ s \in {"outdate", "new-form", "find-form", "status", "issue"}
    => j.status = "APPROVED"
Doing == \A p \in Client : at[p] # "idle" => at[p] \in Statements(job[p].command)
                                             /\ Consented(at[p], job[p])

\* Of two commands that run, each knows that the other has overlapped it.
Mutual ==
  \A p, q \in Client : (p # q /\ at[p] # "idle" /\ at[q] # "idle") => job[q].command \in overlap[p]

\* A review holds the slots of its request, then what they make of the members row.
Merging(p) ==
  (at[p] \in {"merge", "apply", "decide"} /\ Approves(p) /\ overlap[p] \cap MemberWriters = {})
    => /\ request[job[p].id] # None
       /\ at[p] = "merge" => job[p].slots = request[job[p].id].slots
       /\ at[p] # "merge" => job[p].merged = mergeSlots(members, request[job[p].id].slots)
\* A creation has found every open request, the seeding of a form every current one.
Superseding(p) ==
  (at[p] = "insert" /\ overlap[p] \cap Creates = {} /\ "review" \notin racing)
    => Rows("request", OpenRequests) \subseteq job[p].want
Outdating(p) ==
  (at[p] = "new-form" /\ overlap[p] \cap Seeds = {})
    => Rows("form", Current(Kind(job[p].command))) \subseteq job[p].want
\* The form that is about to be issued has been approved.
Issuing(p) ==
  (at[p] = "issue" /\ overlap[p] = {} /\ form[job[p].id] # None)
    => form[job[p].id].status = "APPROVED"
Relied == \A p \in Client : Merging(p) /\ Superseding(p) /\ Outdating(p) /\ Issuing(p)

JInv == IInv /\ Doing /\ Mutual /\ Relied

\* A step of p that goes on at s, with the locals j, or ends the command.
Moves(p, s, j) ==
  /\ at' = [at EXCEPT ![p] = s] /\ job' = [job EXCEPT ![p] = j]
  /\ s # "idle" =>
       /\ at[p] # "idle" /\ j.command = job[p].command /\ overlap' = overlap
       /\ s \in Statements(j.command) /\ Consented(s, j)
  /\ overlap' \in {overlap, [overlap EXCEPT ![p] = {}]} /\ racing' = racing

LEMMA EndMoves ==
  ASSUME NEW p \in Client, Ends(p)
  PROVE  Moves(p, "idle", NoJob)
BY DEF Ends, Moves, Goto, Local, Release

LEMMA AbortMoves ==
  ASSUME NEW p \in Client, Abort(p)
  PROVE  Moves(p, "idle", NoJob) /\ UNCHANGED tables
BY EndMoves DEF Abort

LEMMA StatementsOf ==
  ASSUME NEW c \in Command
  PROVE  /\ "merge" \in Statements(c) \/ "find" \in Statements(c) \/ "apply" \in Statements(c)
              \/ "decide" \in Statements(c) => c = "review"
         /\ "look" \in Statements(c) \/ "supersede" \in Statements(c) \/ "insert" \in Statements(c)
              => c \in Creates
         /\ "set" \in Statements(c) => c \in {"set", "pending-rotation", "idvtc-with-members"}
         /\ "clear" \in Statements(c) => c = "clear"
         /\ "wipe-1" \in Statements(c) \/ "wipe-2" \in Statements(c) \/ "wipe-3" \in Statements(c)
              \/ "wipe" \in Statements(c) => c = "reset"
         /\ "outdate" \in Statements(c) \/ "new-form" \in Statements(c) => c \in Seeds
         /\ "find-form" \in Statements(c) \/ "status" \in Statements(c) \/ "issue" \in Statements(c)
              => c \in {"ics-review", "idvtc-review"}
BY DEF Statements, Command, Creates, Seeds

LEMMA StatementsFor ==
  /\ Statements("review") = {"find", "merge", "apply", "decide"}
  /\ \A c \in Creates : {"look", "supersede", "insert"} \subseteq Statements(c)
  /\ Statements("reset") = {"wipe-1", "wipe-2", "wipe-3", "wipe"}
  /\ \A c \in Seeds : {"outdate", "new-form"} \subseteq Statements(c)
  /\ "set" \in Statements("idvtc-with-members")
  /\ \A c \in {"ics-review", "idvtc-review"} : {"find-form", "status", "issue"} \subseteq Statements(c)
BY DEF Statements, Creates, Seeds


LEMMA GoesOn ==
  ASSUME IInv, Doing, NEW p \in Client, NEW s, NEW j, at[p] # "idle", Goto(p, s), Local(p, j),
         overlap' = overlap, racing' = racing, s \in Statements(job[p].command),
         j.command = job[p].command, j.flag = job[p].flag, j.status = job[p].status,
         \/ s \notin {"outdate", "new-form", "find-form", "status", "issue"}
         \/ at[p] \in {"outdate", "find-form", "status"} /\ (s = "issue" => j.flag)
  PROVE  Moves(p, s, j)
<1>1. Consented(at[p], job[p])
  BY DEF Doing
<1>2. Consented(s, j)
  BY <1>1 DEF Consented
<1> QED
  BY <1>2 DEF Moves, Goto, Local

\* Every step but the start of a command is such a step.
LEMMA StepMoves ==
  ASSUME IInv, Doing, NEW p \in Client, Step(p), ~Start(p)
  PROVE  \E s, j : Moves(p, s, j)
<1>1. CASE Die(p) \/ FindNone(p) \/ InsertFails(p) \/ MergeFails(p) \/ DecideFails(p) \/ FindNoForm(p)
             \/ SetStatusFails(p) \/ IssueFails(p)
  BY <1>1, AbortMoves
  DEF Die, FindNone, InsertFails, MergeFails, DecideFails, FindNoForm, SetStatusFails, IssueFails
<1>2. CASE Ends(p)
  BY <1>2, EndMoves
<1>3. job[p] \in Job /\ job[p].command \in Command
  BY Parts
<1>4. at[p] # "idle" => at[p] \in Statements(job[p].command)
  BY DEF Doing
<1> USE DEF At
<1>5. CASE Look(p)
  <2>1. PICK slots \in Padded(job[p].slots, members) :
          Local(p, [job[p] EXCEPT !.slots = slots])
    BY <1>5 DEF Look
  <2>2. Goto(p, "supersede") /\ overlap' = overlap /\ racing' = racing /\ at[p] = "look"
    BY <1>5 DEF Look, history
  <2>3. "supersede" \in Statements(job[p].command)
    BY <1>3, <1>4, <2>2, StatementsOf, StatementsFor
  <2> DEFINE j == [job[p] EXCEPT !.slots = slots]
  <2>4. j.command = job[p].command /\ j.flag = job[p].flag /\ j.status = job[p].status
    BY <1>3 DEF Job
  <2>5. Local(p, j)
    BY <2>1
  <2> HIDE DEF j
  <2>8. Moves(p, "supersede", j)
    BY <2>1, <2>2, <2>3, <2>4, <2>5, GoesOn
  <2> QED
    BY <2>8
<1>6. CASE Supersede(p)
  <2>1. /\ at[p] = "supersede" /\ Goto(p, "insert") /\ overlap' = overlap /\ racing' = racing
        /\ Local(p, [job[p] EXCEPT !.want = Rows("request", OpenRequests)])
    BY <1>6 DEF Supersede, Write, history
  <2>2. "insert" \in Statements(job[p].command)
    BY <1>3, <1>4, <2>1, StatementsOf, StatementsFor
  <2> DEFINE j == [job[p] EXCEPT !.want = Rows("request", OpenRequests)]
  <2>4. j.command = job[p].command /\ j.flag = job[p].flag /\ j.status = job[p].status
    BY <1>3 DEF Job
  <2>5. Local(p, j)
    BY <2>1
  <2> HIDE DEF j
  <2>8. Moves(p, "insert", j)
    BY <2>1, <2>2, <2>4, <2>5, GoesOn
  <2> QED
    BY <2>8
<1>7. CASE Find(p)
  <2>1. /\ at[p] = "find" /\ overlap' = overlap /\ racing' = racing
    BY <1>7 DEF Find, history
  <2>2. {"merge", "decide"} \subseteq Statements(job[p].command)
    BY <1>3, <1>4, <2>1, StatementsOf, StatementsFor
  <2>3. PICK id \in {x \in OpenRequests : request[x].status = "REVIEW"} :
          \/ /\ Local(p, [job[p] EXCEPT !.id = id, !.slots = request[id].slots])
             /\ Goto(p, "merge")
          \/ /\ Local(p, [job[p] EXCEPT !.id = id, !.want = {<<"request", id>>}])
             /\ Goto(p, "decide")
    BY <1>7 DEF Find
  <2>6. \E j, s : /\ Local(p, j) /\ Goto(p, s) /\ s \in {"merge", "decide"}
          /\ \/ j = [job[p] EXCEPT !.id = id, !.slots = request[id].slots]
             \/ j = [job[p] EXCEPT !.id = id, !.want = {<<"request", id>>}]
    BY <2>3
  <2>7. PICK j, s : /\ Local(p, j) /\ Goto(p, s) /\ s \in {"merge", "decide"}
          /\ \/ j = [job[p] EXCEPT !.id = id, !.slots = request[id].slots]
             \/ j = [job[p] EXCEPT !.id = id, !.want = {<<"request", id>>}]
    BY <2>6
  <2>4. j.command = job[p].command /\ j.flag = job[p].flag /\ j.status = job[p].status
    BY <1>3, <2>7 DEF Job
  <2>5. Moves(p, s, j)
    BY <2>1, <2>2, <2>7, <2>4, GoesOn
  <2> QED
    BY <2>5
<1>8. CASE Merge(p)
  <2>1. /\ at[p] = "merge" /\ Goto(p, "apply") /\ overlap' = overlap /\ racing' = racing
        /\ Local(p, [job[p] EXCEPT !.merged = mergeSlots(members, job[p].slots),
                                   !.want = {<<"members", None>>}])
    BY <1>8 DEF Merge, history
  <2>2. "apply" \in Statements(job[p].command)
    BY <1>3, <1>4, <2>1, StatementsOf, StatementsFor
  <2> DEFINE j == [job[p] EXCEPT !.merged = mergeSlots(members, job[p].slots), !.want = {<<"members", None>>}]
  <2>4. j.command = job[p].command /\ j.flag = job[p].flag /\ j.status = job[p].status
    BY <1>3 DEF Job
  <2>5. Local(p, j)
    BY <2>1
  <2> HIDE DEF j
  <2>8. Moves(p, "apply", j)
    BY <2>1, <2>2, <2>4, <2>5, GoesOn
  <2> QED
    BY <2>8
<1>9. CASE Apply(p)
  <2>1. /\ at[p] = "apply" /\ Goto(p, "decide") /\ overlap' = overlap /\ racing' = racing
        /\ Local(p, [job[p] EXCEPT !.want = {<<"request", job[p].id>>}])
    BY <1>9 DEF Apply, Hold, history
  <2>2. "decide" \in Statements(job[p].command)
    BY <1>3, <1>4, <2>1, StatementsOf, StatementsFor
  <2> DEFINE j == [job[p] EXCEPT !.want = {<<"request", job[p].id>>}]
  <2>4. j.command = job[p].command /\ j.flag = job[p].flag /\ j.status = job[p].status
    BY <1>3 DEF Job
  <2>5. Local(p, j)
    BY <2>1
  <2> HIDE DEF j
  <2>8. Moves(p, "decide", j)
    BY <2>1, <2>2, <2>4, <2>5, GoesOn
  <2> QED
    BY <2>8
<1>10. CASE SetMembers(p) /\ ~Ends(p)
  <2>1. /\ at[p] = "set" /\ Goto(p, "look") /\ overlap' = overlap /\ racing' = racing
        /\ job[p].command = "pending-rotation"
    BY <1>10 DEF SetMembers, Release
  <2>2. PICK a \in Address : Local(p, [job[p] EXCEPT !.slots = [Empty EXCEPT ![1] = a]])
    BY <1>10 DEF SetMembers
  <2>3. "look" \in Statements(job[p].command)
    BY <2>1, StatementsFor DEF Creates
  <2> DEFINE j == [job[p] EXCEPT !.slots = [Empty EXCEPT ![1] = a]]
  <2>4. j.command = job[p].command /\ j.flag = job[p].flag /\ j.status = job[p].status
    BY <1>3 DEF Job
  <2>5. Local(p, j)
    BY <2>2
  <2> HIDE DEF j
  <2>8. Moves(p, "look", j)
    BY <2>1, <2>2, <2>3, <2>4, <2>5, GoesOn
  <2> QED
    BY <2>8
<1>11. CASE WipeTable(p)
  <2>1. /\ at[p] \in DOMAIN WipeOrder
        /\ Goto(p, WipeOrder[at[p]][2]) /\ overlap' = overlap /\ racing' = racing
        /\ Local(p, [job[p] EXCEPT !.want = Wiped(p, WipeOrder[at[p]][1])])
    BY <1>11 DEF WipeTable, Hold, history
  <2>2. at[p] \in {"wipe-1", "wipe-2", "wipe-3"} /\ WipeOrder[at[p]][2] \in {"wipe-2", "wipe-3", "wipe"}
    BY <2>1 DEF WipeOrder
  <2>3. WipeOrder[at[p]][2] \in Statements(job[p].command)
    BY <1>3, <1>4, <2>2, StatementsOf, StatementsFor
  <2> DEFINE j == [job[p] EXCEPT !.want = Wiped(p, WipeOrder[at[p]][1])]
  <2>4. j.command = job[p].command /\ j.flag = job[p].flag /\ j.status = job[p].status
    BY <1>3 DEF Job
  <2>5. Local(p, j)
    BY <2>1
  <2> HIDE DEF j
  <2>8. Moves(p, WipeOrder[at[p]][2], j)
    BY <2>1, <2>2, <2>3, <2>4, <2>5, GoesOn
  <2> QED
    BY <2>8
<1>12. CASE Outdate(p)
  <2>1. /\ at[p] = "outdate" /\ Goto(p, "new-form") /\ overlap' = overlap /\ racing' = racing
        /\ Local(p, [job[p] EXCEPT !.want =
             Rows("form", {id \in Present(form) : form[id].kind = Kind(job[p].command)})])
    BY <1>12 DEF Outdate, Write, history
  <2>2. "new-form" \in Statements(job[p].command)
    BY <1>3, <1>4, <2>1, StatementsOf, StatementsFor
  <2> DEFINE j == [job[p] EXCEPT !.want = Rows("form", {id \in Present(form) : form[id].kind = Kind(job[p].command)})]
  <2>4. j.command = job[p].command /\ j.flag = job[p].flag /\ j.status = job[p].status
    BY <1>3 DEF Job
  <2>5. Local(p, j)
    BY <2>1
  <2> HIDE DEF j
  <2>8. Moves(p, "new-form", j)
    BY <2>1, <2>2, <2>4, <2>5, GoesOn
  <2> QED
    BY <2>8
<1>13. CASE NewForm(p) /\ ~Ends(p)
  <2>1. /\ at[p] = "new-form" /\ Goto(p, "set") /\ overlap' = overlap /\ racing' = racing
        /\ job[p].command = "idvtc-with-members" /\ Local(p, [job[p] EXCEPT !.want = {}])
    BY <1>13 DEF NewForm, Release
  <2>2. "set" \in Statements(job[p].command)
    BY <2>1, StatementsFor
  <2> DEFINE j == [job[p] EXCEPT !.want = {}]
  <2>4. j.command = job[p].command /\ j.flag = job[p].flag /\ j.status = job[p].status
    BY <1>3 DEF Job
  <2>5. Local(p, j)
    BY <2>1
  <2> HIDE DEF j
  <2>8. Moves(p, "set", j)
    BY <2>1, <2>2, <2>4, <2>5, GoesOn
  <2> QED
    BY <2>8
<1>14. CASE FindForm(p)
  <2>1. /\ at[p] = "find-form" /\ Goto(p, "status") /\ overlap' = overlap /\ racing' = racing
    BY <1>14 DEF FindForm, history
  <2>2. PICK id \in Current(Kind(job[p].command)) : Local(p, [job[p] EXCEPT !.id = id])
    BY <1>14 DEF FindForm
  <2>3. "status" \in Statements(job[p].command)
    BY <1>3, <1>4, <2>1, StatementsOf, StatementsFor
  <2> DEFINE j == [job[p] EXCEPT !.id = id]
  <2>4. j.command = job[p].command /\ j.flag = job[p].flag /\ j.status = job[p].status
    BY <1>3 DEF Job
  <2>5. Local(p, j)
    BY <2>2
  <2> HIDE DEF j
  <2>8. Moves(p, "status", j)
    BY <2>1, <2>2, <2>3, <2>4, <2>5, GoesOn
  <2> QED
    BY <2>8
<1>15. CASE SetStatus(p) /\ ~Ends(p)
  <2>1. /\ at[p] = "status" /\ Goto(p, "issue") /\ overlap' = overlap /\ racing' = racing
        /\ job[p].flag /\ Local(p, job[p])
    BY <1>15 DEF SetStatus, Release, Local, IInv, TypeOK
  <2>2. "issue" \in Statements(job[p].command)
    BY <1>3, <1>4, <2>1, StatementsOf, StatementsFor
  <2> QED
    BY <2>1, <2>2, GoesOn
<1> QED
  BY <1>1, <1>2, <1>5, <1>6, <1>7, <1>8, <1>9, <1>10, <1>11, <1>12, <1>13, <1>14, <1>15
  DEF Step, Insert, Decide, ClearMembers, Wipe, Issue

\* The start of a command.
Begins(p, c, j) ==
  /\ at[p] = "idle" /\ j.command = c
  /\ at' = [at EXCEPT ![p] = First(c)] /\ job' = [job EXCEPT ![p] = j]
  /\ First(c) \in Statements(c) /\ Consented(First(c), j) /\ racing \subseteq racing'
  /\ UNCHANGED tables
  /\ \A q \in Client \ {p} :
       /\ at[q] # "idle" => c \in overlap'[q] /\ overlap[q] \subseteq overlap'[q]
                            /\ job[q].command \in overlap'[p]

LEMMA JobsConsent ==
  ASSUME NEW c \in Command, NEW j \in Jobs(c), Allowed(c, j.status, j.flag)
  PROVE  Consented(First(c), j)
<1>1. CASE c \in {"idvtc-seed", "ics-review"}
  BY <1>1 DEF Allowed, Consented, First, Seeds
<1>2. CASE c \in {"ics-seed", "idvtc-review"}
  <2>1. j.flag \in {c = "idvtc-with-members"}
    BY <1>2 DEF Jobs
  <2>2. j.flag = FALSE
    BY <1>2, <2>1
  <2> QED
    BY <1>2, <2>2 DEF Consented, First, Seeds
<1>3. CASE c = "idvtc-with-members"
  <2>1. j.status \in {"APPROVED"}
    BY <1>3 DEF Jobs
  <2> QED
    BY <2>1 DEF Consented
<1>4. CASE c \notin {"idvtc-seed", "ics-review", "ics-seed", "idvtc-review", "idvtc-with-members"}
  BY <1>4 DEF Consented, First, Seeds, Command
<1> QED
  BY <1>1, <1>2, <1>3, <1>4

LEMMA StartBegins ==
  ASSUME IInv, NEW p \in Client, Start(p)
  PROVE  \E c \in Command : \E j : Begins(p, c, j)
<1>1. PICK c \in mix : \E j \in Jobs(c) :
        /\ Allowed(c, j.status, j.flag)
        /\ LET running == {q \in Client \ {p} : ~At(q, "idle")}
               names == {job[q].command : q \in running}
           IN /\ overlap' = [q \in Client |-> IF q = p THEN names
                                              ELSE IF q \in running THEN overlap[q] \cup {c}
                                              ELSE overlap[q]]
              /\ racing' = IF c \in names THEN racing \cup {c} ELSE racing
        /\ Local(p, j) /\ Goto(p, First(c))
  BY DEF Start
<1>2. PICK j \in Jobs(c) :
        /\ Allowed(c, j.status, j.flag)
        /\ LET running == {q \in Client \ {p} : ~At(q, "idle")}
               names == {job[q].command : q \in running}
           IN /\ overlap' = [q \in Client |-> IF q = p THEN names
                                              ELSE IF q \in running THEN overlap[q] \cup {c}
                                              ELSE overlap[q]]
              /\ racing' = IF c \in names THEN racing \cup {c} ELSE racing
        /\ Local(p, j) /\ Goto(p, First(c))
  BY <1>1
<1>3. c \in Command
  BY SurveyAssumption DEF IInv, TypeOK
<1>4. j.command = c /\ Consented(First(c), j)
  BY <1>2, <1>3, JobsType, JobsConsent
<1>5. First(c) \in Statements(c)
  BY <1>3 DEF First, Statements, Command, Seeds
<1>6. /\ racing \subseteq racing'
      /\ \A q \in Client \ {p} :
           at[q] # "idle" => c \in overlap'[q] /\ overlap[q] \subseteq overlap'[q]
                             /\ job[q].command \in overlap'[p]
  BY <1>2 DEF At
<1>7. at[p] = "idle" /\ UNCHANGED tables
  BY DEF Start, At
<1>8. at' = [at EXCEPT ![p] = First(c)] /\ job' = [job EXCEPT ![p] = j]
  BY <1>2 DEF Local, Goto
<1>9. Begins(p, c, j)
  BY <1>4, <1>5, <1>6, <1>7, <1>8 DEF Begins
<1> QED
  BY <1>3, <1>9

LEMMA DoingKeeps ==
  ASSUME IInv, Doing, Mutual, NEW p \in Client, Step(p)
  PROVE  Doing' /\ Mutual'
<1>0. at \in [Client -> Stage] /\ job \in [Client -> Job] /\ overlap \in [Client -> SUBSET Command]
  BY DEF IInv, TypeOK
<1>1. CASE Start(p)
  <2>1. PICK c, j : c \in Command /\ Begins(p, c, j)
    BY <1>1, StartBegins
  <2>2. /\ at'[p] = First(c) /\ job'[p] = j
        /\ \A q \in Client \ {p} : at'[q] = at[q] /\ job'[q] = job[q]
    BY <1>0, <2>1 DEF Begins
  <2>3. Doing'
    BY <2>1, <2>2 DEF Doing, Begins
  <2>4. Mutual'
    BY <2>1, <2>2 DEF Mutual, Begins
  <2> QED
    BY <2>3, <2>4
<1>2. CASE ~Start(p)
  <2>1. PICK s, j : Moves(p, s, j)
    BY <1>2, StepMoves
  <2>2. /\ at'[p] = s /\ job'[p] = j
        /\ \A q \in Client \ {p} : at'[q] = at[q] /\ job'[q] = job[q] /\ overlap'[q] = overlap[q]
    BY <1>0, <2>1 DEF Moves
  <2>3. Doing'
    BY <2>1, <2>2 DEF Doing, Moves
  <2>4. Mutual'
    BY <2>1, <2>2 DEF Mutual, Moves
  <2> QED
    BY <2>3, <2>4
<1> QED
  BY <1>1, <1>2

-----------------------------------------------------------------------------
(* What the steps of one command leave to the others.                      *)

\* Only commands that write members change the members row, or the slots of a request
\* that is there.
LEMMA MembersLeft ==
  ASSUME IInv, Doing, NEW p \in Client, Step(p), at[p] # "idle",
         job[p].command \notin MemberWriters
  PROVE  /\ members' = members
         /\ \A id \in Present(request) : request'[id] # None /\ request'[id].slots = request[id].slots
<1>1. at[p] \in Statements(job[p].command) /\ job[p].command \in Command
  BY Parts DEF Doing
<1>2. at[p] \in {"look", "supersede", "insert", "outdate", "new-form", "find-form", "status", "issue"}
  BY <1>1 DEF Statements, Command, MemberWriters
<1>3. CASE Insert(p)
  <2>1. PICK id \in Id \ Present(request) :
          request' = [x \in Id |->
            IF x = id
            THEN [slots |-> job[p].slots, status |-> "REVIEW", superseded |-> FALSE]
            ELSE IF <<"request", x>> \in Mine(p) THEN [request[x] EXCEPT !.superseded = TRUE]
            ELSE request[x]]
    BY <1>3 DEF Insert
  <2>2. members' = members
    BY <1>3 DEF Insert
  <2>3. ASSUME NEW x \in Present(request)
        PROVE  request'[x] # None /\ request'[x].slots = request[x].slots
    <3>1. request[x] \in Request /\ x \in Id /\ x # id
      BY DEF Present, IInv, TypeOK
    <3>2. \A b \in BOOLEAN : /\ [request[x] EXCEPT !.superseded = b] \in Request
                             /\ [request[x] EXCEPT !.superseded = b].slots = request[x].slots
      BY <3>1 DEF Request
    <3>3. request'[x] \in {request[x], [request[x] EXCEPT !.superseded = TRUE]}
      BY <2>1, <3>1
    <3> QED
      BY <3>1, <3>2, <3>3, Rowless
  <2> QED
    BY <2>2, <2>3
<1>4. CASE ~Insert(p)
  <2>1. UNCHANGED <<members, request>>
    BY <1>2, <1>4 DEF Step, Start, Die, Look, Supersede, InsertFails, Find, FindNone, Merge, MergeFails,
       Apply, Decide, DecideFails, SetMembers, ClearMembers, WipeTable, Wipe, Outdate, NewForm,
       FindForm, FindNoForm, SetStatus, SetStatusFails, Issue, IssueFails, At, Abort, Write, Hold,
       tables, WipeOrder
  <2> QED
    BY <2>1 DEF Present
<1> QED
  BY <1>3, <1>4

\* Until two reviews race, only creations make a request open.
LEMMA OpenLeft ==
  ASSUME IInv, Doing, NEW p \in Client, Step(p), at[p] # "idle",
         job[p].command \notin Creates, "review" \notin racing
  PROVE  OpenRequests' \subseteq OpenRequests
<1>1. at[p] \in Statements(job[p].command) /\ job[p].command \in Command
  BY Parts DEF Doing
<1>2. at[p] \notin {"look", "supersede", "insert"}
  BY <1>1, StatementsOf
<1>3. CASE Decide(p)
  <2> DEFINE id == job[p].id
  <2>1. at[p] = "decide" /\ request[id] # None /\ id \in Id
        /\ request' = [request EXCEPT ![id].status = job[p].status]
    BY <1>3, Parts DEF Decide, At, Locals
  <2>2. request[id].status # "APPROVED" /\ request[id] \in Request
    BY <2>1 DEF IInv, OneReview, TypeOK
  <2>3. ASSUME NEW x \in OpenRequests' PROVE x \in OpenRequests
    <3>1. x \in Id /\ request'[x] # None /\ Open(request'[x])
      BY <2>1, <2>3 DEF OpenRequests, Present, IInv, TypeOK
    <3>2. CASE x = id
      <4>1. request'[x].superseded = request[x].superseded
        BY <2>1, <2>2, <3>2 DEF IInv, TypeOK, Request
      <4> QED
        BY <2>1, <2>2, <3>1, <3>2, <4>1 DEF OpenRequests, Present, Open, IInv, TypeOK
    <3>3. CASE x # id
      <4>1. request'[x] = request[x]
        BY <2>1, <3>1, <3>3 DEF IInv, TypeOK
      <4> QED
        BY <3>1, <4>1 DEF OpenRequests, Present, IInv, TypeOK
    <3> QED
      BY <3>2, <3>3
  <2> QED
    BY <2>3
<1>4. CASE Wipe(p)
  BY <1>4 DEF Wipe, OpenRequests, Present, IInv, TypeOK
<1>5. CASE ~Decide(p) /\ ~Wipe(p)
  <2>1. request' = request
    BY <1>2, <1>5 DEF Step, Start, Die, Look, Supersede, Insert, InsertFails, Find, FindNone, Merge,
       MergeFails, Apply, DecideFails, SetMembers, ClearMembers, WipeTable, Outdate, NewForm,
       FindForm, FindNoForm, SetStatus, SetStatusFails, Issue, IssueFails, At, Abort, Write, Hold,
       tables
  <2> QED
    BY <2>1 DEF OpenRequests, Present
<1> QED
  BY <1>3, <1>4, <1>5

\* Only seeding makes a form current.
LEMMA CurrentLeft ==
  ASSUME IInv, Doing, NEW p \in Client, Step(p), at[p] # "idle",
         job[p].command \notin Seeds, NEW kind
  PROVE  Current(kind)' \subseteq Current(kind)
<1>1. at[p] \in Statements(job[p].command) /\ job[p].command \in Command
  BY Parts DEF Doing
<1>2. at[p] \notin {"outdate", "new-form"}
  BY <1>1, StatementsOf
<1>3. CASE SetStatus(p) \/ Issue(p)
  <2> DEFINE id == job[p].id
  <2>1. /\ form[id] # None /\ id \in Id
        /\ \/ form' = [form EXCEPT ![id].status = job[p].status]
           \/ form' = [form EXCEPT ![id].issued = TRUE]
    BY <1>3, Parts DEF SetStatus, Issue, At, Locals
  <2>2. form[id] \in Form
    BY <2>1 DEF IInv, TypeOK
  <2>3. form'[id].kind = form[id].kind /\ form'[id].outdated = form[id].outdated
    BY <2>1, <2>2 DEF IInv, TypeOK, Form
  <2>4. \A x \in Id \ {id} : form'[x] = form[x]
    BY <2>1 DEF IInv, TypeOK
  <2>5. Present(form)' \subseteq Id
    BY <2>1 DEF Present, IInv, TypeOK
  <2> QED
    BY <2>1, <2>3, <2>4, <2>5 DEF Current, Present, IInv, TypeOK
<1>4. CASE Wipe(p)
  BY <1>4 DEF Wipe, Current, Present, IInv, TypeOK
<1>5. CASE ~SetStatus(p) /\ ~Issue(p) /\ ~Wipe(p)
  <2>1. form' = form
    BY <1>2, <1>5 DEF Step, Start, Die, Look, Supersede, Insert, InsertFails, Find, FindNone, Merge,
       MergeFails, Apply, Decide, DecideFails, SetMembers, ClearMembers, WipeTable, Outdate, NewForm,
       FindForm, FindNoForm, SetStatusFails, IssueFails, At, Abort, Write, Hold, tables
  <2> QED
    BY <2>1 DEF Current, Present
<1> QED
  BY <1>3, <1>4, <1>5

\* What a client relies on outlives a step of another, which is in its overlap.
LEMMA OthersLeave ==
  ASSUME JInv, NEW p \in Client, Step(p), NEW q \in Client \ {p}
  PROVE  Merging(q)' /\ Superseding(q)' /\ Outdating(q)' /\ Issuing(q)'
<1>0. /\ at \in [Client -> Stage] /\ job \in [Client -> Job] /\ IInv /\ Doing
      /\ Merging(q) /\ Superseding(q) /\ Outdating(q) /\ Issuing(q)
      /\ Locals(at[q], job[q], held[q])
  BY Parts DEF JInv, IInv, TypeOK, Relied
<1>1. CASE Start(p)
  <2>1. PICK c, j : c \in Command /\ Begins(p, c, j)
    BY <1>0, <1>1, StartBegins
  <2>2. /\ at'[q] = at[q] /\ job'[q] = job[q] /\ UNCHANGED <<members, request, form>>
        /\ racing \subseteq racing' /\ (at[q] # "idle" => overlap[q] \subseteq overlap'[q])
    BY <1>0, <2>1 DEF Begins, tables
  <2>3. Merging(q)'
    BY <1>0, <2>2 DEF Merging, Approves
  <2>4. Superseding(q)'
    BY <1>0, <2>2 DEF Superseding, OpenRequests, Present
  <2>5. Outdating(q)'
    BY <1>0, <2>2 DEF Outdating, Current, Present
  <2>6. Issuing(q)'
    BY <1>0, <2>2 DEF Issuing
  <2> QED
    BY <2>3, <2>4, <2>5, <2>6
<1>2. CASE ~Start(p)
  <2>1. PICK s, j : Moves(p, s, j)
    BY <1>0, <1>2, StepMoves
  <2>2. /\ at'[q] = at[q] /\ job'[q] = job[q] /\ overlap'[q] = overlap[q] /\ racing' = racing
    BY <1>0, <2>1 DEF Moves, IInv, TypeOK
  <2>3. at[p] # "idle"
    BY <1>2 DEF Step, Die, Look, Supersede, Insert, InsertFails, Find, FindNone, Merge,
       MergeFails, Apply, Decide, DecideFails, SetMembers, ClearMembers, WipeTable, Wipe, Outdate,
       NewForm, FindForm, FindNoForm, SetStatus, SetStatusFails, Issue, IssueFails, At, WipeOrder
  <2>4. at[q] # "idle" => job[p].command \in overlap[q]
    BY <2>3 DEF JInv, Mutual
  <2>5. Merging(q)'
    <3> SUFFICES ASSUME at[q] \in {"merge", "apply", "decide"}, Approves(q),
                        overlap[q] \cap MemberWriters = {}
                 PROVE  /\ request'[job[q].id] # None
                        /\ at[q] = "merge" => job[q].slots = request'[job[q].id].slots
                        /\ at[q] # "merge" =>
                             job[q].merged = mergeSlots(members', request'[job[q].id].slots)
      BY <2>2 DEF Merging, Approves
    <3>1. job[p].command \notin MemberWriters
      BY <2>4
    <3>2. job[q].id \in Present(request)
      BY <1>0 DEF Merging, Locals, Present, IInv, TypeOK
    <3> QED
      BY <1>0, <2>3, <3>1, <3>2, MembersLeft DEF Merging
  <2>6. Superseding(q)'
    <3> SUFFICES ASSUME at[q] = "insert", overlap[q] \cap Creates = {}, "review" \notin racing
                 PROVE  Rows("request", OpenRequests') \subseteq job[q].want
      BY <2>2 DEF Superseding
    <3>1. OpenRequests' \subseteq OpenRequests
      BY <1>0, <2>3, <2>4, OpenLeft
    <3> QED
      BY <1>0, <3>1 DEF Superseding, Rows
  <2>7. Outdating(q)'
    <3> SUFFICES ASSUME at[q] = "new-form", overlap[q] \cap Seeds = {}
                 PROVE  Rows("form", Current(Kind(job[q].command))') \subseteq job[q].want
      BY <2>2 DEF Outdating
    <3>1. Current(Kind(job[q].command))' \subseteq Current(Kind(job[q].command))
      BY <1>0, <2>2, <2>3, <2>4, CurrentLeft
    <3> QED
      BY <1>0, <3>1 DEF Outdating, Rows
  <2>8. Issuing(q)'
    BY <1>0, <2>2, <2>4 DEF Issuing
  <2> QED
    BY <2>5, <2>6, <2>7, <2>8
<1> QED
  BY <1>1, <1>2

\* A client's own steps make it true.
LEMMA OwnStep ==
  ASSUME JInv, NEW p \in Client, Step(p)
  PROVE  Merging(p)' /\ Superseding(p)' /\ Outdating(p)' /\ Issuing(p)'
<1>0. /\ at \in [Client -> Stage] /\ job \in [Client -> Job] /\ job[p] \in Job /\ IInv /\ Doing
      /\ Merging(p) /\ Locals(at[p], job[p], held[p])
  BY Parts DEF JInv, IInv, TypeOK, Relied
<1> USE DEF At
<1>1. CASE at'[p] \in {"idle", "look", "supersede", "set", "clear", "wipe-1", "wipe-2", "wipe-3",
                       "wipe", "find", "outdate", "find-form", "status"}
  BY <1>1 DEF Merging, Superseding, Outdating, Issuing
<1>2. CASE Find(p)
  <2>1. PICK id \in {x \in OpenRequests : request[x].status = "REVIEW"} :
          IF job[p].status = "APPROVED"
          THEN /\ Local(p, [job[p] EXCEPT !.id = id, !.slots = request[id].slots])
               /\ Goto(p, "merge")
          ELSE /\ Local(p, [job[p] EXCEPT !.id = id, !.want = {<<"request", id>>}])
               /\ Goto(p, "decide")
    BY <1>2 DEF Find
  <2>2. UNCHANGED <<members, request, form, overlap>> /\ request[id] # None
    BY <1>2, <2>1 DEF Find, tables, history, OpenRequests, Present
  <2>3. CASE job[p].status = "APPROVED"
    <3>1. job'[p].id = id /\ job'[p].slots = request[id].slots /\ at'[p] = "merge"
      BY <1>0, <2>1, <2>3 DEF Local, Goto, Job
    <3> QED
      BY <2>2, <3>1 DEF Merging, Superseding, Outdating, Issuing
  <2>4. CASE job[p].status # "APPROVED"
    <3> DEFINE w == {<<"request", id>>}
    <3>1. at'[p] = "decide" /\ job'[p] = [job[p] EXCEPT !.id = id, !.want = w]
      BY <1>0, <2>1, <2>4 DEF Local, Goto
    <3> HIDE DEF w
    <3>2. job'[p].status # "APPROVED"
      BY <1>0, <2>4, <3>1 DEF Job
    <3> QED
      BY <3>1, <3>2 DEF Merging, Approves, Superseding, Outdating, Issuing
  <2> QED
    BY <2>3, <2>4
<1>3. CASE Merge(p)
  <2>1. /\ at[p] = "merge" /\ UNCHANGED <<members, request, form, overlap>>
        /\ at' = [at EXCEPT ![p] = "apply"]
        /\ job' = [job EXCEPT ![p] = [job[p] EXCEPT !.merged = mergeSlots(members, job[p].slots),
                                                    !.want = {<<"members", None>>}]]
    BY <1>3 DEF Merge, Goto, Local, tables, history
  <2>2. /\ job'[p].merged = mergeSlots(members, job[p].slots) /\ job'[p].id = job[p].id
        /\ job'[p].command = job[p].command /\ job'[p].status = job[p].status
        /\ at'[p] = "apply"
    <3> HIDE DEF mergeSlots
    <3> QED
      BY <1>0, <2>1 DEF Job
  <2> QED
    BY <1>0, <2>1, <2>2 DEF Merging, Approves, Superseding, Outdating, Issuing
<1>4. CASE Apply(p)
  <2>1. /\ at[p] = "apply" /\ UNCHANGED <<members, request, form, overlap>>
        /\ at' = [at EXCEPT ![p] = "decide"]
        /\ job' = [job EXCEPT ![p] = [job[p] EXCEPT !.want = {<<"request", job[p].id>>}]]
    BY <1>4 DEF Apply, Hold, Goto, Local, tables, history
  <2>2. /\ job'[p].merged = job[p].merged /\ job'[p].id = job[p].id
        /\ job'[p].command = job[p].command /\ job'[p].status = job[p].status
        /\ at'[p] = "decide"
    BY <1>0, <2>1 DEF Job
  <2> QED
    BY <1>0, <2>1, <2>2 DEF Merging, Approves, Superseding, Outdating, Issuing
<1>5. CASE Supersede(p)
  <2>1. /\ UNCHANGED request /\ at' = [at EXCEPT ![p] = "insert"]
        /\ job' = [job EXCEPT ![p] = [job[p] EXCEPT !.want = Rows("request", OpenRequests)]]
    BY <1>5 DEF Supersede, Write, Goto, Local, tables
  <2>2. at'[p] = "insert" /\ job'[p].want = Rows("request", OpenRequests)
    BY <1>0, <2>1 DEF Job
  <2>3. OpenRequests' = OpenRequests
    BY <2>1 DEF OpenRequests, Present
  <2> QED
    BY <2>2, <2>3 DEF Merging, Superseding, Outdating, Issuing
<1>6. CASE Outdate(p)
  <2> DEFINE S == {id \in Present(form) : form[id].kind = Kind(job[p].command)}
  <2>1. /\ UNCHANGED form /\ at' = [at EXCEPT ![p] = "new-form"]
        /\ job' = [job EXCEPT ![p] = [job[p] EXCEPT !.want = Rows("form", S)]]
    BY <1>6 DEF Outdate, Write, Goto, Local, tables
  <2>2. at'[p] = "new-form" /\ job'[p].want = Rows("form", S) /\ job'[p].command = job[p].command
    <3> HIDE DEF S
    <3> QED
      BY <1>0, <2>1 DEF Job
  <2>3. Rows("form", Current(Kind(job[p].command)))' \subseteq job'[p].want
    BY <2>1, <2>2 DEF Current, Present, Rows
  <2> QED
    BY <2>2, <2>3 DEF Merging, Superseding, Outdating, Issuing
<1>7. CASE SetStatus(p)
  <2>1. /\ at[p] = "status" /\ form[job[p].id] # None /\ job[p].id \in Id
        /\ form' = [form EXCEPT ![job[p].id].status = job[p].status]
    BY <1>0, <1>7 DEF SetStatus, Locals
  <2>2. CASE job[p].flag
    <3>1. at'[p] = "issue" /\ job' = job
      BY <1>0, <1>7, <2>2 DEF SetStatus, Goto
    <3>2. job[p].status = "APPROVED"
      BY <1>0, <2>1, <2>2 DEF Doing, Consented
    <3>3. form[job[p].id] \in Form
      BY <2>1 DEF IInv, TypeOK, JInv
    <3>4. form'[job[p].id].status = "APPROVED"
      BY <1>0, <2>1, <3>2, <3>3 DEF IInv, TypeOK, Form
    <3> QED
      BY <3>1, <3>4 DEF Merging, Superseding, Outdating, Issuing
  <2>3. CASE ~job[p].flag
    <3>1. at'[p] = "idle"
      BY <1>0, <1>7, <2>3 DEF SetStatus, Ends, Goto
    <3> QED
      BY <1>1, <3>1
  <2> QED
    BY <2>2, <2>3
<1>8. CASE ~(Find(p) \/ Merge(p) \/ Apply(p) \/ Supersede(p) \/ Outdate(p) \/ SetStatus(p))
  <2>1. CASE Start(p)
    <3>1. PICK c, j : c \in Command /\ Begins(p, c, j)
      BY <1>0, <2>1, StartBegins
    <3>2. at'[p] = First(c)
      BY <1>0, <3>1 DEF Begins
    <3> QED
      BY <1>1, <3>2 DEF First, Command, Seeds
  <2>2. CASE Ends(p)
    <3>1. at'[p] = "idle"
      BY <1>0, <2>2 DEF Ends, Goto
    <3> QED
      BY <1>1, <3>1
  <2>3. CASE WipeTable(p)
    <3>1. at[p] \in {"wipe-1", "wipe-2", "wipe-3"} /\ at'[p] = WipeOrder[at[p]][2]
      BY <1>0, <2>3 DEF WipeTable, Hold, Goto, WipeOrder
    <3> QED
      BY <1>1, <3>1 DEF WipeOrder
  <2>4. CASE Look(p) \/ (SetMembers(p) /\ ~Ends(p)) \/ (NewForm(p) /\ ~Ends(p)) \/ FindForm(p)
    <3>1. at'[p] \in {"supersede", "look", "set", "status"}
      BY <1>0, <2>4 DEF Look, SetMembers, NewForm, FindForm, Goto
    <3> QED
      BY <1>1, <3>1
  <2> QED
    BY <1>8, <2>1, <2>2, <2>3, <2>4
    DEF Step, Die, Insert, InsertFails, FindNone, MergeFails, Decide, DecideFails, ClearMembers,
        Wipe, FindNoForm, SetStatusFails, Issue, IssueFails, Abort
<1> QED
  BY <1>2, <1>3, <1>4, <1>5, <1>6, <1>7, <1>8

LEMMA RelyKeeps ==
  ASSUME JInv, NEW p \in Client, Step(p)
  PROVE  JInv'
<1>1. IInv' /\ Doing' /\ Mutual'
  BY StepKeeps, DoingKeeps DEF JInv
<1>2. Relied'
  <2> SUFFICES ASSUME NEW q \in Client
               PROVE  Merging(q)' /\ Superseding(q)' /\ Outdating(q)' /\ Issuing(q)'
    BY DEF Relied
  <2> QED
    BY OthersLeave, OwnStep
<1> QED
  BY <1>1, <1>2 DEF JInv


\* What commands rely on from statement to statement is there, in every reachable state.
THEOREM Reliance == Spec => []JInv
<1>1. Init => JInv
  <2> SUFFICES ASSUME Init PROVE JInv
    OBVIOUS
  <2>1. IInv
    BY Initially
  <2>2. \A p \in Client : at[p] = "idle"
    BY DEF Init
  <2> QED
    BY <2>1, <2>2 DEF JInv, Doing, Mutual, Relied, Merging, Superseding, Outdating, Issuing
<1>2. JInv /\ [Next]_vars => JInv'
  <2> SUFFICES ASSUME JInv, [Next]_vars PROVE JInv'
    OBVIOUS
  <2>1. CASE Next
    BY <2>1, RelyKeeps DEF Next
  <2>2. CASE UNCHANGED vars
    <3>1. IInv'
      BY <2>2, StutterKeeps DEF JInv
    <3>2. Doing' /\ Mutual'
      BY <2>2 DEF JInv, Doing, Mutual, vars, history
    <3>3. Relied'
      BY <2>2 DEF JInv, Relied, Merging, Approves, Superseding, Outdating, Issuing, OpenRequests,
                  Current, Present, vars, tables, history
    <3> QED
      BY <3>1, <3>2, <3>3 DEF JInv
  <2> QED
    BY <2>1, <2>2
<1> QED
  BY <1>1, <1>2, PTL DEF Spec

\* Which step of p changes a table and ends at a statement of its command.
LEMMA Mover ==
  ASSUME JInv, NEW p \in Client, Next, at'[p] # at[p]
  PROVE  Step(p)
<1>1. PICK q \in Client : Step(q)
  BY DEF Next
<1>2. CASE q # p
  <2>1. CASE Start(q)
    <3>1. PICK c, j : c \in Command /\ Begins(q, c, j)
      BY <2>1, StartBegins DEF JInv
    <3> QED
      BY <1>2, <3>1 DEF Begins, JInv, IInv, TypeOK
  <2>2. CASE ~Start(q)
    <3>1. PICK s, j : Moves(q, s, j)
      BY <1>1, <2>2, StepMoves DEF JInv
    <3> QED
      BY <1>2, <3>1 DEF Moves, JInv, IInv, TypeOK
  <2> QED
    BY <2>1, <2>2
<1> QED
  BY <1>1, <1>2

\* An approval that no other writer of the members row overlapped changes the slots of
\* its request and keeps the other members.
THEOREM ApprovalsKeepOthers == Spec => ApprovalKeepsOthers
<1>1. ASSUME JInv, [Next]_vars, NEW p \in Client
      PROVE  KeepsOthers(p)
  <2> SUFFICES ASSUME EndsNow(p, "decide"), Approves(p), request' # request,
                      overlap[p] \cap MemberWriters = {}, NEW i \in Slot
               PROVE  members'[i] = IF request[job[p].id].slots[i] # None
                                    THEN request[job[p].id].slots[i] ELSE members[i]
    BY DEF KeepsOthers
  <2>1. at[p] = "decide" /\ at'[p] = "idle" /\ Next
    BY <1>1 DEF EndsNow, vars, tables
  <2>2. Step(p)
    BY <1>1, <2>1, Mover
  <2>3. Decide(p)
    BY <2>1, <2>2 DEF Step, Start, Die, Look, Supersede, Insert, InsertFails, Find, FindNone, Merge,
       MergeFails, Apply, DecideFails, SetMembers, ClearMembers, WipeTable, Wipe, Outdate, NewForm,
       FindForm, FindNoForm, SetStatus, SetStatusFails, Issue, IssueFails, At, Abort, tables, WipeOrder
  <2>4. members' = job[p].merged
    BY <2>3 DEF Decide
  <2>5. job[p].merged = mergeSlots(members, request[job[p].id].slots)
    BY <1>1, <2>1 DEF JInv, Relied, Merging
  <2> QED
    BY <2>4, <2>5 DEF mergeSlots
<1>2. JInv /\ [Next]_vars => [\A p \in Client : KeepsOthers(p)]_vars
  BY <1>1
<1> QED
  BY <1>2, Reliance, PTL DEF Spec, ApprovalKeepsOthers

\* A request created while no other was being created is then the only open one.
THEOREM CreationSupersedes == Spec => CreateSupersedes
<1>1. ASSUME JInv, [Next]_vars, NEW p \in Client
      PROVE  CreatesAlone(p)
  <2> SUFFICES ASSUME EndsNow(p, "insert"), request' # request, overlap[p] \cap Creates = {},
                      "review" \notin racing
               PROVE  Cardinality(OpenRequests') = 1
    BY DEF CreatesAlone
  <2>1. at[p] = "insert" /\ at'[p] = "idle" /\ Next
    BY <1>1 DEF EndsNow, vars, tables
  <2>2. Step(p)
    BY <1>1, <2>1, Mover
  <2>3. Insert(p)
    BY <2>1, <2>2 DEF Step, Start, Die, Look, Supersede, InsertFails, Find, FindNone, Merge,
       MergeFails, Apply, Decide, DecideFails, SetMembers, ClearMembers, WipeTable, Wipe, Outdate,
       NewForm, FindForm, FindNoForm, SetStatus, SetStatusFails, Issue, IssueFails, At, Abort,
       tables, WipeOrder
  <2> DEFINE fresh == [slots |-> job[p].slots, status |-> "REVIEW", superseded |-> FALSE]
  <2>4. PICK id \in Id \ Present(request) :
          request' = [x \in Id |-> IF x = id THEN fresh
                                   ELSE IF <<"request", x>> \in Mine(p)
                                        THEN [request[x] EXCEPT !.superseded = TRUE] ELSE request[x]]
    BY <2>3 DEF Insert
  <2>5. fresh \in Request /\ Open(fresh) /\ job[p].command \in Creates
    <3>2. at[p] \in Statements(job[p].command) /\ job[p].command \in Command /\ job[p].slots \in Slots
      BY <1>1, <2>1, Parts DEF JInv, Doing
    <3>3. job[p].command \in Creates
      BY <2>1, <3>2, StatementsOf
    <3> QED
      BY <3>2, <3>3 DEF Request, Status, Open
  <2> HIDE DEF fresh
  <2>6. id \in OpenRequests'
    BY <2>4, <2>5, Rowless DEF OpenRequests, Present
  <2>7. ASSUME NEW x \in OpenRequests' PROVE x = id
    <3> SUFFICES ASSUME x # id PROVE FALSE
      OBVIOUS
    <3>1. x \in Id /\ request'[x] # None /\ ~request'[x].superseded /\ Open(request'[x])
      BY <2>4 DEF OpenRequests, Present, Open
    <3>2. <<"request", x>> \notin Mine(p)
      <4>1. SUFFICES ASSUME <<"request", x>> \in Mine(p) PROVE FALSE
        OBVIOUS
      <4>2. request[x] # None
        <5>1. held[p] = {}
          BY <1>1, <2>1, Parts DEF JInv, Locals
        <5> QED
          BY <4>1, <5>1 DEF Mine, StillThere
      <4>3. request[x] \in Request
        BY <1>1, <3>1, <4>2 DEF JInv, IInv, TypeOK
      <4>4. request'[x] = [request[x] EXCEPT !.superseded = TRUE]
        BY <2>4, <3>1, <4>1
      <4>5. request'[x].superseded = TRUE
        BY <4>3, <4>4 DEF Request
      <4> QED
        BY <3>1, <4>5
    <3>3. request'[x] = request[x]
      BY <2>4, <3>1, <3>2
    <3>4. x \in OpenRequests
      BY <1>1, <3>1, <3>3 DEF OpenRequests, Present, JInv, IInv, TypeOK
    <3>5. <<"request", x>> \in job[p].want
      BY <1>1, <2>1, <3>4 DEF JInv, Relied, Superseding, Rows
    <3>6. StillThere(p, <<"request", x>>)
      BY <3>4 DEF StillThere, OpenRequests, Present
    <3> QED
      BY <3>2, <3>5, <3>6 DEF Mine
  <2>8. OpenRequests' = {id}
    BY <2>6, <2>7
  <2> QED
    BY <2>8, FS_Singleton
<1>2. JInv /\ [Next]_vars => [\A p \in Client : CreatesAlone(p)]_vars
  BY <1>1
<1> QED
  BY <1>2, Reliance, PTL DEF Spec, CreateSupersedes

\* A form seeded while no other was being seeded is the only current one of its kind,
\* and issued or bound is only an approved form, if nothing overlapped.
THEOREM SeedsAreCurrent == Spec => SeedIsCurrent
<1>1. ASSUME JInv, [Next]_vars, NEW p \in Client
      PROVE  SeedsAlone(p)
  <2> DEFINE kind == Kind(job[p].command)
  <2> SUFFICES ASSUME at[p] = "new-form", at'[p] # at[p], form' # form, overlap[p] \cap Seeds = {}
               PROVE  \E id \in Id : \A x \in Present(form)' :
                        x = id <=> ~form'[x].outdated /\ form'[x].kind = kind
    BY DEF SeedsAlone
  <2>1. Step(p)
    BY <1>1, Mover DEF vars, tables
  <2>2. NewForm(p)
    BY <2>1 DEF Step, Start, Die, Look, Supersede, Insert, InsertFails, Find, FindNone, Merge,
       MergeFails, Apply, Decide, DecideFails, SetMembers, ClearMembers, WipeTable, Wipe, Outdate,
       FindForm, FindNoForm, SetStatus, SetStatusFails, Issue, IssueFails, At, Abort, tables, WipeOrder
  <2> DEFINE fresh == [kind |-> kind, status |-> job[p].status, outdated |-> FALSE,
                       issued |-> job[p].flag, bound |-> job[p].flag]
  <2>3. PICK id \in Id \ Present(form) :
          form' = [x \in Id |-> IF x = id THEN fresh
                                ELSE IF <<"form", x>> \in Mine(p)
                                     THEN [form[x] EXCEPT !.outdated = TRUE] ELSE form[x]]
    BY <2>2 DEF NewForm
  <2>4. ~fresh.outdated /\ fresh.kind = kind
    OBVIOUS
  <2> HIDE DEF fresh, kind
  <2>5. ASSUME NEW x \in Present(form)'
        PROVE  x = id <=> ~form'[x].outdated /\ form'[x].kind = kind
    <3>1. x \in Id /\ form'[x] # None
      BY <2>3 DEF Present
    <3>2. CASE x = id
      BY <2>3, <2>4, <3>1, <3>2
    <3>3. CASE x # id /\ <<"form", x>> \in Mine(p)
      <4>1. form[x] # None
        <5>1. held[p] = {}
          BY <1>1, Parts DEF JInv, Locals
        <5> QED
          BY <3>3, <5>1 DEF Mine, StillThere
      <4>2. form[x] \in Form
        BY <1>1, <3>1, <4>1 DEF JInv, IInv, TypeOK
      <4>3. form'[x] = [form[x] EXCEPT !.outdated = TRUE]
        BY <2>3, <3>1, <3>3
      <4>4. form'[x].outdated = TRUE
        BY <4>2, <4>3 DEF Form
      <4> QED
        BY <3>3, <4>4
    <3>4. CASE x # id /\ <<"form", x>> \notin Mine(p)
      <4>1. form'[x] = form[x] /\ form[x] # None
        BY <2>3, <3>1, <3>4
      <4>2. SUFFICES ASSUME ~form[x].outdated, form[x].kind = kind PROVE FALSE
        BY <3>4, <4>1
      <4>3. x \in Current(kind)
        BY <1>1, <3>1, <4>1, <4>2 DEF Current, Present, JInv, IInv, TypeOK
      <4>4. <<"form", x>> \in job[p].want
        BY <1>1, <4>3 DEF JInv, Relied, Outdating, Rows, kind
      <4> QED
        BY <3>4, <4>1, <4>4 DEF Mine, StillThere
    <3> QED
      BY <3>2, <3>3, <3>4
  <2> QED
    BY <2>5 DEF kind
<1>2. ASSUME JInv, [Next]_vars, NEW p \in Client
      PROVE  IssuesApproved(p)
  <2> SUFFICES ASSUME form' # form, at'[p] # at[p], overlap[p] = {}, NEW id \in Present(form)',
                      form'[id].issued, form[id] # None => ~form[id].issued
               PROVE  form'[id].status = "APPROVED"
    BY DEF IssuesApproved
  <2>1. Step(p) /\ IInv
    BY <1>2, Mover DEF vars, tables, JInv
  <2>2. /\ job[p].id \in Id \cup {None} /\ form \in [Id -> Form \cup {None}]
        /\ at[p] \in {"new-form", "status", "issue"} => Consented(at[p], job[p])
        /\ at[p] \in {"status", "issue"} => job[p].id \in Id
    BY <1>2, <2>1, Parts DEF JInv, Doing, IInv, TypeOK, Locals
  <2>3. NewForm(p) \/ SetStatus(p) \/ Issue(p) \/ Wipe(p)
    BY <2>1 DEF Step, Start, Die, Look, Supersede, Insert, InsertFails, Find, FindNone, Merge,
       MergeFails, Apply, Decide, DecideFails, SetMembers, ClearMembers, WipeTable, Outdate,
       FindForm, FindNoForm, SetStatusFails, IssueFails, At, Abort, tables, Write, Hold
  <2>4. CASE NewForm(p)
    <3> DEFINE kind == Kind(job[p].command)
               fresh == [kind |-> kind, status |-> job[p].status, outdated |-> FALSE,
                         issued |-> job[p].flag, bound |-> job[p].flag]
    <3>1. PICK new \in Id \ Present(form) :
            form' = [x \in Id |-> IF x = new THEN fresh
                                  ELSE IF <<"form", x>> \in Mine(p)
                                       THEN [form[x] EXCEPT !.outdated = TRUE] ELSE form[x]]
      BY <2>4 DEF NewForm
    <3>2. fresh.status = job[p].status /\ fresh.issued = job[p].flag
      OBVIOUS
    <3> HIDE DEF fresh
    <3>3. id \in Id /\ form'[id] # None
      BY <3>1 DEF Present
    <3>4. CASE id = new
      <4>1. job[p].flag
        BY <3>1, <3>2, <3>3, <3>4
      <4>2. job[p].status = "APPROVED"
        BY <2>2, <2>4, <4>1 DEF Consented, NewForm, At
      <4> QED
        BY <3>1, <3>2, <3>3, <3>4, <4>2
    <3>5. CASE id # new
      <4>1. form[id] # None
        <5>1. held[p] = {}
          BY <2>1, <2>4, Parts DEF Locals, NewForm, At
        <5>2. <<"form", id>> \in Mine(p) => form[id] # None
          BY <5>1 DEF Mine, StillThere
        <5> QED
          BY <3>1, <3>3, <3>5, <5>2
      <4>2. form[id] \in Form
        BY <2>2, <3>3, <4>1
      <4>3. \A b \in BOOLEAN : [form[id] EXCEPT !.outdated = b].issued = form[id].issued
        BY <4>2 DEF Form
      <4>4. form'[id] \in {form[id], [form[id] EXCEPT !.outdated = TRUE]}
        BY <3>1, <3>3, <3>5
      <4>5. form'[id].issued = form[id].issued
        BY <4>3, <4>4, Zenon
      <4> QED
        BY <4>1, <4>5
    <3> QED
      BY <3>4, <3>5
  <2>5. CASE SetStatus(p)
    <3>1. /\ form[job[p].id] # None /\ job[p].id \in Id /\ at[p] = "status"
          /\ form' = [form EXCEPT ![job[p].id] = [form[job[p].id] EXCEPT !.status = job[p].status]]
      BY <2>2, <2>5 DEF SetStatus, At
    <3>2. form[job[p].id] \in Form /\ id \in Id
      BY <2>2, <3>1 DEF Present
    <3>3. form'[id].issued = form[id].issued /\ (form'[id] # None => form[id] # None)
      BY <2>2, <3>1, <3>2 DEF Form
    <3> QED
      BY <3>3 DEF Present
  <2>6. CASE Issue(p)
    <3>1. /\ form[job[p].id] # None /\ job[p].id \in Id /\ at[p] = "issue"
          /\ form' = [form EXCEPT ![job[p].id] = [form[job[p].id] EXCEPT !.issued = TRUE]]
      BY <2>2, <2>6 DEF Issue, At
    <3>2. form[job[p].id] \in Form /\ id \in Id
      BY <2>2, <3>1 DEF Present
    <3>3. form[job[p].id].status = "APPROVED"
      BY <1>2, <3>1 DEF JInv, Relied, Issuing
    <3>4. CASE id = job[p].id
      BY <2>2, <3>1, <3>2, <3>3, <3>4 DEF Form
    <3>5. CASE id # job[p].id
      <4>1. form'[id] = form[id]
        BY <2>2, <3>1, <3>2, <3>5
      <4> QED
        BY <4>1 DEF Present
    <3> QED
      BY <3>4, <3>5
  <2>7. CASE Wipe(p)
    <3>1. id \in Id /\ form'[id] # None /\ form'[id] = form[id]
      BY <2>7 DEF Wipe, Present
    <3> QED
      BY <3>1
  <2> QED
    BY <2>3, <2>4, <2>5, <2>6, <2>7
<1>3. JInv /\ [Next]_vars => [\A p \in Client : SeedsAlone(p) /\ IssuesApproved(p)]_vars
  BY <1>1, <1>2
<1> QED
  BY <1>3, Reliance, PTL DEF Spec, SeedIsCurrent
=============================================================================
