------------------------------- MODULE ClMock -------------------------------
(***************************************************************************)
(* The Beacon API mock of apps/cl: the validator store (store.ts), the     *)
(* admin routes that configure it (admin.ts), the validators endpoint that *)
(* reads it and proxies what it lacks to a real Beacon API (beacon.ts),    *)
(* and the state file it saves to and loads from.                          *)
(*                                                                         *)
(* The endpoint awaits the upstream between reading the store and writing  *)
(* it (Query, then Answer or Unanswered); every other handler is one step. *)
(* The state file is the DurableState that StateFile implements, so a save *)
(* is one step too.  A validator is one public key whatever its case: the  *)
(* store lowercases every key it is given.  Of an entry's fields the model *)
(* keeps the status, by which the store knows that it is there, and the    *)
(* index, which only an upstream supplies.                                 *)
(***************************************************************************)
EXTENDS Integers, Sequences, FiniteSets

CONSTANTS
  Pubkey,      \* the validators
  Status,      \* statuses an upstream may report
  Known,       \* those of VALIDATOR_STATUSES
  Request,     \* GET requests that may wait for the upstream at once
  UpIndex,     \* UpIndex[p]: the index the upstream gives p
  AutoStart,   \* AUTO_INDEX_START
  Asks,        \* the id lists clients send
  Posts        \* the POST bodies clients send

ById == {"pubkey", "index"}
Id == [pk : Pubkey, by : ById]   \* a validator named by key or by index

\* formed stands for the checks of the pubkey and of the effective balance.
PostItem == [pk : Pubkey, status : Status, formed : BOOLEAN]

ASSUME ClAssumption ==
  /\ Known \subseteq Status
  /\ "none" \notin Status
  /\ UpIndex \in [Pubkey -> Nat]
  /\ \A p, q \in Pubkey : UpIndex[p] = UpIndex[q] => p = q
  /\ AutoStart \in Nat
  /\ Asks \subseteq Seq(Id)
  /\ Posts \subseteq Seq(PostItem)

VARIABLES
  store,      \* the validators the mock holds
  file,       \* its state file
  wait,       \* wait[r]: the ids r asked the upstream for, and what it has so far
  response,   \* the data of the last answered query
  confirmed   \* configured with no query for it in flight, and not since (history)

vars == <<store, file, wait, response, confirmed>>

NoIndex == -1
None == [status |-> "none", index |-> NoIndex]   \* no entry under that key
Entry == [status : Status, index : Nat \cup {NoIndex}]
Store == [Pubkey -> Entry \cup {None}]

Has(s, p) == s[p].status # "none"
Empty == [p \in Pubkey |-> None]

\* A file that is not there or does not parse has no data.
File == [kind : {"json"}, data : Store] \cup [kind : {"absent", "torn"}, data : {Empty}]

Item == [pk : Pubkey, index : Nat, real : BOOLEAN]   \* one element of "data"
NotWaiting == [missing |-> {}, data |-> {}]
Waiting(r) == wait[r].missing # {}

TypeOK ==
  /\ store \in Store
  /\ file \in File
  /\ wait \in [Request -> [missing : SUBSET Id, data : SUBSET Item]]
  /\ response \in SUBSET Item
  /\ confirmed \in SUBSET Pubkey

\* The validators that a waiting query may still write.
Pending == { p \in Pubkey : \E r \in Request, b \in ById :
               [pk |-> p, by |-> b] \in wait[r].missing }

\* Entries without an index come from the admin routes, directly or by file.
Configured(s) == { p \in Pubkey : Has(s, p) /\ s[p].index = NoIndex }

\* ValidatorStore.restore: entries of an unknown status are skipped.
Restored(f) == [p \in Pubkey |-> IF f.data[p].status \in Known THEN f.data[p] ELSE None]

Init ==
  /\ file \in [kind : {"absent", "torn", "json"}, data : {Empty}]
  /\ store = Empty
  /\ wait = [r \in Request |-> NotWaiting]
  /\ response = {}
  /\ confirmed = {}

-----------------------------------------------------------------------------
(* /admin/validators                                                       *)

Accepted(item) == item.formed /\ item.status \in Known

At(batch, p) == { i \in DOMAIN batch : Accepted(batch[i]) /\ batch[i].pk = p }
LastAt(batch, p) == CHOOSE i \in At(batch, p) : \A j \in At(batch, p) : j <= i

\* POST: the accepted items are stored in order, each replacing what was there.
AdminPost(batch) ==
  LET accepted == { p \in Pubkey : At(batch, p) # {} }
  IN  /\ store' = [p \in Pubkey |->
                     IF p \in accepted
                       THEN [status |-> batch[LastAt(batch, p)].status, index |-> NoIndex]
                       ELSE store[p]]
      /\ confirmed' = confirmed \cup (accepted \ Pending)
      /\ UNCHANGED <<file, wait, response>>

\* DELETE of one validator, or of all (S = Pubkey).
AdminDelete(S) ==
  /\ store' = [p \in Pubkey |-> IF p \in S THEN None ELSE store[p]]
  /\ confirmed' = confirmed \ S
  /\ UNCHANGED <<file, wait, response>>

-----------------------------------------------------------------------------
(* GET /eth/v1/beacon/states/:state_id/validators?id=...                   *)

Hits(ids) == { i \in DOMAIN ids : ids[i].by = "pubkey" /\ Has(store, ids[i].pk) }

\* buildValidator: the entry's own index, else the next automatic one.
BuildUncounted(p, n) ==   \* the automatic index not advanced
  LET real == store[p].index # NoIndex
  IN  [pk |-> p, index |-> IF real THEN store[p].index ELSE AutoStart, real |-> real]

Build(p, n) ==
  LET real == store[p].index # NoIndex
  IN  [pk |-> p, index |-> IF real THEN store[p].index ELSE AutoStart + n, real |-> real]

FromStore(ids) ==
  { Build(ids[i].pk, Cardinality({ j \in Hits(ids) : j < i })) : i \in Hits(ids) }

MissingAll(ids) == { ids[i] : i \in DOMAIN ids }   \* every id sent upstream

Missing(ids) == { ids[i] : i \in DOMAIN ids \ Hits(ids) }

\* Nothing missing: answered at once.
QueryHit(ids) ==
  /\ Missing(ids) = {}
  /\ response' = FromStore(ids)
  /\ UNCHANGED <<store, file, wait, confirmed>>

\* The local part of the answer is built now; the rest waits for the upstream.
Query(r, ids) ==
  /\ ~Waiting(r)
  /\ Missing(ids) # {}
  /\ wait' = [wait EXCEPT ![r] = [missing |-> Missing(ids), data |-> FromStore(ids)]]
  /\ UNCHANGED <<store, file, response, confirmed>>

Asked(r) == { id.pk : id \in wait[r].missing }
AskedByIndex(r) == { id.pk : id \in { x \in wait[r].missing : x.by = "index" } }

\* What the upstream says of the validators it was asked for: "none" for one
\* it does not know or reports without a key or a status.
Reply(r) == [Asked(r) -> Status \cup {"none"}]

AnswerUnchecked(r, reply) ==   \* an item without a status not skipped
  /\ Waiting(r)
  /\ LET found == DOMAIN reply
     IN  /\ store' = [p \in Pubkey |->
                        IF p \in found THEN [status |-> reply[p], index |-> UpIndex[p]]
                                       ELSE store[p]]
         /\ response' = wait[r].data \cup
              { [pk |-> p, index |-> UpIndex[p], real |-> TRUE] : p \in found }
  /\ wait' = [wait EXCEPT ![r] = NotWaiting]
  /\ confirmed' = confirmed \ AskedByIndex(r)
  /\ UNCHANGED file

\* Each validator of the reply replaces whatever the store holds by then.
Answer(r, reply) ==
  /\ Waiting(r)
  /\ LET found == { p \in DOMAIN reply : reply[p] # "none" }
     IN  /\ store' = [p \in Pubkey |->
                        IF p \in found THEN [status |-> reply[p], index |-> UpIndex[p]]
                                       ELSE store[p]]
         /\ response' = wait[r].data \cup
              { [pk |-> p, index |-> UpIndex[p], real |-> TRUE] : p \in found }
  /\ wait' = [wait EXCEPT ![r] = NotWaiting]
  /\ confirmed' = confirmed \ AskedByIndex(r)
  /\ UNCHANGED file

\* No upstream configured, a failed or malformed answer: the local part only.
Unanswered(r) ==
  /\ Waiting(r)
  /\ response' = wait[r].data
  /\ wait' = [wait EXCEPT ![r] = NotWaiting]
  /\ UNCHANGED <<store, file, confirmed>>

-----------------------------------------------------------------------------
(* State and lifecycle, over the contract of DurableState.                 *)

Save ==
  /\ file' = [kind |-> "json", data |-> store]
  /\ UNCHANGED <<store, wait, response, confirmed>>

Load ==
  /\ file.kind = "json"
  /\ store' = Restored(file)
  /\ confirmed' = Configured(store') \ Pending
  /\ UNCHANGED <<file, wait, response>>

\* The process stops, its queries with it, and boots from the file.
Restart ==
  /\ store' = Restored(file)
  /\ wait' = [r \in Request |-> NotWaiting]
  /\ confirmed' = Configured(store')
  /\ UNCHANGED <<file, response>>

-----------------------------------------------------------------------------
Next ==
  \/ \E batch \in Posts : AdminPost(batch)
  \/ \E p \in Pubkey : AdminDelete({p})
  \/ AdminDelete(Pubkey)
  \/ \E ids \in Asks : QueryHit(ids)
  \/ \E r \in Request, ids \in Asks : Query(r, ids)
  \/ \E r \in Request : \E reply \in Reply(r) : Answer(r, reply)
  \/ \E r \in Request : Unanswered(r)
  \/ Save \/ Load \/ Restart

Spec == Init /\ [][Next]_vars

-----------------------------------------------------------------------------
(* Properties                                                              *)

\* A validator configured while no query for it is in flight stays as it was
\* configured until the admin routes, a load or a restart change it, or a
\* query names it by its index: the store answers for it, so it is not fetched.
ConfiguredStays == confirmed \subseteq Configured(store)

\* "proxy-and-cache a real Beacon API for pubkeys not configured locally"
\* (apps/cl/README.md:21): an answer of the upstream never replaces the entry
\* of a configured validator.
ConfiguredNotProxied ==
  [][\A r \in Request : (\E reply \in Reply(r) : Answer(r, reply)) =>
       \A p \in Configured(store) : store'[p] = store[p]]_vars

\* Two validators of one answer have one index only when the real index of one
\* of them lies where automatic indices start, as on a network that large.
IndicesTellApart ==
  \A a, b \in response :
    a.index = b.index /\ a.pk # b.pk =>
      \E x \in {a, b} : x.real /\ x.index >= AutoStart
=============================================================================
