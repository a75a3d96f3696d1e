---------------------------- MODULE ClMock_proofs ---------------------------
(***************************************************************************)
(* Proofs about ClMock for any validators, statuses, queries and bodies:   *)
(* type correctness, that a configured validator stays configured, and     *)
(* that the validators of one answer can be told apart by their index.     *)
(***************************************************************************)
EXTENDS ClMock, FiniteSetTheorems, WellFoundedInduction, TLAPS

\* An index is the upstream's or there is none.
Provenance ==
  \A p \in Pubkey :
    /\ store[p].index \in {NoIndex, UpIndex[p]}
    /\ file.data[p].index \in {NoIndex, UpIndex[p]}

\* No query in flight misses, by key, a validator known to be configured.
NotAskedByKey ==
  \A p \in confirmed, r \in Request : [pk |-> p, by |-> "pubkey"] \notin wait[r].missing

\* What the items of one answer have to do with each other.
Apart(items) ==
  /\ \A a \in items : a.real => a.index = UpIndex[a.pk]
  /\ \A a \in items : ~a.real => a.index >= AutoStart
  /\ \A a, b \in items : ~a.real /\ ~b.real /\ a.index = b.index => a.pk = b.pk

AnswersApart ==
  /\ Apart(response)
  /\ \A r \in Request : Apart(wait[r].data)

\* The inductive invariant.
IInv ==
  /\ TypeOK
  /\ Provenance
  /\ ConfiguredStays
  /\ NotAskedByKey
  /\ AnswersApart

-----------------------------------------------------------------------------
(* The POST body and the answer built from the store.                      *)

Smaller == { pair \in Nat \X Nat : pair[1] < pair[2] }

\* A nonempty set of numbers has a smallest one.
LEMMA HasSmallest ==
  ASSUME NEW S \in SUBSET Nat, S # {}
  PROVE  \E n \in S : \A m \in S : n <= m
<1>1. IsWellFoundedOn(Smaller, Nat)
  BY NatLessThanWellFounded DEF OpToRel, Smaller
<1>2. PICK n \in S : \A m \in S : ~ (<<m, n>> \in Smaller)
  BY <1>1, WFMin
<1>3. ASSUME NEW m \in S, m < n PROVE FALSE
  <2>1. <<m, n>> \in Smaller
    BY <1>3 DEF Smaller
  <2> QED
    BY <1>2, <2>1
<1> QED
  BY <1>3

\* The last accepted item for a validator exists and is one of them.
LEMMA LastAtIsAt ==
  ASSUME NEW batch \in Posts, NEW p \in Pubkey, At(batch, p) # {}
  PROVE  LastAt(batch, p) \in At(batch, p)
<1>1. batch \in Seq(PostItem)
  BY ClAssumption
<1>2. At(batch, p) \subseteq 1 .. Len(batch) /\ Len(batch) \in Nat
  BY <1>1 DEF At
<1> DEFINE fromEnd == { Len(batch) - i : i \in At(batch, p) }
<1>3. fromEnd \in SUBSET Nat /\ fromEnd # {}
  BY <1>2
<1>4. PICK n \in fromEnd : \A m \in fromEnd : n <= m
  BY <1>3, HasSmallest
<1>5. PICK i \in At(batch, p) : n = Len(batch) - i
  OBVIOUS
<1>6. \A j \in At(batch, p) : Len(batch) - i <= Len(batch) - j
  BY <1>4, <1>5
<1>7. \A j \in At(batch, p) : j <= i
  BY <1>2, <1>6
<1> HIDE DEF fromEnd
<1> QED
  BY <1>7 DEF LastAt

\* The entries a POST stores are entries of the store.
LEMMA PostedEntry ==
  ASSUME NEW batch \in Posts, NEW p \in Pubkey, At(batch, p) # {}
  PROVE  batch[LastAt(batch, p)].status \in Status
<1>1. LastAt(batch, p) \in DOMAIN batch
  BY LastAtIsAt DEF At
<1>2. batch \in Seq(PostItem)
  BY ClAssumption
<1>3. batch[LastAt(batch, p)] \in PostItem
  BY <1>1, <1>2
<1> QED
  BY <1>3 DEF PostItem

\* Later hits have more hits before them, so automatic indices differ.
LEMMA HitsBeforeDiffer ==
  ASSUME NEW ids \in Asks, NEW i \in Hits(ids), NEW j \in Hits(ids), i < j
  PROVE  /\ Cardinality({ k \in Hits(ids) : k < i }) \in Nat
         /\ Cardinality({ k \in Hits(ids) : k < i }) < Cardinality({ k \in Hits(ids) : k < j })
<1> DEFINE Before(n) == { k \in Hits(ids) : k < n }
<1>1. Hits(ids) \subseteq 1 .. Len(ids) /\ Len(ids) \in Nat
  BY ClAssumption DEF Hits
<1>2. IsFiniteSet(Hits(ids))
  <2>1. IsFiniteSet(1 .. Len(ids))
    BY <1>1, FS_Interval
  <2> QED
    BY <1>1, <2>1, FS_Subset
<1>3. \A n \in Nat : IsFiniteSet(Before(n)) /\ Cardinality(Before(n)) \in Nat
  BY <1>2, FS_Subset, FS_CardinalityType
<1> HIDE DEF Before
<1>4. i \notin Before(i) /\ Before(i) \cup {i} \subseteq Before(j) /\ i \in Nat /\ j \in Nat
  BY <1>1 DEF Before
<1>5. Cardinality(Before(i) \cup {i}) = Cardinality(Before(i)) + 1
  BY <1>3, <1>4, FS_AddElement
<1>6. Cardinality(Before(i) \cup {i}) <= Cardinality(Before(j))
  BY <1>3, <1>4, FS_Subset
<1>7. Cardinality(Before(i)) \in Nat /\ Cardinality(Before(j)) \in Nat
  BY <1>3, <1>4
<1>8. Cardinality(Before(i)) \in Nat /\ Cardinality(Before(i)) < Cardinality(Before(j))
  BY <1>5, <1>6, <1>7
<1> QED
  BY <1>8 DEF Before

\* The number of hits before one is a number.
LEMMA HitsBeforeType ==
  ASSUME NEW ids \in Asks, NEW i \in Hits(ids)
  PROVE  Cardinality({ k \in Hits(ids) : k < i }) \in Nat
<1>1. Hits(ids) \subseteq 1 .. Len(ids) /\ Len(ids) \in Nat
  BY ClAssumption DEF Hits
<1> DEFINE before == { k \in Hits(ids) : k < i }
<1>2. IsFiniteSet(1 .. Len(ids))
  BY <1>1, FS_Interval
<1>3. before \in SUBSET (1 .. Len(ids))
  BY <1>1
<1>4. IsFiniteSet(before)
  BY <1>2, <1>3, FS_Subset
<1> QED
  BY <1>4, FS_CardinalityType

\* What the store answers by itself is well typed and told apart.
LEMMA FromStoreApart ==
  ASSUME IInv, NEW ids \in Asks
  PROVE  FromStore(ids) \in SUBSET Item /\ Apart(FromStore(ids))
<1> DEFINE before(i) == Cardinality({ j \in Hits(ids) : j < i })
<1>1. \A i \in Hits(ids) : i \in Nat /\ ids[i].pk \in Pubkey /\ before(i) \in Nat
  <2>1. ids \in Seq(Id)
    BY ClAssumption
  <2>2. \A i \in Hits(ids) : i \in Nat /\ ids[i] \in Id
    BY <2>1 DEF Hits
  <2>3. \A i \in Hits(ids) : ids[i].pk \in Pubkey
    BY <2>2 DEF Id
  <2> QED
    BY <2>2, <2>3, HitsBeforeType
<1>2. \A i, j \in Hits(ids) : before(i) = before(j) => i = j
  <2>1. ASSUME NEW i \in Hits(ids), NEW j \in Hits(ids), i < j
        PROVE  before(i) < before(j)
    BY <2>1, HitsBeforeDiffer
  <2> HIDE DEF before
  <2>2. \A i, j \in Hits(ids) : i < j => before(i) # before(j)
    BY <1>1, <2>1
  <2> QED
    BY <1>1, <2>2
<1> HIDE DEF before
<1>3. FromStore(ids) = { Build(ids[i].pk, before(i)) : i \in Hits(ids) }
  BY DEF FromStore, before
<1>4. \A p \in Pubkey : store[p].index = NoIndex \/ store[p].index = UpIndex[p]
  BY DEF IInv, Provenance
<1>5. \A p \in Pubkey : UpIndex[p] \in Nat
  BY ClAssumption
<1>6. \A p \in Pubkey, n \in Nat :
        /\ Build(p, n) \in Item
        /\ Build(p, n).pk = p
        /\ Build(p, n).real => Build(p, n).index = UpIndex[p]
        /\ ~Build(p, n).real => Build(p, n).index = AutoStart + n
  <2> TAKE p \in Pubkey, n \in Nat
  <2>1. CASE store[p].index = NoIndex
    <3>1. Build(p, n) = [pk |-> p, index |-> AutoStart + n, real |-> FALSE]
      BY <2>1 DEF Build
    <3>2. AutoStart + n \in Nat
      BY ClAssumption
    <3> QED
      BY <3>1, <3>2 DEF Item
  <2>2. CASE store[p].index # NoIndex
    <3>1. Build(p, n) = [pk |-> p, index |-> UpIndex[p], real |-> TRUE]
      BY <1>4, <2>2 DEF Build
    <3> QED
      BY <1>5, <3>1 DEF Item
  <2> QED
    BY <2>1, <2>2
<1>7. FromStore(ids) \in SUBSET Item
  BY <1>1, <1>3, <1>6
<1>8. ASSUME NEW i \in Hits(ids), NEW j \in Hits(ids),
             ~Build(ids[i].pk, before(i)).real, ~Build(ids[j].pk, before(j)).real,
             Build(ids[i].pk, before(i)).index = Build(ids[j].pk, before(j)).index
      PROVE  i = j
  <2>1. AutoStart + before(i) = AutoStart + before(j)
    BY <1>1, <1>6, <1>8
  <2>2. before(i) = before(j)
    BY <1>1, <2>1, ClAssumption
  <2> QED
    BY <1>2, <2>2
<1>9. Apart(FromStore(ids))
  <2>1. \A a \in FromStore(ids) : a.real => a.index = UpIndex[a.pk]
    BY <1>1, <1>3, <1>6
  <2>2. \A a \in FromStore(ids) : ~a.real => a.index >= AutoStart
    <3>1. \A n \in Nat : AutoStart + n >= AutoStart
      BY ClAssumption
    <3> QED
      BY <1>1, <1>3, <1>6, <3>1
  <2>3. \A a, b \in FromStore(ids) : ~a.real /\ ~b.real /\ a.index = b.index => a.pk = b.pk
    BY <1>3, <1>8
  <2> QED
    BY <2>1, <2>2, <2>3 DEF Apart
<1> QED
  BY <1>7, <1>9

-----------------------------------------------------------------------------
(* The invariant.                                                          *)

\* The empty entry, and what a restore makes of a well-typed file.
LEMMA StoreTypes ==
  /\ None \in Entry \cup {None} /\ None.status = "none" /\ None.index = NoIndex
  /\ Empty \in Store
  /\ \A f \in File : f.data \in Store /\ Restored(f) \in Store
  /\ \A p \in Pubkey : UpIndex[p] \in Nat /\ UpIndex[p] # NoIndex
<1>1. \A p \in Pubkey : UpIndex[p] \in Nat
  BY ClAssumption
<1>2. Empty \in Store
  BY DEF Empty, Store
<1>3. \A f \in File : f.data \in Store
  BY <1>2 DEF File
<1>4. \A f \in File : Restored(f) \in Store
  BY <1>3 DEF Restored, Store
<1> QED
  BY <1>1, <1>2, <1>3, <1>4 DEF None, NoIndex

\* The mock starts with nothing configured and nothing asked.
LEMMA InitInvariant == Init => IInv
<1> SUFFICES ASSUME Init PROVE IInv
  OBVIOUS
<1>1. TypeOK
  <2>1. file \in File
    BY StoreTypes DEF Init, File
  <2>2. wait \in [Request -> [missing : SUBSET Id, data : SUBSET Item]]
    BY DEF Init, NotWaiting
  <2> QED
    BY <2>1, <2>2, StoreTypes DEF Init, TypeOK
<1>2. Provenance
  BY StoreTypes DEF Init, Provenance, Empty
<1>3. ConfiguredStays /\ NotAskedByKey
  BY DEF Init, ConfiguredStays, NotAskedByKey
<1>4. AnswersApart
  BY DEF Init, AnswersApart, Apart, NotWaiting
<1> QED
  BY <1>1, <1>2, <1>3, <1>4 DEF IInv

\* The admin routes.
LEMMA AdminStep ==
  ASSUME IInv,
         \/ \E batch \in Posts : AdminPost(batch)
         \/ \E S \in SUBSET Pubkey : AdminDelete(S)
  PROVE  IInv'
<1>1. UNCHANGED <<file, wait, response>>
  BY DEF AdminPost, AdminDelete
<1>2. AnswersApart'
  BY <1>1 DEF IInv, AnswersApart, Apart
<1>3. CASE \E batch \in Posts : AdminPost(batch)
  <2> PICK batch \in Posts : AdminPost(batch)
    BY <1>3
  <2> DEFINE accepted == { p \in Pubkey : At(batch, p) # {} }
  <2>0. \A p \in Pubkey : store'[p] =
          IF p \in accepted
            THEN [status |-> batch[LastAt(batch, p)].status, index |-> NoIndex]
            ELSE store[p]
    BY DEF AdminPost
  <2>1. /\ \A p \in accepted : /\ store'[p].index = NoIndex
                               /\ store'[p].status = batch[LastAt(batch, p)].status
        /\ \A p \in Pubkey \ accepted : store'[p] = store[p]
    <3>1. ASSUME NEW p \in Pubkey, p \in accepted
          PROVE  store'[p] = [status |-> batch[LastAt(batch, p)].status, index |-> NoIndex]
      BY <2>0, <3>1
    <3>2. ASSUME NEW p \in Pubkey, p \notin accepted PROVE store'[p] = store[p]
      BY <2>0, <3>2
    <3>3. accepted \subseteq Pubkey
      OBVIOUS
    <3> HIDE DEF accepted
    <3>4. ASSUME NEW p \in Pubkey, p \in accepted
          PROVE  /\ store'[p].index = NoIndex
                 /\ store'[p].status = batch[LastAt(batch, p)].status
      <4>1. store'[p] = [status |-> batch[LastAt(batch, p)].status, index |-> NoIndex]
        BY <3>1, <3>4
      <4> QED
        BY <4>1
    <3> QED
      BY <3>2, <3>3, <3>4
  <2>2. \A p \in accepted : batch[LastAt(batch, p)].status \in Status
    BY PostedEntry
  <2>3. confirmed' = confirmed \cup (accepted \ Pending)
    BY DEF AdminPost
  <2>4. store' \in Store
    <3>1. \A p \in Pubkey : store[p] \in Entry \cup {None}
      BY DEF IInv, TypeOK, Store
    <3>2. \A p \in accepted :
            [status |-> batch[LastAt(batch, p)].status, index |-> NoIndex] \in Entry
      BY <2>2 DEF Entry
    <3>3. \A p \in Pubkey : store'[p] \in Entry \cup {None}
      BY <2>0, <3>1, <3>2
    <3> QED
      BY <3>3 DEF AdminPost, Store
  <2> HIDE DEF accepted
  <2>5. accepted \subseteq Pubkey
    BY DEF accepted
  <2>6. TypeOK'
    BY <1>1, <2>3, <2>4, <2>5 DEF IInv, TypeOK
  <2>7. Provenance'
    BY <1>1, <2>1 DEF IInv, Provenance
  <2>8. ConfiguredStays'
    <3>1. \A p \in accepted : p \in Configured(store')
      BY <2>1, <2>2, <2>5, ClAssumption DEF Configured, Has
    <3>2. \A p \in confirmed \ accepted : p \in Configured(store')
      BY <2>1 DEF IInv, ConfiguredStays, Configured, Has
    <3> QED
      BY <2>3, <3>1, <3>2 DEF ConfiguredStays
  <2>9. NotAskedByKey'
    BY <1>1, <2>3, <2>5 DEF IInv, NotAskedByKey, Pending, ById
  <2> QED
    BY <1>2, <2>6, <2>7, <2>8, <2>9 DEF IInv
<1>4. CASE \E S \in SUBSET Pubkey : AdminDelete(S)
  <2> PICK S \in SUBSET Pubkey : AdminDelete(S)
    BY <1>4
  <2>1. store' \in Store
    BY StoreTypes DEF AdminDelete, IInv, TypeOK, Store
  <2>2. TypeOK'
    BY <1>1, <2>1 DEF IInv, TypeOK, AdminDelete
  <2>3. Provenance'
    BY <1>1, StoreTypes DEF IInv, Provenance, AdminDelete
  <2>4. ConfiguredStays' /\ NotAskedByKey'
    BY <1>1 DEF IInv, ConfiguredStays, Configured, Has, NotAskedByKey, AdminDelete
  <2> QED
    BY <1>2, <2>2, <2>3, <2>4 DEF IInv
<1> QED
  BY <1>3, <1>4

\* Queries answered from the store, and queries that start to wait.
LEMMA QueryStep ==
  ASSUME IInv, NEW ids \in Asks,
         QueryHit(ids) \/ \E r \in Request : Query(r, ids)
  PROVE  IInv'
<1>1. UNCHANGED <<store, file, confirmed>>
  BY DEF QueryHit, Query
<1>2. FromStore(ids) \in SUBSET Item /\ Apart(FromStore(ids))
  BY FromStoreApart
<1>3. Provenance' /\ ConfiguredStays'
  BY <1>1 DEF IInv, Provenance, ConfiguredStays, Configured, Has
<1>4. CASE QueryHit(ids)
  <2>1. TypeOK'
    BY <1>1, <1>2, <1>4 DEF IInv, TypeOK, QueryHit
  <2>2. NotAskedByKey'
    BY <1>1, <1>4 DEF IInv, NotAskedByKey, QueryHit
  <2>3. AnswersApart'
    <3>1. response' = FromStore(ids) /\ wait' = wait
      BY <1>4 DEF QueryHit
    <3> QED
      BY <1>2, <3>1 DEF IInv, AnswersApart, Apart
  <2> QED
    BY <1>3, <2>1, <2>2, <2>3 DEF IInv
<1>5. CASE \E r \in Request : Query(r, ids)
  <2> PICK r \in Request : Query(r, ids)
    BY <1>5
  <2>1. wait' = [wait EXCEPT ![r] = [missing |-> Missing(ids), data |-> FromStore(ids)]]
        /\ response' = response
    BY DEF Query
  <2>2. ids \in Seq(Id)
    BY ClAssumption
  <2>3. Missing(ids) \in SUBSET Id
    BY <2>2 DEF Missing
  <2>4. TypeOK'
    BY <1>1, <1>2, <2>1, <2>3 DEF IInv, TypeOK
  <2>5. \A q \in Request : wait'[q] =
          IF q = r THEN [missing |-> Missing(ids), data |-> FromStore(ids)] ELSE wait[q]
    BY <2>1 DEF IInv, TypeOK
  <2>6. NotAskedByKey'
    \* A configured validator named by its key is a hit.
    <3>1. \A p \in confirmed : [pk |-> p, by |-> "pubkey"] \notin Missing(ids)
      BY DEF IInv, ConfiguredStays, Configured, Missing, Hits
    <3>2. \A q \in Request : wait'[q].missing \in {Missing(ids), wait[q].missing}
      BY <2>5
    <3> QED
      BY <1>1, <3>1, <3>2 DEF IInv, NotAskedByKey
  <2>7. AnswersApart'
    <3>1. Apart(response')
      BY <2>1 DEF IInv, AnswersApart, Apart
    <3>2. \A q \in Request : Apart(wait'[q].data)
      BY <1>2, <2>5 DEF IInv, AnswersApart
    <3> QED
      BY <3>1, <3>2 DEF AnswersApart, Apart
  <2> QED
    BY <1>3, <2>4, <2>6, <2>7 DEF IInv
<1> QED
  BY <1>4, <1>5

\* The upstream's answers, and the queries it leaves unanswered.
LEMMA AnswerStep ==
  ASSUME IInv, NEW r \in Request,
         Unanswered(r) \/ \E reply \in Reply(r) : Answer(r, reply)
  PROVE  IInv'
<1>1. wait' = [wait EXCEPT ![r] = NotWaiting] /\ file' = file
  BY DEF Unanswered, Answer
<1>2. \A q \in Request : wait'[q] = IF q = r THEN NotWaiting ELSE wait[q]
  BY <1>1 DEF IInv, TypeOK
<1>3. wait' \in [Request -> [missing : SUBSET Id, data : SUBSET Item]]
  BY <1>1 DEF IInv, TypeOK, NotWaiting
<1>4. \A q \in Request : wait'[q].missing \subseteq wait[q].missing
  BY <1>2 DEF NotWaiting
<1>5. \A q \in Request : Apart(wait'[q].data)
  <2>1. Apart(NotWaiting.data)
    BY DEF Apart, NotWaiting
  <2> QED
    BY <1>2, <2>1 DEF IInv, AnswersApart
<1>6. wait[r].data \in SUBSET Item /\ Apart(wait[r].data)
  BY DEF IInv, TypeOK, AnswersApart
<1>7. CASE Unanswered(r)
  <2>1. response' = wait[r].data /\ UNCHANGED <<store, confirmed>>
    BY <1>7 DEF Unanswered
  <2>2. TypeOK'
    BY <1>1, <1>3, <1>6, <2>1 DEF IInv, TypeOK
  <2>3. Provenance' /\ ConfiguredStays' /\ NotAskedByKey'
    BY <1>1, <1>4, <2>1 DEF IInv, Provenance, ConfiguredStays, Configured, Has, NotAskedByKey
  <2>4. AnswersApart'
    BY <1>5, <1>6, <2>1 DEF AnswersApart, Apart
  <2> QED
    BY <2>2, <2>3, <2>4 DEF IInv
<1>8. CASE \E reply \in Reply(r) : Answer(r, reply)
  <2> PICK reply \in Reply(r) : Answer(r, reply)
    BY <1>8
  <2> DEFINE found == { p \in DOMAIN reply : reply[p] # "none" }
             items == { [pk |-> p, index |-> UpIndex[p], real |-> TRUE] : p \in found }
             entry(p) == [status |-> reply[p], index |-> UpIndex[p]]
  <2>1. /\ store' = [p \in Pubkey |-> IF p \in found THEN entry(p) ELSE store[p]]
        /\ response' = wait[r].data \cup items
        /\ confirmed' = confirmed \ AskedByIndex(r)
    BY DEF Answer
  <2>2. Asked(r) \subseteq Pubkey
    BY DEF Asked, IInv, TypeOK, Id
  <2>3. found \subseteq Asked(r) /\ \A p \in found : reply[p] \in Status
    BY DEF Reply
  <2> HIDE DEF found
  <2>4. \A p \in found : entry(p) \in Entry
    BY <2>2, <2>3, StoreTypes DEF Entry
  <2>5. store' \in Store
    <3>1. \A p \in Pubkey : store[p] \in Entry \cup {None}
      BY DEF IInv, TypeOK, Store
    <3> HIDE DEF entry
    <3> QED
      BY <2>1, <2>4, <3>1 DEF Store
  <2>6. items \in SUBSET Item
    <3>1. ASSUME NEW p \in found
          PROVE  [pk |-> p, index |-> UpIndex[p], real |-> TRUE] \in Item
      BY <2>2, <2>3, StoreTypes DEF Item
    <3> QED
      BY <3>1
  <2>7. TypeOK'
    <3> HIDE DEF items
    <3> QED
      BY <1>1, <1>3, <1>6, <2>1, <2>5, <2>6 DEF IInv, TypeOK
  <2>8. Provenance'
    <3>1. \A p \in Pubkey : store'[p].index \in {store[p].index, UpIndex[p]}
      BY <2>1
    <3> QED
      BY <1>1, <3>1 DEF IInv, Provenance
  <2>9. ConfiguredStays'
    \* What the answer replaces was asked for by index, or is not configured.
    <3>1. ASSUME NEW p \in confirmed', p \in Asked(r)
          PROVE  FALSE
      <4>1. PICK id \in wait[r].missing : id.pk = p
        BY <3>1 DEF Asked
      <4>2. id.by # "index"
        BY <2>1, <4>1 DEF AskedByIndex
      <4>3. id = [pk |-> p, by |-> "pubkey"]
        BY <4>1, <4>2 DEF IInv, TypeOK, Id, ById
      <4> QED
        BY <2>1, <4>1, <4>3 DEF IInv, NotAskedByKey
    <3>2. \A p \in confirmed' : p \in Pubkey /\ store'[p] = store[p]
      BY <2>1, <2>3, <3>1 DEF IInv, TypeOK
    <3> QED
      BY <2>1, <3>2 DEF IInv, ConfiguredStays, Configured, Has
  <2>10. NotAskedByKey'
    BY <1>4, <2>1 DEF IInv, NotAskedByKey
  <2>11. AnswersApart'
    <3>1. \A a \in items : a.real /\ a.index = UpIndex[a.pk]
      OBVIOUS
    <3> HIDE DEF items
    <3>2. Apart(wait[r].data \cup items)
      BY <1>6, <3>1 DEF Apart
    <3>3. Apart(response')
      BY <2>1, <3>2
    <3> QED
      BY <1>5, <3>3 DEF AnswersApart, Apart
  <2> QED
    BY <2>7, <2>8, <2>9, <2>10, <2>11 DEF IInv
<1> QED
  BY <1>7, <1>8

\* Saving, loading and restarting.
LEMMA StateStep ==
  ASSUME IInv, Save \/ Load \/ Restart
  PROVE  IInv'
<1>1. response' = response
  BY DEF Save, Load, Restart
<1>2. \A p \in Pubkey : Restored(file)[p].index \in {NoIndex, UpIndex[p]}
  BY StoreTypes DEF IInv, Provenance, Restored
<1>3. CASE Save
  <2>1. file' \in File
    BY <1>3 DEF IInv, TypeOK, Save, File
  <2>2. file'.data = store /\ UNCHANGED <<store, wait, response, confirmed>>
    BY <1>3 DEF Save
  <2>3. TypeOK'
    BY <2>1, <2>2 DEF IInv, TypeOK
  <2>4. Provenance'
    BY <2>2 DEF IInv, Provenance
  <2>5. ConfiguredStays' /\ NotAskedByKey' /\ AnswersApart'
    BY <2>2 DEF IInv, ConfiguredStays, Configured, Has, NotAskedByKey, AnswersApart, Apart
  <2> QED
    BY <2>3, <2>4, <2>5 DEF IInv
<1>4. CASE Load \/ Restart
  <2>1. store' = Restored(file) /\ file' = file
    BY <1>4 DEF Load, Restart
  <2>2. store' \in Store
    BY <2>1, StoreTypes DEF IInv, TypeOK
  <2>3. confirmed' \in SUBSET Pubkey /\ ConfiguredStays'
    BY <1>4 DEF Load, Restart, Configured, ConfiguredStays
  <2>4. wait' \in [Request -> [missing : SUBSET Id, data : SUBSET Item]]
    BY <1>4 DEF IInv, TypeOK, Load, Restart, NotWaiting
  <2>5. TypeOK'
    BY <1>1, <2>1, <2>2, <2>3, <2>4 DEF IInv, TypeOK
  <2>6. Provenance'
    BY <1>2, <2>1 DEF IInv, Provenance
  <2>7. NotAskedByKey' /\ AnswersApart'
    <3>1. CASE Load
      BY <1>1, <3>1 DEF IInv, Load, Pending, ById, NotAskedByKey, AnswersApart, Apart,
                        Configured
    <3>2. CASE Restart
      BY <1>1, <3>2 DEF IInv, Restart, NotWaiting, NotAskedByKey, AnswersApart, Apart
    <3> QED
      BY <1>4, <3>1, <3>2
  <2> QED
    BY <2>3, <2>5, <2>6, <2>7 DEF IInv
<1> QED
  BY <1>3, <1>4

\* Every step preserves the invariant.
LEMMA InvariantStep == IInv /\ [Next]_vars => IInv'
<1> SUFFICES ASSUME IInv, [Next]_vars PROVE IInv'
  OBVIOUS
<1>1. ASSUME \/ \E batch \in Posts : AdminPost(batch)
             \/ \E p \in Pubkey : AdminDelete({p})
             \/ AdminDelete(Pubkey)
      PROVE  IInv'
  <2>1. \A p \in Pubkey : {p} \in SUBSET Pubkey
    OBVIOUS
  <2> QED
    BY <1>1, <2>1, AdminStep
<1>2. ASSUME NEW ids \in Asks, QueryHit(ids) \/ \E r \in Request : Query(r, ids)
      PROVE  IInv'
  BY <1>2, QueryStep
<1>3. ASSUME NEW r \in Request, Unanswered(r) \/ \E reply \in Reply(r) : Answer(r, reply)
      PROVE  IInv'
  BY <1>3, AnswerStep
<1>4. CASE Save \/ Load \/ Restart
  BY <1>4, StateStep
<1>5. CASE UNCHANGED vars
  BY <1>5 DEF IInv, TypeOK, Provenance, ConfiguredStays, Configured, Has, NotAskedByKey,
              AnswersApart, Apart, vars
<1> QED
  BY <1>1, <1>2, <1>3, <1>4, <1>5 DEF Next

-----------------------------------------------------------------------------
\* The strengthening holds in every reachable state.
THEOREM Invariance == Spec => []IInv
BY InitInvariant, InvariantStep, PTL DEF Spec

\* The store, the file, the queries in flight and the answers keep their types.
THEOREM TypeCorrect == Spec => []TypeOK
<1>1. IInv => TypeOK
  BY DEF IInv
<1> QED
  BY <1>1, Invariance, PTL

\* Whatever is asked and answered meanwhile, a validator configured with no
\* query for it in flight stays configured until it is deleted, reloaded or
\* asked for by its index.
THEOREM ConfiguredValidatorsStay == Spec => []ConfiguredStays
<1>1. IInv => ConfiguredStays
  BY DEF IInv
<1> QED
  BY <1>1, Invariance, PTL

\* Two validators of one answer share an index only where a real index has
\* reached the automatic ones.
THEOREM ValidatorsCanBeToldApart == Spec => []IndicesTellApart
<1>1. ASSUME IInv, NEW a \in response, NEW b \in response, a.index = b.index, a.pk # b.pk
      PROVE  \E x \in {a, b} : x.real /\ x.index >= AutoStart
  <2>1. a.pk \in Pubkey /\ b.pk \in Pubkey /\ a.real \in BOOLEAN /\ b.real \in BOOLEAN
    BY <1>1 DEF IInv, TypeOK, Item
  <2>2. Apart(response)
    BY <1>1 DEF IInv, AnswersApart
  <2>3. CASE a.real /\ b.real
    BY <1>1, <2>1, <2>2, <2>3, ClAssumption DEF Apart
  <2>4. CASE ~a.real /\ ~b.real
    BY <1>1, <2>2, <2>4 DEF Apart
  <2>5. CASE a.real # b.real
    <3>1. a.index >= AutoStart
      BY <1>1, <2>1, <2>2, <2>5 DEF Apart
    <3> QED
      BY <1>1, <2>1, <2>5, <3>1
  <2> QED
    BY <2>1, <2>3, <2>4, <2>5
<1>2. IInv => IndicesTellApart
  BY <1>1 DEF IndicesTellApart
<1> QED
  BY <1>2, Invariance, PTL
=============================================================================
