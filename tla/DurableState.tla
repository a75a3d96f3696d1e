---------------------------- MODULE DurableState ----------------------------
(***************************************************************************)
(* What packages/core promises its services: a process whose memory is     *)
(* lost when it stops, beside a snapshot on disk that changes only from    *)
(* one complete snapshot to the next ("The write is atomic", state.ts:8)   *)
(* and that a start or a load brings back.  StateFile implements it.       *)
(***************************************************************************)
CONSTANTS
  Key, Value,   \* what the in-memory store of a service maps
  None          \* where it has nothing

VARIABLES
  up,       \* the process is running
  mem,      \* its store
  disk      \* the snapshot a start would find

vars == <<up, mem, disk>>

Store == [Key -> Value \cup {None}]
Empty == [k \in Key |-> None]

\* A file that is not there or does not parse has no data.
File == { f \in [kind : {"absent", "torn", "json"}, data : Store] :
            f.kind # "json" => f.data = Empty }

Json(s) == [kind |-> "json", data |-> s]

Init ==
  /\ up = FALSE
  /\ mem = Empty
  /\ disk \in File

\* A missing or malformed snapshot is an empty store.
Start ==
  /\ ~up
  /\ up' = TRUE
  /\ mem' = disk.data
  /\ UNCHANGED disk

\* One operation on the store, or a load of the snapshot.
Mutate ==
  /\ up
  /\ mem' \in Store
  /\ UNCHANGED <<up, disk>>

Save ==
  /\ up
  /\ disk' = Json(mem)
  /\ UNCHANGED <<up, mem>>

Stop ==
  /\ up
  /\ up' = FALSE
  /\ mem' = Empty
  /\ UNCHANGED disk

Next == Start \/ Mutate \/ Save \/ Stop

Spec == Init /\ [][Next]_vars
=============================================================================
