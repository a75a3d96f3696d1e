-------------------------- MODULE StateFile_proofs --------------------------
(***************************************************************************)
(* Proofs about StateFile for all keys, values and connections: type       *)
(* correctness, what a graceful shutdown can lose, and the refinement of   *)
(* DurableState.                                                           *)
(***************************************************************************)
EXTENDS StateFile, TLAPS

\* A stopped process has nothing in memory and nothing in flight.
DownIsEmpty == proc = "down" => mem = Empty /\ inflight = {} /\ kept = {}

\* A save has a caller, which fixes what the process is doing; the shutdown
\* closure has just cleared late, and no handler runs until its save is over.
SaveHasCaller ==
  /\ by = "none" <=> io = "idle"
  /\ by = "route" => proc # "down"
  /\ by = "shutdown" => proc \in {"up", "closing"} /\ late = {}

\* Memory does not change between the write and the rename.
WrittenIsCurrent == io = "written" => tmp = Json(mem)

\* Once the closure has saved, what the file and the store differ in is late, also
\* while a request saves again, until the closure runs again.
SavedThen ==
  proc = "closing" /\ by # "shutdown" /\ lastSave = "ok" =>
    /\ file.kind = "json"
    /\ Differ(file.data, mem) \subseteq late

\* The inductive invariant.
IInv ==
  /\ TypeOK
  /\ DownIsEmpty
  /\ SaveHasCaller
  /\ WrittenIsCurrent
  /\ SavedThen

-----------------------------------------------------------------------------
\* What the files may hold is a File.
LEMMA FileTypes ==
  /\ Empty \in Store
  /\ NoFile \in File
  /\ Torn \in File
  /\ \A s \in Store : Json(s) \in File
  /\ \A f \in File : f.data \in Store
BY DEF File, NoFile, Torn, Json, Store, Empty

\* Where a store ends up different, it was different or has just been changed.
LEMMA DifferStep ==
  \A s, t, u : Differ(s, u) \subseteq Differ(s, t) \cup Differ(t, u)
BY DEF Differ

\* A started service has read nothing, written nothing and saved nothing.
LEMMA InitInvariant == Init => IInv
BY FileTypes DEF Init, IInv, TypeOK, DownIsEmpty, SaveHasCaller, WrittenIsCurrent,
                 SavedThen

\* Every step preserves the types.
LEMMA TypeStep == TypeOK /\ [Next]_vars => TypeOK'
<1> SUFFICES ASSUME TypeOK, [Next]_vars PROVE TypeOK'
  OBVIOUS
<1> USE FileTypes
<1>1. CASE Boot
  BY <1>1 DEF Boot, TypeOK, disks, history
<1>2. ASSUME NEW c \in Connection, Begin(c) \/ Finish(c) \/ GiveUp(c) \/ HangUp(c)
      PROVE  TypeOK'
  BY <1>2 DEF Begin, Finish, GiveUp, HangUp, Change, Differ, TypeOK, disks, history
<1>3. CASE Mutate \/ SaveRoute \/ LoadRoute \/ ShutdownRoute
  BY <1>3 DEF Mutate, SaveRoute, LoadRoute, ShutdownRoute, Change, Differ, TypeOK, disks, history
<1>4. CASE OpenTmp \/ WriteTmp
  BY <1>4 DEF OpenTmp, WriteTmp, Saving, TypeOK, history
<1>5. CASE Rename \/ Fail
  BY <1>5 DEF Rename, Fail, Outcome, Done, TypeOK, disks
<1>6. CASE TimerFires \/ Signal
  BY <1>6 DEF TimerFires, Signal, Shutdown, TypeOK, disks
<1>7. CASE Exit \/ Crash
  BY <1>7 DEF Exit, Crash, Stopped, TypeOK, disks
<1>8. CASE UNCHANGED vars
  BY <1>8 DEF vars, TypeOK, disks, history
<1> QED
  BY <1>1, <1>2, <1>3, <1>4, <1>5, <1>6, <1>7, <1>8 DEF Next

\* Every step preserves the strengthening.
LEMMA InvariantStep == IInv /\ [Next]_vars => IInv'
<1> SUFFICES ASSUME IInv, [Next]_vars PROVE IInv'
  OBVIOUS
<1>1. TypeOK /\ TypeOK'
  BY TypeStep DEF IInv
<1> DEFINE Rest == DownIsEmpty /\ SaveHasCaller /\ WrittenIsCurrent /\ SavedThen
<1> SUFFICES Rest'
  BY <1>1 DEF IInv
<1>2. Rest
  BY DEF IInv
<1> USE DEF DownIsEmpty, SaveHasCaller, WrittenIsCurrent, SavedThen, Idle
<1>3. CASE Boot
  BY <1>1, <1>2, <1>3 DEF Boot, disks, history, TypeOK
<1>4. ASSUME NEW c \in Connection, Begin(c) \/ GiveUp(c) \/ HangUp(c)
      PROVE  Rest'
  BY <1>2, <1>4 DEF Begin, GiveUp, HangUp, Requested, Serving, disks, history
<1>5. ASSUME NEW c \in Connection, Mutate \/ Finish(c) \/ LoadRoute
      PROVE  Rest'
  <2>1. /\ proc # "down" /\ io = "idle" /\ Change
        /\ UNCHANGED <<proc, kept, io, by, disks, lastSave>>
    BY <1>5 DEF Mutate, Finish, LoadRoute, Asked, Requested, Serving
  <2>2. SavedThen'
    <3>1. CASE proc = "closing" /\ lastSave = "ok"
      <4>1. late' = late \cup Differ(mem, mem')
        BY <2>1, <3>1 DEF Change
      <4>2. file.kind = "json" /\ Differ(file.data, mem) \subseteq late
        BY <1>2, <2>1, <3>1
      <4>3. Differ(file.data, mem') \subseteq Differ(file.data, mem) \cup Differ(mem, mem')
        BY DifferStep
      <4> QED
        BY <2>1, <4>1, <4>2, <4>3 DEF disks
    <3>2. CASE ~(proc = "closing" /\ lastSave = "ok")
      BY <2>1, <3>2
    <3> QED
      BY <3>1, <3>2
  <2> QED
    BY <1>2, <2>1, <2>2 DEF disks
<1>6. CASE SaveRoute \/ ShutdownRoute
  BY <1>2, <1>6 DEF SaveRoute, ShutdownRoute, Asked, Requested, Serving, disks, history
<1>7. CASE OpenTmp \/ WriteTmp
  BY <1>2, <1>7 DEF OpenTmp, WriteTmp, Saving, history
<1>8. CASE Rename
  <2>1. file' = Json(mem) /\ mem' = mem /\ io' = "idle" /\ by' = "none" /\ late' = late
    BY <1>2, <1>8 DEF Rename, Done
  <2>2. SavedThen'
    <3>1. Differ(mem, mem) = {} /\ Json(mem).kind = "json" /\ Json(mem).data = mem
      BY DEF Differ, Json
    <3> QED
      BY <2>1, <3>1
  <2>3. (DownIsEmpty /\ SaveHasCaller /\ WrittenIsCurrent)'
    <3>1. proc # "down" /\ proc' # "down"
      BY <1>1, <1>2, <1>8 DEF Rename, Done, TypeOK
    <3> QED
      BY <1>2, <1>8, <2>1, <3>1 DEF Rename, Done
  <2> QED
    BY <2>2, <2>3
<1>9. CASE Fail
  \* The route leaves the process as it is; the shutdown closure has not saved.
  <2>1. CASE by = "shutdown"
    BY <1>2, <1>9, <2>1 DEF Fail, Outcome, Done, disks
  <2>2. CASE by # "shutdown"
    BY <1>1, <1>2, <1>9, <2>2 DEF Fail, Outcome, Done, disks, TypeOK
  <2> QED
    BY <2>1, <2>2
<1>10. CASE TimerFires \/ Signal
  BY <1>1, <1>2, <1>10 DEF TimerFires, Signal, Shutdown, Serving, TypeOK, disks
<1>11. CASE Exit \/ Crash
  BY <1>2, <1>11 DEF Exit, Crash, Stopped, disks
<1>12. CASE UNCHANGED vars
  BY <1>2, <1>12 DEF vars, disks, history
<1> QED
  BY <1>3, <1>4, <1>5, <1>6, <1>7, <1>8, <1>9, <1>10, <1>11, <1>12 DEF Next, Mutate, LoadRoute, Asked

\* The strengthening holds in every reachable state.
THEOREM Invariance == SafetySpec => []IInv
BY InitInvariant, InvariantStep, PTL DEF SafetySpec

\* The variables of the service keep their types, whatever it stores.
THEOREM TypeCorrect == SafetySpec => []TypeOK
<1>1. IInv => TypeOK
  BY DEF IInv
<1> QED
  BY <1>1, Invariance, PTL

\* A graceful stop with a successful save loses only what requests changed after the
\* shutdown closure ran, though they may replace and remove as well as add.
THEOREM GracefulStopLosesOnlyLateWrites == SafetySpec => []OnlyLateWritesLost
<1>1. IInv => OnlyLateWritesLost
  BY DEF IInv, SavedThen, SaveHasCaller, OnlyLateWritesLost, ReadyToExit, Idle
<1> QED
  BY <1>1, Invariance, PTL

-----------------------------------------------------------------------------
(* The refinement.                                                         *)

\* A service starts as a stopped process beside some file.
LEMMA RefinesInit == Init => Durable!Init
BY DEF Init, File, Store, Empty, Durable!Init, Durable!File, Durable!Store, Durable!Empty

\* Every step is a step of DurableState or leaves what it speaks of alone:
\* only Rename changes the file, to the snapshot of the memory it has then.
LEMMA RefinesStep == IInv /\ [Next]_vars => [Durable!Next]_(Durable!vars)
<1> SUFFICES ASSUME IInv, [Next]_vars PROVE [Durable!Next]_(Durable!vars)
  OBVIOUS
<1> USE FileTypes DEF IInv, Durable!Next, Durable!vars
<1>1. CASE Boot
  <2>1. Durable!Start
    BY <1>1 DEF Boot, disks, Durable!Start
  <2> QED
    BY <2>1
<1>2. ASSUME NEW c \in Connection, Mutate \/ LoadRoute \/ Finish(c)
      PROVE  [Durable!Next]_(Durable!vars)
  <2>1. proc # "down" /\ proc' = proc /\ file' = file /\ mem' \in Store
    BY <1>2 DEF Mutate, LoadRoute, Finish, Change, Asked, Requested, Serving, disks
  <2>2. Durable!Mutate
    BY <2>1 DEF Durable!Mutate, Store, Durable!Store
  <2> QED
    BY <2>2
<1>3. ASSUME NEW c \in Connection, Begin(c) \/ GiveUp(c) \/ HangUp(c)
      PROVE  UNCHANGED <<proc, mem, file>>
  BY <1>3 DEF Begin, GiveUp, HangUp, disks
<1>5. CASE SaveRoute \/ ShutdownRoute \/ OpenTmp \/ WriteTmp \/ TimerFires \/ Signal
  <2>1. UNCHANGED <<proc, mem, file>>
    BY <1>5 DEF SaveRoute, ShutdownRoute, OpenTmp, WriteTmp, Saving,
                TimerFires, Signal, Shutdown, disks
  <2> QED
    BY <2>1
<1>6. CASE Rename
  <2>1. proc # "down" /\ proc' # "down"
    BY <1>6 DEF Rename, Done, SaveHasCaller, TypeOK
  <2>2. file' = Durable!Json(mem) /\ mem' = mem
    BY <1>6 DEF Rename, Done, WrittenIsCurrent, Json, Durable!Json
  <2>3. Durable!Save
    BY <2>1, <2>2 DEF Durable!Save
  <2> QED
    BY <2>3
<1>7. CASE Fail
  <2>1. (proc # "down") = (proc' # "down") /\ UNCHANGED <<mem, file>>
    BY <1>7 DEF Fail, Done, SaveHasCaller, TypeOK, disks, Idle
  <2> QED
    BY <2>1
<1>8. CASE Exit \/ Crash
  <2>1. Durable!Stop
    BY <1>8 DEF Exit, Crash, Stopped, disks, Empty, Durable!Stop, Durable!Empty
  <2> QED
    BY <2>1
<1>9. CASE UNCHANGED vars
  BY <1>9 DEF vars, disks
<1> QED
  BY <1>1, <1>2, <1>3, <1>5, <1>6, <1>7, <1>8, <1>9 DEF Next, Mutate, LoadRoute, Asked

\* The process and its file implement DurableState: a save is atomic for
\* whoever reads the file next, whatever the process dies of and when.
THEOREM Refinement == SafetySpec => ImplementsDurableState
<1>1. SafetySpec => []IInv /\ [][Next]_vars
  BY Invariance, PTL DEF SafetySpec
<1> QED
  BY <1>1, RefinesInit, RefinesStep, PTL DEF SafetySpec, ImplementsDurableState, Durable!Spec
=============================================================================
