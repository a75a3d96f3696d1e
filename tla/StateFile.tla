----------------------------- MODULE StateFile ------------------------------
(***************************************************************************)
(* The life of a service built on packages/core: startServer (server.ts),  *)
(* the save/load routes and the temp-file-and-rename save (state.ts), and  *)
(* POST /admin/shutdown (admin.ts).                                        *)
(*                                                                         *)
(* Node runs one handler at a time, so a save, whose file system calls are *)
(* synchronous, blocks every other handler (Idle guards them all); only    *)
(* the death of the process comes between its steps.  Handlers that await  *)
(* (a body, a digest, an upstream) are split into Begin and Finish, and    *)
(* the shutdown closure may run between the two; they need never end, for  *)
(* most of what they await has no timeout.  server.close ends the          *)
(* connections that have no request in flight; the others may bring more.  *)
(*                                                                         *)
(* The service is started with a state path.  The store is a map, in which *)
(* a handler may add, replace and remove whatever it likes; what the keys  *)
(* and values are is the business of ClMock and IpfsMock.                  *)
(***************************************************************************)
CONSTANTS
  Key, Value,   \* what a store maps
  None,         \* where it has nothing
  Connection    \* what requests come by, one at a time on each

ASSUME StateFileAssumption == None \notin Value

VARIABLES
  proc,      \* "down", "up" (serving) or "closing" (server.close called)
  mem,       \* the service's in-memory store
  inflight,  \* the connections whose handler awaits something
  kept,      \* the connections server.close left open
  timer,     \* a deferred call of the shutdown handler is pending
  io,        \* how far saveStateToFile is: "idle", "begin", "opened", "written"
  by,        \* who called it: "none", "route" or "shutdown"
  file,      \* the state file
  tmp,       \* the temp file beside it
  lastSave,  \* how the save of the last shutdown closure ended (history)
  late       \* keys changed since the last shutdown closure ran (history)

disks == <<file, tmp>>
history == <<lastSave, late>>
vars == <<proc, mem, inflight, kept, timer, io, by, disks, history>>

Store == [Key -> Value \cup {None}]
Empty == [k \in Key |-> None]
Differ(s, t) == {k \in Key : s[k] # t[k]}

\* A file that is not there or does not parse has no data.
File == { f \in [kind : {"absent", "torn", "json"}, data : Store] :
            f.kind # "json" => f.data = Empty }

NoFile == [kind |-> "absent", data |-> Empty]
Torn == [kind |-> "torn", data |-> Empty]
Json(s) == [kind |-> "json", data |-> s]

TypeOK ==
  /\ proc \in {"down", "up", "closing"}
  /\ mem \in Store
  /\ inflight \in SUBSET Connection
  /\ kept \in SUBSET Connection
  /\ timer \in BOOLEAN
  /\ io \in {"idle", "begin", "opened", "written"}
  /\ by \in {"none", "route", "shutdown"}
  /\ file \in File
  /\ tmp \in File
  /\ lastSave \in {"none", "ok", "failed"}
  /\ late \in SUBSET Key

Idle == io = "idle"

\* A handler runs; a request comes in.
Serving == proc # "down" /\ Idle
Requested(c) == Serving /\ c \notin inflight /\ (proc = "up" \/ c \in kept)
Asked == \E c \in Connection : Requested(c)

\* The file may be there from an earlier life, or damaged by hand; so may a
\* temp file that a killed save left behind.
Init ==
  /\ proc = "down"
  /\ mem = Empty /\ inflight = {} /\ kept = {} /\ timer = FALSE
  /\ io = "idle" /\ by = "none"
  /\ file \in File
  /\ tmp \in {NoFile, Torn}
  /\ lastSave = "none" /\ late = {}

-----------------------------------------------------------------------------
(* Boot: restore inside try/catch, then listen (server.ts).                *)

BootRethrows ==   \* the restore without its try/catch
  /\ proc = "down"
  /\ file # Torn
  /\ proc' = "up"
  /\ mem' = file.data
  /\ UNCHANGED <<inflight, kept, timer, io, by, disks, history>>

BootUnchecked ==  \* whatever loadStateFromFile returns handed to the store
  /\ proc = "down"
  /\ proc' = "up"
  /\ mem' = file
  /\ UNCHANGED <<inflight, kept, timer, io, by, disks, history>>

\* A missing file and a malformed one both start an empty store.
Boot ==
  /\ proc = "down"
  /\ proc' = "up"
  /\ mem' = file.data
  /\ UNCHANGED <<inflight, kept, timer, io, by, disks, history>>

-----------------------------------------------------------------------------
(* Requests of the service.                                                *)

\* What a handler does to the store between two awaits is one step.
Change ==
  /\ mem' \in Store
  /\ late' = IF proc = "closing" THEN late \cup Differ(mem, mem') ELSE late

\* A handler that never awaits, or one before it awaits.
Mutate ==
  /\ Asked
  /\ Change
  /\ UNCHANGED <<proc, inflight, kept, timer, io, by, disks, lastSave>>

Begin(c) ==
  /\ Requested(c)
  /\ inflight' = inflight \cup {c}
  /\ UNCHANGED <<proc, mem, kept, timer, io, by, disks, history>>

\* What it awaited has come: it goes on, also while the server is closing.
Finish(c) ==
  /\ Serving
  /\ c \in inflight
  /\ inflight' = inflight \ {c}
  /\ Change
  /\ UNCHANGED <<proc, kept, timer, io, by, disks, lastSave>>

\* Or it ends without touching the store: a bad body, a failed upstream.
GiveUp(c) ==
  /\ Serving
  /\ c \in inflight
  /\ inflight' = inflight \ {c}
  /\ UNCHANGED <<proc, mem, kept, timer, io, by, disks, history>>

\* POST /admin/save
SaveRoute ==
  /\ Asked
  /\ io' = "begin" /\ by' = "route"
  /\ UNCHANGED <<proc, mem, inflight, kept, timer, disks, history>>

\* POST /admin/load; a missing file (404) or a malformed one (500) changes nothing.
LoadRoute ==
  /\ Asked
  /\ file.kind = "json"
  /\ Change /\ mem' = file.data
  /\ UNCHANGED <<proc, inflight, kept, timer, io, by, disks, lastSave>>

\* POST /admin/shutdown: answered now, the handler is called 50 ms later.
ShutdownRoute ==
  /\ Asked
  /\ timer' = TRUE
  /\ UNCHANGED <<proc, mem, inflight, kept, io, by, disks, history>>

-----------------------------------------------------------------------------
(* saveStateToFile: mkdir, open and truncate the temp file, write, rename. *)

Saving == UNCHANGED <<proc, mem, inflight, kept, timer, by, history>>

OpenInPlace ==    \* a save without the temp file
  /\ io = "begin" /\ io' = "opened"
  /\ file' = Torn
  /\ UNCHANGED tmp
  /\ Saving

OpenTmp ==
  /\ io = "begin" /\ io' = "opened"
  /\ tmp' = Torn
  /\ UNCHANGED file
  /\ Saving

WriteTmp ==
  /\ io = "opened" /\ io' = "written"
  /\ tmp' = Json(mem)
  /\ UNCHANGED file
  /\ Saving

\* The route answers; the shutdown closure goes on to server.close.
Done ==
  /\ io' = "idle" /\ by' = "none"
  /\ proc' = IF by = "shutdown" THEN "closing" ELSE proc
  /\ kept' = IF by = "shutdown" THEN (IF proc = "up" THEN inflight ELSE kept \cap inflight)
             ELSE kept
  /\ UNCHANGED <<mem, inflight, timer, late>>

Outcome(o) == lastSave' = IF by = "shutdown" THEN o ELSE lastSave

Rename ==
  /\ io = "written"
  /\ file' = tmp /\ tmp' = NoFile
  /\ Outcome("ok")
  /\ Done

FailRethrows ==   \* the shutdown closure without its try/catch
  /\ ~Idle
  /\ io' = "idle" /\ by' = "none"
  /\ Outcome("failed")
  /\ UNCHANGED <<proc, mem, inflight, kept, timer, late, disks>>

FailUnnoticed ==  \* a failed write taken for a successful one
  /\ ~Idle
  /\ Outcome("ok")
  /\ UNCHANGED disks
  /\ Done

\* Any of the calls throws: the route answers 500, shutdown logs it and goes on.
Fail ==
  /\ ~Idle
  /\ Outcome("failed")
  /\ UNCHANGED disks
  /\ Done

-----------------------------------------------------------------------------
(* Stopping.                                                               *)

\* The closure of startServer; nothing keeps it from running a second time.
Shutdown ==
  /\ Serving
  /\ io' = "begin" /\ by' = "shutdown"
  /\ late' = {}
  /\ UNCHANGED <<proc, mem, inflight, kept, disks, lastSave>>

TimerFires == timer /\ timer' = FALSE /\ Shutdown

Signal == UNCHANGED timer /\ Shutdown

\* SIGKILL, an out-of-memory kill, an unhandled rejection: memory is gone.
Stopped ==
  /\ proc' = "down"
  /\ mem' = Empty /\ inflight' = {} /\ kept' = {} /\ timer' = FALSE
  /\ io' = "idle" /\ by' = "none"
  /\ lastSave' = "none" /\ late' = {}
  /\ UNCHANGED disks

\* A connection ends: its client hangs up, answered or not, or it has been idle too long.
HangUp(c) ==
  /\ c \in kept /\ Idle
  /\ kept' = kept \ {c}
  /\ UNCHANGED <<proc, mem, inflight, timer, io, by, disks, history>>

\* server.close's callback: no connection is left.
Exit ==
  /\ proc = "closing" /\ Idle
  /\ kept = {}
  /\ Stopped

Crash ==
  /\ proc # "down"
  /\ Stopped

-----------------------------------------------------------------------------
SaveStep == OpenTmp \/ WriteTmp \/ Rename \/ Fail

Next ==
  \/ Boot
  \/ Mutate
  \/ \E c \in Connection : Begin(c) \/ Finish(c) \/ GiveUp(c)
  \/ SaveRoute \/ LoadRoute \/ ShutdownRoute
  \/ OpenTmp \/ WriteTmp \/ Rename \/ Fail
  \/ TimerFires \/ Signal
  \/ \E c \in Connection : HangUp(c)
  \/ Exit \/ Crash

(* Somebody starts the service again; a save runs to its end; a pending    *)
(* timer and the drained server are events the loop dispatches although    *)
(* signals and requests keep coming, hence strong fairness.  Nothing is    *)
(* said of handlers and clients: what they await need never come.          *)
Fairness ==
  /\ WF_vars(Boot)
  /\ WF_vars(SaveStep)
  /\ SF_vars(TimerFires)
  /\ SF_vars(Exit)

SafetySpec == Init /\ [][Next]_vars
Spec == SafetySpec /\ Fairness

-----------------------------------------------------------------------------
(* Properties                                                              *)

ReadyToExit == proc = "closing" /\ kept = {} /\ Idle

\* A graceful stop whose save succeeded leaves on disk the whole store but for the
\* keys that requests, already in flight when the closure ran or later, have changed.
OnlyLateWritesLost ==
  ReadyToExit /\ lastSave = "ok" =>
    /\ file.kind = "json"
    /\ Differ(file.data, mem) \subseteq late

\* "saved on graceful shutdown" (apps/cl/README.md:19): when the process is
\* about to exit, the file it saved is the store.
SavedOnGracefulShutdown ==
  ReadyToExit /\ inflight = {} /\ lastSave = "ok" => file = Json(mem)

\* Whoever asks for a shutdown gets one, also when the save fails, provided that the
\* connections left open end: the code does not see to that, as a stalled upstream or
\* a client that never sends its body keeps server.close waiting.
ShutdownTerminates ==
  []<>(kept = {}) => ((timer \/ by = "shutdown") ~> (proc = "down"))

\* "A corrupt or truncated file must not prevent the server from starting"
\* (server.ts:33): a stopped service serves again whatever the file holds.
AlwaysServesAgain == (proc = "down") ~> (proc = "up")

\* The process and its file are a DurableState: no step of a save, and no
\* crash inside one, is ever seen as anything but all or nothing.
Durable == INSTANCE DurableState WITH up <- proc # "down", disk <- file

ImplementsDurableState == Durable!Spec
=============================================================================
