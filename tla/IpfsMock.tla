------------------------------ MODULE IpfsMock ------------------------------
(***************************************************************************)
(* The Pinata/IPFS emulator of apps/ipfs started with --persist, with or   *)
(* without --state: PinStore and its file mirror (store.ts), the pinning   *)
(* routes (pinning.ts), the gateway that proxies and caches (gateway.ts)   *)
(* and the boot that replays the mirror and then restores the state file   *)
(* over it (app.ts, server.ts).                                            *)
(*                                                                         *)
(* A handler that changes the store takes CIDs in turn, changes memory and *)
(* then makes its file system calls one by one; while any is left no other *)
(* handler runs, but the process can die or the disk can refuse a write.   *)
(* The state file itself is a DurableState.                                *)
(*                                                                         *)
(* Bytes are "own" (those whose CID it is) or "cut" (a prefix that a write *)
(* left); an upstream gateway is taken to answer with the right bytes, as  *)
(* the code does.  Of a pin's metadata the model keeps where it came from: *)
(* a pinning request, which may name it, or the proxy, which does not.     *)
(***************************************************************************)
CONSTANTS
  Cid,      \* the content identifiers
  NoCid,
  Request   \* requests to the gateway that may be in flight at the same time

ASSUME IpfsMockAssumption == NoCid \notin Cid

VARIABLES
  useState,   \* started with --state beside --persist
  up,         \* the process runs
  pins,       \* PinStore's map
  bin,        \* <dir>/<cid>.bin
  json,       \* <dir>/<cid>.json
  file,       \* the state file
  erase,      \* CIDs the running handler has yet to delete
  write,      \* what it will then set
  step,       \* step[c]: its next file system call, on c
  fetching,   \* fetching[r]: the CID the gateway fetches upstream for r
  broken,     \* CIDs whose mirroring failed while memory went on (history)
  settled,    \* settled[c]: the last pin or unpin of c that ended (history)
  named       \* CIDs pinned with no fetch of them in flight (history)

disk == <<bin, json>>
work == <<erase, write, step>>
history == <<broken, settled, named>>
vars == <<useState, up, pins, disk, file, work, fetching, history>>

Bytes == {"own", "cut"}
Meta == {"pinned", "proxied"}
Pin == [data : Bytes, meta : Meta]
NoPin == [data |-> "none", meta |-> "none"]
Unsettled == [data |-> "any", meta |-> "any"]   \* an operation on it did not end
Pins == [Cid -> Pin \cup {NoPin}]
NoPins == [c \in Cid |-> NoPin]

File == [kind : {"json"}, data : Pins] \cup [kind : {"absent", "torn"}, data : {NoPins}]

\* delete(): rmSync twice; persist(): writeFileSync twice, each of which
\* truncates the file before it writes it.
Call == {"rmBin", "rmJson", "cutBin", "writeBin", "cutJson", "writeJson"}

TypeOK ==
  /\ useState \in BOOLEAN /\ up \in BOOLEAN
  /\ pins \in Pins
  /\ bin \in [Cid -> Bytes \cup {"none"}]
  /\ json \in [Cid -> Meta \cup {"cut", "none"}]
  /\ file \in File
  /\ erase \in SUBSET Cid
  /\ write \in Pins
  /\ step \in [Cid -> Call \cup {"none"}]
  /\ fetching \in [Request -> Cid \cup {NoCid}]
  /\ broken \in SUBSET Cid
  /\ settled \in [Cid -> Pin \cup {NoPin, Unsettled}]
  /\ named \in SUBSET Cid

NoStep == [c \in Cid |-> "none"]
NoFetch == [r \in Request |-> NoCid]

Init ==
  /\ useState \in BOOLEAN
  /\ up = FALSE
  /\ pins = NoPins
  /\ bin = [c \in Cid |-> "none"] /\ json = [c \in Cid |-> "none"]
  /\ file = [kind |-> "absent", data |-> NoPins]
  /\ erase = {} /\ write = NoPins /\ step = NoStep
  /\ fetching = NoFetch
  /\ broken = {} /\ settled = NoPins /\ named = {}

Has(m, c) == m[c] # NoPin
InFlight == { c \in Cid : \E r \in Request : fetching[r] = c }

-----------------------------------------------------------------------------
(* PinStore: what a running handler still has to do.                       *)

Ready == up /\ step = NoStep

TakeEraseMapOnly(c) ==   \* the mirror left alone
  /\ Ready /\ c \in erase
  /\ erase' = erase \ {c}
  /\ pins' = [pins EXCEPT ![c] = NoPin]
  /\ broken' = broken \ {c}
  /\ settled' = [settled EXCEPT ![c] = NoPin]
  /\ UNCHANGED <<useState, up, disk, file, write, step, fetching, named>>

\* delete(cid): out of the map, then out of the mirror.
TakeErase(c) ==
  /\ Ready /\ c \in erase
  /\ erase' = erase \ {c}
  /\ pins' = [pins EXCEPT ![c] = NoPin]
  /\ step' = [step EXCEPT ![c] = "rmBin"]
  /\ broken' = broken \ {c}
  /\ UNCHANGED <<useState, up, disk, file, write, fetching, settled, named>>

\* set(pin): into the map, then into the mirror.
TakeWrite(c) ==
  /\ Ready /\ erase = {} /\ Has(write, c)
  /\ write' = [write EXCEPT ![c] = NoPin]
  /\ pins' = [pins EXCEPT ![c] = write[c]]
  /\ step' = [step EXCEPT ![c] = "cutBin"]
  /\ broken' = broken \ {c}
  /\ UNCHANGED <<useState, up, disk, file, erase, fetching, settled, named>>

\* The order of the calls of persist() and of delete().
AfterNoMeta(call) ==   \* a persist() that leaves the metadata of a re-pin alone
  CASE call = "cutBin" -> "writeBin"
    [] call = "rmBin"  -> "rmJson"
    [] OTHER           -> "none"

After(call) ==
  CASE call = "cutBin"   -> "writeBin"
    [] call = "writeBin" -> "cutJson"
    [] call = "cutJson"  -> "writeJson"
    [] call = "rmBin"    -> "rmJson"
    [] OTHER             -> "none"

\* The next file system call, when it succeeds.
Execute(c) ==
  /\ up /\ step[c] # "none"
  /\ bin' = CASE step[c] = "cutBin"   -> [bin EXCEPT ![c] = "cut"]
              [] step[c] = "writeBin" -> [bin EXCEPT ![c] = pins[c].data]
              [] step[c] = "rmBin"    -> [bin EXCEPT ![c] = "none"]
              [] OTHER                -> bin
  /\ json' = CASE step[c] = "cutJson"   -> [json EXCEPT ![c] = "cut"]
               [] step[c] = "writeJson" -> [json EXCEPT ![c] = pins[c].meta]
               [] step[c] = "rmJson"    -> [json EXCEPT ![c] = "none"]
               [] OTHER                 -> json
  /\ step' = [step EXCEPT ![c] = After(step[c])]
  /\ settled' = IF settled[c] = Unsettled /\ After(step[c]) = "none" /\ ~Has(write, c)
                  THEN [settled EXCEPT ![c] = pins[c]]
                  ELSE settled
  /\ UNCHANGED <<useState, up, pins, file, erase, write, fetching, broken, named>>

\* The disk refuses the call: it throws and the handler ends there with a 500
\* (at boot, with the warning of startServer).
DiskFails(c) ==
  /\ up /\ step[c] # "none"
  /\ erase' = {} /\ write' = NoPins /\ step' = NoStep
  /\ broken' = broken \cup {c}
  /\ settled' = [settled EXCEPT ![c] = Unsettled]
  /\ UNCHANGED <<useState, up, pins, disk, file, fetching, named>>

-----------------------------------------------------------------------------
(* Handlers.  None starts before the one that runs has ended.              *)

Idle == Ready /\ erase = {} /\ write = NoPins

\* A handler that deletes gone and then sets new.
Run(gone, new) ==
  /\ erase' = gone
  /\ write' = new
  /\ settled' = [c \in Cid |-> IF c \in gone \/ Has(new, c) THEN Unsettled ELSE settled[c]]
  /\ UNCHANGED <<useState, up, pins, disk, file, step, broken>>

Set(c, meta) == Run({}, [NoPins EXCEPT ![c] = [data |-> "own", meta |-> meta]])

Held(m) == { c \in Cid : Has(m, c) }

\* pinJSONToIPFS, pinFileToIPFS: nothing is read before the body and the CID
\* are awaited, so the handler is the step that stores.
PinContent(c) ==
  /\ Idle
  /\ Set(c, "pinned")
  /\ named' = IF c \in InFlight THEN named ELSE named \cup {c}
  /\ UNCHANGED fetching

\* An unpin of what is not there is a 404.
Unpin(c) ==
  /\ Idle /\ Has(pins, c)
  /\ Run({c}, NoPins)
  /\ named' = named \ {c}
  /\ UNCHANGED fetching

GetAlways(r, c) ==   \* the gateway not looking at the store first
  /\ Idle /\ fetching[r] = NoCid
  /\ fetching' = [fetching EXCEPT ![r] = c]
  /\ UNCHANGED <<useState, up, pins, disk, file, work, history>>

\* GET /ipfs/:cid of what the store lacks, also while another request fetches it; a
\* hit is answered and changes nothing.
GetMiss(r, c) ==
  /\ Idle /\ fetching[r] = NoCid
  /\ ~Has(pins, c)
  /\ fetching' = [fetching EXCEPT ![r] = c]
  /\ UNCHANGED <<useState, up, pins, disk, file, work, history>>

\* The upstream's answer is cached over whatever the store holds by then.
CacheUpstream(r) ==
  /\ Idle /\ fetching[r] # NoCid
  /\ fetching' = [fetching EXCEPT ![r] = NoCid]
  /\ Set(fetching[r], "proxied")
  /\ UNCHANGED named

UpstreamFails(r) ==
  /\ Idle /\ fetching[r] # NoCid
  /\ fetching' = [fetching EXCEPT ![r] = NoCid]
  /\ UNCHANGED <<useState, up, pins, disk, file, work, history>>

\* POST /admin/save, and the save of a graceful shutdown.
Save ==
  /\ Idle /\ useState
  /\ file' = [kind |-> "json", data |-> pins]
  /\ UNCHANGED <<useState, up, pins, disk, work, fetching, history>>

\* POST /admin/load
Load ==
  /\ Idle /\ useState /\ file.kind = "json"
  /\ Run(Held(pins), file.data)
  /\ named' = {}
  /\ UNCHANGED fetching

-----------------------------------------------------------------------------
(* Boot and crash.                                                         *)

\* load(): a .json without its .bin is skipped, one that does not parse throws.
Unparsable == { c \in Cid : bin[c] # "none" /\ json[c] = "cut" }
ReplayOrphan(c) ==   \* the .bin not looked for
  IF json[c] = "none" THEN NoPin ELSE [data |-> bin[c], meta |-> json[c]]

Replay(c) ==
  IF bin[c] = "none" \/ json[c] = "none" THEN NoPin ELSE [data |-> bin[c], meta |-> json[c]]

\* new PinStore(dir) replays the mirror, and throws on a file it cannot parse;
\* then startServer restores the state file, if it is there and parses.
Boot ==
  /\ ~up
  /\ Unparsable = {}
  /\ up' = TRUE
  /\ pins' = [c \in Cid |-> Replay(c)]
  /\ IF useState /\ file.kind = "json"
       THEN erase' = Held(pins') /\ write' = file.data
       ELSE UNCHANGED <<erase, write>>
  /\ UNCHANGED <<useState, disk, file, step, fetching, history>>

\* The process ends: a kill at any point, or a shutdown.
Stop ==
  /\ up
  /\ up' = FALSE
  /\ pins' = NoPins
  /\ erase' = {} /\ write' = NoPins /\ step' = NoStep
  /\ fetching' = NoFetch
  /\ broken' = {} /\ named' = {}
  /\ UNCHANGED <<useState, disk, file, settled>>

\* Somebody damages the state file, or deletes it.
Damage ==
  /\ ~up /\ useState
  /\ \E k \in {"absent", "torn"} : file' = [kind |-> k, data |-> NoPins]
  /\ UNCHANGED <<useState, up, pins, disk, work, fetching, history>>

Next ==
  \/ \E c \in Cid : \/ TakeErase(c) \/ TakeWrite(c) \/ Execute(c) \/ DiskFails(c)
                    \/ PinContent(c) \/ Unpin(c)
  \/ \E r \in Request : \/ \E c \in Cid : GetMiss(r, c)
                        \/ CacheUpstream(r) \/ UpstreamFails(r)
  \/ Save \/ Load \/ Boot \/ Stop \/ Damage

Spec == Init /\ [][Next]_vars

-----------------------------------------------------------------------------
(* Properties                                                              *)

\* "every mutation is mirrored" (store.ts:8): what a boot would replay is what
\* the store holds, but for the CID a handler is at work on and failed writes.
MirrorMatches ==
  up => \A c \in Cid \ broken : step[c] = "none" =>
          Replay(c) = pins[c] /\ c \notin Unparsable

\* "so a restart survives" (store.ts:10): once a request has been answered,
\* the CID it pinned or unpinned is as it left it, through any restart.
RestartSurvives ==
  Idle => \A c \in Cid : settled[c] \in {Unsettled, pins[c]}

\* The same where the mirror alone carries the pins.
MirrorSurvivesRestart == ~useState => RestartSurvives

\* A pin made while no request to the gateway was fetching it keeps its metadata,
\* however many such requests there were before and come after: the proxy only
\* stores what the store lacked when it was asked.
PinKeepsItsMetadata ==
  Idle => \A c \in named : pins[c].meta = "pinned"

\* A server whose mirror was written by this store can start again.
CanRestart == ~up => Unparsable = {}
=============================================================================
