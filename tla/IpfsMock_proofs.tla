--------------------------- MODULE IpfsMock_proofs --------------------------
(***************************************************************************)
(* Proofs about IpfsMock for every set of CIDs: type correctness, that the *)
(* mirror follows the store through every crash and disk failure, that it  *)
(* carries what was settled over a restart, and that a pin keeps its       *)
(* metadata.                                                               *)
(***************************************************************************)
EXTENDS IpfsMock, TLAPS

\* A stopped server runs no handler and remembers nothing.
DownIsQuiet ==
  ~up => /\ erase = {} /\ write = NoPins /\ step = NoStep
         /\ fetching = NoFetch /\ broken = {} /\ named = {}

\* The mirror works on one CID at a time.
OneAtATime == \A c, d \in Cid : step[c] # "none" /\ step[d] # "none" => c = d

\* How far each mirror operation has got with the files of its CID.
MirrorProgress ==
  \A c \in Cid :
    /\ step[c] # "none" => c \notin broken /\ c \notin erase
    /\ step[c] \in {"cutBin", "writeBin", "cutJson", "writeJson"} => Has(pins, c)
    /\ step[c] \in {"cutJson", "writeJson"} => bin[c] = pins[c].data
    /\ step[c] \in {"rmBin", "rmJson"} => pins[c] = NoPin
    /\ step[c] = "rmJson" => bin[c] = "none"

\* Without a state file, what is settled is what the mirror holds.
SettledIsMirrored ==
  ~useState => \A c \in Cid : settled[c] # Unsettled =>
    /\ c \notin broken /\ c \notin erase /\ write[c] = NoPin /\ step[c] = "none"
    /\ Replay(c) = settled[c]
    /\ up => pins[c] = settled[c]

\* A named CID is pinned, or is the one thing that the handler will set.
NamedIsPinned ==
  \A c \in named :
    /\ c \notin InFlight /\ c \notin erase
    /\ \/ /\ pins[c].meta = "pinned"
          /\ Has(write, c) => write[c].meta = "pinned"
       \/ /\ write[c].meta = "pinned" /\ \A d \in Cid \ {c} : write[d] = NoPin
          /\ step = NoStep /\ erase = {}

\* The inductive invariant.
IInv ==
  /\ TypeOK
  /\ DownIsQuiet
  /\ OneAtATime
  /\ MirrorProgress
  /\ MirrorMatches
  /\ SettledIsMirrored
  /\ NamedIsPinned

\* What the requests in flight may be fetching.
Fetches == [Request -> Cid \cup {NoCid}]
USE DEF Fetches

-----------------------------------------------------------------------------
\* The sentinels of the model are no pins.
LEMMA PinTypes ==
  /\ NoPin \notin Pin /\ Unsettled \notin Pin /\ Unsettled # NoPin
  /\ NoPin.data = "none" /\ NoPin.meta = "none"
  /\ NoPins \in Pins
  /\ \A c \in Cid : NoPins[c] = NoPin /\ NoStep[c] = "none"
  /\ \A p \in Pin \cup {NoPin} : p # NoPin => p \in Pin
  /\ \A p \in Pin : p = [data |-> p.data, meta |-> p.meta]
  /\ \A d \in Bytes, m \in Meta : [data |-> d, meta |-> m] \in Pin
  /\ \A p \in Pin \cup {NoPin} : p.meta = "pinned" => p # NoPin
BY DEF NoPin, Pin, Unsettled, NoPins, Pins, Bytes, Meta, NoStep

\* Of a file that a boot can parse, the replay is a pin or nothing.
LEMMA ReplayTypes ==
  ASSUME TypeOK, NEW c \in Cid, c \notin Unparsable
  PROVE  Replay(c) \in Pin \cup {NoPin}
<1>1. CASE bin[c] = "none" \/ json[c] = "none"
  BY <1>1 DEF Replay
<1>2. CASE bin[c] # "none" /\ json[c] # "none"
  <2>1. bin[c] \in Bytes /\ json[c] \in Meta
    BY <1>2 DEF TypeOK, Unparsable
  <2> QED
    BY <1>2, <2>1, PinTypes DEF Replay
<1> QED
  BY <1>1, <1>2

\* A server starts on an empty directory.
LEMMA InitInvariant == Init => IInv
<1> SUFFICES ASSUME Init PROVE IInv
  OBVIOUS
<1>1. TypeOK
  BY PinTypes DEF NoFetch, Init, TypeOK, File, NoStep, Pins, NoPins
<1>2. DownIsQuiet /\ MirrorMatches
  BY DEF Init, DownIsQuiet, MirrorMatches
<1>3. OneAtATime /\ MirrorProgress
  BY PinTypes DEF Init, OneAtATime, MirrorProgress
<1>4. SettledIsMirrored
  BY PinTypes DEF Init, SettledIsMirrored, Replay
<1>5. NamedIsPinned
  BY DEF Init, NamedIsPinned
<1> QED
  BY <1>1, <1>2, <1>3, <1>4, <1>5 DEF IInv

-----------------------------------------------------------------------------
\* A handler takes the next CID to delete or to set.
LEMMA TakeStep ==
  ASSUME IInv, NEW c \in Cid, TakeErase(c) \/ TakeWrite(c)
  PROVE  IInv'
<1>1. TypeOK /\ up /\ step = NoStep
  BY DEF IInv, TakeErase, TakeWrite, Ready
<1>2. UNCHANGED <<useState, up, disk, file, fetching, settled, named>>
  BY DEF TakeErase, TakeWrite
<1>3. \A d \in Cid : Replay(d)' = Replay(d) /\ (d \in Unparsable' <=> d \in Unparsable)
  BY <1>2 DEF disk, Replay, Unparsable
<1>4. \A d \in Cid \ {c} : /\ pins'[d] = pins[d] /\ write'[d] = write[d] /\ step'[d] = "none"
                           /\ (d \in broken' <=> d \in broken) /\ (d \in erase' <=> d \in erase)
  <2>1. step' \in {[step EXCEPT ![c] = "rmBin"], [step EXCEPT ![c] = "cutBin"]}
        /\ pins' \in {[pins EXCEPT ![c] = NoPin], [pins EXCEPT ![c] = write[c]]}
        /\ write' \in {write, [write EXCEPT ![c] = NoPin]}
        /\ erase' \in {erase, erase \ {c}} /\ broken' = broken \ {c}
    BY DEF TakeErase, TakeWrite
  <2>2. \A d \in Cid : step[d] = "none"
    BY <1>1, PinTypes
  <2>3. \A d \in Cid \ {c} : step'[d] = "none"
    BY <1>1, <2>1, <2>2 DEF TypeOK
  <2>4. \A d \in Cid \ {c} : pins'[d] = pins[d] /\ write'[d] = write[d]
    BY <1>1, <2>1 DEF TypeOK, Pins
  <2> QED
    BY <2>1, <2>3, <2>4
<1>5. c \notin broken' /\ c \notin erase' /\ step'[c] # "none"
  BY <1>1 DEF TakeErase, TakeWrite, TypeOK
<1>6. DownIsQuiet' /\ OneAtATime'
  BY <1>1, <1>2, <1>4 DEF DownIsQuiet, OneAtATime
<1>7. MirrorMatches'
  BY <1>1, <1>2, <1>3, <1>4, <1>5, PinTypes DEF IInv, MirrorMatches
<1>8. CASE TakeErase(c)
  <2>1. /\ pins' = [pins EXCEPT ![c] = NoPin] /\ step' = [step EXCEPT ![c] = "rmBin"]
        /\ erase' = erase \ {c} /\ broken' = broken \ {c} /\ write' = write /\ c \in erase
    BY <1>8 DEF TakeErase
  <2>2. pins' \in Pins /\ step' \in [Cid -> Call \cup {"none"}]
    BY <1>1, <2>1 DEF TypeOK, Pins, Call
  <2>3. TypeOK'
    BY <1>1, <1>2, <2>1, <2>2 DEF TypeOK, disk
  <2>4. MirrorProgress'
    BY <1>1, <1>2, <1>4, <1>5, <2>1 DEF IInv, MirrorProgress, TypeOK, Pins, disk
  <2>5. SettledIsMirrored'
    <3>1. ~useState => settled[c] = Unsettled
      BY <2>1 DEF IInv, SettledIsMirrored
    <3> QED
      BY <1>1, <1>2, <1>3, <1>4, <3>1 DEF IInv, SettledIsMirrored
  <2>6. NamedIsPinned'
    <3>1. c \notin named
      BY <2>1 DEF IInv, NamedIsPinned
    <3>2. \A d \in named : d \in Cid \ {c} /\ pins[d].meta = "pinned"
      BY <1>1, <2>1, <3>1 DEF IInv, NamedIsPinned, TypeOK
    <3> QED
      BY <1>2, <1>4, <2>1, <3>1, <3>2 DEF InFlight, IInv, NamedIsPinned, Has
  <2> QED
    BY <1>6, <1>7, <2>3, <2>4, <2>5, <2>6 DEF IInv
<1>9. CASE TakeWrite(c)
  <2>1. /\ pins' = [pins EXCEPT ![c] = write[c]] /\ step' = [step EXCEPT ![c] = "cutBin"]
        /\ write' = [write EXCEPT ![c] = NoPin] /\ erase' = erase /\ broken' = broken \ {c}
        /\ erase = {} /\ write[c] \in Pin /\ write[c] # NoPin
    BY <1>1, <1>9, PinTypes DEF TakeWrite, TypeOK, Pins, Has
  <2>2. pins' \in Pins /\ write' \in Pins /\ step' \in [Cid -> Call \cup {"none"}]
    BY <1>1, <2>1 DEF TypeOK, Pins, Call
  <2>3. TypeOK'
    BY <1>1, <1>2, <2>1, <2>2 DEF TypeOK, disk
  <2>4. pins'[c] = write[c] /\ write'[c] = NoPin /\ step'[c] = "cutBin"
    BY <1>1, <2>1 DEF TypeOK, Pins
  <2>5. MirrorProgress'
    BY <1>2, <1>4, <1>5, <2>1, <2>4 DEF IInv, MirrorProgress, Has
  <2>6. SettledIsMirrored'
    <3>1. ~useState => settled[c] = Unsettled
      BY <2>1 DEF IInv, SettledIsMirrored
    <3> QED
      BY <1>1, <1>2, <1>3, <1>4, <3>1 DEF IInv, SettledIsMirrored
  <2>7. NamedIsPinned'
    <3>1. ASSUME NEW d \in named
          PROVE  d \in Cid /\ pins'[d].meta = "pinned" /\ (Has(write', d) => write'[d].meta = "pinned")
      <4>1. d \in Cid
        BY <1>1 DEF TypeOK
      <4>2. CASE d = c
        BY <2>1, <2>4, <4>1, <4>2 DEF IInv, NamedIsPinned, Has
      <4>3. CASE d # c
        <5>1. pins[d].meta = "pinned" /\ (Has(write, d) => write[d].meta = "pinned")
          BY <2>1, <4>1, <4>3 DEF IInv, NamedIsPinned
        <5> QED
          BY <1>4, <4>1, <4>3, <5>1 DEF Has
      <4> QED
        BY <4>2, <4>3
    <3>2. \A d \in named : d \notin InFlight /\ d \notin erase
      BY DEF IInv, NamedIsPinned
    <3> QED
      BY <1>2, <2>1, <3>1, <3>2 DEF InFlight, NamedIsPinned, Has
  <2> QED
    BY <1>6, <1>7, <2>3, <2>5, <2>6, <2>7 DEF IInv
<1> QED
  BY <1>8, <1>9

\* The running handler makes its next file system call.
LEMMA ExecuteStep ==
  ASSUME IInv, NEW c \in Cid, Execute(c)
  PROVE  IInv'
<1>1. /\ TypeOK /\ up /\ step[c] \in Call /\ pins[c] \in Pin \cup {NoPin}
      /\ c \notin broken /\ c \notin erase
  BY DEF IInv, TypeOK, Execute, Pins, MirrorProgress
<1>2. UNCHANGED <<useState, up, pins, file, erase, write, fetching, broken, named>>
  BY DEF Execute
<1>3. \A d \in Cid \ {c} : bin'[d] = bin[d] /\ json'[d] = json[d] /\ step'[d] = step[d]
  BY <1>1 DEF Execute, TypeOK
<1>4. /\ bin'[c] = CASE step[c] = "cutBin"   -> "cut"
                     [] step[c] = "writeBin" -> pins[c].data
                     [] step[c] = "rmBin"    -> "none"
                     [] OTHER                -> bin[c]
      /\ json'[c] = CASE step[c] = "cutJson"   -> "cut"
                      [] step[c] = "writeJson" -> pins[c].meta
                      [] step[c] = "rmJson"    -> "none"
                      [] OTHER                 -> json[c]
      /\ step'[c] = After(step[c])
  BY <1>1 DEF Execute, TypeOK
<1>5. step[c] \in {"cutBin", "writeBin", "cutJson", "writeJson"} => pins[c] \in Pin
  BY <1>1, PinTypes DEF IInv, MirrorProgress, Has
<1>6. pins[c] \in Pin => pins[c].data \in Bytes /\ pins[c].meta \in Meta
  BY DEF Pin
<1>7. bin' \in [Cid -> Bytes \cup {"none"}]
  <2>1. bin'[c] \in Bytes \cup {"none"}
    BY <1>1, <1>4, <1>5, <1>6 DEF TypeOK, Bytes, Call
  <2>2. \A d \in Cid : bin'[d] \in Bytes \cup {"none"}
    BY <1>1, <1>3, <2>1 DEF TypeOK
  <2>3. DOMAIN bin' = Cid /\ bin' = [d \in Cid |-> bin'[d]]
    BY <1>1 DEF Execute, TypeOK
  <2> QED
    BY <2>2, <2>3
<1>8. json' \in [Cid -> Meta \cup {"cut", "none"}]
  <2>1. json'[c] \in Meta \cup {"cut", "none"}
    BY <1>1, <1>4, <1>5, <1>6 DEF TypeOK, Call
  <2>2. \A d \in Cid : json'[d] \in Meta \cup {"cut", "none"}
    BY <1>1, <1>3, <2>1 DEF TypeOK
  <2>3. json' = [d \in Cid |-> json'[d]]
    BY <1>1 DEF Execute, TypeOK
  <2> QED
    BY <2>2, <2>3
<1>9. After(step[c]) \in Call \cup {"none"} /\ step' \in [Cid -> Call \cup {"none"}]
  <2>1. After(step[c]) \in Call \cup {"none"}
    BY <1>1 DEF After, Call
  <2> QED
    BY <1>1, <2>1 DEF Execute, TypeOK
<1>10. settled' \in {settled, [settled EXCEPT ![c] = pins[c]]}
  BY DEF Execute
<1>11. TypeOK'
  <2>1. settled' \in [Cid -> Pin \cup {NoPin, Unsettled}]
    BY <1>1, <1>10 DEF TypeOK
  <2> QED
    BY <1>1, <1>2, <1>7, <1>8, <1>9, <2>1 DEF TypeOK
<1>12. DownIsQuiet' /\ OneAtATime'
  BY <1>1, <1>2, <1>3 DEF IInv, DownIsQuiet, OneAtATime, Call
<1>13. \A d \in Cid \ {c} : Replay(d)' = Replay(d) /\ (d \in Unparsable' <=> d \in Unparsable)
  BY <1>3 DEF Replay, Unparsable
\* The last call leaves the files as the store is.
<1>14. After(step[c]) = "none" => Replay(c)' = pins[c] /\ c \notin Unparsable'
  <2>1. CASE step[c] = "writeJson"
    <3>1. bin'[c] = pins[c].data /\ json'[c] = pins[c].meta /\ pins[c] \in Pin
      BY <1>4, <1>5, <2>1 DEF IInv, MirrorProgress
    <3>2. bin'[c] # "none" /\ json'[c] \notin {"none", "cut"}
      BY <1>6, <3>1 DEF Bytes, Meta
    <3> QED
      BY <3>1, <3>2, PinTypes DEF Replay, Unparsable
  <2>2. CASE step[c] = "rmJson"
    <3>1. bin'[c] = "none" /\ pins[c] = NoPin
      BY <1>4, <2>2 DEF IInv, MirrorProgress
    <3> QED
      BY <3>1 DEF Replay, Unparsable
  <2> QED
    BY <1>1, <2>1, <2>2 DEF After, Call
<1>15. MirrorMatches'
  <2>1. \A d \in Cid \ {c} : d \notin broken /\ step'[d] = "none" =>
          Replay(d)' = pins[d] /\ d \notin Unparsable'
    BY <1>1, <1>3, <1>13 DEF IInv, MirrorMatches
  <2> QED
    BY <1>2, <1>4, <1>14, <2>1 DEF MirrorMatches
<1>16. MirrorProgress'
  <2>1. \A d \in Cid \ {c} :
          /\ step'[d] # "none" => d \notin broken /\ d \notin erase
          /\ step'[d] \in {"cutBin", "writeBin", "cutJson", "writeJson"} => Has(pins, d)
          /\ step'[d] \in {"cutJson", "writeJson"} => bin'[d] = pins[d].data
          /\ step'[d] \in {"rmBin", "rmJson"} => pins[d] = NoPin
          /\ step'[d] = "rmJson" => bin'[d] = "none"
    BY <1>3 DEF IInv, MirrorProgress
  <2>2. /\ step'[c] \in {"cutBin", "writeBin", "cutJson", "writeJson"} => Has(pins, c)
        /\ step'[c] \in {"rmBin", "rmJson"} => pins[c] = NoPin
    BY <1>1, <1>4 DEF IInv, MirrorProgress, After, Call
  <2>3. /\ step'[c] \in {"cutJson", "writeJson"} => bin'[c] = pins[c].data
        /\ step'[c] = "rmJson" => bin'[c] = "none"
    BY <1>1, <1>4 DEF IInv, MirrorProgress, After, Call
  <2> QED
    BY <1>1, <1>2, <2>1, <2>2, <2>3 DEF MirrorProgress, Has
<1>17. SettledIsMirrored'
  <2> SUFFICES ASSUME ~useState, NEW d \in Cid, settled'[d] # Unsettled
               PROVE  /\ d \notin broken /\ d \notin erase /\ write[d] = NoPin /\ step'[d] = "none"
                      /\ Replay(d)' = settled'[d] /\ pins[d] = settled'[d]
    BY <1>1, <1>2 DEF SettledIsMirrored
  <2>1. CASE d # c
    <3>1. settled'[d] = settled[d]
      BY <1>1, <1>10, <2>1 DEF TypeOK
    <3> QED
      BY <1>1, <1>3, <1>13, <2>1, <3>1 DEF IInv, SettledIsMirrored
  <2>2. CASE d = c
    <3>1. settled[c] = Unsettled
      BY <1>1 DEF IInv, SettledIsMirrored, Call
    <3>2. After(step[c]) = "none" /\ ~Has(write, c) /\ settled'[c] = pins[c]
      BY <1>1, <2>2, <3>1 DEF Execute, TypeOK
    <3> QED
      BY <1>1, <1>4, <1>14, <2>2, <3>2 DEF Has
  <2> QED
    BY <2>1, <2>2
<1>18. NamedIsPinned'
  <2>1. \A d \in Cid : NoStep[d] = "none"
    BY PinTypes
  <2>2. step # NoStep
    BY <1>1, <2>1 DEF Call
  <2> QED
    BY <1>2, <2>2 DEF InFlight, IInv, NamedIsPinned, Has
<1> QED
  BY <1>11, <1>12, <1>15, <1>16, <1>17, <1>18 DEF IInv

\* The disk refuses it, and the handler ends.
LEMMA DiskFailsStep ==
  ASSUME IInv, NEW c \in Cid, DiskFails(c)
  PROVE  IInv'
<1>1. TypeOK /\ up /\ step[c] # "none" /\ step # NoStep
  BY PinTypes DEF IInv, DiskFails
<1>2. /\ UNCHANGED <<useState, up, pins, disk, file, fetching, named>>
      /\ erase' = {} /\ write' = NoPins /\ step' = NoStep
      /\ broken' = broken \cup {c} /\ settled' = [settled EXCEPT ![c] = Unsettled]
  BY DEF DiskFails
<1>3. \A d \in Cid : Replay(d)' = Replay(d) /\ (d \in Unparsable' <=> d \in Unparsable)
  BY <1>2 DEF disk, Replay, Unparsable
<1>4. \A d \in Cid : step'[d] = "none" /\ write'[d] = NoPin
  BY <1>2, PinTypes
<1>5. TypeOK'
  <2>1. step' \in [Cid -> Call \cup {"none"}] /\ settled' \in [Cid -> Pin \cup {NoPin, Unsettled}]
    BY <1>1, <1>2 DEF TypeOK, NoStep
  <2> QED
    BY <1>1, <1>2, <2>1, PinTypes DEF TypeOK, disk
<1>6. DownIsQuiet' /\ OneAtATime' /\ MirrorProgress'
  BY <1>1, <1>2, <1>4 DEF DownIsQuiet, OneAtATime, MirrorProgress
<1>7. MirrorMatches'
  <2>1. \A d \in Cid \ {c} : step[d] = "none"
    BY <1>1 DEF IInv, OneAtATime
  <2> QED
    BY <1>1, <1>2, <1>3, <2>1 DEF IInv, MirrorMatches
<1>8. SettledIsMirrored'
  <2>1. settled'[c] = Unsettled /\ \A d \in Cid \ {c} : settled'[d] = settled[d]
    BY <1>1, <1>2 DEF TypeOK
  <2> QED
    BY <1>2, <1>3, <1>4, <2>1 DEF IInv, SettledIsMirrored
<1>9. NamedIsPinned'
  <2>1. \A d \in named : d \in Cid
    BY <1>1 DEF TypeOK
  <2> QED
    BY <1>1, <1>2, <1>4, <2>1 DEF InFlight, IInv, NamedIsPinned, Has
<1> QED
  BY <1>5, <1>6, <1>7, <1>8, <1>9 DEF IInv

\* A handler that deletes gone and sets new starts.
LEMMA RunStep ==
  ASSUME IInv, Idle,
         NEW gone \in SUBSET Cid, NEW new \in Pins,
         Run(gone, new),
         fetching' \in Fetches, named' \in SUBSET Cid
  PROVE  TypeOK' /\ DownIsQuiet' /\ OneAtATime' /\ MirrorProgress' /\ MirrorMatches' /\ SettledIsMirrored'
<1>1. TypeOK /\ up /\ step = NoStep /\ erase = {} /\ write = NoPins
  BY DEF IInv, Idle, Ready
<1>2. /\ UNCHANGED <<useState, up, pins, disk, file, step, broken>>
      /\ erase' = gone /\ write' = new
      /\ settled' = [c \in Cid |-> IF c \in gone \/ Has(new, c) THEN Unsettled ELSE settled[c]]
  BY DEF Run
<1>3. \A d \in Cid : Replay(d)' = Replay(d) /\ (d \in Unparsable' <=> d \in Unparsable)
  BY <1>2 DEF disk, Replay, Unparsable
<1>4. \A d \in Cid : step[d] = "none"
  BY <1>1, PinTypes
<1>5. TypeOK'
  <2>1. settled' \in [Cid -> Pin \cup {NoPin, Unsettled}]
    BY <1>1, <1>2 DEF TypeOK
  <2> QED
    BY <1>1, <1>2, <2>1 DEF TypeOK, disk
<1>6. DownIsQuiet' /\ OneAtATime' /\ MirrorProgress'
  BY <1>1, <1>2, <1>4 DEF DownIsQuiet, OneAtATime, MirrorProgress
<1>7. MirrorMatches'
  BY <1>2, <1>3 DEF IInv, MirrorMatches
<1>8. SettledIsMirrored'
  <2>1. \A d \in Cid : settled'[d] # Unsettled =>
          d \notin gone /\ new[d] = NoPin /\ settled'[d] = settled[d]
    BY <1>2 DEF Has
  <2> QED
    BY <1>1, <1>2, <1>3, <1>4, <2>1 DEF IInv, SettledIsMirrored
<1> QED
  BY <1>5, <1>6, <1>7, <1>8

\* The handlers that change the store.
LEMMA HandlerStep ==
  ASSUME IInv,
         \/ \E c \in Cid : PinContent(c) \/ Unpin(c)
         \/ \E r \in Request : CacheUpstream(r)
         \/ Load
  PROVE  IInv'
<1>1. TypeOK /\ Idle /\ step = NoStep /\ erase = {} /\ write = NoPins
  BY DEF IInv, PinContent, Unpin, CacheUpstream, Load, Idle, Ready
<1>2. \A c \in Cid : write[c] = NoPin
  BY <1>1, PinTypes
\* Before the handler, every named CID is pinned.
<1>3. \A d \in named : d \in Cid /\ d \notin InFlight /\ pins[d].meta = "pinned"
  BY <1>1, <1>2, PinTypes DEF IInv, NamedIsPinned, TypeOK
<1> DEFINE only(c, m) == [NoPins EXCEPT ![c] = [data |-> "own", meta |-> m]]
<1>4. ASSUME NEW c \in Cid, NEW m \in Meta
      PROVE  /\ only(c, m) \in Pins /\ only(c, m)[c].meta = m
             /\ \A d \in Cid \ {c} : only(c, m)[d] = NoPin
  <2>1. [data |-> "own", meta |-> m] \in Pin
    BY <1>4, PinTypes DEF Bytes
  <2> QED
    BY <1>4, <2>1, PinTypes DEF Pins
<1> HIDE DEF only
<1>5. ASSUME NEW c \in Cid, PinContent(c)
      PROVE  IInv'
  <2>1. Run({}, only(c, "pinned")) /\ fetching' = fetching
        /\ named' \in {named, named \cup {c}} /\ (c \in InFlight => named' = named)
    BY <1>5 DEF PinContent, Set, only
  <2>2. only(c, "pinned") \in Pins /\ only(c, "pinned")[c].meta = "pinned"
        /\ \A d \in Cid \ {c} : only(c, "pinned")[d] = NoPin
    BY <1>4 DEF Meta
  <2>3. erase' = {} /\ write' = only(c, "pinned") /\ step' = NoStep /\ pins' = pins
    BY <1>1, <2>1 DEF Run
  <2>4. NamedIsPinned'
    <3>1. ASSUME NEW d \in named', d # c
          PROVE  /\ d \notin InFlight' /\ d \notin erase' /\ pins'[d].meta = "pinned"
                 /\ Has(write', d) => write'[d].meta = "pinned"
      BY <1>3, <2>1, <2>2, <2>3, <3>1 DEF InFlight, Has
    <3>2. ASSUME c \in named'
          PROVE  /\ c \notin InFlight' /\ c \notin erase' /\ write'[c].meta = "pinned"
                 /\ \A d \in Cid \ {c} : write'[d] = NoPin
      BY <1>3, <2>1, <2>2, <2>3, <3>2 DEF InFlight
    <3> QED
      BY <2>3, <3>1, <3>2 DEF NamedIsPinned, Has
  <2>5. fetching' \in Fetches /\ named' \in SUBSET Cid
    BY <1>1, <2>1 DEF TypeOK
  <2> QED
    BY <1>1, <2>1, <2>2, <2>4, <2>5, RunStep DEF IInv
<1>6. ASSUME NEW c \in Cid, Unpin(c)
      PROVE  IInv'
  <2>1. Run({c}, NoPins) /\ fetching' = fetching /\ named' = named \ {c}
    BY <1>6 DEF Unpin
  <2>2. erase' = {c} /\ write' = NoPins /\ pins' = pins
    BY <2>1 DEF Run
  <2>3. NamedIsPinned'
    BY <1>3, <2>1, <2>2, PinTypes DEF InFlight, NamedIsPinned, Has
  <2>4. fetching' \in Fetches /\ named' \in SUBSET Cid
    BY <1>1, <2>1 DEF TypeOK
  <2> QED
    BY <1>1, <2>1, <2>3, <2>4, PinTypes, RunStep DEF IInv
<1>7. ASSUME NEW r \in Request, CacheUpstream(r), NEW c \in Cid, c = fetching[r]
      PROVE  IInv'
  <2>1. /\ Run({}, only(c, "proxied")) /\ named' = named /\ c \in InFlight
        /\ fetching' = [fetching EXCEPT ![r] = NoCid]
    BY <1>7 DEF CacheUpstream, Set, only, InFlight
  <2>2. only(c, "proxied") \in Pins /\ \A d \in Cid \ {c} : only(c, "proxied")[d] = NoPin
    BY <1>4 DEF Meta
  <2>3. erase' = {} /\ write' = only(c, "proxied") /\ pins' = pins
    BY <2>1 DEF Run
  <2>4. InFlight' \subseteq InFlight
    BY <1>1, <2>1, IpfsMockAssumption DEF InFlight, TypeOK
  <2>5. NamedIsPinned'
    BY <1>3, <2>1, <2>2, <2>3, <2>4 DEF NamedIsPinned, Has
  <2>6. fetching' \in Fetches /\ named' \in SUBSET Cid
    BY <1>1, <2>1 DEF TypeOK
  <2> QED
    BY <1>1, <2>1, <2>2, <2>5, <2>6, RunStep DEF IInv
<1>8. CASE Load
  <2>1. Run(Held(pins), file.data) /\ fetching' = fetching /\ named' = {} /\ file.kind = "json"
    BY <1>8 DEF Load
  <2>2. Held(pins) \in SUBSET Cid /\ file.data \in Pins
    BY <1>1, PinTypes DEF Held, TypeOK, File
  <2>3. NamedIsPinned'
    BY <2>1 DEF NamedIsPinned
  <2>4. fetching' \in Fetches /\ named' \in SUBSET Cid
    BY <1>1, <2>1 DEF TypeOK
  <2> QED
    BY <1>1, <2>1, <2>2, <2>3, <2>4, RunStep DEF IInv
<1>9. ASSUME NEW r \in Request, CacheUpstream(r)
      PROVE  fetching[r] \in Cid
  BY <1>1, <1>9 DEF CacheUpstream, TypeOK
<1> QED
  BY <1>5, <1>6, <1>7, <1>8, <1>9

\* The handlers that leave store and mirror alone, and damage to the state file.
LEMMA QuietStep ==
  ASSUME IInv,
         \/ \E r \in Request : (\E c \in Cid : GetMiss(r, c)) \/ UpstreamFails(r)
         \/ Save \/ Damage
         \/ UNCHANGED vars
  PROVE  IInv'
<1>1. UNCHANGED <<useState, up, pins, disk, work, broken, settled, named>>
  BY DEF GetMiss, UpstreamFails, Save, Damage, vars, work, history
<1>2. TypeOK
  BY DEF IInv
<1>3. fetching' \in Fetches /\ file' \in File
  <2>1. fetching' \in Fetches
    BY <1>2 DEF TypeOK, GetMiss, UpstreamFails, Save, Damage, vars
  <2>2. file' \in File
    BY <1>2 DEF TypeOK, File, GetMiss, UpstreamFails, Save, Damage, vars
  <2> QED
    BY <2>1, <2>2
<1>4. TypeOK'
  BY <1>1, <1>2, <1>3 DEF TypeOK, disk, work
\* The gateway only fetches what the store lacks.
<1>5. \A c \in InFlight' \ InFlight : up /\ ~Has(pins, c) /\ write = NoPins
  <2> SUFFICES ASSUME NEW c \in InFlight', c \notin InFlight
               PROVE  up /\ ~Has(pins, c) /\ write = NoPins
    OBVIOUS
  <2>1. PICK r \in Request : fetching'[r] = c /\ fetching[r] # c
    BY DEF InFlight
  <2>2. c \in Cid /\ c # NoCid
    BY IpfsMockAssumption DEF InFlight
  <2>3. fetching' # fetching /\ ~UNCHANGED vars /\ ~Save /\ ~Damage
    BY <2>1 DEF vars, Save, Damage
  <2>4. ASSUME NEW q \in Request, UpstreamFails(q)
        PROVE  FALSE
    BY <1>2, <2>1, <2>2, <2>4 DEF UpstreamFails, TypeOK
  <2>5. PICK q \in Request, d \in Cid : GetMiss(q, d)
    BY <2>3, <2>4
  <2>6. d = c
    BY <1>2, <2>1, <2>5 DEF GetMiss, TypeOK
  <2> QED
    BY <2>5, <2>6 DEF GetMiss, Idle, Ready
<1>6. DownIsQuiet'
  <2>1. ~up => fetching' = NoFetch
    <3>1. ~up => fetching = NoFetch /\ \A q \in Request : fetching[q] = NoCid
      BY DEF IInv, DownIsQuiet, NoFetch
    <3> QED
      BY <3>1 DEF GetMiss, UpstreamFails, Save, Damage, vars, Idle, Ready
  <2> QED
    BY <1>1, <2>1 DEF IInv, DownIsQuiet, work
<1>7. OneAtATime' /\ MirrorProgress' /\ MirrorMatches' /\ SettledIsMirrored'
  BY <1>1 DEF IInv, OneAtATime, MirrorProgress, MirrorMatches, SettledIsMirrored,
              Replay, Unparsable, Has, disk, work
<1>8. NamedIsPinned'
  <2>1. ASSUME NEW c \in named
        PROVE  c \notin InFlight'
    <3>1. c \in Cid /\ c \notin InFlight
      BY <1>2 DEF IInv, NamedIsPinned, TypeOK
    <3>2. CASE c \in InFlight'
      <4>1. ~Has(pins, c) /\ write[c] = NoPin /\ pins[c] \in Pin \cup {NoPin}
        BY <1>2, <1>5, <3>1, <3>2, PinTypes DEF TypeOK, Pins
      <4>2. pins[c].meta # "pinned" /\ write[c].meta # "pinned"
        BY <4>1, PinTypes DEF Has
      <4> QED
        BY <4>2 DEF IInv, NamedIsPinned
    <3> QED
      BY <3>2
  <2> QED
    BY <1>1, <2>1 DEF IInv, NamedIsPinned, Has, work
<1> QED
  BY <1>4, <1>6, <1>7, <1>8 DEF IInv

\* The server starts.
LEMMA BootStep ==
  ASSUME IInv, Boot
  PROVE  IInv'
<1>1. /\ TypeOK /\ ~up /\ up' /\ Unparsable = {}
      /\ erase = {} /\ write = NoPins /\ step = NoStep
      /\ fetching = NoFetch /\ broken = {} /\ named = {}
  BY DEF IInv, DownIsQuiet, Boot
<1>2. /\ UNCHANGED <<useState, disk, file, step, fetching, broken, settled, named>>
      /\ pins' = [c \in Cid |-> Replay(c)]
  BY DEF Boot, history
<1>3. \A c \in Cid : Replay(c) \in Pin \cup {NoPin}
  BY <1>1, ReplayTypes
<1>4. pins' \in Pins /\ \A c \in Cid : pins'[c] = Replay(c)
  BY <1>2, <1>3 DEF Pins
<1>5. erase' \in SUBSET Cid /\ write' \in Pins
  BY <1>1, PinTypes DEF Boot, Held, TypeOK, File
<1>6. ~useState => erase' = {} /\ write' = NoPins
  BY <1>1 DEF Boot
<1>7. TypeOK'
  BY <1>1, <1>2, <1>4, <1>5 DEF TypeOK, disk
<1>8. \A c \in Cid : step[c] = "none" /\ NoPins[c] = NoPin
  BY <1>1, PinTypes
<1>9. DownIsQuiet' /\ OneAtATime' /\ MirrorProgress' /\ NamedIsPinned'
  BY <1>1, <1>2, <1>8 DEF DownIsQuiet, OneAtATime, MirrorProgress, NamedIsPinned
<1>10. \A c \in Cid : Replay(c)' = Replay(c)
  BY <1>2 DEF disk, Replay
<1>11. Unparsable' = {}
  BY <1>1, <1>2 DEF disk, Unparsable
<1>12. MirrorMatches'
  BY <1>4, <1>10, <1>11 DEF MirrorMatches
<1>13. SettledIsMirrored'
  BY <1>1, <1>2, <1>4, <1>6, <1>8, <1>10 DEF IInv, SettledIsMirrored
<1> QED
  BY <1>7, <1>9, <1>12, <1>13 DEF IInv

\* The server stops, maybe in the middle of a handler.
LEMMA StopStep ==
  ASSUME IInv, Stop
  PROVE  IInv'
<1>1. /\ TypeOK /\ ~up' /\ pins' = NoPins
      /\ erase' = {} /\ write' = NoPins /\ step' = NoStep
      /\ fetching' = NoFetch /\ broken' = {} /\ named' = {}
      /\ UNCHANGED <<useState, disk, file, settled>>
  BY DEF IInv, Stop
<1>2. TypeOK'
  <2>1. step' \in [Cid -> Call \cup {"none"}]
    BY <1>1 DEF NoStep
  <2>2. up' \in BOOLEAN
    BY DEF Stop
  <2> QED
    BY <1>1, <2>1, <2>2, PinTypes DEF NoFetch, TypeOK, disk
<1>3. \A c \in Cid : step'[c] = "none" /\ write'[c] = NoPin
  BY <1>1, PinTypes
<1>4. DownIsQuiet' /\ OneAtATime' /\ MirrorProgress' /\ MirrorMatches' /\ NamedIsPinned'
  BY <1>1, <1>3 DEF DownIsQuiet, OneAtATime, MirrorProgress, MirrorMatches, NamedIsPinned
<1>5. SettledIsMirrored'
  BY <1>1, <1>3 DEF IInv, SettledIsMirrored, Replay, disk
<1> QED
  BY <1>2, <1>4, <1>5 DEF IInv

\* Every step preserves the invariant.
LEMMA InvariantStep == IInv /\ [Next]_vars => IInv'
<1> SUFFICES ASSUME IInv, [Next]_vars PROVE IInv'
  OBVIOUS
<1>1. ASSUME NEW c \in Cid, TakeErase(c) \/ TakeWrite(c)
      PROVE  IInv'
  BY <1>1, TakeStep
<1>2. ASSUME NEW c \in Cid, Execute(c) \/ DiskFails(c)
      PROVE  IInv'
  BY <1>2, ExecuteStep, DiskFailsStep
<1>3. ASSUME \/ \E c \in Cid : PinContent(c) \/ Unpin(c)
             \/ \E r \in Request : CacheUpstream(r)
             \/ Load
      PROVE  IInv'
  BY <1>3, HandlerStep
<1>4. ASSUME \/ \E r \in Request : (\E c \in Cid : GetMiss(r, c)) \/ UpstreamFails(r)
             \/ Save \/ Damage
             \/ UNCHANGED vars
      PROVE  IInv'
  BY <1>4, QuietStep
<1>5. CASE Boot
  BY <1>5, BootStep
<1>6. CASE Stop
  BY <1>6, StopStep
<1> QED
  BY <1>1, <1>2, <1>3, <1>4, <1>5, <1>6 DEF Next

-----------------------------------------------------------------------------
\* The strengthening holds in every reachable state.
THEOREM Invariance == Spec => []IInv
BY InitInvariant, InvariantStep, PTL DEF Spec

\* Store, mirror and state file keep their types, so that a boot that parses
\* its files never replays anything but a pin.
THEOREM TypeCorrect == Spec => []TypeOK
<1>1. IInv => TypeOK
  BY DEF IInv
<1> QED
  BY <1>1, Invariance, PTL

\* Every mutation is mirrored, for any number of CIDs, across kills between
\* any two file system calls, refused writes, loads and restarts.
THEOREM MirrorFollowsTheStore == Spec => []MirrorMatches
<1>1. IInv => MirrorMatches
  BY DEF IInv
<1> QED
  BY <1>1, Invariance, PTL

\* Without a state file, what a pin or an unpin left is what a restart finds.
THEOREM MirrorCarriesPinsOverRestarts == Spec => []MirrorSurvivesRestart
<1>1. IInv => MirrorSurvivesRestart
  BY DEF IInv, SettledIsMirrored, MirrorSurvivesRestart, RestartSurvives, Idle, Ready
<1> QED
  BY <1>1, Invariance, PTL

\* The proxy never takes the metadata of a pin made while no request was fetching it,
\* for any number of requests in flight, of the same CID or of others.
THEOREM ProxyLeavesPinsAlone == Spec => []PinKeepsItsMetadata
<1>1. ASSUME IInv, Idle, NEW c \in named PROVE pins[c].meta = "pinned"
  <2>1. c \in Cid /\ write[c] = NoPin
    BY <1>1, PinTypes DEF IInv, TypeOK, Idle
  <2> QED
    BY <1>1, <2>1, PinTypes DEF IInv, NamedIsPinned
<1>2. IInv => PinKeepsItsMetadata
  BY <1>1 DEF PinKeepsItsMetadata
<1> QED
  BY <1>2, Invariance, PTL
=============================================================================
