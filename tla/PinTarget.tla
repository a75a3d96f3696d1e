------------------------------ MODULE PinTarget ------------------------------
(***************************************************************************)
(* Where tools/merkle pins a tree, from the environment of the process:    *)
(* IPFS_API_URL and the PINATA_* credentials, an empty one being unset.    *)
(* "local": the default address of the mock; "other": any endpoint that is *)
(* not Pinata's.                                                           *)
(***************************************************************************)

Host == {"local", "other", "pinata"}
Env == [api : {"unset", "other", "pinata"}, creds : BOOLEAN]

resolveIpfsApiUrl(e) ==
  IF e.api # "unset" THEN e.api ELSE IF e.creds THEN "pinata" ELSE "local"

\* Pinata by name and without credentials is the one target not worth trying.
shouldAttemptPin(e) == ~(e.api = "pinata" /\ ~e.creds)

\* up: the hosts that answer.  With credentials nothing is probed.
assertPinnable(e, up) ==
  shouldAttemptPin(e) /\ (e.creds \/ resolveIpfsApiUrl(e) \in up)

\* pinJsonToIpfs; Pinata answers 401 without credentials.
PinSucceeds(e, up) ==
  resolveIpfsApiUrl(e) \in up /\ (resolveIpfsApiUrl(e) = "pinata" => e.creds)

\* maybePin: what becomes of one object, "none" being a warning and no CID.
maybePin(e, up) ==
  IF ~shouldAttemptPin(e) THEN "none" ELSE IF PinSucceeds(e, up) THEN "pinned" ELSE "throws"

\* What a pin comes to after the guard has passed; hosts may have come or gone
\* since the guard asked.
GuardedPins ==
  {maybePin(c[1], c[3]) :
     c \in {d \in Env \X (SUBSET Host) \X (SUBSET Host) : assertPinnable(d[1], d[2])}}
=============================================================================
