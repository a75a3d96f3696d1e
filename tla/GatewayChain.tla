---------------------------- MODULE GatewayChain ----------------------------
(***************************************************************************)
(* The upstream fetcher of apps/ipfs (upstream.ts) and the status with     *)
(* which gateway.ts relays its result: concurrent fetches each try the     *)
(* gateways of one fallback chain in order, and tally every attempt in     *)
(* counters they share and GET /admin/status reports.                      *)
(*                                                                         *)
(* An attempt awaits the headers and then the body; its timer may fire in  *)
(* either wait, and the connection may break in either.  IpfsMock sees a   *)
(* fetch from outside: GetMiss, then CacheUpstream or UpstreamFails.       *)
(***************************************************************************)
EXTENDS Naturals, Sequences, FiniteSets

CONSTANTS
  Gateway,  \* base URLs without trailing slashes
  Chains,   \* the chains a server may be started with
  Fetch     \* the calls of the fetcher, each made once at most

ASSUME GatewayAssumption ==
  /\ Chains \subseteq Seq(Gateway)
  /\ IsFiniteSet(Fetch)

\* 200 for any 2xx, 404 for any other status but the two that are relayed.
HttpStatus == {200, 404, 502, 504}
Outcome == {"hit", "miss", "timeout", "unreachable"}
Phase == {"idle", "connecting", "reading", "answered"}

VARIABLES
  chain,    \* the gateways in the order they are tried, maybe repeated
  phase,    \* phase[f]: what fetch f awaits
  pos,      \* the position of the gateway it tries or tried last
  status,   \* the status of the response it reads, then of its answer
  tally,    \* tally[b]: the attempts at gateway b, and those of each outcome
  past      \* past[f][i]: how f's attempt at position i ended (history)

vars == <<chain, phase, pos, status, tally, past>>

Position == DOMAIN chain

Counts == [{"attempts"} \cup Outcome -> Nat]
NoCounts == [k \in {"attempts"} \cup Outcome |-> 0]

\* "none" and 0 while there is nothing to record.
End == [outcome : Outcome \cup {"none"}, status : HttpStatus \cup {0}]
NoEnd == [outcome |-> "none", status |-> 0]

TypeOK ==
  /\ chain \in Chains
  /\ phase \in [Fetch -> Phase]
  /\ pos \in [Fetch -> Nat]
  /\ \A f \in Fetch : phase[f] \in {"connecting", "reading"} => pos[f] \in Position
  /\ status \in [Fetch -> HttpStatus \cup {0}]
  /\ tally \in [Gateway -> Counts]
  /\ past \in [Fetch -> [Position -> End]]

Init ==
  /\ chain \in Chains
  /\ phase = [f \in Fetch |-> "idle"]
  /\ pos = [f \in Fetch |-> 0]
  /\ status = [f \in Fetch |-> 0]
  /\ tally = [b \in Gateway |-> NoCounts]
  /\ past = [f \in Fetch |-> [i \in Position |-> NoEnd]]

\* gateway.ts: any failure but a 502 or a 504 is a 502 for the client.
Relayed(s) == IF s \in {200, 502, 504} THEN s ELSE 502

-----------------------------------------------------------------------------
(* One call of the fetcher.                                                *)

\* GET /ipfs/:cid of what the store lacks.
Start(f) ==
  /\ phase[f] = "idle"
  /\ chain # <<>>
  /\ phase' = [phase EXCEPT ![f] = "connecting"]
  /\ pos' = [pos EXCEPT ![f] = 1]
  /\ UNCHANGED <<chain, status, tally, past>>

\* A chain of bare slashes is empty once they are stripped: noGatewayConfigured.
StartWithoutGateway(f) ==
  /\ phase[f] = "idle"
  /\ chain = <<>>
  /\ phase' = [phase EXCEPT ![f] = "answered"]
  /\ status' = [status EXCEPT ![f] = 502]
  /\ UNCHANGED <<chain, pos, tally, past>>

\* fetch() resolves.
Headers(f, s) ==
  /\ phase[f] = "connecting"
  /\ phase' = [phase EXCEPT ![f] = "reading"]
  /\ status' = [status EXCEPT ![f] = s]
  /\ UNCHANGED <<chain, pos, tally, past>>

RecordUncounted(b, outcome) ==   \* a miss that leaves no trace
  tally' = IF outcome = "miss" THEN tally
           ELSE [tally EXCEPT ![b].attempts = @ + 1, ![b][outcome] = @ + 1]

Record(b, outcome) ==
  tally' = [tally EXCEPT ![b].attempts = @ + 1, ![b][outcome] = @ + 1]

GoOnUnless(f, s, over) ==
  /\ UNCHANGED chain
  /\ phase' = [phase EXCEPT ![f] = IF over THEN "answered" ELSE "connecting"]
  /\ pos' = [pos EXCEPT ![f] = IF over THEN @ ELSE @ + 1]
  /\ status' = [status EXCEPT ![f] = IF over THEN Relayed(s) ELSE 0]

SettleAtFirst(f, outcome, s) ==   \* any complete response taken for the answer
  /\ Record(chain[pos[f]], outcome)
  /\ past' = [past EXCEPT ![f][pos[f]] = [outcome |-> outcome, status |-> s]]
  /\ GoOnUnless(f, s, outcome \in {"hit", "miss"} \/ pos[f] = Len(chain))

SettlePastEnd(f, outcome, s) ==   \* the end of the chain not looked for
  /\ Record(chain[pos[f]], outcome)
  /\ past' = [past EXCEPT ![f][pos[f]] = [outcome |-> outcome, status |-> s]]
  /\ GoOnUnless(f, s, outcome = "hit")

\* The attempt is recorded; a 2xx, or the last gateway's failure, is the answer.
Settle(f, outcome, s) ==
  /\ Record(chain[pos[f]], outcome)
  /\ past' = [past EXCEPT ![f][pos[f]] = [outcome |-> outcome, status |-> s]]
  /\ GoOnUnless(f, s, outcome = "hit" \/ pos[f] = Len(chain))

\* arrayBuffer() resolves.
Body(f) ==
  /\ phase[f] = "reading"
  /\ Settle(f, IF status[f] = 200 THEN "hit" ELSE "miss", status[f])

Awaiting(f) == phase[f] \in {"connecting", "reading"}

TimeoutCleared(f) ==   \* the timer cleared once the headers are there
  /\ phase[f] = "connecting"
  /\ Settle(f, "timeout", 504)

\* The AbortController's timer fires.
Timeout(f) ==
  /\ Awaiting(f)
  /\ Settle(f, "timeout", 504)

\* DNS, connection or protocol failure, of the request or of the body.
NetError(f) ==
  /\ Awaiting(f)
  /\ Settle(f, "unreachable", 502)

-----------------------------------------------------------------------------
Next ==
  \E f \in Fetch :
    \/ Start(f) \/ StartWithoutGateway(f)
    \/ \E s \in HttpStatus : Headers(f, s)
    \/ Body(f) \/ Timeout(f) \/ NetError(f)

\* Only the timer is sure to happen: a gateway may never answer nor fail.
Fairness == \A f \in Fetch : WF_vars(Timeout(f))

SafetySpec == Init /\ [][Next]_vars
Spec == SafetySpec /\ Fairness

-----------------------------------------------------------------------------
(* GET /admin/status: summarize().                                         *)

Reached(b) == tally[b].hit > 0 \/ tally[b].miss > 0

HealthyOnHit(b) == tally[b].attempts = 0 \/ tally[b].hit > 0   \* a 404 not counted

Healthy(b) == tally[b].attempts = 0 \/ Reached(b)

Note(b) ==
  CASE tally[b].attempts = 0 -> "untested"
    [] ~Healthy(b) /\ tally[b].unreachable = 0 -> "all timed out"
    [] ~Healthy(b) /\ tally[b].timeout = 0 -> "unreachable"
    [] ~Healthy(b) /\ tally[b].timeout > 0 /\ tally[b].unreachable > 0 -> "no contact"
    [] Healthy(b) /\ tally[b].attempts > 0 /\ tally[b].hit = 0 -> "reachable, no hits"
    [] OTHER -> "none"

-----------------------------------------------------------------------------
(* Properties                                                              *)

\* The attempts of all fetches at gateway b that ended in one of outcomes.
Attempts(b, outcomes) ==
  { a \in Fetch \X Position : chain[a[2]] = b /\ past[a[1]][a[2]].outcome \in outcomes }

\* Whatever the fetches interleave, the counters of a gateway are exactly the
\* attempts made at it: none is lost or counted twice, also when the chain
\* names a gateway twice and two positions share a counter.
TallyMatchesTraffic ==
  \A b \in Gateway :
    /\ tally[b].attempts = Cardinality(Attempts(b, Outcome))
    /\ \A o \in Outcome : tally[b][o] = Cardinality(Attempts(b, {o}))

\* "A gateway is healthy: false only when it was tried yet never once reached;
\* a 404 counts as reached" (apps/ipfs/README.md:48), and its note names the
\* failures there were.
HealthTellsTheTruth ==
  \A b \in Gateway :
    LET seen == { o \in Outcome : Attempts(b, {o}) # {} }
    IN  /\ Healthy(b) <=> seen = {} \/ seen \cap {"hit", "miss"} # {}
        /\ Note(b) = "no contact" <=> seen = {"timeout", "unreachable"}
        /\ Note(b) = "all timed out" <=> seen = {"timeout"}
        /\ Note(b) = "unreachable" <=> seen = {"unreachable"}
        /\ Note(b) = "reachable, no hits" <=> "miss" \in seen /\ "hit" \notin seen

\* "the first 2xx wins; a miss/timeout/unreachable falls through to the next"
\* (apps/ipfs/README.md:54), and when all fail the client gets the failure of
\* the last gateway, never one of an earlier gateway or of another fetch.
FirstHitElseLastFailure ==
  \A f \in Fetch : phase[f] = "answered" /\ chain # <<>> =>
    /\ \A i \in Position : past[f][i].outcome = "hit" <=> status[f] = 200 /\ i = pos[f]
    /\ \A i \in Position : past[f][i].outcome # "none" <=> i <= pos[f]
    /\ status[f] # 200 => pos[f] = Len(chain)
    /\ status[f] = Relayed(past[f][pos[f]].status)

\* "we never hang (the fetcher owns the AbortController timeout)" (gateway.ts:18):
\* every fetch is answered even if no gateway ever sends or refuses anything.
NeverHangs == \A f \in Fetch : Awaiting(f) ~> phase[f] = "answered"
=============================================================================
