------------------------- MODULE GatewayChain_proofs ------------------------
(***************************************************************************)
(* Proofs about GatewayChain for every chain and every finite set of       *)
(* fetches: type correctness, that the counters are the traffic, that the  *)
(* health report follows from it, and which answer a fetch gets.           *)
(***************************************************************************)
EXTENDS GatewayChain, FiniteSetTheorems, TLAPS

\* How far a fetch has got: everything before its position has failed.
Cursor ==
  \A f \in Fetch :
    /\ phase[f] = "idle" => \A i \in Position : past[f][i].outcome = "none"
    /\ Awaiting(f) =>
         \A i \in Position : /\ past[f][i].outcome # "none" <=> i < pos[f]
                             /\ past[f][i].outcome # "hit"
    /\ phase[f] = "reading" => status[f] \in HttpStatus

\* The inductive invariant.
IInv ==
  /\ TypeOK
  /\ Cursor
  /\ TallyMatchesTraffic
  /\ FirstHitElseLastFailure

-----------------------------------------------------------------------------
\* A chain is a sequence of gateways.
LEMMA ChainTypes ==
  ASSUME TypeOK
  PROVE  /\ Len(chain) \in Nat
         /\ Position = 1 .. Len(chain)
         /\ \A i \in Position : chain[i] \in Gateway
         /\ chain = <<>> <=> Len(chain) = 0
BY GatewayAssumption DEF TypeOK, Position

\* There are finitely many attempts.
LEMMA AttemptsFinite ==
  ASSUME TypeOK, NEW b, NEW outcomes
  PROVE  IsFiniteSet(Attempts(b, outcomes)) /\ Cardinality(Attempts(b, outcomes)) \in Nat
<1>1. IsFiniteSet(Position)
  BY ChainTypes, FS_Interval
<1>2. IsFiniteSet(Fetch \X Position)
  BY <1>1, GatewayAssumption, FS_Product
<1>3. Attempts(b, outcomes) \in SUBSET (Fetch \X Position)
  BY DEF Attempts
<1>4. IsFiniteSet(Attempts(b, outcomes))
  BY <1>2, <1>3, FS_Subset
<1> QED
  BY <1>4, FS_CardinalityType

\* No fetch has started: nothing is counted and there is nothing to count.
LEMMA InitInvariant == Init => IInv
<1> SUFFICES ASSUME Init PROVE IInv
  OBVIOUS
<1>1. TypeOK
  BY DEF Init, TypeOK, Phase, Counts, NoCounts, End, NoEnd
<1>2. Cursor /\ FirstHitElseLastFailure
  BY DEF Init, Cursor, FirstHitElseLastFailure, Awaiting, NoEnd
<1>3. ASSUME NEW b \in Gateway, NEW outcomes \in SUBSET Outcome
      PROVE  Cardinality(Attempts(b, outcomes)) = 0
  <2>1. Attempts(b, outcomes) = {}
    BY DEF Init, Attempts, NoEnd, Outcome
  <2> QED
    BY <2>1, FS_EmptySet
<1>4. \A b \in Gateway, k \in {"attempts"} \cup Outcome : tally[b][k] = 0
  BY DEF Init, NoCounts
<1>5. TallyMatchesTraffic
  BY <1>3, <1>4 DEF TallyMatchesTraffic
<1> QED
  BY <1>1, <1>2, <1>5 DEF IInv

\* A fetch that starts, or gets its headers, leaves the past alone.
LEMMA WaitStep ==
  ASSUME IInv, NEW f \in Fetch,
         Start(f) \/ StartWithoutGateway(f) \/ \E s \in HttpStatus : Headers(f, s)
  PROVE  IInv'
<1>1. UNCHANGED <<chain, tally, past>> /\ Position' = Position
  BY DEF Start, StartWithoutGateway, Headers, Position
<1>2. TallyMatchesTraffic'
  BY <1>1 DEF IInv, TallyMatchesTraffic, Attempts
<1>3. TypeOK'
  <2>1. /\ phase' \in [Fetch -> Phase]
        /\ pos' \in [Fetch -> Nat]
        /\ status' \in [Fetch -> HttpStatus \cup {0}]
    <3>1. CASE Start(f)
      BY <3>1 DEF IInv, TypeOK, Start, Phase
    <3>2. CASE StartWithoutGateway(f)
      BY <3>2 DEF IInv, TypeOK, StartWithoutGateway, Phase, HttpStatus
    <3>3. ASSUME NEW s \in HttpStatus, Headers(f, s)
          PROVE  /\ phase' \in [Fetch -> Phase]
                 /\ pos' \in [Fetch -> Nat]
                 /\ status' \in [Fetch -> HttpStatus \cup {0}]
      BY <3>3 DEF IInv, TypeOK, Headers, Phase
    <3> QED
      BY <3>1, <3>2, <3>3
  <2>2. \A g \in Fetch : phase'[g] \in {"connecting", "reading"} => pos'[g] \in Position
    BY ChainTypes DEF IInv, TypeOK, Start, StartWithoutGateway, Headers
  <2> QED
    BY <1>1, <2>1, <2>2 DEF IInv, TypeOK
<1>4. Cursor'
  BY <1>1, ChainTypes
     DEF IInv, TypeOK, Cursor, Awaiting, Start, StartWithoutGateway, Headers
<1>5. FirstHitElseLastFailure'
  BY <1>1 DEF IInv, TypeOK, FirstHitElseLastFailure, Start, StartWithoutGateway, Headers
<1> QED
  BY <1>2, <1>3, <1>4, <1>5 DEF IInv

\* An attempt that ends is one attempt more at its gateway.
LEMMA SettleCounts ==
  ASSUME IInv, NEW f \in Fetch, Awaiting(f),
         NEW o \in Outcome, NEW s \in HttpStatus, Settle(f, o, s)
  PROVE  TallyMatchesTraffic' /\ tally' \in [Gateway -> Counts]
<1> DEFINE b0 == chain[pos[f]]
           a0 == <<f, pos[f]>>
<1>1. TypeOK /\ pos[f] \in Position /\ b0 \in Gateway /\ past[f][pos[f]].outcome = "none"
  BY ChainTypes DEF IInv, TypeOK, Cursor, Awaiting
<1>2. chain' = chain /\ Position' = Position
  BY DEF Settle, GoOnUnless, Position
<1>3. \A g \in Fetch, i \in Position : past'[g][i] =
        IF g = f /\ i = pos[f] THEN [outcome |-> o, status |-> s] ELSE past[g][i]
  BY <1>1 DEF Settle, TypeOK
<1>4. \A g \in Fetch, i \in Position : past'[g][i].outcome =
        IF g = f /\ i = pos[f] THEN o ELSE past[g][i].outcome
  BY <1>3
<1>5. ASSUME NEW b \in Gateway, NEW outcomes \in SUBSET Outcome
      PROVE  Cardinality(Attempts(b, outcomes)') =
               IF b = b0 /\ o \in outcomes THEN Cardinality(Attempts(b, outcomes)) + 1
               ELSE Cardinality(Attempts(b, outcomes))
  <2>1. a0 \notin Attempts(b, outcomes)
    BY <1>1 DEF Attempts, Outcome
  <2>2. CASE b = b0 /\ o \in outcomes
    <3>1. Attempts(b, outcomes)' = Attempts(b, outcomes) \cup {a0}
      BY <1>1, <1>2, <1>4, <2>2 DEF Attempts
    <3> QED
      BY <1>1, <2>1, <2>2, <3>1, AttemptsFinite, FS_AddElement
  <2>3. CASE ~(b = b0 /\ o \in outcomes)
    <3>1. Attempts(b, outcomes)' = Attempts(b, outcomes)
      BY <1>1, <1>2, <1>4, <2>3 DEF Attempts, Outcome
    <3> QED
      BY <2>3, <3>1
  <2> QED
    BY <2>2, <2>3
<1>6. \A b \in Gateway, k \in {"attempts"} \cup Outcome : tally'[b][k] =
        IF b = b0 /\ k \in {"attempts", o} THEN tally[b][k] + 1 ELSE tally[b][k]
  BY <1>1 DEF Settle, Record, TypeOK, Counts, Outcome
<1>7. TallyMatchesTraffic'
  <2>1. ASSUME NEW b \in Gateway
        PROVE  tally'[b]["attempts"] = Cardinality(Attempts(b, Outcome)')
    <3>1. tally[b]["attempts"] = Cardinality(Attempts(b, Outcome))
      BY DEF IInv, TallyMatchesTraffic
    <3> QED
      BY <1>5, <1>6, <3>1
  <2>2. ASSUME NEW b \in Gateway, NEW k \in Outcome
        PROVE  tally'[b][k] = Cardinality(Attempts(b, {k})')
    <3>1. tally[b][k] = Cardinality(Attempts(b, {k}))
      BY DEF IInv, TallyMatchesTraffic
    <3>2. k # "attempts" /\ {k} \in SUBSET Outcome
      BY DEF Outcome
    <3>3. tally'[b][k] = IF b = b0 /\ k = o THEN tally[b][k] + 1 ELSE tally[b][k]
      BY <1>6, <3>2
    <3>4. Cardinality(Attempts(b, {k})') =
            IF b = b0 /\ k = o THEN Cardinality(Attempts(b, {k})) + 1
            ELSE Cardinality(Attempts(b, {k}))
      BY <1>5, <3>2
    <3> QED
      BY <3>1, <3>3, <3>4
  <2> QED
    BY <2>1, <2>2 DEF TallyMatchesTraffic
<1>8. tally' \in [Gateway -> Counts]
  <2>1. \A b \in Gateway : tally[b] \in Counts
    BY <1>1 DEF TypeOK
  <2>2. tally' = [tally EXCEPT ![b0] = [tally[b0] EXCEPT !["attempts"] = @ + 1, ![o] = @ + 1]]
    BY DEF Settle, Record
  <2>3. [tally[b0] EXCEPT !["attempts"] = @ + 1, ![o] = @ + 1] \in Counts
    BY <1>1, <2>1 DEF Counts
  <2> HIDE DEF b0
  <2> QED
    BY <1>1, <2>2, <2>3 DEF TypeOK
<1> QED
  BY <1>7, <1>8

\* Where an attempt that ended leaves its fetch.
LEMMA SettleMoves ==
  ASSUME IInv, NEW f \in Fetch, Awaiting(f),
         NEW o \in Outcome, NEW s \in HttpStatus, o = "hit" <=> s = 200,
         Settle(f, o, s)
  PROVE  IInv'
<1> DEFINE over == o = "hit" \/ pos[f] = Len(chain)
<1>1. TypeOK /\ Cursor /\ FirstHitElseLastFailure
  BY DEF IInv
<1>2. pos[f] \in Position /\ Position = 1 .. Len(chain) /\ Len(chain) \in Nat
  BY <1>1, ChainTypes DEF TypeOK, Awaiting
<1>3. chain' = chain /\ Position' = Position
  BY DEF Settle, GoOnUnless, Position
<1>4. /\ phase' = [phase EXCEPT ![f] = IF over THEN "answered" ELSE "connecting"]
      /\ pos' = [pos EXCEPT ![f] = IF over THEN @ ELSE @ + 1]
      /\ status' = [status EXCEPT ![f] = IF over THEN Relayed(s) ELSE 0]
  BY DEF Settle, GoOnUnless
<1>5. /\ past' = [past EXCEPT ![f][pos[f]] = [outcome |-> o, status |-> s]]
      /\ past' \in [Fetch -> [Position -> End]]
  <2>1. [outcome |-> o, status |-> s] \in End
    BY DEF End
  <2>2. past' = [past EXCEPT ![f] =
                    [past[f] EXCEPT ![pos[f]] = [outcome |-> o, status |-> s]]]
    BY DEF Settle
  <2>3. past[f] \in [Position -> End] /\ past \in [Fetch -> [Position -> End]]
    BY <1>1 DEF TypeOK
  <2>4. [past[f] EXCEPT ![pos[f]] = [outcome |-> o, status |-> s]] \in [Position -> End]
    BY <1>2, <2>1, <2>3
  <2> QED
    BY <2>2, <2>3, <2>4
<1>6. \A g \in Fetch \ {f} : /\ phase'[g] = phase[g] /\ pos'[g] = pos[g]
                             /\ status'[g] = status[g] /\ past'[g] = past[g]
  BY <1>1, <1>4, <1>5 DEF TypeOK
<1>7. \A i \in Position : past'[f][i] =
        IF i = pos[f] THEN [outcome |-> o, status |-> s] ELSE past[f][i]
  BY <1>1, <1>5 DEF TypeOK
<1>8. \A i \in Position : past'[f][i].outcome = IF i = pos[f] THEN o ELSE past[f][i].outcome
  BY <1>7
<1>9. /\ over => phase'[f] = "answered" /\ pos'[f] = pos[f] /\ status'[f] = Relayed(s)
      /\ ~over => phase'[f] = "connecting" /\ pos'[f] = pos[f] + 1 /\ status'[f] = 0
  BY <1>1, <1>4 DEF TypeOK
<1>10. Relayed(s) \in HttpStatus /\ (Relayed(s) = 200 <=> o = "hit")
  BY DEF Relayed, HttpStatus
<1>11. o # "none"
  BY DEF Outcome
<1>12. \A i \in Position : /\ past[f][i].outcome # "none" <=> i < pos[f]
                           /\ past[f][i].outcome # "hit"
  BY <1>1 DEF Cursor
<1> HIDE DEF over
<1>13. TypeOK'
  <2>1. phase' \in [Fetch -> Phase] /\ status' \in [Fetch -> HttpStatus \cup {0}]
    BY <1>1, <1>4, <1>10 DEF TypeOK, Phase
  <2>2. pos' \in [Fetch -> Nat]
    BY <1>1, <1>4 DEF TypeOK
  <2>3. \A g \in Fetch : phase'[g] \in {"connecting", "reading"} => pos'[g] \in Position
    BY <1>1, <1>2, <1>6, <1>9 DEF TypeOK, over
  <2>4. tally' \in [Gateway -> Counts]
    BY SettleCounts
  <2>5. chain' \in Chains /\ past' \in [Fetch -> [Position' -> End]]
    BY <1>1, <1>3, <1>5 DEF TypeOK
  <2> QED
    BY <1>3, <2>1, <2>2, <2>3, <2>4, <2>5 DEF TypeOK
<1>14. Cursor'
  <2>1. ASSUME NEW g \in Fetch, g # f
        PROVE  /\ phase'[g] = "idle" => \A i \in Position : past'[g][i].outcome = "none"
               /\ phase'[g] \in {"connecting", "reading"} =>
                    \A i \in Position : /\ past'[g][i].outcome # "none" <=> i < pos'[g]
                                        /\ past'[g][i].outcome # "hit"
               /\ phase'[g] = "reading" => status'[g] \in HttpStatus
    BY <1>1, <1>6, <2>1 DEF Cursor, Awaiting
  <2>2. CASE over
    BY <1>3, <1>9, <2>1, <2>2 DEF Cursor, Awaiting
  <2>3. CASE ~over
    <3>1. \A i \in Position : i < pos'[f] <=> i < pos[f] \/ i = pos[f]
      BY <1>2, <1>9, <2>3
    <3>2. \A i \in Position : /\ past'[f][i].outcome # "none" <=> i < pos'[f]
                              /\ past'[f][i].outcome # "hit"
      BY <1>8, <1>11, <1>12, <2>3, <3>1 DEF over
    <3> QED
      BY <1>3, <1>9, <2>1, <2>3, <3>2 DEF Cursor, Awaiting
  <2> QED
    BY <2>2, <2>3
<1>15. FirstHitElseLastFailure'
  <2>1. ASSUME NEW g \in Fetch, g # f, phase'[g] = "answered", chain' # <<>>
        PROVE  /\ \A i \in Position : past'[g][i].outcome = "hit" <=> status'[g] = 200 /\ i = pos'[g]
               /\ \A i \in Position : past'[g][i].outcome # "none" <=> i <= pos'[g]
               /\ status'[g] # 200 => pos'[g] = Len(chain)
               /\ status'[g] = Relayed(past'[g][pos'[g]].status)
    BY <1>1, <1>3, <1>6, <2>1 DEF FirstHitElseLastFailure
  <2>2. ASSUME phase'[f] = "answered"
        PROVE  /\ \A i \in Position : past'[f][i].outcome = "hit" <=> status'[f] = 200 /\ i = pos'[f]
               /\ \A i \in Position : past'[f][i].outcome # "none" <=> i <= pos'[f]
               /\ status'[f] # 200 => pos'[f] = Len(chain)
               /\ status'[f] = Relayed(past'[f][pos'[f]].status)
    <3>1. over /\ pos'[f] = pos[f] /\ status'[f] = Relayed(s)
      BY <1>9, <2>2
    <3>2. \A i \in Position : i <= pos[f] <=> i < pos[f] \/ i = pos[f]
      BY <1>2
    <3>3. \A i \in Position : past'[f][i].outcome # "none" <=> i <= pos'[f]
      BY <1>8, <1>11, <1>12, <3>1, <3>2
    <3>4. \A i \in Position : past'[f][i].outcome = "hit" <=> status'[f] = 200 /\ i = pos'[f]
      BY <1>8, <1>10, <1>12, <3>1
    <3>5. past'[f][pos'[f]].status = s
      BY <1>2, <1>7, <3>1
    <3> QED
      BY <1>10, <3>1, <3>3, <3>4, <3>5 DEF over
  <2> QED
    BY <1>3, <2>1, <2>2 DEF FirstHitElseLastFailure
<1> QED
  BY <1>13, <1>14, <1>15, SettleCounts DEF IInv

\* Every step preserves the invariant.
LEMMA InvariantStep == IInv /\ [Next]_vars => IInv'
<1> SUFFICES ASSUME IInv, [Next]_vars PROVE IInv'
  OBVIOUS
<1>1. ASSUME NEW f \in Fetch,
             Start(f) \/ StartWithoutGateway(f) \/ \E s \in HttpStatus : Headers(f, s)
      PROVE  IInv'
  BY <1>1, WaitStep
<1>2. ASSUME NEW f \in Fetch, Body(f)
      PROVE  IInv'
  <2>1. status[f] \in HttpStatus /\ Awaiting(f)
    BY <1>2 DEF IInv, Cursor, Body, Awaiting
  <2>2. CASE status[f] = 200
    BY <1>2, <2>1, <2>2, SettleMoves DEF Body, Outcome
  <2>3. CASE status[f] # 200
    BY <1>2, <2>1, <2>3, SettleMoves DEF Body, Outcome
  <2> QED
    BY <2>2, <2>3
<1>3. ASSUME NEW f \in Fetch, Timeout(f) \/ NetError(f)
      PROVE  IInv'
  BY <1>3, SettleMoves DEF Timeout, NetError, Outcome, HttpStatus
<1>4. CASE UNCHANGED vars
  <2>1. TypeOK'
    BY <1>4 DEF IInv, TypeOK, vars, Position
  <2>2. Cursor' /\ FirstHitElseLastFailure'
    BY <1>4 DEF IInv, Cursor, FirstHitElseLastFailure, Awaiting, vars, Position
  <2>3. TallyMatchesTraffic'
    BY <1>4 DEF IInv, TallyMatchesTraffic, Attempts, vars, Position
  <2> QED
    BY <2>1, <2>2, <2>3 DEF IInv
<1> QED
  BY <1>1, <1>2, <1>3, <1>4 DEF Next

-----------------------------------------------------------------------------
\* The strengthening holds in every reachable state.
THEOREM Invariance == SafetySpec => []IInv
BY InitInvariant, InvariantStep, PTL DEF SafetySpec

\* The counters and the fetches keep their types, whatever the chain is.
THEOREM TypeCorrect == SafetySpec => []TypeOK
<1>1. IInv => TypeOK
  BY DEF IInv
<1> QED
  BY <1>1, Invariance, PTL

\* However many fetches interleave over however long a chain, the counters
\* are the attempts that were made.
THEOREM TallyIsExact == SafetySpec => []TallyMatchesTraffic
<1>1. IInv => TallyMatchesTraffic
  BY DEF IInv
<1> QED
  BY <1>1, Invariance, PTL

\* Every fetch is answered with the first hit of the chain, or else with the
\* failure of its last gateway.
THEOREM AnswerIsFirstHitElseLastFailure == SafetySpec => []FirstHitElseLastFailure
<1>1. IInv => FirstHitElseLastFailure
  BY DEF IInv
<1> QED
  BY <1>1, Invariance, PTL

\* A counter is zero exactly when there was no such attempt.
LEMMA CountersShowWhatWasSeen ==
  ASSUME TypeOK, TallyMatchesTraffic, NEW b \in Gateway
  PROVE  /\ \A o \in Outcome : tally[b][o] \in Nat /\ (tally[b][o] = 0 <=> Attempts(b, {o}) = {})
         /\ tally[b]["attempts"] \in Nat
         /\ tally[b]["attempts"] = 0 <=> \A o \in Outcome : Attempts(b, {o}) = {}
<1>1. ASSUME NEW outcomes
      PROVE  /\ Cardinality(Attempts(b, outcomes)) \in Nat
             /\ Cardinality(Attempts(b, outcomes)) = 0 <=> Attempts(b, outcomes) = {}
  BY AttemptsFinite, FS_EmptySet
<1>2. Attempts(b, Outcome) = {} <=> \A o \in Outcome : Attempts(b, {o}) = {}
  BY DEF Attempts
<1>3. /\ tally[b]["attempts"] = Cardinality(Attempts(b, Outcome))
      /\ \A o \in Outcome : tally[b][o] = Cardinality(Attempts(b, {o}))
  BY DEF TallyMatchesTraffic
<1> QED
  BY <1>1, <1>2, <1>3

\* The verdict and the note of GET /admin/status are those the attempts call
\* for, after any traffic over any chain.
THEOREM HealthIsTruthful == SafetySpec => []HealthTellsTheTruth
<1>1. ASSUME TypeOK, TallyMatchesTraffic PROVE HealthTellsTheTruth
  <2> SUFFICES ASSUME NEW b \in Gateway
               PROVE  LET seen == { o \in Outcome : Attempts(b, {o}) # {} }
                      IN  /\ Healthy(b) <=> seen = {} \/ seen \cap {"hit", "miss"} # {}
                          /\ Note(b) = "no contact" <=> seen = {"timeout", "unreachable"}
                          /\ Note(b) = "all timed out" <=> seen = {"timeout"}
                          /\ Note(b) = "unreachable" <=> seen = {"unreachable"}
                          /\ Note(b) = "reachable, no hits" <=>
                               "miss" \in seen /\ "hit" \notin seen
    BY DEF HealthTellsTheTruth
  <2> DEFINE seen == { o \in Outcome : Attempts(b, {o}) # {} }
             count(k) == tally[b][k]
  <2>1. \A o \in Outcome : count(o) \in Nat /\ (o \in seen <=> count(o) > 0)
    BY <1>1, CountersShowWhatWasSeen
  <2>2. count("attempts") \in Nat /\ (count("attempts") = 0 <=> seen = {})
    BY <1>1, CountersShowWhatWasSeen
  <2>3. seen \subseteq Outcome
    OBVIOUS
  <2> HIDE DEF seen
  <2>4. Healthy(b) <=> seen = {} \/ "hit" \in seen \/ "miss" \in seen
    BY <2>1, <2>2 DEF Healthy, Reached, Outcome
  <2>5. seen = {} <=> /\ "hit" \notin seen /\ "miss" \notin seen
                      /\ "timeout" \notin seen /\ "unreachable" \notin seen
    BY <2>3 DEF Outcome
  <2>6. Note(b) = CASE seen = {} -> "untested"
                    [] ~Healthy(b) /\ "unreachable" \notin seen -> "all timed out"
                    [] ~Healthy(b) /\ "timeout" \notin seen -> "unreachable"
                    [] ~Healthy(b) /\ "timeout" \in seen /\ "unreachable" \in seen -> "no contact"
                    [] Healthy(b) /\ seen # {} /\ "hit" \notin seen -> "reachable, no hits"
                    [] OTHER -> "none"
    <3>1. /\ count("unreachable") = 0 <=> "unreachable" \notin seen
          /\ count("timeout") = 0 <=> "timeout" \notin seen
          /\ count("hit") = 0 <=> "hit" \notin seen
          /\ count("timeout") > 0 <=> "timeout" \in seen
          /\ count("unreachable") > 0 <=> "unreachable" \in seen
          /\ count("attempts") > 0 <=> seen # {}
      BY <2>1, <2>2 DEF Outcome
    <3> QED
      BY <2>2, <3>1 DEF Note
  <2>7. /\ Note(b) = "no contact" <=> ~Healthy(b) /\ "timeout" \in seen /\ "unreachable" \in seen
        /\ Note(b) = "all timed out" <=> ~Healthy(b) /\ "unreachable" \notin seen
        /\ Note(b) = "unreachable" <=> ~Healthy(b) /\ "timeout" \notin seen
        /\ Note(b) = "reachable, no hits" <=> Healthy(b) /\ seen # {} /\ "hit" \notin seen
    BY <2>4, <2>5, <2>6
  <2>8. /\ seen = {"timeout", "unreachable"} <=>
             ~Healthy(b) /\ "timeout" \in seen /\ "unreachable" \in seen
        /\ seen = {"timeout"} <=> ~Healthy(b) /\ "unreachable" \notin seen
        /\ seen = {"unreachable"} <=> ~Healthy(b) /\ "timeout" \notin seen
    <3>1. ~Healthy(b) <=> seen # {} /\ seen \subseteq {"timeout", "unreachable"}
      BY <2>3, <2>4 DEF Outcome
    <3>2. seen = {"timeout", "unreachable"} <=>
            ~Healthy(b) /\ "timeout" \in seen /\ "unreachable" \in seen
      BY <3>1
    <3>3. seen = {"timeout"} <=> ~Healthy(b) /\ "unreachable" \notin seen
      BY <3>1
    <3>4. seen = {"unreachable"} <=> ~Healthy(b) /\ "timeout" \notin seen
      BY <3>1
    <3> QED
      BY <3>2, <3>3, <3>4
  <2>9. seen \cap {"hit", "miss"} # {} <=> "hit" \in seen \/ "miss" \in seen
    OBVIOUS
  <2>10. "miss" \in seen /\ "hit" \notin seen <=> Healthy(b) /\ seen # {} /\ "hit" \notin seen
    BY <2>4, <2>5
  <2> QED
    BY <2>4, <2>7, <2>8, <2>9, <2>10 DEF seen
<1>2. IInv => HealthTellsTheTruth
  BY <1>1 DEF IInv
<1> QED
  BY <1>2, Invariance, PTL
=============================================================================
