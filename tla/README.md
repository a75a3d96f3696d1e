# sm-lab in TLA+

sm-lab is a laboratory for testing Lido staking modules: two mock services
(a Beacon API and a Pinata/IPFS emulator), scripts that drive contracts on an
anvil fork, and a few pure tools. This directory specifies the parts of it
that keep state, checks them with TLC on small instances and proves their
safety with TLAPS for every instance.

## 1. The system

| Component | State | Operations that change it | Talks to | What is hard | What makes it correct |
| --- | --- | --- | --- | --- | --- |
| Service scaffold, `packages/core` | the process, the state file, a temp file | boot, `POST /admin/save`, `/admin/load`, `/admin/shutdown`, SIGINT, SIGTERM | its service's store, by `snapshot` and `restore` | kills inside a save, failing writes, requests that outlive the shutdown closure | saves are all or nothing; a shutdown ends once its connections do; a damaged file does not stop the boot |
| Beacon mock, `apps/cl` | validators by public key | admin POST and DELETE, the validators query (which caches what it proxies), load | scaffold; a real Beacon API | the query awaits the upstream between reading and writing the store | configured validators are not replaced by proxied ones; validators can be told apart by index |
| Pin store, `apps/ipfs` | pins by CID, two files per pin, the state file | pin, unpin, cached proxying, load, boot replay | scaffold; gateway chain | kills and full disks between the two files; two persistence mechanisms at once | memory and mirror agree; a restart keeps what was acknowledged |
| Gateway chain, `apps/ipfs` | counters per gateway | one fetch | public gateways | concurrent fetches, stalls in headers or body | every fetch ends; the answer is the first hit or the last failure; counters and health verdicts are true |
| Recipes: gates, `tools/recipes` | gate trees, pause and impersonation flags of the fork | allow-lists, curated and vetted creations, pause and resume | anvil, contracts, merkle | recipes that overlap; a failed step in the middle; values read before and used after other writes | gate trees are restored; allow-lists never lose members; nobody is left impersonated |
| Recipes: rewards, `recipes/rewards.ts` | the clock, votes, pending shares and tree of the fork | `make-rewards`, `submit-rewards` | oracle contracts, merkle | the frame moves while members vote; a report that was funded and never accepted; a tree carried from frame to frame | no operator is promised more than was paid out and what callers carried forward beyond it; a report that is alone is accepted |
| Recipes: keys, `recipes/*.ts`, `cm/index.ts` | keys, bonds, managers, groups and exits on the fork; the cl mock | some thirty recipes, each a sequence of reads and impersonated writes | anvil, contracts, the Beacon mock | work lists built before the writes, which the contracts may refuse; several writes of which one fails; requests sent again by the transport | a recipe that is alone fails only for a reason the contracts gave, and does all of what it is for; the mock shows what the fork says |
| Survey, `tools/survey` | rows of a database | rotation, members, form and reset commands, scenarios | PostgreSQL through Prisma | commands that overlap, checks outside the transaction, kills between two statements | one open request per operator; approved is applied; no circular wait |
| Merkle, `tools/merkle` | none | none (it pins through a service) | the pin store or Pinata | the choice of endpoint | never pins where it cannot, never skips where it can; a guard that passed is followed by a pin or an error |
| Keys, receipts, build files, docker, command lines | none, or generated files | none | | | |

The two services are Node programs: a handler runs without interruption until
it awaits something, and file system calls of the state file and of the mirror
are synchronous. So the models let handlers interleave only at their awaits,
and let the process die, or a file system call fail, anywhere.

## 2. The modules

```
DurableState      what a process with a state file promises            (abstract)
  ^ implemented by
StateFile         scaffold: boot, save, load, shutdown, crash          StateFile_proofs
  | its contract is used by
  +-- ClMock      validators, admin routes, query through an upstream  ClMock_proofs
  +-- IpfsMock    pins, mirror, proxy-and-cache, boot replay           IpfsMock_proofs
        | sees a fetch of
        GatewayChain  fallback chain, timeouts, counters, health       GatewayChain_proofs

GateTree          recipes that change a gate, over one fork            GateTree_proofs
KeyRecipes        recipes about keys, bonds, groups, exits, cl mock    KeyRecipes_proofs
RewardsReport     reward reports from frame to frame                   RewardsReport_proofs
  | extends
  PinTarget       where and whether merkle pins                  (operators)

Survey            commands on one database, statement by statement     Survey_proofs
```

`MC*.tla` and the `.cfg` files give the constants values for TLC. Definitions
that no action uses and whose name says what they leave out (`BootRethrows`,
`OpenInPlace`, `AnswerUnchecked`, `TimeoutCleared`, ...) are plausible bugs: put in the place of
the definition that follows them, they break the property they are paired with in
`PROJECT.json`.

**DurableState** has the process (`up`), its store (`mem`) and the file
(`disk`). The file changes only by becoming the whole store, a store read from
it is what was saved, and a process that is down has no store.

**StateFile** is `startServer`, `registerStateRoutes`, `saveStateToFile` and
`registerAdminRoutes`. `io` is the program counter of a save (`OpenTmp`, `WriteTmp`,
`Rename`, or `Fail` at any of them); a save blocks every handler (`Idle`). A
handler that awaits is `Begin` and then `Finish` or `GiveUp`, so the shutdown closure
(`TimerFires`, `Signal`) may run in between, and more than once. The store
is a map, of which a handler changes what it likes, late as well (`Change`): it adds,
replaces and removes. `kept` are the connections with a request in flight when
`server.close` is called, which stay open and may bring more requests until
they end (`HangUp`); the process exits when none is left. A service
without `--state` has no file and no save: what is left of it is the part of
these actions that does not touch a file. `Crash` is the death of the
process, not a power failure: what was written stays written.

**ClMock** is `ValidatorStore`, the admin routes and the validators endpoint. A
public key stands for all its spellings, for the store lowercases every key. Of
an entry it keeps the status and the index, which only an upstream supplies.
`Query` reads the store and builds the local part of the answer, `Answer` stores and
appends what the upstream said, whenever that is; the upstream says of each id
asked what it likes, or nothing, and is right about indices. Save, load and
restart are single steps over the contract of DurableState.

**IpfsMock** is `PinStore`, the pinning routes, the gateway and the boot. A
handler has a set of CIDs to erase and then pins to write; each goes through the
map (`TakeErase`, `TakeWrite`) and then through the file system calls of the
mirror (`Execute`, or `DiskFails`), in the order of the code; truncating
a file and writing it are two calls, because a kill can come between them.
`Boot` replays the mirror and restores the state file over it. Bytes
are the right ones or cut ones; metadata says whether a pin was requested or
proxied. `fetching` has the CID that each request to the gateway is waiting for: the
gateway does not join requests, so several may fetch one CID and each stores its answer.
The upstream sends the right bytes.

**GatewayChain** is `createUpstreamFetcher` with `record` and `summarize`. A
fetch is in the headers or in the body of the attempt at one position of the chain;
`Timeout` and `NetError` can end either. The chain is what
`resolveGateways` produced, with repeats if the user wrote any. `IpfsMock` sees the whole of it
as `GetMiss` followed by `CacheUpstream` or `UpstreamFails`.

**GateTree** is `actAs` and the recipes around it that change one entry gate. A
recipe is a process whose next RPC is `at[p]`: the section of the recipe (`read`, `install`,
`open` to resume a paused gate, `create`, `restore`, `switch` for pause and resume) and the
call. `Throw` is the unwinding of an error: to the `finally` of `actAs` inside a bracket,
then to that of `createCuratedOperator` if the creation fails, else out. Each RPC can
be lost before or after the fork carried it out (`LoseRequest`, `LoseReply`), and the client
can be killed (`Die`). A root stands for the set of its leaves and a CID for what can be
fetched by it; root and CID are read by two RPCs, so a snapshot can be torn. Grants of roles
are idempotent and belong to the transaction that follows them. The history variables
say whether the latest run overlapped another (`solo`), what it found (`before`), where it met
faults, and whose stop never arrived (`stuck`). The contract's side, `Accepts`, is what
the recipes assume of it: a proof opens its own root, an unchanged root reverts.

**RewardsReport** is `makeRewards` and `submitRewards`. A client's next RPC is `pc[p]`;
between two of them time passes (`Tick`), keys change (`ChangeKeys`) and the other
client runs. A run carries forward whatever its caller says (`previousCumulatives`; `Carried`):
nothing, as the command does, the tree in force, the tree of a report that was never
accepted, or anything else. A tree is the shares of every operator, a vote's hash the
report and its slot. The clock, the frames, the fast lane, the quorum and the distributor are
external: `CanVote` and `CanProcess` say what the recipe relies on. `solo`, `disturbed` and
`changed` say whether the latest run was alone, met a fault and saw keys change; `paid` is what
accepted reports have distributed, `over` the most that a caller carried forward beyond it. `submitRewards`
is given the report that `makeRewards` of the same run made; submitting one report object
twice is left out.

**PinTarget** is the decision of `tools/merkle` where to pin, what its guard refuses, and
what comes of a pin after the guard (`GuardedPins`), which is where
`RewardsReport` takes the outcomes of pinning from.

**KeyRecipes** is every recipe about keys, bonds, managers, penalties, limits,
groups, exits and the cl mock, as a table and one machine. A recipe reads (`ReadOperator`,
`ReadKey`, `ReadGroup`, ..., one per RPC), opens an `actAs` bracket, sends the writes in `todo`
in ascending order (the groups to dissolve in any, for it is that of the pairs), closes it, and
may open another. `First`, `Known`, `Signer` and `AfterWrites`
are the table: which RPC comes first, which writes are known before any read, whom it acts as,
what comes after. `Fork` is one record of what the recipes read of the contracts; `Accepts` and
`Effects` are what the contracts take and do. Their errors are those of the interface in
`fixtures/receipts/src/abi`: a key that was slashed already, a manager who is or is proposed already, a
deposit that the top-up queue has no room for, a report that is not the last. Where the
interface has an error and the repository does not settle its condition, the contract may refuse or not
(`Doubtful`: bond changes and penalties, a penalty without a slashing or a slashing without a
penalty, a low balance, a share of zero), and the effect is a choice too (a bond may or may not be
short, a deposit takes keys of any operators in their order). The pairs of a group may
repeat an operator and have shares of zero. When an answer is lost the write is sent again
(`Again`), any number of times; viem's transport gives up after three.
`exit-request` and `cl-activate` write to the cl mock (`Post`). `warpBy`, `snapshot`
and `revert` are steps of anybody. `begin` is the fork when the latest run began.

**Survey** is the commands of `tools/survey` for one operator and one main address. A client's
next statement is `at[p]`. Rows that a transaction writes are locked (`held`) till it ends and
unseen before; a statement finds its rows (`want`), waits for them and looks at each again
(READ COMMITTED). The partial unique index of `schema.prisma` is `Taken` and `Clashes`. `Die`
is a kill, which rolls the transaction back; reads outside of it, such as `Look`, are
steps of their own. `overlap` and `racing` are histories of what ran at the same time.

## 3. The runs

| Run | Bounds | Shows |
| --- | --- | --- |
| `state_file` | 2 keys of 2 values, 2 connections | `OnlyLateWritesLost`, `ImplementsDurableState`, `ShutdownTerminates`, `AlwaysServesAgain` |
| `state_file_shutdown` | 1 key of 2 values, 2 connections | violation of `SavedOnGracefulShutdown`: finding 1 |
| `cl_mock` | 2 validators, one with a real index in the automatic range, 2 concurrent queries, 5 id lists, 4 bodies | `ConfiguredStays`, `IndicesTellApart` |
| `cl_mock_proxy` | the same, ids that are keys only | violation of `ConfiguredNotProxied`: finding 2 |
| `ipfs_mock` | 2 CIDs, 2 requests to the gateway at a time, both symmetric | `MirrorMatches`, `MirrorSurvivesRestart`, `PinKeepsItsMetadata` |
| `ipfs_mock_state` | the same | violation of `RestartSurvives`: finding 3 |
| `ipfs_mock_torn` | the same | violation of `CanRestart`: finding 4 |
| `gateway_chain` | 2 fetches, chains of 0, 2 and 3 positions, the last with a repeat | `TallyMatchesTraffic`, `HealthTellsTheTruth`, `FirstHitElseLastFailure`, `NeverHangs` |
| `gate_overlap` | 2 clients, one operator, a second leaf, all six recipes | `RestoredWhenAlone`, `NobodyLeftImpersonated`, `AddKeepsMembers`, `AloneFailsOnlyUnchanged` |
| `rewards_report` | 2 clients, one operator of at most one key, 3 members of whom 2 are the fast lane and decide, frames of 2 slots till time 6, draws of one share, nothing or one share carried forward | `Solvent`, `AloneSubmits` |
| `key_recipes` | 2 clients, 2 operators of 2 keys, a top-up queue for 2, 25 scenarios: the commands that share state, with the fork they run on; 3 groups, 2 reports, 2 days | `ExitingWasRequested`, `AloneSucceeds`, `AloneDoes`, `AloneMirrors` |
| `survey` | 2 clients, 2 slots, 2 addresses, 2 rows of a table at a time, 7 mixes of commands | `NoCircularWait`, `ApprovedIsApplied`, `WaitingHasMembers`, `CreateSupersedes`, `ApprovalKeepsOthers`, `SeedIsCurrent` |

Each component has a run that also checks its `TypeOK`. Most state spaces are finite by
themselves, and the bounds are the sizes of the constants. Others limit what is chosen or are guards:
`MaxCarried` is the most an operator's leaf may have that a caller of `RewardsReport` carries forward,
`MaxTime` stops the clock of `RewardsReport`, `MaxDay` that of `KeyRecipes`, where `MaxReport`
keeps an exit request from being prepared and `MaxGroup` a group from being made; and `Id` is the
rows that `Survey` may have of a table, so that a request or a form waits for room.
All are large enough for a thing to happen, to be left half-way, and to happen again.

The sizes are enough because handlers interact through one
entry at a time: two entries are one to be changed and one to be left alone;
two queries, fetches or clients are one to overtake the other; a third gateway is the
middle of a chain. In `gate_overlap` the lists are cut down to one, for a
third value multiplies the torn snapshots. In `rewards_report` two frames hold a report: one
that was accepted or left half-way and one that builds on it; a leaf of one share is what an accepted report
has, or one that was not, or nobody ever paid; one operator is enough, for its shares
are summed up apart from the others'. Two requests to the gateway are enough for one answer to come
after the other was stored, pinned over or unpinned. In `key_recipes` recipes that share nothing would only
multiply each other, so a scenario has those that read what another writes; two keys are a key and
the one behind it in the queue, two operators the one whose key is in front. In
`survey` two slots are one that a request fills and one that it leaves open. Views forget the
local variables of runs that have ended and history that no action and no property asks
for. What the small sizes leave open, the proofs close, but for the properties that are
model-checked only.

Deadlock is checked but in `ipfs_mock`, where a server with
an unparsable mirror stops for good (that is finding 4), and in
`gateway_chain`, where each fetch is made once, so that behaviour ends.

**Fairness.** In `StateFile`: somebody starts the service again (assumed of the
user), a save runs to its end (it is straight-line code), and a due timer and
the drained server are dispatched by the event loop. The
last two are strong, because a signal may start a save again and again and disable
them for its length. Handlers and clients are not fair: `beacon.ts:80` fetches without a timeout and
`admin.ts:33` reads a body for as long as it takes. The code can therefore hang in its
shutdown, and `ShutdownTerminates` is conditional: a shutdown that was asked for ends if, again and again, no
connection that `server.close` left open is still there. In `GatewayChain` only the timer is fair: a gateway may stay
silent for ever. The recipes and `Survey` need none: their
properties are about what has happened, and a client may be killed at any RPC.

## 4. What the runs found

1. The shutdown closure (`packages/core/src/server.ts:57`) saves and then drains.
   A request in flight stores its entry after the save, is answered with success, and
   its entry is not in the file. `OnlyLateWritesLost` is what remains true.
2. `apps/cl` checks its store before the await and writes after it
   (`beacon.ts:116`): a validator configured in between is replaced by the upstream's.
   `ConfiguredStays` is what remains true.
3. With `--persist` and `--state` together, a boot restores the state file over
   the replayed mirror (`store.ts:121`) and deletes the pins made since the
   last save, from disk too. `MirrorSurvivesRestart` holds without `--state`.
4. A kill between truncating and writing a `.json` of the mirror leaves a file that
   makes the constructor of `PinStore` throw (`store.ts:84`) at every later start.

`GateTree` found nothing the recipes promise and break, but it shows how far their promises reach. Two curated
creations that overlap can leave a temporary tree for good. So does a single one
whose `stopImpersonatingAccount` fails after the temporary tree was installed,
because the installing bracket is outside the `try` (`cm/index.ts:59`): `RestoredWhenAlone`
names the faults it covers. An addition on a gate that carries a temporary tree takes it
for empty (`add-gate.ts:61`), so `AddKeepsMembers` asks for a CID that leads to the members. A
gate whose list is exactly an operator and its second leaf cannot create that operator:
the temporary root is the original one and the contract refuses it (`Unchanged`).

Nor did the other three break what the code promises; what their properties leave out says
where the promises end.

- Rewards. `makeRewards` does not look at the tree in force: a caller who carries forward a report
  that was never accepted, as chaining on the last one made can come to
  (`tools/recipes/README.md:171`), promises operators shares nobody paid. `Solvent` says how much: what
  they carried forward beyond the paid, once, however often it is chained on. Its
  mutant carries a report forward by itself. The command line never carries forward
  (`cli/commands/shared.ts:319`), and the same seed over the same keys gives the same tree, which
  the distributor refuses. With a tree CID and no log CID the tree is pinned all the same
  (`rewards.ts:162`).
- Keys. Two exit requests that overlap may both fail, since one's report replaces the other's.
  `confirm-manager` with nothing proposed acts as the zero address (`address-changes.ts:35`). The
  transport repeats a write whose answer was lost (`client.ts:10`), so keys may be added
  more than once and a group that was made may be reported as failed. A revert of the fork leaves
  the cl mock ahead of it, and `cl-activate` takes back an `active_exiting`. Two overlapping
  activations report the same keys. On csm02 the FIFO queue lets keys of other operators block
  `top-up-active-keys`.
- Survey. Of two overlapping creations one may fail on the unique index, or both stay open if
  the first was rejected meanwhile. Two reviews of one request can take an approval back. A later
  review without `--issued` leaves a rejected form issued (`ics.ts:167`), and
  `idvtc-with-members` is two transactions. `members clear` and `reset` strand
  requests with open slots: `WaitingHasMembers` names them.

## 5. The proofs

The theorems hold for every value of the constants that satisfies the
module's `ASSUME`: for `StateFile` and `IpfsMock`, whose sets may be
infinite, that to have nothing is not a value and to fetch nothing not a CID;
for `ClMock`, that upstream indices are naturals and differ between validators;
for `GatewayChain`, that chains are sequences of gateways and that the
fetches are finitely many, which counting them needs; for `GateTree`, that the
administrator of the gate is not an operator and that each operator has a second leaf;
for `RewardsReport`, that the clock's units and the draws are positive naturals and that those
who vote are at least a quorum, on which the recipe relies (`QuorumAssumption`); for `KeyRecipes`,
that operators are finitely many (deposits are counted), that scenarios are made of known
commands and forks, and that a fork a scenario starts from is one the contracts
can be in: deposits took each operator's keys in turn, and the report that VEBO processed last
is no later than the last one (`ForkAssumption`; every step keeps it); for `Survey`, that the ids are finitely many and no clients.

| Module | Theorems | Inductive invariant and why it is needed |
| --- | --- | --- |
| `StateFile_proofs` | `TypeCorrect`, `GracefulStopLosesOnlyLateWrites`, `Refinement` | what the temp file holds at each step of a save, that only the closure leads to `closing`, and that between a good save and the exit the file, the store and `late` are related as the property says |
| `ClMock_proofs` | `TypeCorrect`, `ConfiguredValidatorsStay`, `ValidatorsCanBeToldApart` | that a confirmed validator is in no waiting query by key; that real indices are the upstream's and automatic ones are numbered apart, in the store, the file, the waiting answers and the last one |
| `IpfsMock_proofs` | `TypeCorrect`, `MirrorFollowsTheStore`, `MirrorCarriesPinsOverRestarts`, `ProxyLeavesPinsAlone` | one CID at a time is in the mirror's hands, what its two files hold at each call, that a settled CID is settled in the mirror too, and that a named pin is neither being fetched nor about to be replaced |
| `GatewayChain_proofs` | `TypeCorrect`, `TallyIsExact`, `AnswerIsFirstHitElseLastFailure`, `HealthIsTruthful` | that a fetch has recorded exactly the positions before the one it tries, none of them a hit; a counter is then the cardinality of a set that grows by one new attempt at each step |
| `GateTree_proofs` | `TypeCorrect`, `ImpersonationEnds`, `OriginalTreeComesBack`, `AdditionsKeepMembers`, `FailsOnlyUnchanged` | that every impersonation has an open bracket of its account or was left by a lost stop (`Held`); that a run which is alone keeps its impersonation (`KeepsKey`), without which the restoring transaction could be refused; and, section by section, which tree is installed (`CuratedRun`, `AddRun`), and for a run without faults what it has seen of the root, the pause flag and the tree it will be judged by (`CleanRun`) |
| `RewardsReport_proofs` | `TypeCorrect`, `AlwaysSolvent`, `AloneIsAccepted` | that every tree a client carries forward is below what was paid out and `over` together, which never shrink (`Grows`), and that what it is about to report is that tree and the draws it distributes (`Fine`); a vote's report is the voter's own. For `AloneIsAccepted` (`AInv`): what a run by itself has come to at each RPC, in the tree and the draws (`Drawn`), the funds (`Funded`), the frame (`Timed`) and the votes (`Voted`): the frame has not been processed, and every voter's vote is its report, which makes a quorum |
| `KeyRecipes_proofs` | `TypeCorrect`, `ExitingIsRequested`, `AloneRunsSucceed`, `AloneRunsDo`, `AloneRunsMirror` | that an exit request which no longer has its data to send had it processed, wherever it goes on from there (`Fits`); and what a deposit does to counts and turns (`DepositType`). For the three about a run by itself (`KInv`, theorem `SoloInvariance`): every fork is `Consistent`, and for each command and each of its RPCs what the locals and the next RPC say of the fork now and of the fork it began on (`Sane`): which keys have been topped up or activated so far and which are left, whose impersonation is open, which report is asked for |
| `Survey_proofs` | `TypeCorrect`, `NeverCircular`, `ApprovalsApplied`, `WaitingIsFull`, `ApprovalsKeepOthers`, `CreationSupersedes`, `SeedsAreCurrent` | the order of locks, statement by statement: members before requests before forms (`Ordered`); until two reviews race, one review at a time deals with a request that is not approved (`OneReview`); requests that count on no members row are full (`Filled`). For the last three (`JInv`, theorem `Reliance`): a review that no writer of members overlapped holds the slots and the merged row it will write, a creation or seeding without a rival has found every row it is to supersede, and the form about to be issued is approved (`Relied`), as two commands that run each know of the other (`Mutual`) |

Each module has the same layout: `Init` gives the invariant, each action keeps it
(one step per action, one lemma per conjunct where the conjunct is
disturbed by many), and the invariant gives the property. `Refinement` shows that the
initial states map to initial states and that each step is a step of
DurableState or a stutter: only `Boot`, the handlers, `Rename` and the ends of
the process are steps.

Every safety property that a passing run checks is a theorem. Model-checked only:
`ShutdownTerminates`, `AlwaysServesAgain` and `NeverHangs`, for TLAPS does not reason about
fairness, and the four violations.

## 6. What is not modelled

The stateless parts (command lines, completion, keys, CIDs, tree building, address
books, build and docker files), the endpoints that only read, and what a
component does not decide: the contracts, the gateways, the Beacon node, PostgreSQL and the
operating system, of which the models keep every answer the code can meet. Of the recipes:
`seedCm`, which is a loop over creations that are modelled, `setBondCurveWeight`, the count of
exited keys, reward addresses and account balances, which no other recipe reads, and pausing
the module or the accounting. Of the survey: comments, points, reviewers and the tables only
`reset` touches. A write is carried out in the block of its own transaction and a revert is seen at
once, as anvil mines by default.
Epoch fields, balances, names and times are left out where no property is about
them. `PROJECT.json` lists each part with its reason, and each hazard that no
property covers with a note.

## 7. Plan

1. Done: `DurableState`, `StateFile`, `ClMock`, `IpfsMock`, `GatewayChain`, with
   their proofs.
2. Done: `GateTree` with the proofs of all its properties; `RewardsReport` with `PinTarget`;
   `KeyRecipes`; `Survey`.
3. Done: the properties of runs that nothing overlaps: `AloneSubmits`; `ApprovalKeepsOthers`,
   `CreateSupersedes` and `SeedIsCurrent`; `AloneSucceeds`, `AloneDoes` and `AloneMirrors`,
   command by command.
4. To compose: `KeyRecipes` with `ClMock`, of which it has the entries and not the server.
5. To model: `seedCm` over `GateTree`, whose fixed seed cannot be tried again after it failed
   half-way; two services on one state path.
