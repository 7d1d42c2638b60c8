# TLA+ models of b3scale

This directory holds TLA+ models of b3scale, the load balancer for BigBlueButton
whose Go sources are under `src/`. It contains:

- the modules, one per component, each with its state, its actions and its
  properties;
- the `MC_*` modules and `.cfg` files that model-check them with TLC on small
  instances;
- six proof modules, checked by TLAPS, that prove the central properties for
  every value of the constants;
- `PROJECT.json`, which maps every modelled definition to the source lines it
  translates and lists the runs, mutants, findings, hazards and theorems.

To parse, check and prove, from this directory:

```
tlasany CommandQueue.tla
tlc -workers 2 -config MC_CommandQueue.cfg MC_CommandQueue
tlapm CommandQueueProofs.tla
```

## The system and how its parts interact

b3scale stands between API clients and a pool of BigBlueButton nodes. Its
parts share a PostgreSQL store and talk to each other through it:

- **b3scaled** (the gateway, package `cluster`: `Backend` and `Controller` in
  `src/unnamed/part_000`, and `pkg/cluster`): one or more instances.
  - Each instance serves create requests. `Backend.Create` reads the meeting's
    row, asks the node whether the meeting runs, forwards the create, and
    records the row.
  - Each instance probes the nodes (`Backend.loadNodeState`) and syncs their
    meetings lists into the store (`BackendState.SetMeetings`).
  - Each instance consumes commands from the table-backed queue
    (`pkg/store/command_queue.go`).
  - Meeting-to-backend associations may be kept in redis
    (`pkg/cluster/rib_redis.go`).
- **b3scalenoded** (the node agent, `cmd/b3scalenoded`): one per node.
  - At start-up it finds or registers its node's backend row (`config.go`).
  - It then keeps the node's meeting rows up to date from the node's event
    stream (`handler.go`).
- **The operator** writes the backends' admin state and settings.

The concurrency that matters is between these actors. Examples:

- two gateway instances claiming commands;
- a create racing the meeting sync and the probe;
- the agent's events racing the gateway's insert of a meeting row;
- several node agents starting against one backends table.

## Modules

| Module | Models | State | Actions |
|---|---|---|---|
| `CommandQueue` | `pkg/store/command_queue.go`, `Controller` in `unnamed/part_000` | rows (`status`, `created`, `result`), clock `now`, each consumer's `pc` and `claimed` row; history counters `handled`, `commits` | `Queue`, `Claim` (FOR UPDATE SKIP LOCKED, deadline check), `Handle`, `Commit`, `Abort` (deferred Rollback), `DeleteExpired`, `Tick` |
| `EventHandler` | `cmd/b3scalenoded/handler.go` | the node's meetings and users, the replica rows (`row`, `running`, `attendees`), the event channel, the handler's `hpc` | the node's create/join/leave/end/destroy publishing events, `GatewayRecord`, `Dispatch`, `HandleEvent`, `AwaitFound`, `AwaitTimeout` |
| `BackendAgent` | `Backend` in `unnamed/part_000`, `pkg/store/meeting_state.go` | node meeting set `upstream`, meeting `rows`, backend row and in-memory copy (`dbNode`, `dbAdmin`, `memNode`, `memAdmin`), the create requests' `cpc`, the sync's `spc` | `Probe` with `SaveState`, `CreateRead` (with the lookup `MeetingStateFound`)/`CreateProbe`/`CreateForward`/`CreateRecord` (with `CreateMeetingState` or `MeetingStateSave`, whose update always fails), `SyncFetch`/`SyncClear`/`SyncInsert`/`SyncSave`, `OperatorSetAdmin`, `NodeEnd` |
| `QueueContract` | the contract of `command_queue.go`'s comments and spec 4.3 | each command's `state` and `result` | `Enqueue`, `Complete` (with success or timedout), `Expire` |
| `RIB` | the contract of `rib_redis.go`'s comments | `assoc`: meeting to backend | `Associate`, `Lookup` |
| `RedisRIB` | `RedisRIB` in `pkg/cluster/rib_redis.go` | the redis keyspace `kv`, the last call's answer | `SetBackend`, `Delete`, `GetBackend` |
| `NodeConfig` | `cmd/b3scalenoded/config.go`, `GetBackendState` | the backends table `rows`, each agent's `pc`, `row` and config `secret` | `Resolve` (configToBackendState), `Register` (configRegisterBackendState), `Restart` |

Each action models one whole handler, or one store or HTTP call where the code
yields between calls. Its guard comes from the code's conditions, and its
error paths are disjuncts. Each definition names the code it translates in its
comment. `PROJECT.json` "map" gives the exact lines.

Data are abstracted to what the properties tell apart:

- Meetings, users, requests, backends and secrets are small sets of strings or
  model values.
- Time is a discrete clock. In `MC_CommandQueue` one tick is 30 s.
- Hosts and URLs in `NodeConfig` are sequences of characters, because the
  `ILIKE serverURL%` prefix match is what its properties are about. The api path
  is one character.

Three things are modelled from the spec (spec 4.4) rather than the code:

- `awaitInternalMeeting` is not under `src/`. It waits, then yields a row or
  nil.
- The node's reply contract for isMeetingRunning: returncode SUCCESS for any
  meeting id, FAILED on refusal.
- The redis server, modelled as one atomic store whose transport may fail
  before or after applying a write.

## Runs

| Run | Config | Expect | What it shows |
|---|---|---|---|
| `cq_safety_liveness` | `MC_CommandQueue.cfg` | pass | With 2 instances, 3 commands, rollbacks and housekeeping, `SingleTerminalTransition` and `EveryCommandSettles` hold, and the queue implements `QueueContract` (`ImplementsContract`). |
| `cq_at_most_once` | `MC_CommandQueue_AtMostOnceHandling.cfg` | violation | The handler runs inside the claiming transaction, so a rollback after it ran hands the command to the next claim and it runs twice. |
| `eh_replica` | `MC_EventHandler.cfg` | pass | Once the agent has caught up, the replica lists no stale attendee (`AttendeesSound`) and no running flag for a meeting that does not run (`RunningSound`). This holds with one redelivery and the gateway's insert racing the events. Under the fairness below the agent always catches up: every pending or awaited event is handled, or the agent has died of the nil dereference (`CatchesUp`). |
| `eh_duplicate_attendees` | `MC_EventHandler_NoDuplicateAttendees.cfg` | violation | A redelivered join lists the user twice. |
| `eh_agent_panic` | `MC_EventHandler_AgentNeverPanics.cfg` | violation | A MeetingEnded whose row does not appear within 5 s dereferences nil. |
| `ba_create_sync` | `MC_BackendAgent.cfg` | pass | The backend's state stays well typed (`TypeOK`) with two creates racing the sync, the probe, the operator and the node, and the node accepting or refusing each create. The run takes every step of the create path, the sync and the probe. |
| `ba_refused_create_recorded` | `MC_BackendAgent_RowsWereCreated.cfg` | violation | `Create` never reads the returncode of the node's create response. A create the node refuses with FAILED is still recorded by `CreateMeetingState`, so a meetings row names a meeting the node never ran (`RowsWereCreated`). Spec section 3 says meetings are created on a *successful* create. |
| `ba_admin_clobber` | `MC_BackendAgent_OperatorWritesSurvive.cfg` | violation | The probe's deferred Save writes admin_state from a stale in-memory copy. |
| `ba_sync_not_atomic` | `MC_BackendAgent_SyncAtomic.cfg` | violation | SetMeetings clears and re-inserts the rows outside its transaction. |
| `rib_redis_refines` | `MC_RedisRIB.cfg` | pass | `RedisRIB` implements `RIB` (`ImplementsRIB`, the refinement under the `m:<id>:be` key scheme). |
| `nodecfg_start` | `MC_NodeConfig.cfg` | pass | Every running agent works on its own row (`OwnRow`), and that row holds its current secret (`SecretInSync`). This holds with failures, restarts and rotated secrets. |
| `nodecfg_prefix` | `MC_NodeConfig_OwnRow.cfg` | violation | With URLs `h1` and `h10`, agent 1 resolves agent 2's row. |

Each violation run is explained by a finding in `PROJECT.json`, naming the line
and what the spec or a comment says instead.

Each property of a passing run has a mutant in `PROJECT.json`: a plausible bug in
a mapped definition that TLC finds violating that property. Examples:

- claiming without SKIP LOCKED;
- an off-by-one row id in `Register`;
- a `GetBackend` that reports a missing key as an error.

### Bounds

- **`MC_CommandQueue`: 2 instances, 3 commands, clock up to 6 ticks (30 s
  each), deadline 4 ticks, expiry 2 ticks, 1 abort.** Two instances are the
  least that can contend for a row. Three commands give a queue with a claimed
  row, a waiting row and one more. The clock runs past both ages, so rows both
  expire and time out. One abort is enough for a rollback to re-queue a handled
  command.
- **`MC_EventHandler`: 1 meeting, 2 users, 6 events, 1 redelivery.** This is
  enough for a join, a leave and a re-join around the insert, end and destroy.
  Every interaction between the handlers is per meeting, so a second meeting
  would only multiply the state space.
- **`MC_BackendAgent`: 1 meeting, 2 create requests for it, 2 admin states.**
  The two requests race on one id against the sync, which is where the create
  path's conflicts arise.
- **`MC_RedisRIB`: meetings `""`, `m1` and `m2`, 3 backends, and the unsaved
  and nil backend.** This covers every branch of `SetBackend` and
  `GetBackend`, including the refused empty id.
- **`MC_NodeConfig`: 2 nodes, 2 secrets, 1 restart each, and an
  operator-registered row spelled in upper case.** This gives the
  case-insensitive match, registration, secret rotation and an agent failing
  and restarting.

### Fairness

- **`CommandQueue`: weak fairness on each consumer's `Claim`, `Handle` and
  `Commit`.** Each instance's `Controller.Start` runs `Receive` forever and
  polls at least every 10 s. No fairness is assumed for `Abort`, housekeeping
  or producers.
- **`BackendAgent`: weak fairness on each create request's steps.** Each
  request is served by its own goroutine, which runs `Create` to its end, and
  each HTTP or store call returns with an answer or an error. No property
  checked depends on it. That every create is answered holds for any code
  without a loop in `Create`, so it is not stated.
- **`EventHandler`: weak fairness on `Dispatch` and on the end of the wait
  (`AwaitFound \/ AwaitTimeout`).** The agent's one goroutine takes events off
  the subscription for as long as it lives, and `awaitInternalMeeting` returns
  by its 5 s deadline. The node and the gateway get no fairness: a meeting may
  never be recorded. The mutant `AwaitWithoutDeadline` (a wait without a
  deadline) breaks `CatchesUp`.
- **`RedisRIB`, `NodeConfig`: no fairness.** Their properties are safety
  properties.

`CHECK_DEADLOCK FALSE` appears only where the system may stop:

- **`CommandQueue`:** the bounded producers are done and the queue is drained.
- **`EventHandler`:** the event budget is used and the agent is idle.
- **`NodeConfig`:** every agent has started or stopped for good.

## What is proved

TLAPS checks every proof from nothing (`tlapm <Module>Proofs.tla`).

**`CommandQueueProofs`**, for any non-empty set of instances and any bounds:

- `TypeCorrect` (`Spec => []TypeOK`).
- `TerminalOnce` (`Spec => []SingleTerminalTransition`).

`SingleTerminalTransition` is not inductive alone: a `Commit` could complete a
row that another instance holds, or one already completed. The inductive
invariant `QueueInv` adds five facts:

- no two instances hold the same row (`ExclusiveClaim`, kept as a conjunct:
  on its own it restates `Claim`'s guard);

- an instance holds a row exactly while it is inside `process`;
- a held row is still `requested`;
- rows beyond `nextSeq` are absent;
- a row not completed has never been committed.

Separate lemmas prove `Init => QueueInv` and that each action preserves
`QueueInv`.

- `Refinement` (`Spec => ImplementsContract`): the queue implements
  `QueueContract` under the identity mapping (`state` is `status`, `result` is
  `result`). Initial states map to initial states, and each step maps to a
  contract step or a stutter:
  - `Queue` is an `Enqueue`, because rows beyond `nextSeq` are absent;
  - a `Commit` is a `Complete`, because a held row is still `requested`;
  - `DeleteExpired` is an `Expire` of the expired, unlocked, present rows;
  - `Claim`, `Handle`, `Abort` and `Tick` change no `status` and no `result`.

  The proof uses `QueueInv`. The step case needs `HeldIsRequested` and
  `FreshRowsAbsent` from it.

**`RedisRIBProofs`:** `Refinement` (`Spec => ImplementsRIB`), for every set of
meetings and backends, and `TypeCorrect` (`Spec => []TypeOK`).

- Lemma `KeyInjective`: the key scheme is injective.
- Lemmas `AssocAfterSet` and `AssocAfterDel`: after a SET or DEL, the
  association read through the keys is the expected update.
- Lemmas `SetBackendStep` and `GetBackendStep`: each call of the code, failed
  transports included, is a RIB `Associate` or `Lookup` step.

No invariant is needed, because the refinement mapping reads the store only
through the meetings' keys.

`TypeOK` is inductive as it stands. Lemmas `WriteKeepsType`,
`WithoutKeepsType` and `SetKeepsType` show that a write of backends to
meetings' keys keeps the keyspace typed. `SetBackendKeepsType` then shows that
`SetBackend`'s checks keep the empty id and unsaved backends out of redis.

**`NodeConfigProofs`:**

- `TypeCorrect` holds for any nodes and initial rows.
- `SecretInSyncProved` holds under the hypothesis
  `NoPrefixCollision`, which says two things:
  - a host that a node's URL prefix-matches is that node's api URL, up to case;
  - nodes' api URLs are distinct.

  The inductive invariant `RowInv` has three parts:
  - every row's host is an initial host or some node's api URL;
  - a running agent's row id is in range;
  - that row's host and secret are the agent's own.

  The first part is what makes `NoPrefixCollision` applicable to every row a
  later `Resolve` can select.

  The run `nodecfg_prefix` shows that the hypothesis is needed: without it,
  `OwnRow` fails.

  `OwnRow` also follows from `RowInv`, but it is not stated as a theorem.
  `NoPrefixCollision` is phrased with the lookup's own prefix match, so under
  it `OwnRow` says little more than the hypothesis: the lookup picks only the
  node's own row. What `OwnRow` adds is only the id bookkeeping of the insert.
  The prefix case is covered by the violation run, not by a proof.

**`BackendAgentProofs`:** `TypeCorrect` (`Spec => []TypeOK`), for every set
of meetings, requests and admin states. `TypeOK` is inductive as it stands. One
lemma per group of actions proves the step: node, operator and probe; the
create steps; the sync steps. `CreateRecord`'s insert needs
`AgentAssumption`: every request names a meeting of the backend.

`RowsWereCreated` and the claim that an ok answer names a meeting the node ran
are not proved, because they do not hold. `Create` records and answers a
create the node refused (run `ba_refused_create_recorded`).

**`EventHandlerProofs`:** `RunningSoundProved` (`Spec => []RunningSound`), for
every set of meetings and users and every bound on events and redeliveries.
`RunningSound` speaks of quiescent states only. The per-meeting invariant
`MeetingInv` says what holds in between, through the events still pending
(in the stream, or awaited):

- a meeting the node has not created has no row and no pending event;
- a meeting the node has ended whose `MeetingEnded` is no longer pending has no
  row marked running and no pending `MeetingCreated`, unless the agent has
  crashed;
- in the stream a meeting's `MeetingCreated` precedes its `MeetingEnded`
  (`Ordered`), and while `MeetingEnded` is awaited no `MeetingCreated` of the
  meeting is left in the stream.

The order is what the single subscription and the at-the-head redelivery
guarantee. Lemmas about `Append` and `Tail` (`InSeqAppend`, `InSeqTail`,
`OrderedAppend`, `OrderedTail`, `OrderedHead`) carry it through each step.

**`AttendeesProofs`:** `TypeCorrect` (`Spec => []TypeOK`) and
`AttendeesSoundProved` (`Spec => []AttendeesSound`), for every set of meetings
and users and every bound on events and redeliveries.

Both need to know what `onUserLeftMeeting`'s filter returns. `WithoutUser`
is written as the Go loop: a function `F` over `0..Len(s)`, where `F[i]` is the
list filtered after `i` iterations. (tlapm cannot expand `SelectSeq`, so the
filter is not written with it.) TLAPS cannot do an induction over data that
takes an operator parameter. So the two filter lemmas argue by a least
counterexample instead. `WFMin` of `WellFoundedInduction`, applied to `<` on
the naturals, gives `LeastNat`: every non-empty set of naturals has a least
element.

- `FilterExists` shows that a function satisfying the loop's equations
  exists up to every index.
- `WithoutUserType` shows that the result is a list of the old list's users,
  without the one who left.

`AttendeesSound` speaks of quiescent states only. The inductive invariant
`AttInv` says what holds in between, for each meeting `m` and user `u`:

- **`StaleCovered`**: if a recorded meeting lists `u` while the node no longer
  has them in `m`, a removal is pending. That removal is either a
  `UserLeftMeeting` of `u` or the `MeetingEnded` of `m` later in the stream,
  or the `MeetingEnded` the handler awaits.
- **`JoinsCovered`**: every `UserJoinedMeeting` of `u` in the stream, while
  `u` is no longer in `m`, is followed by such a removal.
- **`ChanUsers`**: the stream's joins and leaves name users.

`JoinsCovered` is what makes `StaleCovered` inductive. Handling a join, or
handling it again when it is redelivered, adds `u` back. The removal that
follows the join then covers `u`.

`ChanUsers` makes `TypeOK` inductive. A join appends the user that the event
names.

Each action gets its own lemma:

- The node's five steps share `BackendPublishInv`. Its hypotheses are the two
  facts that `PublishCover` needs: a user leaves the node's meeting only
  together with a published removal, and a published join puts its user in
  the meeting.
- `Dispatch` takes cases on the head event (`DispatchStale`).
- `GatewayRecord`, `AwaitFound` and `AwaitTimeout` clear the attendees, or end
  the case.
- Lemmas about `RemovalIn` under `Append` and `Tail` carry the pending
  removals through each step.

The assumptions the proofs use are the constants' `ASSUME`s:

- `BoundsAssumption` and `ConsumersAssumption`;
- `AgentAssumption` and `EventAssumption`. `EventAssumption` requires a
  meeting id to exist (`Meetings # {}`), since `NoEvent`, the handler's
  initial `cur`, names one;
- `RedisRIBAssumption`, which says the empty id is a meeting id, and nil and
  unsaved are not backends;
- `NodeConfigAssumption`, which says URLs, hosts and the api path are spelled in
  the folded alphabet.

TLC evaluates these assumptions on every run.

## What is only model-checked

- **Liveness** (`EveryCommandSettles`, `CatchesUp`). TLAPS has no
  support here for reasoning with fairness and ENABLED.
- **The violation runs**, which show the counterexamples TLC finds.

## What is not modelled, and why

- **`pkg/store/settings.go`** (`Tags.Eq`, the settings' `Merge`): pure value
  code without state or concurrency. Its `strings.Join` comparison treats
  `["a b"]` and `["a","b"]` as equal, which is a unit test's matter.
- **`RedisClusterRIB`**: no code of the repository constructs either redis
  store. Its defects show in a single call: GET's `redis.Nil` is returned as an
  error, and `backend.ID` is read on a nil backend.
- **`Backend`'s pass-through calls** (Join, GetMeetingInfo, GetMeetings,
  recordings, refreshMeetingState): each forwards one HTTP call.
  - `GetMeetingInfo` dereferences a missing meeting state. This is listed as a
    hazard without a property.
- **The bbb response types, templates, router middleware types and
  `b3scaled`'s main**: encoding, rendering and wiring.
- **The signing and gateway pipeline of the spec**: it has no code under
  `src/`.
- **LISTEN/NOTIFY in the queue**: it only changes how soon a consumer polls,
  which the interleaving already leaves open.
