# AlphaLab: TLA+ specifications

These modules specify the parts of AlphaLab that keep state which must stay in
agreement: the order management system, the step of a run with its allocation
ledgers, the mirror of what a venue holds, the live driver that keeps them in
agreement across lost answers, redelivered fills and restarts, the checkpoints a
run is resumed from, the persistent map all states are kept in, the job queue of
distributed research, and the path of a strategy from registration to an
environment and back. Each module is translated from the Python source; each run
checks a question about it with TLC on a small instance; the proof modules
establish most of the safety properties the runs check for every instance, with
TLAPS.

## The system

AlphaLab's engines are pure: an operation takes a frozen state and returns a new
one. What is hard is therefore not threads but *sequences*: reports of a venue
arrive late, twice, out of order or never; the process stops between two calls
and resumes from the state it captured last; two ledgers that must agree are
written in two steps; an old state is kept and written to again.

| Component | State | Operations | Interacts with | What makes it correct |
|---|---|---|---|---|
| order lifecycle (`core/lifecycle.py`) | none: a table | `next_order_status`, `classify_order_event` | read by the OMS and the mirror | closed orders have no successor |
| OMS (`oms/`) | book, active and completed sets, working index, log | submit, accept, reject, cancel, expire, partial_fill, fill, trigger, replace, capture/restore | run engine, live driver | sets partition the book, quantities add up, the index is the one a restart rebuilds, closed orders are final |
| broker mirror (`broker/lifecycle.py`, `order.py`, `state.py`) | orders, executions, positions, balances, venue numbers, connection | `apply_venue_event` for every kind of report | venue, request ledger, driver | each fill counted once, late and repeated reports harmless, agreement once all has arrived |
| request ledger (`broker/requests.py`) | issued requests, latest attempt and revision per order | `issue_cancel`, `issue_modify` | mirror, venue | one cancel in flight, remembered until answered |
| venue reconciliation (`broker/reconciliation.py`) | none | `classify_execution`, `apply_execution`, `reconcile_snapshot` | mirror, snapshots of the venue | a difference is a real one; agreement is real |
| live driver (`runtime/live.py`, `broker_routing.py`, `live_snapshot.py`) | bindings of orders to handles, children, holds, breaks, settled fills | connect, settle, route_working_orders, hold, route_child, capture, restore | OMS, mirror, portfolio, allocation, venue adapter | ledgers agree, an order is at the venue once and one way, capital is released |
| persistent map (`common/persistent_map.py`) | shared append-only stores, views | set, delete, branch, rebase | every engine state | a map never changes and iterates as a dict |
| execution pipeline (`runtime/execution_pipeline.py`) | OMS, position and allocation ledgers, as one value | a step: turns of working orders, cancels, amends, allocation, routing, reports | allocation, OMS, portfolio, strategies, the market | ledgers describe the orders that are alive, whatever refused, filled or ended them; an amend is all or nothing |
| allocation (`allocation/`, `core/contribution.py`) | budget held, reservations, contributions, strategy positions, ceilings | allocate, record_fill, apply_execution, release, retire | pipeline | strategies add up to the account; the budget is kept |
| run engine and checkpoints (`runtime/run.py`, `checkpoint.py`, `retention.py`) | logs, ledgers of orders, a mark of the last checkpoint | advance, checkpoint, read and restore a chain | run store | a chain that reads is the run it was taken of |
| run store (`persistence/run_store.py`, `durable.py`) | a directory of checkpoints | put, get, latest | file system, other processes | a put that has returned is kept |
| distributed research (`distributed/`, `cluster_scheduler/`) | queue, running and finished jobs, workers | submit, cancel, pop, three ways to assign, start, complete, fail, register, remove | caller, workers | no job lost or in two places, jobs and workers agree, nothing waits for ever |
| model registry, deployment manager, lifecycle (`model_registry/`, `deployment_manager/`, `lifecycle/`) | versions and stages, packages and the ledger of each environment, evidence, approvals | register, promote, approve, deploy, retire, roll back | principals | stages and ledger agree; gates hold through rollbacks |
| risk, simulator, portfolio | limits, fill policies, cash and lots | checks, fills, bookings | pipeline | not modelled: decimal arithmetic; the pipeline takes any decision they could make |
| scheduler, replay, strategy runtime | timers, playback, dispatch | fire, step, dispatch | run engine | not modelled |
| analytics, research, learning, optimisation, asset classes, data, reporting | numerical results | computations | | not modelled: arithmetic and conversions, no protocol |

`PROJECT.json` lists every part with its status, and under `hazards` each line
of code where something can go wrong that a test would hardly reach, with the
properties that guard it or the reason why none does yet.

## Modules

| Module | Models | Notes |
|---|---|---|
| `OrderLifecycle` | `core/lifecycle.py` | constant: transition table, the rows that read the filled quantity, classification of a report |
| `OMS` | `oms/engine.py`, `order.py`, `snapshot.py` | one action per engine operation and one for a capture followed by a restore; insertion-ordered sets are functions from members to positions |
| `BrokerMirror` | `broker/lifecycle.py`, `requests.py`, parts of `reconciliation.py` | the mirror, the request ledger, and an external venue that decides, trades, answers, declares account values and drops sessions; reports in flight are a set, delivered in any order and repeatedly |
| `VenueSnapshots` | `reconcile_snapshot` | extends `BrokerMirror` with snapshots that arrive late, leave parts unexamined and omit purged orders |
| `LiveSession` | `runtime/live.py`, `broker_routing.py`, `live_snapshot.py`, the settlement in `execution_pipeline.py`, submission and polling of `tests/reference_adapter/venue.py` | composes OMS orders, reservations, portfolio position, mirror and bindings with an external venue and a process that restarts |
| `PersistentMap` | `common/persistent_map.py` | stores and views; callers write through any view they kept |
| `OrderedMaps` | what `PersistentMap` promises | every map made stays as it was and iterates as a dict; `PersistentMap` implements it |
| `Allocation` | `allocation/engine.py`, `ceilings.py`, `netting.py`, `validation.py`, `core/contribution.py` | pure operators on an allocation state for one asset |
| `Pipeline` | `runtime/execution_pipeline.py` under simulated routing | extends `Allocation` and `OrderLifecycle`; the phases of a step are actions, and each turn of a working order is one |
| `Checkpoints` | `runtime/checkpoint.py`, `retention.py`, `common/append_log.py`, `RunEngine.advance` | operators: a run state, its mark, a payload, and the reading of a chain |
| `RunStore` | `persistence/run_store.py`, `durable.py` | one action per system call a put makes; failures, kills and power losses between them |
| `CheckpointedRun` | a process that initializes, advances, checkpoints, puts and resumes | composes `Checkpoints` and `RunStore`; two processes |
| `Cluster` | `distributed/`, `cluster_scheduler/` | one action per operation of the registry, the queue, the coordinator and the three schedulers |
| `ModelRegistry`, `DeploymentManager` | `model_registry/`, `deployment_manager/` | operators on a registry and a manager, as the engines are pure |
| `Lifecycle` | `lifecycle/` | one action per operation, over both |
| `Sums` | | the sum of a map of numbers, as the size of a set, so that it can be proved about |
| `OMSProofs`, `BrokerMirrorProofs` (with `VenueSnapshots`), `LiveSessionProofs`, `PipelineProofs` (with `Allocation`), `PersistentMapProofs`, `CheckpointedRunProofs`, `ClusterProofs`, `LifecycleProofs` | | theorems about the module each is named after, see Proofs |
| `MC_*` | | instances for TLC |

Correspondence in the places where it is not one to one:

- **A call that raises changes nothing**, because the caller keeps the state it
  passed in; in the model it is not a step. What the call had already sent is at
  the venue: `RouteUnanswered` in `LiveSession`.
- **Prices, costs, currencies and time of day** are left out where no property
  reads them. `Pipeline` has prices; in `LiveSession` an order is given a
  `Commitment` when it is placed, at the reference price, and each fill of the venue
  carries what it cost, any of `Notionals`. Quantities are small numbers. `updated_at` of the mirror and `as_of` of
  a snapshot are kept, since freshness compares them.
- **Handles** are derived from the order id and a sequence in the code, and are
  pairs here: 0 for the order whole, 1 and up for its children.
- **The chain of a key** in the map is, in the code, a list of versions and
  values in ascending order searched by bisection; here it is a function from
  versions to values, and a lookup takes the newest version not above the view's.
- **`settle` takes a batch**; one step of the model takes one fill, which is a
  batch of one. A larger batch that does not raise is a sequence of steps.
- **`LiveSession.advance`** is settle, then placing orders, then routing; each is
  an action, because a caller can stop between them and each is captured.
- The mirror of `LiveSession` is simpler than `BrokerMirror`: it has fills and
  ends, and no cancels, amendments or numbers. Both use `OrderLifecycle`.
- **The market, the fill policy and the gates** of the pipeline (risk, margin,
  borrow, band, tick, settlement, cash, delivery) are nondeterministic: an order's
  turn ends in any way its terms allow, at any of the prices, and any request may
  be refused. What they decide is arithmetic; what happens after each decision
  is the model.
- **An allocated batch** of the pipeline has at most one intent of each strategy, so
  that a ceiling is judged against what is committed and working, never against what
  earlier intents of the same strategy in the same batch have added to it
  (`running` and `projected` in `_within_ceilings`).
- **Auctions** are left out of the pipeline. An order whose terms let it fill at once
  or not at all ends with its first turn here; in a reopening auction the code lets it
  rest with what is left of it.
- **An amend is tried on a copy** of the step's state in the code, and kept or not.
  `Pipeline` keeps the whole of that state in one variable and does the same.
- **Decimal shares** are whole numbers of the quantum a fill is divided in. With
  one quantum to a traded unit the rounding, which in the code is at the twelfth
  decimal, happens at every odd fill.
- **A digest stands for what it digests** in a checkpoint, and eighteen logs and
  three maps, handled alike, are two logs and one map.
- **The temporary file** of an atomic write is part of the rename that follows.
- **A policy** of the lifecycle is the set of measurements that pass it.

## Runs

Bounds are chosen so that each race needs fewer steps than the bound allows.

| Run | Instance | Shows |
|---|---|---|
| `oms` | 2 orders, 2 assets, a market and a stop-limit type, quantities to 2, 5 events | book, sets, index, quantities and log agree under every interleaving; closed orders are final. Two orders in one asset are what placement order needs; five events take one order from submission through an amendment to its end while the other moves |
| `mirror` | 1 order or 2 account values, 2 cancels, 2 amendments, 4 venue events, 2 sessions, any report but the refusal of a cancel repeated, requests lost, fair venue | fills fit and are counted once, finished orders do not move, and after everything is delivered without a break the mirror agrees with the venue; a cancel in flight is remembered until answered, and resolved unless its request was lost. `OneSubject` explores order reports and account reports separately: no handler reads both. Why a refusal is delivered once: `OneCancelOutstanding`, below |
| `snapshots` | 1 order or a position, 4 events, 2 sessions, snapshots at any moment | fill differences name missed fills; a full reconciliation of the present venue proves the mirror right |
| `live_session` | 2 orders of 2, one child each, 3 fills, 1 restart, pushes and polls, a capture after every call | the ledgers agree, no settled fill is unaccounted for, an order is worked one way and sent once, bindings are rebuilt exactly, the mirror is not ahead of the venue |
| `live_settles` | 1 order of 2, 1 child, 2 fills that cost 1 or 2 of a commitment of 2, a restart from any captured state, lost answers, fair delivery; `ChildrenIdle` leaves the fills of children to `live_session` | the ledgers and bindings agree when the capture lags behind; what is reserved is what the booked fills have not consumed of each working order's commitment (a fill of part of the order costs part of it or uses it up while the order goes on working); every fill of an order sent whole is booked or on the reconciliation log; the OMS refuses a fill the mirror accepts only when the caller closed the order first |
| `live_children` | 1 order, 2 children | **violation**, below |
| `pipeline` | 2 strategies, 2 orders, deltas of 3 and -1 and a target of 1, limit and market terms, 2 prices, budget 4, ceilings 7 and 3 | reservations, contributions and ceilings are held for exactly the orders and requests that are alive, each running total is its sum, the strategies' positions add up to the account's and cost what they can cost; an amend is all or nothing. Two orders let one rest while another is netted, refused or amended; 3 and -1 make shares that must be rounded |
| `ceiling` | 1 strategy, 3 orders of 2, 1 price, ceiling 2 | **violation**, below |
| `run_store` | 2 processes, sequences to 2, 3 records, retention 1, 2 faults | whatever killed processes, power losses and races leave, a chain reads as exactly the run it was taken of or is refused; what a put returned for is kept, and its chain is never refused, with two exceptions the property names: two processes in `put` for one sequence at once, and a process stopped between making the run's directory and flushing the root. Three checkpoints are the shortest chain with a middle link; retention 1 makes a log drop what a previous checkpoint held |
| `cluster` | 3 jobs, 2 workers of capacity 1 and 2, one job only the small one can run, 2 aging rates, fair assignment | each job is in exactly one place, jobs and workers agree on who runs what except where a worker was removed, the queue is ordered unless aging reordered it, and a job a registered worker can run is not left waiting |
| `lifecycle` | 2 strategy and 2 model versions, 2 environments of which one is gated, 2 principals, 3 deployments or rollbacks, 2 approvals, a measurement that does not pass, 3 changes of the production model | a version is in production exactly when some environment runs it; what a gated environment ran was approved by another than who deployed it; what runs has evidence of its own; the registry has one production model. Three deployments are a deployment, its successor and a rollback. `Representative` leaves out states that differ in the number of a model or in when the measurement that does not pass is recorded |
| `persistent_map` | 2 keys, 2 values, 6 maps, rebase factor 1 and slack 2 | the map implements `OrderedMaps`; sizes are counts, stores stay short. The small factor and slack make a rebase, also of a store with re-inserted keys, happen within five writes (the code has 2 and 64) |

`CHECK_DEADLOCK FALSE` appears where the bounded venue may simply be finished.
In `OMS` and `LiveSession` a restore or a connection is always possible, so
deadlock is checked.

### Fairness

`BrokerMirror!FairSpec`: the venue answers what reached it, a dropped session is
opened again, a report that was sent is delivered. These are assumptions on the
venue and the host, which the code relies on and cannot enforce; the code has no
timeout of its own, so `CancelResolves` allows a cancel to stay open when its
request was lost.

`LiveSession!FairSpec`: the caller hands every fill the venue redelivers to
`settle`, and passes on what the venue says of a finished order. The driver is
passive, so without a caller that does this nothing is ever settled; both are
what the module's documentation asks of a caller. No fairness is assumed of
routing, capturing or the venue's trading.

`Cluster!FairSpec`: the driver keeps calling the assignment by affinity, and a
worker starts what it was assigned and reports on it. The engines are passive,
so someone must call; nothing is assumed of submissions, of workers staying, or
of the other two schedulers, which may run in between.

### Disagreements between the code and what it says

Two are runs that TLC refutes:

- `live_children`: the fills of a child order are not settled on its parent,
  against `broker_routing.py`; the parent never shrinks and further children
  trade more than it is for.
- `ceiling`: a delta that offsets a working order reserves nothing of its
  strategy's ceiling. When the working order then ends unfilled nothing is
  reserved for the delta either, and the strategy can be given its ceiling again,
  against "it errs toward refusing, never toward overcommitting"
  (`allocation/ceilings.py`).

Six are stated beside the properties of their modules, do not hold, and are no
property of a run:

- `BrokerMirror!OneCancelOutstanding`: the refusal of a cancel carries no attempt.
  Delivered again while a second attempt is in flight it is applied as the answer
  to that, and a third cancel goes out beside the second, against "one cancel is
  outstanding per order at a time" (`broker/requests.py`). Where no refusal is
  delivered twice it holds: `BrokerMirrorProofs!OneCancelTheorem`.
- `VenueSnapshots!DisputedPositionIsWrong`: the mirror's high-water mark reads
  orders and executions only, so a snapshot older than a position the mirror has
  applied counts as current and disputes a position that is right.
- `LiveSession!PolledIsBooked`: a fill that a poll of the reference adapter applied
  to the mirror and that the process had not settled when it died is a duplicate
  to the restored mirror, and is never booked.
- `Cluster!QueueInPriorityOrder`: an assignment with aging leaves the jobs it could
  not place in the order of their effective priorities, against "the queue is kept
  in priority order at all times" (`distributed/queue.py`).
- `Lifecycle!RollbackNeedsAnother`: a model version that was promoted, archived,
  staged and promoted again is its own predecessor, and a rollback archives and
  restores it, where `model_registry/rollback.py` says it is refused.

- `CheckpointedRun!PutSurvives`: a process stopped between creating the run's
  directory and flushing the root leaves the directory for a successor, which finds it
  and does not flush the root either; a power loss then takes checkpoints whose put has
  returned, against "the directory is flushed after it, so the rename survives a
  crash" (`run_store.py`) and "a crash cannot keep a file whose directory entry was
  never written" (`durable.py`). `MC_RunStoreRoot.cfg` finds the trace. The history
  variable `rootLeft` records that a process stopped there; `AckedIsKept` says what
  holds of the stored checkpoints until one does.

Smaller ones that came up while modelling:

- `replace` gives a market order a limit price that `validate_order` would refuse.
- A cancel requested before the acknowledgement reads as a status divergence in a
  reconciliation.
- The reference adapter, retrying a submission after a lost answer, takes over a
  filled quantity without the executions behind it, so that these are added again.
- A package is not built again when its version is staged anew on other evidence:
  it keeps naming the first.
- The deployment note of a model stays when the version that used it leaves the
  environment.
- `rollback_environment` is refused once the earlier version's model has been
  archived, although that version ran there before.
- Without shorting, a sale is judged against the committed position, working
  purchases included; when those end unfilled the account is short.

## Proofs

A theorem holds for every value of the constants that satisfies the named
assumptions of its module; those bound the bounds (natural numbers) and say which
constants are numbers or functions of what, unless a section says more. Each
invariance proof has the same shape: an inductive invariant `IInv`, one lemma per
action, and the conclusion by temporal logic. In the modules proved about,
what the code does in a loop is a recursive function (`Cluster!Assignment`,
`Checkpoints!advance_all`, `Checkpoints!read_checkpoints`) and a sum is a cardinality (`Sums`; of numbers of either
sign, a difference of two, `Allocation!Total`), because the provers cannot reason
about recursive operators or folds. What holds of every number up to one, or of every
part of a finite set, is proved by least counterexample.

**Order management** (`OMSProofs`).

- `TypeCorrect`, `PartitionHolds`, `FillAccountingHolds`: the type invariant, the
  partition of the book and the agreement of quantities and status;
- `RestoreIsExactHolds`, `PlacementOrderHolds`: the working index is always what
  a restart rebuilds, and lists orders in the order they were placed;
- `BookHolds`: these together, the invariant `BookInv` the run checks;
- `TerminalIsFinalHolds`: the action property that no step changes a closed order;
- `HistoryExplainsBookHolds`: replaying the log of an order through the lifecycle
  table gives the order the book holds.

The inductive invariant is `TypeOK /\ Agreement /\ FillAccounting`. `RestoreIsExact`
alone is not inductive: that the index stays exact when one order is stored needs
the membership of the active set (`Partition`), that the index of an asset holds
exactly its active orders with their positions (`IndexAgrees`), and that active
orders keep the order they were placed in (`ActiveAsPlaced`). `Agreement` is these
three. Every transition goes through `Store`, so the work is in two lemmas about
`Store` (a new order, an order already held); the actions then show that they
call it with an order whose quantities add up. The history is a recursive function of
the log: that one more event extends the replay by one application (`ReplayGrows`) is
an induction by least counterexample, after which each operation has to show that the
event it logs, applied to the order as it was, gives the order it stores.

**The mirror** (`BrokerMirrorProofs`). `MirrorTheorem`, `FillsCountedOnceTheorem`
and the action property `TerminalAbsorbsTheorem` hold for any venue and any
delivery: late, repeated, reordered, never. The invariant adds to the types that
an order the mirror holds is one the venue holds and that a recorded execution is
of an order the mirror holds. `CancelRememberedTheorem` and `OneCancelTheorem` (one
cancel outstanding per order) carry each other: who answers which cancel can only
be said while one is in flight, and that one is in flight only while the answer to
the last is known. Both assume that the refusal of a cancel is not delivered twice;
without it the second is false (`OneCancelOutstanding` above).
Of `VenueSnapshots`, `FillDivergenceTheorem` and `ReconciledIsTrueTheorem`, for snapshots
taken and compared at any moment, leaving out any finished orders and any of the parts
they may. They need where things come from: every recorded execution is a fill the venue
made, no two fills have one execution id, and what the venue says an order has filled is
the sum of the fills made for it (`VenueOK`); a snapshot counts and lists exactly the
fills made until it was taken, and is the venue while the venue's clock stands
(`SnapshotOK`). What the mirror counts is then a sum over part of what the snapshot counts.

**The live session** (`LiveSessionProofs`). A restart goes back to a state captured
earlier, so the invariant is a predicate `StateOK` of a captured state that both the
present state and the saved one satisfy, and a third part about what lies outside
the process. For any orders, children, fills, restarts, lost answers and moments of
capture: `TypesTheorem`, `HandlesAgreeTheorem` (whole or by children, bindings are those
a restart rebuilds), `ReservedIsUnspentTheorem`, `LedgersAgreeTheorem`,
`SettledIsAccountedTheorem` and `RefusedOnlyIfClosedFirstTheorem`. That each reservation is
what the fills booked so far left of the commitment is a part of `StateOK`: a fill that is
booked adds its cost to what the order has spent and to nothing else (`SpentIn`), and
consumes that much or all that is left (`ConsumedFollows`). The last needs what the
mirror has counted: a fill it accepts fits what the venue says is left, so it fits the
order unless the caller closed that first. `HeldNeverSentWholeTheorem` and
`SessionTheorem` (nothing is sent twice, the mirror is never ahead of the venue)
assume that every call is saved and no answer is lost, the conditions under which
`live_session` checks them, and add `InStep`: mirror and venue hold the same orders
and each has filled what it has counted. Where a capture lags behind, a restarted
driver resends, and neither holds.

**The pipeline** (`PipelineProofs`), for any strategies, prices, traded unit, intents,
amends, budget and ceilings: `PipelineTheorem` (the ledgers describe exactly the orders
and requests that are alive, totals are sums, the budget is kept), `StrategiesTheorem`
(the strategies add up to the account, and what each has deployed is a cost its position
can have) and the action property `AmendTheorem` (an amend is all or nothing).
`PipelineInv` is not inductive: nothing in it bounds what an order has filled, relates
a reservation to what may still be consumed of it, or says what waits to be routed. The invariant `PipelineIInv` is a predicate
`Good` of a book, the value a step evolves, with the requests that wait: orders filled
within their quantity and in the status that says so (`WellFormed`), an account whose
every total is the sum of a map of natural numbers over live orders (`Ledgers`), and
the two parts of `StrategiesExplainPosition`. Each thing that happens to a book has a
lemma that it keeps `Good`: the end of an order, a fill, a turn, a cut in place, a
placement, a dropped request, a withdrawal of several orders, an allocated batch. A step
is a sequence of these, and so is the trial of an amend, kept or not. The arithmetic
underneath: the parts of a split add up to what is split because the last is what
remains (`SplitAddsUp`); a rounded quotient stays within whole bounds
(`QuantizeBounds`), so that a reduction releases a possible cost (`CostOfPart`) and a
cut frees at most what was held (`KeptOfAccount`).
Trying to prove that `Truncate` rounds toward zero, as `_target_delta` does, showed that
an earlier form of it did not where a unit is more than one quantum.

**The persistent map** (`PersistentMapProofs`), for any keys, values, rebase parameters
and number of maps: `ReadsNeverChangeHolds`, `StoreInvHolds`, `EntriesBoundedHolds` and
`ImmutableHolds`, that it implements `OrderedMaps`. That no map ever changes needs little:
a write goes under a version above the live one, which no view of the store is ahead
of, so no view sees the entry or the insertion it adds. That the map just made is what
a dict would be needs the rest of the invariant, what makes a store `Sound`: the
versions of a key's entries and the insertions ascend, so the newest visible entry
is the last one; a key that never came back has one insertion, where its chain begins
(`InsertedOnce`); of a key that did, the store has remembered the versions of its
insertions, newest last (`HistoryOK`), which is how the code tells its place from the
places it had. A write then leaves every other key where it was (`Rewritten`, `Inserted`,
`Deleted`), and a rebase starts a store that reads the same (`RebasedFacts`).

**Stored checkpoints** (`CheckpointedRunProofs`). `TypesTheorem`, and
`AckedIsKeptTheorem`: a checkpoint `put` has returned for stays as it was written, and
its run stays listed and the chain up to it is not refused, for any processes, retention
and faults. A power loss takes what is not flushed, so the invariant follows the
flushes: of an acknowledged checkpoint the directory, the identity and the file are durable (`AckedOK`); of a put under way, how
far it has come (`ProgressOK`); of a directory that is not durable yet, that nothing is
in it and its maker is about to flush the root (`RootOK`). All of it holds until two
processes write one sequence at once (`raced`), which the store does not promise to
survive, or one stops between making the directory and flushing the root (`rootLeft`),
which it does not say (`PutSurvives` above). From then on neither the theorem nor the run
claims anything of what is kept. Such a stop is not assumed away: every step of every
put may fail or be the last.

`ChainIsTrueTheorem` needs neither exception: it is about what the files say, whatever
is left of them. Every checkpoint in the store, or on its way there, ends a
lineage (`Made`): the first was taken of a run without a mark, each other on a mark of
the one before, rebuilt or not, of a run that run has become (`Grows`: no log loses an
entry it did not drop, no order leaves its place). Two halves meet. Reading a lineage
gives back the run of its last checkpoint (`ChainReads`): a cut log behind what the
reader kept of it is the log (`StitchedIs`), and the changed orders put over the orders
as they were are the orders (`ChangedIsEnough`). And a chain that is not refused is a
whole lineage (`ChainOnly`): sequences count up from nothing and every text names the
one before it, so the last text determines them all, whatever races left in the
directory. That an acknowledged chain is not refused (in `AckedIsKept`) is an invariant of its own: none of
it is missing and its links hold in what is durable (`LinksOK`), which a put inherits
from its writer's mark.

**The cluster** (`ClusterProofs`). `ClusterTheorem` (no job lost or in two places, no
worker over its capacity, statistics are counts), `WorkersAgreeTheorem` and
`OrderedTheorem`. That a worker's list and the jobs' record of their worker agree is
inductive only together with the lists having no repetition and their jobs being
running ones; that statistics are counts only with the containers being disjoint. The
work is in three facts about lists, each by induction over the length: dropping a
job thins a list out; sorting permutes it into its order, because "goes before" is a
strict total order of the positions and so every rank is taken once; and an assignment
splits a queue into jobs given away and a thinned queue, whichever order it went through.
The order itself survives everything but aging because thinning keeps it and a
job is appended unsorted only where it belongs.

**The lifecycle** (`LifecycleProofs`). `RegistryTheorem`, `LiveIsProductionTheorem`,
`GatedIsApprovedTheorem` and `RunningIsEvidencedTheorem`, for any principals, grants,
gates, environments and measurements. None is inductive alone: that a version is in
production exactly while it runs needs the ledgers' references to resolve, and that a
rollback runs only what was approved and measured needs every entry a ledger ever
held, and every package ever built, to have been approved and measured.

### Only model-checked

- `BrokerMirror!Converges`, `CancelResolves`, `LiveSession`'s and `Cluster`'s liveness:
  liveness under fairness is out of this prover's reach.

## Not modelled

The modules follow the state machines of the code: everything that keeps state
across calls whose agreement can break. Most of the repository is something
else. Analytics, the optimizer, research statistics, learning, factors, asset
class models, scenario shocks and the fill policies of the simulator compute
numbers from numbers in floating point or decimal arithmetic: TLC has integers,
and a model of their control without their numbers has no property to check.
Snapshots, serializers, reports, data readers and transports convert data or do
I/O. What remains of protocol and is not modelled yet: corporate actions,
exercises and margin calls inside the pipeline, the algorithmic routing of
parents, the supervisor of strategies, the scheduler with its timers, replay, and
amendments in the live session. `PROJECT.json` says so component by component.

## Plan

1. Done: the order core (`OrderLifecycle`, `OMS`, `BrokerMirror`, `VenueSnapshots`,
   `LiveSession`, `PersistentMap`), the step of a run (`Allocation`, `Pipeline`),
   its checkpoints (`Checkpoints`, `RunStore`, `CheckpointedRun`), research jobs
   (`Cluster`) and the way to an environment (`ModelRegistry`,
   `DeploymentManager`, `Lifecycle`).
2. Proofs. Done: the theorems above. Left: liveness, which this prover does not reach.
3. `LiveSession` with the amendments of `BrokerMirror`, so that the quantity the OMS
   does not learn is in reach; the strategy supervisor, scheduler and replay.

## Running

    tlc -config MC_OMS.cfg MC_OMS
    tlapm OMSProofs.tla

and likewise for the other configurations, which name their module's instance,
and for the other modules named `...Proofs`.
