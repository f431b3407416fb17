# TLA+ models of k4.0s

This directory holds TLA+ models of the k4.0s admission engine (both
storage builds) and an abstract specification it refines, the
rtschedulability and nodeassurancescorer scheduler plugins composed with
one daemon per node, the TDMA slot allocator, and the Node object that the
rubicante and malacoda daemons both write, together with the TLC
configurations that check them, and this description. `PROJECT.json` lists
the components, the runs, the mutants, the source lines each definition
models (`map`), the findings and the hazards.

## 1. The system

k4.0s places real-time pods on Kubernetes nodes. It has these parts:

| part | source | state it keeps | operations |
|---|---|---|---|
| rubicante node daemon | `src/rubicante/` | `state.containers` (name, tasks, band, prio, core), `state.changed`, mutex `state.m`, `SCHEDULABLE`, `containers.csv` and `tasks.csv` (default build) or the sqlite tables `containers` and `tasks` (`sqlite` build tag) | `POST /shedulabilityTest` (dry run), `POST /podBind` (commit), informer delete callback, 10 s dump routine, start-up reload |
| schedulability analysis | `src/rubicante/nodeImplementation.go` | none (pure) | `Task.checkSchedulability`, `Container.checkSchedulability`, `binSearch` |
| rtschedulability scheduler plugin | `plugins/rtschedulability/` | maps `urltable`, `iptable`, `status` shared by all Filter calls | PreFilter, Filter (dry run on every node), Score, PreBind (`podBind`) |
| TDMA scheduler plugin | `plugins/tdmascheduling/TDMA.go` | `pl.slices`, the slices of one transmission cycle | PreFilter (first-fit test), Reserve, Unreserve, deleteWatcher's informer start, informer podDelete |
| scarmiglione TDMA master | `src/scarmiglione/` | none | `TDMAsched` and `TDMAremove`, which only answer |
| malacoda monitor | `src/malacoda/` | its copy of the Node (`main.go`); sampled /proc and cgroup counters (`monitor.go`) | every 2 s a random gamma, written as the `ASSURANCE` annotation and `Criticality` label of the Node; threshold and trend alarms (never called) |
| nodeassurancescorer | `plugins/nodeassurancescorer/` | none | Score from the node's `assurance` annotation (negated in mode Least), NormalizeScore to [0,100] |
| myplugin | `plugins/myplugin/` | none | a random Filter |
| demonset, `sched.go` | `src/demonset`, `src/sched.go` | none | a test scenario and a daemon-set launcher |

How they interact: for every pod the scheduler's rtschedulability Filter
sends a dry run to the rubicante daemon of each node, Score ranks the
nodes by the `Status` vector of the answers, and PreBind sends
`podBind` to the chosen node, which commits the container. The
daemon's informer removes the container when the pod is deleted. The TDMA
plugin keeps its own list of time slices and asks the scarmiglione master
over HTTP to reserve or release each one. The framework adds the
normalized scores of rtschedulability and nodeassurancescorer. The
rubicante daemon marks its Node unschedulable after a delete leaves every
core above the threshold, and malacoda writes the Node's assurance and
criticality; both Update the Node from a copy they fetched once.

Hard behaviours in the code:

- **In-place probing.** `schedTest` probes by writing bands through
  pointers into `state.containers` and restores them from a rollback
  buffer.
- **Shared mutex.** One mutex `state.m` serialises the handlers, the
  delete callback and the dump routine.
- **Panics under the lock.** A panic while `state.m` is held leaves it
  locked for good.
- **Crash and reload.** The process can die between a commit and the next
  dump, and `start()` rebuilds the state from the CSV files.
- **Unsynchronised scheduler plugins.** They run Filter for all nodes in
  parallel and the informer callbacks on their own goroutines, with no
  lock.

## 2. Modules

| module | models | state (code) | actions (code) |
|---|---|---|---|
| `RTA` | the schedulability analysis | none | operators `TaskSchedulable` (`Task.checkSchedulability`), `ContainerSchedulable` (`Container.checkSchedulability`), `BinSearch` (`binSearch`) |
| `Rubicante` | the node daemon, both storage builds | `containers` (`state.containers`), `changed` (`state.changed`), `diskContainers`/`diskTasks` (the CSV files, one record per line), `build` (the build tag, chosen at Init from `Builds`), `dbContainers`/`dbTasks` (the sqlite tables, rows in rowid order), `up` (process alive), `wedged` (`state.m` locked by a handler that panicked), `SCHEDULABLE`, and three auxiliary variables: `deletedPods` (history), `restarts` and `rebinds` (environment bounds) | `SchedulabilityTest`, `PodBind` (both `Handle` = the handler with `schedTest`), `Wedge` (the `setPrio` panic), `PodDelete` (`podDelete` = `deletePod` + `updateSchedulability`), `DumpState` (with a failed open), and for the sqlite build `SqlPodDelete`, `SqlDumpState` and `SqlDumpStateFails` (a statement panics half way); `Kill`, `Restart` (`start` + `read_containers_data` of the build) |
| `MCRubicante` | model values | pods and their task sets | none |
| `TDMA` | the TDMA scheduler plugin, the lifecycle that calls it, and the master's view | `slices` (`pl.slices`), `master` (the slices scarmiglione has been told to hold), `phase` (where each pod is in the scheduling lifecycle), `deleted` (the pod has been deleted), `watching` (deleteWatcher's informer has started), `faults` (failed HTTP calls, bounded) | `PreFilter`, `Reserve` (with `reserveSlot`), `Unreserve` (with `unreserveSlot`), `DeleteWatcherStart`, `podDelete`, `DeletedUnwatched` (a deletion before the informer started), and the environment's `Bind` and `BindFails` (rtschedulability's PreBind) |
| `MCTDMA` | model values | the request of each pod | none |
| `Scheduler` | the rtschedulability plugin and one `Rubicante` daemon per node (`R(n)`, an INSTANCE on node n's containers) | `ctr` (each daemon's `state.containers`), `alive` (each daemon runs), `status` (`pl.status`), `phase` and `target` (where each pod is in the scheduler: pending, unschedulable, binding, bound), `deleted`, `lost` (lost podBind messages, bounded) | `Schedule` (PreFilter, Filter's dry run on every node, Score, NormalizeScore and the choice of a best node), `PreBind` (`podBind` and Bind), `PodDelete` (every daemon's delete callback and the scheduler's requeue) |
| `MCScheduler` | model values | the task sets of three pods, the node with no WCET for one of them, the assurance annotations | none |
| `TDMAAllocator` | what the TDMA slot allocator promises (spec 4.6) | `held` (the set of slices, sentinel included) | `Reserve`, `Release` |
| `NodeAssuranceScorer` | the nodeassurancescorer plugin | none | operators `GetAssurance` (`getAssurance`), `Score` (`score`), `NormalizeScore` (`NormalizeScore`), int64 arithmetic as `Wrap` and `Quot` |
| `NodeObject` | the Node in the API server and its two writers | `server` (the stored Node: resourceVersion, annotation, label, unschedulable), `mcopy` (malacoda's node), `rcopy` (rubicante's `NODE`), `SCHEDULABLE`, `malacoda` and `rubicante` (process states), `writes` and `restarts` (bounds) | `MalacodaStart` and `MalacodaLoop` (`start`), `ConfigClient`, `UpdateSchedulability`, `RubicanteCrash`, and the environment's `OtherWrite` |

Notes on `Rubicante`:

- **One handler, one step.** Each handler holds `state.m` from start to
  end, so each is one atomic action.
- **Probe.** `Probe` is one iteration of `schedTest`'s core loop. It does:
  - the `binSearch` of the candidate;
  - the threshold test;
  - the priority-sorted re-search of the strictly lower-priority
    co-residents, each seeing the bands already rewritten;
  - the rollback.
- **Rollback buffer.** `FinalBand` is what the rollback buffer leaves in
  each band: the re-searched band on a persistent success, otherwise the
  buffered value. The buffer is zero-filled past a failed re-search.
- **No name check.** Neither handler looks for the pod's name, so a
  repeated podBind (a retry after a lost answer, or a same-named pod of
  another namespace) commits a second container under the name.
  `MaxRebinds` bounds how often a held name is bound again; the admission
  run sets it to 0 (with repeats its state space does not fit the time
  budget), the persistence run to 1.
- **Wedge.** `setPrio` indexes `Tasks[0]` of the request and
  `getMinPeriod` indexes `tasks[0]` of the containers it compares. A
  request with no tasks, or any request once a container was reloaded
  without tasks, panics with `state.m` held (`NoTasks`, `Wedge`).
- **Priorities.** `SetPrio` stable-sorts `state.containers` by minimum
  period, as the code does on every request, and derives the priority.
- **Task order.** The handlers stable-sort the request's tasks by `Prio`.
  The model assumes the task lists of `PodTasks` are already in that
  order (an ASSUME).
- **Delete.** `DeleteLoop` follows `deletePod` index by index over the
  original length, including the swap-remove and the out-of-range panic.
  The panic kills the process, because client-go re-raises it.
- **Dump.** `Overwrite` models the files being opened without `O_TRUNC`.
  The new records replace the first lines and the old lines after them
  stay. An `OpenFile` that fails is only logged; every write to the nil
  file then fails and is logged, and `state.changed` is cleared all the
  same. `OpenFaults` switches this failure on (persistence run only).
- **Line abstraction.** The model works in whole records, not bytes. When
  a shorter record overwrites a longer one, the real file also keeps
  partial bytes, which can make `csv.ReadAll` fail at start-up. That
  failure is not modelled.
- **Reload.** `ReadTaskData` gives a container one task per line of
  `tasks.csv`, as `read_task_data` does.
- **Abstracted data.**
  - A container's name is a pod name.
  - The period of every server is `SERVERPERIOD`.
  - `allocateResources` returns a constant and is left out.
  - JSON decoding is left out, except for an empty task list.

Notes on `TDMA`:

- **One handler, one step.** The plugin has no lock. The scheduling cycle
  runs PreFilter and then Reserve of one pod at a time (`CycleBusy`).
  Unreserve after a failed binding runs on a binding goroutine, and
  `podDelete` on the informer goroutine. The model interleaves whole
  handlers; the data race inside them is not modelled.
- **deleteWatcher.** `New` starts `deleteWatcher`, which sleeps 6 s
  before its informer starts (`DeleteWatcherStart`). A pod deleted
  before then is not in the informer's initial list, so `podDelete`
  never runs for it (`DeletedUnwatched`); its slices go only if a failed
  binding cycle calls Unreserve. The scheduler's own informer sees both
  kinds of deletion (`Gone`, the Pod/Delete event of
  `EventsToRegister`).
- **Loops.** `ReserveLoop`, `UnreserveLoop` and `DeleteLoop` follow the
  Go loops index by index. They keep:
  - the loop bound, re-read after each insert;
  - the missing `break` in Reserve;
  - the `len-1` bound of Unreserve;
  - the removal before `unreserveSlot(pl.slices[i])`;
  - the index that advances after a removal.
- **HTTP calls.** A call to the master is answered "OK", lost, or
  delivered with its answer lost. `MaxFaults` bounds the failures of a
  behaviour, and a handler meets at most one of them. Scarmiglione
  answers "OK" to every well-formed body, so a rejection by the master is
  not a case.
- **The master.** Scarmiglione keeps no state, and its configuration
  calls are comments. `master` is the set of slices it was sent by
  TDMAsched and not since by TDMAremove: the configuration it is asked to
  apply.
- **Lifecycle.**
  - A pod that PreFilter rejects waits as unschedulable, and a Pod/Delete
    event (`EventsToRegister`) moves it back to the queue.
  - A failed Reserve is followed by Unreserve.
  - A reserved pod is bound, or its binding fails.
  - A pod whose deletion was delivered is not scheduled again and cannot
    be bound.

Notes on the sqlite build (in `Rubicante`):

- **Schema.** The schema is not in the repository. The model assumes an
  integer primary key (a rowid: one more than the largest in use, so a
  deleted id can be reused) and a unique name, which `on conflict(name)`
  needs.
- **deletePod.** `SqlDeleteFrom` re-reads the length (no panic) but still
  advances after a removal, so the container swapped in is skipped and
  its band is not counted. Each match deletes the container's row at once
  (`SqlDeleteRows`); its task rows stay.
- **dumpState.** `Upsert` inserts a new name with a fresh rowid, or
  updates the band of an existing row. It then inserts the container's
  tasks under LastInsertId when that is not 0. An update leaves
  LastInsertId at the previous insert of the dump (0 on each dump's fresh
  connection).
- **Failure.** Every statement goes through `checkErr`, which panics.
  In the dump goroutine that kills the process after the upserts of the
  earlier containers committed and before the flag is cleared
  (`SqlDumpStateFails`).
- **Bound.** Each delete and re-bind lets a later dump append task rows.
  `MaxDbTasks` stops deletions and dumps once the table is that long.

Notes on `Scheduler`:

- **Steps.** The framework runs one scheduling cycle at a time. The dry
  runs are served by the daemons under their own mutex. So a scheduling
  cycle (`Schedule`) is one step, and its dry runs change the daemons as
  `schedTest` does, including the rollback. The binding cycle (`PreBind`)
  is asynchronous: other pods' cycles can come between a pod's
  `Schedule` and its `PreBind`.
- **Filter.** A node is asked unless its daemon is down or the pod has
  no WCET for it (`FatSchedReqtoSchedReq` returns nil). A node is
  feasible when its dry run answers Schedulable, and only then is
  `pl.status` written.
- **Score.** Score reads `pl.status`. `computeScore` is 100 minus the
  least used core. `NormalizeScore` rescales with integer division. The
  framework picks one of the best nodes at random, so the choice is
  nondeterministic.
- **PreBind.** `podBind` can be lost before the daemon or after its
  commit (the client has no timeout); both fail PreBind. A dead daemon
  refuses the connection. The daemon does not look up the name, so a
  retry commits again. A failed binding cycle puts the pod back in the
  queue. Bind fails for a pod deleted meanwhile.
- **Deletion.** The daemons' informer has no node filter (it is commented
  out in `deleteWatcher`), so every daemon runs `deletePod` for every
  deleted pod. The `DeleteLoop` panic kills that daemon.
- **Tombstones.** A daemon whose watch dropped the Delete event gets the
  pod back on the relist as a `DeletedFinalStateUnknown` tombstone.
  `podDelete` asserts its argument to a `v1.Pod` unchecked, so the
  handler panics and the daemon dies before `deletePod` runs
  (`Tombstoned`). At most `MaxTombstones` deliveries are tombstones.
- **Score plugins.** `BestNodes` maximizes the sum of the normalized
  scores of rtschedulability (`RtsScores`) and nodeassurancescorer
  (`AssuranceScores`), each plugin with weight 1. When a normalized score
  leaves [0,100] the framework fails the cycle (`ScoresValid`) and the pod
  stays queued.
- **Width.** `NodeAssuranceScorer` computes in int64 at a scaled width
  `IntWidth = 16`, since TLC's integers are 32-bit: every result wraps
  modulo 2^16 and division truncates. The overflow of
  `(score - lowest) * 100` then happens at the same place relative to the
  width as in int64.
- **Left out.** The request encoding (Criticality label, WCET per node,
  JSON) is abstracted to the task list and `NoWcet`.

Notes on `NodeObject`:

- **Optimistic Update.** The API server accepts an Update only at the
  current resourceVersion and bumps it. Neither daemon keeps the object
  Update returns, so a copy keeps the version of its Get.
- **malacoda.** `MalacodaLoop(g)` is one pass of the loop with
  `gamma_new = g`. When g differs from the annotation of the copy (absent
  reads as 0, as `strconv.Atoi("")` does), the annotation and the label
  (`NO` below 3, `LOW` below 7, else `HI`) are written into the copy and
  Updated. On a conflict the error branch calls `err.Error()` on a nil
  `err` and the process panics. Only malacoda's `main.go` is modelled.
- **rubicante.** Its new schedulability is a Boolean input;
  `Rubicante.tla` computes it from the used vector. `ConfigClient`, run
  on every start, sets `SCHEDULABLE = true` and fetches `NODE`.
- **Others.** `OtherWrite` is the kubelet's status updates or any other
  client. Each bumps the resourceVersion, and at most `MaxWrites` happen.

Refinement: `TDMA` checks `AllocatorRefined == Allocator!Spec` for
`Allocator == INSTANCE TDMAAllocator WITH held <- Range(slices), Guard <- Offset`.
The list order is dropped. The guard is the 10 at which Reserve places a
slice after its predecessor; the 20 of the fit test is not a separation
the code keeps. `TDMAAllocator` promises:

- a reserve adds only slices of its pod, inside the cycle and at least
  the guard away from every other slice;
- a release removes only slices of its pod;
- no step moves, resizes or re-owns a held slice.

It leaves open how many slices a reserve adds, since Reserve has no
`break` and a failed `reserveSlot` keeps the slices already added. It also
leaves open whether a release removes all of the pod's slices: the
releases of Unreserve and podDelete miss some, which are the
`tdma_delete_leaks` finding. The master's set is not mapped. It does not
refine the allocator (`tdma_master_overlap`).

## 3. Runs

The Rubicante runs use `MCRubicante` with `SERVERPERIOD = 2500` and
`THRESHOLDSCHED = 80`, the constants of the code.

### Pass

| run (cfg) | checks | shows |
|---|---|---|
| `admission` (`MCRubicante.cfg`) | `TypeOK`, `SchedulabilityPreserved`, `HigherPriorityBandsStable`, `BindReportExact`, `BindBandsLeast` | Over every order of dry runs, binds and deletes of five pods and an empty request on two cores, with no repeated bind of a held name (`MaxRebinds = 0`), four things hold. Every container holding bandwidth meets its deadlines against its co-residents. No request changes the band of a container of equal or higher priority. A successful bind reports the core and band it stored, and the true committed sum of that core. Every band a successful bind writes (the new pod's, and the co-residents' it re-searched) is the least band at which the container meets its deadlines plus the unit of overhead compensation: checked against `LeastSchedulable`, a linear scan, so the binary search of `binSearch` loses neither the least band nor the top of its range. The bands a rollback zeroes are left out; they are the `rollback_zeroes_bands` finding. 36,316 states. |
| `persistence` (`MCRubicante_Persistence.cfg`) | `FlushedPodsStored` | Both builds, two pods on one core, one repeated bind of a held name, failed opens of the CSV files, sqlite dumps that panic half way, deaths and two restarts. In the sqlite build, whenever `state.changed` is clear, every pod the daemon holds and that was not deleted since its bind has a row a restart reloads: the dirty flag, the upsert (one row per name, duplicates included), the panic before the flag is cleared and the per-name delete together lose no flushed pod. The csv build fails the same statement through the failed open (a hazard in `PROJECT.json`). 894,799 states. |
| `scheduler` (`MCScheduler.cfg`) | `BoundPodHeld`, `BestNodeNotDominated` | Three pods (40% of a core each; c has no WCET on m2) on two single-core nodes, assurance annotations 136 on m1 and a non-integer on m2 in mode Least, one lost podBind message, and daemons killed by the delete panic or by one tombstone delivery (`MaxTombstones = 1`). Over every order of scheduling cycles, binding cycles and deletions, two things hold. A pod reported bound is held by its node's daemon. No feasible node is both less used and at least as preferred as the chosen one. 29,630 states. |
| `tdma` (`MCTDMA.cfg`) | `TypeOK`, `SlicesSeparated`, `PreFilterAgreesWithReserve`, `AllocatorRefined` | The pods are two TDMA pods (lengths 50 and 35), a pod without network requirements and one with a bad annotation, in a cycle of 260, with one failed call. Over every order of their handlers, the slice list stays sorted, at least 10 apart and inside the cycle. A pod PreFilter admitted is reserved unless a call to the master fails, since the steps that can come between only remove slices. The plugin refines `TDMAAllocator`. 209,064 states, with the pods deleted before and after deleteWatcher's informer starts. |

### Violation

Each violation run checks one property, which TLC finds violated. Each is
also a finding in `PROJECT.json`.

| run (cfg) | property | what the counterexample shows |
|---|---|---|
| `rollback_zeroes_bands` | `ProbeLeavesBandsUnchanged` | n0, n1, n3 are bound on core 0. A request for n2 or n4 fails the re-search of n3 (or n1), and the rollback sets the later container's band to 0 (`nodeImplementation.go:62-99`). |
| `threshold_exceeded` | `CoreWithinThreshold` | Four binds of (2500, 400) and one of (5000, 800) on one core commit more than 80%, because the re-search raises bands after the threshold test. |
| `delete_resurrected` | `DeletedStaysDeleted` | The sequence is bind, dump, delete, kill, restart. Run with one pod so that the delete cannot panic. |
| `recovered_tasks_corrupt` | `RecoveredTasksIntact` | After a restart each container carries the other containers' task lines as zero tasks. |
| `tdma_delete_leaks` | `DeleteReleases` | p1 gets the tail slice [110,160). Its binding fails, and Unreserve never looks at the last slice. p1 is reserved again at [170,220). Its deletion removes [110,160) and skips [170,220). |
| `scheduler_delete_leak` (`MCScheduler_DeletedPodReleased.cfg`) | `DeletedPodReleased` | With no lost message: a is scheduled to m2 (the node the assurance score prefers in mode Least), then deleted (the delete callbacks find nothing), then PreBind's podBind commits a on m2. Bind fails, and no delete will ever come for a. |
| `tdma_master_overlap` | `MasterSlicesDisjoint` | No call fails. After the same leak, Unreserve of p1 removes [110,160) but sends [170,220) to TDMAremove. p2 is then placed at [110,145), over the slice the master still holds. |
| `node_object_stale` (`MCNodeObject.cfg`) | `NodeMirrorsDaemons` | malacoda starts and writes gamma 1, which is accepted. Its copy keeps resourceVersion 0, so writing gamma 5 conflicts, and the error branch panics on the nil `err`. The same stale copy makes rubicante's Update fail after any other write, while `SCHEDULABLE` has already flipped. |

Nine more disagreements were found while modelling and are kept as
hazards in `PROJECT.json`, not as runs of their own:

- `deletePod` (csv build) panics when it deletes any container but the
  last. `DeleteLoop` models this, and in `Scheduler` it kills the daemon.
- TDMA's Reserve has no `break` and gives a pod a slice in every fitting
  gap. `ReserveLoop` models this.
- A request with no tasks panics in `setPrio` with `state.m` held, and
  every later handler blocks (`NeverWedged`, reached by the `Wedge`
  action of the admission configuration). Its run gave way to
  `node_object_stale`, since the project keeps at most twelve runs.
- An `assurance` annotation above MaxInt64 / 100 overflows
  `(score - lowest) * 100` in NormalizeScore. Every pod that two
  differently annotated nodes accept then fails its scheduling cycle: with
  `Mode = "Most"` and an annotation of 400 at width 16 the normalized
  score leaves [0, 100] at the first cycle.
- `setPrio` gives n4 (period 1250) the same priority 128 as n0 (period 2500).
- `dumpState` leaves stale trailing records, since it does not truncate.
- The csv `dumpState` clears `state.changed` after a failed `OpenFile`:
  a bind, then such a dump, leaves the flag clear and no record of the
  pod, so a crash loses it.
- The sqlite `deletePod` skips the container swapped into the hole: a
  pod bound twice and then deleted keeps a container (bind, bind,
  delete).
- The TDMA slices are 10 apart, not the 20 of the guard band in the spec.
  The first reservation is [110,160), where spec 8's example expects
  `Begin=10`.

Every property of a passing run has a mutant in `PROJECT.json`. The mutant
is a one-line change to the code's logic that the property catches:

- no re-search at all;
- a re-search of every co-resident;
- the stored copy keeping core 0;
- a committed bind that leaves `state.changed` clear (`FlushedPodsStored`);
- in binSearch, no unit of overhead compensation (`BindBandsLeast`);
- in TDMA, a new slice recorded under its predecessor's pod (`AllocatorRefined`);
- in TDMA, a gap test without the guard band;
- in TDMA, a tail test without the guard band (a slice past the cycle);
- in TDMA, a PreFilter with non-strict comparisons;
- in Scheduler, a PreBind that ignores the answer;
- in Scheduler, an inverted NormalizeScore (`BestNodeNotDominated`);

### Bounds and why they are enough

The pod task sets in `MCRubicante` are small, and were chosen so that the
interesting cases happen in a few steps. With them:

- a co-resident must be re-searched after a higher-priority bind;
- a re-search can fail;
- the second core gets used;
- a pod can be deleted in the middle of the list.

Each violation counterexample above is reached within five requests.

The persistence runs bound the environment: the process is restarted at
most `MaxRestarts` times. Each restart multiplies the task lines, so
without this bound the state space is infinite. After the last restart a
dead daemon stays down. That is the only reason those runs say
`CHECK_DEADLOCK FALSE`. The admission runs say it because in
`AdmissionSpec` a daemon killed by the delete panic stays down.

The persistence run explores both builds with `MaxDbTasks = 4`, enough
for a deleted container's task rows to outlive it and for an upsert to
append rows under another id, and with `MaxRebinds = 1`, enough for two
containers of one name to reach a dump, a delete and a reload.

The TDMA runs use a cycle of 260.
A cycle of 260 holds at most three slices after the sentinel. The lengths
50 and 35 make slice ends fall at 100 + 60a + 45b, so gaps and tails land
both strictly inside the guard band and on its edges. The mutants need
both cases. One failed call is enough to reach every failure path of the
three HTTP loops.

The TDMA runs say `CHECK_DEADLOCK FALSE` because once every pod is bound
or deleted the scheduler has nothing left to do.

The Scheduler runs use three pods of 40% each on two single-core nodes
with `THRESHOLDSCHED = 90`. Two pods fit on a node and three do not, so
a pod can find no feasible node and be parked as unschedulable, and a
pod accepted by a dry run can be refused by podBind after another pod's
binding. c
has no WCET for m2, so it depends on m1. One lost message
(`MaxLost = 1`) is enough for a committed-but-failed podBind and its
retry. One tombstone (`MaxTombstones = 1`) kills either daemon at any
deletion. `scheduler_delete_leak` sets `MaxLost = 0` and
`MaxTombstones = 0`: the leak needs neither fault. Both say
`CHECK_DEADLOCK FALSE`, since the scheduler stops
once every pod is bound, parked or deleted. The assurance 136 on m1 and
the non-integer annotation of m2 (read as 0) give the two nodes different
assurance scores, so the two plugins can disagree about the best node.

`node_object_stale` uses three gammas (one per criticality level), two
foreign writes and one rubicante restart. The shortest counterexample
needs none of them beyond two gammas; the others let TLC reach the
rubicante paths too. It says `CHECK_DEADLOCK FALSE` because a dead
malacoda and a bounded environment stop.

### Fairness

No run assumes fairness, and no liveness property is checked.
`dumpRoutine` loops for ever, but a handler that panics leaves `state.m`
locked and the loop blocked, so the code does not guarantee a dump.
PreBind's and the TDMA plugin's HTTP clients have no timeout, so the
code does not guarantee that a binding cycle ends, and a daemon killed
by a panic never comes back. Requests and deletes come from outside.

## 4. Not modelled, and why

- **malacoda's monitor.** `monitor.go`, `frommpstat.go` and
  `prove/monitor.go` hold the /proc and cgroup sampling and the threshold
  and trend alarms. They are arithmetic over floating-point samples, and
  `phaseOne` is never called. `monitor.go` does not compile as it stands:
  `getPod` ends in an unfinished `for` and uses `strings` without
  importing it. Only `main.go` is modelled (`NodeObject`).
- **Shared maps.** Filter's unsynchronised writes to `pl.urltable`,
  `pl.iptable` and `pl.status` run in parallel. A concurrent write is a
  fatal error of the Go runtime, below the grain of a scheduling cycle
  as one step (a hazard in `PROJECT.json`).
- **Small components.** `scarmiglione` keeps no state; its two handlers
  are the operators `TDMAsched` and `TDMAremove` of `TDMA`. `myplugin` filters at
  random. `demonset`
  and `sched.go` are launchers and a test scenario.
- **cser ≤ 0.** The `cser <= 0` floating-point division (bands ≤ 0) is
  treated as not schedulable. It is reachable only when the
  higher-priority bands on a core sum to more than 99.

## 5. Plan

Done:

1. `RTA`, `Rubicante` and `MCRubicante`: the admission engine and its
   persistence.
2. `TDMA` and `MCTDMA`: the TDMA plugin, the lifecycle that drives it,
   and the master's view.
3. `Scheduler` and `MCScheduler`: the rtschedulability plugin composed
   with `Rubicante` on two nodes; the sqlite build in `Rubicante`.
4. `NodeAssuranceScorer`
   composed into `Scheduler`; `NodeObject` for the Node's two writers.
5. `BindBandsLeast`: `binSearch` checked against a linear-scan reference
   on every co-resident set the daemon reaches; `deleteWatcher`'s startup
   window in `TDMA`.
6. `TDMAAllocator`, refined by `TDMA`; tombstone deliveries in
   `Scheduler`.

Next:

- A violation run for each of the csv dump's failed open and the sqlite
  delete's skip, should a run be freed.
- `Scheduler` extensions:
  - a property that a pod is held on at most one node, which the lost
    answer and retry break (now a hazard);
  - the Filter calls of one cycle as separate steps, to expose the
    shared-map writes;
  - the node's unschedulable flag from `NodeObject` as the default
    NodeUnschedulable filter.
- `RTA` reference check over bounded inputs: the result is monotonic in
  wcet.
