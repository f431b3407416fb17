----------------------------- MODULE Rubicante -----------------------------
(***************************************************************************)
(* The rubicante node daemon (src/rubicante): the per-node admission      *)
(* authority for CPU bandwidth.  Its state is the list of admitted        *)
(* containers state.containers, the dirty flag state.changed, the two CSV *)
(* files the dump routine writes, and the SCHEDULABLE flag it mirrors to  *)
(* the node object.  Every handler runs under the mutex state.m and is    *)
(* one atomic step here:                                                  *)
(*   SchedulabilityTest  POST /shedulabilityTest  (schedTest, dry run)    *)
(*   PodBind             POST /podBind            (schedTest, persistent) *)
(*   PodDelete           informer delete callback (deletePod + update)    *)
(*   DumpState           the 10 s dump routine (csv build, dumpState)     *)
(*   Kill / Restart      the process dying and start() reloading the CSVs *)
(* A handler that panics while holding state.m (setPrio on an empty task  *)
(* list; net/http recovers the panic) leaves the mutex locked: wedged.    *)
(***************************************************************************)
EXTENDS Integers, Sequences, SequencesExt, FiniteSets, TLC

CONSTANTS
  Pods,      \* names of the pods whose requests reach this node
  PodTasks,  \* PodTasks[p]: the task list of p's request, sorted by Prio
  NCPUs,     \* runtime.NumCPU()
  MaxRestarts, \* bound on the restarts of the daemon process
  Builds,    \* the storage builds explored: "csv" (default), "sqlite"
  MaxDbTasks, \* sqlite build: deletions and dumps stop once the tasks table is this long
  OpenFaults, \* csv build: whether os.OpenFile of a dump may fail
  MaxRebinds, \* bound on podBinds of a name the daemon already holds
  SERVERPERIOD, THRESHOLDSCHED

INSTANCE RTA

Cores == 0 .. NCPUs - 1

ASSUME /\ NCPUs \in Nat \ {0}
       /\ MaxRestarts \in Nat
       /\ Builds # {} /\ Builds \subseteq {"csv", "sqlite"}
       /\ MaxDbTasks \in Nat
       /\ OpenFaults \in BOOLEAN
       /\ MaxRebinds \in Nat
       /\ \A p \in Pods : \A i, j \in DOMAIN PodTasks[p] :
             i < j => PodTasks[p][i].Prio <= PodTasks[p][j].Prio

VARIABLES
  containers,   \* state.containers
  changed,      \* state.changed
  diskContainers, \* containers.csv, one record per line
  diskTasks,    \* tasks.csv, one record per line
  build,        \* the build tag the daemon was compiled with
  dbContainers, \* sqlite table containers, in rowid order
  dbTasks,      \* sqlite table tasks, in rowid order
  up,           \* the daemon process is running
  wedged,       \* state.m is locked by a handler that panicked
  SCHEDULABLE,  \* the node's advertised schedulability
  deletedPods,  \* history: pods deleted and not bound again since
  restarts,     \* number of restarts so far (bounded by MaxRestarts)
  rebinds       \* podBinds of a held name so far (bounded by MaxRebinds)

store == <<diskContainers, diskTasks, dbContainers, dbTasks>>
vars == <<containers, changed, store, build, up, wedged,
          SCHEDULABLE, deletedPods, restarts, rebinds>>

Names(st) == {st[i].name : i \in DOMAIN st}

MinPeriod(c) == LET P == {c.tasks[i].Period : i \in DOMAIN c.tasks}
                IN  CHOOSE m \in P : \A q \in P : m <= q

(* getBandwidths: the bandwidth used on every core.                        *)
UsedBandwidths(st) ==
  [k \in Cores |-> SumOf({i \in DOMAIN st : st[i].core = k},
                         LAMBDA i : st[i].band)]

(* The permutation of 1..Len(s) that stable-sorts s by Before.             *)
StableOrder(s, Before(_, _)) ==
  SortSeq([i \in 1 .. Len(s) |-> i],
          LAMBDA a, b : Before(s[a], s[b]) \/ (~Before(s[b], s[a]) /\ a < b))

Permute(s, perm) == [k \in DOMAIN perm |-> s[perm[k]]]

(* Mutant: state.containers sorted by decreasing minimum period.          *)
SetPrioDescending(tasks, st) ==
  LET sorted == Permute(st, StableOrder(st,
                  LAMBDA a, b : MinPeriod(a) > MinPeriod(b)))
      m == MinPeriod([tasks |-> tasks])
      after == {i \in DOMAIN sorted : m < MinPeriod(sorted[i])}
      i == IF after = {} THEN Len(sorted) + 1
           ELSE CHOOSE k \in after : \A j \in after : k <= j
  IN  [st   |-> sorted,
       prio |-> IF i = 1 THEN 128
                ELSE IF i = Len(sorted) + 1 THEN sorted[i - 1].prio \div 2
                ELSE (sorted[i].prio + sorted[i - 1].prio) \div 2]

(***************************************************************************)
(* setPrio: sorts state.containers by minimum task period (stably) and    *)
(* derives the new container's priority from the position its own minimum *)
(* period takes in that order.                                            *)
(***************************************************************************)
SetPrio(tasks, st) ==
  LET sorted == Permute(st, StableOrder(st,
                  LAMBDA a, b : MinPeriod(a) < MinPeriod(b)))
      m == MinPeriod([tasks |-> tasks])
      after == {i \in DOMAIN sorted : m < MinPeriod(sorted[i])}
      i == IF after = {} THEN Len(sorted) + 1
           ELSE CHOOSE k \in after : \A j \in after : k <= j
  IN  [st   |-> sorted,
       prio |-> IF i = 1 THEN 128
                ELSE IF i = Len(sorted) + 1 THEN sorted[i - 1].prio \div 2
                ELSE (sorted[i].prio + sorted[i - 1].prio) \div 2]

(* Mutants of the re-search guard: no re-search at all, and a re-search   *)
(* of every co-resident whatever its priority.                            *)
NeedsRecheckNever(x, c) == FALSE
NeedsRecheckAll(x, c) == x.name # c.name

(* The re-search guard of schedTest: only containers of strictly lower    *)
(* priority than the candidate c are re-searched.                          *)
NeedsRecheck(x, c) == x.prio < c.prio

(***************************************************************************)
(* The band the j-th container of the priority-sorted list srt is left    *)
(* with when the probe ends: the re-searched bands if the probe succeeded  *)
(* and is persistent; otherwise the rollback buffer, which is zero-filled *)
(* and was written only up to the container whose re-search failed.       *)
(***************************************************************************)
FinalBand(srt, bands, fail, j, persistent) ==
  IF fail = 0 /\ persistent THEN bands[j]
  ELSE IF fail = 0 \/ j <= fail THEN srt[j].band
  ELSE 0

(***************************************************************************)
(* The re-search loop of schedTest over the priority-sorted list srt       *)
(* (candidate c included): each container of lower priority than c is    *)
(* re-searched against the bands written so far, and the loop breaks at   *)
(* the first failure.  R[j] is the outcome after position j: the bands,  *)
(* the failing position (0 if none) and newbw, the sum of the bands the   *)
(* loop went through.                                                     *)
(***************************************************************************)
(* The outcome of position j given the result r of its re-search (or of  *)
(* leaving it alone).                                                     *)
RecheckWith(srt, j, p, r) ==
  [bands |-> [p.bands EXCEPT ![j] = r.band],
   fail  |-> IF r.ok THEN 0 ELSE j,
   newbw |-> IF r.ok THEN p.newbw + r.band ELSE p.newbw]

(* One pass of the re-search loop at position j, after outcome p.        *)
RecheckStep(srt, c, j, p) ==
  IF p.fail # 0 THEN p
  ELSE RecheckWith(srt, j, p,
         IF NeedsRecheck(srt[j], c)
         THEN BinSearch([srt[j] EXCEPT !.band = p.bands[j]],
                        [h \in DOMAIN srt |-> [srt[h] EXCEPT !.band = p.bands[h]]])
         ELSE [band |-> p.bands[j], ok |-> TRUE])

Recheck(srt, c) ==
  LET R[j \in 0 .. Len(srt)] ==
        IF j = 0 THEN [bands |-> [h \in DOMAIN srt |-> srt[h].band],
                       fail |-> 0, newbw |-> 0]
        ELSE RecheckStep(srt, c, j, R[j - 1])
  IN  R[Len(srt)]

(***************************************************************************)
(* One iteration of schedTest's core loop: candidate c against the        *)
(* containers of st on core k, at the positions ix.  If c fits, the       *)
(* co-residents and c are sorted by decreasing priority and re-searched;  *)
(* binSearch writes each band through the pointer, so later re-searches   *)
(* see it.  ProbeFitted receives the sorted list srt, the original        *)
(* position of each of its entries (org, 0 for c) and the re-search rc.  *)
(***************************************************************************)
ProbeFitted(st, k, persistent, bs, srt, org, rc) ==
  [ok |-> rc.fail = 0, band |-> bs.band, newbw |-> rc.newbw,
   st |-> [i \in DOMAIN st |->
             IF st[i].core = k
             THEN [st[i] EXCEPT !.band =
                     FinalBand(srt, rc.bands, rc.fail,
                               CHOOSE j \in DOMAIN org : org[j] = i, persistent)]
             ELSE st[i]]]

ProbeSorted(c, st, k, persistent, bs, srt, org) ==
  ProbeFitted(st, k, persistent, bs, srt, org, Recheck(srt, c))

ProbeSearched(c, st, k, used, persistent, ix, bs) ==
  IF used[k] + bs.band <= THRESHOLDSCHED /\ bs.ok
  THEN LET merged == Append(Permute(st, ix), [c EXCEPT !.band = bs.band])
           ord == StableOrder(merged, LAMBDA a, b : a.prio > b.prio)
       IN  ProbeSorted(c, st, k, persistent, bs, Permute(merged, ord),
                       Permute(Append(ix, 0), ord))
  ELSE [ok |-> FALSE, band |-> bs.band, newbw |-> 0, st |-> st]

Probe(c, st, k, used, persistent) ==
  LET ix == SelectSeq([i \in DOMAIN st |-> i], LAMBDA i : st[i].core = k)
  IN  ProbeSearched(c, st, k, used, persistent, ix, BinSearch(c, Permute(st, ix)))

(* Mutants: c.core is set after the append, so the stored copy keeps 0;  *)
(* the copy appended was taken before binSearch wrote c.band (100).       *)
CommittedNoCore(c, band, k) == [c EXCEPT !.band = band]
CommittedUnsearched(c, band, k) == [c EXCEPT !.core = k]

(* The container appended to state.containers: c with the band and the    *)
(* core of the winning probe.                                             *)
Committed(c, band, k) == [c EXCEPT !.band = band, !.core = k]

(* The outcome r of the probe of core k, given what the earlier cores     *)
(* left: on success the core, the band and the Status vector (used with   *)
(* entry k replaced by newbw), and the appended candidate if persistent.  *)
CoreOutcome(c, used, persistent, k, r) ==
  IF r.ok
  THEN [ok |-> TRUE, core |-> k, band |-> r.band,
        status |-> [used EXCEPT ![k] = r.newbw],
        st |-> IF persistent THEN Append(r.st, Committed(c, r.band, k))
               ELSE r.st]
  ELSE [ok |-> FALSE, core |-> 0, band |-> 0, status |-> used, st |-> r.st]

CoreTry(c, used, persistent, prev, k) ==
  IF prev.ok THEN prev
  ELSE CoreOutcome(c, used, persistent, k, Probe(c, prev.st, k, used, persistent))

(***************************************************************************)
(* schedTest: setPrio, then first-fit over the cores in ascending order;  *)
(* Tried[k] is the outcome once cores 0 .. k-1 have been probed.          *)
(***************************************************************************)
SchedTestWith(tasks, name, sp, persistent) ==
  LET c == [name |-> name, tasks |-> tasks, band |-> 100, prio |-> sp.prio,
            core |-> 0]
      used == UsedBandwidths(sp.st)
      Tried[k \in 0 .. NCPUs] ==
        IF k = 0 THEN [ok |-> FALSE, core |-> 0, band |-> 0, status |-> used,
                       st |-> sp.st]
        ELSE CoreTry(c, used, persistent, Tried[k - 1], k - 1)
  IN  Tried[NCPUs]

SchedTest(p, persistent) ==
  SchedTestWith(PodTasks[p], p, SetPrio(PodTasks[p], containers), persistent)

Init ==
  /\ containers = <<>>
  /\ changed = FALSE
  /\ diskContainers = <<>>
  /\ diskTasks = <<>>
  /\ build \in Builds
  /\ dbContainers = <<>>
  /\ dbTasks = <<>>
  /\ up = TRUE
  /\ wedged = FALSE
  /\ SCHEDULABLE = TRUE
  /\ deletedPods = {}
  /\ restarts = 0
  /\ rebinds = 0

Running == up /\ ~wedged

(* setPrio indexes Tasks[0] of the request and getMinPeriod tasks[0] of  *)
(* every container it compares (all of them once there is one): a request *)
(* with an empty task list, or any request once a container was reloaded *)
(* without tasks, panics under state.m.                                  *)
NoTasks(p) ==
  \/ PodTasks[p] = <<>>
  \/ \E i \in DOMAIN containers : containers[i].tasks = <<>>

(* net/http recovers the panic of setPrio and the mutex stays locked.     *)
Wedge(p) ==
  /\ Running
  /\ NoTasks(p)
  /\ wedged' = TRUE
  /\ UNCHANGED <<containers, changed, store, build, up,
                 SCHEDULABLE, deletedPods, restarts, rebinds>>

(* Mutant: a committed bind that leaves state.changed as it was.           *)
HandleWithClean(p, persistent, r) ==
  /\ containers' = r.st
  /\ changed' = changed
  /\ deletedPods' = IF persistent /\ r.ok THEN deletedPods \ {p}
                    ELSE deletedPods

HandleWith(p, persistent, r) ==
  /\ containers' = r.st
  /\ changed' = (changed \/ (persistent /\ r.ok))
  /\ deletedPods' = IF persistent /\ r.ok THEN deletedPods \ {p}
                    ELSE deletedPods

Handle(p, persistent) ==
  /\ Running
  /\ ~NoTasks(p)
  /\ HandleWith(p, persistent, SchedTest(p, persistent))
  /\ UNCHANGED <<store, build, up, wedged, SCHEDULABLE, restarts>>

(* SchedulabilityTest: the dry run the scheduler's Filter sends.           *)
SchedulabilityTest(p) == Handle(p, FALSE) /\ UNCHANGED rebinds

(* PodBind: the committing request the scheduler's PreBind sends.  The    *)
(* handler does not look the name up: a retried bind whose answer was     *)
(* lost, or a same-named pod of another namespace, commits another        *)
(* container under the name.  The model stops at MaxRebinds of them.      *)
PodBind(p) ==
  /\ IF p \in Names(containers)
     THEN rebinds < MaxRebinds /\ rebinds' = rebinds + 1
     ELSE UNCHANGED rebinds
  /\ Handle(p, TRUE)

(***************************************************************************)
(* deletePod (csv build): ranges over the original length of              *)
(* state.containers while remove() swaps the last element into the hole   *)
(* and shrinks the slice; indexing past the new end panics, which kills   *)
(* the process (client-go re-raises handler panics).  The returned vector *)
(* feeds updateSchedulability.  state.changed is left alone.             *)
(***************************************************************************)
RemoveAt_(s, i) == SubSeq([s EXCEPT ![i] = s[Len(s)]], 1, Len(s) - 1)

DeleteLoop(name) ==
  LET n == Len(containers)
      RECURSIVE Loop(_, _, _)
      Loop(i, st, used) ==
        IF i > n THEN [panic |-> FALSE, st |-> st, used |-> used]
        ELSE IF i > Len(st) THEN [panic |-> TRUE, st |-> st, used |-> used]
        ELSE IF st[i].name # name
             THEN Loop(i + 1, st, [used EXCEPT ![st[i].core] = @ + st[i].band])
             ELSE Loop(i + 1, RemoveAt_(st, i), used)
  IN  Loop(1, containers, [k \in Cores |-> 0])

(* updateSchedulability                                                    *)
UpdateSchedulability(used) == \E k \in Cores : used[k] < THRESHOLDSCHED

PodDelete(p) ==
  /\ Running
  /\ build = "csv"
  /\ LET r == DeleteLoop(p)
     IN  IF r.panic
         THEN /\ up' = FALSE
              /\ UNCHANGED <<containers, SCHEDULABLE>>
         ELSE /\ containers' = r.st
              /\ SCHEDULABLE' = UpdateSchedulability(r.used)
              /\ UNCHANGED up
  /\ deletedPods' = deletedPods \cup {p}
  /\ UNCHANGED <<changed, store, build, wedged, restarts, rebinds>>

(***************************************************************************)
(* dumpState (csv build): when changed, writes one line per container and *)
(* one per task.  The files are opened O_WRONLY without O_TRUNC, so lines *)
(* beyond the new content keep the previous content (modelled line by    *)
(* line).  An OpenFile that fails is only logged: every WriteString on   *)
(* the nil file fails and is logged too, and state.changed is cleared    *)
(* all the same (okC, okT: the open of containers.csv, tasks.csv).  A    *)
(* failed open is explored when OpenFaults holds.                        *)
(***************************************************************************)
Overwrite(old, new) == new \o SubSeq(old, Len(new) + 1, Len(old))

ContainerLines(st) ==
  [i \in DOMAIN st |-> [name |-> st[i].name, band |-> st[i].band,
                        prio |-> st[i].prio, core |-> st[i].core]]

TaskLines(st) ==
  FoldLeft(LAMBDA acc, c : acc \o [j \in DOMAIN c.tasks |->
                                     [name |-> c.name, task |-> c.tasks[j]]],
           <<>>, st)

DumpState ==
  /\ Running
  /\ build = "csv"
  /\ changed
  /\ \E okC, okT \in IF OpenFaults THEN BOOLEAN ELSE {TRUE} :
       /\ diskContainers' = IF okC THEN Overwrite(diskContainers, ContainerLines(containers))
                            ELSE diskContainers
       /\ diskTasks' = IF okT THEN Overwrite(diskTasks, TaskLines(containers))
                       ELSE diskTasks
  /\ changed' = FALSE
  /\ UNCHANGED <<containers, dbContainers, dbTasks, build, up, wedged,
                 SCHEDULABLE, deletedPods, restarts, rebinds>>

(* The process dies (killed, OOM, node reboot); memory is lost.           *)
Kill ==
  /\ up
  /\ up' = FALSE
  /\ UNCHANGED <<containers, changed, store, build, wedged,
                 SCHEDULABLE, deletedPods, restarts, rebinds>>

(***************************************************************************)
(* start(): read_containers_data rebuilds the list from containers.csv;   *)
(* read_task_data gives each container one task per line of tasks.csv,   *)
(* the zero Task for lines of other containers.  configClient sets        *)
(* SCHEDULABLE.                                                           *)
(***************************************************************************)
ZeroTask == [Period |-> 0, Wcet |-> 0, Prio |-> 0]

ReadTaskData(name) ==
  [j \in DOMAIN diskTasks |->
     IF diskTasks[j].name = name THEN diskTasks[j].task ELSE ZeroTask]

ReadContainersData ==
  [i \in DOMAIN diskContainers |->
     [name |-> diskContainers[i].name, band |-> diskContainers[i].band,
      prio |-> diskContainers[i].prio, core |-> diskContainers[i].core,
      tasks |-> ReadTaskData(diskContainers[i].name)]]

(***************************************************************************)
(* The sqlite build (data_storage_Sqlite.go).  The table containers has  *)
(* an integer primary key id (a rowid: one more than the largest in use) *)
(* and a unique name; tasks rows carry the id of their container.        *)
(***************************************************************************)
NextRowid(rows) == 1 + Max({0} \cup {rows[j].id : j \in DOMAIN rows})

(* deletePod: "for i < len(state.containers)" re-reads the length, so it  *)
(* never panics, but after remove() it still advances and skips the       *)
(* container swapped into i, whose band is then not counted.  Each match *)
(* also runs "delete from containers where name=?".  Each delete and      *)
(* re-bind lets a later dump add task rows (see Upsert); the model stops  *)
(* deletions once the tasks table has MaxDbTasks rows.                   *)
RECURSIVE SqlDeleteFrom(_, _, _, _, _)
SqlDeleteFrom(name, i, st, used, hit) ==
  IF i > Len(st) THEN [st |-> st, used |-> used, hit |-> hit]
  ELSE IF st[i].name # name
       THEN SqlDeleteFrom(name, i + 1, st,
                          [used EXCEPT ![st[i].core] = @ + st[i].band], hit)
       ELSE SqlDeleteFrom(name, i + 1, RemoveAt_(st, i), used, TRUE)

SqlDeleteRows(rows, name, hit) ==
  IF hit THEN SelectSeq(rows, LAMBDA x : x.name # name) ELSE rows

SqlPodDelete(p) ==
  /\ Running
  /\ build = "sqlite"
  /\ Len(dbTasks) < MaxDbTasks
  /\ LET r == SqlDeleteFrom(p, 1, containers, [k \in Cores |-> 0], FALSE)
     IN  /\ containers' = r.st
         /\ SCHEDULABLE' = UpdateSchedulability(r.used)
         /\ dbContainers' = SqlDeleteRows(dbContainers, p, r.hit)
  /\ deletedPods' = deletedPods \cup {p}
  /\ UNCHANGED <<changed, diskContainers, diskTasks, dbTasks, build, up,
                 wedged, restarts, rebinds>>

(***************************************************************************)
(* dumpState (sqlite build): for each container, "insert ... on          *)
(* conflict(name) do update set band"; when LastInsertId is not 0, its   *)
(* tasks are inserted with that id.  An upsert that updates leaves        *)
(* LastInsertId at the id of the connection's last insert (0 on the      *)
(* fresh connection of each dump).  db is [rows, tasks, last].            *)
(***************************************************************************)
Upsert(db, c) ==
  LET new == \A j \in DOMAIN db.rows : db.rows[j].name # c.name
      id == IF new THEN NextRowid(db.rows) ELSE db.last
  IN  [rows |-> IF new
                THEN Append(db.rows, [id |-> id, name |-> c.name,
                                      band |-> c.band, prio |-> c.prio,
                                      core |-> c.core])
                ELSE [j \in DOMAIN db.rows |->
                        IF db.rows[j].name = c.name
                        THEN [db.rows[j] EXCEPT !.band = c.band]
                        ELSE db.rows[j]],
       tasks |-> IF id # 0
                 THEN db.tasks \o [k \in DOMAIN c.tasks |->
                                     [container |-> id, task |-> c.tasks[k]]]
                 ELSE db.tasks,
       last |-> id]

DumpDb == [rows |-> dbContainers, tasks |-> dbTasks, last |-> 0]

SqlDumpState ==
  /\ Running
  /\ build = "sqlite"
  /\ changed
  /\ Len(dbTasks) < MaxDbTasks
  /\ LET db == FoldLeft(Upsert, DumpDb, containers)
     IN  /\ dbContainers' = db.rows
         /\ dbTasks' = db.tasks
  /\ changed' = FALSE
  /\ UNCHANGED <<containers, diskContainers, diskTasks, build, up, wedged,
                 SCHEDULABLE, deletedPods, restarts, rebinds>>

(* A statement of the dump fails after the upserts of the first j         *)
(* containers (each Exec commits on its own): checkErr panics in the dump *)
(* goroutine with state.m held, which kills the process.                  *)
SqlDumpStateFails ==
  /\ Running
  /\ build = "sqlite"
  /\ changed
  /\ Len(dbTasks) < MaxDbTasks
  /\ \E j \in 0 .. Len(containers) - 1 :
       LET db == FoldLeft(Upsert, DumpDb, SubSeq(containers, 1, j))
       IN  /\ dbContainers' = db.rows
           /\ dbTasks' = db.tasks
  /\ up' = FALSE
  /\ UNCHANGED <<containers, changed, diskContainers, diskTasks, build, wedged,
                 SCHEDULABLE, deletedPods, restarts, rebinds>>

(* read_containers_data (sqlite build): every row, with the tasks rows    *)
(* whose container is its id.                                             *)
SqlTasksOf(id) ==
  LET ts == SelectSeq(dbTasks, LAMBDA t : t.container = id)
  IN  [k \in DOMAIN ts |-> ts[k].task]

SqlReadContainersData ==
  [i \in DOMAIN dbContainers |->
     [name |-> dbContainers[i].name, band |-> dbContainers[i].band,
      prio |-> dbContainers[i].prio, core |-> dbContainers[i].core,
      tasks |-> SqlTasksOf(dbContainers[i].id)]]

ReadStore ==
  IF build = "csv" THEN ReadContainersData ELSE SqlReadContainersData

Restart ==
  /\ ~up
  /\ restarts < MaxRestarts
  /\ restarts' = restarts + 1
  /\ up' = TRUE
  /\ wedged' = FALSE
  /\ containers' = ReadStore
  /\ changed' = FALSE
  /\ SCHEDULABLE' = TRUE
  /\ UNCHANGED <<store, build, deletedPods, rebinds>>


Next ==
  \/ \E p \in Pods : SchedulabilityTest(p) \/ PodBind(p) \/ Wedge(p)
                     \/ PodDelete(p) \/ SqlPodDelete(p)
  \/ DumpState
  \/ SqlDumpState
  \/ SqlDumpStateFails
  \/ Kill
  \/ Restart

Spec == Init /\ [][Next]_vars

(* The admission engine alone: the handlers that change state.containers. *)
AdmissionNext ==
  \E p \in Pods : SchedulabilityTest(p) \/ PodBind(p) \/ Wedge(p)
                  \/ PodDelete(p) \/ SqlPodDelete(p)

AdmissionSpec == Init /\ [][AdmissionNext]_vars

(***************************************************************************)
(* Properties.                                                             *)
(***************************************************************************)
Task == [Period : Nat, Wcet : Nat, Prio : Int]

(* Every variable holds values of its type; in particular every band in  *)
(* state.containers is one binSearch accepted (below THRESHOLDSCHED), or   *)
(* one a rollback put back, and every core is one of runtime.NumCPU().    *)
TypeOK ==
  /\ \A i \in DOMAIN containers :
        containers[i] \in [name : Pods, tasks : Seq(Task),
                           band : 0 .. THRESHOLDSCHED - 1,
                           prio : Int, core : Cores]
  /\ changed \in BOOLEAN /\ up \in BOOLEAN /\ wedged \in BOOLEAN
  /\ SCHEDULABLE \in BOOLEAN
  /\ diskContainers \in Seq([name : Pods, band : 0 .. THRESHOLDSCHED - 1,
                             prio : Int, core : Cores])
  /\ diskTasks \in Seq([name : Pods, task : Task])
  /\ build \in Builds
  /\ dbContainers \in Seq([id : Nat \ {0}, name : Pods,
                           band : 0 .. THRESHOLDSCHED - 1, prio : Int,
                           core : Cores])
  /\ dbTasks \in Seq([container : Nat \ {0}, task : Task])
  /\ deletedPods \subseteq Pods
  /\ restarts \in 0 .. MaxRestarts
  /\ rebinds \in 0 .. MaxRebinds

Residents(st, k) == SelectSeq(st, LAMBDA x : x.core = k)

(* name -> band, independent of the order setPrio leaves the list in.      *)
Bands(st) == {<<st[i].name, st[i].band>> : i \in DOMAIN st}

PrioIn(st, n) == st[CHOOSE i \in DOMAIN st : st[i].name = n].prio

BandIn(st, n) == st[CHOOSE i \in DOMAIN st : st[i].name = n].band

Request(p) == SchedulabilityTest(p) \/ PodBind(p)

(***************************************************************************)
(* Every admitted container that holds bandwidth still meets all its      *)
(* deadlines against the containers now sharing its core: schedTest's     *)
(* re-search of the lower-priority co-residents, the rollback of failed   *)
(* probes and deletePod together never leave a live reservation           *)
(* unschedulable.                                                         *)
(***************************************************************************)
SchedulabilityPreserved ==
  \A i \in DOMAIN containers :
     containers[i].band > 0 =>
        ContainerSchedulable(containers[i], containers[i].band,
                             Residents(containers, containers[i].core))

(***************************************************************************)
(* A request (dry run or bind) never changes the band of an admitted      *)
(* container whose priority is at least the candidate's: schedTest only   *)
(* re-searches strictly lower priorities, and its rollback restores       *)
(* everything it touched before the failing re-search.                    *)
(***************************************************************************)
HigherPriorityBandsStable ==
  [][\A p \in Pods :
       Request(p) =>
         LET q == SetPrio(PodTasks[p], containers).prio
         IN  \A n \in Names(containers) :
                PrioIn(containers, n) >= q =>
                   BandIn(containers', n) = BandIn(containers, n)]_vars

BindReported(p, r) ==
  r.ok => /\ \E i \in DOMAIN containers' :
                 /\ containers'[i].name = p
                 /\ containers'[i].core = r.core
                 /\ containers'[i].band = r.band
          /\ r.status[r.core] = UsedBandwidths(containers')[r.core]

(***************************************************************************)
(* A successful podBind answers with the core and bandwidth the daemon    *)
(* stored for the pod, and the Status entry of that core is the bandwidth *)
(* now committed on it (the scheduler's scorer reads that vector).        *)
(***************************************************************************)
BindReportExact ==
  [][\A p \in Pods : PodBind(p) => BindReported(p, SchedTest(p, TRUE))]_vars

(***************************************************************************)
(* A request that does not admit its pod (every dry run, every rejected   *)
(* bind) leaves the band of every admitted container as it was: schedTest *)
(* restores the co-residents it re-searched (spec 4.4, "rollback          *)
(* idempotence" in spec 8).                                               *)
(***************************************************************************)
ProbeLeavesBandsUnchanged ==
  [][\A p \in Pods :
       Request(p) /\ p \notin Names(containers') =>
          Bands(containers') = Bands(containers)]_vars

(* Reference for binSearch: the least band of b .. 100 at which c meets   *)
(* all its deadlines against cs by linear scan, 101 when there is none.   *)
RECURSIVE LeastSchedulable(_, _, _)
LeastSchedulable(c, cs, b) ==
  IF b > 100 THEN 101
  ELSE IF ContainerSchedulable(c, b, cs) THEN b
       ELSE LeastSchedulable(c, cs, b + 1)

(* A band written in this step that holds bandwidth: the container is    *)
(* new, or its band moved to a non-zero value (a band the persistent      *)
(* rollback zeroed is the rollback_zeroes_bands finding).                 *)
Rewritten(x) ==
  /\ x.band > 0
  /\ x.name \notin Names(containers) \/ x.band # BandIn(containers, x.name)

(***************************************************************************)
(* Every band a successful podBind writes, the new pod's and those of the *)
(* co-residents schedTest re-searched, is the minimal sufficient band plus *)
(* the one unit of overhead compensation (spec 8, "convergence"): the      *)
(* binary search of binSearch on [0, 99 - allotted] misses neither the    *)
(* least band nor the top of its range, for every co-resident set the     *)
(* daemon can reach.                                                      *)
(***************************************************************************)
BindBandsLeast ==
  [][Names(containers') \ Names(containers) # {} =>
       \A i \in DOMAIN containers' :
          Rewritten(containers'[i]) =>
             containers'[i].band =
                LeastSchedulable(containers'[i],
                                 Residents(containers', containers'[i].core), 1) + 1]_vars

(* The bandwidth committed on every core stays within THRESHOLDSCHED after *)
(* any sequence of podBind calls (spec 3 and 8, "monotonicity"); schedTest *)
(* compares only the candidate's own band with the threshold.             *)
CoreWithinThreshold ==
  \A k \in Cores : UsedBandwidths(containers)[k] <= THRESHOLDSCHED

(* No handler leaves state.m locked: every request is eventually served.   *)
NeverWedged == ~wedged

(***************************************************************************)
(* Persistence.                                                            *)
(***************************************************************************)

(* The pod names the store of the running build holds.                    *)
StoredNames ==
  IF build = "csv" THEN {diskContainers[i].name : i \in DOMAIN diskContainers}
  ELSE {dbContainers[i].name : i \in DOMAIN dbContainers}

(***************************************************************************)
(* Sqlite build: when state.changed is clear, a crash loses no admitted   *)
(* pod: every pod the running daemon holds a container for, and that was  *)
(* not deleted since its last bind, has a row start() would reload.  It   *)
(* rests on podBind setting the flag under state.m, on dumpState          *)
(* upserting every container (one row per name whatever the duplicates)  *)
(* before clearing it, on a failing statement killing the process before *)
(* the flag is cleared, and on a delete removing only the deleted name's *)
(* row.  (The csv build breaks it: a failed OpenFile still clears the    *)
(* flag.)                                                                 *)
(***************************************************************************)
FlushedPodsStored ==
  build = "sqlite" /\ up /\ ~changed =>
     Names(containers) \ deletedPods \subseteq StoredNames

(* A deleted pod does not come back: no container of a pod deleted since  *)
(* its last bind is in the running daemon's state.containers, also after  *)
(* a restart reloads the CSV files (spec 4.5: the dirty flag is set on   *)
(* any mutation).                                                         *)
DeletedStaysDeleted ==
  up => \A i \in DOMAIN containers : containers[i].name \notin deletedPods

(* start() gives every reloaded container exactly the task list its pod   *)
(* was admitted with (read_task_data).                                    *)
RecoveredTasksIntact ==
  \A i \in DOMAIN containers : containers[i].tasks = PodTasks[containers[i].name]

=============================================================================
