# A verification development for XVARNA

XVARNA is a Rust engine for daylight, solar and visibility studies with C#
connectors for Rhino/Grasshopper. Most of its code is stateless science. This
directory is about the rest: the parts that keep state across calls, are called
from several threads, survive a crash, or hand work to other parts, and the order
in which every exported function and every command checks, changes and writes. For these it
holds TLA+ modules, TLC configurations that check them on small instances, and
TLAPS proofs of the properties that matter most for all instances.

Paths below are relative to the repository's root.

- [1. The system](#1-the-system)
- [2. Modules and how they correspond to the code](#2-modules-and-how-they-correspond-to-the-code)
- [3. Runs, bounds, and what they show](#3-runs-bounds-and-what-they-show)
- [4. What the runs found](#4-what-the-runs-found)
- [5. Fairness and deadlock](#5-fairness-and-deadlock)
- [6. Proofs](#6-proofs)
- [7. What is not modelled](#7-what-is-not-modelled)
- [8. Plan](#8-plan)
- [9. Running it](#9-running-it)

## 1. The system

```
 Grasshopper component ── AnalysisTaskBridge ── XvarnaAnalysisScheduler       (C#)
                                                     │ runs one operation
                            managed wrappers ────────┘
                                   │ P/Invoke
 ───────────────────────────  C ABI (xvarna-ffi)  ───────────────────────────
    scene table   job handles   optimizer handles   workspace calls   compute
        │              │               │                  │              │
   xvarna-scene   xvarna-hvare    xvarna-study      xvarna-study    xvarna-vayu
   (snapshots,    (sky, sun,      (ask / tell,      (study          (GPU session,
    hierarchies)   daylight)       ranking)          directory)      CPU fallback)
                                                                         │
                                                                    xvarna-cache
```

Components with state, the reason they are hard, and what makes them correct:

| Part | State | Operations | What is hard | Correct when |
|---|---|---|---|---|
| **Study workspace** `xvarna-study/src/platform/workspace.rs` | a directory: manifest, ledger, checkpoint, one file per batch, a transaction journal; an open object with a copy of ledger and checkpoint | `create`, `open` (with recovery), `begin_batch`, `commit_batch`, drop | the process dies or an I/O error strikes between any two renames, also during recovery; clients retry; an object may outlive an error | a directory whose creation ended can always be opened; begin and commit are atomic; nothing acknowledged or handed out is ever altered; optimizer and ledger tell one story |
| **Optimizer and ranking** `xvarna-study/src/lib.rs` | generation, counters, pending batch, population, archive, random state | `ask`, `tell`, checkpoint and restore; ranking, crowding, hypervolume | ties within a tolerance; ranks of a population that was truncated; a checkpoint that drops ranks and distances | fronts are layers of domination, the hypervolume is the covered area, a restored optimizer breeds what the saved one would |
| **C ABI** `xvarna-ffi/src/*.rs` | tables of scenes, jobs, optimizers and sessions; the caller's buffers | sixty functions | each has its own order of checks, lookups, effects and writes; some change the engine before they know whether the answer fits | a refused call writes no more than its sizing pass gives, the sizing protocol works, no batch is evaluated twice |
| **Command line** `xvarna-cli/src/*.rs` | the user's files, a study directory | nearly fifty commands | files are truncated in place, an output may be the input, pipelines, kills and repetitions | success means whole files, a refusal touches nothing, a repeated round is one batch |
| **Scene lifecycle** `xvarna-scene/src/lib.rs`, `bvh.rs` | immutable snapshot: mesh resources, sorted occurrences, one hierarchy per layer, refit counters | builder, `update` transaction of four deltas, `build`, `commit`, queries | a transaction reuses hierarchies that store indices into a vector it may have reordered; dirt of several deltas must add up | a query finds exactly what a search of all occurrences finds |
| **Scene table** `xvarna-ffi/src/scene.rs` | a counter, a lock, a map from handle to builder or snapshot | create, add, build, update, release, queries, from any thread | build and update compute outside the lock and publish later | updates are serial, a released handle stays dead, a refusal has a cause |
| **Jobs and controlled analyses** `xvarna-ffi/src/job.rs`, `xvarna-hvare/src/{sky,irradiance,daylight}.rs` | atomic flags and counters of a job; a cache of eight daylight matrices | progress, cancel, reuse, the chunk loops | progress is read field by field while an analysis resets it; two misses build and insert the same matrix; the last cancellation check precedes the summary | a report never overstates, a cancelled job stops within a chunk, a handle is alive while it is used and released in the end, duplicates come only from races |
| **VAYU compute session** `xvarna-vayu/src/lib.rs`, `xvarna-scene/src/{portable,executor}.rs` | device health, counters, scratch buffers, uploaded geometry, plan cache, execution records | create, trace on the device, fall back to the CPU, configure and clear the cache | a failure at any step; two threads on one arena whose geometry is rewritten per chunk; a cache replaced while it is read | every hit is whole, a broken device is left, records name the backends that answered, memory stays in its budget |
| **Payload cache** `xvarna-cache/src/lib.rs` | a memory tier under a mutex, a directory of entries under nothing, budgets, statistics | `get`, `put`, `recover_corrupt`, `clear`, `open` | threads share file names and evict from their own listings; torn files; deaths between rename and eviction | both tiers inside their budgets, statistics exact, the newest entry survives |
| **Analysis scheduler** `dotnet/Xvarna.Native/Scheduler.cs` | counters, generations per scope, active jobs, a semaphore that is replaced | `Schedule`, the job's task, `Cancel`, `Configure` | no lock but in `Configure`; cancellation races a slot, a newer generation races a result | counters and slots exact, concurrency and queue bounded, no superseded result published, every job ends |
| **Task bridge and result cache** `dotnet/Xvarna.Grasshopper/*.cs` | per component: inputs, retained result, pending debounce | two-phase solve | a solve whose debounce elapsed late schedules older inputs with a newer generation | what is shown belongs to the newest inputs or is marked stale |
| **Radiance runner** `xvarna-hvare/src/radiance.rs` | an external process, a matrix directory named by a key, and a file that marks its matrix complete | point run, annual run, cancel | runs that share a matrix directory; a cancelled run leaves a partial matrix | a matrix is reused only if it is complete and of this key; no process outlives a run |

Everything else (the HVARE, DAENA and ZURVAN science, mesh geometry,
interchange formats, evidence statistics, the managed wrappers and components,
the build scripts) computes a result from its arguments and keeps nothing;
`PROJECT.json` lists each with its sources.

How the parts meet. The C ABI and the command line open a study directory for
each call and drop the object afterwards; a Rust caller may keep it. The
workspace drives the optimizer only through a checkpoint it stores with the
ledger. A scene table entry is a `SceneLifecycle` snapshot: updates derive the
next snapshot from the current one and publish it by a compare of content
hashes. The connectors run each analysis as an operation of the scheduler; the
operation calls the C ABI and polls a job handle for cancellation. The compute
session reads and fills the payload cache with compiled scenes.

`PROJECT.json` lists the hazards of all these parts at their lines, with the
properties that would catch each of them going wrong.

## 2. Modules and how they correspond to the code

`PROJECT.json` maps every definition that stands for code to its lines. In every
module an operator introduced as a *plausible fault* or a *mutant* is the
definition after it with one bug; no specification uses it, it serves to show
that a property can tell the difference.

### Study workspace

**`StudyTransaction`** holds the values and pure functions of the study
platform: ledger, optimizer checkpoint, batch envelope, the transaction that
carries the next value of all three, and the validations that run before it is
written and after it is read. A candidate's decision values are a function of
the optimizer's random state and are represented by the draw that made them; a
content hash is represented by the value it identifies (no collisions).

**`StudyContract`** is the abstract specification: a study with atomic `Create`,
`Begin`, `Commit`, and answers `HandOut` and `Acknowledge`. It knows nothing of
files.

**`StudyWorkspace`** is `workspace.rs` step by step. A file is a main slot and a
`.previous` slot; `atomic_json` is four steps (`WriteTemporary`, `Stash`, `Publish`,
`Clean`: lines 547-581), so a commit is the journal, three files
and the removal of the journal, each an action of its own. `Crash` may strike
between any two of them, `IoError` at each, with what the code does then: the
backup is put back or it is not, the error is returned, and the object keeps its
old ledger. `Open` reads the journal or its backup, applies the transaction
again and then loads and validates. `RetainsHandle` says whether the caller keeps
the object after an error (possible in Rust) or drops it (what the C ABI and the
command line do). The definitions `StudyLedger`, `StudyCheckpoint` and
`StudyBatches` say what study a directory stands for - what recovery would make
of it - and are the refinement mapping to `StudyContract`.

### Scene lifecycle

**`SceneLifecycle`** is the builder and the update transaction of `xvarna-scene`.
An action is one call of the API: `AddMesh`, `PlaceInstance`, `Build`,
`BeginUpdate`, the four deltas, `CommitUpdate` (which sorts, decides per layer
between reuse, refit and rebuild, and publishes), and dropping a transaction. `Build`
may refuse any builder (`RefuseBuild`: a transform without an inverse, no threads). A
mesh is its content, a transform a place; two different pairs of content and
place are two disjoint boxes. A hierarchy is the function from the instance
indices it stores to the bounds it recorded for them - indices among *all*
occurrences after the stable sort, as in the code, which is the whole point:
`Trace` follows them, `BruteForce` does not use them. Whether a refit degrades
the cost beyond the policy is left open, so both outcomes are explored.
`CarefulClient` excludes the transactions of the third finding.

### Scene table of the C ABI

**`SceneRegistry`** has one action per critical section of the lock in
`xvarna-ffi/src/scene.rs`: a build is `TakeBuilder` and then `PublishBuild` or
`FailBuild`, an update `ReadForUpdate` and then `PublishUpdate` or `RefuseUpdate`,
and calls of several threads interleave as their critical sections do. An update
publishes only if the content hash of the current snapshot is still that of the
one it read; contents are represented by their value. History variables count
acknowledged edits (`edits`) and hold what they make one after the other
(`serial`).

### Analysis scheduler

**`AnalysisScheduler`** has one action per access to shared state in
`Scheduler.cs`: the caller's side (`Enqueue`, `Refuse`, `Post`), the task
(`ReadSlots`, `Ask`, `StopWaiting`, `Unqueue`, `Start`, `Operate`, `Check`,
`Publish`, `Leave`, `ReleaseSlot`, `Remove`), `Cancel` at any time, and the four
steps of `Configure`. A semaphore is a limit, free slots, a queue of waiters and
whether it was disposed of; disposing forgets the waiters, as the runtime does.
Disposing of a handle early is a failure where the task next reads its
cancellation token; a result found stale whose token cannot be read any more is
counted twice, as stale and as failed (`SettleTwice`). `ConfiguresAlone` restricts `Configure` to moments when no
scheduled task and no call of `Schedule` is in progress. A waiter
that gives up leaves the queue without a trace (`Without`).

### Payload cache

**`CacheStore`** has one action per file-system operation and per critical
section of the mutex in `xvarna-cache/src/lib.rs`. A file is the set of writers
that are not done with it (empty: complete); `Dead` is a writer that will never
finish. `Restart` is the death of the process at any step followed by `open`,
which lists and evicts; `Spoil` is a disk that damages an entry. History
variables tell calls that overlapped from calls that did not.

### Native calls

**`NativeCalls`** defines every exported function that reports a status as the
sequence of its steps in the order of its code: checks of pointers, options,
lengths, slices and rows; the lookup of a scene, session or optimizer; the engine;
the effect on a table, an optimizer or a study; the comparison of a buffer with
the answer; and what is written to the caller. A step that can refuse the call
whatever the state is belongs to `Fallible`, and a run of such steps is one action
(`Refuse` at any of them, or `Pass`), for nobody sees the order of local
computations. The other actions are `FindScene`, `FindHandle`, `Insert`, `RemoveHandle`,
`Ask`, `Tell`, `OpenStudy`, `CreateStudy`, `BeginBatch`, `CommitBatch`, `WriteSize`,
`Sizing`, `Fits`, `WriteOutputs` and `WriteMetadata`. Functions that are split in
the source (`write_utf8`, `run_json`, `create_session`, `parse_materials`) are split
here. Four families share no state but the scene, and `Init` picks one. A study
directory is what `StudyWorkspace` proves it to be, atomic.

Most functions report the size of their answer in a place of its own (`"size"`). Three
have a metadata-only pass instead (`MetadataOnly`): `xv_surface_grid` (`surface.rs:287`),
`xv_surface_pv_potential` (`surface.rs:357`) and `xv_scene_radiance_export_section`
(`daylight.rs:789`) fill in their whole metadata record, areas, yields or the content hash
included, before they look at the buffer, and leave it written when they then refuse
the call for that buffer. So `"metadata"` comes before `"sizing"` and `"fits"` there, and
what a refusal may leave is the `SizingRecord` of the function. (`xvarna.h:2000` promises a
written size for the JSON functions only.) Functions that want a null pointer as well as
capacity zero for a sizing pass are `PointerToo`; the two buffers of
`xv_surface_pv_potential` and their capacities are one.

### Jobs and controlled analyses

**`ControlledAnalysis`** joins the managed job object (`Sky.cs`: progress under a
lock, the token's callback, the continuation that releases the handle), the job
table of the C ABI (`job.rs`: a flag and two counters, each access an action), and
the chunk loops of the four analyses as sequences of `check` and `work`, with the
process-wide cache of daylight matrices between lookup and insertion. `Times` is a
loop as a sequence: round after round of the same steps.

### Command line and Radiance

**`CommandLine`** defines every command as the sequence of its steps, each with the
code the process exits with when it fails: reading (by how much of a half-written
input each reader notices), computing, creating, writing and closing every export
in its order, printing. A process is at one `step` of the program of its command,
the steps of options that were not given are left out (`missing`), and `WentOn` says
where it goes on. `Fail` and `Kill` may strike at every step, a user repeats
or goes on, two processes may use the same files. `radiance-annual` is the runner
of `radiance.rs`: the external programs, the matrix, and the file that marks it
complete. Study commands change a study atomically.

### VAYU session, chunks and executor

**`VayuSession`** is one session from `Create` on: adapter, scene plan from the cache
or built (`portable_snapshots` cuts a scene under a byte budget), device and buffers;
then batches of several threads step by step under the lock of the arena
(`Lock`, `upload_scene`, `pack_rays_into`, `Submit`, `Readback`, `ChunkDone`),
with the device lost or failing at any of them, fallback, the counters and the
execution records. An answer is given inside an analysis (`Return`), which records it
after the one before (`corridor.rs:239`, `target.rs:448`) or merges its record
(`path.rs:193`), or outside (`Direct`: `trace_any` and traces of a caller's own), where
fallbacks are counted and nothing is recorded. A hit is the set of what was merged into
it, so a ray that got another's or misses a chunk shows. The arena grows to the next
power of two, up to 262,144 rays a slot, as far as the budget allows (`Capacity`).

### Optimizer and ranking

**`StudyRanking`** holds constrained domination with its tolerance, peeling of fronts
(a front has those whose dominators are all in earlier ones), crowding (a member of a
front has a place in the total order by an objective and then by identifier), selection, the archive, the hypervolume in two dimensions, and `ask`,
`tell` and restoring from a checkpoint over them. Objectives are integers in units
of the tolerance. How offspring get their values is left out; identifiers are not.

### Composite instances

**`MCScenes`** puts the scene table beside the scene lifecycle, **`MCServices`** the
native calls, the command line, the session and the optimizer side by side. Each
extends the modules it composes and has a variable that names the component
whose behaviour this is. What is composed
this way shares no state: a behaviour belongs to one component and the others
stay in one initial state, so the run's states are the sum of the components'
and not the product. Where components do interact, one module has both sides:
the optimizer and the study inside the native calls, the study inside the
command line, the payload cache inside the session, the matrix cache inside the
analyses; each appears there as what its own module promises.

## 3. Runs, bounds, and what they show

| Run | Instance | Distinct states | Shows |
|---|---|---|---|
| `study_workspace` | one study; rounds of begin, commit, begin, commit; crashes at every file operation; retried calls | 163,410 | the directory recovers, resumes exactly and implements the contract |
| `study_create_interrupted` | the same, `create` interrupted | violation | finding 1 |
| `study_stale_acknowledgement` | the same, a retained handle used after a failed call | violation | finding 2 |
| `scenes` | table: 3 threads, 2 handles, 2 occurrences, 2 values, 3 edits; lifecycle: 3 occurrences, 2 meshes and contents, 2 places, 2 deltas, 1 refit | 2,097,305 | updates are serial, queries see the scene |
| `scene_static_shift` | the lifecycle, `CarefulClient` false: the first occurrences may change | violation | finding 3 |
| `scheduler` | 3 jobs, 2 scopes, limits 1 and 2, a queue of 2, one `Configure` | 3,513,512 | counters, limits, supersession |
| `scheduler_liveness` | 3 jobs, 1 scope, 1 slot | 733,184 | every job ends |
| `scheduler_two_policies` | 2 jobs, one limit, `Configure` beside a finishing job | violation | finding 4 |
| `cache` | 2 threads, 3 keys of 1, 2 and 3 bytes, header 1, memory budget 2, disk budget 5, 1 fault | 2,105,634 | budgets, statistics, successful calls |
| `jobs` | 2 jobs, 2 sensors, 2 chunks, a matrix cache of 3 | 554,968 | progress, cancellation, handles, release |
| `vayu_memory_cap` | the session of two threads, scenes of several chunks | violation | finding 5 |
| `services` | 2 threads of native calls; every command, pipelines, two rounds and three annual runs with 2 faults a shell; 2 threads of a session with 3 scenes and 5 policies; 2 generations of 4 and 1 | 1,598,730 | the answers of the four services |

The properties, by run:

- `study_workspace`. `AlwaysRecoverable`: a directory whose creation ended can be
  opened after any crash. `ResumedExactly`: an envelope handed out again is the one
  handed out before. `StudyOnlyGrows`: no step takes back what is recorded.
  `ImplementsContract`: the refinement to `StudyContract`, which carries what the
  contract promises about acknowledged and handed-out work and about the optimizer
  (proved of the contract and of the directory, section 6).
- `scenes`. `SerialUpdates`, `ReleasedStaysReleased`, `OnlyRealConflicts` of the scene
  table; `QueriesSeeTheScene`, `RefitsBounded`, `ReportIsTruthful` of the scenes.
- `scheduler`. `CountersExact`: the two counters count exactly the jobs that wait and
  run, and a job that ended is not active. `LoadIsBounded`: the queue's capacity, and
  free slots and holders make up the limit. `SupersededIsNotPublished`,
  `NewestIsPublished`. `scheduler_liveness`: `EveryJobEnds`.
- `cache`. `MemoryWithinBudget`; `DiskTierExact`: the statistics never go below zero and, of
  calls that do not overlap, equal the inventory, which is within the disk budget;
  `CallsSucceed`; `PutIsStored`.
- `jobs`. `ProgressIsTruthful`: what the exported function announces and what the loops
  count agree when an analysis succeeds, and no report claims more than all.
  `CancelledInOneChunk`, `HandlesOutliveTheirUse`, `DuplicatesAreRaces`, and, with
  fairness, `JobsAreReleased`.
- `services`. Native calls: `RefusalsWriteOnlyTheSizing` (a refused call leaves no more
  than its sizing pass would), `SizingIsEnough`, `HandlesAreKnown`, `BatchesAccounted`. Command line: `SuccessIsWhole`,
  `RefusalsTouchNothing`, `RepeatedRoundsAreOne`, and `AnswersAreOwn` of the Radiance
  directory. Session: `HitsAreWhole`, `BrokenDeviceIsLeft`, `RecordsAreTrue`,
  `PlanIsOfTheScene`, `ArenaWithinBudget`. Optimizer: `FrontsAreLayers`,
  `HypervolumeIsCovered`, `RestoredIsTheSame`, each against a definition written
  independently of the algorithm.

Why the bounds are enough for what the runs claim:

- *Study.* A transaction touches one batch and the two shared files, so
  interference is between a transaction and the one before it: batches may begin
  at revisions 0 and 2, so there are begin, commit, begin and commit, with a crash
  in each and in the recovery of each.
  Recovery is re-entered without bound. One I/O error suffices when the object is
  dropped after it (the next call starts from the disk, as after a crash); with a
  retained object a second error could strike a call that started from a stale object.
  Two payloads and two times tell a repeated commit from a different one and one
  stamp from another. A caller that keeps its object after an error is outside this
  run: it may journal a transaction that is already applied, which the second
  finding shows, and only its types are proved (`WorkspaceTypes`).
- *Scene.* Three occurrences are the least with a layer of two and an occurrence
  in the other layer, hence with an index that shifts and an order that changes.
  Two deltas per transaction combine any two kinds of change; the state space of
  scenes is closed under further transactions, so their number is not bounded.
  One tolerated refit has both sides of the comparison with the policy. A change
  of the label alone is an update that changes neither place nor mesh, so the run has one
  label; that a move and a later change of the label in one transaction add up is
  covered by the theorem `QueriesAreComplete`, for any labels, and not by the run.
  The limit of refits is one constant, although each transaction brings its policy:
  it stands for the largest, and transactions with a smaller one are among the
  behaviours, because a layer may be rebuilt instead of refitted at any time.
- *Registry.* Three threads put two conflicting updates and a release, or a
  build, on one handle; a second handle shows that handles do not interfere.
- *Scheduler.* Three jobs fill one slot and a queue of two; two of them in one
  scope supersede one another while a third is in the other. Two semaphores are
  all one change of policy needs, and the next one starts from the same state.
- *Jobs.* Two sensors of two chunks have a boundary of every kind: inside a sensor,
  between sensors, before the summary. Analyses that use no matrix share nothing and
  run alone; two that use one run beside each other over a cache that is empty,
  holds it, or is full. One client watches and cancels, the other leaves its job
  alone, because two watching clients do not meet.
- *Native calls.* Two threads put a call between any two steps of another of its
  family, except where the module says why they do not overlap. Answers of size one
  and two with buffers of size zero to two have a buffer that is absent, too small,
  exact and larger; two batches have one that is told again after the next.
- *Command line.* Every command alone, with an output that is its input and one that
  is not; four pairs that meet at one file; two rounds of a study with two
  failures or kills and their repetitions; three annual runs in one directory for
  two climates, so that a matrix is reused, replaced and replaced again.
- *Session.* One chunk, two chunks and a mesh that fits none; a policy of each
  preference, with invalid options and with a budget that is too small; batches of
  zero and three rays with a capacity of one, so a batch goes around the two slots,
  and of three, the power of two being more than the memory allows; two failures; the
  cache replaced once; answers inside and outside an analysis in any order.
- *Optimizer.* Four candidates and then one at a time: seven evaluations cover a
  crowded middle, ties within the tolerance, domination, and two degrees of
  infeasibility. A point lies outside the reference in each objective. An archive of three is cut. Two objectives: see section 4.
- *Cache.* With these sizes one key is too large for memory, two small ones evict
  each other from memory and any two but the smallest pair exceed the disk. One
  fault is enough to leave a torn entry for every later call.

Deep invariants rest on small state spaces here because each module keeps only
what its properties tell apart; symmetry is used over identifiers, payloads,
times, threads, jobs and scopes, never in a run with a liveness property.

## 4. What the runs found

1. **`create` cannot be repeated after a crash.** It writes the manifest before
   ledger and checkpoint (`workspace.rs:203-205`); a process that dies in between
   leaves a directory that `create` refuses (`WorkspaceExists`, 185-187) and
   `open` refuses (`CorruptWorkspace`).
2. **A commit is acknowledged with an old state.** If the journal cannot be
   removed after the transaction was applied (`workspace.rs:478`), the object
   keeps its old ledger and checkpoint; repeating the commit through the same
   object returns `Ok` with the old revision (343-347).
3. **A reused hierarchy goes stale.** The hierarchies store indices among all
   occurrences, static ones first. A transaction that changes the number of static
   occurrences shifts the dynamic indices but marks the static layer only, so the
   dynamic hierarchy is cloned unchanged (`xvarna-scene/src/lib.rs:1277-1284`) and
   queries miss the occurrences behind it or test the wrong ones. `scenes`
   shows that queries are right for every client that avoids this.
4. **Two policies at once.** `Configure` reads `queued` and then `running`
   (`Scheduler.cs:167`); a job that has left the first counter and not entered
   the second is seen by neither, so the semaphore is replaced under a job that
   holds a slot, and more operations run than any policy allows. Two consequences
   follow by reading on: a task that entered the disposed semaphore throws when it
   releases its slot (253) and is never removed from the active jobs, and one that
   waits for it is never woken. `scheduler` shows that nothing of the kind happens
   when `Configure` is called alone.
5. **The GPU budget is not a cap.** A session takes the largest payload of one
   geometry chunk for its working set and gives the rays what is left of
   `maximum_gpu_memory_bytes` (`xvarna-vayu/src/lib.rs:771-775, 871-875`). But each
   scene buffer is as long as the longest chunk needs that one (816-847): with most
   occurrences in one chunk and most triangles in another the buffers together are
   larger than any chunk, and the rays come on top. The documentation of the option
   (68) calls it a "Hard cap for the retained geometry working set plus reusable ray
   scratch buffers." `ArenaWithinBudget` shows what does hold.

The cache has one more limit, stated in its properties rather than as a finding:
calls that overlap may fail at a file another call took (two `put`s of one key
share a temporary file; two evictions remove from their own listings), and an
eviction that fails this way leaves the disk over its budget until the next one.
`DiskTierExact`, `CallsSucceed` and `PutIsStored` therefore speak of calls that do not
overlap; `MemoryWithinBudget` holds in every interleaving.

More limits met on the way, which no doc contradicts and which are hazards in
`PROJECT.json` or conditions of a property:

- Domination with a tolerance is not transitive. With three objectives three
  candidates can each beat the next (in units of the tolerance `<<0,1,2>>`, `<<2,0,1>>`,
  `<<1,2,0>>`); none is ever placed in a front. With one or two objectives this
  cannot happen, whatever the evaluations (`FrontsAreFronts`, section 6).
- `update_archive` sees the population after truncation: a candidate that nothing
  dominates and that is cut never reaches the archive. And the distances of an archive
  that was cut are those from before the cut; a restored optimizer computes others,
  which nothing but the identity of its state reads.
- `xv_optimizer_ask` takes a batch before it checks the buffers; refused for
  them, it leaves a batch that nobody has seen, and `xv_optimizer_tell` likewise has
  counted what it then refuses. `BatchesAccounted` says what stays true.
- `surface-grid` computes its second export after writing the first, so a refusal
  may leave one; the evidence commands exit with 2 for a full disk as well as for
  bad input.
- Annual Radiance runs at the same time in one directory are not kept apart.

## 5. Fairness and deadlock

Two runs need fairness. `scheduler_liveness`: weak fairness of `Refuse` and `Post` (a
thread that entered `Schedule` goes on), and of `Task` (the thread pool runs what
was posted, a semaphore grants a free slot to its first waiter, and every
operation ends, as the analyses do: they loop over finite inputs). Nobody is
obliged to call `Schedule`, `Cancel` or `Configure`. Weak fairness suffices
because a step of a task, once possible, stays possible until it is taken. `jobs`:
weak fairness of the native call, of what a client has begun under its lock, and
of the token's callback; strong fairness of `Complete`, the continuation that
takes that lock, because a client that polls makes it unavailable again and again,
and Monitor queues its waiters. No client is obliged to look or to cancel. The
other specifications are pure safety.

Deadlock is checked everywhere except where the system may stop for good: in the
scheduler's runs, where every job of the instance may have ended, and in the
registry's, where every handle of the instance may have been released. The session,
the command line and the jobs have a step that says that everything is done, so
that stopping anywhere else is an error.

## 6. Proofs

Eight modules hold the proofs, one for each part of the system (the two modules of the
scenes share one, the compute session and the ranking another); TLAPS checks 27,105 obligations.
Each specification has an inductive invariant, made of named parts, one lemma for every
action that preserves it, and a theorem for each property that follows. TLC checked every
such invariant on small instances before it was proved.

### Study

`StudyWorkspace_proofs` has three parts.

The first is about the values of `StudyTransaction` only: the transactions built by begin and
commit belong to their sets, and `GoodStudy(l, c, bs, h, acks)` says what a ledger, a
checkpoint, the batches, the envelopes handed out and the commits acknowledged must
have in common. It adds to the promises what makes them inductive (`Consistent`): before
creation there is nothing; after it the ledger is valid and finite, the pending work is
the active batch, a batch is stored under its own id and never above the current
revision (so that begin overwrites none), the ledger covers the candidates and rows of
every stored batch, and no two batches share a candidate id. One lemma for each
operation (`NewStudy`, `BegunStudy`, `CommittedStudy`, `HandedOutStudy`,
`AcknowledgedStudy`) shows that it makes a good study of a good study. Being about
parameters, they serve the contract and the directory alike.

The second is about `StudyContract`, for every batch size, payload set, set of submissions
and number of revisions:

- `ContractInvariant`: the variables of the contract are a `GoodStudy`, always.
- `ContractKeepsAcknowledged`, `ContractKeepsHandedOut` and `ContractMatchesLedger`
  follow from it.
- `ContractResumesExactly`: `ResumedExactly`, always. Two envelopes under one id are
  equal because a handed-out envelope is one that nobody evaluated yet and shares its
  candidates and stamp with the stored batch; envelopes under two ids have no candidate
  id in common because begin takes only ids that the ledger lacks, and the ledger
  covers every stored batch (`DisjointBatches`).

The third is about `StudyWorkspace`, for every number of revisions and of I/O errors:

- `WorkspaceTypes`, with or without a retained object.
- `WorkspaceInvariant`: `Spec => []IInv`, for a caller that drops the object after
  an error. The properties alone are not inductive, for they say nothing about a
  directory in the middle of a call. `IInv` says where every call stands:
  `CallShape` (what a call works on), `PhaseInv` (how far `atomic_json` got),
  `JournalInv` (a journal is on disk exactly while its transaction may be half
  applied), `AppliedInv` (which files already hold the transaction's values),
  `CreationInv` (the checkpoint is the last file of `create`), `StableInv`
  (without a journal the files agree and an open object is a copy of them) and
  `PendingInv` (what is about to be journaled is a step of the contract).
- `WorkspaceRecovers`: `Spec => []AlwaysRecoverable`.
- `WorkspaceImplementsContract`: `Spec => Contract!Spec`. The rename of the journal
  is the commit point of begin and commit, the rename of the checkpoint that of
  create, the return of a call is the hand-out or the acknowledgement, and every
  other step - each apply, each removal, each crash, each recovery - leaves the
  study a directory stands for as it is.
- `WorkspaceKeepsHandedOut`, `WorkspaceKeepsAcknowledged`, `WorkspaceMatchesLedger` and
  `WorkspaceResumesExactly`: what the contract keeps, the directory keeps. The study
  that recovery would make of the directory is a good one (`RecoveredStudy`): each step
  of the directory is a step of the contract or leaves that study alone, and the lemmas
  about values do the rest.
- `WorkspaceOnlyGrows`: `Spec => StudyOnlyGrows`, an action property. What recovery
  would make of the directory changes at the commit points only, and there to the
  transaction that the call prepared from it.

### Scenes

`Scenes_proofs` has two parts. The first is about the scene table, for any number of
threads, handles, occurrences, values and edits:

- `RegistryInvariant`: types, and for every call under way what it knows of its
  handle: unused handles are free, a build holds what was added, an update knows
  the age of what it read, a released slot stays empty.
- `UpdatesAreSerial`, `ReleaseIsFinal` and `RefusalsAreConflicts` (an action
  property) follow from it.

The second is about the scenes, for any number of occurrences, meshes, shapes, places,
labels, any refit policy and transactions of any length:

- Lemmas about `compile_scene`'s stable sort: where it puts an occurrence
  (`Position`), that it is a permutation with the static occurrences first, that
  sorted drafts stay where they are, and that it returns every occurrence of a layer to
  the index it had if some increasing map takes the layer's old occurrences to its new
  ones (`FollowersSorted`).
- `LifecycleInvariant`: `Spec => []IInv`. That every hierarchy is the one a build from
  nothing would make (`HierarchiesDescribe`) is not inductive: it says nothing of
  a transaction that is being filled. `MarksAreComplete` does: a layer whose topology
  is not marked still has its occurrences in their order (`Follows`), and if its bounds
  are not marked either, their boxes. So the sort of the commit undoes whatever shifted
  them, and reuse and refit give what a rebuild would.
- `LifecycleTypes`, `QueriesAreComplete`, `RefitsAreBounded` and `ReportsAreTruthful` (an
  action property) follow. `QueriesAreComplete` and `ReportsAreTruthful` assume
  `CarefulClient`: without it they are false, which is the third finding.

### Scheduler and analyses

`AnalysisScheduler_proofs`, for any finite set of jobs, any scopes, limits, queue
capacity and number of policy changes:

- `SchedulerInvariant`: `Spec => []IInv`. The parts: who holds a slot is known
  from where the job is (`HoldersAreInside`); a semaphore's queue holds jobs that wait
  for it, each once (`WaitersWait`); the two counters and the queue's capacity count
  sets of places (`Counted`); generations grow, so that what is superseded is never
  current again (`GenerationsGrow`); every outcome has its reason
  (`OutcomesHaveReasons`). The last part, `OneSemaphore`, says that all jobs share one
  semaphore whose free and held slots make up its limit, and is claimed for clients
  that configure alone.
- `TypesHold`, `SupersededHolds` and `NewestHolds` follow without any hypothesis: whenever
  the policy changes, a job that was superseded before its operation ended does not
  publish, and a job that is still the newest of its scope when all is done, was not
  cancelled and did not fail, has published. Neither says that a published job was
  the newest at that moment: a newer one may be posted between the check (216) and the
  publication (225).
- `CountersHold`, `LoadHolds` and `ConcurrencyHolds` assume `ConfiguresAlone`. The run
  `scheduler_two_policies` refutes `ConcurrencyBounded` without it; the theorem shows
  that the overlap with `Configure` is the only way to break it.

`ControlledAnalysis_proofs`, for any number of jobs and clients, sensors, chunks, earlier
caches and places in the cache:

- Lemmas about the step sequences. Each analysis is `Whole`: the work is announced
  first and counted from zero before any chunk; no chunk without a look at the flag
  right before it; between looking a matrix up and inserting it as many chunks as a hit
  counts at once. The chunks of a sequence are counted as a set of positions, so that
  no induction over its length is needed: `n` rounds of a loop have `n` times its chunks,
  what is left after a step is `Regular` again, and the total that the exported function
  announces is the number of chunks of the loops, for each of the four analyses.
- `AnalysisInvariant`: `Spec => []IInv`. `WorkInv`: what is done and what is left make up
  what was announced. `LateInv`: a call that did a chunk after its cancellation is not
  in front of another. `HandleInv`: a handle is in the table until the object is
  closed, which happens when the call ended, nobody holds the lock and no callback runs.
  `ReaderInv`: what a reader loaded in two steps is not more than everything.
  `CacheInv`: a matrix that did not race is in one place, in the cache or in the
  making by one call.
- `HandlesHold`, `CancellationHolds`, `DuplicatesHold` and `ProgressHolds` follow.

### Payload cache

`CacheStore_proofs`, for any number of threads and keys, any sizes and budgets, and any
number of deaths of the process and spoiled entries:

- Lemmas about sums. What keys weigh together is a fold over a set; that it does not
  depend on the order, and that parts add up (`TotalWithout`, `TotalOfParts`), is
  proved by induction on the size of the set (`CountingUp` and `SmallerSetsFirst`, from
  the library's theorem that a well-founded relation has minimal elements). Then
  lemmas about sequences without repetition (`KeepKeeps`, `PartsOfSequence`,
  `AppendKeeps`, `ConcatKeeps`), and two about the loops: `InsertKeepsMemory`, evicting from
  memory frees enough and returns exactly what left; `VictimsSuffice`, removing the
  oldest entries makes the rest fit, and never takes the newest entry if that fits.
- `CacheInvariant`: `Spec => []IInv`. `MemoryExact` and `DirectoryTypes` hold whatever
  overlaps. `WritersWrite`: a thread has a file open only while its call writes.
  `Undisturbed`: while no two calls overlapped since the start, at most one is in
  progress, at rest the statistics are exact and inside the budget, and the call in
  progress `Knows` at each of its steps what it needs: a put, that its temporary file
  and then its entry is the newest file, so that eviction spares it; an eviction, that
  its list is of distinct stored entries whose removal suffices; a get that dropped a
  corrupt entry, by how much the statistics are off; a count, that its listing still
  holds.
- `MemoryHolds`, `DiskTierHolds`, `CallsHold` and `PutHolds` follow: each of the cache's
  properties is a theorem. For `PutHolds`, `PutEnds` shows that an undisturbed put ends
  nowhere but in its last count.

### Interfaces

The functions of the C ABI and the commands are both sequences of steps;
`NativeCalls_proofs` and `CommandLine_proofs` show that the sequences are regular, whatever the function
or the command, and that whoever follows a regular sequence keeps a promise. The
sequences are definitions without parameters, so the first half of each argument has a
step for every function and every command, and none of them is trusted.

For `NativeCalls`, any number of callers and batches and any capacity:

- `RegularCodes`. A function tells its caller nothing before its last refusal, except
  what its sizing pass gives, a size or the metadata record; it looks at the scene or the study once, and before it says
  anything about a size; it tells a handle right after its object entered the table.
- `NativeInvariant`: `Spec => []NativeInv`. A call under way keeps what its past
  established (`ActiveCall`): what it wrote, what it learned of the size of its answer,
  the batch it took. A call that is over keeps what its caller may build on (`EndedCall`).
  `Budget` and `Held` say that the optimizer's batches are within their budget,
  each evaluated once, and the pending one with a caller, on its way to one, or lost
  to a call that was refused.
- `RefusalsOnlyTheSizing`, `SizesSuffice`, `NoHandleIsLost` and `BatchesAreAccounted` follow:
  each of the four properties of the native calls is a theorem.

For `CommandLine`, any shells, files and sessions, and any number of failures, kills and
repetitions:

- `Programs`. Every program is `Tidy`: a file is written in one block, from its
  creation to its end, with nothing between but its rows and what an external program
  reads; skipping the making of a matrix ends at the end of a block; nothing is removed
  that was not created. A program that leaves steps out for options removes nothing
  (`Kept` or `Unskipped`), so no block loses a part while another is removed. And it is
  `Ordered`: after the first creation only steps of an export fail with the codes of a
  refusal. The four commands for which that is false of code 1 are the four that
  `RefusalsTouchNothing` names (`LateComputations`).
- `CommandInvariantHolds`: `CommandSpec => []CommandInvariant`. The two properties say what
  is true when a command ends, so the invariant says what is true on the way: which
  blocks a process has passed, is in, and has left out (`Standing`), that only the file of
  the block it is in may be half written (`TouchedIsSound`, `OpenIsHalf`), that it has
  touched nothing before the first creation (`TouchedIsLate`), what it created and who
  may have written to it since (`CreatedIsWritten`), what it read (`SealedIsWhole`) and what
  it can have failed at (`RefusalsAreEarly`). `ShellStepped`, `QuietProcess` and `WritingStep`
  reduce each action to the one process that takes it; `OtherShells` covers the others.
- `FilesAreWhole` and `RefusalsLeaveFiles` follow.
- `OwnAnswers`: `CommandSpec => []AnswersAreOwn`, of sessions that satisfy
  `MatrixDirectories`. The property speaks of a history of runs in one directory, most
  of which may have died, and is false of sessions that write to a matrix by other means
  than an annual run, or begin with a key that nobody wrote; `MatrixDirectories` says that
  they do not, and that runs share a matrix exactly when they share its mark, which is what
  the hashed name of the directory gives. The run's sessions satisfy it (an assumption of
  `MCServices`). `AnnualProgram` lays the 46 steps of the command out. The invariant
  (`AnnualInvariant`) has a line for each stretch of them: what a run has written and not
  yet read is whole and about its own weather (`FilesAt`), the batch it carries is its
  weather's but for the moment after it has read the matrix (`BatchAt`), no mark is
  there while the matrix is being made, and the matrix is whole from its end on (`MatrixAt`);
  and between runs a mark stands beside a whole matrix (`TrueMark`). Lemmas over one
  table of files (`ReadingOn`, `CreatingOn`, `ClosingOn`, `ReusingOn`) carry it over a step.
- `RoundsAreOne`: `CommandSpec => []RepeatedRoundsAreOne`, of sessions that satisfy
  `StudySessions`: the commands of a study come in rounds, each bound to the file that the
  one before has written; no other shell hands out or commits batches of the study, or
  writes to those files; and no file is about a batch that was never handed out. The
  property is false of other sessions: a commit bound to an older file repeats an older
  batch. The run's sessions satisfy it (an assumption of `MCServices`). The invariant
  (`StudyInvariant`) says, for each place of each of the three programs, which batch is
  active, what the process carries and what the files of the round are about; a command
  that failed or died after its effect, and is given again, finds its batch active, or
  committed, and leaves it so.

### Compute session

The first part of `Calculations_proofs`, for any number of threads, any scenes, sizes, batches, policies and
limits on memory, any contents of the scene cache and any number of failures:

- Lemmas about powers of two and `Capacity` (what the arena grows to leaves room for the
  largest chunk) and about sums over sets of records, by induction on their size.
- `SessionInvariant`: `SessionSpec => []SessionInv`. `CreationInv`: how far creation came
  and that what it took from the cache is a plan of its scene. `DeviceInv`: a device that
  failed once is marked lost. `ArenaInv`: no arena before there is a device, and never
  more rays than its limit. `CallsInv`: only the batch that holds the lock is at a step
  that uses the arena; its slots hold the rays that are next, and each hit has been
  merged from the chunks its ray has been through, and from no other readback.
  `RecordsInv`: a record names the backends that answered, and the fallbacks in the records
  and those of traces outside any analysis add up to the counter.
- `PlansAreOfTheScene`, `ArenasFitTheBudget`, `BrokenDevicesAreLeft`, `WholeHits` and
  `TrueRecords` follow: each of the five properties of the session is a theorem.

### Optimizer and ranking

The rest of `Calculations_proofs`, for one or two objectives, populations, archives and batches of any
size, any evaluations and any number of generations:

- Sorting. A total order gives each member of a finite set its place, one to one
  (proved by induction on the set), which crowding needs.
- Domination goes round in no circle. With two objectives, the sum of the objectives
  (or, for those that are not feasible, the violation) decreases along domination
  although the tolerance makes it not transitive; so of every set of candidates
  some member is dominated by none of the set, and peeling places at least one more
  in every round, and everybody in the end. With three objectives the circle of section 4
  is a counterexample: `Len(Directions) <= 2` is a condition of the code's correctness
  and not of the proof.
- `RankingInvariantHolds`: `RankingSpec => []RankingInvariant`. Ranks and distances are those
  that the ranking of just the present population gives, although they were computed before
  the selection cut it; the same holds of the archive unless it was cut;
  identifiers are distinct and below the next one, and nobody is twice in the population or in
  the archive, so a checkpoint never repeats an identifier. Two lemmas carry it: a prefix of the
  ranked order is ranked by itself as it was with the rest, and so is a whole front.
- `FrontsAreFronts` and `RestoringIsFaithful` follow.

### Assumptions

The attempt to prove found definitions of the models that were ambiguous: `CASE` with guards
that overlapped in `Restart`, and in `CommandLine`, `VayuSession` and `NativeCalls`. TLC takes
the first; TLA+ promises none. They now exclude each other.

The assumptions on constants are those named in the modules. Batch sizes are positive,
bounds are natural numbers, submissions are sequences of rows, `Absent` and `Vacant` are none
of the values they stand beside. There are finitely many jobs and at least one scope.
Every analysis has a sensor and a chunk: one without sensors, samples, patches or weather
is refused before anything is counted (`EmptySensors` and `validate` in `sky.rs`,
`irradiance.rs` and `daylight.rs`). A cache from before holds no matrix twice and
is within its capacity; the sizes and header of cache entries are natural numbers and
both budgets positive (a budget of zero disables its tier), and the writer that will
never complete a file is no thread. A session of the command line is a sequence of uses of
commands, each of which binds every role to a file (`CommandAssumption`); two roles may be
bound to one file. TLC evaluates each assumption in a run: `LifecycleAssumption`,
`SessionAssumption` and `RankingAssumption` are definitions that the theorems name, because
composite instances fix their constants there and assume them.

Beyond assumptions on constants: the results on `StudyWorkspace` other than
`WorkspaceTypes` assume `~RetainsHandle`, two of `SceneLifecycle` assume `CarefulClient`,
three of `AnalysisScheduler` assume `ConfiguresAlone`, those of `StudyRanking` at
most two objectives, `OwnAnswers` assumes `MatrixDirectories` and `RoundsAreOne` assumes
`StudySessions`. For each but the last two a run or section 4 shows that the code does
break without it.

### Only model-checked

- Liveness under fairness (`EveryJobEnds`, `JobsAreReleased`), and `ENABLED`: out of the
  prover's reach.
- `HypervolumeIsCovered` compares a fold over a sorted sequence with the number of points
  of a grid that are dominated: an induction over a sequence with a predicate on its
  elements, which the provers do not take.

## 7. What is not modelled

- *Study.* Power loss: a crash loses the process, not what the operating system
  accepted, and file contents are synchronized; directories are not synchronized
  by the code, so renames could be lost out of order on a power failure. Two
  processes in one directory: the documentation asks for one writer. Torn JSON,
  which the rename protocol excludes. Sensitivity analysis, reports and exports,
  which only read.
- *Scene.* Ray-triangle arithmetic, the split heuristic, the rebase, mesh repair:
  reals and geometry. Hash collisions. A policy for each transaction: `MaximumRefits` is the
  largest of them.
- *Registry.* The statistics and revision fields of the managed wrapper, written outside any
  lock by the one thread of a component.
- *Scheduler.* Progress fractions, latency telemetry; the queue's capacity is one
  constant. An operation that throws `OperationCanceledException` although nobody cancelled
  it would end as cancelled (`Scheduler.cs:230-238`); no operation of the connectors does.
  Waiters of a semaphore that `Configure` disposed of are in the model and lost there, as
  in the code, but no property speaks of them.
- *Cache.* Tiers disabled by a zero budget, file-system calls that fail of
  themselves, hit and miss counters, the bytes of an entry.
- *Native calls.* Field-by-field conversions, the numbers, what a caller does with
  an answer; the six functions that return a version. The two buffers of
  `xv_surface_pv_potential` are one.
- *Jobs.* What a chunk computes; comparisons and summaries after the loops; the
  flag inside a report that says it was cancelled.
- *Command line.* Formats and wording; options that change only numbers. The shell's
  redirection of standard output.
- *Session.* The shader, the numbers packed for it, adapter descriptions, the
  parity report, byte and time counters; what buffers hold after an error that the
  driver reports outside any call.
- *Optimizer.* Breeding (crossover, mutation, the random state), sensitivity
  coefficients, hashes; three and more objectives.
- The science crates (HVARE, DAENA, ZURVAN), mesh geometry, interchange formats and
  evidence statistics are functions of their arguments on floating-point numbers: no
  step of theirs meets another, and TLC has no reals. Their exported functions and
  commands are modelled as far as order and effects go.
- The task bridge of Grasshopper and its result cache run inside the host's solver,
  which calls them in an order nothing in the repository describes.
- Components with no module are listed with the reason in `PROJECT.json`.

## 8. Plan

The modules planned are written, and all but a few of their properties are proved. What
would add most next:

1. `StudyWorkspace`: a file-system variant with unsynchronized directory entries; the
   retained object with a second error.
2. `StudyRanking`: a proof of `HypervolumeIsCovered`.
3. The two-phase solve of the task bridge over the scheduler, once the order in which
   the host calls it is known.

## 9. Running it

`tlc -config X.cfg M` for the module and configuration of a run in
`PROJECT.json`; `tlapm M.tla` for the modules whose names end in `_proofs`. The
largest run needs about three and a half million states; each ends within five minutes. A configuration gives constants
their values and replaces nothing.
