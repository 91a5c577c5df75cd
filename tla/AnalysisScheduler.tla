-------------------------- MODULE AnalysisScheduler --------------------------
(***************************************************************************)
(* The process-wide scheduler of the connectors                             *)
(* (dotnet/Xvarna.Native/Scheduler.cs): a job is counted, given the next    *)
(* generation of its scope, waits for a slot, runs, and is published only   *)
(* if no newer generation of its scope was scheduled before its result was  *)
(* checked.  Slots are a semaphore that Configure replaces.                 *)
(*                                                                          *)
(* A step is one access to shared state (the counters, the generations, the *)
(* semaphore, the field that holds it): nothing but Configure takes a lock. *)
(* The state of a job's progress record and the outcome counter change      *)
(* together here; only the job itself writes its state.  The capacity of    *)
(* the queue, which Configure replaces too, is one constant.                *)
(***************************************************************************)
EXTENDS Integers, Sequences, FiniteSets

CONSTANTS
  Jobs,           \* calls of Schedule
  Scopes,         \* scheduling scopes
  Limits,         \* values of MaximumConcurrency
  MaxQueued,      \* MaximumQueuedJobs
  MaxPolicies,    \* bound: semaphores made
  ConfiguresAlone \* TRUE: Configure and Schedule never overlap, and Configure is
                  \* called only when every scheduled task has completed

ASSUME JobsAssumption == IsFiniteSet(Jobs) /\ Scopes # {}
ASSUME LimitsAssumption == Limits # {} /\ Limits \subseteq Nat \ {0}
ASSUME BoundAssumption == MaxQueued \in Nat \ {0} /\ MaxPolicies \in Nat \ {0}
ASSUME ClientAssumption == ConfiguresAlone \in BOOLEAN

VARIABLES
  pc,          \* where a job is
  scope,       \* its scope
  generation,  \* the generation it was given
  requested,   \* its cancellation was requested
  state,       \* JobProgress.State
  ref,         \* the semaphore the job read from the field
  held,        \* the job entered a slot and has not left it
  superseded,  \* history: a newer generation existed when its operation ended
  queued, running,  \* the counters
  counts,      \* completed, cancelled, stale, failed
  generations, \* Generations
  active,      \* ActiveJobs
  semaphores,  \* every semaphore made; the field holds the last
  configurer   \* where Configure is

job == <<pc, scope, generation, requested, state, ref, held, superseded>>
shared == <<queued, running, counts, generations, active, semaphores>>
vars == <<job, shared, configurer>>

Outcomes == {"completed", "cancelled", "stale", "failed"}

States == {"queued", "running"} \cup Outcomes

Semaphore(limit) == [limit |-> limit, free |-> limit, waiters |-> <<>>, disposed |-> FALSE]

Slots == Len(semaphores)

\* A queue without its i-th waiter.
Without(queue, i) == [k \in 1..(Len(queue) - 1) |-> IF k < i THEN queue[k] ELSE queue[k + 1]]

At(j, where) == pc[j] = where
Goto(j, where) == pc' = [pc EXCEPT ![j] = where]

Quiet == \A j \in Jobs : pc[j] \in {"new", "refused", "done"}

-----------------------------------------------------------------------------
(* Schedule, on the caller's thread.                                       *)

\* Mutant of Enqueue: the capacity is compared with the count before this job.
EnqueueLate(j) ==
  /\ At(j, "new")
  /\ ConfiguresAlone => configurer = "idle"
  /\ queued' = queued + 1
  /\ Goto(j, IF queued > MaxQueued THEN "refusing" ELSE "admitted")
  /\ UNCHANGED <<scope, generation, requested, state, ref, held, superseded,
                 running, counts, generations, active, semaphores, configurer>>

Enqueue(j) ==
  /\ At(j, "new")
  /\ ConfiguresAlone => configurer = "idle"
  /\ queued' = queued + 1
  /\ Goto(j, IF queued' > MaxQueued THEN "refusing" ELSE "admitted")
  /\ UNCHANGED <<scope, generation, requested, state, ref, held, superseded,
                 running, counts, generations, active, semaphores, configurer>>

Refuse(j) ==
  /\ At(j, "refusing")
  /\ queued' = queued - 1
  /\ Goto(j, "refused")
  /\ UNCHANGED <<scope, generation, requested, state, ref, held, superseded,
                 running, counts, generations, active, semaphores, configurer>>

Post(j) ==
  /\ At(j, "admitted")
  /\ \E s \in Scopes :
       /\ scope' = [scope EXCEPT ![j] = s]
       /\ generations' = [generations EXCEPT ![s] = @ + 1]
       /\ generation' = [generation EXCEPT ![j] = generations[s] + 1]
  /\ active' = active \cup {j}
  /\ Goto(j, "posted")
  /\ UNCHANGED <<requested, state, ref, held, superseded, queued, running, counts,
                 semaphores, configurer>>

\* The caller's token or the job's own handle.
Cancel(j) ==
  /\ ~requested[j] /\ pc[j] \notin {"refused", "done"}
  /\ requested' = [requested EXCEPT ![j] = TRUE]
  /\ UNCHANGED <<pc, scope, generation, state, ref, held, superseded, shared, configurer>>

-----------------------------------------------------------------------------
(* The job's task: getting a slot.                                         *)

\* Where an outcome is written and counted; the job then leaves.
Settle(j, outcome) ==
  /\ state' = [state EXCEPT ![j] = outcome]
  /\ counts' = [counts EXCEPT ![outcome] = @ + 1]
  /\ Goto(j, "leaving")

\* slots.WaitAsync(linked.Token): the field is read, then the semaphore is
\* asked.  Reading the token throws if the handle was disposed of.
ReadSlots(j) ==
  /\ At(j, "posted")
  /\ ref' = [ref EXCEPT ![j] = Slots]
  /\ \/ Goto(j, "asking") /\ UNCHANGED <<state, counts>>
     \/ Settle(j, "failed")
  /\ UNCHANGED <<scope, generation, requested, held, superseded, queued, running,
                 generations, active, semaphores, configurer>>

Ask(j) ==
  /\ At(j, "asking")
  /\ LET s == semaphores[ref[j]]
     IN  CASE s.disposed ->
                /\ Settle(j, "failed")
                /\ UNCHANGED <<held, semaphores>>
           [] ~s.disposed /\ requested[j] ->
                /\ Settle(j, "cancelled")
                /\ UNCHANGED <<held, semaphores>>
           [] ~s.disposed /\ ~requested[j] /\ s.free > 0 ->
                /\ semaphores' = [semaphores EXCEPT ![ref[j]].free = @ - 1]
                /\ held' = [held EXCEPT ![j] = TRUE]
                /\ Goto(j, "entered")
                /\ UNCHANGED <<state, counts>>
           [] OTHER ->
                /\ semaphores' = [semaphores EXCEPT ![ref[j]].waiters = Append(@, j)]
                /\ Goto(j, "waiting")
                /\ UNCHANGED <<held, state, counts>>
  /\ UNCHANGED <<scope, generation, requested, ref, superseded, queued, running,
                 generations, active, configurer>>

\* A waiter that is cancelled leaves the queue, if it is still in it.
StopWaiting(j) ==
  /\ At(j, "waiting") /\ requested[j]
  /\ \E i \in 1..Len(semaphores[ref[j]].waiters) :
       /\ semaphores[ref[j]].waiters[i] = j
       /\ semaphores' = [semaphores EXCEPT ![ref[j]].waiters = Without(@, i)]
  /\ Settle(j, "cancelled")
  /\ UNCHANGED <<scope, generation, requested, ref, held, superseded, queued, running,
                 generations, active, configurer>>

Unqueue(j) ==
  /\ At(j, "entered")
  /\ queued' = queued - 1
  /\ Goto(j, "unqueued")
  /\ UNCHANGED <<scope, generation, requested, state, ref, held, superseded, running,
                 counts, generations, active, semaphores, configurer>>

Start(j) ==
  /\ At(j, "unqueued")
  /\ running' = running + 1
  /\ state' = [state EXCEPT ![j] = "running"]
  /\ Goto(j, "running")
  /\ UNCHANGED <<scope, generation, requested, ref, held, superseded, queued, counts,
                 generations, active, semaphores, configurer>>

-----------------------------------------------------------------------------
(* Running and publishing.                                                 *)

Current(j) == generations[scope[j]] = generation[j]

\* The operation returns a result, stops because it was asked to, or throws.  The
\* operations of the connectors throw OperationCanceledException for their token
\* only; one that threw it unasked would be counted as cancelled too.
Operate(j) ==
  /\ At(j, "running")
  /\ superseded' = [superseded EXCEPT ![j] = ~Current(j)]
  /\ \/ /\ Goto(j, "returned")
        /\ UNCHANGED <<state, counts>>
     \/ requested[j] /\ Settle(j, "cancelled")
     \/ Settle(j, "failed")
  /\ UNCHANGED <<scope, generation, requested, ref, held, queued, running,
                 generations, active, semaphores, configurer>>

\* Mutant of Check: the generation is compared with an older one only.
CheckOrder(j) ==
  /\ At(j, "returned")
  /\ CASE requested[j] -> Settle(j, "cancelled")
       [] ~requested[j] /\ generations[scope[j]] < generation[j] -> Settle(j, "stale")
       [] OTHER -> Goto(j, "checked") /\ UNCHANGED <<state, counts>>
  /\ UNCHANGED <<scope, generation, requested, ref, held, superseded, queued, running,
                 generations, active, semaphores, configurer>>

\* Mutant of Check: a result is thrown away when its scope has seen another job.
CheckFirst(j) ==
  /\ At(j, "returned")
  /\ CASE requested[j] -> Settle(j, "cancelled")
       [] ~requested[j] /\ generations[scope[j]] # 1 -> Settle(j, "stale")
       [] OTHER -> Goto(j, "checked") /\ UNCHANGED <<state, counts>>
  /\ UNCHANGED <<scope, generation, requested, ref, held, superseded, queued, running,
                 generations, active, semaphores, configurer>>

\* A result is found stale, and reading the token to say so throws because the
\* handle was disposed of since: the job is counted twice.
SettleTwice(j) ==
  /\ state' = [state EXCEPT ![j] = "failed"]
  /\ counts' = [counts EXCEPT !["stale"] = @ + 1, !["failed"] = @ + 1]
  /\ Goto(j, "leaving")

\* ThrowIfCancellationRequested, then the generation of the scope; reading
\* the token throws if the handle was disposed of.
Check(j) ==
  /\ At(j, "returned")
  /\ \/ requested[j] /\ Settle(j, "cancelled")
     \/ Settle(j, "failed")
     \/ ~requested[j] /\ ~Current(j) /\ Settle(j, "stale")
     \/ ~requested[j] /\ ~Current(j) /\ SettleTwice(j)
     \/ ~requested[j] /\ Current(j) /\ Goto(j, "checked") /\ UNCHANGED <<state, counts>>
  /\ UNCHANGED <<scope, generation, requested, ref, held, superseded, queued, running,
                 generations, active, semaphores, configurer>>

Publish(j) ==
  /\ At(j, "checked")
  /\ Settle(j, "completed")
  /\ UNCHANGED <<scope, generation, requested, ref, held, superseded, queued, running,
                 generations, active, semaphores, configurer>>

-----------------------------------------------------------------------------
(* The finally block.                                                      *)

\* Mutant of Leave: a job that never entered a slot counts as running.
LeaveRunning(j) ==
  /\ At(j, "leaving")
  /\ running' = running - 1
  /\ Goto(j, IF held[j] THEN "releasing" ELSE "removing")
  /\ UNCHANGED <<scope, generation, requested, state, ref, held, superseded, queued, counts,
                 generations, active, semaphores, configurer>>

\* Mutant of Leave: an operation that throws keeps its slot.
LeaveUnlessFailed(j) ==
  /\ At(j, "leaving")
  /\ IF held[j]
     THEN /\ running' = running - 1
          /\ Goto(j, IF state[j] = "failed" THEN "removing" ELSE "releasing")
          /\ UNCHANGED queued
     ELSE queued' = queued - 1 /\ Goto(j, "removing") /\ UNCHANGED running
  /\ UNCHANGED <<scope, generation, requested, state, ref, held, superseded, counts,
                 generations, active, semaphores, configurer>>

Leave(j) ==
  /\ At(j, "leaving")
  /\ IF held[j]
     THEN running' = running - 1 /\ Goto(j, "releasing") /\ UNCHANGED queued
     ELSE queued' = queued - 1 /\ Goto(j, "removing") /\ UNCHANGED running
  /\ UNCHANGED <<scope, generation, requested, state, ref, held, superseded, counts,
                 generations, active, semaphores, configurer>>

\* The semaphore of the field is released, whichever one was entered: a full
\* one throws, and the rest of the finally block is skipped.
ReleaseSlot(j) ==
  /\ At(j, "releasing")
  /\ LET s == semaphores[Slots]
     IN  CASE s.waiters # <<>> ->
                LET next == Head(s.waiters)
                IN  /\ semaphores' = [semaphores EXCEPT ![Slots].waiters = Tail(@)]
                    /\ held' = [held EXCEPT ![j] = FALSE, ![next] = TRUE]
                    /\ pc' = [pc EXCEPT ![j] = "removing", ![next] = "entered"]
           [] s.waiters = <<>> /\ s.free < s.limit ->
                /\ semaphores' = [semaphores EXCEPT ![Slots].free = @ + 1]
                /\ held' = [held EXCEPT ![j] = FALSE]
                /\ Goto(j, "removing")
           [] OTHER ->
                /\ Goto(j, "faulted")
                /\ UNCHANGED <<held, semaphores>>
  /\ UNCHANGED <<scope, generation, requested, state, ref, superseded, queued, running,
                 counts, generations, active, configurer>>

Remove(j) ==
  /\ At(j, "removing")
  /\ active' = active \ {j}
  /\ Goto(j, "done")
  /\ UNCHANGED <<scope, generation, requested, state, ref, held, superseded, queued,
                 running, counts, generations, semaphores, configurer>>

-----------------------------------------------------------------------------
(* Configure: two reads, then the field is replaced, then the old semaphore *)
(* is disposed.  The lock it takes is taken by nothing else.                *)

ConfigureReadsQueued ==
  /\ configurer = "idle"
  /\ ConfiguresAlone => Quiet
  /\ Len(semaphores) < MaxPolicies
  /\ queued = 0
  /\ configurer' = "queue empty"
  /\ UNCHANGED <<job, shared>>

ConfigureReadsRunning ==
  /\ configurer = "queue empty"
  /\ configurer' = IF running = 0 THEN "idle seen" ELSE "idle"
  /\ UNCHANGED <<job, shared>>

ConfigureReplaces ==
  /\ configurer = "idle seen"
  /\ \E limit \in Limits : semaphores' = Append(semaphores, Semaphore(limit))
  /\ configurer' = "replaced"
  /\ UNCHANGED <<job, queued, running, counts, generations, active>>

\* A disposed semaphore forgets the head of its queue of waiters.
ConfigureDisposes ==
  /\ configurer = "replaced"
  /\ semaphores' = [semaphores EXCEPT ![Slots - 1].disposed = TRUE,
                                      ![Slots - 1].waiters = IF @ = <<>> THEN @ ELSE Tail(@)]
  /\ configurer' = "idle"
  /\ UNCHANGED <<job, queued, running, counts, generations, active>>

-----------------------------------------------------------------------------

Init ==
  /\ pc = [j \in Jobs |-> "new"]
  /\ scope = [j \in Jobs |-> CHOOSE s \in Scopes : TRUE]
  /\ generation = [j \in Jobs |-> 0]
  /\ requested = [j \in Jobs |-> FALSE]
  /\ state = [j \in Jobs |-> "queued"]
  /\ ref = [j \in Jobs |-> 0]
  /\ held = [j \in Jobs |-> FALSE]
  /\ superseded = [j \in Jobs |-> FALSE]
  /\ queued = 0
  /\ running = 0
  /\ counts = [o \in Outcomes |-> 0]
  /\ generations = [s \in Scopes |-> 0]
  /\ active = {}
  /\ \E limit \in Limits : semaphores = <<Semaphore(limit)>>
  /\ configurer = "idle"

Schedule(j) == Enqueue(j) \/ Refuse(j) \/ Post(j)

Task(j) ==
  \/ ReadSlots(j) \/ Ask(j) \/ StopWaiting(j) \/ Unqueue(j) \/ Start(j)
  \/ Operate(j) \/ Check(j) \/ Publish(j)
  \/ Leave(j) \/ ReleaseSlot(j) \/ Remove(j)

Configure ==
  \/ ConfigureReadsQueued \/ ConfigureReadsRunning
  \/ ConfigureReplaces \/ ConfigureDisposes

Next == (\E j \in Jobs : Schedule(j) \/ Cancel(j) \/ Task(j)) \/ Configure

\* A caller that entered Schedule finishes it, the thread pool runs every task,
\* and every operation ends; nobody has to call Schedule, Cancel or Configure.
Fairness ==
  \A j \in Jobs : WF_vars(Refuse(j)) /\ WF_vars(Post(j)) /\ WF_vars(Task(j))

Spec == Init /\ [][Next]_vars

FairSpec == Spec /\ Fairness

-----------------------------------------------------------------------------
(* Properties.                                                             *)

Places ==
  {"new", "refusing", "refused", "admitted", "posted", "asking", "waiting", "entered",
   "unqueued", "running", "returned", "checked", "leaving", "releasing", "removing",
   "done", "faulted"}

\* Types: every job is at one place of Schedule or of its task, the counters
\* are not negative, and the field always holds a semaphore (Scheduler.cs).
TypeOK ==
  /\ pc \in [Jobs -> Places]
  /\ scope \in [Jobs -> Scopes] /\ generation \in [Jobs -> Nat]
  /\ requested \in [Jobs -> BOOLEAN] /\ state \in [Jobs -> States]
  /\ ref \in [Jobs -> 0..Slots] /\ held \in [Jobs -> BOOLEAN]
  /\ queued \in Nat /\ running \in Nat
  /\ counts \in [Outcomes -> Nat] /\ generations \in [Scopes -> Nat]
  /\ active \subseteq Jobs
  /\ Slots \in 1..MaxPolicies
  /\ \A i \in 1..Slots : semaphores[i].free \in 0..semaphores[i].limit

Waiting(j) == pc[j] \in {"refusing", "admitted", "posted", "asking", "waiting", "entered"}

\* What the scheduler knows of its load is true at every moment, whatever was
\* cancelled, refused or thrown where: the two counters are the jobs that wait and
\* the jobs that run, and a job whose task has ended is not among "all queued and
\* running analyses" (Scheduler.cs:189-194, 208-209, 250-259, 286-292).
CountersExact ==
  /\ queued = Cardinality({j \in Jobs : Waiting(j) \/ (At(j, "leaving") /\ ~held[j])})
  /\ running = Cardinality({j \in Jobs : \/ pc[j] \in {"running", "returned", "checked"}
                                         \/ (At(j, "leaving") /\ held[j])})
  /\ \A j \in Jobs : pc[j] \in {"refused", "done", "faulted"} => j \notin active

\* Never more admitted jobs without a slot than MaximumQueuedJobs allows, however
\* many callers are at the limit together; and no slot is lost and none is made:
\* what is free and what is held is the configured concurrency
\* (Scheduler.cs:172, 189-194, 206, 253).
LoadIsBounded ==
  /\ Cardinality({j \in Jobs : pc[j] \in {"admitted", "posted", "asking", "waiting"}}) <= MaxQueued
  /\ semaphores[Slots].free + Cardinality({j \in Jobs : held[j]}) = semaphores[Slots].limit

\* Never more operations at once than MaximumConcurrency, "Configured
\* concurrent worker slots" (Scheduler.cs:49).
ConcurrencyBounded == Cardinality({j \in Jobs : At(j, "running")}) <= semaphores[Slots].limit

\* A result is never published if a newer input of its scope was scheduled
\* before its operation ended (Scheduler.cs:216-223).
SupersededIsNotPublished ==
  \A j \in Jobs : superseded[j] => ~At(j, "checked") /\ state[j] # "completed"

\* The newest job of a scope is not thrown away as stale: unless it was
\* cancelled or failed, its result is published (Scheduler.cs:216).
NewestIsPublished ==
  \A j \in Jobs :
    At(j, "done") /\ Current(j) /\ ~requested[j] /\ state[j] # "failed" => state[j] = "completed"

\* The task of every admitted job completes, "with the analysis result or
\* terminal exception" (Scheduler.cs:93), however many wait for its slot.
EveryJobEnds ==
  \A j \in Jobs : At(j, "admitted") ~> pc[j] \in {"done", "faulted"}
=============================================================================
