---------------------- MODULE AnalysisScheduler_proofs ----------------------
(***************************************************************************)
(* The scheduler's counters, its slots and what it publishes, for any       *)
(* number of jobs and scopes and every interleaving of their steps.         *)
(*                                                                          *)
(* What the counters and the generations promise holds whatever Configure   *)
(* does; what the slots promise holds for clients that call it when no      *)
(* scheduled task is under way (ConfiguresAlone).                           *)
(***************************************************************************)
EXTENDS AnalysisScheduler, FiniteSetTheorems, SequenceTheorems, TLAPS

-----------------------------------------------------------------------------
(* The inductive invariant.                                                *)

Semaphores == [limit : Nat \ {0}, free : Nat, waiters : Seq(Jobs), disposed : BOOLEAN]

\* Configure never makes a semaphore too many, and disposes of one it replaced.
ConfigurerOK ==
  /\ configurer \in {"idle", "queue empty", "idle seen", "replaced"}
  /\ configurer \in {"queue empty", "idle seen"} => Slots < MaxPolicies
  /\ configurer = "replaced" => Slots > 1

\* The types in full: TypeOK but for the two counters, and the semaphores.
JobTypes ==
  /\ pc \in [Jobs -> Places]
  /\ scope \in [Jobs -> Scopes] /\ generation \in [Jobs -> Nat]
  /\ requested \in [Jobs -> BOOLEAN] /\ state \in [Jobs -> States]
  /\ held \in [Jobs -> BOOLEAN] /\ superseded \in [Jobs -> BOOLEAN]
  /\ counts \in [Outcomes -> Nat] /\ generations \in [Scopes -> Nat]
  /\ active \subseteq Jobs

SemaphoreTypes ==
  /\ semaphores \in Seq(Semaphores)
  /\ Slots \in 1..MaxPolicies
  /\ \A i \in 1..Slots : semaphores[i].free <= semaphores[i].limit
  /\ ref \in [Jobs -> 0..Slots]

Types == JobTypes /\ SemaphoreTypes /\ ConfigurerOK

\* A job holds a slot from the moment it entered until it released it; a job that
\* leaves may have entered or not.
Inside == {"entered", "unqueued", "running", "returned", "checked", "releasing", "faulted"}
HoldersAreInside ==
  \A j \in Jobs :
    /\ pc[j] \in {"asking", "waiting"} => ref[j] # 0
    /\ pc[j] \in Inside => held[j]
    /\ pc[j] \notin Inside \cup {"leaving"} => ~held[j]

\* Whoever is in a queue of waiters waits for that semaphore, once.
WaitersWait ==
  \A i \in 1..Slots :
    LET queue == semaphores[i].waiters
    IN  /\ \A k \in 1..Len(queue) : pc[queue[k]] = "waiting" /\ ref[queue[k]] = i
        /\ \A k, l \in 1..Len(queue) : queue[k] = queue[l] => k = l

\* The jobs that each counter counts, those the queue's capacity is about, and
\* those that hold a slot.
QueuedJobs == {j \in Jobs : Waiting(j) \/ (At(j, "leaving") /\ ~held[j])}
RunningJobs == {j \in Jobs : \/ pc[j] \in {"running", "returned", "checked"}
                             \/ (At(j, "leaving") /\ held[j])}
AdmittedJobs == {j \in Jobs : pc[j] \in {"admitted", "posted", "asking", "waiting"}}
Holders == {j \in Jobs : held[j]}

Counted ==
  /\ queued = Cardinality(QueuedJobs)
  /\ running = Cardinality(RunningJobs)
  /\ Cardinality(AdmittedJobs) <= MaxQueued

Unposted == {"new", "refusing", "refused", "admitted"}
ActiveArePosted == \A j \in Jobs : pc[j] \in Unposted \cup {"done"} => j \notin active

\* Generations grow: what is not current will never be again.
GenerationsGrow ==
  \A j \in Jobs :
    /\ pc[j] \notin Unposted => generation[j] <= generations[scope[j]]
    /\ superseded[j] => ~Current(j) /\ pc[j] \in {"returned", "leaving", "releasing",
                                                   "removing", "done", "faulted"}

\* A job has an outcome from the moment it leaves, and each outcome its reason.
Ended == {"leaving", "releasing", "removing", "done", "faulted"}
OutcomesHaveReasons ==
  \A j \in Jobs :
    /\ pc[j] \in Ended <=> state[j] \in Outcomes
    /\ state[j] = "completed" => ~superseded[j]
    /\ state[j] = "cancelled" => requested[j]
    /\ state[j] = "stale" => ~Current(j)

\* Without a Configure beside them, the jobs share one semaphore, and what is free
\* of it and what is held is all there is.
OneSemaphore ==
  /\ configurer # "idle" => Quiet
  /\ \A j \in Jobs : pc[j] # "faulted"
  /\ \A j \in Jobs : pc[j] \in {"asking", "waiting"} => ref[j] = Slots
  /\ semaphores[Slots].free + Cardinality(Holders) = semaphores[Slots].limit

IInv ==
  /\ Types
  /\ HoldersAreInside
  /\ WaitersWait
  /\ Counted
  /\ ActiveArePosted
  /\ GenerationsGrow
  /\ OutcomesHaveReasons
  /\ ConfiguresAlone => OneSemaphore

-----------------------------------------------------------------------------
(* Counting jobs.                                                          *)

LEMMA FiniteJobs ==
  ASSUME NEW S \in SUBSET Jobs
  PROVE  IsFiniteSet(S) /\ Cardinality(S) \in Nat
  BY JobsAssumption, FS_Subset, FS_CardinalityType

LEMMA JobJoins ==
  ASSUME NEW S \in SUBSET Jobs, NEW j \in Jobs \ S
  PROVE  Cardinality(S \cup {j}) = Cardinality(S) + 1
  BY FiniteJobs, FS_AddElement

LEMMA JobQuits ==
  ASSUME NEW S \in SUBSET Jobs, NEW j \in S
  PROVE  Cardinality(S \ {j}) = Cardinality(S) - 1
  BY FiniteJobs, FS_RemoveElement

LEMMA CountsAreNatural ==
  ASSUME Counted
  PROVE  queued \in Nat /\ running \in Nat
  BY FiniteJobs DEF Counted, QueuedJobs, RunningJobs

LEMMA InitInv == Init => IInv
  <1> SUFFICES ASSUME Init PROVE IInv
    OBVIOUS
  <1>1. Types
    <2>1. PICK limit \in Limits : semaphores = <<Semaphore(limit)>>
      BY DEF Init
    <2>2. limit \in Nat \ {0} /\ Semaphore(limit) \in Semaphores
      BY LimitsAssumption, EmptySeq DEF Semaphore, Semaphores
    <2>3. semaphores \in Seq(Semaphores) /\ Slots = 1 /\ semaphores[1] = Semaphore(limit)
      BY <2>1, <2>2 DEF Slots
    <2>4. QED
      BY <2>2, <2>3, BoundAssumption, JobsAssumption
      DEF Init, Types, JobTypes, SemaphoreTypes, Places, States, ConfigurerOK, Semaphore
  <1>2. PICK limit \in Limits : semaphores = <<Semaphore(limit)>>
    BY DEF Init
  <1>3. Slots = 1 /\ semaphores[1] = Semaphore(limit) /\ limit \in Nat
    BY <1>2, LimitsAssumption DEF Slots
  <1>4. QueuedJobs = {} /\ RunningJobs = {} /\ AdmittedJobs = {} /\ Holders = {}
    BY DEF Init, QueuedJobs, RunningJobs, AdmittedJobs, Holders, Waiting, At
  <1>5. Counted
    BY <1>4, FS_EmptySet, BoundAssumption DEF Counted, Init
  <1>6. OneSemaphore
    BY <1>3, <1>4, FS_EmptySet DEF OneSemaphore, Init, Semaphore
  <1>7. WaitersWait
    BY <1>3 DEF WaitersWait, Semaphore
  <1>8. HoldersAreInside /\ ActiveArePosted /\ GenerationsGrow /\ OutcomesHaveReasons
    BY DEF Init, HoldersAreInside, ActiveArePosted, GenerationsGrow, OutcomesHaveReasons,
           Inside, Unposted, Ended, Outcomes
  <1>9. QED
    BY <1>1, <1>5, <1>6, <1>7, <1>8 DEF IInv

-----------------------------------------------------------------------------
(* What a step that leaves something alone keeps.                          *)

LEMMA SettleTypes ==
  ASSUME JobTypes, NEW j \in Jobs, NEW outcome \in Outcomes, Settle(j, outcome)
  PROVE  /\ pc' = [pc EXCEPT ![j] = "leaving"] /\ pc' \in [Jobs -> Places]
         /\ state' = [state EXCEPT ![j] = outcome] /\ state' \in [Jobs -> States]
         /\ counts' \in [Outcomes -> Nat]
  BY DEF JobTypes, Settle, Goto, Places, States

LEMMA SettleTwiceTypes ==
  ASSUME JobTypes, NEW j \in Jobs, SettleTwice(j)
  PROVE  /\ pc' = [pc EXCEPT ![j] = "leaving"] /\ pc' \in [Jobs -> Places]
         /\ state' = [state EXCEPT ![j] = "failed"] /\ state' \in [Jobs -> States]
         /\ counts' \in [Outcomes -> Nat]
  BY DEF JobTypes, SettleTwice, Goto, Places, States, Outcomes

LEMMA WaitersAreJobs ==
  ASSUME SemaphoreTypes, NEW i \in 1..Slots
  PROVE  /\ semaphores[i] \in Semaphores
         /\ semaphores[i].waiters \in Seq(Jobs)
         /\ \A k \in 1..Len(semaphores[i].waiters) : semaphores[i].waiters[k] \in Jobs
  <1>1. semaphores[i] \in Semaphores
    BY ElementOfSeq DEF SemaphoreTypes, Slots
  <1>2. semaphores[i].waiters \in Seq(Jobs)
    BY <1>1 DEF Semaphores
  <1>3. QED
    BY <1>1, <1>2, ElementOfSeq

LEMMA SemaphoresUntouched ==
  ASSUME Types, WaitersWait, semaphores' = semaphores, ref' \in [Jobs -> 0..Slots],
         \A k \in Jobs : pc[k] = "waiting" => pc'[k] = "waiting" /\ ref'[k] = ref[k]
  PROVE  SemaphoreTypes' /\ WaitersWait'
  <1>1. Slots' = Slots
    BY DEF Slots
  <1>2. SemaphoreTypes'
    BY <1>1 DEF Types, SemaphoreTypes
  <1>3. WaitersWait'
    BY <1>1, WaitersAreJobs DEF Types, WaitersWait
  <1>5. QED
    BY <1>2, <1>3

LEMMA SameCounts ==
  ASSUME Counted, queued' = queued, running' = running,
         QueuedJobs' = QueuedJobs, RunningJobs' = RunningJobs, AdmittedJobs' \subseteq AdmittedJobs
  PROVE  Counted'
  <1>1. IsFiniteSet(AdmittedJobs) /\ Cardinality(AdmittedJobs) \in Nat
    BY FiniteJobs DEF AdmittedJobs
  <1>2. Cardinality(AdmittedJobs') <= Cardinality(AdmittedJobs) /\ Cardinality(AdmittedJobs') \in Nat
    BY <1>1, FS_Subset, FS_CardinalityType
  <1>3. QED
    BY <1>1, <1>2, BoundAssumption DEF Counted

\* A job that moves without touching a slot.
LEMMA SlotsUntouched ==
  ASSUME OneSemaphore, Types, semaphores' = semaphores, configurer' = configurer, held' = held,
         NEW j \in Jobs, NEW place, pc' = [pc EXCEPT ![j] = place], place # "faulted",
         pc[j] \in {"new", "refused", "done"} => configurer = "idle",
         place \in {"asking", "waiting"} => ref'[j] = Slots,
         \A k \in Jobs \ {j} : ref'[k] = ref[k]
  PROVE  OneSemaphore'
  <1>1. Slots' = Slots /\ Holders' = Holders
    BY DEF Slots, Holders
  <1>2. \A k \in Jobs \ {j} : pc'[k] = pc[k]
    BY DEF Types, JobTypes
  <1>3. pc'[j] = place
    BY DEF Types, JobTypes
  <1>4. configurer' # "idle" => Quiet'
    BY <1>2 DEF OneSemaphore, Quiet
  <1>5. \A k \in Jobs : pc'[k] # "faulted"
    BY <1>2, <1>3 DEF OneSemaphore
  <1>6. \A k \in Jobs : pc'[k] \in {"asking", "waiting"} => ref'[k] = Slots
    BY <1>2, <1>3 DEF OneSemaphore
  <1>7. QED
    BY <1>1, <1>4, <1>5, <1>6 DEF OneSemaphore

-----------------------------------------------------------------------------
(* Every step of a job keeps the invariant: those that touch no semaphore.  *)

LEMMA RefuseInv ==
  ASSUME IInv, NEW j \in Jobs, Refuse(j)
  PROVE  IInv'
  <1> USE DEF IInv, Types, Refuse, At, Goto
  <1>0. JobTypes /\ JobTypes'
    BY DEF JobTypes, ConfigurerOK, Places, States, Slots
  <1>1. ConfigurerOK'
    BY DEF ConfigurerOK, Slots
  <1>2. HoldersAreInside'
    BY <1>0 DEF HoldersAreInside, JobTypes, Inside
  <1>3. SemaphoreTypes' /\ WaitersWait'
    <2>1. ref' \in [Jobs -> 0..Slots]
      BY DEF SemaphoreTypes
    <2>2. QED
      BY <1>0, <2>1, SemaphoresUntouched DEF JobTypes
  <1>4. Counted'
    <2>1. QueuedJobs' = QueuedJobs \ {j} /\ j \in QueuedJobs
      BY <1>0 DEF JobTypes,  QueuedJobs, Waiting, HoldersAreInside, Inside
    <2>2. RunningJobs' = RunningJobs
      BY <1>0 DEF JobTypes,  RunningJobs, HoldersAreInside, Inside
    <2>3. AdmittedJobs' = AdmittedJobs
      BY <1>0 DEF JobTypes,  AdmittedJobs
    <2>4. Cardinality(QueuedJobs') = Cardinality(QueuedJobs) - 1 /\ Cardinality(RunningJobs') = Cardinality(RunningJobs)
      BY <2>1, <2>2, JobJoins, JobQuits DEF QueuedJobs, RunningJobs
    <2>5. QED
      BY <2>3, <2>4 DEF Counted
  <1>5. ActiveArePosted'
    BY <1>0 DEF ActiveArePosted, JobTypes, Unposted
  <1>6. GenerationsGrow'
    BY <1>0 DEF GenerationsGrow, JobTypes, Unposted, Current
  <1>7. OutcomesHaveReasons'
    BY <1>0 DEF OutcomesHaveReasons, GenerationsGrow, JobTypes, Ended, Outcomes, Current
  <1>8. ASSUME ConfiguresAlone PROVE OneSemaphore'
    BY <1>8, SlotsUntouched
  <1>9. QED
    BY <1>0, <1>1, <1>2, <1>3, <1>4, <1>5, <1>6, <1>7, <1>8

LEMMA PostInv ==
  ASSUME IInv, NEW j \in Jobs, Post(j)
  PROVE  IInv'
  <1> USE DEF IInv, Types, Post, At, Goto
  <1>s. PICK s \in Scopes : /\ scope' = [scope EXCEPT ![j] = s]
                           /\ generations' = [generations EXCEPT ![s] = @ + 1]
                           /\ generation' = [generation EXCEPT ![j] = generations[s] + 1]
    OBVIOUS
  <1>0. JobTypes /\ JobTypes'
    <2>1. JobTypes /\ generations[s] + 1 \in Nat
      BY DEF JobTypes
    <2>2. generations' \in [Scopes -> Nat] /\ generation' \in [Jobs -> Nat]
      BY <1>s, <2>1 DEF JobTypes
    <2>3. QED
      BY <1>s, <2>1, <2>2 DEF JobTypes, Places
  <1>1. ConfigurerOK'
    BY DEF ConfigurerOK, Slots
  <1>2. HoldersAreInside'
    BY <1>0 DEF HoldersAreInside, JobTypes, Inside
  <1>3. SemaphoreTypes' /\ WaitersWait'
    <2>1. ref' \in [Jobs -> 0..Slots]
      BY DEF SemaphoreTypes
    <2>2. QED
      BY <1>0, <2>1, SemaphoresUntouched DEF JobTypes
  <1>4. Counted'
    <2>1. QueuedJobs' = QueuedJobs /\ RunningJobs' = RunningJobs
      BY <1>0 DEF JobTypes,  QueuedJobs, RunningJobs, Waiting, HoldersAreInside, Inside
    <2>2. AdmittedJobs' = AdmittedJobs
      BY <1>0 DEF JobTypes,  AdmittedJobs
    <2>3. QED
      BY <2>1, <2>2, SameCounts
  <1>5. ActiveArePosted'
    BY <1>0 DEF ActiveArePosted, JobTypes, Unposted
  <1>6. GenerationsGrow'
    BY <1>0, <1>s DEF GenerationsGrow, JobTypes, Unposted, Current
  <1>7. OutcomesHaveReasons'
    <2>1. \A k \in Jobs : k # j => pc'[k] = pc[k] /\ scope'[k] = scope[k] /\ generation'[k] = generation[k]
      BY <1>0, <1>s DEF JobTypes
    <2>2. ASSUME NEW k \in Jobs, k # j, pc[k] \in Ended, ~Current(k)
          PROVE  ~Current(k)'
      <3>1. generation[k] < generations[scope[k]]
        BY <1>0, <2>2 DEF GenerationsGrow, Current, Ended, Unposted, JobTypes
      <3>2. generations'[scope[k]] >= generations[scope[k]]
        BY <1>0, <1>s DEF JobTypes
      <3>3. QED
        BY <1>0, <2>1, <2>2, <3>1, <3>2 DEF Current, JobTypes
    <2>3. pc[j] \notin Ended /\ pc'[j] \notin Ended /\ state[j] \notin Outcomes
      BY <1>0 DEF OutcomesHaveReasons, Ended, JobTypes
    <2>4. QED
      BY <1>0, <2>1, <2>2, <2>3 DEF OutcomesHaveReasons, Ended, Outcomes
  <1>8. ASSUME ConfiguresAlone PROVE OneSemaphore'
    BY <1>8, SlotsUntouched
  <1>9. QED
    BY <1>0, <1>1, <1>2, <1>3, <1>4, <1>5, <1>6, <1>7, <1>8

LEMMA ReadSlotsInv ==
  ASSUME IInv, NEW j \in Jobs, ReadSlots(j)
  PROVE  IInv'
  <1> USE DEF IInv, Types, ReadSlots, At, Goto
  <1>0. JobTypes /\ JobTypes'
    BY SettleTypes DEF JobTypes, ConfigurerOK, Outcomes, Places, Slots
  <1>1. ConfigurerOK'
    BY DEF ConfigurerOK, Slots
  <1>2. HoldersAreInside'
    <2>1. ref'[j] # 0 /\ \A k \in Jobs \ {j} : pc'[k] = pc[k] /\ ref'[k] = ref[k]
      BY <1>0 DEF JobTypes, SemaphoreTypes, Settle
    <2>2. pc'[j] \in {"asking", "leaving"}
      BY <1>0 DEF JobTypes, Settle
    <2>3. QED
      BY <1>0, <2>1, <2>2 DEF HoldersAreInside, JobTypes, Inside
  <1>3. SemaphoreTypes' /\ WaitersWait'
    <2>1. ref' \in [Jobs -> 0..Slots]
      BY DEF SemaphoreTypes
    <2>2. QED
      BY <1>0, <2>1, SemaphoresUntouched DEF JobTypes, Settle
  <1>4. Counted'
    <2>1. QueuedJobs' = QueuedJobs /\ RunningJobs' = RunningJobs
      BY <1>0 DEF JobTypes, Settle,  QueuedJobs, RunningJobs, Waiting, HoldersAreInside, Inside
    <2>2. AdmittedJobs' \subseteq AdmittedJobs
      BY <1>0 DEF JobTypes, Settle,  AdmittedJobs
    <2>3. QED
      BY <2>1, <2>2, SameCounts
  <1>5. ActiveArePosted'
    BY <1>0 DEF ActiveArePosted, JobTypes, Unposted, Settle
  <1>6. GenerationsGrow'
    BY <1>0 DEF GenerationsGrow, JobTypes, Unposted, Current, Settle
  <1>7. OutcomesHaveReasons'
    BY <1>0 DEF OutcomesHaveReasons, GenerationsGrow, JobTypes, Ended, Outcomes, Current, Settle
  <1>8. ASSUME ConfiguresAlone PROVE OneSemaphore'
    <2>1. PICK place \in {"asking", "leaving"} : pc' = [pc EXCEPT ![j] = place]
      BY DEF Settle
    <2>2. ref'[j] = Slots /\ \A k \in Jobs \ {j} : ref'[k] = ref[k]
      BY DEF SemaphoreTypes
    <2>3. QED
      BY <1>8, <2>1, <2>2, SlotsUntouched
  <1>9. QED
    BY <1>0, <1>1, <1>2, <1>3, <1>4, <1>5, <1>6, <1>7, <1>8

LEMMA UnqueueInv ==
  ASSUME IInv, NEW j \in Jobs, Unqueue(j)
  PROVE  IInv'
  <1> USE DEF IInv, Types, Unqueue, At, Goto
  <1>0. JobTypes /\ JobTypes'
    BY DEF JobTypes, ConfigurerOK, Places, States, Slots
  <1>1. ConfigurerOK'
    BY DEF ConfigurerOK, Slots
  <1>2. HoldersAreInside'
    BY <1>0 DEF HoldersAreInside, JobTypes, Inside
  <1>3. SemaphoreTypes' /\ WaitersWait'
    <2>1. ref' \in [Jobs -> 0..Slots]
      BY DEF SemaphoreTypes
    <2>2. QED
      BY <1>0, <2>1, SemaphoresUntouched DEF JobTypes
  <1>4. Counted'
    <2>1. QueuedJobs' = QueuedJobs \ {j} /\ j \in QueuedJobs
      BY <1>0 DEF JobTypes,  QueuedJobs, Waiting, HoldersAreInside, Inside
    <2>2. RunningJobs' = RunningJobs
      BY <1>0 DEF JobTypes,  RunningJobs, HoldersAreInside, Inside
    <2>3. AdmittedJobs' = AdmittedJobs
      BY <1>0 DEF JobTypes,  AdmittedJobs
    <2>4. Cardinality(QueuedJobs') = Cardinality(QueuedJobs) - 1 /\ Cardinality(RunningJobs') = Cardinality(RunningJobs)
      BY <2>1, <2>2, JobJoins, JobQuits DEF QueuedJobs, RunningJobs
    <2>5. QED
      BY <2>3, <2>4 DEF Counted
  <1>5. ActiveArePosted'
    BY <1>0 DEF ActiveArePosted, JobTypes, Unposted
  <1>6. GenerationsGrow'
    BY <1>0 DEF GenerationsGrow, JobTypes, Unposted, Current
  <1>7. OutcomesHaveReasons'
    BY <1>0 DEF OutcomesHaveReasons, GenerationsGrow, JobTypes, Ended, Outcomes, Current
  <1>8. ASSUME ConfiguresAlone PROVE OneSemaphore'
    BY <1>8, SlotsUntouched
  <1>9. QED
    BY <1>0, <1>1, <1>2, <1>3, <1>4, <1>5, <1>6, <1>7, <1>8

LEMMA StartInv ==
  ASSUME IInv, NEW j \in Jobs, Start(j)
  PROVE  IInv'
  <1> USE DEF IInv, Types, Start, At, Goto
  <1>0. JobTypes /\ JobTypes'
    BY DEF JobTypes, ConfigurerOK, Places, States, Slots
  <1>1. ConfigurerOK'
    BY DEF ConfigurerOK, Slots
  <1>2. HoldersAreInside'
    BY <1>0 DEF HoldersAreInside, JobTypes, Inside
  <1>3. SemaphoreTypes' /\ WaitersWait'
    <2>1. ref' \in [Jobs -> 0..Slots]
      BY DEF SemaphoreTypes
    <2>2. QED
      BY <1>0, <2>1, SemaphoresUntouched DEF JobTypes
  <1>4. Counted'
    <2>1. QueuedJobs' = QueuedJobs
      BY <1>0 DEF JobTypes,  QueuedJobs, Waiting, HoldersAreInside, Inside
    <2>2. RunningJobs' = RunningJobs \cup {j} /\ j \notin RunningJobs
      BY <1>0 DEF JobTypes,  RunningJobs, HoldersAreInside, Inside
    <2>3. AdmittedJobs' = AdmittedJobs
      BY <1>0 DEF JobTypes,  AdmittedJobs
    <2>4. Cardinality(QueuedJobs') = Cardinality(QueuedJobs) /\ Cardinality(RunningJobs') = Cardinality(RunningJobs) + 1
      BY <2>1, <2>2, JobJoins, JobQuits DEF QueuedJobs, RunningJobs
    <2>5. QED
      BY <2>3, <2>4 DEF Counted
  <1>5. ActiveArePosted'
    BY <1>0 DEF ActiveArePosted, JobTypes, Unposted
  <1>6. GenerationsGrow'
    BY <1>0 DEF GenerationsGrow, JobTypes, Unposted, Current
  <1>7. OutcomesHaveReasons'
    BY <1>0 DEF OutcomesHaveReasons, GenerationsGrow, JobTypes, Ended, Outcomes, Current
  <1>8. ASSUME ConfiguresAlone PROVE OneSemaphore'
    BY <1>8, SlotsUntouched
  <1>9. QED
    BY <1>0, <1>1, <1>2, <1>3, <1>4, <1>5, <1>6, <1>7, <1>8

LEMMA OperateInv ==
  ASSUME IInv, NEW j \in Jobs, Operate(j)
  PROVE  IInv'
  <1> USE DEF IInv, Types, Operate, At, Goto
  <1>0. JobTypes /\ JobTypes'
    BY SettleTypes DEF JobTypes, ConfigurerOK, Outcomes, Places, Slots
  <1>1. ConfigurerOK'
    BY DEF ConfigurerOK, Slots
  <1>2. HoldersAreInside'
    BY <1>0 DEF HoldersAreInside, JobTypes, Inside, Settle
  <1>3. SemaphoreTypes' /\ WaitersWait'
    <2>1. ref' \in [Jobs -> 0..Slots]
      BY DEF SemaphoreTypes
    <2>2. QED
      BY <1>0, <2>1, SemaphoresUntouched DEF JobTypes, Settle
  <1>4. Counted'
    <2>1. QueuedJobs' = QueuedJobs /\ RunningJobs' = RunningJobs
      BY <1>0 DEF JobTypes, Settle,  QueuedJobs, RunningJobs, Waiting, HoldersAreInside, Inside
    <2>2. AdmittedJobs' = AdmittedJobs
      BY <1>0 DEF JobTypes, Settle,  AdmittedJobs
    <2>3. QED
      BY <2>1, <2>2, SameCounts
  <1>5. ActiveArePosted'
    BY <1>0 DEF ActiveArePosted, JobTypes, Unposted, Settle
  <1>6. GenerationsGrow'
    BY <1>0 DEF GenerationsGrow, JobTypes, Unposted, Current, Settle
  <1>7. OutcomesHaveReasons'
    BY <1>0 DEF OutcomesHaveReasons, GenerationsGrow, JobTypes, Ended, Outcomes, Current, Settle
  <1>8. ASSUME ConfiguresAlone PROVE OneSemaphore'
    BY <1>8, SlotsUntouched DEF Settle
  <1>9. QED
    BY <1>0, <1>1, <1>2, <1>3, <1>4, <1>5, <1>6, <1>7, <1>8

LEMMA CheckInv ==
  ASSUME IInv, NEW j \in Jobs, Check(j)
  PROVE  IInv'
  <1> USE DEF IInv, Types, Check, At, Goto
  <1>0. JobTypes /\ JobTypes'
    BY SettleTypes, SettleTwiceTypes DEF JobTypes, ConfigurerOK, Outcomes, Places, Slots
  <1>1. ConfigurerOK'
    BY DEF ConfigurerOK, Slots
  <1>2. HoldersAreInside'
    BY <1>0 DEF HoldersAreInside, JobTypes, Inside, Settle, SettleTwice
  <1>3. SemaphoreTypes' /\ WaitersWait'
    <2>1. ref' \in [Jobs -> 0..Slots]
      BY DEF SemaphoreTypes
    <2>2. QED
      BY <1>0, <2>1, SemaphoresUntouched DEF JobTypes, Settle, SettleTwice
  <1>4. Counted'
    <2>1. QueuedJobs' = QueuedJobs /\ RunningJobs' = RunningJobs
      BY <1>0 DEF JobTypes, Settle, SettleTwice,  QueuedJobs, RunningJobs, Waiting, HoldersAreInside, Inside
    <2>2. AdmittedJobs' = AdmittedJobs
      BY <1>0 DEF JobTypes, Settle, SettleTwice,  AdmittedJobs
    <2>3. QED
      BY <2>1, <2>2, SameCounts
  <1>5. ActiveArePosted'
    BY <1>0 DEF ActiveArePosted, JobTypes, Unposted, Settle, SettleTwice
  <1>6. GenerationsGrow'
    BY <1>0 DEF GenerationsGrow, JobTypes, Unposted, Current, Settle, SettleTwice
  <1>7. OutcomesHaveReasons'
    BY <1>0 DEF OutcomesHaveReasons, GenerationsGrow, JobTypes, Ended, Outcomes, Current, Settle, SettleTwice
  <1>8. ASSUME ConfiguresAlone PROVE OneSemaphore'
    BY <1>8, SlotsUntouched DEF Settle, SettleTwice
  <1>9. QED
    BY <1>0, <1>1, <1>2, <1>3, <1>4, <1>5, <1>6, <1>7, <1>8

LEMMA PublishInv ==
  ASSUME IInv, NEW j \in Jobs, Publish(j)
  PROVE  IInv'
  <1> USE DEF IInv, Types, Publish, At, Goto
  <1>0. JobTypes /\ JobTypes'
    BY SettleTypes DEF JobTypes, ConfigurerOK, Outcomes, Places, Slots
  <1>1. ConfigurerOK'
    BY DEF ConfigurerOK, Slots
  <1>2. HoldersAreInside'
    BY <1>0 DEF HoldersAreInside, JobTypes, Inside, Settle
  <1>3. SemaphoreTypes' /\ WaitersWait'
    <2>1. ref' \in [Jobs -> 0..Slots]
      BY DEF SemaphoreTypes
    <2>2. QED
      BY <1>0, <2>1, SemaphoresUntouched DEF JobTypes, Settle
  <1>4. Counted'
    <2>1. QueuedJobs' = QueuedJobs /\ RunningJobs' = RunningJobs
      BY <1>0 DEF JobTypes, Settle,  QueuedJobs, RunningJobs, Waiting, HoldersAreInside, Inside
    <2>2. AdmittedJobs' = AdmittedJobs
      BY <1>0 DEF JobTypes, Settle,  AdmittedJobs
    <2>3. QED
      BY <2>1, <2>2, SameCounts
  <1>5. ActiveArePosted'
    BY <1>0 DEF ActiveArePosted, JobTypes, Unposted, Settle
  <1>6. GenerationsGrow'
    BY <1>0 DEF GenerationsGrow, JobTypes, Unposted, Current, Settle
  <1>7. OutcomesHaveReasons'
    BY <1>0 DEF OutcomesHaveReasons, GenerationsGrow, JobTypes, Ended, Outcomes, Current, Settle
  <1>8. ASSUME ConfiguresAlone PROVE OneSemaphore'
    BY <1>8, SlotsUntouched DEF Settle
  <1>9. QED
    BY <1>0, <1>1, <1>2, <1>3, <1>4, <1>5, <1>6, <1>7, <1>8

LEMMA RemoveInv ==
  ASSUME IInv, NEW j \in Jobs, Remove(j)
  PROVE  IInv'
  <1> USE DEF IInv, Types, Remove, At, Goto
  <1>0. JobTypes /\ JobTypes'
    BY DEF JobTypes, ConfigurerOK, Places, States, Slots
  <1>1. ConfigurerOK'
    BY DEF ConfigurerOK, Slots
  <1>2. HoldersAreInside'
    BY <1>0 DEF HoldersAreInside, JobTypes, Inside
  <1>3. SemaphoreTypes' /\ WaitersWait'
    <2>1. ref' \in [Jobs -> 0..Slots]
      BY DEF SemaphoreTypes
    <2>2. QED
      BY <1>0, <2>1, SemaphoresUntouched DEF JobTypes
  <1>4. Counted'
    <2>1. QueuedJobs' = QueuedJobs /\ RunningJobs' = RunningJobs
      BY <1>0 DEF JobTypes,  QueuedJobs, RunningJobs, Waiting, HoldersAreInside, Inside
    <2>2. AdmittedJobs' = AdmittedJobs
      BY <1>0 DEF JobTypes,  AdmittedJobs
    <2>3. QED
      BY <2>1, <2>2, SameCounts
  <1>5. ActiveArePosted'
    BY <1>0 DEF ActiveArePosted, JobTypes, Unposted
  <1>6. GenerationsGrow'
    BY <1>0 DEF GenerationsGrow, JobTypes, Unposted, Current
  <1>7. OutcomesHaveReasons'
    BY <1>0 DEF OutcomesHaveReasons, GenerationsGrow, JobTypes, Ended, Outcomes, Current
  <1>8. ASSUME ConfiguresAlone PROVE OneSemaphore'
    BY <1>8, SlotsUntouched
  <1>9. QED
    BY <1>0, <1>1, <1>2, <1>3, <1>4, <1>5, <1>6, <1>7, <1>8

LEMMA EnqueueInv ==
  ASSUME IInv, NEW j \in Jobs, Enqueue(j)
  PROVE  IInv'
  <1> USE DEF IInv, Types, Enqueue, At, Goto
  <1>0. JobTypes /\ JobTypes'
    BY DEF JobTypes, Places
  <1>1. ConfigurerOK'
    BY DEF ConfigurerOK, Slots
  <1>2. HoldersAreInside'
    BY <1>0 DEF HoldersAreInside, JobTypes, Inside
  <1>3. SemaphoreTypes' /\ WaitersWait'
    <2>1. ref' \in [Jobs -> 0..Slots]
      BY DEF SemaphoreTypes
    <2>2. QED
      BY <1>0, <2>1, SemaphoresUntouched DEF JobTypes
  <1>4. Counted'
    <2>1. QueuedJobs' = QueuedJobs \cup {j} /\ j \notin QueuedJobs
      BY <1>0 DEF JobTypes, QueuedJobs, Waiting
    <2>2. RunningJobs' = RunningJobs
      BY <1>0 DEF JobTypes, RunningJobs
    <2>3. Cardinality(QueuedJobs') = Cardinality(QueuedJobs) + 1
      BY <2>1, JobJoins DEF QueuedJobs
    \* An admitted job was counted when the counter was within the capacity.
    <2>4. Cardinality(AdmittedJobs') <= MaxQueued
      <3>1. CASE queued' > MaxQueued
        <4>1. AdmittedJobs' = AdmittedJobs
          BY <1>0, <3>1 DEF JobTypes, AdmittedJobs
        <4>2. QED
          BY <4>1 DEF Counted
      <3>2. CASE queued' <= MaxQueued
        <4>1. AdmittedJobs' \subseteq QueuedJobs' /\ QueuedJobs' \subseteq Jobs
          BY <1>0 DEF JobTypes, AdmittedJobs, QueuedJobs, Waiting
        <4>2. IsFiniteSet(QueuedJobs') /\ Cardinality(QueuedJobs') \in Nat
          BY <4>1, FiniteJobs
        <4>3. Cardinality(AdmittedJobs') <= Cardinality(QueuedJobs') /\ Cardinality(AdmittedJobs') \in Nat
          BY <4>1, <4>2, FS_Subset, FS_CardinalityType
        <4>4. Cardinality(QueuedJobs') <= MaxQueued
          BY <2>3, <3>2 DEF Counted
        <4>5. QED
          BY <4>2, <4>3, <4>4, BoundAssumption
      <3>3. QED
        BY <3>1, <3>2, CountsAreNatural, BoundAssumption
    <2>5. QED
      BY <2>2, <2>3, <2>4 DEF Counted
  <1>5. ActiveArePosted'
    BY <1>0 DEF ActiveArePosted, JobTypes, Unposted
  <1>6. GenerationsGrow'
    BY <1>0 DEF GenerationsGrow, JobTypes, Unposted, Current
  <1>7. OutcomesHaveReasons'
    BY <1>0 DEF OutcomesHaveReasons, JobTypes, Ended, Outcomes, Current
  <1>8. ASSUME ConfiguresAlone PROVE OneSemaphore'
    <2>1. PICK place \in {"refusing", "admitted"} : pc' = [pc EXCEPT ![j] = place]
      OBVIOUS
    <2>2. QED
      BY <1>8, <2>1, SlotsUntouched
  <1>9. QED
    BY <1>0, <1>1, <1>2, <1>3, <1>4, <1>5, <1>6, <1>7, <1>8

LEMMA CancelInv ==
  ASSUME IInv, NEW j \in Jobs, Cancel(j)
  PROVE  IInv'
  <1> USE DEF IInv, Types, Cancel, shared
  <1>0. JobTypes /\ JobTypes'
    BY DEF JobTypes
  <1>1. ConfigurerOK'
    BY DEF ConfigurerOK, Slots
  <1>2. SemaphoreTypes' /\ WaitersWait'
    <2>1. ref' \in [Jobs -> 0..Slots]
      BY DEF SemaphoreTypes
    <2>2. QED
      BY <2>1, SemaphoresUntouched
  <1>3. HoldersAreInside' /\ ActiveArePosted' /\ GenerationsGrow'
    BY DEF HoldersAreInside, ActiveArePosted, GenerationsGrow, Current
  <1>4. Counted'
    BY DEF Counted, QueuedJobs, RunningJobs, AdmittedJobs, Waiting, At
  <1>5. OutcomesHaveReasons'
    BY <1>0 DEF OutcomesHaveReasons, JobTypes, Current
  <1>6. ConfiguresAlone => OneSemaphore'
    BY DEF OneSemaphore, Quiet, Slots, Holders
  <1>7. QED
    BY <1>0, <1>1, <1>2, <1>3, <1>4, <1>5, <1>6

LEMMA LeaveInv ==
  ASSUME IInv, NEW j \in Jobs, Leave(j)
  PROVE  IInv'
  <1> USE DEF IInv, Types, Leave, At, Goto
  <1>0. JobTypes /\ JobTypes'
    BY DEF JobTypes, Places
  <1>1. ConfigurerOK'
    BY DEF ConfigurerOK, Slots
  <1>2. HoldersAreInside'
    BY <1>0 DEF HoldersAreInside, JobTypes, Inside
  <1>3. SemaphoreTypes' /\ WaitersWait'
    <2>1. ref' \in [Jobs -> 0..Slots]
      BY DEF SemaphoreTypes
    <2>2. QED
      BY <1>0, <2>1, SemaphoresUntouched DEF JobTypes
  <1>4. Counted'
    <2>1. AdmittedJobs' = AdmittedJobs
      BY <1>0 DEF JobTypes, AdmittedJobs
    <2>2. CASE held[j]
      <3>1. QueuedJobs' = QueuedJobs
        BY <1>0, <2>2 DEF JobTypes, QueuedJobs, Waiting
      <3>2. RunningJobs' = RunningJobs \ {j} /\ j \in RunningJobs
        BY <1>0, <2>2 DEF JobTypes, RunningJobs
      <3>3. Cardinality(RunningJobs') = Cardinality(RunningJobs) - 1
        BY <3>2, JobQuits DEF RunningJobs
      <3>4. QED
        BY <2>1, <2>2, <3>1, <3>3 DEF Counted
    <2>3. CASE ~held[j]
      <3>1. RunningJobs' = RunningJobs
        BY <1>0, <2>3 DEF JobTypes, RunningJobs
      <3>2. QueuedJobs' = QueuedJobs \ {j} /\ j \in QueuedJobs
        BY <1>0, <2>3 DEF JobTypes, QueuedJobs, Waiting
      <3>3. Cardinality(QueuedJobs') = Cardinality(QueuedJobs) - 1
        BY <3>2, JobQuits DEF QueuedJobs
      <3>4. QED
        BY <2>1, <2>3, <3>1, <3>3 DEF Counted
    <2>4. QED
      BY <2>2, <2>3
  <1>5. ActiveArePosted'
    BY <1>0 DEF ActiveArePosted, JobTypes, Unposted
  <1>6. GenerationsGrow'
    BY <1>0 DEF GenerationsGrow, JobTypes, Unposted, Current
  <1>7. OutcomesHaveReasons'
    BY <1>0 DEF OutcomesHaveReasons, JobTypes, Ended, Outcomes, Current
  <1>8. ASSUME ConfiguresAlone PROVE OneSemaphore'
    <2>1. PICK place \in {"releasing", "removing"} : pc' = [pc EXCEPT ![j] = place]
      OBVIOUS
    <2>2. QED
      BY <1>8, <2>1, SlotsUntouched
  <1>9. QED
    BY <1>0, <1>1, <1>2, <1>3, <1>4, <1>5, <1>6, <1>7, <1>8

-----------------------------------------------------------------------------
(* The steps that change a semaphore, or its queue.                        *)

LEMMA OneSemaphoreChanges ==
  ASSUME Types, WaitersWait, NEW i \in 1..Slots, NEW s \in Semaphores,
         semaphores' = [semaphores EXCEPT ![i] = s], ref' = ref,
         s.free <= s.limit,
         \A k \in 1..Len(s.waiters) : pc'[s.waiters[k]] = "waiting" /\ ref[s.waiters[k]] = i,
         \A k, l \in 1..Len(s.waiters) : s.waiters[k] = s.waiters[l] => k = l,
         \A k \in Jobs : pc[k] = "waiting" /\ ref[k] # i => pc'[k] = "waiting"
  PROVE  /\ SemaphoreTypes' /\ WaitersWait' /\ Slots' = Slots
         /\ semaphores'[i] = s /\ \A k \in 1..Slots : k # i => semaphores'[k] = semaphores[k]
  <1> USE DEF Types
  <1>1. semaphores' \in Seq(Semaphores) /\ Slots' = Slots
    BY ExceptSeq DEF SemaphoreTypes, Slots
  <1>2. semaphores'[i] = s /\ \A k \in 1..Slots : k # i => semaphores'[k] = semaphores[k]
    BY DEF SemaphoreTypes, Slots
  <1>3. SemaphoreTypes'
    BY <1>1, <1>2 DEF SemaphoreTypes
  <1>4. ASSUME NEW k \in 1..Slots, k # i, NEW m \in 1..Len(semaphores[k].waiters)
        PROVE  pc'[semaphores[k].waiters[m]] = "waiting" /\ ref[semaphores[k].waiters[m]] = k
    BY <1>4, WaitersAreJobs DEF WaitersWait
  <1>5. WaitersWait'
    <2>1. ASSUME NEW k \in 1..Slots, k # i
          PROVE  /\ semaphores'[k] = semaphores[k] /\ ref' = ref
                 /\ \A m \in 1..Len(semaphores[k].waiters) :
                      pc'[semaphores[k].waiters[m]] = "waiting"
                        /\ ref[semaphores[k].waiters[m]] = k
                 /\ \A m, n \in 1..Len(semaphores[k].waiters) :
                      semaphores[k].waiters[m] = semaphores[k].waiters[n] => m = n
      BY <1>2, <1>4, <2>1 DEF WaitersWait
    <2>2. SUFFICES ASSUME NEW k \in 1..Slots
                   PROVE  /\ \A m \in 1..Len(semaphores'[k].waiters) :
                               pc'[semaphores'[k].waiters[m]] = "waiting"
                                 /\ ref'[semaphores'[k].waiters[m]] = k
                          /\ \A m, n \in 1..Len(semaphores'[k].waiters) :
                               semaphores'[k].waiters[m] = semaphores'[k].waiters[n] => m = n
      BY ONLY <1>1, <2>2 DEF WaitersWait
    <2>3. CASE k = i
      BY ONLY <1>2, <2>3, ref' = ref,
         \A m \in 1..Len(s.waiters) : pc'[s.waiters[m]] = "waiting" /\ ref[s.waiters[m]] = i,
         \A m, n \in 1..Len(s.waiters) : s.waiters[m] = s.waiters[n] => m = n
    <2>4. CASE k # i
      BY ONLY <2>1, <2>4, k \in 1..Slots, SMTT(40)
    <2>5. QED
      BY ONLY <2>3, <2>4
  <1>6. QED
    BY <1>1, <1>2, <1>3, <1>5

\* The job asks, and gets an answer other than a slot.
LEMMA GivesUp ==
  ASSUME IInv, NEW j \in Jobs, pc[j] \in {"asking", "waiting"},
         NEW outcome \in {"failed", "cancelled"}, outcome = "cancelled" => requested[j],
         Settle(j, outcome),
         UNCHANGED <<scope, generation, requested, ref, held, superseded, queued, running,
                     generations, active, configurer>>
  PROVE  /\ JobTypes' /\ HoldersAreInside' /\ Counted' /\ ActiveArePosted' /\ GenerationsGrow'
         /\ OutcomesHaveReasons'
         /\ Holders' = Holders
         /\ pc' = [pc EXCEPT ![j] = "leaving"]
  <1> USE DEF IInv, Types
  <1>0. JobTypes /\ JobTypes' /\ pc' = [pc EXCEPT ![j] = "leaving"]
    BY SettleTypes DEF JobTypes, Outcomes
  <1>1. HoldersAreInside'
    BY <1>0 DEF HoldersAreInside, JobTypes, Inside
  <1>2. Counted'
    <2>1. QueuedJobs' = QueuedJobs /\ RunningJobs' = RunningJobs
      BY <1>0 DEF JobTypes, QueuedJobs, RunningJobs, Waiting, At, HoldersAreInside, Inside
    <2>2. AdmittedJobs' \subseteq AdmittedJobs
      BY <1>0 DEF JobTypes, AdmittedJobs
    <2>3. QED
      BY <2>1, <2>2, SameCounts
  <1>3. ActiveArePosted' /\ GenerationsGrow'
    BY <1>0 DEF ActiveArePosted, GenerationsGrow, JobTypes, Unposted, Current
  <1>4. OutcomesHaveReasons'
    BY <1>0 DEF OutcomesHaveReasons, GenerationsGrow, JobTypes, Ended, Outcomes, Current, Settle
  <1>5. QED
    BY <1>0, <1>1, <1>2, <1>3, <1>4 DEF Holders

\* A job that asks or waits has read a semaphore.
LEMMA AskedOne ==
  ASSUME IInv, NEW j \in Jobs, pc[j] \in {"asking", "waiting"}
  PROVE  ref[j] \in 1..Slots /\ semaphores[ref[j]] \in Semaphores
  <1>1. ref[j] \in 1..Slots
    BY DEF IInv, Types, SemaphoreTypes, HoldersAreInside
  <1>2. QED
    BY <1>1, WaitersAreJobs DEF IInv, Types

LEMMA AskInv ==
  ASSUME IInv, NEW j \in Jobs, Ask(j)
  PROVE  IInv'
  <1> USE DEF IInv, Types
  <1>1. pc[j] = "asking" /\ JobTypes
    BY DEF Ask, At
  <1>2. ref[j] \in 1..Slots /\ semaphores[ref[j]] \in Semaphores
    BY <1>1, AskedOne
  <1>3. PICK i \in 1..Slots : i = ref[j]
    BY <1>2
  <1>4. /\ semaphores[i] \in Semaphores /\ semaphores[i].free <= semaphores[i].limit
        /\ \A k \in 1..Len(semaphores[i].waiters) :
             semaphores[i].waiters[k] \in Jobs \ {j} /\ ref[semaphores[i].waiters[k]] = i
             /\ pc[semaphores[i].waiters[k]] = "waiting"
    BY <1>1, WaitersAreJobs DEF WaitersWait, SemaphoreTypes
  <1>5. CASE semaphores[i].disposed \/ requested[j]
    <2>1. PICK outcome \in {"failed", "cancelled"} :
            /\ Settle(j, outcome) /\ UNCHANGED <<held, semaphores>>
            /\ outcome = "cancelled" => requested[j]
      BY <1>3, <1>5 DEF Ask
    <2>2. UNCHANGED <<scope, generation, requested, ref, superseded, queued, running,
                      generations, active, configurer>>
      BY DEF Ask
    <2>3. /\ JobTypes' /\ HoldersAreInside' /\ Counted' /\ ActiveArePosted' /\ GenerationsGrow'
          /\ OutcomesHaveReasons' /\ pc' = [pc EXCEPT ![j] = "leaving"]
      BY <1>1, <2>1, <2>2, GivesUp
    <2>4. ref' \in [Jobs -> 0..Slots]
      BY <2>2 DEF SemaphoreTypes
    <2>5. SemaphoreTypes' /\ WaitersWait'
      BY <1>1, <2>1, <2>2, <2>3, <2>4, SemaphoresUntouched DEF JobTypes
    <2>6. ConfiguresAlone => OneSemaphore'
      BY <1>1, <2>1, <2>2, <2>3, SlotsUntouched
    <2>7. ConfigurerOK'
      BY <2>1, <2>2 DEF ConfigurerOK, Slots
    <2>8. QED
      BY <2>3, <2>5, <2>6, <2>7
  <1>6. CASE ~semaphores[i].disposed /\ ~requested[j] /\ semaphores[i].free > 0
    <2>1. /\ semaphores' = [semaphores EXCEPT ![i] = [semaphores[i] EXCEPT !.free = @ - 1]]
          /\ held' = [held EXCEPT ![j] = TRUE]
          /\ pc' = [pc EXCEPT ![j] = "entered"]
          /\ UNCHANGED <<state, counts, scope, generation, requested, ref, superseded, queued,
                         running, generations, active, configurer>>
      <3>1. semaphores' = [semaphores EXCEPT ![i].free = @ - 1]
        BY <1>3, <1>6 DEF Ask
      <3>2. QED
        BY <3>1, <1>3, <1>6 DEF Ask, Goto
    <2>2. JobTypes'
      BY <1>1, <2>1 DEF JobTypes, Places
    <2>3. HoldersAreInside'
      BY <1>1, <2>1 DEF HoldersAreInside, JobTypes, Inside
    <2> DEFINE s == [semaphores[i] EXCEPT !.free = @ - 1]
    <2>4. /\ s \in Semaphores /\ s.free <= s.limit /\ s.waiters = semaphores[i].waiters
          /\ s.free = semaphores[i].free - 1 /\ s.limit = semaphores[i].limit
      BY <1>4, <1>6 DEF Semaphores
    <2> HIDE DEF s
    <2>5. semaphores' = [semaphores EXCEPT ![i] = s]
      BY <2>1 DEF s
    <2>6. \A k \in Jobs : pc[k] = "waiting" => pc'[k] = "waiting"
      BY <1>1, <2>1 DEF JobTypes
    <2>7. /\ \A k \in 1..Len(s.waiters) : pc'[s.waiters[k]] = "waiting" /\ ref[s.waiters[k]] = i
          /\ \A k, l \in 1..Len(s.waiters) : s.waiters[k] = s.waiters[l] => k = l
      BY <1>4, <2>4, <2>6 DEF WaitersWait
    <2>8. /\ SemaphoreTypes' /\ WaitersWait' /\ Slots' = Slots
          /\ semaphores'[i] = s /\ \A k \in 1..Slots : k # i => semaphores'[k] = semaphores[k]
      <3>1. ref' = ref /\ Types /\ WaitersWait
        BY <2>1
      <3>2. s \in Semaphores /\ s.free <= s.limit
        BY <2>4
      <3>3. QED
        BY ONLY <2>5, <2>6, <2>7, <3>1, <3>2, OneSemaphoreChanges
    <2>9. Counted'
      <3>1. QueuedJobs' = QueuedJobs /\ RunningJobs' = RunningJobs
        BY <1>1, <2>1 DEF JobTypes, QueuedJobs, RunningJobs, Waiting, At
      <3>2. AdmittedJobs' \subseteq AdmittedJobs
        BY <1>1, <2>1 DEF JobTypes, AdmittedJobs
      <3>3. QED
        BY <2>1, <3>1, <3>2, SameCounts
    <2>10. ActiveArePosted' /\ GenerationsGrow'
      BY <1>1, <2>1 DEF ActiveArePosted, GenerationsGrow, JobTypes, Unposted, Current
    <2>11. OutcomesHaveReasons'
      BY <1>1, <2>1 DEF OutcomesHaveReasons, JobTypes, Ended, Outcomes, Current
    <2>12. ASSUME ConfiguresAlone PROVE OneSemaphore'
      <3>1. i = Slots /\ configurer = "idle"
        BY <1>1, <1>3, <2>12 DEF OneSemaphore, Quiet
      <3>2. Holders' = Holders \cup {j} /\ j \notin Holders
        BY <1>1, <2>1 DEF Holders, HoldersAreInside, Inside, JobTypes
      <3>3. Cardinality(Holders') = Cardinality(Holders) + 1 /\ Cardinality(Holders) \in Nat
        BY <3>2, JobJoins, FiniteJobs DEF Holders
      <3>4. semaphores'[Slots].free + Cardinality(Holders') = semaphores'[Slots].limit
        BY <1>4, <2>4, <2>8, <2>12, <3>1, <3>3 DEF OneSemaphore, Semaphores
      <3>5. \A k \in Jobs : pc'[k] # "faulted" /\ (pc'[k] \in {"asking", "waiting"} => ref[k] = Slots)
        BY <1>1, <2>1, <2>12 DEF OneSemaphore, JobTypes
      <3>6. QED
        BY <2>1, <2>8, <3>1, <3>4, <3>5 DEF OneSemaphore
    <2>13. ConfigurerOK'
      BY <2>1, <2>8 DEF ConfigurerOK
    <2>14. QED
      BY <2>2, <2>3, <2>8, <2>9, <2>10, <2>11, <2>12, <2>13
  <1>7. CASE ~semaphores[i].disposed /\ ~requested[j] /\ ~(semaphores[i].free > 0)
    <2>1. /\ semaphores' = [semaphores EXCEPT ![i] = [semaphores[i] EXCEPT !.waiters = Append(@, j)]]
          /\ pc' = [pc EXCEPT ![j] = "waiting"]
          /\ UNCHANGED <<held, state, counts, scope, generation, requested, ref, superseded, queued,
                         running, generations, active, configurer>>
      <3>1. semaphores' = [semaphores EXCEPT ![i].waiters = Append(@, j)]
        BY <1>3, <1>7 DEF Ask
      <3>2. QED
        BY <3>1, <1>3, <1>7 DEF Ask, Goto
    <2>2. JobTypes'
      BY <1>1, <2>1 DEF JobTypes, Places
    <2>3. HoldersAreInside'
      BY <1>1, <2>1 DEF HoldersAreInside, JobTypes, Inside
    <2> DEFINE s == [semaphores[i] EXCEPT !.waiters = Append(@, j)]
    <2>4. /\ s \in Semaphores /\ s.waiters = Append(semaphores[i].waiters, j)
          /\ s.free = semaphores[i].free /\ s.limit = semaphores[i].limit /\ s.free <= s.limit
      BY <1>4, AppendProperties DEF Semaphores
    <2> HIDE DEF s
    <2>5. semaphores' = [semaphores EXCEPT ![i] = s]
      BY <2>1 DEF s
    <2>6. \A k \in Jobs : pc[k] = "waiting" => pc'[k] = "waiting"
      BY <1>1, <2>1 DEF JobTypes
    <2>7. /\ Len(s.waiters) = Len(semaphores[i].waiters) + 1 /\ Len(semaphores[i].waiters) \in Nat
          /\ s.waiters[Len(s.waiters)] = j
          /\ \A k \in 1..Len(semaphores[i].waiters) : s.waiters[k] = semaphores[i].waiters[k]
      BY <1>4, <2>4 DEF Semaphores
    <2>8. /\ \A k \in 1..Len(s.waiters) : pc'[s.waiters[k]] = "waiting" /\ ref[s.waiters[k]] = i
          /\ \A k, l \in 1..Len(s.waiters) : s.waiters[k] = s.waiters[l] => k = l
      <3>1. pc'[j] = "waiting" /\ ref[j] = i
        BY <1>1, <1>3, <2>1 DEF JobTypes
      <3>2. ASSUME NEW k \in 1..Len(s.waiters), k # Len(s.waiters)
            PROVE  k \in 1..Len(semaphores[i].waiters)
        BY <2>7, <3>2
      <3>3. \A k, l \in 1..Len(semaphores[i].waiters) :
              semaphores[i].waiters[k] = semaphores[i].waiters[l] => k = l
        BY DEF WaitersWait
      <3>4. \A k \in 1..Len(s.waiters) : k # Len(s.waiters) =>
              s.waiters[k] # j /\ pc'[s.waiters[k]] = "waiting" /\ ref[s.waiters[k]] = i
        BY <1>4, <2>6, <2>7, <3>2
      <3>5. \A k \in 1..Len(s.waiters) : pc'[s.waiters[k]] = "waiting" /\ ref[s.waiters[k]] = i
        BY <2>7, <3>1, <3>4
      <3>6. \A k, l \in 1..Len(s.waiters) : s.waiters[k] = s.waiters[l] => k = l
        BY <2>7, <3>2, <3>3, <3>4
      <3>7. QED
        BY <3>5, <3>6
    <2>9. /\ SemaphoreTypes' /\ WaitersWait' /\ Slots' = Slots
          /\ semaphores'[i] = s /\ \A k \in 1..Slots : k # i => semaphores'[k] = semaphores[k]
      <3>1. ref' = ref /\ Types /\ WaitersWait
        BY <2>1
      <3>2. s \in Semaphores /\ s.free <= s.limit
        BY <2>4
      <3>3. QED
        BY ONLY <2>5, <2>6, <2>8, <3>1, <3>2, OneSemaphoreChanges
    <2>10. Counted'
      <3>1. QueuedJobs' = QueuedJobs /\ RunningJobs' = RunningJobs
        BY <1>1, <2>1 DEF JobTypes, QueuedJobs, RunningJobs, Waiting, At
      <3>2. AdmittedJobs' \subseteq AdmittedJobs
        BY <1>1, <2>1 DEF JobTypes, AdmittedJobs
      <3>3. QED
        BY <2>1, <3>1, <3>2, SameCounts
    <2>11. ActiveArePosted' /\ GenerationsGrow'
      BY <1>1, <2>1 DEF ActiveArePosted, GenerationsGrow, JobTypes, Unposted, Current
    <2>12. OutcomesHaveReasons'
      BY <1>1, <2>1 DEF OutcomesHaveReasons, JobTypes, Ended, Outcomes, Current
    <2>13. ASSUME ConfiguresAlone PROVE OneSemaphore'
      <3>1. i = Slots /\ configurer = "idle"
        BY <1>1, <1>3, <2>13 DEF OneSemaphore, Quiet
      <3>2. semaphores'[Slots].free + Cardinality(Holders') = semaphores'[Slots].limit
        BY <2>1, <2>4, <2>9, <2>13, <3>1 DEF OneSemaphore, Holders
      <3>3. \A k \in Jobs : pc'[k] # "faulted" /\ (pc'[k] \in {"asking", "waiting"} => ref[k] = Slots)
        BY <1>1, <2>1, <2>13 DEF OneSemaphore, JobTypes
      <3>4. QED
        BY <2>1, <2>9, <3>1, <3>2, <3>3 DEF OneSemaphore
    <2>14. ConfigurerOK'
      BY <2>1, <2>9 DEF ConfigurerOK
    <2>15. QED
      BY <2>2, <2>3, <2>9, <2>10, <2>11, <2>12, <2>13, <2>14
  <1>8. QED
    BY <1>5, <1>6, <1>7

LEMMA StopWaitingInv ==
  ASSUME IInv, NEW j \in Jobs, StopWaiting(j)
  PROVE  IInv'
  <1> USE DEF IInv, Types
  <1>1. /\ pc[j] = "waiting" /\ requested[j] /\ Settle(j, "cancelled")
        /\ UNCHANGED <<scope, generation, requested, ref, held, superseded, queued, running,
                       generations, active, configurer>>
    BY DEF StopWaiting, At
  <1>2. PICK i \in 1..Slots : i = ref[j]
    BY <1>1, AskedOne
  <1>3. PICK m \in 1..Len(semaphores[i].waiters) :
          /\ semaphores[i].waiters[m] = j
          /\ semaphores' = [semaphores EXCEPT ![i].waiters = Without(@, m)]
    BY <1>2 DEF StopWaiting
  <1>4. /\ JobTypes' /\ HoldersAreInside' /\ Counted' /\ ActiveArePosted' /\ GenerationsGrow'
        /\ OutcomesHaveReasons' /\ Holders' = Holders /\ pc' = [pc EXCEPT ![j] = "leaving"]
    BY <1>1, GivesUp
  <1> DEFINE queue == semaphores[i].waiters
             s == [semaphores[i] EXCEPT !.waiters = Without(queue, m)]
  <1>5. /\ semaphores[i] \in Semaphores /\ semaphores[i].free <= semaphores[i].limit
        /\ queue \in Seq(Jobs) /\ Len(queue) \in Nat
        /\ \A k \in 1..Len(queue) : queue[k] \in Jobs /\ pc[queue[k]] = "waiting" /\ ref[queue[k]] = i
        /\ \A k, l \in 1..Len(queue) : queue[k] = queue[l] => k = l
    BY WaitersAreJobs DEF WaitersWait, SemaphoreTypes
  <1>6. /\ Len(Without(queue, m)) = Len(queue) - 1
        /\ Without(queue, m) \in Seq(Jobs)
        /\ \A k \in 1..(Len(queue) - 1) :
             Without(queue, m)[k] = IF k < m THEN queue[k] ELSE queue[k + 1]
    <2>1. Len(queue) - 1 \in Nat
      BY <1>5
    <2>2. \A k \in 1..(Len(queue) - 1) : k \in 1..Len(queue) /\ k + 1 \in 1..Len(queue)
      BY <1>5
    <2> HIDE DEF queue
    <2>3. Without(queue, m) \in [1..(Len(queue) - 1) -> Jobs]
      BY <1>5, <2>2 DEF Without
    <2>4. Without(queue, m) \in Seq(Jobs)
      BY <2>1, <2>3, SeqDef
    <2>5. QED
      BY <2>1, <2>3, <2>4, LenProperties DEF Without
  <1>7. /\ s \in Semaphores /\ s.free <= s.limit /\ s.waiters = Without(queue, m)
        /\ s.free = semaphores[i].free /\ s.limit = semaphores[i].limit
    BY <1>5, <1>6 DEF Semaphores
  <1>8. semaphores' = [semaphores EXCEPT ![i] = s]
    BY <1>3
  <1>9. \A k \in Jobs : pc[k] = "waiting" /\ k # j => pc'[k] = "waiting"
    BY <1>1, <1>4 DEF JobTypes
  <1> HIDE DEF s
  <1>10. /\ \A k \in 1..Len(s.waiters) : pc'[s.waiters[k]] = "waiting" /\ ref[s.waiters[k]] = i
         /\ \A k, l \in 1..Len(s.waiters) : s.waiters[k] = s.waiters[l] => k = l
    <2>1. ASSUME NEW k \in 1..Len(s.waiters)
          PROVE  \E n \in 1..Len(queue) : n # m /\ s.waiters[k] = queue[n] /\ n = IF k < m THEN k ELSE k + 1
      <3>1. k \in 1..(Len(queue) - 1)
        BY <1>6, <1>7
      <3>2. s.waiters[k] = IF k < m THEN queue[k] ELSE queue[k + 1]
        BY <1>6, <1>7, <3>1
      <3> HIDE DEF queue
      <3>3. CASE k < m
        BY <3>1, <3>2, <3>3, <1>5
      <3>4. CASE ~(k < m)
        BY <3>1, <3>2, <3>4, <1>5
      <3>5. QED
        BY <3>3, <3>4
    <2> HIDE DEF queue
    <2>2. ASSUME NEW k \in 1..Len(s.waiters)
          PROVE  pc'[s.waiters[k]] = "waiting" /\ ref[s.waiters[k]] = i
      <3>1. PICK n \in 1..Len(queue) : n # m /\ s.waiters[k] = queue[n]
        BY <2>1
      <3>2. queue[n] # queue[m] /\ queue[m] = j
        BY <1>3, <1>5, <3>1 DEF queue
      <3>3. QED
        BY <1>5, <1>9, <3>1, <3>2
    <2>3. ASSUME NEW k \in 1..Len(s.waiters), NEW l \in 1..Len(s.waiters), s.waiters[k] = s.waiters[l]
          PROVE  k = l
      <3>1. PICK n \in 1..Len(queue) : s.waiters[k] = queue[n] /\ n = IF k < m THEN k ELSE k + 1
        BY <2>1
      <3>2. PICK o \in 1..Len(queue) : s.waiters[l] = queue[o] /\ o = IF l < m THEN l ELSE l + 1
        BY <2>1
      <3>3. n = o
        BY <1>5, <2>3, <3>1, <3>2
      <3>4. QED
        BY <1>6, <1>7, <1>5, <3>1, <3>2, <3>3
    <2>4. QED
      BY <2>2, <2>3
  <1>11. /\ SemaphoreTypes' /\ WaitersWait' /\ Slots' = Slots
         /\ semaphores'[i] = s /\ \A k \in 1..Slots : k # i => semaphores'[k] = semaphores[k]
    <2>1. ref' = ref /\ Types /\ WaitersWait
      BY <1>1
    <2>2. \A k \in Jobs : pc[k] = "waiting" /\ ref[k] # i => pc'[k] = "waiting"
      BY <1>2, <1>9
    <2>3. QED
      BY ONLY <1>7, <1>8, <1>10, <2>1, <2>2, OneSemaphoreChanges
  <1>12. ASSUME ConfiguresAlone PROVE OneSemaphore'
    <2>1. i = Slots /\ configurer = "idle"
      BY <1>1, <1>2, <1>12 DEF OneSemaphore, Quiet
    <2>2. semaphores'[Slots].free + Cardinality(Holders') = semaphores'[Slots].limit
      BY <1>4, <1>7, <1>11, <1>12, <2>1 DEF OneSemaphore
    <2>3. \A k \in Jobs : pc'[k] # "faulted" /\ (pc'[k] \in {"asking", "waiting"} => ref[k] = Slots)
      BY <1>1, <1>4, <1>12 DEF OneSemaphore, JobTypes
    <2>4. QED
      BY <1>1, <1>11, <2>1, <2>2, <2>3 DEF OneSemaphore
  <1>13. ConfigurerOK'
    BY <1>1, <1>11 DEF ConfigurerOK
  <1>14. QED
    BY <1>4, <1>11, <1>12, <1>13

\* The slot that a job gives back goes to the first waiter.
LEMMA GrantInv ==
  ASSUME IInv, NEW j \in Jobs, ReleaseSlot(j), semaphores[Slots].waiters # <<>>
  PROVE  IInv'
  <1> USE DEF IInv, Types
  <1>1. PICK i \in 1..Slots : i = Slots
    BY DEF SemaphoreTypes
  <1>2. /\ semaphores[i] \in Semaphores /\ semaphores[i].free <= semaphores[i].limit
        /\ semaphores[i].waiters \in Seq(Jobs) /\ semaphores[i].waiters # <<>>
        /\ \A k \in 1..Len(semaphores[i].waiters) :
             /\ semaphores[i].waiters[k] \in Jobs
             /\ pc[semaphores[i].waiters[k]] = "waiting" /\ ref[semaphores[i].waiters[k]] = i
        /\ \A k, l \in 1..Len(semaphores[i].waiters) :
             semaphores[i].waiters[k] = semaphores[i].waiters[l] => k = l
    BY <1>1, WaitersAreJobs DEF WaitersWait, SemaphoreTypes
  <1>3. PICK next \in Jobs : next = Head(semaphores[i].waiters)
    BY <1>2
  <1>4. next = semaphores[i].waiters[1] /\ 1 \in 1..Len(semaphores[i].waiters)
    BY <1>2, <1>3
  <1>5. pc[j] = "releasing" /\ pc[next] = "waiting" /\ next # j /\ held[j] /\ ~held[next] /\ JobTypes
    BY <1>2, <1>4 DEF ReleaseSlot, At, HoldersAreInside, Inside
  <1>6. /\ held' = [held EXCEPT ![j] = FALSE, ![next] = TRUE]
        /\ pc' = [pc EXCEPT ![j] = "removing", ![next] = "entered"]
        /\ semaphores' = [semaphores EXCEPT ![i] = [semaphores[i] EXCEPT !.waiters = Tail(@)]]
        /\ UNCHANGED <<scope, generation, requested, state, ref, superseded, queued, running,
                       counts, generations, active, configurer>>
    <2>1. semaphores' = [semaphores EXCEPT ![i].waiters = Tail(@)]
      BY <1>1, <1>2 DEF ReleaseSlot
    <2>2. QED
      BY <1>1, <1>2, <1>3, <2>1 DEF ReleaseSlot
  <1>7. JobTypes'
    BY <1>5, <1>6 DEF JobTypes, Places
  <1>8. /\ pc'[j] = "removing" /\ pc'[next] = "entered" /\ ~held'[j] /\ held'[next]
        /\ \A k \in Jobs \ {j, next} : pc'[k] = pc[k] /\ held'[k] = held[k]
    BY <1>5, <1>6 DEF JobTypes
  <1>9. HoldersAreInside'
    BY <1>6, <1>8 DEF HoldersAreInside, Inside
  <1> DEFINE s == [semaphores[i] EXCEPT !.waiters = Tail(@)]
  <1>10. /\ s \in Semaphores /\ s.free <= s.limit /\ s.waiters = Tail(semaphores[i].waiters)
         /\ s.free = semaphores[i].free /\ s.limit = semaphores[i].limit
    <2>1. Tail(semaphores[i].waiters) \in Seq(Jobs)
      BY <1>2, HeadTailProperties
    <2>2. QED
      BY <1>2, <2>1 DEF Semaphores
  <1>11. semaphores' = [semaphores EXCEPT ![i] = s]
    BY <1>6
  <1> HIDE DEF s
  <1>12. /\ Len(s.waiters) = Len(semaphores[i].waiters) - 1 /\ Len(semaphores[i].waiters) \in Nat
         /\ \A k \in 1..Len(s.waiters) : k + 1 \in 1..Len(semaphores[i].waiters)
                                         /\ s.waiters[k] = semaphores[i].waiters[k + 1]
    BY <1>2, <1>10
  <1>13. /\ \A k \in 1..Len(s.waiters) : pc'[s.waiters[k]] = "waiting" /\ ref[s.waiters[k]] = i
         /\ \A k, l \in 1..Len(s.waiters) : s.waiters[k] = s.waiters[l] => k = l
    <2>1. ASSUME NEW k \in 1..Len(s.waiters)
          PROVE  pc'[s.waiters[k]] = "waiting" /\ ref[s.waiters[k]] = i
      <3>1. s.waiters[k] \in Jobs \ {next}
        BY <1>2, <1>4, <1>12
      <3>2. pc[s.waiters[k]] = "waiting" /\ ref[s.waiters[k]] = i
        BY <1>2, <1>12
      <3>3. QED
        BY <1>5, <1>8, <3>1, <3>2
    <2>2. ASSUME NEW k \in 1..Len(s.waiters), NEW l \in 1..Len(s.waiters), s.waiters[k] = s.waiters[l]
          PROVE  k = l
      BY <1>2, <1>12, <2>2
    <2>3. QED
      BY <2>1, <2>2
  <1>14. /\ SemaphoreTypes' /\ WaitersWait' /\ Slots' = Slots
         /\ semaphores'[i] = s /\ \A k \in 1..Slots : k # i => semaphores'[k] = semaphores[k]
    <2>1. ref' = ref /\ Types /\ WaitersWait
      BY <1>6
    <2>2. \A k \in Jobs : pc[k] = "waiting" /\ ref[k] # i => pc'[k] = "waiting"
      BY <1>2, <1>4, <1>5, <1>8
    <2>3. s \in Semaphores /\ s.free <= s.limit
      BY <1>10
    <2>4. QED
      BY ONLY <1>11, <1>13, <2>1, <2>2, <2>3, OneSemaphoreChanges
  <1>15. Counted'
    <2>1. QueuedJobs' = QueuedJobs
      BY <1>5, <1>8 DEF QueuedJobs, Waiting, At
    <2>2. RunningJobs' = RunningJobs
      BY <1>5, <1>8 DEF RunningJobs, At
    <2>3. AdmittedJobs' \subseteq AdmittedJobs
      BY <1>5, <1>8 DEF AdmittedJobs
    <2>4. QED
      BY <1>6, <2>1, <2>2, <2>3, SameCounts
  <1>16. ActiveArePosted'
    BY <1>5, <1>6, <1>8 DEF ActiveArePosted, Unposted
  <1>17. GenerationsGrow'
    BY <1>5, <1>6, <1>8 DEF GenerationsGrow, Unposted, Current
  <1>18. OutcomesHaveReasons'
    BY <1>5, <1>6, <1>8 DEF OutcomesHaveReasons, Ended, Current
  <1>19. ASSUME ConfiguresAlone PROVE OneSemaphore'
    <2>1. configurer = "idle"
      BY <1>5, <1>19 DEF OneSemaphore, Quiet
    <2>2. Holders' = (Holders \ {j}) \cup {next} /\ j \in Holders /\ next \in Jobs \ (Holders \ {j})
      BY <1>5, <1>8 DEF Holders
    <2>3. Cardinality(Holders') = Cardinality(Holders)
      <3>1. Cardinality(Holders \ {j}) = Cardinality(Holders) - 1 /\ Cardinality(Holders) \in Nat
        BY <2>2, JobQuits, FiniteJobs DEF Holders
      <3>2. Holders \ {j} \in SUBSET Jobs
        BY DEF Holders
      <3>3. Cardinality(Holders') = Cardinality(Holders \ {j}) + 1
        BY <2>2, <3>2, JobJoins
      <3>4. QED
        BY <3>1, <3>3
    <2>4. semaphores'[Slots].free + Cardinality(Holders') = semaphores'[Slots].limit
      BY <1>1, <1>10, <1>14, <1>19, <2>3 DEF OneSemaphore
    <2>5. \A k \in Jobs : pc'[k] # "faulted" /\ (pc'[k] \in {"asking", "waiting"} => ref[k] = Slots)
      BY <1>5, <1>8, <1>19 DEF OneSemaphore
    <2>6. QED
      BY <1>6, <1>14, <2>1, <2>4, <2>5 DEF OneSemaphore
  <1>20. ConfigurerOK'
    BY <1>6, <1>14 DEF ConfigurerOK
  <1>21. QED
    BY <1>7, <1>9, <1>14, <1>15, <1>16, <1>17, <1>18, <1>19, <1>20

\* Nobody waits for it: it is free again.
LEMMA FreeInv ==
  ASSUME IInv, NEW j \in Jobs, ReleaseSlot(j), semaphores[Slots].waiters = <<>>,
         semaphores[Slots].free < semaphores[Slots].limit
  PROVE  IInv'
  <1> USE DEF IInv, Types
  <1>1. PICK i \in 1..Slots : i = Slots
    BY DEF SemaphoreTypes
  <1>2. semaphores[i] \in Semaphores /\ semaphores[i].waiters = <<>>
    BY <1>1, WaitersAreJobs
  <1>3. pc[j] = "releasing" /\ held[j] /\ JobTypes
    BY DEF ReleaseSlot, At, HoldersAreInside, Inside
  <1>4. /\ held' = [held EXCEPT ![j] = FALSE]
        /\ pc' = [pc EXCEPT ![j] = "removing"]
        /\ semaphores' = [semaphores EXCEPT ![i] = [semaphores[i] EXCEPT !.free = @ + 1]]
        /\ UNCHANGED <<scope, generation, requested, state, ref, superseded, queued, running,
                       counts, generations, active, configurer>>
    <2>1. semaphores' = [semaphores EXCEPT ![i].free = @ + 1]
      BY <1>1, <1>2 DEF ReleaseSlot
    <2>2. QED
      BY <2>1 DEF ReleaseSlot, Goto
  <1>5. JobTypes'
    BY <1>3, <1>4 DEF JobTypes, Places
  <1>6. pc'[j] = "removing" /\ ~held'[j] /\ \A k \in Jobs \ {j} : pc'[k] = pc[k] /\ held'[k] = held[k]
    BY <1>3, <1>4 DEF JobTypes
  <1>7. HoldersAreInside'
    BY <1>4, <1>6 DEF HoldersAreInside, Inside
  <1> DEFINE s == [semaphores[i] EXCEPT !.free = @ + 1]
  <1>8. /\ s \in Semaphores /\ s.free <= s.limit /\ s.waiters = <<>>
        /\ s.free = semaphores[i].free + 1 /\ s.limit = semaphores[i].limit
    BY <1>1, <1>2 DEF Semaphores
  <1>9. semaphores' = [semaphores EXCEPT ![i] = s]
    BY <1>4
  <1> HIDE DEF s
  <1>10. /\ SemaphoreTypes' /\ WaitersWait' /\ Slots' = Slots
         /\ semaphores'[i] = s /\ \A k \in 1..Slots : k # i => semaphores'[k] = semaphores[k]
    <2>1. ref' = ref /\ Types /\ WaitersWait
      BY <1>4
    <2>2. \A k \in Jobs : pc[k] = "waiting" => pc'[k] = "waiting"
      BY <1>3, <1>6
    <2>3. /\ \A k \in 1..Len(s.waiters) : pc'[s.waiters[k]] = "waiting" /\ ref[s.waiters[k]] = i
          /\ \A k, l \in 1..Len(s.waiters) : s.waiters[k] = s.waiters[l] => k = l
      BY <1>8
    <2>4. s \in Semaphores /\ s.free <= s.limit
      BY <1>8
    <2>5. QED
      BY ONLY <1>9, <2>1, <2>2, <2>3, <2>4, OneSemaphoreChanges
  <1>11. Counted'
    <2>1. QueuedJobs' = QueuedJobs /\ RunningJobs' = RunningJobs
      BY <1>3, <1>6 DEF QueuedJobs, RunningJobs, Waiting, At
    <2>2. AdmittedJobs' = AdmittedJobs
      BY <1>3, <1>6 DEF AdmittedJobs
    <2>3. QED
      BY <1>4, <2>1, <2>2, SameCounts
  <1>12. ActiveArePosted' /\ GenerationsGrow' /\ OutcomesHaveReasons'
    BY <1>3, <1>4, <1>6
    DEF ActiveArePosted, GenerationsGrow, OutcomesHaveReasons, Unposted, Ended, Current
  <1>13. ASSUME ConfiguresAlone PROVE OneSemaphore'
    <2>1. configurer = "idle"
      BY <1>3, <1>13 DEF OneSemaphore, Quiet
    <2>2. Holders' = Holders \ {j} /\ j \in Holders
      BY <1>3, <1>6 DEF Holders
    <2>3. Cardinality(Holders') = Cardinality(Holders) - 1 /\ Cardinality(Holders) \in Nat
      BY <2>2, JobQuits, FiniteJobs DEF Holders
    <2>4. semaphores'[Slots].free + Cardinality(Holders') = semaphores'[Slots].limit
      BY <1>1, <1>2, <1>8, <1>10, <1>13, <2>3 DEF OneSemaphore, Semaphores
    <2>5. \A k \in Jobs : pc'[k] # "faulted" /\ (pc'[k] \in {"asking", "waiting"} => ref[k] = Slots)
      BY <1>3, <1>6, <1>13 DEF OneSemaphore
    <2>6. QED
      BY <1>4, <1>10, <2>1, <2>4, <2>5 DEF OneSemaphore
  <1>14. ConfigurerOK'
    BY <1>4, <1>10 DEF ConfigurerOK
  <1>15. QED
    BY <1>5, <1>7, <1>10, <1>11, <1>12, <1>13, <1>14

\* The semaphore is full: only a job that entered an older one can meet it.
LEMMA FaultInv ==
  ASSUME IInv, NEW j \in Jobs, ReleaseSlot(j), semaphores[Slots].waiters = <<>>,
         ~(semaphores[Slots].free < semaphores[Slots].limit)
  PROVE  IInv'
  <1> USE DEF IInv, Types
  <1>1. pc[j] = "releasing" /\ held[j] /\ JobTypes
    BY DEF ReleaseSlot, At, HoldersAreInside, Inside
  <1>2. /\ pc' = [pc EXCEPT ![j] = "faulted"]
        /\ UNCHANGED <<scope, generation, requested, state, ref, superseded, queued, running, held,
                       counts, generations, active, semaphores, configurer>>
    BY DEF ReleaseSlot, Goto
  <1>3. JobTypes' /\ ConfigurerOK'
    BY <1>1, <1>2 DEF JobTypes, Places, ConfigurerOK, Slots
  <1>4. pc'[j] = "faulted" /\ \A k \in Jobs \ {j} : pc'[k] = pc[k]
    BY <1>1, <1>2 DEF JobTypes
  <1>5. HoldersAreInside' /\ ActiveArePosted' /\ GenerationsGrow' /\ OutcomesHaveReasons'
    BY <1>1, <1>2, <1>4 DEF HoldersAreInside, ActiveArePosted, GenerationsGrow,
       OutcomesHaveReasons, Inside, Unposted, Ended, Current
  <1>6. SemaphoreTypes' /\ WaitersWait'
    <2>1. ref' \in [Jobs -> 0..Slots]
      BY <1>2 DEF SemaphoreTypes
    <2>2. QED
      BY <1>1, <1>2, <1>4, <2>1, SemaphoresUntouched
  <1>7. Counted'
    <2>1. QueuedJobs' = QueuedJobs /\ RunningJobs' = RunningJobs
      BY <1>1, <1>2, <1>4 DEF QueuedJobs, RunningJobs, Waiting, At
    <2>2. AdmittedJobs' = AdmittedJobs
      BY <1>1, <1>4 DEF AdmittedJobs
    <2>3. QED
      BY <1>2, <2>1, <2>2, SameCounts
  <1>8. ~ConfiguresAlone
    <2>1. SUFFICES ASSUME ConfiguresAlone PROVE FALSE
      OBVIOUS
    <2>2. Holders # {} /\ Cardinality(Holders) \in Nat /\ IsFiniteSet(Holders)
      BY <1>1, FiniteJobs DEF Holders
    <2>3. Cardinality(Holders) # 0
      BY <2>2, FS_EmptySet
    <2>4. semaphores[Slots] \in Semaphores
      BY WaitersAreJobs DEF SemaphoreTypes
    <2>5. QED
      BY <2>1, <2>2, <2>3, <2>4 DEF OneSemaphore, Semaphores
  <1>9. QED
    BY <1>3, <1>5, <1>6, <1>7, <1>8

LEMMA ReleaseSlotInv ==
  ASSUME IInv, NEW j \in Jobs, ReleaseSlot(j)
  PROVE  IInv'
  BY GrantInv, FreeInv, FaultInv

-----------------------------------------------------------------------------
(* The steps of Configure, and the theorems.                               *)

LEMMA JobsUntouched ==
  ASSUME IInv, UNCHANGED job, UNCHANGED <<queued, running, counts, generations, active>>
  PROVE  JobTypes' /\ HoldersAreInside' /\ Counted' /\ ActiveArePosted' /\ GenerationsGrow'
         /\ OutcomesHaveReasons' /\ Holders' = Holders /\ (Quiet' <=> Quiet)
  <1>1. JobTypes' /\ HoldersAreInside'
    BY DEF job, IInv, Types, JobTypes, HoldersAreInside
  <1>2. QueuedJobs' = QueuedJobs /\ RunningJobs' = RunningJobs /\ AdmittedJobs' = AdmittedJobs
    BY DEF job, QueuedJobs, RunningJobs, AdmittedJobs, Waiting, At
  <1>3. Counted'
    BY <1>2 DEF IInv, Counted
  <1>4. ActiveArePosted' /\ GenerationsGrow' /\ OutcomesHaveReasons'
    BY DEF job, IInv, ActiveArePosted, GenerationsGrow, OutcomesHaveReasons, Current
  <1>5. QED
    BY <1>1, <1>3, <1>4 DEF job, Holders, Quiet

LEMMA SemaphoresStay ==
  ASSUME IInv, UNCHANGED job, UNCHANGED semaphores
  PROVE  /\ SemaphoreTypes' /\ WaitersWait' /\ Slots' = Slots
         /\ OneSemaphore /\ (configurer' # "idle" => Quiet) => OneSemaphore'
  <1>1. SemaphoreTypes' /\ WaitersWait'
    <2>1. ref' \in [Jobs -> 0..Slots]
      BY DEF job, IInv, Types, SemaphoreTypes
    <2>2. QED
      BY <2>1, SemaphoresUntouched DEF IInv, job
  <1>2. QED
    BY <1>1 DEF job, OneSemaphore, Slots, Holders, Quiet

LEMMA ConfigureReadsInv ==
  ASSUME IInv, ConfigureReadsQueued \/ ConfigureReadsRunning
  PROVE  IInv'
  <1>1. UNCHANGED job /\ UNCHANGED shared
    BY DEF ConfigureReadsQueued, ConfigureReadsRunning
  <1>2. JobTypes' /\ HoldersAreInside' /\ Counted' /\ ActiveArePosted' /\ GenerationsGrow'
        /\ OutcomesHaveReasons'
    BY <1>1, JobsUntouched DEF shared
  <1>3. /\ SemaphoreTypes' /\ WaitersWait' /\ Slots' = Slots
        /\ OneSemaphore /\ (configurer' # "idle" => Quiet) => OneSemaphore'
    BY <1>1, SemaphoresStay DEF shared
  <1>4. ConfigurerOK'
    BY <1>1, <1>3 DEF IInv, Types, ConfigurerOK, ConfigureReadsQueued, ConfigureReadsRunning, Slots
  <1>5. ConfiguresAlone => (configurer' # "idle" => Quiet)
    BY DEF IInv, OneSemaphore, ConfigureReadsQueued, ConfigureReadsRunning
  <1>6. QED
    BY <1>2, <1>3, <1>4, <1>5 DEF IInv, Types

LEMMA ConfigureReplacesInv ==
  ASSUME IInv, ConfigureReplaces
  PROVE  IInv'
  <1>1. /\ UNCHANGED job /\ UNCHANGED <<queued, running, counts, generations, active>>
        /\ configurer = "idle seen" /\ configurer' = "replaced"
    BY DEF ConfigureReplaces
  <1>2. PICK limit \in Limits : semaphores' = Append(semaphores, Semaphore(limit))
    BY DEF ConfigureReplaces
  <1>3. JobTypes' /\ HoldersAreInside' /\ Counted' /\ ActiveArePosted' /\ GenerationsGrow'
        /\ OutcomesHaveReasons' /\ Holders' = Holders /\ (Quiet' <=> Quiet)
    BY <1>1, JobsUntouched
  <1>4. limit \in Nat \ {0} /\ Semaphore(limit) \in Semaphores
    BY LimitsAssumption, EmptySeq DEF Semaphore, Semaphores
  <1>5. SemaphoreTypes /\ ref \in [Jobs -> 0..Slots] /\ Slots \in Nat /\ Slots >= 1 /\ Slots < MaxPolicies
    <2>1. SemaphoreTypes /\ Slots < MaxPolicies
      BY <1>1 DEF IInv, Types, ConfigurerOK
    <2>2. Slots \in 1..MaxPolicies /\ ref \in [Jobs -> 0..Slots]
      BY <2>1 DEF SemaphoreTypes
    <2>3. QED
      BY <2>1, <2>2, BoundAssumption
  <1>6. /\ semaphores' \in Seq(Semaphores) /\ Slots' = Slots + 1
        /\ semaphores'[Slots + 1] = Semaphore(limit)
        /\ \A i \in 1..Slots : semaphores'[i] = semaphores[i]
    BY <1>2, <1>4, <1>5, AppendProperties DEF SemaphoreTypes, Slots
  <1>7. SemaphoreTypes'
    <2>1. Slots' \in 1..MaxPolicies
      BY <1>5, <1>6, BoundAssumption
    <2>2. 0..Slots \subseteq 0..Slots'
      BY <1>5, <1>6
    <2>3. ref' \in [Jobs -> 0..Slots']
      BY <1>1, <1>5, <2>2 DEF job
    <2>4. ASSUME NEW i \in 1..Slots' PROVE semaphores'[i].free <= semaphores'[i].limit
      <3>1. i \in 1..Slots \/ i = Slots + 1
        BY <1>5, <1>6
      <3>2. QED
        BY <1>4, <1>5, <1>6, <3>1 DEF SemaphoreTypes, Semaphore
    <2>5. QED
      BY <1>6, <2>1, <2>3, <2>4 DEF SemaphoreTypes
  <1>8. ConfigurerOK'
    <2>1. configurer' = "replaced" /\ Slots' > 1
      <3>1. Slots \in Nat /\ Slots >= 1 /\ Slots' = Slots + 1
        BY <1>5, <1>6
      <3>2. configurer' = "replaced"
        BY <1>1
      <3>3. Slots' > 1
        BY <3>1
      <3>4. QED
        BY <3>2, <3>3
    <2>2. QED
      BY ONLY <2>1 DEF ConfigurerOK
  <1>9. WaitersWait'
    <2>1. ASSUME NEW i \in 1..Slots'
          PROVE  i \in 1..Slots \/ (i = Slots + 1 /\ semaphores'[i].waiters = <<>>)
      BY <1>5, <1>6 DEF Semaphore
    <2>2. ASSUME NEW i \in 1..Slots'
          PROVE  /\ \A k \in 1..Len(semaphores'[i].waiters) :
                      pc[semaphores'[i].waiters[k]] = "waiting" /\ ref[semaphores'[i].waiters[k]] = i
                 /\ \A k, l \in 1..Len(semaphores'[i].waiters) :
                      semaphores'[i].waiters[k] = semaphores'[i].waiters[l] => k = l
      BY <1>6, <2>1 DEF IInv, WaitersWait
    <2>3. QED
      BY <1>1, <2>2 DEF WaitersWait, job
  <1>10. ASSUME ConfiguresAlone PROVE OneSemaphore'
    <2>1. Quiet /\ Quiet'
      BY <1>1, <1>3, <1>10 DEF IInv, OneSemaphore
    <2>2. Holders = {}
      BY <2>1 DEF Quiet, IInv, HoldersAreInside, Inside, Holders
    <2>3. Cardinality(Holders') = 0
      BY <1>3, <2>2, FS_EmptySet
    <2>4. QED
      BY <1>4, <1>6, <2>1, <2>3 DEF OneSemaphore, Quiet, Semaphore
  <1>11. QED
    BY <1>3, <1>7, <1>8, <1>9, <1>10 DEF IInv, Types

LEMMA ConfigureDisposesInv ==
  ASSUME IInv, ConfigureDisposes
  PROVE  IInv'
  <1>1. /\ UNCHANGED job /\ UNCHANGED <<queued, running, counts, generations, active>>
        /\ configurer = "replaced" /\ configurer' = "idle"
    BY DEF ConfigureDisposes
  <1>2. JobTypes' /\ HoldersAreInside' /\ Counted' /\ ActiveArePosted' /\ GenerationsGrow'
        /\ OutcomesHaveReasons' /\ Holders' = Holders /\ (Quiet' <=> Quiet)
    BY <1>1, JobsUntouched
  <1>3. PICK i \in 1..Slots : i = Slots - 1 /\ i # Slots
    BY <1>1 DEF IInv, Types, ConfigurerOK, SemaphoreTypes
  <1> DEFINE queue == semaphores[i].waiters
             rest == IF queue = <<>> THEN queue ELSE Tail(queue)
             s == [semaphores[i] EXCEPT !.disposed = TRUE, !.waiters = rest]
  <1>4. /\ semaphores[i] \in Semaphores /\ semaphores[i].free <= semaphores[i].limit
        /\ queue \in Seq(Jobs)
        /\ \A k \in 1..Len(queue) : queue[k] \in Jobs /\ pc[queue[k]] = "waiting" /\ ref[queue[k]] = i
        /\ \A k, l \in 1..Len(queue) : queue[k] = queue[l] => k = l
    BY WaitersAreJobs DEF IInv, Types, WaitersWait, SemaphoreTypes
  <1>5. semaphores' = [semaphores EXCEPT ![i] = s]
    BY <1>3, <1>4 DEF ConfigureDisposes, IInv, Types, SemaphoreTypes, Semaphores
  <1>6. rest \in Seq(Jobs) /\ \E d \in {0, 1} : \A k \in 1..Len(rest) : k + d \in 1..Len(queue)
                                                           /\ rest[k] = queue[k + d]
    <2>1. CASE queue = <<>>
      BY <1>4, <2>1
    <2>2. CASE queue # <<>>
      BY <1>4, <2>2, HeadTailProperties
    <2>3. QED
      BY <2>1, <2>2
  <1>7. s \in Semaphores /\ s.free <= s.limit /\ s.waiters = rest
    BY <1>4, <1>6 DEF Semaphores
  <1> HIDE DEF s, rest, queue
  <1>8. /\ \A k \in 1..Len(s.waiters) : pc'[s.waiters[k]] = "waiting" /\ ref[s.waiters[k]] = i
        /\ \A k, l \in 1..Len(s.waiters) : s.waiters[k] = s.waiters[l] => k = l
    <2>1. PICK d \in {0, 1} : \A k \in 1..Len(rest) : k + d \in 1..Len(queue) /\ rest[k] = queue[k + d]
      BY <1>6
    <2>2. \A k \in 1..Len(rest) : pc[rest[k]] = "waiting" /\ ref[rest[k]] = i
      BY <1>4, <2>1
    <2>3. ASSUME NEW k \in 1..Len(rest), NEW l \in 1..Len(rest), rest[k] = rest[l]
          PROVE  k = l
      <3>1. k + d = l + d
        BY <1>4, <2>1, <2>3
      <3>2. k \in Int /\ l \in Int /\ d \in Int
        OBVIOUS
      <3>3. QED
        BY <3>1, <3>2
    <2>4. QED
      BY <1>1, <1>7, <2>2, <2>3 DEF job
  <1>9. /\ SemaphoreTypes' /\ WaitersWait' /\ Slots' = Slots
        /\ semaphores'[i] = s /\ \A k \in 1..Slots : k # i => semaphores'[k] = semaphores[k]
    <2>1. ref' = ref /\ Types /\ WaitersWait /\ \A k \in Jobs : pc[k] = "waiting" => pc'[k] = "waiting"
      BY <1>1 DEF IInv, job
    <2>2. QED
      BY ONLY <1>5, <1>7, <1>8, <2>1, OneSemaphoreChanges
  <1>10. ConfigurerOK'
    BY <1>1 DEF ConfigurerOK
  <1>11. ASSUME ConfiguresAlone PROVE OneSemaphore'
    <2>1. semaphores'[Slots] = semaphores[Slots]
      BY <1>3, <1>9 DEF IInv, Types, SemaphoreTypes
    <2>2. QED
      BY <1>1, <1>2, <1>9, <1>11, <2>1 DEF IInv, OneSemaphore, job
  <1>12. QED
    BY <1>2, <1>9, <1>10, <1>11 DEF IInv, Types

LEMMA NextInv == IInv /\ [Next]_vars => IInv'
  <1> SUFFICES ASSUME IInv, [Next]_vars PROVE IInv'
    OBVIOUS
  <1>1. ASSUME NEW j \in Jobs, Schedule(j) PROVE IInv'
    BY <1>1, EnqueueInv, RefuseInv, PostInv DEF Schedule
  <1>2. ASSUME NEW j \in Jobs, Cancel(j) PROVE IInv'
    BY <1>2, CancelInv
  <1>3. ASSUME NEW j \in Jobs, Task(j) PROVE IInv'
    BY <1>3, ReadSlotsInv, AskInv, StopWaitingInv, UnqueueInv, StartInv, OperateInv, CheckInv,
       PublishInv, LeaveInv, ReleaseSlotInv, RemoveInv DEF Task
  <1>4. CASE Configure
    BY <1>4, ConfigureReadsInv, ConfigureReplacesInv, ConfigureDisposesInv DEF Configure
  <1>5. CASE UNCHANGED vars
    <2>1. UNCHANGED job /\ UNCHANGED shared /\ UNCHANGED configurer
      BY <1>5 DEF vars
    <2>2. JobTypes' /\ HoldersAreInside' /\ Counted' /\ ActiveArePosted' /\ GenerationsGrow'
          /\ OutcomesHaveReasons'
      BY <2>1, JobsUntouched DEF shared
    <2>3. /\ SemaphoreTypes' /\ WaitersWait' /\ Slots' = Slots
          /\ OneSemaphore /\ (configurer' # "idle" => Quiet) => OneSemaphore'
      BY <2>1, SemaphoresStay DEF shared
    <2>4. QED
      BY <2>1, <2>2, <2>3 DEF IInv, Types, ConfigurerOK, OneSemaphore
  <1>6. QED
    BY <1>1, <1>2, <1>3, <1>4, <1>5 DEF Next

\* In every state the scheduler can reach the counters count the jobs they stand for,
\* a slot is held from entering to release, queues hold waiters only, generations
\* grow, and outcomes have their reasons; with clients that configure alone, all
\* jobs share one semaphore whose slots are all accounted for (Scheduler.cs).
THEOREM SchedulerInvariant == Spec => []IInv
  BY InitInv, NextInv, PTL DEF Spec

\* The type invariant: in particular the counters are never negative, and no
\* semaphore ever has more free slots than it was made with.
THEOREM TypesHold == Spec => []TypeOK
  <1>1. IInv => TypeOK
    <2> SUFFICES ASSUME IInv PROVE TypeOK
      OBVIOUS
    <2>1. \A i \in 1..Slots : semaphores[i].free \in 0..semaphores[i].limit
      BY WaitersAreJobs DEF IInv, Types, SemaphoreTypes, Semaphores
    <2>2. queued \in Nat /\ running \in Nat
      BY CountsAreNatural DEF IInv
    <2>3. QED
      BY <2>1, <2>2 DEF IInv, Types, JobTypes, SemaphoreTypes, TypeOK
  <1>2. QED
    BY <1>1, SchedulerInvariant, PTL

\* Whatever is cancelled, refused, thrown or reconfigured where: a result that a newer
\* input of its scope superseded before its operation ended is never published
\* (Scheduler.cs:216-223).
THEOREM SupersededHolds == Spec => []SupersededIsNotPublished
  <1>1. IInv => SupersededIsNotPublished
    BY DEF IInv, GenerationsGrow, OutcomesHaveReasons, SupersededIsNotPublished, At
  <1>2. QED
    BY <1>1, SchedulerInvariant, PTL

\* A job that ended while still the newest of its scope, and was neither cancelled nor
\* failed, is completed and not thrown away as stale (Scheduler.cs:216).  Nothing is
\* claimed of a job that another superseded between its check and its publication.
THEOREM NewestHolds == Spec => []NewestIsPublished
  <1>1. IInv => NewestIsPublished
    BY DEF IInv, OutcomesHaveReasons, NewestIsPublished, At, Ended, Outcomes
  <1>2. QED
    BY <1>1, SchedulerInvariant, PTL

\* For clients that never configure while a scheduled task is under way: the two
\* counters are the jobs that wait and the jobs that run, and what has ended is not
\* among the active jobs (Scheduler.cs:189-194, 208-209, 250-259, 286-292).
THEOREM CountersHold ==
  ASSUME ConfiguresAlone
  PROVE  Spec => []CountersExact
  <1>1. IInv => CountersExact
    BY DEF IInv, Counted, CountersExact, QueuedJobs, RunningJobs, OneSemaphore, ActiveArePosted,
           Unposted
  <1>2. QED
    BY <1>1, SchedulerInvariant, PTL

\* For the same clients: the queue's capacity holds however many callers are at it
\* together, and no slot is lost and none is made (Scheduler.cs:172, 189-194, 206, 253).
THEOREM LoadHolds ==
  ASSUME ConfiguresAlone
  PROVE  Spec => []LoadIsBounded
  <1>1. IInv => LoadIsBounded
    BY DEF IInv, Counted, LoadIsBounded, AdmittedJobs, Holders, OneSemaphore
  <1>2. QED
    BY <1>1, SchedulerInvariant, PTL

\* For the same clients never more operations at once than configured; with others it
\* is not so (Scheduler.cs:49, 172).
THEOREM ConcurrencyHolds ==
  ASSUME ConfiguresAlone
  PROVE  Spec => []ConcurrencyBounded
  <1>1. ASSUME IInv PROVE ConcurrencyBounded
    <2> DEFINE operating == {j \in Jobs : At(j, "running")}
    <2>1. operating \subseteq Holders /\ Holders \subseteq Jobs
      BY <1>1 DEF IInv, HoldersAreInside, Inside, Holders, At
    <2>2. IsFiniteSet(Holders) /\ Cardinality(Holders) \in Nat
      BY <2>1, FiniteJobs
    <2>3. Cardinality(operating) <= Cardinality(Holders) /\ Cardinality(operating) \in Nat
      BY <2>1, <2>2, FS_Subset, FS_CardinalityType
    <2>4. semaphores[Slots] \in Semaphores
      BY <1>1, WaitersAreJobs DEF IInv, Types, SemaphoreTypes
    <2>5. Cardinality(Holders) <= semaphores[Slots].limit
      BY <1>1, <2>2, <2>4 DEF IInv, OneSemaphore, Semaphores
    <2>6. QED
      BY <2>2, <2>3, <2>4, <2>5 DEF ConcurrencyBounded, Semaphores
  <1>2. QED
    BY <1>1, SchedulerInvariant, PTL
=============================================================================
