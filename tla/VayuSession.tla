----------------------------- MODULE VayuSession -----------------------------
(***************************************************************************)
(* One compute session (crates/xvarna-vayu) from its creation on, the scene *)
(* cache it takes its plan from, and the threads that trace rays with it.   *)
(*                                                                         *)
(* A scene is cut into geometry chunks, which are uploaded one after the    *)
(* other for every batch when there are several.  A batch holds the lock of *)
(* the scratch arena: its rays are cut to the capacity of the two slots,    *)
(* both slots are submitted together, and what they read back is merged     *)
(* into the hits of the batch.  The device may be lost at any moment and    *)
(* every GPU operation may fail; an Auto session answers from the CPU then. *)
(*                                                                         *)
(* A ray is who asks and its number; a hit is the set of what was merged    *)
(* into it, of which the code keeps the closest.  The shader is not         *)
(* modelled.                                                                *)
(***************************************************************************)
EXTENDS Integers, Sequences, FiniteSets, FiniteSetsExt, SequencesExt

CONSTANTS Threads,        \* threads
          Requests,       \* the lengths of the batches they trace
          Scenes,         \* sequences of occurrences, each the mesh it places
          MeshBytes,      \* meshes -> bytes
          InstanceBytes, RayBytes,   \* of an occurrence; of a ray in both slots
          Policies,       \* the options sessions are created with
          MaxTraces,      \* bound: batches of a thread
          MaxFaults,      \* bound: failures of the device
          MaxStores       \* bound: configurations of the cache

VARIABLES sessionScene, options,  \* what the session is created with
          stage,           \* how far its creation is; "cpu", "gpu" or "refused" when it is over
          plan,            \* [of: "none", "scene" or "other", chunks]
          stores,          \* what each cache opened so far holds for the scene; the last is current
          store,           \* the one that the creation is using
          device,          \* lost, losses and errors counted, failures so far
          counted,         \* traces, fallbacks, batches: RuntimeCounters; direct: history, the
                           \* fallbacks of traces outside an analysis
          scratch,         \* capacity and holder of the arena, geometry in the buffers, slots
          call,            \* where each thread is, its request, its hits, its last answer
          summary,         \* the execution record of each thread's analysis
          used             \* history: the backends that answered each thread

creation == <<sessionScene, options, stage, plan, stores, store>>
sessionVars == <<creation, device, counted, scratch, call, summary, used>>

None == "none"

Preferences == {"cpu", "auto", "require"}
\* A scene without an occurrence is never built (EmptyInstances, lib.rs:515).
SessionAssumption ==
    /\ IsFiniteSet(Threads) /\ None \notin Threads
    /\ Requests \subseteq Nat
    /\ MeshBytes \in [DOMAIN MeshBytes -> Nat] /\ Scenes \subseteq Seq(DOMAIN MeshBytes) \ {<<>>}
    /\ InstanceBytes \in Nat /\ RayBytes \in Nat \ {0}
    /\ Policies \subseteq
         [preference : Preferences, rays : Nat, chunkBytes : Nat, gpuBytes : Nat, cache : BOOLEAN]

Least(a, b) == IF a < b THEN a ELSE b
Most(a, b) == IF a > b THEN a ELSE b
-----------------------------------------------------------------------------
(* The geometry chunks (xvarna-scene, portable.rs).                          *)

Meshes(group) == {group[i] : i \in DOMAIN group}
payload_bytes(group) == InstanceBytes * Len(group) + MapThenSumSet(LAMBDA m : MeshBytes[m], Meshes(group))
estimate_payload(group) == 2 * payload_bytes(group)

\* Occurrences are taken in their order as long as the estimate allows.
portable_snapshots(occurrences, limit) ==
    LET groups[i \in 0..Len(occurrences)] ==
          IF i = 0 THEN <<>>
          ELSE LET before == groups[i - 1]
                   longer == IF before = <<>> THEN <<>> ELSE Append(Last(before), occurrences[i])
               IN  IF before # <<>> /\ estimate_payload(longer) <= limit
                   THEN Append(Front(before), longer)
                   ELSE Append(before, <<occurrences[i]>>)
    IN  groups[Len(occurrences)]
GeometryChunkTooLarge(occurrences, limit) ==
    \E i \in DOMAIN occurrences : estimate_payload(<<occurrences[i]>>) > limit

-----------------------------------------------------------------------------
(* The process-wide scene cache.                                             *)

current_cache == Len(stores)

CreationOver == {"cpu", "gpu", "refused"}
Created == stage \in CreationOver

\* The directory may hold a payload of this key that does not decode.  A session
\* that is created has its plan: what happens to the cache then is left out.
configure_scene_cache ==
    /\ Len(stores) < MaxStores /\ ~Created
    /\ \E holds \in {None, "scene", "other"} : stores' = Append(stores, holds)
    /\ UNCHANGED <<sessionScene, options, stage, plan, store, device, counted, scratch, call, summary, used>>

clear_scene_cache ==
    /\ stores[current_cache] # None /\ ~Created
    /\ stores' = [stores EXCEPT ![current_cache] = None]
    /\ UNCHANGED <<sessionScene, options, stage, plan, store, device, counted, scratch, call, summary, used>>

-----------------------------------------------------------------------------
(* Creation.                                                                 *)

validate_options ==
    options.rays > 0 /\ options.chunkBytes > 0 /\ options.gpuBytes > 0 /\ options.chunkBytes <= options.gpuBytes

\* When it is over, the cache is let go and forgotten.
Continue(next, using) ==
    /\ stage' = next
    /\ IF next \in CreationOver THEN store' = 0 /\ stores' = <<None>> ELSE store' = using /\ UNCHANGED stores
    /\ UNCHANGED <<sessionScene, options, device, counted, scratch, call, summary, used>>

Create ==
    /\ stage = "new"
    /\ Continue(CASE ~validate_options -> "refused"
                 [] validate_options /\ options.preference = "cpu" -> "cpu"
                 [] OTHER -> "adapter", store)
    /\ UNCHANGED plan

\* Auto goes on with the CPU, and says why.
CreationFails == IF options.preference = "auto" THEN "cpu" ELSE "refused"
NoAdapter ==
    /\ stage \in {"adapter", "open"}
    /\ Continue(CreationFails, store)
    /\ UNCHANGED plan

request_adapter ==
    /\ stage = "adapter"
    /\ Continue("plan", IF options.cache THEN current_cache ELSE 0)
    /\ UNCHANGED plan

\* Mutant of decode_scene_plan: any payload of the key will do.
AnyPayload(holds) == holds # None
decode_scene_plan(holds) == holds = "scene"

\* A hit that does not decode is dropped.
RestorePlan ==
    /\ stage = "plan" /\ store # 0 /\ stores[store] # None
    /\ IF decode_scene_plan(stores[store])
       THEN /\ plan' = [of |-> stores[store], chunks |-> portable_snapshots(sessionScene, options.chunkBytes)]
            /\ Continue("open", store)
       ELSE /\ stage' = "build" /\ stores' = [stores EXCEPT ![store] = None]
            /\ UNCHANGED <<sessionScene, options, plan, store, device, counted, scratch, call, summary, used>>

\* A failing read is a miss, and so is a payload that was cleared or evicted.
MissPlan ==
    /\ stage = "plan"
    /\ Continue("build", store) /\ UNCHANGED plan

\* Put into the store that was current when the creation began; a failure is ignored.
encode_scene_plan == plan'.of
load_or_build_scene_plan ==
    /\ stage = "build"
    /\ IF GeometryChunkTooLarge(sessionScene, options.chunkBytes)
       THEN Continue(CreationFails, store) /\ UNCHANGED plan
       ELSE /\ plan' = [of |-> "scene", chunks |-> portable_snapshots(sessionScene, options.chunkBytes)]
            /\ stage' = "open"
            /\ \E kept \in BOOLEAN :
                 stores' = IF store # 0 /\ kept THEN [stores EXCEPT ![store] = encode_scene_plan] ELSE stores
            /\ UNCHANGED <<sessionScene, options, store, device, counted, scratch, call, summary, used>>

approximate_gpu_bytes == Max({payload_bytes(plan.chunks[g]) : g \in DOMAIN plan.chunks})
memory_ray_limit == (options.gpuBytes - approximate_gpu_bytes) \div RayBytes
maximum_rays_per_dispatch == Most(Least(options.rays, memory_ray_limit), 1)

open_device ==
    /\ stage = "open"
    /\ Continue(IF approximate_gpu_bytes > options.gpuBytes \/ memory_ray_limit = 0 THEN CreationFails ELSE "gpu", store)
    /\ UNCHANGED plan

\* Every array of the geometry has a buffer for the longest of all chunks.
create_scene_buffer(bytes) == Max(Range(bytes))
SceneBytes ==
    LET instances == [g \in DOMAIN plan.chunks |-> InstanceBytes * Len(plan.chunks[g])]
        meshes == [g \in DOMAIN plan.chunks |-> payload_bytes(plan.chunks[g]) - instances[g]]
    IN  create_scene_buffer(instances) + create_scene_buffer(meshes)

-----------------------------------------------------------------------------
(* The health of the device.                                                 *)

record_error == [device EXCEPT !.errors = @ + 1]
\* Mutant of record_execution_failure: only what the driver reports marks the device.
OnlyCounted == record_error
record_execution_failure == [record_error EXCEPT !.lost = TRUE]
\* A device is lost once.
record_device_loss ==
    [record_error EXCEPT !.lost = TRUE, !.losses = IF device.lost THEN @ ELSE @ + 1]
require_healthy == ~device.lost

LoseDevice ==
    /\ stage = "gpu" /\ device.faults < MaxFaults
    /\ device' = [record_device_loss EXCEPT !.faults = @ + 1]
    /\ UNCHANGED <<creation, counted, scratch, call, summary, used>>

-----------------------------------------------------------------------------
(* The record of an analysis (xvarna-scene, executor.rs).                    *)

\* A session that fell back at its creation has no other backend than the CPU, so
\* used_creation_fallback makes no difference here.
from_context == [backend |-> stage, batches |-> 0, fallbacks |-> 0]
record(s, answer) ==
    [backend |-> CASE s.batches > 0 /\ s.backend # answer.backend -> "mixed"
                   [] s.batches = 0 -> answer.backend
                   [] OTHER -> s.backend,
     batches |-> s.batches + 1,
     fallbacks |-> s.fallbacks + IF answer.fallback THEN 1 ELSE 0]
\* Mutant of SummaryBackend: a record without a batch is taken for one with.
EvenEmpty(s, t) == IF s.backend # t.backend THEN "mixed" ELSE s.backend
SummaryBackend(s, t) ==
    CASE s.batches > 0 /\ t.batches > 0 /\ s.backend # t.backend -> "mixed"
      [] s.batches = 0 -> t.backend
      [] OTHER -> s.backend
merge(s, t) ==
    [backend |-> SummaryBackend(s, t), batches |-> s.batches + t.batches, fallbacks |-> s.fallbacks + t.fallbacks]

-----------------------------------------------------------------------------
(* Tracing, of closest hits or of any.                                       *)

Analysis(c) == IF summary[c].batches = 0 THEN from_context ELSE summary[c]
Goto(c, pc) == call' = [call EXCEPT ![c].pc = pc]
Own(c, n) == [i \in 1..n |-> <<c, i>>]

\* The request is counted before anything is known about it.
trace_closest(c) ==
    /\ stage \in {"cpu", "gpu"} /\ call[c].pc = "idle" /\ call[c].made < MaxTraces
    /\ \E n \in Requests : \E imprecise \in {0, n} :
         call' = [call EXCEPT ![c].pc = "counted", ![c].n = n, ![c].imprecise = imprecise,
                              ![c].made = @ + 1, ![c].hits = <<>>, ![c].broken = device.errors > 0]
    /\ counted' = [counted EXCEPT !.traces = @ + 1]
    /\ UNCHANGED <<creation, device, scratch, summary, used>>

\* An answer in the analysis of the caller: one corridor after the other is recorded,
\* the records of the views of a path are merged.
Return(c, answer) ==
    /\ call' = [call EXCEPT ![c].pc = "idle", ![c].answer = answer]
    /\ \/ summary' = [summary EXCEPT ![c] = record(Analysis(c), answer)]
       \/ summary' = [summary EXCEPT ![c] = merge(Analysis(c), record(from_context, answer))]
    /\ used' = [used EXCEPT ![c] = @ \cup {answer.backend}]
\* Who traces outside an analysis, for closest hits or for any, records nothing.
Direct(c, answer) ==
    /\ call' = [call EXCEPT ![c].pc = "idle", ![c].answer = answer]
    /\ UNCHANGED <<summary, used>>
Respond(c, answer) == Return(c, answer) \/ Direct(c, answer)
cpu_batch(fallback) == [backend |-> "cpu", fallback |-> fallback, clean |-> TRUE]

FallsBack == options.preference = "auto"
\* Any error of the batch: the caller gets it, unless the session is an Auto one.
TraceFails(c) ==
    IF FallsBack
    THEN \/ /\ Return(c, cpu_batch(TRUE))
            /\ counted' = [counted EXCEPT !.fallbacks = @ + 1]
         \/ /\ Direct(c, cpu_batch(TRUE))
            /\ counted' = [counted EXCEPT !.fallbacks = @ + 1, !.direct = @ + 1]
    ELSE /\ call' = [call EXCEPT ![c].pc = "idle", ![c].answer = [backend |-> "error", fallback |-> FALSE, clean |-> TRUE]]
         /\ UNCHANGED <<counted, summary, used>>

Check(c) ==
    /\ call[c].pc = "counted"
    /\ UNCHANGED <<creation, device, scratch>>
    /\ \/ stage = "cpu" /\ Respond(c, cpu_batch(FALSE)) /\ UNCHANGED counted
       \/ stage = "gpu" /\ ~require_healthy /\ TraceFails(c)
       \/ /\ stage = "gpu" /\ require_healthy /\ call[c].n = 0
          /\ Respond(c, [backend |-> "gpu", fallback |-> FALSE, clean |-> TRUE]) /\ UNCHANGED counted
       \/ /\ stage = "gpu" /\ require_healthy /\ call[c].n > 0
          /\ Goto(c, "locking") /\ UNCHANGED <<counted, summary, used>>

\* The arena grows to the next power of two, never over the limit of a slot.
MAXIMUM_REUSABLE_RAYS_PER_SLOT == 262144
PowersOfTwo == {1, 2, 4, 8, 16, 32, 64, 128, 256, 512, 1024, 2048, 4096, 8192, 16384, 32768, 65536,
                131072, 262144}
maximum_slot_capacity == Least(maximum_rays_per_dispatch, MAXIMUM_REUSABLE_RAYS_PER_SLOT)
NextPowerOfTwo(n) == Min({p \in PowersOfTwo : p >= n})
\* Mutant of Capacity: the power of two is not limited.
Unlimited(n) == NextPowerOfTwo(n)
Capacity(n) == Least(NextPowerOfTwo(n), maximum_slot_capacity)
\* New buffers hold nothing of what the old ones held.
FreshSlots == [slot \in 1..2 |-> [rays |-> <<>>, geometry |-> 0]]
ensure_capacity(n) ==
    IF scratch.capacity >= n THEN scratch
    ELSE [scratch EXCEPT !.capacity = Capacity(n), !.slots = FreshSlots]
Lock(c) ==
    /\ call[c].pc = "locking" /\ scratch.holder = None
    /\ LET required == Least(call[c].n, maximum_slot_capacity)
       IN  scratch' = [ensure_capacity(required) EXCEPT !.holder = c]
    /\ call' = [call EXCEPT ![c].pc = "geometry", ![c].geometry = 1, ![c].next = 1,
                            ![c].hits = [i \in 1..call[c].n |-> {}]]
    /\ UNCHANGED <<creation, device, counted, summary, used>>

\* Leaving the lock with an error, the device marked or not.
Abort(c) ==
    /\ scratch' = [scratch EXCEPT !.holder = None]
    /\ TraceFails(c)
    /\ UNCHANGED creation

\* A single chunk was uploaded when the session was created.
upload_scene(c) ==
    /\ call[c].pc = "geometry"
    /\ scratch' = IF Len(plan.chunks) > 1 THEN [scratch EXCEPT !.geometry = call[c].geometry] ELSE scratch
    /\ call' = [call EXCEPT ![c].pc = "pack", ![c].next = 1]
    /\ UNCHANGED <<creation, device, counted, summary, used>>

\* The rays of a slot: one chunk of the request, or nothing.
Chunk(c, slot) ==
    LET first == (call[c].next + slot - 2) * scratch.capacity + 1
    IN  SubSeq(Own(c, call[c].n), first, Least(first + scratch.capacity - 1, call[c].n))
PrecisionExceeded(c) == \E slot \in 1..2 : \E r \in Range(Chunk(c, slot)) : r[2] = call[c].imprecise
pack_rays_into(c) ==
    /\ call[c].pc = "pack" /\ Chunk(c, 1) # <<>>
    /\ IF PrecisionExceeded(c) THEN Abort(c) /\ UNCHANGED device
       ELSE /\ scratch' = [scratch EXCEPT !.slots = [slot \in 1..2 |->
                             [rays |-> Chunk(c, slot), geometry |-> scratch.geometry]]]
            /\ Goto(c, "submit")
            /\ UNCHANGED <<creation, device, counted, summary, used>>

\* Dispatches run and the readback buffers are mapped, or polling, receiving or
\* mapping reports an error.
Submit(c) ==
    /\ call[c].pc = "submit"
    /\ Goto(c, "readback")
    /\ UNCHANGED <<creation, device, counted, scratch, summary, used>>
execution_error(c) ==
    /\ call[c].pc \in {"submit", "readback"} /\ device.faults < MaxFaults
    /\ device' = [record_execution_failure EXCEPT !.faults = @ + 1]
    /\ Abort(c)

\* Mutant of RayOffset: the slot is taken for the chunk.
SlotOffset(c, slot) == (slot - 1) * scratch.capacity
RayOffset(c, slot) == (call[c].next + slot - 2) * scratch.capacity
merge_hit(c) ==
    [i \in DOMAIN call[c].hits |->
       call[c].hits[i] \cup {<<scratch.slots[s].geometry, scratch.slots[s].rays[i - RayOffset(c, s)]>> :
                              s \in {t \in 1..2 : i - RayOffset(c, t) \in DOMAIN scratch.slots[t].rays}}]
Readback(c) ==
    /\ call[c].pc = "readback"
    /\ call' = [call EXCEPT ![c].pc = "pack", ![c].hits = merge_hit(c), ![c].next = @ + 2]
    /\ UNCHANGED <<creation, device, counted, scratch, summary, used>>

\* The next chunk of the geometry, or the answer.
Whole(c) == \A i \in 1..call[c].n : call[c].hits[i] = {<<g, <<c, i>>>> : g \in DOMAIN plan.chunks}
ChunkDone(c) ==
    /\ call[c].pc = "pack" /\ Chunk(c, 1) = <<>>
    /\ IF call[c].geometry < Len(plan.chunks)
       THEN /\ call' = [call EXCEPT ![c].pc = "geometry", ![c].geometry = @ + 1]
            /\ UNCHANGED <<creation, device, counted, scratch, summary, used>>
       ELSE /\ counted' = [counted EXCEPT !.batches = @ + 1]
            /\ scratch' = [scratch EXCEPT !.holder = None]
            /\ Respond(c, [backend |-> "gpu", fallback |-> FALSE, clean |-> Whole(c)])
            /\ UNCHANGED <<creation, device>>

-----------------------------------------------------------------------------
SessionInit ==
    /\ sessionScene \in Scenes /\ options \in Policies
    /\ stage = "new" /\ plan = [of |-> None, chunks |-> <<>>]
    /\ \E holds \in {None, "scene", "other"} : stores = <<holds>>
    /\ store = 0
    /\ device = [lost |-> FALSE, losses |-> 0, errors |-> 0, faults |-> 0]
    /\ counted = [traces |-> 0, fallbacks |-> 0, batches |-> 0, direct |-> 0]
    /\ scratch = [capacity |-> 0, holder |-> None, geometry |-> 1, slots |-> FreshSlots]
    /\ call = [c \in Threads |-> [pc |-> "idle", n |-> 0, imprecise |-> 0, made |-> 0, geometry |-> 1, next |-> 1,
                                  hits |-> <<>>, broken |-> FALSE,
                                  answer |-> [backend |-> None, fallback |-> FALSE, clean |-> TRUE]]]
    /\ summary = [c \in Threads |-> [backend |-> None, batches |-> 0, fallbacks |-> 0]]
    /\ used = [c \in Threads |-> {}]

Done == /\ Created
        /\ \A c \in Threads : call[c].pc = "idle" /\ (stage = "refused" \/ call[c].made = MaxTraces)
        /\ UNCHANGED sessionVars

SessionNext ==
    \/ Create \/ NoAdapter \/ request_adapter \/ RestorePlan \/ MissPlan \/ load_or_build_scene_plan \/ open_device
    \/ configure_scene_cache \/ clear_scene_cache \/ LoseDevice
    \/ \E c \in Threads :
         \/ trace_closest(c) \/ Check(c) \/ Lock(c) \/ upload_scene(c) \/ pack_rays_into(c)
         \/ Submit(c) \/ execution_error(c) \/ Readback(c) \/ ChunkDone(c)
    \/ Done
SessionSpec == SessionInit /\ [][SessionNext]_sessionVars

-----------------------------------------------------------------------------
(* Properties.                                                               *)

Answered(c, backend) == call[c].pc = "idle" /\ call[c].answer.backend = backend

\* What the GPU answers has every chunk of the geometry merged into every ray once
\* it was traced, each from its own readback, however the rays were cut into slots
\* and however the batches of two threads follow each other.
HitsAreWhole == \A c \in Threads : call[c].answer.clean

\* An Auto session answers every batch; one that requires the GPU never answers
\* from the CPU; and no batch that begins after the device has failed once is
\* answered by it.
BrokenDeviceIsLeft ==
    \A c \in Threads :
       /\ Answered(c, "error") => options.preference = "require"
       /\ Answered(c, "cpu") => options.preference # "require"
       /\ Answered(c, "gpu") => ~call[c].broken

\* The record that an analysis reports with its result names the backends that
\* answered it, and the batches that fell back, of all analyses and of traces outside
\* any, are those the session counted.
RecordsAreTrue ==
    /\ \A c \in Threads : used[c] # {} =>
          summary[c].backend = IF Cardinality(used[c]) = 1 THEN CHOOSE b \in used[c] : TRUE ELSE "mixed"
    /\ counted.fallbacks = counted.direct + MapThenSumSet(LAMBDA c : summary[c].fallbacks, Threads)

\* Whatever the scene cache holds or held when the session was created, and
\* whoever replaced or cleared it meanwhile, the session traces its own scene.
PlanIsOfTheScene == stage = "gpu" => plan.of = "scene"

\* However the arena grows, the rays that fit leave room for the largest chunk.
ArenaWithinBudget ==
    stage = "gpu" => approximate_gpu_bytes + RayBytes * scratch.capacity <= options.gpuBytes

\* maximum_gpu_memory_bytes, in the words of its documentation: "Hard cap for the
\* retained geometry working set plus reusable ray scratch buffers."
GpuMemoryIsCapped == stage = "gpu" => SceneBytes + RayBytes * scratch.capacity <= options.gpuBytes
=============================================================================
