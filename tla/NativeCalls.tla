----------------------------- MODULE NativeCalls -----------------------------
(***************************************************************************)
(* The C ABI (crates/xvarna-ffi), one definition per exported function: a   *)
(* call checks its pointers, lengths and rows, finds the object its handle  *)
(* names, runs the engine and only then writes to the caller's buffers.     *)
(* What can go wrong is the ORDER of these steps, because most functions    *)
(* report through several buffers, and a few change the engine's state      *)
(* before they know whether the answer fits.                                *)
(*                                                                         *)
(* A function is the sequence of its steps in the order of its code.        *)
(* Numbers, rows and results are left out: a step either refuses the call   *)
(* with one of the codes the source gives it, or the call goes on.          *)
(*                                                                         *)
(* Callers are threads of the host process.  Functions of different         *)
(* families share no state but the scene table, which SceneRegistry models; *)
(* Init picks the family the callers use.                                   *)
(***************************************************************************)
EXTENDS Integers, Sequences, FiniteSets

CONSTANTS Callers,      \* threads of the host
          MaxBatches,   \* batches an optimizer or a study gets in a behaviour
          MaxCapacity   \* the largest buffer a caller brings

ASSUME NativeAssumption == IsFiniteSet(Callers) /\ MaxBatches \in Nat /\ MaxCapacity \in Nat

VARIABLES family,       \* the family of functions the callers use
          calls,        \* the call each caller makes, or made last
          scene,        \* "none", "building", "small" or "large": what the scene handle names
          session,      \* is the compute session in its table?
          optimizer,    \* the optimizer behind its handle
          study,        \* the study directory the workspace functions work on
          told          \* handles some caller was given

vars == <<family, calls, scene, session, optimizer, study, told>>

-----------------------------------------------------------------------------
(* The exported functions.                                                   *)

\* What most analyses of a scene do: everything is checked before the scene is
\* looked up, and everything is computed before anything is written.
Checked == <<"pointers", "options", "lengths", "slices", "rows">>
Answer  == <<"outputs", "metadata">>

xv_mesh_audit == <<"pointers", "lengths", "slices", "options", "compute">> \o Answer

\* daena.rs
xv_scene_isovist          == Checked \o <<"scene", "compute">> \o Answer
xv_scene_intervisibility  == Checked \o <<"scene", "compute">> \o Answer
xv_scene_visibility_graph == Checked \o <<"scene", "compute">> \o Answer
\* Mutant of xv_scene_sparse_visibility_graph: the counts reported before the pairs are known to fit.
MetadataBeforeTheCheck ==
    Checked \o <<"scene", "compute", "metadata", "fits", "slices", "outputs">>
xv_scene_sparse_visibility_graph ==
    Checked \o <<"scene", "compute", "fits", "slices">> \o Answer

\* daena_advanced.rs
xv_scene_target_view ==
    <<"pointers", "options", "slices", "lengths", "slices", "rows", "scene", "execute">> \o Answer
xv_scene_view_corridor == Checked \o <<"scene", "execute">> \o Answer
xv_scene_observer_path ==
    <<"pointers", "options", "slices", "rows", "lengths", "slices", "scene", "execute", "columns">>
    \o Answer

\* daena_compute.rs: the same analyses on a compute session.
xv_compute_target_view ==
    <<"pointers", "options", "slices", "lengths", "slices", "rows", "session", "execute">> \o Answer
xv_compute_view_corridor == Checked \o <<"session", "execute">> \o Answer
xv_compute_observer_path ==
    <<"pointers", "options", "slices", "rows", "lengths", "slices", "session", "execute", "columns">>
    \o Answer

\* daena_intelligence.rs
write_isovist_3d == <<"fits", "slices", "outputs">>
write_landmarks == <<"fits", "slices", "outputs">>
xv_scene_isovist_3d == Checked \o <<"scene", "execute">> \o write_isovist_3d \o <<"metadata">>
xv_scene_landmark_visibility == Checked \o <<"scene", "execute">> \o write_landmarks \o <<"metadata">>

\* sky.rs, irradiance.rs, daylight.rs: with a job the caller may cancel.
xv_scene_sky_view == Checked \o <<"job", "scene", "controlled">> \o Answer
xv_epw_inspect == <<"pointers", "slices", "rows", "metadata">>
xv_scene_annual_irradiance ==
    <<"pointers", "options", "slices", "rows", "lengths", "slices", "rows", "job", "scene", "controlled">>
    \o Answer
parse_materials == <<"rows">>
parse_annual_options == <<"options">>
xv_scene_point_illuminance ==
    <<"pointers", "lengths", "slices", "rows", "slices">> \o parse_materials \o
    <<"rows", "options", "slices", "job", "lengths", "scene", "controlled">> \o Answer
xv_scene_daylight_factor ==
    <<"pointers", "lengths", "slices", "rows", "slices">> \o parse_materials \o
    <<"options", "slices", "scene", "compute">> \o Answer
xv_scene_annual_daylight ==
    <<"pointers", "slices", "rows", "lengths", "slices", "rows", "slices">> \o parse_materials \o
    parse_annual_options \o <<"slices", "job", "lengths", "scene", "controlled">> \o Answer
xv_daylight_compare == <<"pointers", "slices", "compute", "metadata">>
xv_scene_radiance_export_section ==
    <<"pointers", "slices", "rows", "slices">> \o parse_materials \o
    <<"scene", "execute", "options", "metadata", "sizing", "fits", "slices", "outputs">>

\* solar.rs, solar_intelligence.rs
xv_sun_positions ==
    <<"pointers", "lengths", "options", "slices", "options", "rows", "compute">> \o Answer
xv_scene_direct_sun ==
    <<"pointers", "lengths", "options", "lengths", "slices", "rows", "scene", "compute">> \o Answer
scenarios_from_ffi == <<"lengths", "rows">>
xv_scene_compare_solar_scenarios ==
    Checked \o scenarios_from_ffi \o <<"scene", "compute", "fits", "slices">> \o Answer
execute_solar_envelope == <<"rows", "scene", "compute">> \o Answer
xv_scene_solar_envelope ==
    <<"pointers", "lengths", "options", "slices", "rows">> \o execute_solar_envelope
xv_scene_solar_envelope_oriented ==
    <<"pointers", "lengths", "options", "slices", "rows">> \o execute_solar_envelope

\* surface.rs
xv_surface_grid ==
    <<"pointers", "options", "lengths", "slices", "compute", "metadata", "sizing", "fits", "slices",
      "outputs">>
xv_surface_pv_potential ==
    <<"pointers", "options", "slices", "rows", "compute", "metadata", "sizing", "fits", "slices",
      "outputs">>

\* study.rs
problem_from_ffi == <<"rows">>
xv_study_rank ==
    <<"pointers", "lengths", "slices">> \o problem_from_ffi \o <<"compute">> \o Answer
xv_study_spearman == <<"lengths", "slices">> \o problem_from_ffi \o <<"compute", "outputs">>
xv_study_hypervolume_2d == <<"pointers", "slices">> \o problem_from_ffi \o <<"compute", "metadata">>
xv_optimizer_create ==
    <<"pointers", "options", "slices">> \o problem_from_ffi \o
    <<"compute", "insert_optimizer", "metadata">>
xv_optimizer_ask ==
    <<"pointers", "optimizer", "ask", "lengths", "fits", "slices", "columns">> \o Answer
xv_optimizer_tell ==
    <<"pointers", "slices", "lengths", "chunks", "optimizer", "tell", "fits", "slices">> \o Answer
xv_optimizer_release == <<"remove_optimizer">>

\* scene.rs and compute.rs: queries, sessions and the payload cache.
xv_scene_get_stats == <<"pointers", "scene", "metadata">>
xv_scene_trace_closest == <<"lengths", "slices", "scene", "rows", "outputs">>
xv_scene_trace_any == <<"lengths", "slices", "scene", "rows", "outputs">>
xv_cache_configure == <<"pointers", "options", "slices", "options", "execute">>
xv_cache_get_stats == <<"pointers", "execute", "metadata">>
xv_cache_clear == <<"execute">>
xv_compute_enumerate_adapters == <<"pointers", "size", "sizing", "fits", "slices", "outputs">>
\* Mutant of create_session: the handle exists before the session does.
InsertedFirst == <<"scene", "insert_session", "execute">>
create_session == <<"scene", "execute", "insert_session">>
convert_options == <<"options">>
xv_compute_create == <<"pointers">> \o convert_options \o create_session \o <<"metadata">>
xv_compute_create_for_adapter ==
    <<"pointers", "options", "slices", "options">> \o convert_options \o create_session \o <<"metadata">>
xv_compute_trace_closest ==
    <<"pointers", "lengths", "slices", "rows", "session", "execute">> \o Answer
xv_compute_trace_any ==
    <<"pointers", "lengths", "slices", "rows", "session", "execute">> \o Answer
xv_compute_get_runtime_stats == <<"pointers", "session", "metadata">>
xv_compute_release == <<"remove_session">>

\* study_evidence.rs and study_platform.rs: JSON in, JSON out.  A first call with
\* no buffer learns the size; by then the engine has done its work.
read_utf8  == <<"slices", "options">>
write_utf8 == <<"pointers", "size", "sizing", "fits", "slices", "outputs">>
run_json(operation) == read_utf8 \o <<"rows">> \o operation \o <<"serialize">> \o write_utf8
seal_passport       == run_json(<<"compute">>)
create_design       == run_json(<<"compute">>)
analyze_sensitivity == run_json(<<"compute">>)
aggregate_scenarios == run_json(<<"compute">>)
rank_uncertainty    == run_json(<<"compute">>)
select_fidelity     == run_json(<<"compute">>)
xv_study_manifest_schema_json == <<"serialize">> \o write_utf8
xv_study_workspace_create ==
    read_utf8 \o read_utf8 \o <<"rows", "create", "serialize">> \o write_utf8
xv_study_workspace_status == read_utf8 \o <<"open", "serialize">> \o write_utf8
xv_study_workspace_begin_batch == read_utf8 \o <<"open", "begin", "serialize">> \o write_utf8
xv_study_workspace_commit_batch ==
    read_utf8 \o read_utf8 \o <<"rows", "open", "commit", "serialize">> \o write_utf8
xv_study_workspace_report ==
    <<"pointers">> \o read_utf8 \o read_utf8 \o
    <<"options", "lengths", "open", "execute", "serialize">> \o write_utf8

\* Functions that share no state with those of another family.
Science ==
    [xv_mesh_audit |-> xv_mesh_audit, xv_scene_isovist |-> xv_scene_isovist,
     xv_scene_intervisibility |-> xv_scene_intervisibility,
     xv_scene_visibility_graph |-> xv_scene_visibility_graph,
     xv_scene_sparse_visibility_graph |-> xv_scene_sparse_visibility_graph,
     xv_scene_target_view |-> xv_scene_target_view, xv_scene_view_corridor |-> xv_scene_view_corridor,
     xv_scene_observer_path |-> xv_scene_observer_path, xv_scene_isovist_3d |-> xv_scene_isovist_3d,
     xv_scene_landmark_visibility |-> xv_scene_landmark_visibility,
     xv_scene_sky_view |-> xv_scene_sky_view, xv_epw_inspect |-> xv_epw_inspect,
     xv_scene_annual_irradiance |-> xv_scene_annual_irradiance,
     xv_scene_point_illuminance |-> xv_scene_point_illuminance,
     xv_scene_daylight_factor |-> xv_scene_daylight_factor,
     xv_scene_annual_daylight |-> xv_scene_annual_daylight, xv_daylight_compare |-> xv_daylight_compare,
     xv_scene_radiance_export_section |-> xv_scene_radiance_export_section,
     xv_sun_positions |-> xv_sun_positions, xv_scene_direct_sun |-> xv_scene_direct_sun,
     xv_scene_compare_solar_scenarios |-> xv_scene_compare_solar_scenarios,
     xv_scene_solar_envelope |-> xv_scene_solar_envelope,
     xv_scene_solar_envelope_oriented |-> xv_scene_solar_envelope_oriented,
     xv_surface_grid |-> xv_surface_grid, xv_surface_pv_potential |-> xv_surface_pv_potential,
     xv_study_rank |-> xv_study_rank, xv_study_spearman |-> xv_study_spearman,
     xv_study_hypervolume_2d |-> xv_study_hypervolume_2d, xv_scene_get_stats |-> xv_scene_get_stats,
     xv_scene_trace_closest |-> xv_scene_trace_closest, xv_scene_trace_any |-> xv_scene_trace_any,
     xv_cache_configure |-> xv_cache_configure, xv_cache_get_stats |-> xv_cache_get_stats,
     xv_cache_clear |-> xv_cache_clear, xv_compute_enumerate_adapters |-> xv_compute_enumerate_adapters,
     xv_evidence_passport_seal_json |-> seal_passport, xv_sensitivity_design_json |-> create_design,
     xv_sensitivity_analyze_json |-> analyze_sensitivity, xv_robust_scenarios_json |-> aggregate_scenarios,
     xv_uncertainty_rank_json |-> rank_uncertainty, xv_multifidelity_recommend_json |-> select_fidelity,
     xv_study_manifest_schema_json |-> xv_study_manifest_schema_json]
Sessions ==
    [xv_compute_create |-> xv_compute_create,
     xv_compute_create_for_adapter |-> xv_compute_create_for_adapter,
     xv_compute_target_view |-> xv_compute_target_view,
     xv_compute_view_corridor |-> xv_compute_view_corridor,
     xv_compute_observer_path |-> xv_compute_observer_path,
     xv_compute_trace_closest |-> xv_compute_trace_closest, xv_compute_trace_any |-> xv_compute_trace_any,
     xv_compute_get_runtime_stats |-> xv_compute_get_runtime_stats,
     xv_compute_release |-> xv_compute_release]
Optimizers ==
    [xv_optimizer_create |-> xv_optimizer_create, xv_optimizer_ask |-> xv_optimizer_ask,
     xv_optimizer_tell |-> xv_optimizer_tell, xv_optimizer_release |-> xv_optimizer_release]
Workspaces ==
    [xv_study_workspace_create |-> xv_study_workspace_create,
     xv_study_workspace_status |-> xv_study_workspace_status,
     xv_study_workspace_begin_batch |-> xv_study_workspace_begin_batch,
     xv_study_workspace_commit_batch |-> xv_study_workspace_commit_batch,
     xv_study_workspace_report |-> xv_study_workspace_report]
Families == [science |-> Science, sessions |-> Sessions, optimizers |-> Optimizers,
             workspaces |-> Workspaces]
Code(function) == Families[family][function]

-----------------------------------------------------------------------------
(* A call under way.                                                         *)

\* The steps that can refuse the call whatever the state is: checks of the
\* arguments, and the engine when it fails, is cancelled or panics (ffi_status
\* catches a panic, such as the one of dividing the objectives into rows of
\* length zero, study.rs:649).
Fallible == {"pointers", "options", "lengths", "slices", "rows", "job", "compute", "execute",
             "controlled", "columns", "chunks", "serialize"}

\* The batch and the evaluations, or the manifest, that a caller names.
Arguments == [batch : 0..MaxBatches, version : {"one", "other"}]
NoArgument == [batch |-> 0, version |-> "one"]
\* A host tells the results of candidates that it was given.
ArgumentsOf(function) ==
    CASE function = "xv_study_workspace_create" -> {a \in Arguments : a.batch = 0}
      [] function = "xv_study_workspace_commit_batch" -> {a \in Arguments : a.batch > 0}
      [] function = "xv_optimizer_tell" -> 
               {a \in Arguments : a.batch \in optimizer.seen /\ a.version = "one"}
      [] OTHER -> {NoArgument}

\* current: nothing changed since the engine computed the answer.
\* informed: the caller made the call knowing the size of the answer.
\* taken: the batch that this call took from the optimizer.
Idle == [function |-> "", argument |-> NoArgument, rest |-> <<>>, capacity |-> 0, required |-> 1,
         taken |-> 0, current |-> TRUE, informed |-> FALSE, at |-> "", wrote |-> {}]

\* The functions whose sizing pass gives the whole metadata record, results included
\* (areas, energies and yields, the content hash of a bundle), not a bare size.
MetadataOnly == {"xv_surface_grid", "xv_surface_pv_potential", "xv_scene_radiance_export_section"}
\* What the caller learns the size of the answer from.
SizingRecord(function) == IF function \in MetadataOnly THEN "metadata" ELSE "size"
Learned(call) == SizingRecord(call.function) \in call.wrote

Running(c) == calls[c].rest # <<>>
At(c, step) == calls[c].rest # <<>> /\ Head(calls[c].rest) = step

\* The call goes on; of a call that is over only what its caller learned is kept.
Over(call) ==
    IF Learned(call) THEN [call EXCEPT !.rest = <<>>, !.capacity = 0]
                     ELSE [Idle EXCEPT !.informed = call.informed, !.wrote = call.wrote]
Advanced(call) ==
    IF Len(call.rest) = 1 THEN [Over(call) EXCEPT !.informed = FALSE] ELSE [call EXCEPT !.rest = Tail(@)]
GoOn(c) == calls' = [calls EXCEPT ![c] = Advanced(@)]
GoOnWith(c, required) ==
    calls' = [calls EXCEPT ![c] = Advanced([@ EXCEPT !.required = required, !.current = TRUE])]

\* Answers of other callers grow old once somebody changes what they tell.
Outdated(call) ==
    IF call.rest = <<>> THEN Idle ELSE [call EXCEPT !.current = FALSE, !.informed = FALSE]
GoOnChanging(c, required) ==
    calls' = [d \in Callers |->
                IF d = c THEN Advanced([calls[c] EXCEPT !.required = required, !.current = TRUE])
                         ELSE Outdated(calls[d])]

\* The call ends early, at a step.  What it took from the optimizer is lost.
EndAt(c, step) ==
    /\ calls' = [calls EXCEPT ![c] = [Over(@) EXCEPT !.at = step]]
    /\ optimizer' = [optimizer EXCEPT !.lost = @ \cup ({calls[c].taken} \ {0})]
Refused(c) == EndAt(c, Head(calls[c].rest))

-----------------------------------------------------------------------------
(* The steps.                                                                *)

\* The buffer matters where the size of the answer is not known beforehand.
Capacities(function) ==
    IF \E i \in DOMAIN Code(function) : Code(function)[i] = "fits" THEN 0..MaxCapacity ELSE {0}

\* Calls that may still take a batch.
Asking == {d \in Callers : Running(d) /\ calls[d].function = "xv_optimizer_ask" /\ calls[d].taken = 0}

\* The host calls a function.  A function of the science family changes nothing
\* and reads at most the scene table, at one step: its interleavings with other
\* calls differ only in what that step finds, so one caller is enough.  A study has
\* one writer, and is read only after its operation completed
\* (docs/sdk/study-platform.md), so its calls do not overlap.
Call(c, function) ==
    /\ ~Running(c)
    /\ family = "science" => \A d \in Callers \ {c} : calls[d] = Idle
    /\ family = "workspaces" => \A d \in Callers : ~Running(d)
    /\ function = "xv_optimizer_create" => optimizer.handle = "none"
    /\ function = "xv_optimizer_ask" => optimizer.batches + Cardinality(Asking) < MaxBatches
    /\ function \in {"xv_compute_create", "xv_compute_create_for_adapter"} => session = "none"
    /\ \E argument \in ArgumentsOf(function), capacity \in Capacities(function) :
          calls' = [calls EXCEPT ![c] =
             [Idle EXCEPT !.function = function, !.argument = argument, !.rest = Code(function),
                          !.capacity = capacity,
                          !.informed = /\ calls[c].current /\ Learned(calls[c])
                                       /\ calls[c].function = function
                                       /\ calls[c].argument = argument
                                       /\ capacity >= calls[c].required]]
    /\ UNCHANGED <<family, scene, session, optimizer, study, told>>

\* The checks and the computation up to the next step that looks at a table,
\* changes the engine or writes to the caller: nobody sees the order in which the
\* threads of the host do these, so they are one step.
Local(rest) == {n \in 1..Len(rest) : \A i \in 1..n : rest[i] \in Fallible}

Refuse(c) ==
    /\ \E n \in Local(calls[c].rest) : EndAt(c, calls[c].rest[n])
    /\ UNCHANGED <<family, scene, session, study, told>>

Pass(c) ==
    /\ Local(calls[c].rest) # {}
    /\ LET n == Cardinality(Local(calls[c].rest)) IN
         calls' = [calls EXCEPT ![c] =
                     Advanced([@ EXCEPT !.rest = SubSeq(calls[c].rest, n, Len(calls[c].rest))])]
    /\ UNCHANGED <<family, scene, session, optimizer, study, told>>

\* get_ready_scene: the call keeps the snapshot it found, and reports what is in it.
FindScene(c) ==
    /\ At(c, "scene")
    /\ CASE scene = "none"     -> Refused(c)
         [] scene = "building" -> Refused(c)
         [] scene = "small"    -> GoOnWith(c, 1) /\ UNCHANGED optimizer
         [] scene = "large"    -> GoOnWith(c, 2) /\ UNCHANGED optimizer
    /\ UNCHANGED <<family, scene, session, study, told>>

\* get_session, get_optimizer
FindHandle(c) ==
    /\ At(c, "session") \/ At(c, "optimizer")
    /\ IF (IF At(c, "session") THEN session ELSE optimizer.handle) = "live"
         THEN GoOn(c) /\ UNCHANGED optimizer
         ELSE Refused(c)
    /\ UNCHANGED <<family, scene, session, study, told>>

\* create_session, xv_optimizer_create: the object enters its table.
Insert(c) ==
    /\ \/ At(c, "insert_session") /\ session = "none" /\ session' = "live" /\ UNCHANGED optimizer
       \/ /\ At(c, "insert_optimizer") /\ optimizer.handle = "none"
          /\ optimizer' = [optimizer EXCEPT !.handle = "live"]
          /\ UNCHANGED session
    /\ GoOn(c)
    /\ UNCHANGED <<family, scene, study, told>>

\* xv_compute_release, xv_optimizer_release: out of the table; calls that found
\* the object keep it.
RemoveHandle(c) ==
    /\ \/ /\ At(c, "remove_session")
          /\ IF session = "live" THEN session' = "released" /\ GoOn(c) /\ UNCHANGED optimizer
                                 ELSE Refused(c) /\ UNCHANGED session
       \/ /\ At(c, "remove_optimizer")
          /\ IF optimizer.handle = "live"
               THEN optimizer' = [optimizer EXCEPT !.handle = "released"] /\ GoOn(c)
               ELSE Refused(c)
          /\ UNCHANGED session
    /\ UNCHANGED <<family, scene, study, told>>

\* MultiObjectiveOptimizer::ask, under the optimizer's lock.
Ask(c) ==
    /\ At(c, "ask")
    /\ IF optimizer.pending # 0
         THEN Refused(c)
         ELSE /\ optimizer' = [optimizer EXCEPT !.pending = optimizer.batches + 1, !.batches = @ + 1]
              /\ calls' = [calls EXCEPT ![c] = Advanced([@ EXCEPT !.taken = optimizer.batches + 1])]
    /\ UNCHANGED <<family, scene, session, study, told>>

\* MultiObjectiveOptimizer::tell, under the optimizer's lock: all of the pending
\* batch or nothing.
Accepted(batch) == batch # 0 /\ batch = optimizer.pending
\* Mutant of Told: the batch stays pending.
ToldButPending(batch) == [optimizer EXCEPT !.evaluated[batch] = @ + 1]
Told(batch) == [optimizer EXCEPT !.pending = 0, !.evaluated[batch] = @ + 1]
Tell(c) ==
    /\ At(c, "tell")
    /\ \/ /\ Accepted(calls[c].argument.batch)
          /\ optimizer' = Told(calls[c].argument.batch)
          /\ GoOn(c)
       \/ Refused(c)
    /\ UNCHANGED <<family, scene, session, study, told>>

\* The size of what the study functions answer.
ResumeSize(s) == IF s.active # 0 THEN 2 ELSE 1
BatchSize(batch) == 1 + (batch % 2)

\* The directory cannot be read or written: the code cannot go on, whatever the study.
DiskFails(c) ==
    /\ At(c, "open") \/ At(c, "create") \/ At(c, "begin") \/ At(c, "commit")
    /\ EndAt(c, "disk")
    /\ UNCHANGED <<family, scene, session, study, told>>

\* StudyWorkspace::open, and resume_state for the function that only reports it.
OpenStudy(c) ==
    /\ At(c, "open")
    /\ IF study.exists THEN GoOnWith(c, ResumeSize(study)) /\ UNCHANGED optimizer
                       ELSE Refused(c)
    /\ UNCHANGED <<family, scene, session, study, told>>

\* StudyWorkspace::create; a study that exists with the same manifest is opened.
CreateStudy(c) ==
    /\ At(c, "create")
    /\ LET manifest == calls[c].argument.version IN
         IF ~study.exists
           THEN LET s == [study EXCEPT !.exists = TRUE, !.manifest = manifest]
                IN  study' = s /\ GoOnChanging(c, ResumeSize(s)) /\ UNCHANGED optimizer
           ELSE /\ UNCHANGED study
                /\ IF study.manifest = manifest
                     THEN GoOnWith(c, ResumeSize(study)) /\ UNCHANGED optimizer
                     ELSE Refused(c)
    /\ UNCHANGED <<family, scene, session, told>>

\* StudyWorkspace::begin_batch: the active batch again, or the next one.
BeginBatch(c) ==
    /\ At(c, "begin")
    /\ IF study.active # 0
         THEN GoOnWith(c, BatchSize(study.active)) /\ UNCHANGED study
         ELSE /\ study.batches < MaxBatches
              /\ study' = [study EXCEPT !.active = study.batches + 1, !.batches = @ + 1]
              /\ GoOnChanging(c, BatchSize(study.batches + 1))
    /\ UNCHANGED <<family, scene, session, optimizer, told>>

\* Mutant of Repeated: a completed batch is closed to everybody.
NeverRepeated(batch, evaluations) == FALSE
Repeated(batch, evaluations) == study.done[batch] = evaluations

\* StudyWorkspace::commit_batch: the active batch, or a completed one once more
\* with the evaluations it was completed with.
CommitBatch(c) ==
    /\ At(c, "commit")
    /\ LET batch == calls[c].argument.batch
           evaluations == calls[c].argument.version IN
         CASE Repeated(batch, evaluations) ->
                GoOnWith(c, ResumeSize(study)) /\ UNCHANGED <<study, optimizer>>
           [] ~Repeated(batch, evaluations) /\ study.active = batch ->
                LET s == [study EXCEPT !.active = 0, !.done[batch] = evaluations]
                IN  study' = s /\ GoOnChanging(c, ResumeSize(s)) /\ UNCHANGED optimizer
           [] OTHER -> Refused(c) /\ UNCHANGED study
    /\ UNCHANGED <<family, scene, session, told>>

\* The size of the answer, before anything else is written.
Write(c, what) ==
    calls' = [calls EXCEPT ![c] = Advanced([@ EXCEPT !.wrote = calls[c].wrote \cup {what}])]
WriteSize(c) ==
    /\ At(c, "size") /\ Write(c, "size")
    /\ UNCHANGED <<family, scene, session, optimizer, study, told>>

\* A caller without a buffer only asked for the size.  Three functions look at the
\* pointer as well: a buffer of capacity zero is then one that is too small.
PointerToo == {"xv_surface_grid", "xv_surface_pv_potential", "xv_compute_enumerate_adapters"}
Sizing(c) ==
    /\ At(c, "sizing")
    /\ \/ calls[c].capacity = 0 /\ calls' = [calls EXCEPT ![c] = [Over(@) EXCEPT !.informed = FALSE]]
       \/ (calls[c].capacity > 0 \/ calls[c].function \in PointerToo) /\ GoOn(c)
    /\ UNCHANGED <<family, scene, session, optimizer, study, told>>

Fits(c) ==
    /\ At(c, "fits")
    /\ IF calls[c].capacity < calls[c].required THEN Refused(c)
                                                ELSE GoOn(c) /\ UNCHANGED optimizer
    /\ UNCHANGED <<family, scene, session, study, told>>

\* The caller's buffers are filled; a batch, or a handle, is then known to it.
WriteOutputs(c) ==
    /\ At(c, "outputs") /\ Write(c, "outputs")
    /\ optimizer' = [optimizer EXCEPT !.seen = @ \cup ({calls[c].taken} \ {0})]
    /\ UNCHANGED <<family, scene, session, study, told>>
WriteMetadata(c) ==
    /\ At(c, "metadata") /\ Write(c, "metadata")
    /\ told' = told \cup (CASE calls[c].function = "xv_optimizer_create" -> {"optimizer"}
                            [] calls[c].function \in {"xv_compute_create", "xv_compute_create_for_adapter"}
                                 -> {"session"}
                            [] OTHER -> {})
    /\ UNCHANGED <<family, scene, session, optimizer, study>>

\* Other threads build, update and release the scene.
SceneMoves ==
    /\ family \in {"science", "sessions"}
    /\ \E s \in {"none", "building", "small", "large"} \ {scene} : scene' = s
    /\ calls' = [c \in Callers |-> Outdated(calls[c])]
    /\ UNCHANGED <<family, session, optimizer, study, told>>

Init == /\ family \in DOMAIN Families
        /\ calls = [c \in Callers |-> Idle]
        /\ scene = "none" /\ session = "none" /\ told = {}
        /\ optimizer = [handle |-> "none", pending |-> 0, batches |-> 0, seen |-> {}, lost |-> {},
                        evaluated |-> [b \in 1..MaxBatches |-> 0]]
        /\ study = [exists |-> FALSE, manifest |-> "one", active |-> 0, batches |-> 0,
                    done |-> [b \in 1..MaxBatches |-> "no"]]

Next == \/ \E c \in Callers :
             \/ \E function \in DOMAIN Families[family] : Call(c, function)
             \/ Refuse(c) \/ Pass(c)
             \/ FindScene(c) \/ FindHandle(c) \/ Insert(c) \/ RemoveHandle(c)
             \/ Ask(c) \/ Tell(c)
             \/ DiskFails(c) \/ OpenStudy(c) \/ CreateStudy(c) \/ BeginBatch(c) \/ CommitBatch(c)
             \/ WriteSize(c) \/ Sizing(c) \/ Fits(c) \/ WriteOutputs(c) \/ WriteMetadata(c)
        \/ SceneMoves

Spec == Init /\ [][Next]_vars

-----------------------------------------------------------------------------
(* Properties.                                                               *)

\* A refused call has written no more than the sizing pass of its function does:
\* nothing of the answer, and where the size has a place of its own, the size alone.
\* Every function checks in its own order, and some compute before they know whether
\* the answer fits.  The record of a metadata-only sizing pass (surface.rs:230, 303,
\* daylight.rs:737) holds results, and these three functions do leave it, complete,
\* behind a call they then refuse (surface.rs:287, 357, daylight.rs:789).
RefusalsWriteOnlyTheSizing ==
    \A c \in Callers : calls[c].at # "" => calls[c].wrote \subseteq {SizingRecord(calls[c].function)}

\* The sizing protocol (docs/sdk/study-platform.md:73) works although the first
\* call has already changed the study: the same call with a buffer of the size
\* it reported is not refused for that buffer or for the state the first call
\* left, unless somebody else changed the study or the scene in between.
SizingIsEnough ==
    \A c \in Callers :
       calls[c].informed /\ calls[c].at # "" => calls[c].at \in Fallible \cup {"disk"}

\* No refusal leaves an object behind in a table under a handle nobody was given.
HandlesAreKnown ==
    /\ optimizer.handle = "live" /\ "optimizer" \notin told =>
          \E c \in Callers : At(c, "metadata") /\ calls[c].function = "xv_optimizer_create"
    /\ session = "live" /\ "session" \notin told =>
          \E c \in Callers : At(c, "metadata") /\ calls[c].function \in
                                {"xv_compute_create", "xv_compute_create_for_adapter"}

\* A batch of the optimizer is evaluated at most once, whatever is refused and
\* retried: a tell refused for its buffers has been counted (study.rs:664).  And
\* the pending batch is one some caller was given, or is about to be given,
\* unless the ask that took it was refused for its buffers (study.rs:561).
BatchesAccounted ==
    /\ \A b \in 1..MaxBatches : optimizer.evaluated[b] <= 1
    /\ optimizer.pending # 0 =>
          \/ optimizer.pending \in optimizer.seen \cup optimizer.lost
          \/ \E c \in Callers : Running(c) /\ calls[c].taken = optimizer.pending

=============================================================================
