----------------------------- MODULE CommandLine -----------------------------
(***************************************************************************)
(* The command line (crates/xvarna-cli): every command is one process that  *)
(* parses its options, reads its inputs, computes, writes the exports that  *)
(* were asked for, prints and exits with a code.  A command is the sequence *)
(* of those steps in the order of the code, each with the code the process  *)
(* exits with when the step fails.                                          *)
(*                                                                         *)
(* What makes the order matter: files are truncated and then written in     *)
(* place, an output may be the file that was the input, a step may fail or  *)
(* the process may be killed half-way, other processes use the same files,  *)
(* and the user repeats what failed.  The study commands also change a      *)
(* study, through the library; StudyWorkspace shows that each change is     *)
(* atomic, which is how it appears here.                                    *)
(***************************************************************************)
EXTENDS Integers, Sequences, FiniteSets

CONSTANTS Shells,                 \* each runs commands one after the other
          Files,
          CommandSessions,        \* what they run: functions from Shells to sequences of uses, a
                                  \* use being a command, the files that its roles stand for and
                                  \* the options that are certainly given
          Initially,              \* Files -> "none" or "whole", and what the file is about
          MaxRepetitions          \* bound: failures, and repetitions, per shell

VARIABLES file,                   \* Files -> what is in it, who wrote it last, and the batch (or,
                                  \* a negative number, the weather) that it is about
          shell,                  \* the session of each, and the process it has started
          workspace               \* of a study: whether it exists, batches handed out, batches committed

commandVars == <<file, shell, workspace>>

-----------------------------------------------------------------------------
(* Steps.  A role is the file that an option or a positional argument names;  *)
(* the steps of an option that was not given are left out.                   *)

Step(do, of, code) == [do |-> do, of |-> of, code |-> code]
Options(exports) == <<Step("options", exports, 2)>>
Refusal == <<Step("compute", "", 2)>>
Computation == <<Step("compute", "", 1)>>
ToStdout == <<Step("print", "", 101)>>                       \* println! panics on a closed pipe
Verdict == <<Step("verdict", "", 1)>>
ReadLines(role, code) == <<Step("read lines", role, code)>>      \* OBJ, EPW, CSV: a part may pass
ReadJson(role, code) == <<Step("read json", role, code)>>        \* a part never parses
ReadSealed(role, code) == <<Step("read sealed", role, code)>>    \* nothing but the whole passes
ReadTool(role, code) == <<Step("read tool", role, code)>>        \* what an external program makes of it
MakeDirectory(code) == <<Step("directory", "", code)>>

\* fs::write truncates the file and writes it; BufWriter and the Parquet writer
\* send rows on the way, and only what flush or close returns tells of the rest.
Opened(role, code) == <<Step("create", role, code)>>
WriteFile(role, code) == Opened(role, code) \o <<Step("close", role, code)>>
\* Mutant of Stream: the writer is dropped, which flushes and ignores the error.
DropTheWriter(role, code) == Opened(role, code) \o <<Step("rows", role, code)>>
Stream(role, code) == Opened(role, code) \o <<Step("rows", role, code), Step("close", role, code)>>

-----------------------------------------------------------------------------
(* main.rs                                                                   *)

load_obj == ReadLines("input", 1)
\* The objects of the file, audited, added and compiled.
build_cli_scene == ReadLines("input", 1) \o Computation

parse_sky_view_options == Options({"mask-csv"})
parse_annual_irradiance_options == Options({"timeline-csv"})
parse_surface_grid_options == Options({"mesh-obj"})
parse_isovist_options == Options({"boundary-csv"})
parse_intervisibility_options == Options({"matrix-csv"})
parse_visibility_graph_options == Options({"pairs-csv", "metrics-csv"})
parse_sun_position_options == Options({})
parse_scene_benchmark_options == Options({})
parse_check_options == Options({})
parse_repair_options == Options({})

write_shadow_mask_csv == Stream("mask-csv", 1)
write_irradiance_csv == Stream("timeline-csv", 1)
write_surface_grid_csv == Stream("output", 1)
write_isovist_csv == Stream("boundary-csv", 1)
write_intervisibility_csv == Stream("matrix-csv", 1)
write_visibility_pairs_csv == Stream("pairs-csv", 1)
write_visibility_metrics_csv == Stream("metrics-csv", 1)

run_self_test == Computation \o ToStdout
run_sun_position == parse_sun_position_options \o Refusal \o Computation \o ToStdout
run_sky_view == parse_sky_view_options \o load_obj \o Computation \o write_shadow_mask_csv \o ToStdout
run_annual_irradiance ==
    parse_annual_irradiance_options \o load_obj \o ReadLines("weather", 1) \o Computation
    \o write_irradiance_csv \o ToStdout
\* The mesh of the cells is computed after the table has been written.
run_surface_grid ==
    parse_surface_grid_options \o load_obj \o Computation \o write_surface_grid_csv
    \o <<Step("compute", "mesh-obj", 1)>> \o WriteFile("mesh-obj", 1) \o ToStdout
run_scene_benchmark == parse_scene_benchmark_options \o load_obj \o Computation \o ToStdout \o Verdict
run_mesh_check == parse_check_options \o load_obj \o Refusal \o ToStdout \o Verdict
run_mesh_repair == parse_repair_options \o load_obj \o Refusal \o WriteFile("output", 1) \o ToStdout
run_isovist == parse_isovist_options \o build_cli_scene \o Computation \o write_isovist_csv \o ToStdout
run_intervisibility ==
    parse_intervisibility_options \o build_cli_scene \o Computation \o write_intervisibility_csv \o ToStdout
run_visibility_graph ==
    parse_visibility_graph_options \o build_cli_scene \o Computation
    \o write_visibility_pairs_csv \o write_visibility_metrics_csv \o ToStdout

-----------------------------------------------------------------------------
(* advanced.rs, compute.rs: the verdict is the comparison with the CPU.      *)

parse_target_options == Options({"verify-cpu"})
parse_corridor_options == Options({"verify-cpu"})
parse_path_options == Options({"verify-cpu"})
Compared == <<Step("compute", "verify-cpu", 1)>>
ComparisonPassed == <<Step("verdict", "verify-cpu", 1)>>
CreateSession == Computation
WithComparison(options) ==
    options \o build_cli_scene \o Compared \o CreateSession \o Computation \o ToStdout \o ComparisonPassed
run_target_view == WithComparison(parse_target_options)
run_view_corridor == WithComparison(parse_corridor_options)
run_observer_path == WithComparison(parse_path_options)

parse_study_options == Options({})
run_study_rank == parse_study_options \o Refusal \o Computation \o ToStdout
run_optimizer_benchmark == Options({}) \o Refusal \o Computation \o Refusal \o ToStdout

run_devices == Options({}) \o ToStdout
print_cache_status == Computation \o ToStdout
run_cache == Options({}) \o Computation \o print_cache_status
\* The file is read twice: its bounds come from the first reading.
parse_options == Options({})
run_backend_benchmark ==
    parse_options \o load_obj \o Computation \o build_cli_scene \o Computation \o ToStdout \o Verdict

-----------------------------------------------------------------------------
(* daylight.rs, intelligence.rs: materials are looked at after the scene.     *)

parse_arguments == Options({})
checked_scene == build_cli_scene
library == Refusal
load_weather == ReadLines("weather", 1)
write_annual_csv == WriteFile("timeline-csv", 1)
load_numeric_values(role) == ReadLines(role, 1)
BundleFiles == {"materials.rad", "geometry.rad", "sensors.pts", "manifest.json"}
export_radiance_bundle == Computation
write_text(role) == WriteFile(role, 1)
write_radiance_bundle ==
    MakeDirectory(1) \o write_text("materials.rad") \o write_text("geometry.rad")
    \o write_text("sensors.pts") \o write_text("manifest.json")

\* The external programs write to a file opened for them and are killed when the
\* run is cancelled; their failure is the run's.
RadianceDiscover == Computation
run_command_to_file(stdin, stdout) ==
    Opened(stdout, 1) \o ReadTool(stdin, 1) \o <<Step("rows", stdout, 1), Step("close", stdout, 1)>>
\* A part has not the right number of values.
parse_rgb_illuminance(role) == ReadJson(role, 1) \o Computation

temporary_directory == MakeDirectory(1)
remove_exact_working_directory == <<Step("remove", BundleFiles \cup {"sky.rad", "scene.oct", "rgb"}, 1)>>
run_radiance_point ==
    Computation \o temporary_directory \o write_radiance_bundle \o write_text("sky.rad")
    \o run_command_to_file("sky.rad", "scene.oct") \o run_command_to_file("scene.oct", "rgb")
    \o parse_rgb_illuminance("rgb") \o remove_exact_working_directory

\* The matrix of a scene and of the ray options has a directory named after them,
\* where runs for any weather find it; daylight.key marks it as complete.
\* Mutant of BuildMatrix: the mark comes first.
MarkedFirst ==
    run_command_to_file("geometry.rad", "scene.oct") \o write_text("daylight.key")
    \o run_command_to_file("scene.oct", "daylight.mtx")
BuildMatrix ==
    run_command_to_file("geometry.rad", "scene.oct") \o run_command_to_file("scene.oct", "daylight.mtx")
    \o write_text("daylight.key")
ReuseOrBuild == <<Step("reuse", Len(BuildMatrix), 1)>> \o BuildMatrix
write_wea == write_text("weather.wea")
dctimestep ==
    Opened("rgb", 1) \o ReadTool("daylight.mtx", 1) \o ReadTool("sky.mtx", 1)
    \o <<Step("rows", "rgb", 1), Step("close", "rgb", 1)>>
run_radiance_annual_matrix ==
    Computation \o temporary_directory \o MakeDirectory(1) \o write_radiance_bundle \o write_text("receiver.rad")
    \o ReuseOrBuild \o write_wea \o run_command_to_file("weather.wea", "sky.mtx") \o dctimestep
    \o parse_rgb_illuminance("rgb")

run_daylight_point == parse_arguments \o Refusal \o checked_scene \o library \o Computation \o ToStdout
run_daylight_factor == parse_arguments \o checked_scene \o library \o Computation \o ToStdout
run_annual_daylight ==
    Options({"timeline-csv"}) \o checked_scene \o library \o load_weather \o Computation
    \o write_annual_csv \o ToStdout
run_radiance_export ==
    parse_arguments \o checked_scene \o library \o export_radiance_bundle \o write_radiance_bundle \o ToStdout
run_radiance_point_reference ==
    parse_arguments \o Refusal \o checked_scene \o library \o export_radiance_bundle
    \o RadianceDiscover \o run_radiance_point \o ToStdout
run_radiance_annual_reference ==
    parse_arguments \o checked_scene \o load_weather \o library \o export_radiance_bundle
    \o RadianceDiscover \o run_radiance_annual_matrix \o ToStdout
run_daylight_compare ==
    Options({}) \o load_numeric_values("fast") \o load_numeric_values("reference")
    \o Computation \o ToStdout \o Verdict

Spatial == Options({}) \o Refusal \o build_cli_scene \o Refusal \o Computation \o ToStdout
run_isovist_3d == Spatial
run_landmark_visibility == Spatial
run_solar_envelope == Spatial
run_solar_scenarios == Spatial

-----------------------------------------------------------------------------
(* interop.rs, evidence.rs (whose failures all exit with 2), evidence_table.rs. *)

parse_mesh_policy == Options({})
parse_weather_policy == Options({})
load_mesh == ReadLines("input", 1)
write_mesh == Computation \o WriteFile("output", 1)
\* Mutant of run_mesh_convert: the mesh is written before it is clipped.
WrittenThenClipped == parse_mesh_policy \o load_mesh \o Computation \o write_mesh \o Computation \o ToStdout
run_mesh_convert == parse_mesh_policy \o load_mesh \o Computation \o write_mesh \o ToStdout
run_scene_pack == parse_mesh_policy \o load_mesh \o Computation \o WriteFile("output", 1) \o ToStdout
run_scene_unpack == Options({}) \o ReadSealed("input", 1) \o Computation \o write_mesh \o ToStdout
run_weather_convert ==
    parse_weather_policy \o ReadLines("input", 1) \o Computation \o WriteFile("output", 1) \o ToStdout

read_json(role) == ReadJson(role, 2)
write_json == MakeDirectory(2) \o WriteFile("output", 2)
sealed_passport == read_json("input") \o Refusal \o write_json
sensitivity_design == read_json("input") \o Refusal \o write_json
sensitivity_analyze == ReadSealed("input", 2) \o read_json("outputs") \o Refusal \o write_json
robust == read_json("input") \o Refusal \o write_json
rank == read_json("input") \o Refusal \o write_json
fidelity == read_json("input") \o Refusal \o write_json
run_evidence(subcommand) == subcommand \o ToStdout

write_evidence_table == ReadJson("input", 1) \o Computation \o MakeDirectory(1) \o Stream("output", 1)
write_daylight_evidence_table == write_evidence_table
run_evidence_table == write_evidence_table \o ToStdout
run_daylight_evidence_table == write_daylight_evidence_table \o ToStdout

-----------------------------------------------------------------------------
(* study_platform.rs; "open", "begin" and "commit" are the library's.        *)

open_workspace == <<Step("open", "", 1)>>
run_study_schema == Options({"output"}) \o WriteFile("output", 1) \o ToStdout
run_study_init == Options({}) \o ReadJson("manifest", 2) \o <<Step("init", "", 1)>> \o ToStdout
run_study_status == Options({}) \o open_workspace \o ToStdout
run_study_batch ==
    Options({"output"}) \o open_workspace \o <<Step("begin", "", 1)>> \o WriteFile("output", 1) \o ToStdout
run_study_commit ==
    Options({}) \o ReadJson("evaluations", 2) \o open_workspace \o <<Step("commit", "", 1)>> \o ToStdout
ReportFiles == {"study-data.json", "variants.parquet", "objective-space.gltf", "report.html", "viewer.html"}
write_parquet == Computation \o Stream("variants.parquet", 1)
write_objective_gltf == Computation \o WriteFile("objective-space.gltf", 1)
\* The tables are laid out (and may be refused) one by one as they are written.
write_report_package ==
    Computation \o MakeDirectory(1) \o WriteFile("study-data.json", 1) \o write_parquet \o write_objective_gltf
    \o WriteFile("report.html", 1) \o WriteFile("viewer.html", 1)
run_study_report == Options({}) \o open_workspace \o Computation \o write_report_package \o ToStdout

\* Whoever evaluates the candidates of a batch file and writes the rows.
Evaluator == ReadJson("input", 1) \o WriteFile("output", 1)

main(command) ==
    CASE command = "self-test" -> run_self_test
      [] command = "devices" -> run_devices
      [] command = "cache" -> run_cache
      [] command = "backend-benchmark" -> run_backend_benchmark
      [] command = "sun-position" -> run_sun_position
      [] command = "sky-view" -> run_sky_view
      [] command = "isovist" -> run_isovist
      [] command = "isovist-3d" -> run_isovist_3d
      [] command = "landmark-visibility" -> run_landmark_visibility
      [] command = "solar-envelope" -> run_solar_envelope
      [] command = "solar-scenarios" -> run_solar_scenarios
      [] command = "intervisibility" -> run_intervisibility
      [] command = "visibility-graph" -> run_visibility_graph
      [] command = "target-view" -> run_target_view
      [] command = "view-corridor" -> run_view_corridor
      [] command = "observer-path" -> run_observer_path
      [] command = "study-rank" -> run_study_rank
      [] command = "evidence passport" -> run_evidence(sealed_passport)
      [] command = "evidence sensitivity-design" -> run_evidence(sensitivity_design)
      [] command = "evidence sensitivity-analyze" -> run_evidence(sensitivity_analyze)
      [] command = "evidence robust" -> run_evidence(robust)
      [] command = "evidence rank" -> run_evidence(rank)
      [] command = "evidence fidelity" -> run_evidence(fidelity)
      [] command = "evidence-table" -> run_evidence_table
      [] command = "daylight-evidence-table" -> run_daylight_evidence_table
      [] command = "study-schema" -> run_study_schema
      [] command = "study-init" -> run_study_init
      [] command = "study-status" -> run_study_status
      [] command = "study-batch" -> run_study_batch
      [] command = "study-commit" -> run_study_commit
      [] command = "study-report" -> run_study_report
      [] command = "optimizer-benchmark" -> run_optimizer_benchmark
      [] command = "annual-irradiance" -> run_annual_irradiance
      [] command = "daylight-point" -> run_daylight_point
      [] command = "daylight-factor" -> run_daylight_factor
      [] command = "annual-daylight" -> run_annual_daylight
      [] command = "radiance-export" -> run_radiance_export
      [] command = "radiance-point" -> run_radiance_point_reference
      [] command = "radiance-annual" -> run_radiance_annual_reference
      [] command = "daylight-compare" -> run_daylight_compare
      [] command = "mesh-check" -> run_mesh_check
      [] command = "surface-grid" -> run_surface_grid
      [] command = "mesh-repair" -> run_mesh_repair
      [] command = "mesh-convert" -> run_mesh_convert
      [] command = "scene-pack" -> run_scene_pack
      [] command = "scene-unpack" -> run_scene_unpack
      [] command = "weather-convert" -> run_weather_convert
      [] command = "scene-bench" -> run_scene_benchmark
      [] command = "evaluate" -> Evaluator

\* The commands, and "evaluate" for a user's own program.
Commands ==
    {"self-test", "devices", "cache", "backend-benchmark", "sun-position", "sky-view", "isovist",
     "isovist-3d", "landmark-visibility", "solar-envelope", "solar-scenarios", "intervisibility",
     "visibility-graph", "target-view", "view-corridor", "observer-path", "study-rank",
     "evidence passport", "evidence sensitivity-design", "evidence sensitivity-analyze",
     "evidence robust", "evidence rank", "evidence fidelity", "evidence-table",
     "daylight-evidence-table", "study-schema", "study-init", "study-status", "study-batch",
     "study-commit", "study-report", "optimizer-benchmark", "annual-irradiance", "daylight-point",
     "daylight-factor", "annual-daylight", "radiance-export", "radiance-point", "radiance-annual",
     "daylight-compare", "mesh-check", "surface-grid", "mesh-repair", "mesh-convert", "scene-pack",
     "scene-unpack", "weather-convert", "scene-bench", "evaluate"}

\* What steps call a file: options, positional arguments, and the names of the
\* files in a directory that a command fills.
Roles ==
    {"input", "weather", "manifest", "evaluations", "fast", "reference", "outputs", "output", "mask-csv",
     "timeline-csv", "mesh-obj", "boundary-csv", "matrix-csv", "pairs-csv", "metrics-csv"}
    \cup BundleFiles \cup ReportFiles
    \cup {"sky.rad", "receiver.rad", "scene.oct", "daylight.mtx", "daylight.key", "weather.wea", "sky.mtx", "rgb"}

Uses == [command : Commands, bind : [Roles -> Files], given : SUBSET (Roles \cup {"verify-cpu"})]
ASSUME CommandAssumption ==
    /\ MaxRepetitions \in Nat
    /\ Initially \in [Files -> [state : {"none", "whole"}, batch : Int]]
    /\ CommandSessions \subseteq [Shells -> Seq(Uses)]

\* An annual run works in a directory that is named after the scene and the ray options:
\* its files are different ones and not the weather, nothing but such runs writes a
\* matrix or its mark, and runs that share one of the two share the other.  No
\* mark is there before its matrix.
AnnualRoles ==
    BundleFiles \cup {"receiver.rad", "scene.oct", "daylight.mtx", "daylight.key", "weather.wea", "sky.mtx", "rgb", "weather"}
MatrixOf(use) == use.bind["daylight.mtx"]
MarkOf(use) == use.bind["daylight.key"]
WritesFile(use, f) ==
    \E i \in DOMAIN main(use.command) :
       main(use.command)[i].do = "create" /\ use.bind[main(use.command)[i].of] = f
MatrixDirectories ==
    \A sessions \in CommandSessions, p \in Shells : \A k \in DOMAIN sessions[p] :
       LET run == sessions[p][k]
       IN  run.command = "radiance-annual" =>
             /\ \A r, s \in AnnualRoles : run.bind[r] = run.bind[s] => r = s
             /\ Initially[MarkOf(run)].state = "whole" => Initially[MatrixOf(run)].state = "whole"
             /\ \A l \in DOMAIN sessions[p] :
                   LET other == sessions[p][l]
                   IN  WritesFile(other, MatrixOf(run)) \/ WritesFile(other, MarkOf(run)) =>
                          /\ other.command = "radiance-annual"
                          /\ MatrixOf(other) = MatrixOf(run) /\ MarkOf(other) = MarkOf(run)

\* The rounds of a study: batches are handed out, evaluated and committed in turn, each
\* from the file that the command before has written; no other shell hands out or
\* commits batches of the study, or writes to those files, and no file is about a
\* batch that was never handed out.
HandlesBatches(use) == \E i \in DOMAIN main(use.command) : main(use.command)[i].do \in {"begin", "commit"}
Follows(use, before) ==
    \/ use.command = "evaluate" /\ before.command = "study-batch" /\ use.bind["input"] = before.bind["output"]
    \/ use.command = "study-commit" /\ before.command = "evaluate" /\ use.bind["evaluations"] = before.bind["output"]
    \/ use.command = "study-batch" /\ before.command = "study-commit"
InRounds(uses) ==
    \A k \in DOMAIN uses :
       /\ IF k = 1 THEN uses[k].command = "study-batch" ELSE Follows(uses[k], uses[k - 1])
       /\ uses[k].command = "study-batch" => "output" \in uses[k].given
Studies(uses) == \E k \in DOMAIN uses : uses[k].command \in {"study-batch", "study-commit"}
StudySessions ==
    /\ \A f \in Files : Initially[f].batch <= 0
    /\ \A sessions \in CommandSessions, p \in Shells : Studies(sessions[p]) =>
          /\ InRounds(sessions[p])
          /\ \A q \in Shells \ {p} : \A l \in DOMAIN sessions[q] :
                /\ ~HandlesBatches(sessions[q][l])
                /\ \A k \in DOMAIN sessions[p] : ~WritesFile(sessions[q][l], sessions[p][k].bind["output"])

-----------------------------------------------------------------------------
(* A process.                                                                *)

KILLED == 137
Use(p) == shell[p].session[shell[p].at]
Program(p) == main(Use(p).command)
Busy(p) == shell[p].step # 0
Now(p) == Program(p)[shell[p].step]
Doing(p, steps) == Busy(p) /\ Now(p).do \in steps
Of(p) == Use(p).bind[Now(p).of]

Start(p) ==
    /\ ~Busy(p) /\ shell[p].at <= Len(shell[p].session)
    /\ shell' = [shell EXCEPT ![p].step = 1, ![p].code = -1, ![p].failed = "",
                              ![p].touched = {}, ![p].seen = {}, ![p].batch = 0]
    /\ UNCHANGED <<file, workspace>>

\* The next command after a success, the same again after a failure, or no more.
After(process, code) ==
    IF code = 0 THEN process.at + 1
    ELSE IF process.faults < MaxRepetitions THEN process.at
    ELSE Len(process.session) + 1
Ended(process, code, failed) ==
    [process EXCEPT !.step = 0, !.missing = {}, !.code = code, !.failed = failed,
                    !.last = process.at, !.at = After(process, code),
                    !.faults = IF code = 0 THEN @ ELSE @ + 1]

\* A process goes on after the k-th step of its program, with the next one that
\* is not left out because an option is missing: ExitCode::SUCCESS if there is none.
Following(p, process, k) == {i \in DOMAIN Program(p) : i > k /\ Program(p)[i].of \notin process.missing}
WentOn(p, process, k) ==
    LET following == Following(p, process, k)
    IN  IF following = {} THEN Ended(process, 0, "")
        ELSE [process EXCEPT !.step = CHOOSE i \in following : \A j \in following : i <= j]
Moved(p, process) == shell' = [shell EXCEPT ![p] = WentOn(p, process, shell[p].step)]

\* Any step may fail: what it had changed stays.
Fail(p) ==
    /\ Busy(p)
    /\ shell' = [shell EXCEPT ![p] = Ended(@, Now(p).code, Now(p).do)]
    /\ UNCHANGED <<file, workspace>>
Kill(p) ==
    /\ Busy(p)
    /\ shell' = [shell EXCEPT ![p] = Ended(@, KILLED, Now(p).do)]
    /\ UNCHANGED <<file, workspace>>

GiveOptions(p) ==
    /\ Doing(p, {"options"})
    /\ \E given \in {g \in SUBSET Now(p).of : Use(p).given \subseteq g} :
          Moved(p, [shell[p] EXCEPT !.missing = Now(p).of \ given])
    /\ UNCHANGED <<file, workspace>>

Plain(p) ==
    /\ Doing(p, {"compute", "print", "verdict", "directory"})
    /\ Moved(p, shell[p])
    /\ UNCHANGED <<file, workspace>>

\* What a reading takes for good.  SceneDocument and GlobalSensitivityDesign
\* carry a digest of themselves; of other JSON two texts mixed might parse.
Accepts(how) ==
    CASE how = "read lines"  -> {"whole", "half", "mixed"}
      [] how = "read tool"   -> {"whole", "half", "mixed"}
      [] how = "read json"   -> {"whole", "mixed"}
      [] how = "read sealed" -> {"whole"}
Read(p) ==
    /\ Doing(p, {"read lines", "read json", "read sealed", "read tool"})
    /\ file[Of(p)].state \in Accepts(Now(p).do)
    /\ Moved(p, [shell[p] EXCEPT !.batch = file[Of(p)].batch,
                                 !.seen = @ \cup {[how |-> Now(p).do, state |-> file[Of(p)].state]}])
    /\ UNCHANGED <<file, workspace>>

CreateFile(p) ==
    /\ Doing(p, {"create"})
    /\ file' = [file EXCEPT ![Of(p)] = [state |-> "half", by |-> p, batch |-> 0]]
    /\ Moved(p, [shell[p] EXCEPT !.touched = @ \cup {Of(p)}, !.wrote = @ \cup {Of(p)}])
    /\ UNCHANGED workspace

\* A matrix that is there, with the key of this directory beside it, is not built again.
Reuse(p) ==
    /\ Doing(p, {"reuse"})
    /\ LET matrix == file[MatrixOf(Use(p))].state
           key == file[MarkOf(Use(p))].state
       IN  \/ /\ matrix # "none" /\ key \in {"whole", "mixed"}
              /\ shell' = [shell EXCEPT ![p] = WentOn(p, shell[p], shell[p].step + Now(p).of)]
           \/ /\ matrix = "none" \/ key # "whole"
              /\ Moved(p, shell[p])
    /\ UNCHANGED <<file, workspace>>

\* Unless the files are to be kept.
RemoveFiles(p) ==
    /\ Doing(p, {"remove"})
    /\ \E removed \in {{}, {Use(p).bind[role] : role \in Now(p).of}} :
          /\ file' = [f \in Files |-> IF f \in removed THEN [file[f] EXCEPT !.state = "none"] ELSE file[f]]
          /\ Moved(p, [shell[p] EXCEPT !.touched = @ \ removed])
    /\ UNCHANGED workspace

\* Another process may have truncated the file since: then it has something of both.
Rows(p) ==
    /\ Doing(p, {"rows"})
    /\ file' = [file EXCEPT ![Of(p)].state = IF file[Of(p)].by = p THEN @ ELSE "mixed"]
    /\ Moved(p, shell[p])
    /\ UNCHANGED workspace

Close(p) ==
    /\ Doing(p, {"close"})
    /\ file' = [file EXCEPT ![Of(p)].state = IF file[Of(p)].by = p /\ @ = "half" THEN "whole" ELSE "mixed",
                            ![Of(p)].batch = shell[p].batch]
    /\ Moved(p, shell[p])
    /\ UNCHANGED workspace

-----------------------------------------------------------------------------
(* The study, one process at a time: the last batch is the active one until   *)
(* it is committed.                                                          *)

Active == workspace.issued # 0 /\ workspace.issued \notin workspace.committed

OpenWorkspace(p) ==
    /\ Doing(p, {"open"}) /\ workspace.exists
    /\ Moved(p, shell[p]) /\ UNCHANGED <<file, workspace>>

InitWorkspace(p) ==
    /\ Doing(p, {"init"}) /\ ~workspace.exists
    /\ workspace' = [workspace EXCEPT !.exists = TRUE]
    /\ Moved(p, shell[p]) /\ UNCHANGED file

\* Mutant of NextBatch: an active batch is not handed out again.
AlwaysNew == workspace.issued + 1
NextBatch == IF Active THEN workspace.issued ELSE workspace.issued + 1
HandOutBatch(p) ==
    /\ Doing(p, {"begin"})
    /\ workspace' = [workspace EXCEPT !.issued = NextBatch]
    /\ Moved(p, [shell[p] EXCEPT !.batch = NextBatch]) /\ UNCHANGED file

\* A completed batch is acknowledged again: the rows are the same.
AcceptBatch(p) ==
    /\ Doing(p, {"commit"})
    /\ \/ shell[p].batch \in workspace.committed
       \/ Active /\ shell[p].batch = workspace.issued
    /\ workspace' = [workspace EXCEPT !.committed = @ \cup {shell[p].batch}]
    /\ Moved(p, shell[p]) /\ UNCHANGED file

-----------------------------------------------------------------------------
CommandInit ==
    /\ file = [f \in Files |-> [state |-> Initially[f].state, by |-> "user", batch |-> Initially[f].batch]]
    /\ \E session \in CommandSessions :
          shell = [p \in Shells |->
                     [session |-> session[p], at |-> 1, step |-> 0, missing |-> {}, code |-> -1, failed |-> "",
                      last |-> 0, faults |-> 0, touched |-> {}, wrote |-> {}, seen |-> {}, batch |-> 0]]
    /\ \E exists \in BOOLEAN : workspace = [exists |-> exists, issued |-> 0, committed |-> {}]

SessionsEnded ==
    (\A p \in Shells : ~Busy(p) /\ shell[p].at > Len(shell[p].session)) /\ UNCHANGED commandVars

CommandNext ==
    \/ \E p \in Shells : \/ Start(p) \/ Fail(p) \/ Kill(p)
                         \/ GiveOptions(p) \/ Plain(p) \/ Read(p) \/ Reuse(p) \/ RemoveFiles(p)
                         \/ CreateFile(p) \/ Rows(p) \/ Close(p)
                         \/ OpenWorkspace(p) \/ InitWorkspace(p) \/ HandOutBatch(p) \/ AcceptBatch(p)
    \/ SessionsEnded
CommandSpec == CommandInit /\ [][CommandNext]_commandVars

-----------------------------------------------------------------------------
(* Properties.                                                               *)

Command(p) == IF shell[p].last = 0 THEN "" ELSE shell[p].session[shell[p].last].command
Others(p) == UNION {shell[q].wrote : q \in Shells \ {p}}
Exports == {"create", "rows", "close", "directory"}

\* A command that exits with 0 has written whole every file it opened, unless
\* another process wrote to it too, whatever failed before it; and what it took
\* for a sealed document was whole at that moment.
SuccessIsWhole ==
    \A p \in Shells : shell[p].code = 0 =>
       /\ \A f \in shell[p].touched : file[f].state = "whole" \/ f \in Others(p)
       /\ \A r \in shell[p].seen : r.how = "read sealed" => r.state = "whole"

\* A command refused for its options, its inputs or its computation leaves every
\* file as it was, its own input among them if it is to be replaced: only the
\* grid, whose second export is computed late, the report, and the files that the
\* Radiance programs work on are different.
\* Exit code 2 says so by itself, except from the evidence commands, which exit
\* with 2 when the disk is full too.
RefusalsTouchNothing ==
    \A p \in Shells :
       /\ shell[p].code = 2 /\ shell[p].touched # {} => shell[p].failed \in Exports
       /\ shell[p].code = 1 /\ shell[p].touched # {} =>
             shell[p].failed \in Exports \/ Command(p) \in {"surface-grid", "study-report", "radiance-point", "radiance-annual"}

\* Whatever runs died in a matrix directory before, and at whatever step, an
\* annual run that succeeds has used a matrix, and everything else it read there,
\* that was written to the end, and answers for its own weather; only runs at the
\* same time are not kept apart.
AnswersAreOwn ==
    \A p \in Shells : shell[p].code = 0 /\ Command(p) = "radiance-annual" /\ Others(p) = {} =>
       /\ \A r \in shell[p].seen : r.how = "read tool" => r.state = "whole"
       /\ shell[p].batch = file[shell[p].session[shell[p].last].bind["weather"]].batch

Rounds(p, command) == Cardinality({k \in 1..shell[p].last : shell[p].session[k].command = command})

\* However often the commands of a study fail, are killed and are repeated, a
\* round makes one batch, the file of a batch is about a batch of the study, and
\* when the session is over without giving up every batch is committed.
RepeatedRoundsAreOne ==
    \A p \in Shells :
       /\ \A f \in Files : file[f].state = "whole" => file[f].batch <= workspace.issued
       /\ Rounds(p, "study-commit") > 0 /\ shell[p].code = 0 =>
             Cardinality(workspace.committed) = Rounds(p, "study-commit")
       /\ Rounds(p, "study-batch") > 0 /\ shell[p].code = 0 => workspace.issued = Rounds(p, "study-batch")
=============================================================================
