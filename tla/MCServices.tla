------------------------------ MODULE MCServices ------------------------------
(* Small instances of the native calls, the command line, the compute session    *)
(* and the optimizer, side by side: they share no state, and a behaviour is one   *)
(* of a single component, the others at rest.                                     *)
EXTENDS NativeCalls, CommandLine, VayuSession, StudyRanking

CONSTANTS s1, s2
\* The callers are the threads of the session, too.
Symmetry == Permutations(Callers)

VARIABLE component   \* the one whose behaviour this is

nativeVars == vars

-----------------------------------------------------------------------------
(* The command line: every command alone, writing to files of its own and to    *)
(* its own input; a producer beside a consumer of its file; two producers of    *)
(* one file; two rounds of a study with everything repeated; and three annual   *)
(* runs, for two climates, in one matrix directory.                             *)
CommandShells == {s1, s2}
Working == {"sky.rad", "receiver.rad", "scene.oct", "daylight.mtx", "daylight.key", "weather.wea", "sky.mtx", "rgb"}
Weathers == {"epw 1", "epw 2"}
CommandFiles == {"a", "b", "c", "d", "e"} \cup Working \cup Weathers
CommandInputs == [f \in CommandFiles |-> [state |-> IF f \in Working THEN "none" ELSE "whole",
                                          batch |-> IF f = "epw 1" THEN -1 ELSE IF f = "epw 2" THEN -2 ELSE 0]]

Ins == {"input", "weather", "manifest", "evaluations", "fast", "reference", "outputs"}
Outs == {"output", "mask-csv", "timeline-csv", "mesh-obj", "boundary-csv", "matrix-csv", "pairs-csv", "metrics-csv"}
Bundle == ("materials.rad" :> "b") @@ ("geometry.rad" :> "c") @@ ("sensors.pts" :> "d") @@ ("manifest.json" :> "e")
Report == ("study-data.json" :> "a") @@ ("variants.parquet" :> "b") @@ ("objective-space.gltf" :> "c")
          @@ ("report.html" :> "d") @@ ("viewer.html" :> "e")
Bindings(in, out) == [r \in Ins |-> in] @@ [r \in Outs |-> IF r \in {"mesh-obj", "metrics-csv"} THEN "c" ELSE out]
                  @@ Bundle @@ Report
                  @@ [r \in Working |-> r]
Using(command, in, out) ==
    [command |-> command, bind |-> Bindings(in, out), given |-> IF command = "study-batch" THEN {"output"} ELSE {}]

With(first, second) == [p \in CommandShells |-> IF p = s1 THEN first ELSE second]
Alone == {With(<<Using(c, "a", out)>>, <<>>) : c \in Commands \ {"evaluate", "study-commit"}, out \in {"a", "b"}}
Pairs == {With(<<Using("scene-pack", "a", "b")>>, <<Using("scene-unpack", "b", "c")>>),
          With(<<Using("evidence sensitivity-design", "a", "b")>>, <<Using("evidence sensitivity-analyze", "b", "c")>>),
          With(<<Using("mesh-convert", "a", "b")>>, <<Using("sky-view", "b", "c")>>),
          With(<<Using("visibility-graph", "a", "b")>>, <<Using("isovist", "a", "b")>>)}
Round == <<Using("study-batch", "a", "b"), Using("evaluate", "b", "c"), Using("study-commit", "c", "d")>>
Annual(weather) == [Using("radiance-annual", "a", "b") EXCEPT !.bind["weather"] = weather]
Climates == With(<<Annual("epw 1"), Annual("epw 2"), Annual("epw 1")>>, <<>>)
ShellSessions == {Climates} \cup Alone \cup Pairs \cup {With(Round \o Round, <<>>)}

-----------------------------------------------------------------------------
(* Compute sessions of two threads: a scene in one chunk and one in two, every   *)
(* kind of policy, rays in one, two and three chunks.                            *)
\* A dome does not fit into a chunk.
SessionMeshes == [m \in {"tower", "tree", "dome"} |-> CASE m = "tower" -> 3 [] m = "tree" -> 1 [] m = "dome" -> 4]
SessionScenes == {<<"tower">>, <<"tower", "tree", "tree", "tree">>, <<"tree", "dome">>}
Policy(preference, rays, gpuBytes, cache) ==
    [preference |-> preference, rays |-> rays, chunkBytes |-> 8, gpuBytes |-> gpuBytes, cache |-> cache]
SessionPolicies == {Policy("cpu", 1, 8, TRUE), Policy("auto", 0, 8, TRUE), Policy("auto", 1, 8, TRUE),
               Policy("require", 4, 11, TRUE), Policy("require", 4, 5, FALSE)}

-----------------------------------------------------------------------------
(* The optimizer of a study with two objectives.                               *)
Eval(a, b, v) == [objectives |-> <<a, -b>>, violation |-> v]
\* A front with a crowded middle, a point that is only a tie worse, a dominated point, and two infeasible ones;
\* one point lies outside the reference in each objective.
StudyEvaluations == {Eval(0, 8, 0), Eval(3, 4, 0), Eval(4, 5, 0), Eval(8, 0, 1), Eval(10, 6, 0),
                       Eval(0, 0, 2), Eval(0, 0, 4)}
StudyDirections == <<"minimize", "maximize">>
StudyReference == <<9, -7>>

ASSUME SessionAssumption /\ RankingAssumption /\ MatrixDirectories /\ StudySessions

-----------------------------------------------------------------------------
ServicesInit ==
    /\ component \in {"native", "command_line", "session", "optimizer"}
    /\ Init /\ (component = "native" \/ family = "science")
    /\ CommandInit /\ (component = "command_line" \/ (shell[s1].session = Climates[s1] /\ workspace.exists))
    /\ SessionInit /\ (component = "session" \/ (sessionScene = <<"tower">> /\ options.preference = "cpu" /\ stores = <<"none">>))
    /\ RankingInit
ServicesNext ==
    /\ UNCHANGED component
    /\ \/ component = "native" /\ Next /\ UNCHANGED <<commandVars, sessionVars, rankingVars>>
       \/ component = "command_line" /\ CommandNext /\ UNCHANGED <<nativeVars, sessionVars, rankingVars>>
       \/ component = "session" /\ SessionNext /\ UNCHANGED <<nativeVars, commandVars, rankingVars>>
       \/ component = "optimizer" /\ RankingNext /\ UNCHANGED <<nativeVars, commandVars, sessionVars>>
ServicesSpec == ServicesInit /\ [][ServicesNext]_<<component, nativeVars, commandVars, sessionVars, rankingVars>>

=============================================================================
