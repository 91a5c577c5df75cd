-------------------------- MODULE NativeCalls_proofs --------------------------
(***************************************************************************)
(* The four properties of the C ABI, proved for every number of callers,    *)
(* batches and every capacity, of each of the exported functions.           *)
(*                                                                         *)
(* The codes are regular: a function tells its caller nothing before its    *)
(* last refusal but what its sizing pass tells, looks at the scene or the   *)
(* study once, and tells a handle right after its object entered the table  *)
(* (RegularCodes, one step per exported function).  A call under way keeps what its past established:   *)
(* what it wrote, what it learned of the size of its answer, and the batch  *)
(* it took (ActiveCall); one that is over keeps what its caller may build   *)
(* on (EndedCall).  And the optimizer's batches are within their budget,    *)
(* held by a caller and evaluated once.  Each step of the module is shown   *)
(* to be a step of that shape (StepOf), and then to keep NativeInv.         *)
(***************************************************************************)
EXTENDS NativeCalls, FiniteSetTheorems, WellFoundedInduction, TLAPS

-----------------------------------------------------------------------------
(* The steps of a code.                                                     *)

Reporting == {"outputs", "metadata"}
Deciding == {"scene", "open", "create", "begin", "commit"}
Handling == {"session", "optimizer", "insert_session", "insert_optimizer", "remove_session",
             "remove_optimizer", "ask", "tell"}
Sizes == {"size", "sizing", "fits"}
Steps == Fallible \cup Deciding \cup Handling \cup Sizes \cup Reporting
Has(s, step) == \E i \in DOMAIN s : s[i] = step

-----------------------------------------------------------------------------
(* The codes.                                                               *)

\* Where its sizing pass does not end, a function reports.  Once it has begun to, it
\* does nothing else; and what it asks the state last, it asks before it says anything
\* about the size of its answer.
Reports(f) == Reporting \ {SizingRecord(f)}
Follows(a, b, f) ==
  /\ a \in Reports(f) => b \in Reports(f)
  /\ a \in Sizes \cup {SizingRecord(f)} \cup (Deciding \ {"open"}) => b \notin Deciding
  /\ a = "ask" => b # "ask"
Orderly(s, f) == \A i, j \in DOMAIN s : i < j => Follows(s[i], s[j], f)

\* A handle is told right after its object entered the table.
Announced(s) ==
  \A i \in DOMAIN s : s[i] \in {"insert_session", "insert_optimizer"} =>
     i + 1 \in DOMAIN s /\ s[i + 1] = "metadata"

ScienceSteps == Fallible \cup {"scene"} \cup Sizes \cup Reporting
SessionsSteps ==
  Fallible \cup {"scene", "session", "insert_session", "remove_session"} \cup Reporting
OptimizersSteps ==
  Fallible \cup {"optimizer", "insert_optimizer", "remove_optimizer", "ask", "tell", "fits"} \cup Reporting
WorkspacesSteps == Fallible \cup {"open", "create", "begin", "commit"} \cup Sizes \cup Reporting

OrderlyOf(S, code, f) == code \in Seq(S) /\ code # <<>> /\ Orderly(code, f)
ScienceCode(code, function) ==
  OrderlyOf(ScienceSteps, code, function) /\ (Has(code, "size") => function \notin MetadataOnly)
SessionsOnly(code, function) ==
  Has(code, "insert_session") => function \in {"xv_compute_create", "xv_compute_create_for_adapter"}
SessionsCode(code, function) ==
  OrderlyOf(SessionsSteps, code, function) /\ SessionsOnly(code, function) /\ Announced(code)
OptimizersOnly(code, function) ==
  /\ Has(code, "tell") => function = "xv_optimizer_tell"
  /\ Has(code, "ask") => function = "xv_optimizer_ask" /\ Has(code, "outputs")
  /\ Has(code, "insert_optimizer") => function = "xv_optimizer_create"
OptimizersCode(code, function) ==
  OrderlyOf(OptimizersSteps, code, function) /\ OptimizersOnly(code, function) /\ Announced(code)
WorkspacesCode(code, function) ==
  /\ OrderlyOf(WorkspacesSteps, code, function)
  /\ Has(code, "commit") => function = "xv_study_workspace_commit_batch"

LEMMA ScienceCodes ==
  ASSUME NEW function \in DOMAIN Science
  PROVE  ScienceCode(Science[function], function)
  <1>1. ScienceCode(xv_mesh_audit, "xv_mesh_audit")
    BY DEF xv_mesh_audit, Answer, ScienceCode, ScienceSteps, OrderlyOf,
           Fallible, Sizes, Deciding, Reporting, Orderly, Follows, Reports, SizingRecord, MetadataOnly, Has
  <1>2. ScienceCode(xv_scene_isovist, "xv_scene_isovist")
    BY DEF xv_scene_isovist, Checked, Answer, ScienceCode, ScienceSteps, OrderlyOf,
           Fallible, Sizes, Deciding, Reporting, Orderly, Follows, Reports, SizingRecord, MetadataOnly, Has
  <1>3. ScienceCode(xv_scene_intervisibility, "xv_scene_intervisibility")
    BY DEF xv_scene_intervisibility, Checked, Answer, ScienceCode, ScienceSteps, OrderlyOf,
           Fallible, Sizes, Deciding, Reporting, Orderly, Follows, Reports, SizingRecord, MetadataOnly, Has
  <1>4. ScienceCode(xv_scene_visibility_graph, "xv_scene_visibility_graph")
    BY DEF xv_scene_visibility_graph, Checked, Answer, ScienceCode, ScienceSteps, OrderlyOf,
           Fallible, Sizes, Deciding, Reporting, Orderly, Follows, Reports, SizingRecord, MetadataOnly, Has
  <1>5. ScienceCode(xv_scene_sparse_visibility_graph, "xv_scene_sparse_visibility_graph")
    BY DEF xv_scene_sparse_visibility_graph, Checked, Answer, ScienceCode, ScienceSteps, OrderlyOf,
           Fallible, Sizes, Deciding, Reporting, Orderly, Follows, Reports, SizingRecord, MetadataOnly, Has
  <1>6. ScienceCode(xv_scene_target_view, "xv_scene_target_view")
    BY DEF xv_scene_target_view, Answer, ScienceCode, ScienceSteps, OrderlyOf,
           Fallible, Sizes, Deciding, Reporting, Orderly, Follows, Reports, SizingRecord, MetadataOnly, Has
  <1>7. ScienceCode(xv_scene_view_corridor, "xv_scene_view_corridor")
    BY DEF xv_scene_view_corridor, Checked, Answer, ScienceCode, ScienceSteps, OrderlyOf,
           Fallible, Sizes, Deciding, Reporting, Orderly, Follows, Reports, SizingRecord, MetadataOnly, Has
  <1>8. ScienceCode(xv_scene_observer_path, "xv_scene_observer_path")
    BY DEF xv_scene_observer_path, Answer, ScienceCode, ScienceSteps, OrderlyOf,
           Fallible, Sizes, Deciding, Reporting, Orderly, Follows, Reports, SizingRecord, MetadataOnly, Has
  <1>9. ScienceCode(xv_scene_isovist_3d, "xv_scene_isovist_3d")
    BY DEF xv_scene_isovist_3d, Checked, write_isovist_3d, ScienceCode, ScienceSteps, OrderlyOf,
           Fallible, Sizes, Deciding, Reporting, Orderly, Follows, Reports, SizingRecord, MetadataOnly, Has
  <1>10. ScienceCode(xv_scene_landmark_visibility, "xv_scene_landmark_visibility")
    BY DEF xv_scene_landmark_visibility, Checked, write_landmarks, ScienceCode, ScienceSteps, OrderlyOf,
           Fallible, Sizes, Deciding, Reporting, Orderly, Follows, Reports, SizingRecord, MetadataOnly, Has
  <1>11. ScienceCode(xv_scene_sky_view, "xv_scene_sky_view")
    BY DEF xv_scene_sky_view, Checked, Answer, ScienceCode, ScienceSteps, OrderlyOf,
           Fallible, Sizes, Deciding, Reporting, Orderly, Follows, Reports, SizingRecord, MetadataOnly, Has
  <1>12. ScienceCode(xv_epw_inspect, "xv_epw_inspect")
    BY DEF xv_epw_inspect, ScienceCode, ScienceSteps, OrderlyOf,
           Fallible, Sizes, Deciding, Reporting, Orderly, Follows, Reports, SizingRecord, MetadataOnly, Has
  <1>13. ScienceCode(xv_scene_annual_irradiance, "xv_scene_annual_irradiance")
    BY DEF xv_scene_annual_irradiance, Answer, ScienceCode, ScienceSteps, OrderlyOf,
           Fallible, Sizes, Deciding, Reporting, Orderly, Follows, Reports, SizingRecord, MetadataOnly, Has
  <1>14. ScienceCode(xv_scene_point_illuminance, "xv_scene_point_illuminance")
    BY DEF xv_scene_point_illuminance, parse_materials, Answer, ScienceCode, ScienceSteps, OrderlyOf,
           Fallible, Sizes, Deciding, Reporting, Orderly, Follows, Reports, SizingRecord, MetadataOnly, Has
  <1>15. ScienceCode(xv_scene_daylight_factor, "xv_scene_daylight_factor")
    BY DEF xv_scene_daylight_factor, parse_materials, Answer, ScienceCode, ScienceSteps, OrderlyOf,
           Fallible, Sizes, Deciding, Reporting, Orderly, Follows, Reports, SizingRecord, MetadataOnly, Has
  <1>16. ScienceCode(xv_scene_annual_daylight, "xv_scene_annual_daylight")
    BY DEF xv_scene_annual_daylight, parse_materials, parse_annual_options, Answer, ScienceCode,
           ScienceSteps, OrderlyOf,
           Fallible, Sizes, Deciding, Reporting, Orderly, Follows, Reports, SizingRecord, MetadataOnly, Has
  <1>17. ScienceCode(xv_daylight_compare, "xv_daylight_compare")
    BY DEF xv_daylight_compare, ScienceCode, ScienceSteps, OrderlyOf,
           Fallible, Sizes, Deciding, Reporting, Orderly, Follows, Reports, SizingRecord, MetadataOnly, Has
  <1>18. ScienceCode(xv_scene_radiance_export_section, "xv_scene_radiance_export_section")
    BY DEF xv_scene_radiance_export_section, parse_materials, ScienceCode, ScienceSteps, OrderlyOf,
           Fallible, Sizes, Deciding, Reporting, Orderly, Follows, Reports, SizingRecord, MetadataOnly, Has
  <1>19. ScienceCode(xv_sun_positions, "xv_sun_positions")
    BY DEF xv_sun_positions, Answer, ScienceCode, ScienceSteps, OrderlyOf,
           Fallible, Sizes, Deciding, Reporting, Orderly, Follows, Reports, SizingRecord, MetadataOnly, Has
  <1>20. ScienceCode(xv_scene_direct_sun, "xv_scene_direct_sun")
    BY DEF xv_scene_direct_sun, Answer, ScienceCode, ScienceSteps, OrderlyOf,
           Fallible, Sizes, Deciding, Reporting, Orderly, Follows, Reports, SizingRecord, MetadataOnly, Has
  <1>21. ScienceCode(xv_scene_compare_solar_scenarios, "xv_scene_compare_solar_scenarios")
    BY DEF xv_scene_compare_solar_scenarios, Checked, scenarios_from_ffi, Answer, ScienceCode,
           ScienceSteps, OrderlyOf,
           Fallible, Sizes, Deciding, Reporting, Orderly, Follows, Reports, SizingRecord, MetadataOnly, Has
  <1>22. ScienceCode(xv_scene_solar_envelope, "xv_scene_solar_envelope")
    BY DEF xv_scene_solar_envelope, execute_solar_envelope, Answer, ScienceCode, ScienceSteps, OrderlyOf,
           Fallible, Sizes, Deciding, Reporting, Orderly, Follows, Reports, SizingRecord, MetadataOnly, Has
  <1>23. ScienceCode(xv_scene_solar_envelope_oriented, "xv_scene_solar_envelope_oriented")
    BY DEF xv_scene_solar_envelope_oriented, execute_solar_envelope, Answer, ScienceCode, ScienceSteps,
           OrderlyOf,
           Fallible, Sizes, Deciding, Reporting, Orderly, Follows, Reports, SizingRecord, MetadataOnly, Has
  <1>24. ScienceCode(xv_surface_grid, "xv_surface_grid")
    BY DEF xv_surface_grid, ScienceCode, ScienceSteps, OrderlyOf,
           Fallible, Sizes, Deciding, Reporting, Orderly, Follows, Reports, SizingRecord, MetadataOnly, Has
  <1>25. ScienceCode(xv_surface_pv_potential, "xv_surface_pv_potential")
    BY DEF xv_surface_pv_potential, ScienceCode, ScienceSteps, OrderlyOf,
           Fallible, Sizes, Deciding, Reporting, Orderly, Follows, Reports, SizingRecord, MetadataOnly, Has
  <1>26. ScienceCode(xv_study_rank, "xv_study_rank")
    BY DEF xv_study_rank, problem_from_ffi, Answer, ScienceCode, ScienceSteps, OrderlyOf,
           Fallible, Sizes, Deciding, Reporting, Orderly, Follows, Reports, SizingRecord, MetadataOnly, Has
  <1>27. ScienceCode(xv_study_spearman, "xv_study_spearman")
    BY DEF xv_study_spearman, problem_from_ffi, ScienceCode, ScienceSteps, OrderlyOf,
           Fallible, Sizes, Deciding, Reporting, Orderly, Follows, Reports, SizingRecord, MetadataOnly, Has
  <1>28. ScienceCode(xv_study_hypervolume_2d, "xv_study_hypervolume_2d")
    BY DEF xv_study_hypervolume_2d, problem_from_ffi, ScienceCode, ScienceSteps, OrderlyOf,
           Fallible, Sizes, Deciding, Reporting, Orderly, Follows, Reports, SizingRecord, MetadataOnly, Has
  <1>29. ScienceCode(xv_scene_get_stats, "xv_scene_get_stats")
    BY DEF xv_scene_get_stats, ScienceCode, ScienceSteps, OrderlyOf,
           Fallible, Sizes, Deciding, Reporting, Orderly, Follows, Reports, SizingRecord, MetadataOnly, Has
  <1>30. ScienceCode(xv_scene_trace_closest, "xv_scene_trace_closest")
    BY DEF xv_scene_trace_closest, ScienceCode, ScienceSteps, OrderlyOf,
           Fallible, Sizes, Deciding, Reporting, Orderly, Follows, Reports, SizingRecord, MetadataOnly, Has
  <1>31. ScienceCode(xv_scene_trace_any, "xv_scene_trace_any")
    BY DEF xv_scene_trace_any, ScienceCode, ScienceSteps, OrderlyOf,
           Fallible, Sizes, Deciding, Reporting, Orderly, Follows, Reports, SizingRecord, MetadataOnly, Has
  <1>32. ScienceCode(xv_cache_configure, "xv_cache_configure")
    BY DEF xv_cache_configure, ScienceCode, ScienceSteps, OrderlyOf,
           Fallible, Sizes, Deciding, Reporting, Orderly, Follows, Reports, SizingRecord, MetadataOnly, Has
  <1>33. ScienceCode(xv_cache_get_stats, "xv_cache_get_stats")
    BY DEF xv_cache_get_stats, ScienceCode, ScienceSteps, OrderlyOf,
           Fallible, Sizes, Deciding, Reporting, Orderly, Follows, Reports, SizingRecord, MetadataOnly, Has
  <1>34. ScienceCode(xv_cache_clear, "xv_cache_clear")
    BY DEF xv_cache_clear, ScienceCode, ScienceSteps, OrderlyOf,
           Fallible, Sizes, Deciding, Reporting, Orderly, Follows, Reports, SizingRecord, MetadataOnly, Has
  <1>35. ScienceCode(xv_compute_enumerate_adapters, "xv_compute_enumerate_adapters")
    BY DEF xv_compute_enumerate_adapters, ScienceCode, ScienceSteps, OrderlyOf,
           Fallible, Sizes, Deciding, Reporting, Orderly, Follows, Reports, SizingRecord, MetadataOnly, Has
  <1>36. ScienceCode(seal_passport, "xv_evidence_passport_seal_json")
    BY DEF seal_passport, run_json, read_utf8, write_utf8, ScienceCode, ScienceSteps, OrderlyOf,
           Fallible, Sizes, Deciding, Reporting, Orderly, Follows, Reports, SizingRecord, MetadataOnly, Has
  <1>37. ScienceCode(create_design, "xv_sensitivity_design_json")
    BY DEF create_design, run_json, read_utf8, write_utf8, ScienceCode, ScienceSteps, OrderlyOf,
           Fallible, Sizes, Deciding, Reporting, Orderly, Follows, Reports, SizingRecord, MetadataOnly, Has
  <1>38. ScienceCode(analyze_sensitivity, "xv_sensitivity_analyze_json")
    BY DEF analyze_sensitivity, run_json, read_utf8, write_utf8, ScienceCode, ScienceSteps, OrderlyOf,
           Fallible, Sizes, Deciding, Reporting, Orderly, Follows, Reports, SizingRecord, MetadataOnly, Has
  <1>39. ScienceCode(aggregate_scenarios, "xv_robust_scenarios_json")
    BY DEF aggregate_scenarios, run_json, read_utf8, write_utf8, ScienceCode, ScienceSteps, OrderlyOf,
           Fallible, Sizes, Deciding, Reporting, Orderly, Follows, Reports, SizingRecord, MetadataOnly, Has
  <1>40. ScienceCode(rank_uncertainty, "xv_uncertainty_rank_json")
    BY DEF rank_uncertainty, run_json, read_utf8, write_utf8, ScienceCode, ScienceSteps, OrderlyOf,
           Fallible, Sizes, Deciding, Reporting, Orderly, Follows, Reports, SizingRecord, MetadataOnly, Has
  <1>41. ScienceCode(select_fidelity, "xv_multifidelity_recommend_json")
    BY DEF select_fidelity, run_json, read_utf8, write_utf8, ScienceCode, ScienceSteps, OrderlyOf,
           Fallible, Sizes, Deciding, Reporting, Orderly, Follows, Reports, SizingRecord, MetadataOnly, Has
  <1>42. ScienceCode(xv_study_manifest_schema_json, "xv_study_manifest_schema_json")
    <2> DEFINE code == xv_study_manifest_schema_json
    <2>1. /\ code \in Seq(ScienceSteps) /\ Len(code) = 7
          /\ code[1] = "serialize" /\ code[2] = "pointers" /\ code[3] = "size" /\ code[4] = "sizing"
          /\ code[5] = "fits" /\ code[6] = "slices" /\ code[7] = "outputs"
      BY DEF xv_study_manifest_schema_json, write_utf8, ScienceSteps, Fallible, Sizes, Reporting
    <2> HIDE DEF code
    <2>2. code # <<>> /\ \A i \in DOMAIN code : i \in 1..7
      BY <2>1
    <2>3. Orderly(code, "xv_study_manifest_schema_json")
      BY <2>1, <2>2
         DEF Orderly, Follows, Reports, SizingRecord, MetadataOnly, Fallible, Sizes, Deciding, Reporting
    <2>4. "xv_study_manifest_schema_json" \notin MetadataOnly
      BY DEF MetadataOnly
    <2>5. QED
      BY <2>1, <2>2, <2>3, <2>4 DEF ScienceCode, OrderlyOf, code
  <1>43. QED
    BY <1>1, <1>2, <1>3, <1>4, <1>5, <1>6, <1>7, <1>8, <1>9, <1>10, <1>11, <1>12, <1>13, <1>14,
       <1>15, <1>16, <1>17, <1>18, <1>19, <1>20, <1>21, <1>22, <1>23, <1>24, <1>25, <1>26, <1>27,
       <1>28, <1>29, <1>30, <1>31, <1>32, <1>33, <1>34, <1>35, <1>36, <1>37, <1>38, <1>39, <1>40,
       <1>41, <1>42
       DEF Science

LEMMA SessionsCodes ==
  ASSUME NEW function \in DOMAIN Sessions
  PROVE  SessionsCode(Sessions[function], function)
  <1>1. SessionsCode(xv_compute_create, "xv_compute_create")
    <2>1. xv_compute_create \in Seq(SessionsSteps) /\ xv_compute_create # <<>>
      BY DEF xv_compute_create, convert_options, create_session, SessionsSteps, Fallible, Reporting
    <2>2. Orderly(xv_compute_create, "xv_compute_create")
      BY DEF xv_compute_create, convert_options, create_session, Fallible, Sizes, Deciding, Reporting,
             Orderly, Follows, Reports, SizingRecord, MetadataOnly
    <2>3. SessionsOnly(xv_compute_create, "xv_compute_create")
      BY DEF xv_compute_create, convert_options, create_session, SessionsOnly, Has
    <2>4. Announced(xv_compute_create)
      BY DEF xv_compute_create, convert_options, create_session, Announced
    <2>5. QED
      BY <2>1, <2>2, <2>3, <2>4 DEF SessionsCode, OrderlyOf
  <1>2. SessionsCode(xv_compute_create_for_adapter, "xv_compute_create_for_adapter")
    <2>1. xv_compute_create_for_adapter \in Seq(SessionsSteps) /\ xv_compute_create_for_adapter # <<>>
      BY DEF xv_compute_create_for_adapter, convert_options, create_session, SessionsSteps, Fallible,
             Reporting
    <2>2. Orderly(xv_compute_create_for_adapter, "xv_compute_create_for_adapter")
      BY DEF xv_compute_create_for_adapter, convert_options, create_session, Fallible, Sizes, Deciding,
             Reporting, Orderly, Follows, Reports, SizingRecord, MetadataOnly
    <2>3. SessionsOnly(xv_compute_create_for_adapter, "xv_compute_create_for_adapter")
      BY DEF xv_compute_create_for_adapter, convert_options, create_session, SessionsOnly, Has
    <2>4. Announced(xv_compute_create_for_adapter)
      BY DEF xv_compute_create_for_adapter, convert_options, create_session, Announced
    <2>5. QED
      BY <2>1, <2>2, <2>3, <2>4 DEF SessionsCode, OrderlyOf
  <1>3. SessionsCode(xv_compute_target_view, "xv_compute_target_view")
    <2>1. xv_compute_target_view \in Seq(SessionsSteps) /\ xv_compute_target_view # <<>>
      BY DEF xv_compute_target_view, Answer, SessionsSteps, Fallible, Reporting
    <2>2. Orderly(xv_compute_target_view, "xv_compute_target_view")
      BY DEF xv_compute_target_view, Answer, Fallible, Sizes, Deciding, Reporting, Orderly, Follows, Reports, SizingRecord, MetadataOnly
    <2>3. SessionsOnly(xv_compute_target_view, "xv_compute_target_view")
      BY DEF xv_compute_target_view, Answer, SessionsOnly, Has
    <2>4. Announced(xv_compute_target_view)
      BY DEF xv_compute_target_view, Answer, Announced
    <2>5. QED
      BY <2>1, <2>2, <2>3, <2>4 DEF SessionsCode, OrderlyOf
  <1>4. SessionsCode(xv_compute_view_corridor, "xv_compute_view_corridor")
    <2>1. xv_compute_view_corridor \in Seq(SessionsSteps) /\ xv_compute_view_corridor # <<>>
      BY DEF xv_compute_view_corridor, Checked, Answer, SessionsSteps, Fallible, Reporting
    <2>2. Orderly(xv_compute_view_corridor, "xv_compute_view_corridor")
      BY DEF xv_compute_view_corridor, Checked, Answer, Fallible, Sizes, Deciding, Reporting, Orderly, Follows, Reports, SizingRecord, MetadataOnly
    <2>3. SessionsOnly(xv_compute_view_corridor, "xv_compute_view_corridor")
      BY DEF xv_compute_view_corridor, Checked, Answer, SessionsOnly, Has
    <2>4. Announced(xv_compute_view_corridor)
      BY DEF xv_compute_view_corridor, Checked, Answer, Announced
    <2>5. QED
      BY <2>1, <2>2, <2>3, <2>4 DEF SessionsCode, OrderlyOf
  <1>5. SessionsCode(xv_compute_observer_path, "xv_compute_observer_path")
    <2>1. xv_compute_observer_path \in Seq(SessionsSteps) /\ xv_compute_observer_path # <<>>
      BY DEF xv_compute_observer_path, Answer, SessionsSteps, Fallible, Reporting
    <2>2. Orderly(xv_compute_observer_path, "xv_compute_observer_path")
      BY DEF xv_compute_observer_path, Answer, Fallible, Sizes, Deciding, Reporting, Orderly, Follows, Reports, SizingRecord, MetadataOnly
    <2>3. SessionsOnly(xv_compute_observer_path, "xv_compute_observer_path")
      BY DEF xv_compute_observer_path, Answer, SessionsOnly, Has
    <2>4. Announced(xv_compute_observer_path)
      BY DEF xv_compute_observer_path, Answer, Announced
    <2>5. QED
      BY <2>1, <2>2, <2>3, <2>4 DEF SessionsCode, OrderlyOf
  <1>6. SessionsCode(xv_compute_trace_closest, "xv_compute_trace_closest")
    <2>1. xv_compute_trace_closest \in Seq(SessionsSteps) /\ xv_compute_trace_closest # <<>>
      BY DEF xv_compute_trace_closest, Answer, SessionsSteps, Fallible, Reporting
    <2>2. Orderly(xv_compute_trace_closest, "xv_compute_trace_closest")
      BY DEF xv_compute_trace_closest, Answer, Fallible, Sizes, Deciding, Reporting, Orderly, Follows, Reports, SizingRecord, MetadataOnly
    <2>3. SessionsOnly(xv_compute_trace_closest, "xv_compute_trace_closest")
      BY DEF xv_compute_trace_closest, Answer, SessionsOnly, Has
    <2>4. Announced(xv_compute_trace_closest)
      BY DEF xv_compute_trace_closest, Answer, Announced
    <2>5. QED
      BY <2>1, <2>2, <2>3, <2>4 DEF SessionsCode, OrderlyOf
  <1>7. SessionsCode(xv_compute_trace_any, "xv_compute_trace_any")
    <2>1. xv_compute_trace_any \in Seq(SessionsSteps) /\ xv_compute_trace_any # <<>>
      BY DEF xv_compute_trace_any, Answer, SessionsSteps, Fallible, Reporting
    <2>2. Orderly(xv_compute_trace_any, "xv_compute_trace_any")
      BY DEF xv_compute_trace_any, Answer, Fallible, Sizes, Deciding, Reporting, Orderly, Follows, Reports, SizingRecord, MetadataOnly
    <2>3. SessionsOnly(xv_compute_trace_any, "xv_compute_trace_any")
      BY DEF xv_compute_trace_any, Answer, SessionsOnly, Has
    <2>4. Announced(xv_compute_trace_any)
      BY DEF xv_compute_trace_any, Answer, Announced
    <2>5. QED
      BY <2>1, <2>2, <2>3, <2>4 DEF SessionsCode, OrderlyOf
  <1>8. SessionsCode(xv_compute_get_runtime_stats, "xv_compute_get_runtime_stats")
    <2>1. xv_compute_get_runtime_stats \in Seq(SessionsSteps) /\ xv_compute_get_runtime_stats # <<>>
      BY DEF xv_compute_get_runtime_stats, SessionsSteps, Fallible, Reporting
    <2>2. Orderly(xv_compute_get_runtime_stats, "xv_compute_get_runtime_stats")
      BY DEF xv_compute_get_runtime_stats, Fallible, Sizes, Deciding, Reporting, Orderly, Follows, Reports, SizingRecord, MetadataOnly
    <2>3. SessionsOnly(xv_compute_get_runtime_stats, "xv_compute_get_runtime_stats")
      BY DEF xv_compute_get_runtime_stats, SessionsOnly, Has
    <2>4. Announced(xv_compute_get_runtime_stats)
      BY DEF xv_compute_get_runtime_stats, Announced
    <2>5. QED
      BY <2>1, <2>2, <2>3, <2>4 DEF SessionsCode, OrderlyOf
  <1>9. SessionsCode(xv_compute_release, "xv_compute_release")
    <2>1. xv_compute_release \in Seq(SessionsSteps) /\ xv_compute_release # <<>>
      BY DEF xv_compute_release, SessionsSteps, Fallible, Reporting
    <2>2. Orderly(xv_compute_release, "xv_compute_release")
      BY DEF xv_compute_release, Fallible, Sizes, Deciding, Reporting, Orderly, Follows, Reports, SizingRecord, MetadataOnly
    <2>3. SessionsOnly(xv_compute_release, "xv_compute_release")
      BY DEF xv_compute_release, SessionsOnly, Has
    <2>4. Announced(xv_compute_release)
      BY DEF xv_compute_release, Announced
    <2>5. QED
      BY <2>1, <2>2, <2>3, <2>4 DEF SessionsCode, OrderlyOf
  <1>10. QED
    BY <1>1, <1>2, <1>3, <1>4, <1>5, <1>6, <1>7, <1>8, <1>9 DEF Sessions

LEMMA OptimizersCodes ==
  ASSUME NEW function \in DOMAIN Optimizers
  PROVE  OptimizersCode(Optimizers[function], function)
  <1>1. OptimizersCode(xv_optimizer_create, "xv_optimizer_create")
    <2>1. xv_optimizer_create \in Seq(OptimizersSteps) /\ xv_optimizer_create # <<>>
      BY DEF xv_optimizer_create, problem_from_ffi, OptimizersSteps, Fallible, Reporting
    <2>2. Orderly(xv_optimizer_create, "xv_optimizer_create")
      BY DEF xv_optimizer_create, problem_from_ffi, Fallible, Sizes, Deciding, Reporting, Orderly, Follows, Reports, SizingRecord, MetadataOnly
    <2>3. OptimizersOnly(xv_optimizer_create, "xv_optimizer_create")
      BY DEF xv_optimizer_create, problem_from_ffi, OptimizersOnly, Has
    <2>4. Announced(xv_optimizer_create)
      BY DEF xv_optimizer_create, problem_from_ffi, Announced
    <2>5. QED
      BY <2>1, <2>2, <2>3, <2>4 DEF OptimizersCode, OrderlyOf
  <1>2. OptimizersCode(xv_optimizer_ask, "xv_optimizer_ask")
    <2>1. xv_optimizer_ask \in Seq(OptimizersSteps) /\ xv_optimizer_ask # <<>>
      BY DEF xv_optimizer_ask, Answer, OptimizersSteps, Fallible, Reporting
    <2>2. Orderly(xv_optimizer_ask, "xv_optimizer_ask")
      BY DEF xv_optimizer_ask, Answer, Fallible, Sizes, Deciding, Reporting, Orderly, Follows, Reports, SizingRecord, MetadataOnly
    <2>3. OptimizersOnly(xv_optimizer_ask, "xv_optimizer_ask")
      BY DEF xv_optimizer_ask, Answer, OptimizersOnly, Has
    <2>4. Announced(xv_optimizer_ask)
      BY DEF xv_optimizer_ask, Answer, Announced
    <2>5. QED
      BY <2>1, <2>2, <2>3, <2>4 DEF OptimizersCode, OrderlyOf
  <1>3. OptimizersCode(xv_optimizer_tell, "xv_optimizer_tell")
    <2>1. xv_optimizer_tell \in Seq(OptimizersSteps) /\ xv_optimizer_tell # <<>>
      BY DEF xv_optimizer_tell, Answer, OptimizersSteps, Fallible, Reporting
    <2>2. Orderly(xv_optimizer_tell, "xv_optimizer_tell")
      BY DEF xv_optimizer_tell, Answer, Fallible, Sizes, Deciding, Reporting, Orderly, Follows, Reports, SizingRecord, MetadataOnly
    <2>3. OptimizersOnly(xv_optimizer_tell, "xv_optimizer_tell")
      BY DEF xv_optimizer_tell, Answer, OptimizersOnly, Has
    <2>4. Announced(xv_optimizer_tell)
      BY DEF xv_optimizer_tell, Answer, Announced
    <2>5. QED
      BY <2>1, <2>2, <2>3, <2>4 DEF OptimizersCode, OrderlyOf
  <1>4. OptimizersCode(xv_optimizer_release, "xv_optimizer_release")
    <2>1. xv_optimizer_release \in Seq(OptimizersSteps) /\ xv_optimizer_release # <<>>
      BY DEF xv_optimizer_release, OptimizersSteps, Fallible, Reporting
    <2>2. Orderly(xv_optimizer_release, "xv_optimizer_release")
      BY DEF xv_optimizer_release, Fallible, Sizes, Deciding, Reporting, Orderly, Follows, Reports, SizingRecord, MetadataOnly
    <2>3. OptimizersOnly(xv_optimizer_release, "xv_optimizer_release")
      BY DEF xv_optimizer_release, OptimizersOnly, Has
    <2>4. Announced(xv_optimizer_release)
      BY DEF xv_optimizer_release, Announced
    <2>5. QED
      BY <2>1, <2>2, <2>3, <2>4 DEF OptimizersCode, OrderlyOf
  <1>5. QED
    BY <1>1, <1>2, <1>3, <1>4 DEF Optimizers

LEMMA WorkspacesCodes ==
  ASSUME NEW function \in DOMAIN Workspaces
  PROVE  WorkspacesCode(Workspaces[function], function)
  <1>1. WorkspacesCode(xv_study_workspace_create, "xv_study_workspace_create")
    BY DEF xv_study_workspace_create, read_utf8, write_utf8, WorkspacesCode, WorkspacesSteps, OrderlyOf,
           Fallible, Sizes, Deciding, Reporting, Orderly, Follows, Reports, SizingRecord, MetadataOnly, Has
  <1>2. WorkspacesCode(xv_study_workspace_status, "xv_study_workspace_status")
    BY DEF xv_study_workspace_status, read_utf8, write_utf8, WorkspacesCode, WorkspacesSteps, OrderlyOf,
           Fallible, Sizes, Deciding, Reporting, Orderly, Follows, Reports, SizingRecord, MetadataOnly, Has
  <1>3. WorkspacesCode(xv_study_workspace_begin_batch, "xv_study_workspace_begin_batch")
    BY DEF xv_study_workspace_begin_batch, read_utf8, write_utf8, WorkspacesCode, WorkspacesSteps, OrderlyOf,
           Fallible, Sizes, Deciding, Reporting, Orderly, Follows, Reports, SizingRecord, MetadataOnly, Has
  <1>4. WorkspacesCode(xv_study_workspace_commit_batch, "xv_study_workspace_commit_batch")
    BY DEF xv_study_workspace_commit_batch, read_utf8, write_utf8, WorkspacesCode, WorkspacesSteps, OrderlyOf,
           Fallible, Sizes, Deciding, Reporting, Orderly, Follows, Reports, SizingRecord, MetadataOnly, Has
  <1>5. WorkspacesCode(xv_study_workspace_report, "xv_study_workspace_report")
    <2>1. /\ xv_study_workspace_report \in Seq(WorkspacesSteps) /\ xv_study_workspace_report # <<>>
          /\ Has(xv_study_workspace_report, "commit") =>
               "xv_study_workspace_report" = "xv_study_workspace_commit_batch"
      BY DEF xv_study_workspace_report, read_utf8, write_utf8, WorkspacesSteps, Fallible, Sizes, Reporting, Has
    <2>2. SizingRecord("xv_study_workspace_report") = "size"
      BY DEF SizingRecord, MetadataOnly
    <2>3. Orderly(xv_study_workspace_report, "xv_study_workspace_report")
      BY <2>2 DEF xv_study_workspace_report, read_utf8, write_utf8, Fallible, Sizes, Deciding, Reporting,
                  Orderly, Follows, Reports
    <2>4. QED
      BY <2>1, <2>3 DEF WorkspacesCode, OrderlyOf
  <1>6. QED
    BY <1>1, <1>2, <1>3, <1>4, <1>5 DEF Workspaces

\* What the proof needs to know of a code.
Only(code, function) ==
  /\ Has(code, "size") => function \notin MetadataOnly
  /\ Has(code, SizingRecord(function)) => \A i \in DOMAIN code : code[i] \notin Handling
  /\ Has(code, "sizing") => function # "xv_optimizer_ask"
  /\ Has(code, "commit") => function = "xv_study_workspace_commit_batch"
  /\ Has(code, "tell") => function = "xv_optimizer_tell"
  /\ Has(code, "ask") => function = "xv_optimizer_ask" /\ Has(code, "outputs")
  /\ Has(code, "insert_optimizer") => function = "xv_optimizer_create"
  /\ Has(code, "insert_session") =>
       function \in {"xv_compute_create", "xv_compute_create_for_adapter"}
Regular(code, function) ==
  /\ code \in Seq(Steps) /\ code # <<>> /\ Orderly(code, function) /\ Announced(code)
  /\ Only(code, function)
Table(F) == \A f \in DOMAIN F : Regular(F[f], f)

LEMMA AllSteps ==
  /\ ScienceSteps \subseteq Steps /\ SessionsSteps \subseteq Steps
  /\ OptimizersSteps \subseteq Steps /\ WorkspacesSteps \subseteq Steps
  BY DEF Steps, ScienceSteps, SessionsSteps, OptimizersSteps, WorkspacesSteps, Deciding, Handling,
         Sizes, Reporting

LEMMA RegularCodes == \A f \in DOMAIN Families : Table(Families[f])
  <1>1. Table(Science)
    <2> SUFFICES ASSUME NEW f \in DOMAIN Science PROVE Regular(Science[f], f)
      BY DEF Table
    <2> DEFINE code == Science[f]
    <2>1. OrderlyOf(ScienceSteps, code, f) /\ (Has(code, "size") => f \notin MetadataOnly)
      BY ScienceCodes DEF ScienceCode
    <2> HIDE DEF code
    <2>2. code \in Seq(Steps)
      BY <2>1, AllSteps DEF OrderlyOf
    <2>3. \A i \in DOMAIN code : code[i] \in ScienceSteps
      BY <2>1 DEF OrderlyOf
    <2>4. \A i \in DOMAIN code : code[i] \notin Handling \cup {"commit"}
      BY <2>3 DEF ScienceSteps, Handling, Fallible, Sizes, Reporting
    <2>5. f # "xv_optimizer_ask"
      BY DEF Science
    <2>6. Announced(code) /\ Only(code, f)
      BY <2>1, <2>4, <2>5 DEF Announced, Only, Has, Handling
    <2>7. QED
      BY <2>1, <2>2, <2>6 DEF Regular, OrderlyOf, code
  <1>2. Table(Sessions)
    <2> SUFFICES ASSUME NEW f \in DOMAIN Sessions PROVE Regular(Sessions[f], f)
      BY DEF Table
    <2> DEFINE code == Sessions[f]
    <2>1. OrderlyOf(SessionsSteps, code, f) /\ SessionsOnly(code, f) /\ Announced(code)
      BY SessionsCodes DEF SessionsCode
    <2> HIDE DEF code
    <2>2. code \in Seq(Steps)
      BY <2>1, AllSteps DEF OrderlyOf
    <2>3. \A i \in DOMAIN code : code[i] \in SessionsSteps
      BY <2>1 DEF OrderlyOf
    <2>4. \A i \in DOMAIN code : code[i] \notin {"size", "sizing", "commit", "tell", "ask", "insert_optimizer"}
      BY <2>3 DEF SessionsSteps, Fallible, Reporting
    <2>5. f \notin MetadataOnly
      BY DEF Sessions, MetadataOnly
    <2>6. Only(code, f)
      BY <2>1, <2>4, <2>5 DEF Only, Has, SessionsOnly, SizingRecord
    <2>7. QED
      BY <2>1, <2>2, <2>6 DEF Regular, OrderlyOf, code
  <1>3. Table(Optimizers)
    <2> SUFFICES ASSUME NEW f \in DOMAIN Optimizers PROVE Regular(Optimizers[f], f)
      BY DEF Table
    <2> DEFINE code == Optimizers[f]
    <2>1. OrderlyOf(OptimizersSteps, code, f) /\ OptimizersOnly(code, f) /\ Announced(code)
      BY OptimizersCodes DEF OptimizersCode
    <2> HIDE DEF code
    <2>2. code \in Seq(Steps)
      BY <2>1, AllSteps DEF OrderlyOf
    <2>3. \A i \in DOMAIN code : code[i] \in OptimizersSteps
      BY <2>1 DEF OrderlyOf
    <2>4. \A i \in DOMAIN code : code[i] \notin {"size", "sizing", "commit", "insert_session"}
      BY <2>3 DEF OptimizersSteps, Fallible, Reporting
    <2>5. f \notin MetadataOnly
      BY DEF Optimizers, MetadataOnly
    <2>6. Only(code, f)
      BY <2>1, <2>4, <2>5 DEF Only, Has, OptimizersOnly, SizingRecord
    <2>7. QED
      BY <2>1, <2>2, <2>6 DEF Regular, OrderlyOf, code
  <1>4. Table(Workspaces)
    <2> SUFFICES ASSUME NEW f \in DOMAIN Workspaces PROVE Regular(Workspaces[f], f)
      BY DEF Table
    <2> DEFINE code == Workspaces[f]
    <2>1. /\ OrderlyOf(WorkspacesSteps, code, f)
          /\ Has(code, "commit") => f = "xv_study_workspace_commit_batch"
      BY WorkspacesCodes DEF WorkspacesCode
    <2> HIDE DEF code
    <2>2. code \in Seq(Steps)
      BY <2>1, AllSteps DEF OrderlyOf
    <2>3. \A i \in DOMAIN code : code[i] \in WorkspacesSteps
      BY <2>1 DEF OrderlyOf
    <2>4. \A i \in DOMAIN code : code[i] \notin Handling
      BY <2>3 DEF WorkspacesSteps, Handling, Fallible, Sizes, Reporting
    <2>5. f # "xv_optimizer_ask" /\ f \notin MetadataOnly
      BY DEF Workspaces, MetadataOnly
    <2>6. Announced(code) /\ Only(code, f)
      BY <2>1, <2>4, <2>5 DEF Announced, Only, Has, Handling
    <2>7. QED
      BY <2>1, <2>2, <2>6 DEF Regular, OrderlyOf, code
  <1>5. QED
    BY <1>1, <1>2, <1>3, <1>4 DEF Families

-----------------------------------------------------------------------------
(* A call under way, and one that is over.                                  *)

CallsOf(F) ==
  [function : DOMAIN F \cup {""}, argument : Arguments, rest : Seq(Steps), capacity : 0..MaxCapacity,
   required : Nat, taken : Nat, current : BOOLEAN, informed : BOOLEAN,
   at : Steps \cup {"", "disk"}, wrote : SUBSET Steps]

\* What is left of a code.
Remains(rest, code, f) ==
  /\ Orderly(rest, f) /\ Announced(rest)
  /\ \A i \in DOMAIN rest : Has(code, rest[i])
  /\ Has(rest, "ask") => Has(rest, "outputs")
  /\ Has(rest, "open") => \A step \in Deciding : Has(code, step) => Has(rest, step)

\* The last look at the scene and the study is over.
IsDecided(rest) == \A i \in DOMAIN rest : rest[i] \notin Deciding

\* The call of this function with this argument is not refused by the scene or the
\* study, and the size of its answer.
Answerable(code, argument, sc, st) ==
  /\ Has(code, "scene") => sc \in {"small", "large"}
  /\ Has(code, "open") => st.exists
  /\ Has(code, "create") => st.exists /\ st.manifest = argument.version
  /\ Has(code, "begin") => st.active # 0
  /\ Has(code, "commit") => st.done[argument.batch] = argument.version
Needed(code, sc, st) ==
  IF Has(code, "scene") THEN IF sc = "large" THEN 2 ELSE 1
  ELSE IF Has(code, "begin") THEN BatchSize(st.active)
  ELSE IF Has(code, "open") \/ Has(code, "create") \/ Has(code, "commit") THEN ResumeSize(st)
  ELSE 1
Knows(call, code, sc, st) ==
  call.current =>
    Answerable(code, call.argument, sc, st) /\ call.required = Needed(code, sc, st)

Wrote(call, code) ==
  /\ \/ call.wrote \subseteq {SizingRecord(call.function)}
     \/ \A i \in DOMAIN call.rest : call.rest[i] \in Reports(call.function)
  /\ "size" \in call.wrote => call.function \notin MetadataOnly
  /\ Learned(call) => IsDecided(call.rest) /\ Has(code, SizingRecord(call.function))
Informed(call, code, sc, st) ==
  call.informed =>
    /\ call.current /\ Has(code, SizingRecord(call.function))
    /\ Answerable(code, call.argument, sc, st) /\ call.capacity >= Needed(code, sc, st)
Taking(call, seen) ==
  call.taken # 0 =>
    /\ call.function = "xv_optimizer_ask"
    /\ Has(call.rest, "outputs") \/ call.taken \in seen
    /\ ~Has(call.rest, "ask")
Committing(call) ==
  call.function = "xv_study_workspace_commit_batch" => call.argument.batch \in 1..MaxBatches

ActiveCall(call, F, sc, st, seen) ==
  LET code == F[call.function] IN
  /\ call.function \in DOMAIN F /\ call.at = ""
  /\ Remains(call.rest, code, call.function)
  /\ Wrote(call, code)
  /\ Has(code, "open") => Has(call.rest, "open") \/ st.exists
  /\ IsDecided(call.rest) => Knows(call, code, sc, st)
  /\ Informed(call, code, sc, st)
  /\ Taking(call, seen) /\ Committing(call)
EndedCall(call, F, sc, st) ==
  /\ Learned(call) =>
       /\ call.function \in DOMAIN F /\ Has(F[call.function], SizingRecord(call.function))
       /\ Knows(call, F[call.function], sc, st)
  /\ call.at # "" => call.wrote \subseteq {SizingRecord(call.function)}
  /\ call.informed /\ call.at # "" => call.at \in Fallible \cup {"disk"}
GoodCall(call, F, sc, st, seen) ==
  IF call.rest # <<>> THEN ActiveCall(call, F, sc, st, seen) ELSE EndedCall(call, F, sc, st)

LEMMA NotEmpty ==
  ASSUME NEW S, NEW s \in Seq(S)
  PROVE  /\ Len(s) \in Nat /\ (s # <<>> <=> Len(s) >= 1)
         /\ Len(s) >= 1 => s[1] \in S /\ Head(s) = s[1] /\ Tail(s) \in Seq(S) /\ Len(Tail(s)) = Len(s) - 1
  OBVIOUS

LEMMA SecondStep ==
  ASSUME NEW S, NEW s \in Seq(S), s # <<>>, Len(s) # 1
  PROVE  /\ Len(s) >= 2 /\ Tail(s) \in Seq(S) /\ Len(Tail(s)) = Len(s) - 1 /\ Tail(s) # <<>>
  <1>1. Len(s) \in Nat /\ Len(s) >= 1
    BY NotEmpty
  <1>2. \A n \in Nat : n >= 1 /\ n # 1 => n >= 2
    OBVIOUS
  <1>3. Len(s) >= 2
    BY <1>1, <1>2
  <1>4. Tail(s) \in Seq(S) /\ Len(Tail(s)) = Len(s) - 1
    BY <1>3
  <1>5. Len(Tail(s)) >= 1
    BY <1>1, <1>3, <1>4
  <1>6. Tail(s) # <<>>
    BY ONLY <1>4, <1>5, NotEmpty
  <1>7. QED
    BY <1>3, <1>4, <1>6

LEMMA NothingYet == <<>> \in Seq(Steps) /\ 0 \in 0..MaxCapacity /\ NoArgument \in Arguments
  <1>1. <<>> \in Seq(Steps)
    OBVIOUS
  <1>2. 0 \in 0..MaxCapacity
    BY NativeAssumption
  <1>3. NoArgument \in Arguments
    BY NativeAssumption DEF NoArgument, Arguments
  <1>4. QED
    BY <1>1, <1>2, <1>3

\* What is left after the first n steps.
IsSuffix(s, rest, n, f) ==
  /\ s \in Seq(Steps) /\ s # <<>> /\ Len(s) = Len(rest) - n + 1 /\ Head(s) = rest[n]
  /\ Tail(s) \in Seq(Steps) /\ Len(Tail(s)) = Len(rest) - n
  /\ \A i \in DOMAIN Tail(s) :
       /\ n + i \in DOMAIN rest /\ Tail(s)[i] = rest[n + i]
       /\ Follows(rest[n], Tail(s)[i], f)
  /\ \A j \in DOMAIN rest : j > n => j - n \in DOMAIN Tail(s) /\ Tail(s)[j - n] = rest[j]

LEMMA Tails ==
  ASSUME NEW code, NEW f, NEW rest \in Seq(Steps), Remains(rest, code, f), NEW n \in 1..Len(rest),
         NEW s, s = SubSeq(rest, n, Len(rest))
  PROVE  IsSuffix(s, rest, n, f)
  <1> DEFINE t == Tail(s)
  <1>1. s \in Seq(Steps) /\ Len(s) = Len(rest) - n + 1 /\ \A i \in 1..Len(s) : s[i] = rest[n + i - 1]
    OBVIOUS
  <1>2. Len(s) >= 1 /\ s # <<>> /\ Head(s) = rest[n]
    <2>1. Len(s) >= 1 /\ s[1] = rest[n]
      BY <1>1
    <2>2. QED
      BY <1>1, <2>1, NotEmpty
  <1>3. t \in Seq(Steps) /\ Len(t) = Len(rest) - n /\ \A i \in 1..Len(t) : t[i] = s[i + 1]
    BY <1>1, <1>2
  <1>4. \A i \in DOMAIN t : n + i \in DOMAIN rest /\ t[i] = rest[n + i]
    BY <1>1, <1>3
  <1>5. \A i \in DOMAIN t : Follows(rest[n], t[i], f)
    BY <1>3, <1>4 DEF Remains, Orderly
  <1>6. \A j \in DOMAIN rest : j > n => j - n \in DOMAIN t /\ t[j - n] = rest[j]
    BY <1>1, <1>3, <1>4
  <1>7. QED
    BY <1>1, <1>2, <1>3, <1>4, <1>5, <1>6 DEF IsSuffix

LEMMA TailRemains ==
  ASSUME NEW code, NEW f, NEW rest \in Seq(Steps), Remains(rest, code, f), NEW n \in 1..Len(rest),
         NEW s, s = SubSeq(rest, n, Len(rest))
  PROVE  Remains(Tail(s), code, f)
  <1> DEFINE t == Tail(s)
  <1>1. /\ t \in Seq(Steps)
        /\ \A i \in DOMAIN t : n + i \in DOMAIN rest /\ t[i] = rest[n + i]
        /\ \A j \in DOMAIN rest : j > n => j - n \in DOMAIN t /\ t[j - n] = rest[j]
    <2>1. IsSuffix(s, rest, n, f)
      BY Tails
    <2>2. QED
      BY <2>1 DEF IsSuffix
  <1> HIDE DEF t
  <1>2. Orderly(t, f)
    BY <1>1 DEF Remains, Orderly
  <1>3. Announced(t)
    <2> SUFFICES ASSUME NEW i \in DOMAIN t, t[i] \in {"insert_session", "insert_optimizer"}
                 PROVE  i + 1 \in DOMAIN t /\ t[i + 1] = "metadata"
      BY DEF Announced
    <2>1. n + i \in DOMAIN rest /\ rest[n + i] \in {"insert_session", "insert_optimizer"}
      BY <1>1
    <2>2. n + i + 1 \in DOMAIN rest /\ rest[n + i + 1] = "metadata"
      BY <2>1 DEF Remains, Announced
    <2>3. n + i + 1 > n /\ (n + i + 1) - n = i + 1
      BY <1>1
    <2>4. QED
      BY <1>1, <2>2, <2>3
  <1>4. \A i \in DOMAIN t : Has(code, t[i])
    BY <1>1 DEF Remains
  <1>5. ASSUME Has(t, "ask") PROVE Has(t, "outputs")
    <2>1. PICK i \in DOMAIN t : t[i] = "ask"
      BY <1>5 DEF Has
    <2>2. n + i \in DOMAIN rest /\ rest[n + i] = "ask"
      BY <1>1, <2>1
    <2>3. PICK j \in DOMAIN rest : rest[j] = "outputs"
      BY <2>2 DEF Remains, Has
    <2>4. ~(j < n + i)
      BY <2>2, <2>3 DEF Remains, Orderly, Follows, Reports, SizingRecord, Reporting
    <2>5. j > n
      BY <1>1, <2>1, <2>2, <2>3, <2>4
    <2>6. QED
      BY <1>1, <2>3, <2>5 DEF Has
  <1>6. ASSUME Has(t, "open"), NEW step \in Deciding, Has(code, step) PROVE Has(t, step)
    <2>1. PICK i \in DOMAIN t : t[i] = "open"
      BY <1>6 DEF Has
    <2>2. n + i \in DOMAIN rest /\ rest[n + i] = "open"
      BY <1>1, <2>1
    <2>3. Has(rest, "open")
      BY <2>2 DEF Has
    <2>4. Has(rest, step)
      BY <1>6, <2>3 DEF Remains
    <2>5. PICK j \in DOMAIN rest : rest[j] = step
      BY <2>4 DEF Has
    <2>6. CASE step = "open"
      BY <1>6, <2>6
    <2>7. CASE step # "open"
      <3>1. ~(j < n + i)
        BY <1>6, <2>2, <2>5, <2>7 DEF Remains, Orderly, Follows, Deciding
      <3>2. j > n
        BY <1>1, <2>1, <2>2, <2>5, <3>1
      <3>3. QED
        BY <1>1, <2>5, <3>2 DEF Has
    <2>8. QED
      BY <2>6, <2>7
  <1>7. QED
    BY <1>2, <1>3, <1>4, <1>5, <1>6 DEF Remains, t

\* The record of a call of which its caller learned nothing.
Forget(informed, wrote) == [Idle EXCEPT !.informed = informed, !.wrote = wrote]

IsForgotten(F, over, informed, wrote) ==
  /\ over \in CallsOf(F) /\ over.rest = <<>> /\ over.at = "" /\ over.function = ""
  /\ over.wrote = wrote /\ over.informed = informed
LEMMA Forgotten ==
  ASSUME NEW F, NEW informed \in BOOLEAN, NEW wrote \in SUBSET Steps
  PROVE  IsForgotten(F, Forget(informed, wrote), informed, wrote)
  <1>1. PICK over : over = Forget(informed, wrote)
    OBVIOUS
  <1>2. over = [function |-> "", argument |-> NoArgument, rest |-> <<>>, capacity |-> 0,
                required |-> 1, taken |-> 0, current |-> TRUE, informed |-> informed,
                at |-> "", wrote |-> wrote]
    BY <1>1 DEF Forget, Idle
  <1>3. over \in CallsOf(F)
    BY ONLY <1>2, NothingYet, informed \in BOOLEAN, wrote \in SUBSET Steps DEF CallsOf
  <1>4. /\ over.rest = <<>> /\ over.at = "" /\ over.function = ""
        /\ over.wrote = wrote /\ over.informed = informed
    BY ONLY <1>2
  <1>5. QED
    BY ONLY <1>1, <1>3, <1>4 DEF IsForgotten

LEMMA IdleCall ==
  ASSUME NEW F
  PROVE  /\ Idle \in CallsOf(F) /\ Idle.rest = <<>> /\ Idle.at = "" /\ Idle.wrote = {}
         /\ Idle.taken = 0 /\ Idle.required = 1 /\ Idle.current
  <1>1. PICK idle : idle = Idle
    OBVIOUS
  <1>2. idle = [function |-> "", argument |-> NoArgument, rest |-> <<>>, capacity |-> 0,
                required |-> 1, taken |-> 0, current |-> TRUE, informed |-> FALSE,
                at |-> "", wrote |-> {}]
    BY <1>1 DEF Idle
  <1>3. idle \in CallsOf(F)
    BY ONLY <1>2, NothingYet DEF CallsOf
  <1>4. idle.rest = <<>> /\ idle.at = "" /\ idle.wrote = {}
    BY ONLY <1>2
  <1>5. idle.taken = 0 /\ idle.required = 1 /\ idle.current
    BY ONLY <1>2
  <1>6. QED
    BY ONLY <1>1, <1>3, <1>4, <1>5

IsOver(F, call, over) ==
  /\ over \in CallsOf(F) /\ over.rest = <<>>
  /\ over.wrote = call.wrote /\ over.informed = call.informed
  /\ Learned(call) =>
       /\ over.function = call.function /\ over.argument = call.argument
       /\ over.required = call.required /\ over.current = call.current /\ over.at = call.at
  /\ ~Learned(call) => over.at = "" /\ over.function = ""
LEMMA OverCall ==
  ASSUME NEW F, NEW call \in CallsOf(F), NEW over, over = Over(call)
  PROVE  IsOver(F, call, over)
  <1>1. CASE Learned(call)
    <2>1. over = [call EXCEPT !.rest = <<>>, !.capacity = 0]
      BY <1>1 DEF Over
    <2>2. over \in CallsOf(F)
      BY <2>1, NothingYet DEF CallsOf
    <2>3. QED
      BY <1>1, <2>1, <2>2 DEF CallsOf, IsOver
  <1>2. CASE ~Learned(call)
    <2>1. over = Forget(call.informed, call.wrote)
      BY <1>2 DEF Over, Forget
    <2>2. call.informed \in BOOLEAN /\ call.wrote \in SUBSET Steps
      BY DEF CallsOf
    <2>3. /\ over \in CallsOf(F) /\ over.rest = <<>> /\ over.at = "" /\ over.function = ""
          /\ over.wrote = call.wrote /\ over.informed = call.informed
      <3>1. IsForgotten(F, over, call.informed, call.wrote)
        BY ONLY <2>1, <2>2, Forgotten
      <3>2. QED
        BY ONLY <3>1 DEF IsForgotten
    <2>4. QED
      BY <1>2, <2>3 DEF IsOver
  <1>3. QED
    BY <1>1, <1>2

\* The call goes on, or is over.
LEMMA NextOf ==
  ASSUME NEW F, NEW call \in CallsOf(F), call.rest # <<>>, Len(call.rest) # 1,
         NEW new, new = Advanced(call)
  PROVE  /\ new \in CallsOf(F)
         /\ new.rest = Tail(call.rest) /\ new.rest # <<>>
         /\ new.function = call.function /\ new.argument = call.argument
         /\ new.capacity = call.capacity /\ new.required = call.required
         /\ new.taken = call.taken /\ new.current = call.current
         /\ new.informed = call.informed /\ new.at = call.at /\ new.wrote = call.wrote
  <1>1. new = [call EXCEPT !.rest = Tail(@)]
    BY DEF Advanced
  <1>2. call.rest \in Seq(Steps)
    BY DEF CallsOf
  <1>3. Tail(call.rest) \in Seq(Steps) /\ Tail(call.rest) # <<>>
    BY <1>2, SecondStep
  <1>4. new \in CallsOf(F)
    BY <1>1, <1>3 DEF CallsOf
  <1>5. QED
    BY <1>1, <1>3, <1>4 DEF CallsOf

IsLast(F, call, new) ==
  /\ new \in CallsOf(F)
  /\ new.rest = <<>> /\ new.wrote = call.wrote /\ ~new.informed
  /\ Learned(call) =>
       /\ new.function = call.function /\ new.argument = call.argument
       /\ new.required = call.required /\ new.current = call.current /\ new.at = call.at
  /\ ~Learned(call) => new.at = "" /\ new.function = ""
LEMMA LastOf ==
  ASSUME NEW F, NEW call \in CallsOf(F), Len(call.rest) = 1, NEW new, new = Advanced(call)
  PROVE  IsLast(F, call, new)
  <1>1. PICK over : over = Over(call)
    OBVIOUS
  <1>2. /\ over \in CallsOf(F) /\ over.rest = <<>> /\ over.wrote = call.wrote
        /\ Learned(call) =>
             /\ over.function = call.function /\ over.argument = call.argument
             /\ over.required = call.required /\ over.current = call.current /\ over.at = call.at
        /\ ~Learned(call) => over.at = "" /\ over.function = ""
    <2>1. IsOver(F, call, over)
      BY <1>1, OverCall
    <2>2. QED
      BY <2>1 DEF IsOver
  <1>3. new = [over EXCEPT !.informed = FALSE]
    BY <1>1 DEF Advanced
  <1>4. new \in CallsOf(F)
    BY <1>2, <1>3 DEF CallsOf
  <1>5. QED
    BY <1>2, <1>3, <1>4 DEF CallsOf, IsLast

\* What is known of a call that is over, of one whose caller learned nothing too.
LEMMA RecordKept ==
  ASSUME NEW call, NEW new, new.wrote = call.wrote,
         "size" \in call.wrote => call.function \notin MetadataOnly,
         Learned(call) => new.function = call.function,
         ~Learned(call) => new.function = ""
  PROVE  /\ Learned(new) => Learned(call) /\ new.function = call.function
         /\ call.wrote \subseteq {SizingRecord(call.function)} =>
              new.wrote \subseteq {SizingRecord(new.function)}
  <1>1. CASE Learned(call)
    BY <1>1
  <1>2. CASE ~Learned(call)
    <2>1. SizingRecord(new.function) = "size"
      BY <1>2 DEF SizingRecord, MetadataOnly
    <2>2. "size" \notin call.wrote
      BY <1>2 DEF Learned, SizingRecord
    <2>3. call.wrote \subseteq {SizingRecord(call.function)} => call.wrote = {}
      BY <1>2 DEF Learned
    <2>4. QED
      BY <2>1, <2>2, <2>3 DEF Learned
  <1>3. QED
    BY <1>1, <1>2

LEMMA OutdatedCall ==
  ASSUME NEW F, NEW call \in CallsOf(F), NEW sc, NEW st, NEW seen,
         GoodCall(call, F, sc, st, seen),
         NEW sc2, NEW st2, NEW seen2, st.exists => st2.exists, seen \subseteq seen2
  PROVE  /\ Outdated(call) \in CallsOf(F) /\ GoodCall(Outdated(call), F, sc2, st2, seen2)
         /\ (call.rest # <<>> => /\ Outdated(call).rest = call.rest
                                 /\ Outdated(call).function = call.function
                                 /\ Outdated(call).taken = call.taken)
         /\ (call.rest = <<>> => Outdated(call).rest = <<>>)
  <1>1. CASE call.rest = <<>>
    <2>1. Outdated(call) = Idle
      BY <1>1 DEF Outdated
    <2>2. Idle \in CallsOf(F) /\ Idle.rest = <<>> /\ Idle.at = "" /\ Idle.wrote = {}
      BY IdleCall
    <2>3. GoodCall(Idle, F, sc2, st2, seen2)
      BY ONLY <2>2 DEF GoodCall, EndedCall, Learned
    <2>4. QED
      BY <1>1, <2>1, <2>2, <2>3
  <1>2. CASE call.rest # <<>>
    <2>1. PICK new : new = Outdated(call)
      OBVIOUS
    <2>2. new = [call EXCEPT !.current = FALSE, !.informed = FALSE]
      BY <1>2, <2>1 DEF Outdated
    <2>3. /\ new \in CallsOf(F) /\ new.rest = call.rest /\ new.function = call.function
          /\ new.argument = call.argument /\ new.at = call.at /\ new.wrote = call.wrote
          /\ new.taken = call.taken /\ ~new.current /\ ~new.informed
      BY ONLY <2>2, call \in CallsOf(F) DEF CallsOf
    <2>4. ActiveCall(call, F, sc, st, seen)
      BY <1>2 DEF GoodCall
    <2>5. ActiveCall(new, F, sc2, st2, seen2)
      <3>1. Wrote(new, F[new.function]) /\ Committing(new) /\ Taking(new, seen2)
        BY ONLY <2>3, <2>4, seen \subseteq seen2 DEF ActiveCall, Wrote, Learned, Committing, Taking
      <3>2. Knows(new, F[new.function], sc2, st2) /\ Informed(new, F[new.function], sc2, st2)
        BY ONLY <2>3 DEF Knows, Informed
      <3>3. QED
        BY ONLY <2>3, <2>4, <3>1, <3>2, st.exists => st2.exists DEF ActiveCall
    <2>6. GoodCall(new, F, sc2, st2, seen2)
      BY ONLY <1>2, <2>3, <2>5 DEF GoodCall
    <2>7. QED
      BY ONLY <1>2, <2>1, <2>3, <2>6
  <1>3. QED
    BY <1>1, <1>2

LEMMA SameCall ==
  ASSUME NEW F, NEW call, NEW sc, NEW st, NEW seen, GoodCall(call, F, sc, st, seen),
         NEW seen2, seen \subseteq seen2
  PROVE  GoodCall(call, F, sc, st, seen2)
  BY DEF GoodCall, ActiveCall, Taking

\* A call that is refused at a step.
LEMMA EndedAt ==
  ASSUME NEW F, NEW call \in CallsOf(F), NEW sc, NEW st, NEW seen, ActiveCall(call, F, sc, st, seen),
         NEW step \in Steps \cup {"disk"},
         NEW i \in DOMAIN call.rest, call.rest[i] \notin Reporting,
         call.informed => step \in Fallible \cup {"disk"},
         NEW new, new = [Over(call) EXCEPT !.at = step]
  PROVE  new \in CallsOf(F) /\ new.rest = <<>> /\ GoodCall(new, F, sc, st, seen)
  <1>1. PICK over : over = Over(call)
    OBVIOUS
  <1>2. /\ over \in CallsOf(F) /\ over.rest = <<>>
        /\ over.wrote = call.wrote /\ over.informed = call.informed
        /\ Learned(call) =>
             /\ over.function = call.function /\ over.argument = call.argument
             /\ over.required = call.required /\ over.current = call.current /\ over.at = call.at
        /\ ~Learned(call) => over.function = ""
    <2>1. IsOver(F, call, over)
      BY <1>1, OverCall
    <2>2. QED
      BY <2>1 DEF IsOver
  <1>3. new = [over EXCEPT !.at = step]
    BY <1>1
  <1>4. /\ new \in CallsOf(F) /\ new.rest = <<>> /\ new.at = step
        /\ new.wrote = call.wrote /\ new.informed = call.informed
        /\ Learned(call) =>
             /\ new.function = call.function /\ new.argument = call.argument
             /\ new.required = call.required /\ new.current = call.current
        /\ ~Learned(call) => new.function = ""
    BY ONLY <1>2, <1>3, step \in Steps \cup {"disk"} DEF CallsOf
  <1>5. Wrote(call, F[call.function]) /\ call.function \in DOMAIN F
    BY DEF ActiveCall
  <1>6. call.wrote \subseteq {SizingRecord(call.function)}
    BY <1>5 DEF Wrote, Reports
  <1>7. /\ Learned(new) => Learned(call) /\ new.function = call.function
        /\ new.wrote \subseteq {SizingRecord(new.function)}
    <2>1. "size" \in call.wrote => call.function \notin MetadataOnly
      BY <1>5 DEF Wrote
    <2>2. QED
      BY ONLY <1>4, <1>6, <2>1, RecordKept
  <1>8. ASSUME Learned(new)
        PROVE  /\ new.function \in DOMAIN F /\ Has(F[new.function], SizingRecord(new.function))
               /\ Knows(new, F[new.function], sc, st)
    <2>1. Learned(call) /\ IsDecided(call.rest) /\ Has(F[call.function], SizingRecord(call.function))
      BY <1>5, <1>7, <1>8 DEF Wrote
    <2>2. Knows(call, F[call.function], sc, st)
      BY <2>1 DEF ActiveCall
    <2>3. QED
      BY ONLY <1>4, <1>5, <2>1, <2>2 DEF Knows
  <1>9. EndedCall(new, F, sc, st)
    BY ONLY <1>4, <1>7, <1>8, call.informed => step \in Fallible \cup {"disk"} DEF EndedCall
  <1>10. QED
    BY ONLY <1>4, <1>9 DEF GoodCall

\* What a call may learn and write at a step.
Learns(call, mid, step, tail, F, sc2, st2, seen2) ==
  /\ mid.function = call.function /\ mid.argument = call.argument /\ mid.at = call.at
  /\ \/ mid.wrote = call.wrote
     \/ step \in Reporting \cup {SizingRecord(call.function)} /\ mid.wrote = call.wrote \cup {step}
  /\ step = "open" => st2.exists
  /\ IsDecided(tail) => Knows(mid, F[call.function], sc2, st2)
  /\ Informed(mid, F[call.function], sc2, st2)
  /\ mid.taken = call.taken \/ step = "ask"
  /\ mid.taken # 0 =>
       \/ step = "ask" /\ call.function = "xv_optimizer_ask"
       \/ mid.taken = call.taken /\ (step = "outputs" => mid.taken \in seen2)

\* A call that passes some steps, the last of which is rest[n]; what it learns and
\* writes there is in mid.
From(s, rest, n) ==
  /\ n \in 1..Len(rest) /\ s = SubSeq(rest, n, Len(rest))
  /\ \A i \in 1..(n - 1) : rest[i] \in Fallible
Went(call, mid, new, seen2) ==
  /\ new.rest # <<>> => new.function = call.function /\ new.taken = mid.taken
  /\ mid.taken # 0 => new.rest # <<>> \/ mid.taken \in seen2
LEMMA CallKeepsOn ==
  ASSUME NEW F, NEW call \in CallsOf(F), NEW sc, NEW st, NEW seen, ActiveCall(call, F, sc, st, seen),
         NEW n, NEW s, From(s, call.rest, n), NEW mid \in CallsOf(F), mid.rest = s,
         NEW sc2, NEW st2, NEW seen2, seen \subseteq seen2, st.exists => st2.exists,
         Learns(call, mid, call.rest[n], Tail(s), F, sc2, st2, seen2),
         NEW new, new = Advanced(mid)
  PROVE  /\ new \in CallsOf(F) /\ GoodCall(new, F, sc2, st2, seen2)
         /\ Went(call, mid, new, seen2)
  <1> DEFINE code == F[call.function]
             rest == call.rest
             tail == Tail(s)
             step == call.rest[n]
  <1>1. Learns(call, mid, step, tail, F, sc2, st2, seen2)
    OBVIOUS
  <1>2. /\ n \in 1..Len(call.rest) /\ s = SubSeq(call.rest, n, Len(call.rest))
         /\ \A i \in 1..(n - 1) : call.rest[i] \in Fallible
    BY DEF From
  <1> USE <1>2
  <1>3. rest \in Seq(Steps) /\ Remains(rest, code, call.function)
    BY DEF CallsOf, ActiveCall
  <1>4. /\ s \in Seq(Steps) /\ s # <<>> /\ Len(s) = Len(rest) - n + 1
        /\ tail \in Seq(Steps) /\ Len(tail) = Len(rest) - n
    <2> HIDE DEF code, rest
    <2>1. rest \in Seq(Steps) /\ Remains(rest, code, call.function) /\ n \in 1..Len(rest) /\ s = SubSeq(rest, n, Len(rest))
      BY <1>3 DEF rest
    <2>2. IsSuffix(s, rest, n, call.function)
      BY ONLY <2>1, Tails
    <2>3. QED
      BY ONLY <2>2 DEF IsSuffix, tail
  <1>5. \A i \in DOMAIN tail : n + i \in DOMAIN rest /\ tail[i] = rest[n + i] /\ Follows(step, tail[i], call.function)
    <2> HIDE DEF code, rest
    <2>1. rest \in Seq(Steps) /\ Remains(rest, code, call.function) /\ n \in 1..Len(rest) /\ s = SubSeq(rest, n, Len(rest))
      BY <1>3 DEF rest
    <2>2. IsSuffix(s, rest, n, call.function)
      BY ONLY <2>1, Tails
    <2>3. QED
      BY <2>2 DEF IsSuffix, rest
  <1>6. \A j \in DOMAIN rest : j > n => j - n \in DOMAIN tail /\ tail[j - n] = rest[j]
    <2> HIDE DEF code, rest
    <2>1. rest \in Seq(Steps) /\ Remains(rest, code, call.function) /\ n \in 1..Len(rest) /\ s = SubSeq(rest, n, Len(rest))
      BY <1>3 DEF rest
    <2>2. IsSuffix(s, rest, n, call.function)
      BY ONLY <2>1, Tails
    <2>3. QED
      BY ONLY <2>2 DEF IsSuffix, tail
  <1>7. Remains(tail, code, call.function)
    BY <1>3, TailRemains
  <1>8. n \in DOMAIN rest /\ step \in Steps /\ Has(code, step)
    BY <1>3 DEF Remains
  <1>9. \A j \in DOMAIN rest : rest[j] \notin Fallible => (j = n \/ (j - n \in DOMAIN tail /\ tail[j - n] = rest[j]))
    <2> SUFFICES ASSUME NEW j \in DOMAIN rest, rest[j] \notin Fallible, j # n
                 PROVE  j - n \in DOMAIN tail /\ tail[j - n] = rest[j]
      OBVIOUS
    <2>1. j > n
      BY <1>3
    <2>2. QED
      BY <2>1, <1>6
  <1>10. call.function \in DOMAIN F /\ call.at = ""
    BY DEF ActiveCall
  <1>11. /\ mid.function = call.function /\ mid.argument = call.argument /\ mid.at = call.at
         /\ \/ mid.wrote = call.wrote
            \/ step \in Reporting \cup {SizingRecord(call.function)} /\ mid.wrote = call.wrote \cup {step}
         /\ step = "open" => st2.exists
         /\ IsDecided(tail) => Knows(mid, code, sc2, st2)
         /\ Informed(mid, code, sc2, st2)
         /\ mid.taken # 0 =>
              \/ step = "ask" /\ call.function = "xv_optimizer_ask"
              \/ mid.taken = call.taken /\ (step = "outputs" => mid.taken \in seen2)
    BY <1>1 DEF Learns
  <1> HIDE DEF code, rest, tail, step
  <1> USE <1>11
  <1>12. mid.taken # 0 =>
          /\ call.function = "xv_optimizer_ask"
          /\ Has(tail, "outputs") \/ mid.taken \in seen2
          /\ ~Has(tail, "ask")
    <2> SUFFICES ASSUME mid.taken # 0
                 PROVE  /\ call.function = "xv_optimizer_ask"
                        /\ Has(tail, "outputs") \/ mid.taken \in seen2
                        /\ ~Has(tail, "ask")
      OBVIOUS
    <2>1. ASSUME Has(rest, "outputs"), step = "outputs" => mid.taken \in seen2
          PROVE  Has(tail, "outputs") \/ mid.taken \in seen2
      <3>1. PICK j \in DOMAIN rest : rest[j] = "outputs"
        BY <2>1 DEF Has
      <3>2. rest[j] \notin Fallible
        BY <3>1 DEF Fallible
      <3>3. j = n \/ (j - n \in DOMAIN tail /\ tail[j - n] = rest[j])
        BY <3>2, <1>9
      <3>4. CASE j = n
        BY <3>1, <3>4, <2>1 DEF rest, step
      <3>5. CASE j - n \in DOMAIN tail /\ tail[j - n] = rest[j]
        BY <3>1, <3>5 DEF Has
      <3>6. QED
        BY <3>3, <3>4, <3>5
    <2>2. CASE step = "ask" /\ call.function = "xv_optimizer_ask"
      <3>1. Has(rest, "ask")
        BY <2>2, <1>8 DEF Has, rest, step
      <3>2. Has(rest, "outputs")
        BY <3>1, <1>3 DEF Remains, rest
      <3>3. ~Has(tail, "ask")
        BY <2>2, <1>5 DEF Has, Follows
      <3>4. QED
        BY <2>1, <2>2, <3>2, <3>3
    <2>3. CASE mid.taken = call.taken /\ (step = "outputs" => mid.taken \in seen2)
      <3>1. Taking(call, seen)
        BY DEF ActiveCall
      <3>2. /\ call.function = "xv_optimizer_ask"
            /\ Has(rest, "outputs") \/ call.taken \in seen
            /\ ~Has(rest, "ask")
        BY <2>3, <3>1 DEF Taking, rest
      <3>3. ~Has(tail, "ask")
        BY <3>2, <1>5 DEF Has, rest
      <3>4. QED
        BY <2>1, <2>3, <3>2, <3>3
    <2>4. QED
      BY <2>2, <2>3 DEF step
  <1>13. /\ \/ call.wrote \subseteq {SizingRecord(call.function)}
            \/ \A i \in DOMAIN rest : rest[i] \in Reports(call.function)
         /\ "size" \in call.wrote => call.function \notin MetadataOnly
         /\ Learned(call) => IsDecided(rest) /\ Has(code, SizingRecord(call.function))
    BY DEF ActiveCall, Wrote, code, rest
  <1>14. /\ mid.wrote = call.wrote
           \/ (step \in Reporting \cup {SizingRecord(call.function)} /\ mid.wrote = call.wrote \cup {step})
    BY DEF step
  <1>15. Learned(mid) => IsDecided(tail) /\ Has(code, SizingRecord(call.function))
    <2> SUFFICES ASSUME Learned(mid) PROVE IsDecided(tail) /\ Has(code, SizingRecord(call.function))
      OBVIOUS
    <2>1. CASE Learned(call)
      BY <2>1, <1>5, <1>13 DEF IsDecided
    <2>2. CASE step = SizingRecord(call.function)
      BY <2>2, <1>5, <1>8 DEF IsDecided, Follows
    <2>3. QED
      BY <2>1, <2>2, <1>14 DEF Learned
  <1>16. "size" \in mid.wrote => call.function \notin MetadataOnly
    BY <1>13, <1>14 DEF Reporting, SizingRecord
  <1>17. IsDecided(tail) => Knows(mid, code, sc2, st2)
    BY DEF tail, code
  <1>18. CASE Len(s) = 1
    <2>1. /\ new \in CallsOf(F)
          /\ new.rest = <<>> /\ new.wrote = mid.wrote /\ ~new.informed
          /\ Learned(mid) =>
               /\ new.function = mid.function /\ new.argument = mid.argument
               /\ new.required = mid.required /\ new.current = mid.current /\ new.at = mid.at
          /\ ~Learned(mid) => new.at = "" /\ new.function = ""
      <3>1. Len(mid.rest) = 1
        BY <1>18
      <3>2. IsLast(F, mid, new)
        BY ONLY <3>1, mid \in CallsOf(F), new = Advanced(mid), LastOf
      <3>3. QED
        BY ONLY <3>2 DEF IsLast
    <2>2. DOMAIN tail = {}
      <3>1. Len(s) = Len(rest) - n + 1 /\ tail \in Seq(Steps) /\ Len(tail) = Len(rest) - n
        BY <1>4 DEF rest, tail
      <3>2. Len(rest) \in Nat /\ n \in Nat
        BY <1>3 DEF rest
      <3>3. Len(tail) = 0
        BY <3>1, <3>2, <1>18
      <3>4. QED
        BY <3>1, <3>3
    <2>3. IsDecided(tail)
      BY <2>2 DEF IsDecided
    <2>4. new.at = ""
      BY <2>1, <1>10
    <2>5. ASSUME Learned(new)
          PROVE  /\ new.function \in DOMAIN F /\ Has(F[new.function], SizingRecord(new.function))
                 /\ Knows(new, F[new.function], sc2, st2)
      <3>1. Learned(mid)
        <4>1. "size" \in mid.wrote => mid.function \notin MetadataOnly
          BY <1>16
        <4>2. QED
          BY ONLY <2>5, <2>1, <4>1, RecordKept
      <3>2. Has(code, SizingRecord(call.function)) /\ Knows(mid, code, sc2, st2)
        BY <2>3, <3>1, <1>15, <1>17
      <3>3. /\ new.function = call.function /\ new.argument = mid.argument
            /\ new.required = mid.required /\ new.current = mid.current
        BY <3>1, <2>1
      <3>4. QED
        BY ONLY <3>2, <3>3, <1>10 DEF Knows, code
    <2>6. EndedCall(new, F, sc2, st2)
      BY ONLY <2>4, <2>5, <2>1 DEF EndedCall
    <2>7. mid.taken # 0 => mid.taken \in seen2
      <3>1. ~Has(tail, "outputs")
        BY <2>3, <2>2 DEF Has
      <3>2. QED
        BY <3>1, <1>12
    <2>8. GoodCall(new, F, sc2, st2, seen2)
      BY ONLY <2>6, <2>1 DEF GoodCall
    <2>9. QED
      BY ONLY <2>1, <2>7, <2>8 DEF Went
  <1>19. CASE Len(s) # 1
    <2>1. /\ new \in CallsOf(F)
          /\ new.rest = tail /\ new.rest # <<>>
          /\ new.function = mid.function /\ new.argument = mid.argument
          /\ new.capacity = mid.capacity /\ new.required = mid.required
          /\ new.taken = mid.taken /\ new.current = mid.current
          /\ new.informed = mid.informed /\ new.at = mid.at /\ new.wrote = mid.wrote
      <3>1. Len(mid.rest) # 1 /\ mid.rest # <<>> /\ tail = Tail(mid.rest)
        BY <1>19, <1>4 DEF tail
      <3>2. QED
        BY ONLY <3>1, mid \in CallsOf(F), new = Advanced(mid), NextOf
    <2>2. /\ new.rest = tail /\ new.rest # <<>>
          /\ new.function = call.function /\ new.argument = call.argument
          /\ new.capacity = mid.capacity /\ new.required = mid.required
          /\ new.taken = mid.taken /\ new.current = mid.current
          /\ new.informed = mid.informed /\ new.at = "" /\ new.wrote = mid.wrote
      BY <2>1, <1>10
    <2>3. Wrote(new, code)
      <3>1. \/ mid.wrote \subseteq {SizingRecord(call.function)}
            \/ \A i \in DOMAIN tail : tail[i] \in Reports(call.function)
        <4>1. CASE mid.wrote = call.wrote
          BY <4>1, <1>5, <1>13
        <4>2. CASE step = SizingRecord(call.function) /\ mid.wrote = call.wrote \cup {step}
          <5>1. step \notin Reports(call.function)
            BY <4>2 DEF Reports
          <5>2. call.wrote \subseteq {SizingRecord(call.function)}
            BY <5>1, <1>8, <1>13 DEF rest, step
          <5>3. QED
            BY <4>2, <5>2
        <4>3. CASE step \in Reports(call.function)
          BY <4>3, <1>5 DEF Follows
        <4>4. QED
          BY <4>1, <4>2, <4>3, <1>14 DEF Reports
      <3>2. Learned(new) <=> Learned(mid)
        BY ONLY <2>1 DEF Learned
      <3>3. QED
        BY ONLY <2>2, <3>1, <3>2, <1>15, <1>16 DEF Wrote
    <2>4. Has(code, "open") => Has(tail, "open") \/ st2.exists
      <3> SUFFICES ASSUME Has(code, "open") PROVE Has(tail, "open") \/ st2.exists
        OBVIOUS
      <3>1. Has(rest, "open") \/ st.exists
        BY DEF ActiveCall, code, rest
      <3>2. CASE st.exists
        BY <3>2
      <3>3. CASE Has(rest, "open")
        <4>1. PICK j \in DOMAIN rest : rest[j] = "open"
          BY <3>3 DEF Has
        <4>2. rest[j] \notin Fallible
          BY <4>1 DEF Fallible
        <4>3. j = n \/ (j - n \in DOMAIN tail /\ tail[j - n] = rest[j])
          BY <4>2, <1>9
        <4>4. CASE j = n
          BY <4>1, <4>4 DEF rest, step
        <4>5. CASE j - n \in DOMAIN tail /\ tail[j - n] = rest[j]
          BY <4>1, <4>5 DEF Has
        <4>6. QED
          BY <4>3, <4>4, <4>5
      <3>4. QED
        BY <3>1, <3>2, <3>3
    <2>5. IsDecided(tail) => Knows(new, code, sc2, st2)
      <3>1. mid.argument = call.argument
        OBVIOUS
      <3>2. QED
        BY ONLY <2>2, <3>1, <1>17 DEF Knows
    <2>6. Informed(new, code, sc2, st2)
      <3>1. /\ mid.function = call.function /\ mid.argument = call.argument
            /\ Informed(mid, code, sc2, st2)
        BY DEF code
      <3>2. QED
        BY ONLY <2>2, <3>1 DEF Informed
    <2>7. Taking(new, seen2)
      BY ONLY <2>2, <1>12 DEF Taking
    <2>8. Committing(new)
      <3>1. Committing(call)
        BY DEF ActiveCall
      <3>2. QED
        BY ONLY <2>2, <3>1 DEF Committing
    <2>9. Remains(tail, code, call.function) /\ call.function \in DOMAIN F
      BY <1>7, <1>10 DEF tail, code
    <2>10. ActiveCall(new, F, sc2, st2, seen2)
      BY ONLY <2>2, <2>3, <2>4, <2>5, <2>6, <2>7, <2>8, <2>9 DEF ActiveCall, code
    <2>11. GoodCall(new, F, sc2, st2, seen2)
      BY ONLY <2>2, <2>10 DEF GoodCall
    <2>12. QED
      BY ONLY <2>1, <2>2, <2>11 DEF Went
  <1>20. QED
    BY <1>18, <1>19

\* The function looks at the scene or the study once, after it opened the study.
LEMMA LastLook ==
  ASSUME NEW code, NEW function, Regular(code, function), NEW a \in Deciding \ {"open"},
         NEW b \in Deciding \ {"open"}, Has(code, a), Has(code, b)
  PROVE  a = b
  <1>1. PICK i \in DOMAIN code : code[i] = a
    BY DEF Has
  <1>2. PICK j \in DOMAIN code : code[j] = b
    BY DEF Has
  <1>3. ~(i < j)
    BY <1>1, <1>2 DEF Regular, Orderly, Follows
  <1>4. ~(j < i)
    BY <1>1, <1>2 DEF Regular, Orderly, Follows
  <1>5. i \in Int /\ j \in Int
    BY <1>1, <1>2 DEF Regular
  <1>6. i = j
    BY <1>3, <1>4, <1>5
  <1>7. QED
    BY <1>1, <1>2, <1>6

\* What the call still asked of the state when it comes to its last look.
LEMMA DecidedBy ==
  ASSUME NEW F, Table(F), NEW call \in CallsOf(F), NEW sc, NEW st, NEW seen,
         ActiveCall(call, F, sc, st, seen), call.rest # <<>>,
         call.rest[1] \in Deciding, IsDecided(Tail(call.rest)),
         NEW step \in Deciding, Has(F[call.function], step)
  PROVE  step = call.rest[1] \/ (step = "open" /\ st.exists)
  <1> DEFINE code == F[call.function]
             rest == call.rest
  <1>1. /\ call.function \in DOMAIN F /\ rest \in Seq(Steps) /\ Remains(rest, code, call.function)
        /\ Has(code, "open") => Has(rest, "open") \/ st.exists
    BY DEF ActiveCall, CallsOf
  <1>2. Regular(code, call.function)
    BY <1>1 DEF Table
  <1> HIDE DEF code
  <1>3. /\ 1 \in DOMAIN rest /\ Has(code, rest[1])
        /\ \A j \in DOMAIN rest : j # 1 => rest[j] \notin Deciding
    <2>1. Len(rest) >= 1 /\ 1 \in DOMAIN rest
      BY <1>1, NotEmpty
    <2>2. \A j \in DOMAIN rest : j # 1 => j - 1 \in DOMAIN Tail(rest) /\ Tail(rest)[j - 1] = rest[j]
      BY <1>1, <2>1
    <2>3. Has(code, rest[1])
      BY <1>1, <2>1 DEF Remains
    <2>4. QED
      BY <2>1, <2>2, <2>3 DEF IsDecided
  <1> HIDE DEF rest
  <1>4. CASE step = "open"
    BY <1>1, <1>3, <1>4 DEF Has, Deciding, rest, code
  <1>5. CASE step # "open" /\ rest[1] # "open"
    <2>1. step = rest[1]
      BY <1>2, <1>3, <1>5, LastLook DEF rest, code
    <2>2. QED
      BY <2>1 DEF rest
  <1>6. CASE step # "open" /\ rest[1] = "open"
    <2>1. Has(rest, "open")
      BY <1>3, <1>6 DEF Has
    <2>2. Has(rest, step)
      BY <1>1, <2>1 DEF Remains, code
    <2>3. QED
      BY <1>3, <2>2 DEF Has, rest
  <1>7. QED
    BY <1>4, <1>5, <1>6

\* The record of a call that begins, and what its caller may know from the last one.
Fresh(function, argument, rest, capacity, informed) ==
  [Idle EXCEPT !.function = function, !.argument = argument, !.rest = rest,
               !.capacity = capacity, !.informed = informed]
Recalls(old, function, argument, capacity) ==
  /\ old.current /\ Learned(old)
  /\ old.function = function /\ old.argument = argument
  /\ capacity >= old.required

\* A host calls a function.
LEMMA StartedCall ==
  ASSUME NEW F, Table(F), NEW old \in CallsOf(F), NEW sc, NEW st, NEW seen,
         GoodCall(old, F, sc, st, seen), old.rest = <<>>,
         NEW function \in DOMAIN F, NEW argument \in Arguments, NEW capacity \in 0..MaxCapacity,
         function = "xv_study_workspace_commit_batch" => argument.batch \in 1..MaxBatches,
         NEW informed \in BOOLEAN,
         informed => Recalls(old, function, argument, capacity),
         NEW new, new = Fresh(function, argument, F[function], capacity, informed)
  PROVE  /\ new \in CallsOf(F) /\ GoodCall(new, F, sc, st, seen)
         /\ new.rest = F[function] /\ new.rest # <<>> /\ new.function = function /\ new.taken = 0
  <1>1. PICK code : code = F[function]
    OBVIOUS
  <1>2. Regular(code, function)
    BY <1>1 DEF Table
  <1>3. code \in Seq(Steps) /\ code # <<>>
    BY <1>2 DEF Regular
  <1>4. PICK idle : idle = Idle
    OBVIOUS
  <1>5. idle \in CallsOf(F) /\ idle.at = "" /\ idle.wrote = {} /\ idle.taken = 0 /\ idle.required = 1 /\ idle.current
    BY ONLY <1>4, IdleCall
  <1>6. new = [idle EXCEPT !.function = function, !.argument = argument, !.rest = code,
                           !.capacity = capacity, !.informed = informed]
    BY <1>1, <1>4 DEF Fresh
  <1>7. /\ new \in CallsOf(F) /\ new.function = function /\ new.argument = argument
        /\ new.rest = code /\ new.capacity = capacity /\ new.informed = informed
        /\ new.at = "" /\ new.wrote = {} /\ new.taken = 0 /\ new.required = 1 /\ new.current
    BY ONLY <1>3, <1>5, <1>6, function \in DOMAIN F, argument \in Arguments,
            capacity \in 0..MaxCapacity, informed \in BOOLEAN DEF CallsOf
  <1>8. Remains(code, code, function)
    <2>1. \A i \in DOMAIN code : Has(code, code[i])
      BY DEF Has
    <2>2. Has(code, "ask") => Has(code, "outputs")
      BY <1>2 DEF Regular, Only
    <2>3. QED
      BY <1>2, <2>1, <2>2 DEF Remains, Regular
  <1>9. Wrote(new, code)
    BY ONLY <1>7 DEF Wrote, Learned
  <1>10. IsDecided(code) => Knows(new, code, sc, st)
    <2> SUFFICES ASSUME IsDecided(code) PROVE Knows(new, code, sc, st)
      OBVIOUS
    <2>1. \A step \in Deciding : ~Has(code, step)
      BY DEF IsDecided, Has
    <2>2. /\ ~Has(code, "scene") /\ ~Has(code, "open") /\ ~Has(code, "create")
          /\ ~Has(code, "begin") /\ ~Has(code, "commit")
      BY <2>1 DEF Deciding
    <2>3. QED
      BY ONLY <1>7, <2>2 DEF Knows, Answerable, Needed
  <1>11. Informed(new, code, sc, st)
    <2>1. ASSUME informed
          PROVE  /\ Has(code, SizingRecord(function)) /\ Answerable(code, argument, sc, st)
                 /\ capacity >= Needed(code, sc, st)
      <3>1. EndedCall(old, F, sc, st)
        BY DEF GoodCall
      <3>2. Has(F[old.function], SizingRecord(old.function)) /\ Knows(old, F[old.function], sc, st)
        BY <2>1, <3>1 DEF EndedCall, Recalls
      <3>3. QED
        BY <1>1, <2>1, <3>2 DEF Knows, Recalls
    <2>2. new.informed => informed
      BY ONLY <1>7
    <2>3. QED
      BY ONLY <1>7, <2>1, <2>2 DEF Informed
  <1>12. Taking(new, seen) /\ Committing(new)
    BY ONLY <1>7, function = "xv_study_workspace_commit_batch" => argument.batch \in 1..MaxBatches
       DEF Taking, Committing
  <1>13. Has(code, "open") => Has(code, "open") \/ st.exists
    OBVIOUS
  <1>14. ActiveCall(new, F, sc, st, seen)
    <2>1. F[new.function] = code /\ new.function \in DOMAIN F
      BY <1>1, <1>7
    <2>2. QED
      BY ONLY <2>1, <1>7, <1>8, <1>9, <1>10, <1>11, <1>12, <1>13 DEF ActiveCall
  <1>15. QED
    BY ONLY <1>1, <1>3, <1>7, <1>14 DEF GoodCall

\* A caller that only asked for the size.
LEMMA EndedQuietly ==
  ASSUME NEW F, NEW call \in CallsOf(F), NEW sc, NEW st, NEW seen, ActiveCall(call, F, sc, st, seen),
         NEW i \in DOMAIN call.rest, call.rest[i] \notin Reporting,
         NEW new, new = [Over(call) EXCEPT !.informed = FALSE]
  PROVE  new \in CallsOf(F) /\ new.rest = <<>> /\ GoodCall(new, F, sc, st, seen)
  <1>1. PICK over : over = Over(call)
    OBVIOUS
  <1>2. /\ over \in CallsOf(F) /\ over.rest = <<>> /\ over.wrote = call.wrote
        /\ Learned(call) =>
             /\ over.function = call.function /\ over.argument = call.argument
             /\ over.required = call.required /\ over.current = call.current
        /\ ~Learned(call) => over.function = ""
    <2>1. IsOver(F, call, over)
      BY <1>1, OverCall
    <2>2. QED
      BY <2>1 DEF IsOver
  <1>3. new = [over EXCEPT !.informed = FALSE]
    BY <1>1
  <1>4. /\ new \in CallsOf(F) /\ new.rest = <<>> /\ ~new.informed
        /\ new.wrote = call.wrote
        /\ Learned(call) =>
             /\ new.function = call.function /\ new.argument = call.argument
             /\ new.required = call.required /\ new.current = call.current
        /\ ~Learned(call) => new.function = ""
    BY ONLY <1>2, <1>3 DEF CallsOf
  <1>5. Wrote(call, F[call.function]) /\ call.function \in DOMAIN F
    BY DEF ActiveCall
  <1>6. call.wrote \subseteq {SizingRecord(call.function)}
    BY <1>5 DEF Wrote, Reports
  <1>7. /\ Learned(new) => Learned(call) /\ new.function = call.function
        /\ new.wrote \subseteq {SizingRecord(new.function)}
    <2>1. "size" \in call.wrote => call.function \notin MetadataOnly
      BY <1>5 DEF Wrote
    <2>2. QED
      BY ONLY <1>4, <1>6, <2>1, RecordKept
  <1>8. ASSUME Learned(new)
        PROVE  /\ new.function \in DOMAIN F /\ Has(F[new.function], SizingRecord(new.function))
               /\ Knows(new, F[new.function], sc, st)
    <2>1. Learned(call) /\ IsDecided(call.rest) /\ Has(F[call.function], SizingRecord(call.function))
      BY <1>5, <1>7, <1>8 DEF Wrote
    <2>2. Knows(call, F[call.function], sc, st)
      BY <2>1 DEF ActiveCall
    <2>3. QED
      BY ONLY <1>4, <1>5, <2>1, <2>2 DEF Knows
  <1>9. EndedCall(new, F, sc, st)
    BY ONLY <1>4, <1>7, <1>8 DEF EndedCall
  <1>10. QED
    BY ONLY <1>4, <1>9 DEF GoodCall

-----------------------------------------------------------------------------
(* One step of a call.                                                      *)

\* What the step leaves of the calls of the others, and of the call itself: the
\* batch it took stays with it or is accounted for.
Alike(old, new) ==
  IF old.rest # <<>>
    THEN new.rest = old.rest /\ new.function = old.function /\ new.taken = old.taken
    ELSE new.rest = <<>>
Progress(old, new, kept) ==
  /\ old.rest # <<>>
  /\ new.rest # <<>> => new.function = old.function /\ (new.taken = 0 => old.taken = 0)
  /\ old.taken # 0 => (new.rest # <<>> /\ new.taken = old.taken) \/ old.taken \in kept
GoodCalls(cs, F, sc, st, seen) ==
  /\ cs \in [Callers -> CallsOf(F)]
  /\ \A d \in Callers : GoodCall(cs[d], F, sc, st, seen)
StepOf(c, F, cs, cs2, sc2, st2, seen2, kept2) ==
  /\ GoodCalls(cs2, F, sc2, st2, seen2)
  /\ \A d \in Callers \ {c} : Alike(cs[d], cs2[d])
  /\ Progress(cs[c], cs2[c], kept2)

LEMMA OneMoves ==
  ASSUME NEW F, NEW sc, NEW st, NEW seen, NEW cs, GoodCalls(cs, F, sc, st, seen), NEW c \in Callers,
         NEW seen2, seen \subseteq seen2, NEW kept2, NEW new \in CallsOf(F),
         GoodCall(new, F, sc, st, seen2), Progress(cs[c], new, kept2),
         NEW cs2, cs2 = [cs EXCEPT ![c] = new]
  PROVE  StepOf(c, F, cs, cs2, sc, st, seen2, kept2)
  <1>1. cs \in [Callers -> CallsOf(F)]
    BY DEF GoodCalls
  <1>2. cs2 \in [Callers -> CallsOf(F)] /\ cs2[c] = new /\ \A d \in Callers \ {c} : cs2[d] = cs[d]
    BY <1>1
  <1>3. ASSUME NEW d \in Callers PROVE GoodCall(cs2[d], F, sc, st, seen2)
    <2>1. CASE d = c
      BY <1>2, <2>1
    <2>2. CASE d # c
      <3>1. GoodCall(cs[d], F, sc, st, seen)
        BY DEF GoodCalls
      <3>2. GoodCall(cs[d], F, sc, st, seen2)
        BY <3>1, SameCall
      <3>3. QED
        BY <1>2, <2>2, <3>2
    <2>3. QED
      BY <2>1, <2>2
  <1>4. ASSUME NEW d \in Callers \ {c} PROVE Alike(cs[d], cs2[d])
    BY <1>2 DEF Alike
  <1>5. Progress(cs[c], cs2[c], kept2)
    BY <1>2
  <1>6. GoodCalls(cs2, F, sc, st, seen2)
    BY <1>2, <1>3 DEF GoodCalls
  <1>7. QED
    BY <1>4, <1>5, <1>6 DEF StepOf

LEMMA OthersOutdated ==
  ASSUME NEW F, NEW sc, NEW st, NEW seen, NEW cs, GoodCalls(cs, F, sc, st, seen), NEW c \in Callers,
         NEW sc2, NEW st2, st.exists => st2.exists, NEW kept2, NEW new \in CallsOf(F),
         GoodCall(new, F, sc2, st2, seen), Progress(cs[c], new, kept2),
         NEW cs2, cs2 = [d \in Callers |-> IF d = c THEN new ELSE Outdated(cs[d])]
  PROVE  StepOf(c, F, cs, cs2, sc2, st2, seen, kept2)
  <1>1. ASSUME NEW d \in Callers
        PROVE  Outdated(cs[d]) \in CallsOf(F) /\ GoodCall(Outdated(cs[d]), F, sc2, st2, seen)
               /\ Alike(cs[d], Outdated(cs[d]))
    <2>1. PICK call : call = cs[d]
      OBVIOUS
    <2>2. call \in CallsOf(F) /\ GoodCall(call, F, sc, st, seen)
      BY <2>1 DEF GoodCalls
    <2>3. Outdated(call) \in CallsOf(F) /\ GoodCall(Outdated(call), F, sc2, st2, seen)
      BY ONLY <2>2, st.exists => st2.exists, OutdatedCall
    <2>4. /\ call.rest # <<>> => /\ Outdated(call).rest = call.rest
                                 /\ Outdated(call).function = call.function
                                 /\ Outdated(call).taken = call.taken
          /\ call.rest = <<>> => Outdated(call).rest = <<>>
      BY ONLY <2>2, st.exists => st2.exists, OutdatedCall
    <2>5. Alike(call, Outdated(call))
      BY <2>4 DEF Alike
    <2>6. QED
      BY <2>1, <2>3, <2>5
  <1>2. cs2[c] = new /\ \A d \in Callers \ {c} : cs2[d] = Outdated(cs[d])
    OBVIOUS
  <1>3. cs2 \in [Callers -> CallsOf(F)]
    BY <1>1
  <1>4. \A d \in Callers : GoodCall(cs2[d], F, sc2, st2, seen)
    BY <1>1, <1>2
  <1>5. \A d \in Callers \ {c} : Alike(cs[d], cs2[d])
    BY <1>1, <1>2
  <1>6. QED
    BY <1>2, <1>3, <1>4, <1>5 DEF StepOf, GoodCalls

\* The call passes its next step.
LEMMA PassedOne ==
  ASSUME NEW F, NEW call \in CallsOf(F), NEW sc, NEW st, NEW seen, ActiveCall(call, F, sc, st, seen),
         call.rest # <<>>, NEW mid \in CallsOf(F), mid.rest = call.rest,
         NEW sc2, NEW st2, NEW seen2, seen \subseteq seen2, st.exists => st2.exists,
         Learns(call, mid, call.rest[1], Tail(call.rest), F, sc2, st2, seen2),
         NEW kept, seen2 \subseteq kept, NEW new, new = Advanced(mid)
  PROVE  /\ new \in CallsOf(F) /\ GoodCall(new, F, sc2, st2, seen2) /\ Progress(call, new, kept)
         /\ mid.taken # 0 => ((new.rest # <<>> /\ new.taken = mid.taken) \/ mid.taken \in seen2)
  <1>1. call.rest \in Seq(Steps)
    BY DEF CallsOf
  <1>2. Len(call.rest) \in Nat /\ 1 \in 1..Len(call.rest)
    BY <1>1, NotEmpty
  <1>3. PICK s : s = SubSeq(call.rest, 1, Len(call.rest))
    OBVIOUS
  <1>4. s = call.rest
    BY <1>1, <1>2, <1>3
  <1>5. /\ new \in CallsOf(F) /\ GoodCall(new, F, sc2, st2, seen2)
        /\ new.rest # <<>> => new.function = call.function /\ new.taken = mid.taken
        /\ mid.taken # 0 => (new.rest # <<>> \/ mid.taken \in seen2)
    <2>1. PICK n : n = 1
      OBVIOUS
    <2>2. From(s, call.rest, n) /\ mid.rest = s
      BY <1>2, <1>3, <1>4, <2>1 DEF From
    <2>3. Learns(call, mid, call.rest[n], Tail(s), F, sc2, st2, seen2)
      BY <1>4, <2>1
    <2>4. new \in CallsOf(F) /\ GoodCall(new, F, sc2, st2, seen2)
      BY ONLY <2>2, <2>3, CallKeepsOn, call \in CallsOf(F), ActiveCall(call, F, sc, st, seen),
              mid \in CallsOf(F), seen \subseteq seen2, st.exists => st2.exists, new = Advanced(mid)
    <2>5. Went(call, mid, new, seen2)
      BY ONLY <2>2, <2>3, CallKeepsOn, call \in CallsOf(F), ActiveCall(call, F, sc, st, seen),
              mid \in CallsOf(F), seen \subseteq seen2, st.exists => st2.exists, new = Advanced(mid)
    <2>6. QED
      BY <2>4, <2>5 DEF Went
  <1>6. call.rest[1] = "ask" => call.taken = 0
    <2>1. Taking(call, seen)
      BY DEF ActiveCall
    <2>2. call.rest[1] = "ask" => Has(call.rest, "ask")
      BY <1>1, <1>2 DEF Has
    <2>3. QED
      BY <2>1, <2>2 DEF Taking
  <1>7. mid.taken = call.taken \/ call.rest[1] = "ask"
    BY DEF Learns
  <1>8. Progress(call, new, kept)
    BY ONLY <1>5, <1>6, <1>7, seen2 \subseteq kept, call.rest # <<>> DEF Progress
  <1>9. QED
    BY <1>5, <1>8

\* A step that looks at nothing and tells nothing.
LEMMA MovedCall ==
  ASSUME NEW F, NEW call \in CallsOf(F), NEW sc, NEW st, NEW seen, ActiveCall(call, F, sc, st, seen),
         call.rest # <<>>, call.rest[1] \notin Deciding \cup {"outputs"},
         NEW kept, seen \subseteq kept, NEW new, new = Advanced(call)
  PROVE  new \in CallsOf(F) /\ GoodCall(new, F, sc, st, seen) /\ Progress(call, new, kept)
  <1>1. call.rest \in Seq(Steps) /\ Len(call.rest) >= 1
    <2>1. call.rest \in Seq(Steps)
      BY DEF CallsOf
    <2>2. QED
      BY <2>1, NotEmpty
  <1>2. ASSUME IsDecided(Tail(call.rest)) PROVE Knows(call, F[call.function], sc, st)
    <2>1. \A j \in DOMAIN call.rest :
            j # 1 => j - 1 \in DOMAIN Tail(call.rest) /\ Tail(call.rest)[j - 1] = call.rest[j]
      BY <1>1
    <2>2. IsDecided(call.rest)
      BY <1>2, <2>1 DEF IsDecided
    <2>3. QED
      BY <2>2 DEF ActiveCall
  <1>3. Informed(call, F[call.function], sc, st)
    BY DEF ActiveCall
  <1>4. call.rest[1] # "open" /\ call.rest[1] # "outputs"
    BY DEF Deciding
  <1>5. Learns(call, call, call.rest[1], Tail(call.rest), F, sc, st, seen)
    BY <1>2, <1>3, <1>4 DEF Learns
  <1>6. seen \subseteq seen /\ (st.exists => st.exists) /\ call.rest = call.rest
    OBVIOUS
  <1>7. QED
    BY ONLY <1>5, <1>6, PassedOne, call \in CallsOf(F), ActiveCall(call, F, sc, st, seen),
            call.rest # <<>>, seen \subseteq kept, new = Advanced(call)

\* A step that looks at the scene or the study, and learns the size of the answer.
IsLooking(call, F, sc, st, seen, sc2, st2, required) ==
  /\ call \in CallsOf(F) /\ ActiveCall(call, F, sc, st, seen)
  /\ call.rest # <<>> /\ call.rest[1] \in Deciding
  /\ (st.exists => st2.exists) /\ (call.rest[1] = "open" => st2.exists)
  /\ required \in Nat
  /\ IsDecided(Tail(call.rest)) =>
       Answerable(F[call.function], call.argument, sc2, st2)
         /\ required = Needed(F[call.function], sc2, st2)
  /\ ~call.informed \/ (sc2 = sc /\ st2 = st)
LEMMA LookedCall ==
  ASSUME NEW F, NEW call, NEW sc, NEW st, NEW seen, NEW sc2, NEW st2, NEW required,
         IsLooking(call, F, sc, st, seen, sc2, st2, required),
         NEW kept, seen \subseteq kept,
         NEW new, new = Advanced([call EXCEPT !.required = required, !.current = TRUE])
  PROVE  new \in CallsOf(F) /\ GoodCall(new, F, sc2, st2, seen) /\ Progress(call, new, kept)
  <1>0. /\ call \in CallsOf(F) /\ ActiveCall(call, F, sc, st, seen)
        /\ call.rest # <<>> /\ call.rest[1] \in Deciding /\ required \in Nat
        /\ (st.exists => st2.exists) /\ (call.rest[1] = "open" => st2.exists)
        /\ IsDecided(Tail(call.rest)) =>
              Answerable(F[call.function], call.argument, sc2, st2)
                /\ required = Needed(F[call.function], sc2, st2)
        /\ ~call.informed \/ (sc2 = sc /\ st2 = st)
    BY DEF IsLooking
  <1>1. PICK mid : mid = [call EXCEPT !.required = required, !.current = TRUE]
    OBVIOUS
  <1>2. /\ mid \in CallsOf(F) /\ mid.rest = call.rest /\ mid.function = call.function
        /\ mid.argument = call.argument /\ mid.at = call.at /\ mid.wrote = call.wrote
        /\ mid.taken = call.taken /\ mid.informed = call.informed /\ mid.capacity = call.capacity
        /\ mid.required = required /\ mid.current
    BY ONLY <1>0, <1>1 DEF CallsOf
  <1>3. IsDecided(Tail(call.rest)) => Knows(mid, F[call.function], sc2, st2)
    BY <1>0, <1>2 DEF Knows
  <1>4. Informed(mid, F[call.function], sc2, st2)
    <2>1. Informed(call, F[call.function], sc, st)
      BY <1>0 DEF ActiveCall
    <2>2. QED
      BY ONLY <1>0, <1>2, <2>1 DEF Informed
  <1>5. call.rest[1] # "outputs"
    BY <1>0 DEF Deciding
  <1>6. Learns(call, mid, call.rest[1], Tail(call.rest), F, sc2, st2, seen)
    BY <1>0, <1>2, <1>3, <1>4, <1>5 DEF Learns
  <1>7. seen \subseteq seen /\ mid.rest = call.rest /\ new = Advanced(mid)
    BY <1>1, <1>2
  <1>8. QED
    BY ONLY <1>0, <1>2, <1>6, <1>7, PassedOne, seen \subseteq kept

-----------------------------------------------------------------------------
(* The steps of the module.                                                 *)

Handles == {"none", "live", "released"}
OptimizerType ==
  [handle : Handles, pending : Nat, batches : Nat, seen : SUBSET Nat, lost : SUBSET Nat,
   evaluated : [1..MaxBatches -> Nat]]
StudyType ==
  [exists : BOOLEAN, manifest : {"one", "other"}, active : Nat, batches : Nat,
   done : [1..MaxBatches -> {"no", "one", "other"}]]
SceneType == {"none", "building", "small", "large"}
StateType ==
  /\ family \in DOMAIN Families /\ scene \in SceneType
  /\ optimizer \in OptimizerType /\ study \in StudyType
CallsInv == GoodCalls(calls, Families[family], scene, study, optimizer.seen)

Stepped(c, cs2, sc2, st2, o2) ==
  StepOf(c, Families[family], calls, cs2, sc2, st2, o2.seen, o2.seen \cup o2.lost)
\* The optimizer still has the batches it had.
SameBatches(o, o2) ==
  /\ o2.pending = o.pending /\ o2.batches = o.batches /\ o2.evaluated = o.evaluated
  /\ o.seen \subseteq o2.seen /\ o.lost \subseteq o2.lost

LEMMA RunningCall ==
  ASSUME StateType, CallsInv, NEW c \in Callers, calls[c].rest # <<>>
  PROVE  LET call == calls[c]
             F == Families[family]
         IN  /\ call \in CallsOf(F) /\ ActiveCall(call, F, scene, study, optimizer.seen)
             /\ 1 \in DOMAIN call.rest /\ Head(call.rest) = call.rest[1] /\ call.rest[1] \in Steps
             /\ call.function \in DOMAIN F /\ Regular(F[call.function], call.function)
             /\ Has(F[call.function], call.rest[1])
  <1>1. PICK F : F = Families[family]
    OBVIOUS
  <1>2. PICK call : call = calls[c]
    OBVIOUS
  <1>3. call \in CallsOf(F) /\ ActiveCall(call, F, scene, study, optimizer.seen)
    BY <1>1, <1>2 DEF CallsInv, GoodCalls, GoodCall
  <1>4. call.rest \in Seq(Steps)
    BY <1>3 DEF CallsOf
  <1>5. call.rest # <<>>
    BY <1>2
  <1>6. 1 \in DOMAIN call.rest /\ Head(call.rest) = call.rest[1] /\ call.rest[1] \in Steps
    BY ONLY <1>4, <1>5, NotEmpty
  <1>7. call.function \in DOMAIN F /\ Has(F[call.function], call.rest[1])
    BY <1>3, <1>6 DEF ActiveCall, Remains
  <1>8. Regular(F[call.function], call.function)
    BY <1>1, <1>7, RegularCodes DEF StateType, Table
  <1>9. QED
    BY <1>1, <1>2, <1>3, <1>6, <1>7, <1>8

LEMMA Ends ==
  ASSUME StateType, CallsInv, NEW c \in Callers, NEW i \in DOMAIN calls[c].rest, calls[c].rest # <<>>,
         calls[c].rest[i] \notin Reporting, NEW step \in Steps \cup {"disk"},
         calls[c].informed => step \in Fallible \cup {"disk"}, EndAt(c, step)
  PROVE  /\ Stepped(c, calls', scene, study, optimizer') /\ SameBatches(optimizer, optimizer')
         /\ optimizer'.seen = optimizer.seen /\ optimizer' \in OptimizerType
         /\ optimizer'.handle = optimizer.handle
  <1>1. PICK F : F = Families[family]
    OBVIOUS
  <1>2. PICK call : call = calls[c]
    OBVIOUS
  <1>3. PICK new : new = [Over(call) EXCEPT !.at = step]
    OBVIOUS
  <1>4. call \in CallsOf(F) /\ ActiveCall(call, F, scene, study, optimizer.seen)
    BY <1>1, <1>2, RunningCall
  <1>5. /\ i \in DOMAIN call.rest /\ call.rest[i] \notin Reporting /\ call.rest # <<>>
        /\ call.informed => step \in Fallible \cup {"disk"}
    BY <1>2
  <1>6. new \in CallsOf(F) /\ new.rest = <<>> /\ GoodCall(new, F, scene, study, optimizer.seen)
    BY ONLY <1>3, <1>4, <1>5, step \in Steps \cup {"disk"}, EndedAt
  <1>7. /\ optimizer'.pending = optimizer.pending /\ optimizer'.batches = optimizer.batches
        /\ optimizer'.evaluated = optimizer.evaluated /\ optimizer'.seen = optimizer.seen
        /\ optimizer'.handle = optimizer.handle
        /\ optimizer'.lost = optimizer.lost \cup ({call.taken} \ {0})
        /\ optimizer' \in OptimizerType
    <2>1. call.taken \in Nat
      BY <1>4 DEF CallsOf
    <2>2. optimizer' = [optimizer EXCEPT !.lost = @ \cup ({call.taken} \ {0})]
      BY <1>2 DEF EndAt
    <2>3. optimizer \in OptimizerType
      BY DEF StateType
    <2>4. QED
      BY ONLY <2>1, <2>2, <2>3 DEF OptimizerType
  <1>8. Progress(call, new, optimizer.seen \cup optimizer'.lost)
    BY ONLY <1>5, <1>6, <1>7 DEF Progress
  <1>9. calls' = [calls EXCEPT ![c] = new]
    BY <1>2, <1>3 DEF EndAt
  <1>10. GoodCalls(calls, F, scene, study, optimizer.seen)
    BY <1>1 DEF CallsInv
  <1>11. StepOf(c, F, calls, calls', scene, study, optimizer.seen, optimizer.seen \cup optimizer'.lost)
    <2>1. optimizer.seen \subseteq optimizer.seen /\ Progress(calls[c], new, optimizer.seen \cup optimizer'.lost)
      BY <1>2, <1>8
    <2>2. QED
      BY ONLY <2>1, <1>6, <1>9, <1>10, c \in Callers, OneMoves
  <1>12. QED
    BY <1>1, <1>7, <1>11 DEF Stepped, SameBatches

LEMMA Moves ==
  ASSUME StateType, CallsInv, NEW c \in Callers, calls[c].rest # <<>>,
         Head(calls[c].rest) \notin Deciding \cup {"outputs"}, GoOn(c)
  PROVE  Stepped(c, calls', scene, study, optimizer)
  <1>1. PICK F : F = Families[family]
    OBVIOUS
  <1>2. PICK call : call = calls[c]
    OBVIOUS
  <1>3. PICK new : new = Advanced(call)
    OBVIOUS
  <1>4. call \in CallsOf(F) /\ ActiveCall(call, F, scene, study, optimizer.seen) /\ Head(call.rest) = call.rest[1]
    BY <1>1, <1>2, RunningCall
  <1>5. call.rest # <<>> /\ call.rest[1] \notin Deciding \cup {"outputs"}
    BY <1>2, <1>4
  <1>6. PICK kept : kept = optimizer.seen \cup optimizer.lost
    OBVIOUS
  <1>7. optimizer.seen \subseteq kept /\ optimizer.seen \subseteq optimizer.seen
    BY <1>6
  <1>8. /\ new \in CallsOf(F) /\ GoodCall(new, F, scene, study, optimizer.seen)
        /\ Progress(call, new, kept)
    BY ONLY <1>3, <1>4, <1>5, <1>7, MovedCall
  <1>9. calls' = [calls EXCEPT ![c] = new] /\ Progress(calls[c], new, kept)
    BY <1>2, <1>3, <1>8 DEF GoOn
  <1>10. GoodCalls(calls, F, scene, study, optimizer.seen)
    BY <1>1 DEF CallsInv
  <1>11. StepOf(c, F, calls, calls', scene, study, optimizer.seen, kept)
    BY ONLY <1>7, <1>8, <1>9, <1>10, c \in Callers, OneMoves
  <1>12. QED
    BY <1>1, <1>6, <1>11 DEF Stepped

\* The answer that the last look finds.
Answered(call, F, sc2, st2, required) ==
  IsDecided(Tail(call.rest)) =>
    Answerable(F[call.function], call.argument, sc2, st2) /\ required = Needed(F[call.function], sc2, st2)

LEMMA Looks ==
  ASSUME StateType, CallsInv, NEW c \in Callers, calls[c].rest # <<>>,
         Head(calls[c].rest) \in Deciding, Head(calls[c].rest) = "open" => study.exists,
         NEW required \in Nat, Answered(calls[c], Families[family], scene, study, required),
         GoOnWith(c, required)
  PROVE  Stepped(c, calls', scene, study, optimizer)
  <1>1. PICK F : F = Families[family]
    OBVIOUS
  <1>2. PICK call : call = calls[c]
    OBVIOUS
  <1>3. PICK new : new = Advanced([call EXCEPT !.required = required, !.current = TRUE])
    OBVIOUS
  <1>4. call \in CallsOf(F) /\ ActiveCall(call, F, scene, study, optimizer.seen) /\ Head(call.rest) = call.rest[1]
    BY <1>1, <1>2, RunningCall
  <1>5. PICK step \in Deciding : step = call.rest[1]
    BY <1>2, <1>4
  <1>6. PICK kept : kept = optimizer.seen \cup optimizer.lost
    OBVIOUS
  <1>7. /\ optimizer.seen \subseteq kept /\ call.rest # <<>> /\ (step = "open" => study.exists)
        /\ study.exists => study.exists
        /\ ~call.informed \/ (scene = scene /\ study = study)
    BY <1>2, <1>4, <1>5, <1>6
  <1>8. IsDecided(Tail(call.rest)) =>
          Answerable(F[call.function], call.argument, scene, study)
            /\ required = Needed(F[call.function], scene, study)
    BY <1>1, <1>2 DEF Answered
  <1>9. /\ new \in CallsOf(F) /\ GoodCall(new, F, scene, study, optimizer.seen)
        /\ Progress(call, new, kept)
    <2>1. IsLooking(call, F, scene, study, optimizer.seen, scene, study, required)
      BY ONLY <1>4, <1>5, <1>7, <1>8, required \in Nat DEF IsLooking
    <2>2. QED
      BY ONLY <1>3, <1>7, <2>1, LookedCall
  <1>10. calls' = [calls EXCEPT ![c] = new] /\ Progress(calls[c], new, kept)
    BY <1>2, <1>3, <1>9 DEF GoOnWith
  <1>11. GoodCalls(calls, F, scene, study, optimizer.seen) /\ optimizer.seen \subseteq optimizer.seen
    BY <1>1 DEF CallsInv
  <1>12. StepOf(c, F, calls, calls', scene, study, optimizer.seen, kept)
    BY ONLY <1>9, <1>10, <1>11, c \in Callers, OneMoves
  <1>13. QED
    BY <1>1, <1>6, <1>12 DEF Stepped

LEMMA Changes ==
  ASSUME StateType, CallsInv, NEW c \in Callers, calls[c].rest # <<>>,
         Head(calls[c].rest) \in Deciding \ {"open"}, ~calls[c].informed,
         NEW st2, study.exists => st2.exists,
         NEW required \in Nat, Answered(calls[c], Families[family], scene, st2, required),
         GoOnChanging(c, required)
  PROVE  Stepped(c, calls', scene, st2, optimizer)
  <1>1. PICK F : F = Families[family]
    OBVIOUS
  <1>2. PICK call : call = calls[c]
    OBVIOUS
  <1>3. PICK new : new = Advanced([call EXCEPT !.required = required, !.current = TRUE])
    OBVIOUS
  <1>4. call \in CallsOf(F) /\ ActiveCall(call, F, scene, study, optimizer.seen) /\ Head(call.rest) = call.rest[1]
    BY <1>1, <1>2, RunningCall
  <1>5. PICK step \in Deciding : step = call.rest[1]
    BY <1>2, <1>4
  <1>6. PICK kept : kept = optimizer.seen \cup optimizer.lost
    OBVIOUS
  <1>7. /\ optimizer.seen \subseteq kept /\ call.rest # <<>> /\ (step = "open" => st2.exists)
        /\ ~call.informed \/ (scene = scene /\ st2 = study)
    BY <1>2, <1>4, <1>5, <1>6
  <1>8. IsDecided(Tail(call.rest)) =>
          Answerable(F[call.function], call.argument, scene, st2)
            /\ required = Needed(F[call.function], scene, st2)
    BY <1>1, <1>2 DEF Answered
  <1>9. /\ new \in CallsOf(F) /\ GoodCall(new, F, scene, st2, optimizer.seen)
        /\ Progress(call, new, kept)
    <2>1. IsLooking(call, F, scene, study, optimizer.seen, scene, st2, required)
      BY ONLY <1>4, <1>5, <1>7, <1>8, required \in Nat, study.exists => st2.exists DEF IsLooking
    <2>2. QED
      BY ONLY <1>3, <1>7, <2>1, LookedCall
  <1>10. /\ calls' = [d \in Callers |-> IF d = c THEN new ELSE Outdated(calls[d])]
         /\ Progress(calls[c], new, kept)
    BY <1>2, <1>3, <1>9 DEF GoOnChanging
  <1>11. GoodCalls(calls, F, scene, study, optimizer.seen)
    BY <1>1 DEF CallsInv
  <1>12. StepOf(c, F, calls, calls', scene, st2, optimizer.seen, kept)
    BY ONLY <1>9, <1>10, <1>11, c \in Callers, study.exists => st2.exists, OthersOutdated
  <1>13. QED
    BY <1>1, <1>6, <1>12 DEF Stepped

\* What a step promises that changes no batch of the optimizer.
Ordinary(c, cs2, sc2, st2, o2) ==
  /\ Stepped(c, cs2, sc2, st2, o2) /\ SameBatches(optimizer, o2)
  /\ sc2 \in SceneType /\ st2 \in StudyType /\ o2 \in OptimizerType

LEMMA PlainEnds ==
  ASSUME StateType, CallsInv, NEW c \in Callers, NEW i \in DOMAIN calls[c].rest, calls[c].rest # <<>>,
         calls[c].rest[i] \notin Reporting, NEW step \in Steps \cup {"disk"},
         calls[c].informed => step \in Fallible \cup {"disk"}, EndAt(c, step),
         scene' = scene, study' = study
  PROVE  Ordinary(c, calls', scene', study', optimizer') /\ optimizer'.handle = optimizer.handle
  <1>1. /\ Stepped(c, calls', scene, study, optimizer') /\ SameBatches(optimizer, optimizer')
        /\ optimizer' \in OptimizerType /\ optimizer'.handle = optimizer.handle
    BY Ends
  <1>2. QED
    BY <1>1 DEF Ordinary, StateType

LEMMA PlainStep ==
  ASSUME StateType, NEW c, Stepped(c, calls', scene, study, optimizer),
         scene' = scene, study' = study, optimizer' = optimizer
  PROVE  Ordinary(c, calls', scene', study', optimizer') /\ optimizer'.handle = optimizer.handle
  BY DEF Ordinary, StateType, SameBatches

LEMMA RefuseStep ==
  ASSUME StateType, CallsInv, NEW c \in Callers, Refuse(c)
  PROVE  Ordinary(c, calls', scene', study', optimizer') /\ optimizer'.handle = optimizer.handle
  <1>1. PICK n \in Local(calls[c].rest) : EndAt(c, calls[c].rest[n])
    BY DEF Refuse
  <1>2. n \in 1..Len(calls[c].rest) /\ \A i \in 1..n : calls[c].rest[i] \in Fallible
    BY <1>1 DEF Local
  <1>3. calls[c].rest # <<>>
    BY <1>2
  <1>4. calls[c] \in CallsOf(Families[family])
    BY DEF CallsInv, GoodCalls
  <1>5. calls[c].rest \in Seq(Steps)
    BY <1>4 DEF CallsOf
  <1>6. n \in DOMAIN calls[c].rest /\ calls[c].rest[n] \in Fallible
    BY <1>2, <1>5
  <1>7. calls[c].rest[n] \notin Reporting /\ calls[c].rest[n] \in Steps
    BY <1>6 DEF Reporting, Fallible, Steps
  <1>8. scene' = scene /\ study' = study
    BY DEF Refuse
  <1>9. QED
    BY <1>1, <1>3, <1>6, <1>7, <1>8, PlainEnds

\* The first steps of which none looks at a table: a beginning of the code, so that
\* there are as many of them as the number of the last one.
LEMMA LocalIsABeginning ==
  ASSUME NEW rest \in Seq(Steps), Local(rest) # {}
  PROVE  /\ Cardinality(Local(rest)) \in Local(rest)
  <1> DEFINE L == Local(rest)
             n == Cardinality(L)
  <1>1. L \subseteq 1..Len(rest) /\ Len(rest) \in Nat
    BY DEF Local
  <1>2. IsFiniteSet(1..Len(rest)) /\ Cardinality(1..Len(rest)) = Len(rest)
    <2>1. PICK len \in Nat : len = Len(rest)
      BY <1>1
    <2>2. IsFiniteSet(1..len) /\ Cardinality(1..len) = len
      BY FS_Interval
    <2>3. QED
      BY <2>1, <2>2
  <1>3. IsFiniteSet(L) /\ n \in Nat /\ n <= Len(rest)
    <2>1. IsFiniteSet(L) /\ Cardinality(L) <= Cardinality(1..Len(rest))
      BY <1>1, <1>2, FS_Subset
    <2>2. Cardinality(L) \in Nat
      BY <2>1, FS_CardinalityType
    <2>3. QED
      BY <1>2, <2>1, <2>2
  <1>4. ASSUME NEW m \in L PROVE m <= n
    <2>1. m \in Nat /\ m <= Len(rest)
      BY <1>1, <1>4
    <2>2. 1..m \subseteq L
      BY <1>4, <2>1 DEF Local
    <2>3. Cardinality(1..m) = m
      BY <2>1, FS_Interval
    <2>4. Cardinality(1..m) <= n
      BY <1>3, <2>2, FS_Subset
    <2>5. QED
      BY <2>3, <2>4
  <1>5. L \subseteq 1..n
    BY <1>1, <1>3, <1>4
  <1>6. IsFiniteSet(1..n) /\ Cardinality(1..n) = n
    BY <1>3, FS_Interval
  <1>7. L = 1..n
    BY <1>5, <1>6, FS_Subset
  <1>8. n >= 1
    BY <1>3, <1>7
  <1>9. QED
    BY <1>3, <1>7, <1>8

LEMMA PassStep ==
  ASSUME StateType, CallsInv, NEW c \in Callers, Pass(c)
  PROVE  Ordinary(c, calls', scene', study', optimizer') /\ optimizer' = optimizer
  <1>1. PICK F : F = Families[family]
    OBVIOUS
  <1>2. PICK call : call = calls[c]
    OBVIOUS
  <1>3. PICK n : n = Cardinality(Local(call.rest))
    OBVIOUS
  <1>4. PICK s : s = SubSeq(call.rest, n, Len(call.rest))
    OBVIOUS
  <1>5. PICK mid : mid = [call EXCEPT !.rest = s]
    OBVIOUS
  <1>6. PICK new : new = Advanced(mid)
    OBVIOUS
  <1>7. calls' = [calls EXCEPT ![c] = new]
    <2>1. calls' = [calls EXCEPT ![c] =
                      Advanced([calls[c] EXCEPT
                                  !.rest = SubSeq(calls[c].rest, Cardinality(Local(calls[c].rest)),
                                                  Len(calls[c].rest))])]
      BY DEF Pass
    <2>2. calls' = [calls EXCEPT ![c] = Advanced([call EXCEPT !.rest = SubSeq(call.rest, n, Len(call.rest))])]
      BY ONLY <2>1, <1>2, <1>3
    <2>3. QED
      BY ONLY <2>2, <1>4, <1>5, <1>6
  <1>8. Local(call.rest) # {}
    BY <1>2 DEF Pass
  <1>9. call \in CallsOf(F) /\ call.rest # <<>>
    BY <1>1, <1>2, <1>8 DEF CallsInv, GoodCalls, Local
  <1>10. ActiveCall(call, F, scene, study, optimizer.seen) /\ call.rest \in Seq(Steps)
    BY <1>1, <1>2, <1>9, RunningCall DEF CallsOf
  <1>11. n \in 1..Len(call.rest) /\ \A i \in 1..n : call.rest[i] \in Fallible
    <2>1. n \in Local(call.rest)
      BY <1>3, <1>8, <1>10, LocalIsABeginning
    <2>2. QED
      BY <2>1 DEF Local
  <1>12. From(s, call.rest, n)
    BY <1>4, <1>10, <1>11 DEF From
  <1>13. s \in Seq(Steps)
    BY <1>4, <1>10, <1>11
  <1>14. /\ mid \in CallsOf(F) /\ mid.rest = s /\ mid.function = call.function
         /\ mid.argument = call.argument /\ mid.at = call.at /\ mid.wrote = call.wrote
         /\ mid.taken = call.taken /\ mid.informed = call.informed /\ mid.capacity = call.capacity
         /\ mid.required = call.required /\ mid.current = call.current
    BY ONLY <1>5, <1>9, <1>13 DEF CallsOf
  <1>15. ASSUME IsDecided(Tail(s)) PROVE Knows(mid, F[call.function], scene, study)
    <2>1. \A j \in DOMAIN call.rest : j > n => j - n \in DOMAIN Tail(s) /\ Tail(s)[j - n] = call.rest[j]
      <3>1. Remains(call.rest, F[call.function], call.function)
        BY <1>10 DEF ActiveCall
      <3>2. QED
        <4>1. IsSuffix(s, call.rest, n, call.function)
          BY ONLY <1>4, <1>10, <1>11, <3>1, Tails
        <4>2. QED
          BY ONLY <4>1 DEF IsSuffix
    <2>2. \A i \in 1..n : call.rest[i] \notin Deciding
      BY <1>11 DEF Deciding, Fallible
    <2>3. IsDecided(call.rest)
      <3> SUFFICES ASSUME NEW j \in DOMAIN call.rest PROVE call.rest[j] \notin Deciding
        BY DEF IsDecided
      <3>1. CASE j > n
        BY <2>1, <3>1, <1>15 DEF IsDecided
      <3>2. CASE ~(j > n)
        BY <2>2, <3>2, <1>10, <1>11
      <3>3. QED
        BY <3>1, <3>2
    <2>4. Knows(call, F[call.function], scene, study)
      BY <2>3, <1>10 DEF ActiveCall
    <2>5. QED
      BY ONLY <2>4, <1>14 DEF Knows
  <1>16. Informed(mid, F[call.function], scene, study)
    <2>1. Informed(call, F[call.function], scene, study)
      BY <1>10 DEF ActiveCall
    <2>2. QED
      BY ONLY <2>1, <1>14 DEF Informed
  <1>17. call.rest[n] # "open" /\ call.rest[n] # "outputs"
    BY <1>11 DEF Fallible
  <1>18. Learns(call, mid, call.rest[n], Tail(s), F, scene, study, optimizer.seen)
    BY ONLY <1>14, <1>15, <1>16, <1>17 DEF Learns
  <1>19. PICK kept : kept = optimizer.seen \cup optimizer.lost
    OBVIOUS
  <1>20. optimizer.seen \subseteq optimizer.seen /\ (study.exists => study.exists) /\ optimizer.seen \subseteq kept
    BY <1>19
  <1>21. new \in CallsOf(F) /\ GoodCall(new, F, scene, study, optimizer.seen)
    BY ONLY <1>6, <1>9, <1>10, <1>12, <1>14, <1>18, <1>20, CallKeepsOn
  <1>22. Went(call, mid, new, optimizer.seen)
    BY ONLY <1>6, <1>9, <1>10, <1>12, <1>14, <1>18, <1>20, CallKeepsOn
  <1>23. Progress(call, new, kept)
    BY ONLY <1>9, <1>14, <1>20, <1>22 DEF Went, Progress
  <1>24. Progress(calls[c], new, kept) /\ GoodCalls(calls, F, scene, study, optimizer.seen)
    BY <1>1, <1>2, <1>23 DEF CallsInv
  <1>25. StepOf(c, F, calls, calls', scene, study, optimizer.seen, kept)
    BY ONLY <1>7, <1>20, <1>21, <1>24, c \in Callers, OneMoves
  <1>26. Stepped(c, calls', scene, study, optimizer)
    BY <1>1, <1>19, <1>25 DEF Stepped
  <1>27. scene' = scene /\ study' = study /\ optimizer' = optimizer
    BY DEF Pass
  <1>28. QED
    BY <1>26, <1>27, PlainStep

LEMMA AtStep ==
  ASSUME StateType, CallsInv, NEW c \in Callers, NEW step, At(c, step)
  PROVE  /\ calls[c].rest # <<>> /\ 1 \in DOMAIN calls[c].rest
         /\ calls[c].rest[1] = step /\ Head(calls[c].rest) = step /\ step \in Steps
         /\ Has(Families[family][calls[c].function], step)
         /\ calls[c].function \in DOMAIN Families[family]
         /\ Regular(Families[family][calls[c].function], calls[c].function)
  <1>1. calls[c].rest # <<>> /\ Head(calls[c].rest) = step
    BY DEF At
  <1>2. PICK F : F = Families[family]
    OBVIOUS
  <1>3. PICK call : call = calls[c]
    OBVIOUS
  <1>4. /\ 1 \in DOMAIN call.rest /\ Head(call.rest) = call.rest[1] /\ call.rest[1] \in Steps
        /\ call.function \in DOMAIN F /\ Regular(F[call.function], call.function)
        /\ Has(F[call.function], call.rest[1])
    BY <1>1, <1>2, <1>3, RunningCall
  <1>5. QED
    BY <1>1, <1>2, <1>3, <1>4

\* A call whose caller knows the size of the answer.
LEMMA InformedCall ==
  ASSUME StateType, CallsInv, NEW c \in Callers, calls[c].rest # <<>>, calls[c].informed
  PROVE  LET code == Families[family][calls[c].function]
         IN  /\ Has(code, SizingRecord(calls[c].function))
             /\ Answerable(code, calls[c].argument, scene, study)
             /\ calls[c].capacity >= Needed(code, scene, study) /\ calls[c].current
             /\ \A i \in DOMAIN code : code[i] \notin Handling
  <1>1. PICK F : F = Families[family]
    OBVIOUS
  <1>2. PICK call : call = calls[c]
    OBVIOUS
  <1>3. /\ ActiveCall(call, F, scene, study, optimizer.seen)
        /\ Regular(F[call.function], call.function)
    BY <1>1, <1>2, RunningCall
  <1>4. Informed(call, F[call.function], scene, study)
    BY <1>3 DEF ActiveCall
  <1>5. PICK code : code = F[call.function]
    OBVIOUS
  <1>6. /\ Has(code, SizingRecord(call.function)) /\ Answerable(code, call.argument, scene, study)
        /\ call.capacity >= Needed(code, scene, study) /\ call.current
    BY <1>2, <1>4, <1>5 DEF Informed
  <1>7. \A i \in DOMAIN code : code[i] \notin Handling
    BY <1>3, <1>5, <1>6 DEF Regular, Only
  <1>8. QED
    BY <1>1, <1>2, <1>5, <1>6, <1>7

\* A caller that knows the size is not refused for the state.
LEMMA NotHandling ==
  ASSUME StateType, CallsInv, NEW c \in Callers, NEW step \in Handling, At(c, step)
  PROVE  ~calls[c].informed
  <1>1. calls[c].rest # <<>> /\ Has(Families[family][calls[c].function], step)
    BY AtStep
  <1>2. SUFFICES ASSUME calls[c].informed PROVE FALSE
    OBVIOUS
  <1>3. PICK code : code = Families[family][calls[c].function]
    OBVIOUS
  <1>4. \A i \in DOMAIN code : code[i] \notin Handling
    BY <1>1, <1>2, <1>3, InformedCall
  <1>5. QED
    BY <1>1, <1>3, <1>4 DEF Has

\* What the code asks when the last look is at this step.
LEMMA AskedOnly ==
  ASSUME StateType, CallsInv, NEW c \in Callers, NEW step \in Deciding, At(c, step),
         IsDecided(Tail(calls[c].rest))
  PROVE  LET code == Families[family][calls[c].function]
         IN  \A d \in Deciding : Has(code, d) => d = step \/ (d = "open" /\ study.exists)
  <1>1. PICK F : F = Families[family]
    OBVIOUS
  <1>2. PICK call : call = calls[c]
    OBVIOUS
  <1>3. /\ call \in CallsOf(F) /\ ActiveCall(call, F, scene, study, optimizer.seen)
        /\ call.rest # <<>> /\ call.rest[1] = step
    BY <1>1, <1>2, AtStep, RunningCall
  <1>4. Table(F)
    BY <1>1, RegularCodes DEF StateType
  <1>5. call.rest[1] \in Deciding /\ IsDecided(Tail(call.rest))
    BY <1>2, <1>3
  <1>6. ASSUME NEW d \in Deciding, Has(F[call.function], d)
        PROVE  d = step \/ (d = "open" /\ study.exists)
    <2>1. d = call.rest[1] \/ (d = "open" /\ study.exists)
      BY ONLY <1>3, <1>4, <1>5, <1>6, DecidedBy
    <2>2. QED
      BY <1>3, <2>1
  <1>7. QED
    BY <1>1, <1>2, <1>6

LEMMA FindSceneStep ==
  ASSUME StateType, CallsInv, NEW c \in Callers, FindScene(c)
  PROVE  Ordinary(c, calls', scene', study', optimizer') /\ optimizer'.handle = optimizer.handle
  <1>1. /\ calls[c].rest # <<>> /\ 1 \in DOMAIN calls[c].rest
        /\ calls[c].rest[1] = "scene" /\ Head(calls[c].rest) = "scene"
        /\ Has(Families[family][calls[c].function], "scene")
    BY AtStep DEF FindScene
  <1>2. scene' = scene /\ study' = study /\ At(c, "scene")
    BY DEF FindScene
  <1>3. \/ scene \in {"none", "building"} /\ Refused(c)
        \/ scene = "small" /\ GoOnWith(c, 1) /\ optimizer' = optimizer
        \/ scene = "large" /\ GoOnWith(c, 2) /\ optimizer' = optimizer
    BY DEF FindScene, StateType, SceneType
  <1>4. CASE scene \in {"none", "building"} /\ Refused(c)
    <2>1. ~calls[c].informed
      <3>1. SUFFICES ASSUME calls[c].informed PROVE FALSE
        OBVIOUS
      <3>2. Answerable(Families[family][calls[c].function], calls[c].argument, scene, study)
        BY <1>1, <3>1, InformedCall
      <3>3. QED
        BY <1>1, <1>4, <3>2 DEF Answerable
    <2>2. EndAt(c, "scene") /\ calls[c].rest[1] \notin Reporting /\ "scene" \in Steps
      BY <1>1, <1>4 DEF Refused, Reporting, Steps, Deciding
    <2>3. QED
      BY <1>1, <1>2, <2>1, <2>2, PlainEnds
  <1>5. ASSUME NEW size \in {1, 2}, size = IF scene = "large" THEN 2 ELSE 1,
               scene \in {"small", "large"}, GoOnWith(c, size), optimizer' = optimizer
        PROVE  Ordinary(c, calls', scene', study', optimizer') /\ optimizer'.handle = optimizer.handle
    <2>1. PICK code : code = Families[family][calls[c].function]
      OBVIOUS
    <2>2. PICK argument : argument = calls[c].argument
      OBVIOUS
    <2>3. ASSUME IsDecided(Tail(calls[c].rest))
          PROVE  Answerable(code, argument, scene, study) /\ size = Needed(code, scene, study)
      <3>1. "scene" \in Deciding
        BY DEF Deciding
      <3>2. \A d \in Deciding : Has(code, d) => d = "scene" \/ (d = "open" /\ study.exists)
        BY <1>2, <2>1, <2>3, <3>1, AskedOnly
      <3>3. /\ ~Has(code, "create") /\ ~Has(code, "begin") /\ ~Has(code, "commit")
            /\ Has(code, "open") => study.exists
        BY <3>2 DEF Deciding
      <3>4. Has(code, "scene")
        BY <1>1, <2>1
      <3>5. QED
        BY ONLY <1>5, <3>3, <3>4 DEF Answerable, Needed
    <2>4. Answered(calls[c], Families[family], scene, study, size)
      BY <2>1, <2>2, <2>3 DEF Answered
    <2>5. Stepped(c, calls', scene, study, optimizer)
      BY <1>1, <1>5, <2>4, Looks DEF Deciding
    <2>6. QED
      BY <1>2, <1>5, <2>5, PlainStep
  <1>6. QED
    BY <1>3, <1>4, <1>5

\* Refused for the object behind a handle.
LEMMA RefusedHandle ==
  ASSUME StateType, CallsInv, NEW c \in Callers, NEW step \in Handling, At(c, step), Refused(c),
         scene' = scene, study' = study
  PROVE  Ordinary(c, calls', scene', study', optimizer') /\ optimizer'.handle = optimizer.handle
  <1>1. /\ calls[c].rest # <<>> /\ 1 \in DOMAIN calls[c].rest
        /\ calls[c].rest[1] = step /\ Head(calls[c].rest) = step /\ step \in Steps
    BY AtStep
  <1>2. ~calls[c].informed
    BY NotHandling
  <1>3. step \notin Reporting /\ EndAt(c, step)
    BY <1>1 DEF Handling, Reporting, Refused
  <1>4. QED
    BY <1>1, <1>2, <1>3, PlainEnds

LEMMA PlainMove ==
  ASSUME StateType, CallsInv, NEW c \in Callers, NEW step \in Handling \cup Sizes, At(c, step), GoOn(c)
  PROVE  Stepped(c, calls', scene, study, optimizer)
  <1>1. calls[c].rest # <<>> /\ Head(calls[c].rest) = step
    BY AtStep
  <1>2. step \notin Deciding \cup {"outputs"}
    BY DEF Handling, Sizes, Deciding
  <1>3. QED
    BY <1>1, <1>2, Moves

LEMMA FindHandleStep ==
  ASSUME StateType, CallsInv, NEW c \in Callers, FindHandle(c)
  PROVE  Ordinary(c, calls', scene', study', optimizer') /\ optimizer'.handle = optimizer.handle
  <1>1. PICK step \in {"session", "optimizer"} : At(c, step)
    BY DEF FindHandle
  <1>2. step \in Handling /\ scene' = scene /\ study' = study
    BY DEF Handling, FindHandle
  <1>3. CASE Refused(c)
    BY <1>1, <1>2, <1>3, RefusedHandle
  <1>4. CASE GoOn(c) /\ optimizer' = optimizer
    <2>1. Stepped(c, calls', scene, study, optimizer)
      BY <1>1, <1>2, <1>4, PlainMove
    <2>2. QED
      BY <1>2, <1>4, <2>1, PlainStep
  <1>5. QED
    BY <1>3, <1>4 DEF FindHandle

LEMMA HandleSet ==
  ASSUME NEW o \in OptimizerType, NEW handle \in Handles, NEW o2, o2 = [o EXCEPT !.handle = handle]
  PROVE  /\ o2.seen = o.seen /\ o2.lost = o.lost /\ o2 \in OptimizerType
         /\ SameBatches(o, o2) /\ o2.handle = handle
  BY DEF OptimizerType, SameBatches

Taken(o, n) == [o EXCEPT !.pending = n, !.batches = n]
LEMMA BatchTaken ==
  ASSUME NEW o \in OptimizerType, NEW n \in Nat, NEW o2, o2 = Taken(o, n)
  PROVE  /\ o2 \in OptimizerType /\ o2.seen = o.seen /\ o2.lost = o.lost /\ o2.handle = o.handle
         /\ o2.pending = n /\ o2.batches = n /\ o2.evaluated = o.evaluated
  BY DEF OptimizerType, Taken

Returned(o, evaluated) == [o EXCEPT !.pending = 0, !.evaluated = evaluated]
LEMMA BatchReturned ==
  ASSUME NEW o \in OptimizerType, NEW evaluated \in [1..MaxBatches -> Nat],
         NEW o2, o2 = Returned(o, evaluated)
  PROVE  /\ o2 \in OptimizerType /\ o2.seen = o.seen /\ o2.lost = o.lost /\ o2.handle = o.handle
         /\ o2.pending = 0 /\ o2.batches = o.batches /\ o2.evaluated = evaluated
  BY DEF OptimizerType, Returned

\* The object is in its table, and the next step tells its handle.
LEMMA InsertStep ==
  ASSUME StateType, CallsInv, NEW c \in Callers, Insert(c)
  PROVE  /\ Ordinary(c, calls', scene', study', optimizer')
         /\ calls'[c].rest # <<>> /\ Head(calls'[c].rest) = "metadata"
         /\ At(c, "insert_session") => calls'[c].function \in {"xv_compute_create", "xv_compute_create_for_adapter"}
         /\ At(c, "insert_optimizer") => calls'[c].function = "xv_optimizer_create"
         /\ session' # session => At(c, "insert_session")
         /\ optimizer'.handle # optimizer.handle => At(c, "insert_optimizer")
  <1>1. PICK step \in {"insert_session", "insert_optimizer"} : At(c, step)
    BY DEF Insert
  <1>2. step \in Handling /\ scene' = scene /\ study' = study /\ GoOn(c)
    BY DEF Handling, Insert
  <1>3. Stepped(c, calls', scene, study, optimizer)
    BY <1>1, <1>2, PlainMove
  <1>4. optimizer' = optimizer \/ optimizer' = [optimizer EXCEPT !.handle = "live"]
    BY DEF Insert
  <1>5. /\ optimizer'.seen = optimizer.seen /\ optimizer'.lost = optimizer.lost
        /\ optimizer' \in OptimizerType /\ SameBatches(optimizer, optimizer')
    <2>1. optimizer \in OptimizerType
      BY DEF StateType
    <2>2. CASE optimizer' = optimizer
      BY <2>1, <2>2 DEF SameBatches
    <2>3. CASE optimizer' = [optimizer EXCEPT !.handle = "live"]
      BY ONLY <2>1, <2>3, HandleSet DEF Handles
    <2>4. QED
      BY <1>4, <2>2, <2>3
  <1>6. Ordinary(c, calls', scene', study', optimizer')
    BY <1>2, <1>3, <1>5 DEF Ordinary, Stepped, StateType
  <1>7. PICK F : F = Families[family]
    OBVIOUS
  <1>8. PICK call : call = calls[c]
    OBVIOUS
  <1>9. PICK new : new = Advanced(call)
    OBVIOUS
  <1>10. /\ call \in CallsOf(F) /\ ActiveCall(call, F, scene, study, optimizer.seen)
         /\ call.rest # <<>> /\ 1 \in DOMAIN call.rest /\ call.rest[1] = step
         /\ Regular(F[call.function], call.function) /\ Has(F[call.function], step)
    <2>1. /\ calls[c].rest # <<>> /\ 1 \in DOMAIN calls[c].rest /\ calls[c].rest[1] = step
          /\ Regular(Families[family][calls[c].function], calls[c].function)
          /\ Has(Families[family][calls[c].function], step)
      BY <1>1, AtStep
    <2>2. call \in CallsOf(F) /\ ActiveCall(call, F, scene, study, optimizer.seen)
      BY <1>7, <1>8, <2>1, RunningCall
    <2>3. QED
      BY <1>7, <1>8, <2>1, <2>2
  <1>11. call.rest \in Seq(Steps) /\ 2 \in DOMAIN call.rest /\ call.rest[2] = "metadata"
    <2>1. call.rest \in Seq(Steps)
      BY <1>10 DEF CallsOf
    <2>2. Announced(call.rest)
      BY <1>10 DEF ActiveCall, Remains
    <2>3. 1 + 1 \in DOMAIN call.rest /\ call.rest[1 + 1] = "metadata"
      BY <1>10, <2>2 DEF Announced
    <2>4. QED
      BY <2>1, <2>3
  <1>12. Len(call.rest) # 1 /\ Head(Tail(call.rest)) = "metadata"
    BY <1>11
  <1>13. new.rest = Tail(call.rest) /\ new.rest # <<>> /\ new.function = call.function
    BY ONLY <1>9, <1>10, <1>12, NextOf
  <1>14. calls'[c] = new
    BY <1>2, <1>8, <1>9 DEF GoOn, CallsInv, GoodCalls
  <1>15. /\ step = "insert_optimizer" => call.function = "xv_optimizer_create"
         /\ step = "insert_session" =>
              call.function \in {"xv_compute_create", "xv_compute_create_for_adapter"}
    BY <1>10 DEF Regular, Only
  <1>16. /\ At(c, "insert_session") => step = "insert_session"
         /\ At(c, "insert_optimizer") => step = "insert_optimizer"
    BY <1>1 DEF At
  <1>17. /\ session' # session => At(c, "insert_session")
         /\ optimizer'.handle # optimizer.handle => At(c, "insert_optimizer")
    BY DEF Insert
  <1>18. QED
    BY <1>6, <1>12, <1>13, <1>14, <1>15, <1>16, <1>17

LEMMA RemoveStep ==
  ASSUME StateType, CallsInv, NEW c \in Callers, RemoveHandle(c)
  PROVE  /\ Ordinary(c, calls', scene', study', optimizer')
         /\ optimizer'.handle = "live" => optimizer.handle = "live"
         /\ session' = "live" => session = "live"
  <1>1. PICK step \in {"remove_session", "remove_optimizer"} : At(c, step)
    BY DEF RemoveHandle
  <1>2. step \in Handling /\ scene' = scene /\ study' = study
    BY DEF Handling, RemoveHandle
  <1>3. session' = "live" => session = "live"
    BY DEF RemoveHandle
  <1>4. CASE Refused(c)
    <2>1. Ordinary(c, calls', scene', study', optimizer') /\ optimizer'.handle = optimizer.handle
      BY <1>1, <1>2, <1>4, RefusedHandle
    <2>2. QED
      BY <1>3, <2>1
  <1>5. CASE GoOn(c) /\ optimizer' \in {optimizer, [optimizer EXCEPT !.handle = "released"]}
    <2>1. Stepped(c, calls', scene, study, optimizer)
      BY <1>1, <1>2, <1>5, PlainMove
    <2>2. /\ optimizer'.seen = optimizer.seen /\ optimizer'.lost = optimizer.lost
          /\ optimizer' \in OptimizerType /\ SameBatches(optimizer, optimizer')
          /\ optimizer'.handle = "live" => optimizer.handle = "live"
      <3>1. optimizer \in OptimizerType
        BY DEF StateType
      <3>2. CASE optimizer' = optimizer
        BY <3>1, <3>2 DEF SameBatches
      <3>3. CASE optimizer' = [optimizer EXCEPT !.handle = "released"]
        <4>1. /\ optimizer'.seen = optimizer.seen /\ optimizer'.lost = optimizer.lost
              /\ optimizer' \in OptimizerType /\ SameBatches(optimizer, optimizer')
              /\ optimizer'.handle = "released"
          BY ONLY <3>1, <3>3, HandleSet DEF Handles
        <4>2. QED
          BY <4>1
      <3>4. QED
        BY <1>5, <3>2, <3>3
    <2>3. QED
      BY <1>2, <1>3, <2>1, <2>2 DEF Ordinary, Stepped, StateType
  <1>6. QED
    BY <1>4, <1>5 DEF RemoveHandle

\* All that a step promises which may take or return a batch.
AskStepped(c) ==
  /\ Stepped(c, calls', scene', study', optimizer')
  /\ scene' = scene /\ study' = study /\ optimizer' \in OptimizerType
  /\ optimizer'.handle = optimizer.handle

LEMMA AskStep ==
  ASSUME StateType, CallsInv, NEW c \in Callers, Ask(c)
  PROVE  \/ Ordinary(c, calls', scene', study', optimizer') /\ optimizer'.handle = optimizer.handle
         \/ /\ AskStepped(c) /\ optimizer.pending = 0
            /\ calls[c].function = "xv_optimizer_ask" /\ calls[c].taken = 0
            /\ calls'[c].rest # <<>> /\ calls'[c].taken = optimizer.batches + 1
            /\ optimizer' = [optimizer EXCEPT !.pending = optimizer.batches + 1, !.batches = @ + 1]
  <1>1. At(c, "ask") /\ "ask" \in Handling /\ scene' = scene /\ study' = study
    BY DEF Ask, Handling
  <1>2. CASE Refused(c)
    BY <1>1, <1>2, RefusedHandle
  <1>3. CASE /\ optimizer.pending = 0
             /\ optimizer' = [optimizer EXCEPT !.pending = optimizer.batches + 1, !.batches = @ + 1]
             /\ calls' = [calls EXCEPT ![c] = Advanced([@ EXCEPT !.taken = optimizer.batches + 1])]
    <2>1. PICK F : F = Families[family]
      OBVIOUS
    <2>2. PICK call : call = calls[c]
      OBVIOUS
    <2>3. PICK mid : mid = [call EXCEPT !.taken = optimizer.batches + 1]
      OBVIOUS
    <2>4. PICK new : new = Advanced(mid)
      OBVIOUS
    <2>5. /\ call \in CallsOf(F) /\ ActiveCall(call, F, scene, study, optimizer.seen)
          /\ call.rest # <<>> /\ 1 \in DOMAIN call.rest /\ call.rest[1] = "ask"
          /\ Regular(F[call.function], call.function) /\ Has(F[call.function], "ask")
      <3>1. /\ calls[c].rest # <<>> /\ 1 \in DOMAIN calls[c].rest /\ calls[c].rest[1] = "ask"
            /\ Regular(Families[family][calls[c].function], calls[c].function)
            /\ Has(Families[family][calls[c].function], "ask")
        BY <1>1, AtStep
      <3>2. call \in CallsOf(F) /\ ActiveCall(call, F, scene, study, optimizer.seen)
        BY <2>1, <2>2, <3>1, RunningCall
      <3>3. QED
        BY <2>1, <2>2, <3>1, <3>2
    <2>6. call.function = "xv_optimizer_ask" /\ call.taken = 0
      <3>1. call.function = "xv_optimizer_ask"
        BY <2>5 DEF Regular, Only
      <3>2. Has(call.rest, "ask") /\ Taking(call, optimizer.seen)
        BY <2>5 DEF ActiveCall, Has
      <3>3. QED
        BY <3>1, <3>2 DEF Taking
    <2>7. optimizer.batches + 1 \in Nat /\ optimizer.batches + 1 # 0
      BY DEF StateType, OptimizerType
    <2>8. /\ mid \in CallsOf(F) /\ mid.rest = call.rest /\ mid.function = call.function
          /\ mid.argument = call.argument /\ mid.at = call.at /\ mid.wrote = call.wrote
          /\ mid.taken = optimizer.batches + 1 /\ mid.informed = call.informed
          /\ mid.capacity = call.capacity /\ mid.required = call.required /\ mid.current = call.current
      BY ONLY <2>3, <2>5, <2>7 DEF CallsOf
    <2>9. call.rest \in Seq(Steps) /\ Len(call.rest) >= 1
      <3>1. call.rest \in Seq(Steps)
        BY <2>5 DEF CallsOf
      <3>2. QED
        BY <2>5, <3>1, NotEmpty
    <2>10. ASSUME IsDecided(Tail(call.rest)) PROVE Knows(mid, F[call.function], scene, study)
      <3>1. \A j \in DOMAIN call.rest :
              j # 1 => j - 1 \in DOMAIN Tail(call.rest) /\ Tail(call.rest)[j - 1] = call.rest[j]
        BY <2>9
      <3>2. "ask" \notin Deciding
        BY DEF Deciding
      <3>3. IsDecided(call.rest)
        BY <2>5, <2>10, <3>1, <3>2 DEF IsDecided
      <3>4. Knows(call, F[call.function], scene, study)
        BY <2>5, <3>3 DEF ActiveCall
      <3>5. QED
        BY ONLY <3>4, <2>8 DEF Knows
    <2>11. Informed(mid, F[call.function], scene, study)
      <3>1. Informed(call, F[call.function], scene, study)
        BY <2>5 DEF ActiveCall
      <3>2. QED
        BY ONLY <3>1, <2>8 DEF Informed
    <2>12. Learns(call, mid, call.rest[1], Tail(call.rest), F, scene, study, optimizer.seen)
      BY ONLY <2>5, <2>6, <2>8, <2>10, <2>11 DEF Learns
    <2>13. /\ optimizer'.seen = optimizer.seen /\ optimizer'.lost = optimizer.lost
           /\ optimizer' \in OptimizerType /\ optimizer'.handle = optimizer.handle
      <3>1. optimizer \in OptimizerType
        BY DEF StateType
      <3>2. PICK n \in Nat : n = optimizer.batches + 1
        BY <2>7
      <3>3. optimizer' = Taken(optimizer, n)
        BY <1>3, <3>2 DEF Taken
      <3>4. /\ optimizer' \in OptimizerType /\ optimizer'.seen = optimizer.seen
            /\ optimizer'.lost = optimizer.lost /\ optimizer'.handle = optimizer.handle
            /\ optimizer'.pending = n /\ optimizer'.batches = n
            /\ optimizer'.evaluated = optimizer.evaluated
        BY ONLY <3>1, <3>3, n \in Nat, BatchTaken
      <3>5. QED
        BY <3>4
    <2>14. PICK kept : kept = optimizer.seen \cup optimizer.lost
      OBVIOUS
    <2>15. optimizer.seen \subseteq optimizer.seen /\ (study.exists => study.exists) /\ optimizer.seen \subseteq kept
      BY <2>14
    <2>16. new \in CallsOf(F) /\ GoodCall(new, F, scene, study, optimizer.seen) /\ Progress(call, new, kept)
      BY ONLY <2>4, <2>5, <2>8, <2>12, <2>15, PassedOne
    <2>17. Has(call.rest, "ask") => Has(call.rest, "outputs")
      BY <2>5 DEF ActiveCall, Remains
    <2>18. Len(call.rest) # 1
      BY <2>5, <2>9, <2>17 DEF Has
    <2>19. new.rest # <<>> /\ new.taken = optimizer.batches + 1
      <3>1. mid.rest # <<>> /\ Len(mid.rest) # 1
        BY <2>5, <2>8, <2>18
      <3>2. new.rest # <<>> /\ new.taken = mid.taken
        BY ONLY <2>4, <2>8, <3>1, NextOf
      <3>3. QED
        BY <2>8, <3>2
    <2>20. calls' = [calls EXCEPT ![c] = new] /\ Progress(calls[c], new, kept)
      BY <1>3, <2>2, <2>3, <2>4, <2>16
    <2>21. GoodCalls(calls, F, scene, study, optimizer.seen)
      BY <2>1 DEF CallsInv
    <2>22. StepOf(c, F, calls, calls', scene, study, optimizer.seen, kept)
      BY ONLY <2>15, <2>16, <2>20, <2>21, c \in Callers, OneMoves
    <2>23. AskStepped(c)
      BY <1>1, <2>1, <2>13, <2>14, <2>22 DEF AskStepped, Stepped
    <2>24. calls'[c] = new
      BY <2>20 DEF CallsInv, GoodCalls
    <2>25. QED
      BY <1>3, <2>2, <2>6, <2>19, <2>23, <2>24
  <1>4. QED
    BY <1>2, <1>3 DEF Ask

LEMMA TellStep ==
  ASSUME StateType, CallsInv, NEW c \in Callers, Tell(c)
  PROVE  \/ Ordinary(c, calls', scene', study', optimizer') /\ optimizer'.handle = optimizer.handle
         \/ /\ AskStepped(c) /\ Accepted(calls[c].argument.batch)
            /\ calls[c].argument.batch \in 0..MaxBatches
            /\ optimizer' = Told(calls[c].argument.batch)
  <1>1. At(c, "tell") /\ "tell" \in Handling /\ scene' = scene /\ study' = study
    BY DEF Tell, Handling
  <1>2. CASE Refused(c)
    BY <1>1, <1>2, RefusedHandle
  <1>3. CASE Accepted(calls[c].argument.batch) /\ optimizer' = Told(calls[c].argument.batch) /\ GoOn(c)
    <2>1. Stepped(c, calls', scene, study, optimizer)
      BY <1>1, <1>3, PlainMove
    <2>2. calls[c].argument \in Arguments
      BY DEF CallsInv, GoodCalls, CallsOf
    <2>3. PICK b \in 0..MaxBatches : b = calls[c].argument.batch
      BY <2>2 DEF Arguments
    <2>4. optimizer' = [optimizer EXCEPT !.pending = 0, !.evaluated[b] = @ + 1]
      BY <1>3, <2>3 DEF Told
    <2>5. b # 0
      BY <1>3, <2>3 DEF Accepted
    <2>6. b \in 1..MaxBatches
      BY <2>3, <2>5, NativeAssumption
    <2>7. /\ optimizer'.seen = optimizer.seen /\ optimizer'.lost = optimizer.lost
          /\ optimizer' \in OptimizerType /\ optimizer'.handle = optimizer.handle
      <3>1. optimizer \in OptimizerType
        BY DEF StateType
      <3>2. PICK before : before = optimizer.evaluated
        OBVIOUS
      <3>3. before \in [1..MaxBatches -> Nat]
        BY <3>1, <3>2 DEF OptimizerType
      <3>4. PICK evaluated : evaluated = [before EXCEPT ![b] = before[b] + 1]
        OBVIOUS
      <3>5. evaluated \in [1..MaxBatches -> Nat]
        BY ONLY <2>6, <3>3, <3>4
      <3>6. optimizer' = Returned(optimizer, evaluated)
        BY ONLY <2>4, <3>2, <3>4 DEF Returned
      <3>7. /\ optimizer' \in OptimizerType /\ optimizer'.seen = optimizer.seen
            /\ optimizer'.lost = optimizer.lost /\ optimizer'.handle = optimizer.handle
            /\ optimizer'.pending = 0 /\ optimizer'.batches = optimizer.batches
            /\ optimizer'.evaluated = evaluated
        BY ONLY <3>1, <3>5, <3>6, BatchReturned
      <3>8. QED
        BY <3>7
    <2>8. QED
      BY <1>1, <1>3, <2>1, <2>3, <2>7 DEF AskStepped, Stepped
  <1>4. QED
    BY <1>2, <1>3 DEF Tell

\* The steps that work on the study directory.
LEMMA Size == /\ \A s : ResumeSize(s) \in Nat
              /\ \A b \in Nat : BatchSize(b) \in Nat
  BY DEF ResumeSize, BatchSize

LEMMA DiskFailsStep ==
  ASSUME StateType, CallsInv, NEW c \in Callers, DiskFails(c)
  PROVE  Ordinary(c, calls', scene', study', optimizer') /\ optimizer'.handle = optimizer.handle
  <1>1. PICK step \in {"open", "create", "begin", "commit"} : At(c, step)
    BY DEF DiskFails
  <1>2. /\ calls[c].rest # <<>> /\ 1 \in DOMAIN calls[c].rest /\ calls[c].rest[1] = step
    BY <1>1, AtStep
  <1>3. step \notin Reporting /\ EndAt(c, "disk") /\ scene' = scene /\ study' = study
    BY DEF DiskFails, Reporting
  <1>4. QED
    BY <1>2, <1>3, PlainEnds

\* The code of a function that looks at the study last.
LEMMA StudyAsked ==
  ASSUME StateType, CallsInv, NEW c \in Callers, NEW step \in Deciding \ {"scene"}, At(c, step),
         IsDecided(Tail(calls[c].rest)), NEW code, code = Families[family][calls[c].function]
  PROVE  /\ Has(code, step) /\ ~Has(code, "scene")
         /\ Has(code, "create") => step = "create"
         /\ Has(code, "begin") => step = "begin"
         /\ Has(code, "commit") => step = "commit"
         /\ Has(code, "open") => step = "open" \/ study.exists
  <1>1. Has(code, step)
    BY AtStep
  <1>2. \A d \in Deciding : Has(code, d) => d = step \/ (d = "open" /\ study.exists)
    BY AskedOnly
  <1>3. {"scene", "create", "begin", "commit", "open"} \subseteq Deciding
    BY DEF Deciding
  <1>4. QED
    BY <1>1, <1>2, <1>3

\* A call at a step that asks the study, and what its caller knows.
LEMMA StudyStep ==
  ASSUME StateType, CallsInv, NEW c \in Callers, NEW step \in Deciding \ {"scene"}, At(c, step)
  PROVE  /\ calls[c].rest # <<>> /\ 1 \in DOMAIN calls[c].rest /\ calls[c].rest[1] = step
         /\ Head(calls[c].rest) = step /\ step \in Steps /\ step \notin Reporting
         /\ calls[c].informed =>
              /\ step = "open" => study.exists
              /\ step = "create" => study.exists /\ study.manifest = calls[c].argument.version
              /\ step = "begin" => study.active # 0
              /\ step = "commit" => study.done[calls[c].argument.batch] = calls[c].argument.version
  <1>1. /\ calls[c].rest # <<>> /\ 1 \in DOMAIN calls[c].rest /\ calls[c].rest[1] = step
        /\ Head(calls[c].rest) = step /\ step \in Steps
        /\ Has(Families[family][calls[c].function], step)
    BY AtStep
  <1>2. step \notin Reporting
    BY DEF Deciding, Reporting
  <1>3. ASSUME calls[c].informed
        PROVE  Answerable(Families[family][calls[c].function], calls[c].argument, scene, study)
    BY <1>1, <1>3, InformedCall
  <1>4. QED
    BY <1>1, <1>2, <1>3 DEF Answerable

LEMMA OpenStudyStep ==
  ASSUME StateType, CallsInv, NEW c \in Callers, OpenStudy(c)
  PROVE  Ordinary(c, calls', scene', study', optimizer') /\ optimizer'.handle = optimizer.handle
  <1>1. At(c, "open") /\ "open" \in Deciding \ {"scene"} /\ scene' = scene /\ study' = study
    BY DEF OpenStudy, Deciding
  <1>2. /\ calls[c].rest # <<>> /\ 1 \in DOMAIN calls[c].rest /\ calls[c].rest[1] = "open"
        /\ Head(calls[c].rest) = "open" /\ "open" \in Steps /\ "open" \notin Reporting
        /\ calls[c].informed => study.exists
    BY <1>1, StudyStep
  <1>3. CASE ~study.exists /\ Refused(c)
    <2>1. EndAt(c, "open") /\ ~calls[c].informed
      BY <1>2, <1>3 DEF Refused
    <2>2. QED
      BY <1>1, <1>2, <2>1, PlainEnds
  <1>4. CASE study.exists /\ GoOnWith(c, ResumeSize(study)) /\ optimizer' = optimizer
    <2>1. PICK code : code = Families[family][calls[c].function]
      OBVIOUS
    <2>2. ASSUME IsDecided(Tail(calls[c].rest))
          PROVE  /\ Answerable(code, calls[c].argument, scene, study)
                 /\ ResumeSize(study) = Needed(code, scene, study)
      <3>1. /\ Has(code, "open") /\ ~Has(code, "scene") /\ ~Has(code, "create")
            /\ ~Has(code, "begin") /\ ~Has(code, "commit")
        BY <1>1, <2>1, <2>2, StudyAsked
      <3>2. QED
        BY <1>4, <3>1 DEF Answerable, Needed
    <2>3. Answered(calls[c], Families[family], scene, study, ResumeSize(study))
      BY <2>1, <2>2 DEF Answered
    <2>4. PICK required \in Nat : required = ResumeSize(study)
      BY Size
    <2>5. Stepped(c, calls', scene, study, optimizer)
      BY <1>1, <1>2, <1>4, <2>3, <2>4, Looks
    <2>6. QED
      BY <1>1, <1>4, <2>5, PlainStep
  <1>5. QED
    BY <1>3, <1>4 DEF OpenStudy

\* The study once it is changed.
LEMMA StudyChanged ==
  ASSUME StateType, CallsInv, NEW c \in Callers, NEW step \in Deciding \ {"open"}, At(c, step), ~calls[c].informed,
         NEW st2 \in StudyType, study.exists => st2.exists, study' = st2, scene' = scene,
         optimizer' = optimizer,
         NEW required \in Nat, Answered(calls[c], Families[family], scene, st2, required),
         GoOnChanging(c, required)
  PROVE  Ordinary(c, calls', scene', study', optimizer') /\ optimizer'.handle = optimizer.handle
  <1>1. calls[c].rest # <<>> /\ Head(calls[c].rest) = step
    BY AtStep
  <1>2. Stepped(c, calls', scene, st2, optimizer)
    BY <1>1, Changes
  <1>3. QED
    BY <1>2 DEF Ordinary, SameBatches, StateType

LEMMA CreateStudyStep ==
  ASSUME StateType, CallsInv, NEW c \in Callers, CreateStudy(c)
  PROVE  Ordinary(c, calls', scene', study', optimizer') /\ optimizer'.handle = optimizer.handle
  <1>1. At(c, "create") /\ "create" \in Deciding \ {"scene", "open"} /\ scene' = scene
    BY DEF CreateStudy, Deciding
  <1>2. /\ calls[c].rest # <<>> /\ 1 \in DOMAIN calls[c].rest /\ calls[c].rest[1] = "create"
        /\ Head(calls[c].rest) = "create" /\ "create" \in Steps /\ "create" \notin Reporting
        /\ calls[c].informed => study.exists /\ study.manifest = calls[c].argument.version
    BY <1>1, StudyStep
  <1>3. PICK manifest : manifest = calls[c].argument.version
    OBVIOUS
  <1>4. PICK code : code = Families[family][calls[c].function]
    OBVIOUS
  <1>5. ASSUME NEW st2, st2.exists, st2.manifest = manifest
        PROVE  Answered(calls[c], Families[family], scene, st2, ResumeSize(st2))
    <2>1. ASSUME IsDecided(Tail(calls[c].rest))
          PROVE  /\ Answerable(code, calls[c].argument, scene, st2)
                 /\ ResumeSize(st2) = Needed(code, scene, st2)
      <3>1. Has(code, "create") /\ ~Has(code, "scene") /\ ~Has(code, "begin") /\ ~Has(code, "commit")
        BY <1>1, <1>4, <2>1, StudyAsked
      <3>2. QED
        BY <1>3, <1>5, <3>1 DEF Answerable, Needed
    <2>2. QED
      BY <1>4, <2>1 DEF Answered
  <1>6. CASE ~study.exists
    <2>1. PICK st2 : st2 = [study EXCEPT !.exists = TRUE, !.manifest = manifest]
      OBVIOUS
    <2>2. study' = st2 /\ GoOnChanging(c, ResumeSize(st2)) /\ optimizer' = optimizer
      BY <1>3, <1>6, <2>1 DEF CreateStudy
    <2>3. manifest \in {"one", "other"}
      BY <1>3 DEF CallsInv, GoodCalls, CallsOf, Arguments
    <2>4. st2 \in StudyType /\ st2.exists /\ st2.manifest = manifest
      <3>1. study \in StudyType
        BY DEF StateType
      <3>2. QED
        BY ONLY <2>1, <2>3, <3>1 DEF StudyType
    <2>5. ~calls[c].informed
      BY <1>2, <1>6
    <2>6. PICK required \in Nat : required = ResumeSize(st2)
      BY Size
    <2>7. QED
      BY <1>1, <1>5, <2>2, <2>4, <2>5, <2>6, StudyChanged
  <1>7. CASE study.exists /\ study.manifest = manifest
    <2>1. GoOnWith(c, ResumeSize(study)) /\ optimizer' = optimizer /\ study' = study
      BY <1>3, <1>7 DEF CreateStudy
    <2>2. PICK required \in Nat : required = ResumeSize(study)
      BY Size
    <2>3. Stepped(c, calls', scene, study, optimizer)
      BY <1>1, <1>2, <1>5, <1>7, <2>1, <2>2, Looks
    <2>4. QED
      BY <1>1, <2>1, <2>3, PlainStep
  <1>8. CASE study.exists /\ study.manifest # manifest
    <2>1. EndAt(c, "create") /\ ~calls[c].informed /\ study' = study
      BY <1>2, <1>3, <1>8 DEF CreateStudy, Refused
    <2>2. QED
      BY <1>1, <1>2, <2>1, PlainEnds
  <1>9. QED
    BY <1>6, <1>7, <1>8

LEMMA BeginBatchStep ==
  ASSUME StateType, CallsInv, NEW c \in Callers, BeginBatch(c)
  PROVE  Ordinary(c, calls', scene', study', optimizer') /\ optimizer'.handle = optimizer.handle
  <1>1. /\ At(c, "begin") /\ "begin" \in Deciding \ {"scene", "open"}
        /\ scene' = scene /\ optimizer' = optimizer
    BY DEF BeginBatch, Deciding
  <1>2. /\ calls[c].rest # <<>> /\ Head(calls[c].rest) = "begin"
        /\ calls[c].informed => study.active # 0
    BY <1>1, StudyStep
  <1>3. PICK code : code = Families[family][calls[c].function]
    OBVIOUS
  <1>4. ASSUME NEW st2, st2.active # 0, st2.exists = study.exists
        PROVE  Answered(calls[c], Families[family], scene, st2, BatchSize(st2.active))
    <2>1. ASSUME IsDecided(Tail(calls[c].rest))
          PROVE  /\ Answerable(code, calls[c].argument, scene, st2)
                 /\ BatchSize(st2.active) = Needed(code, scene, st2)
      <3>1. /\ Has(code, "begin") /\ ~Has(code, "scene") /\ ~Has(code, "create") /\ ~Has(code, "commit")
            /\ Has(code, "open") => study.exists
        BY <1>1, <1>3, <2>1, StudyAsked
      <3>2. QED
        BY <1>4, <3>1 DEF Answerable, Needed
    <2>2. QED
      BY <1>3, <2>1 DEF Answered
  <1>5. study \in StudyType /\ study.active \in Nat /\ study.batches \in Nat
    BY DEF StateType, StudyType
  <1>6. CASE study.active # 0
    <2>1. GoOnWith(c, BatchSize(study.active)) /\ study' = study
      BY <1>6 DEF BeginBatch
    <2>2. PICK required \in Nat : required = BatchSize(study.active)
      BY <1>5, Size
    <2>3. Answered(calls[c], Families[family], scene, study, required)
      BY <1>4, <1>6, <2>2
    <2>4. Stepped(c, calls', scene, study, optimizer)
      BY <1>1, <1>2, <2>1, <2>2, <2>3, Looks
    <2>5. QED
      BY <1>1, <2>1, <2>4, PlainStep
  <1>7. CASE study.active = 0
    <2>1. PICK n \in Nat : n = study.batches + 1
      BY <1>5
    <2>2. PICK st2 : st2 = [study EXCEPT !.active = n, !.batches = n]
      OBVIOUS
    <2>3. st2 \in StudyType /\ st2.active = n /\ st2.exists = study.exists
      BY ONLY <1>5, <2>1, <2>2 DEF StudyType
    <2>4. study' = st2 /\ GoOnChanging(c, BatchSize(n))
      BY <1>7, <2>1, <2>2 DEF BeginBatch
    <2>5. PICK required \in Nat : required = BatchSize(n)
      BY <2>1, Size
    <2>6. n # 0 /\ ~calls[c].informed
      BY <1>2, <1>5, <1>7, <2>1
    <2>7. Answered(calls[c], Families[family], scene, st2, required)
      BY <1>4, <2>3, <2>5, <2>6
    <2>8. QED
      BY <1>1, <2>3, <2>4, <2>5, <2>6, <2>7, StudyChanged
  <1>8. QED
    BY <1>6, <1>7

LEMMA CommitBatchStep ==
  ASSUME StateType, CallsInv, NEW c \in Callers, CommitBatch(c)
  PROVE  Ordinary(c, calls', scene', study', optimizer') /\ optimizer'.handle = optimizer.handle
  <1>1. At(c, "commit") /\ "commit" \in Deciding \ {"scene", "open"} /\ scene' = scene
    BY DEF CommitBatch, Deciding
  <1>2. PICK batch : batch = calls[c].argument.batch
    OBVIOUS
  <1>3. PICK evaluations : evaluations = calls[c].argument.version
    OBVIOUS
  <1>4. /\ calls[c].rest # <<>> /\ 1 \in DOMAIN calls[c].rest /\ calls[c].rest[1] = "commit"
        /\ Head(calls[c].rest) = "commit" /\ "commit" \in Steps /\ "commit" \notin Reporting
        /\ calls[c].informed => study.done[batch] = evaluations
    BY <1>1, <1>2, <1>3, StudyStep
  <1>5. PICK code : code = Families[family][calls[c].function]
    OBVIOUS
  <1>6. ASSUME NEW st2, st2.done[batch] = evaluations, st2.exists = study.exists
        PROVE  Answered(calls[c], Families[family], scene, st2, ResumeSize(st2))
    <2>1. ASSUME IsDecided(Tail(calls[c].rest))
          PROVE  /\ Answerable(code, calls[c].argument, scene, st2)
                 /\ ResumeSize(st2) = Needed(code, scene, st2)
      <3>1. /\ Has(code, "commit") /\ ~Has(code, "scene") /\ ~Has(code, "create") /\ ~Has(code, "begin")
            /\ Has(code, "open") => study.exists
        BY <1>1, <1>5, <2>1, StudyAsked
      <3>2. QED
        BY <1>2, <1>3, <1>6, <3>1 DEF Answerable, Needed
    <2>2. QED
      BY <1>5, <2>1 DEF Answered
  <1>7. \/ Repeated(batch, evaluations) /\ GoOnWith(c, ResumeSize(study)) /\ UNCHANGED <<study, optimizer>>
        \/ /\ ~Repeated(batch, evaluations)
           /\ study' = [study EXCEPT !.active = 0, !.done[batch] = evaluations]
           /\ GoOnChanging(c, ResumeSize([study EXCEPT !.active = 0, !.done[batch] = evaluations]))
           /\ UNCHANGED optimizer
        \/ ~Repeated(batch, evaluations) /\ Refused(c) /\ UNCHANGED study
    BY <1>2, <1>3, Zenon DEF CommitBatch
  <1>8. CASE Repeated(batch, evaluations) /\ GoOnWith(c, ResumeSize(study)) /\ UNCHANGED <<study, optimizer>>
    <2>1. PICK required \in Nat : required = ResumeSize(study)
      BY Size
    <2>2. Answered(calls[c], Families[family], scene, study, required)
      BY <1>6, <1>8, <2>1 DEF Repeated
    <2>3. Stepped(c, calls', scene, study, optimizer)
      BY <1>1, <1>4, <1>8, <2>1, <2>2, Looks
    <2>4. QED
      BY <1>1, <1>8, <2>3, PlainStep
  <1>9. CASE /\ ~Repeated(batch, evaluations)
             /\ study' = [study EXCEPT !.active = 0, !.done[batch] = evaluations]
             /\ GoOnChanging(c, ResumeSize([study EXCEPT !.active = 0, !.done[batch] = evaluations]))
             /\ UNCHANGED optimizer
    <2>1. PICK st2 : st2 = [study EXCEPT !.active = 0, !.done[batch] = evaluations]
      OBVIOUS
    <2>2. batch \in 1..MaxBatches /\ evaluations \in {"one", "other"}
      <3>1. PICK F : F = Families[family]
        OBVIOUS
      <3>2. PICK call : call = calls[c]
        OBVIOUS
      <3>3. /\ call \in CallsOf(F) /\ ActiveCall(call, F, scene, study, optimizer.seen)
            /\ Regular(F[call.function], call.function) /\ Has(F[call.function], "commit")
        <4>1. /\ Regular(Families[family][calls[c].function], calls[c].function)
              /\ Has(Families[family][calls[c].function], "commit")
          BY <1>1, AtStep
        <4>2. call \in CallsOf(F) /\ ActiveCall(call, F, scene, study, optimizer.seen)
          BY <1>4, <3>1, <3>2, RunningCall
        <4>3. QED
          BY <3>1, <3>2, <4>1, <4>2
      <3>4. call.function = "xv_study_workspace_commit_batch" /\ Committing(call)
        BY <3>3 DEF Regular, Only, ActiveCall
      <3>5. QED
        BY <1>2, <1>3, <3>2, <3>3, <3>4 DEF Committing, CallsOf, Arguments
    <2>3. st2 \in StudyType /\ st2.done[batch] = evaluations /\ st2.exists = study.exists
      <3>1. study \in StudyType
        BY DEF StateType
      <3>2. QED
        BY ONLY <2>1, <2>2, <3>1 DEF StudyType
    <2>4. ~calls[c].informed
      BY <1>4, <1>9 DEF Repeated
    <2>5. PICK required \in Nat : required = ResumeSize(st2)
      BY Size
    <2>6. Answered(calls[c], Families[family], scene, st2, required)
      BY <1>6, <2>3, <2>5
    <2>7. study' = st2 /\ GoOnChanging(c, required)
      BY <1>9, <2>1, <2>5
    <2>8. QED
      BY <1>1, <1>9, <2>3, <2>4, <2>5, <2>6, <2>7, StudyChanged
  <1>10. CASE ~Repeated(batch, evaluations) /\ Refused(c) /\ UNCHANGED study
    <2>1. EndAt(c, "commit") /\ ~calls[c].informed
      BY <1>4, <1>10 DEF Refused, Repeated
    <2>2. QED
      BY <1>1, <1>4, <1>10, <2>1, PlainEnds
  <1>11. QED
    BY <1>7, <1>8, <1>9, <1>10

\* The call writes to the buffers of its caller.
LEMMA Writes ==
  ASSUME StateType, CallsInv, NEW c \in Callers, NEW what \in Reporting \cup {SizingRecord(calls[c].function)}, At(c, what),
         Write(c, what), NEW seen2, optimizer.seen \subseteq seen2,
         what = "outputs" /\ calls[c].taken # 0 => calls[c].taken \in seen2
  PROVE  StepOf(c, Families[family], calls, calls', scene, study, seen2, seen2 \cup optimizer.lost)
  <1>1. PICK F : F = Families[family]
    OBVIOUS
  <1>2. PICK call : call = calls[c]
    OBVIOUS
  <1>3. PICK mid : mid = [call EXCEPT !.wrote = call.wrote \cup {what}]
    OBVIOUS
  <1>4. PICK new : new = Advanced(mid)
    OBVIOUS
  <1>5. calls[c].rest # <<>> /\ 1 \in DOMAIN calls[c].rest /\ calls[c].rest[1] = what /\ what \in Steps
    BY AtStep
  <1>6. /\ call \in CallsOf(F) /\ ActiveCall(call, F, scene, study, optimizer.seen)
        /\ call.rest # <<>> /\ 1 \in DOMAIN call.rest /\ call.rest[1] = what
    BY <1>1, <1>2, <1>5, RunningCall
  <1>7. /\ mid \in CallsOf(F) /\ mid.rest = call.rest /\ mid.function = call.function
        /\ mid.argument = call.argument /\ mid.at = call.at /\ mid.wrote = call.wrote \cup {what}
        /\ mid.taken = call.taken /\ mid.informed = call.informed /\ mid.capacity = call.capacity
        /\ mid.required = call.required /\ mid.current = call.current
    BY ONLY <1>3, <1>5, <1>6 DEF CallsOf
  <1>8. call.rest \in Seq(Steps) /\ Len(call.rest) >= 1
    <2>1. call.rest \in Seq(Steps)
      BY <1>6 DEF CallsOf
    <2>2. QED
      BY <1>6, <2>1, NotEmpty
  <1>9. what \notin Deciding
    BY DEF Reporting, SizingRecord, Deciding
  <1>10. ASSUME IsDecided(Tail(call.rest)) PROVE Knows(mid, F[call.function], scene, study)
    <2>1. \A j \in DOMAIN call.rest :
            j # 1 => j - 1 \in DOMAIN Tail(call.rest) /\ Tail(call.rest)[j - 1] = call.rest[j]
      BY <1>8
    <2>2. IsDecided(call.rest)
      BY <1>6, <1>9, <1>10, <2>1 DEF IsDecided
    <2>3. Knows(call, F[call.function], scene, study)
      BY <1>6, <2>2 DEF ActiveCall
    <2>4. QED
      BY ONLY <2>3, <1>7 DEF Knows
  <1>11. Informed(mid, F[call.function], scene, study)
    <2>1. Informed(call, F[call.function], scene, study)
      BY <1>6 DEF ActiveCall
    <2>2. QED
      BY ONLY <2>1, <1>7 DEF Informed
  <1>12. what # "open"
    BY DEF Reporting, SizingRecord
  <1>13. what = "outputs" /\ call.taken # 0 => call.taken \in seen2
    BY <1>2
  <1>14. Learns(call, mid, call.rest[1], Tail(call.rest), F, scene, study, seen2)
    <2>1. what \in Reporting \cup {SizingRecord(call.function)}
      BY <1>2
    <2>2. QED
      BY ONLY <1>6, <1>7, <1>10, <1>11, <1>12, <1>13, <2>1 DEF Learns
  <1>15. PICK kept : kept = seen2 \cup optimizer.lost
    OBVIOUS
  <1>16. seen2 \subseteq kept /\ (study.exists => study.exists)
    BY <1>15
  <1>17. new \in CallsOf(F) /\ GoodCall(new, F, scene, study, seen2) /\ Progress(call, new, kept)
    <2>1. /\ call \in CallsOf(F) /\ ActiveCall(call, F, scene, study, optimizer.seen) /\ call.rest # <<>>
          /\ mid \in CallsOf(F) /\ mid.rest = call.rest
      BY <1>6, <1>7
    <2>2. new \in CallsOf(F)
      <3>1. mid.rest # <<>>
        BY <2>1
      <3>2. CASE Len(mid.rest) # 1
        BY ONLY <2>1, <3>1, <3>2, <1>4, NextOf
      <3>3. CASE Len(mid.rest) = 1
        <4>1. IsLast(F, mid, new)
          BY ONLY <2>1, <3>3, <1>4, LastOf
        <4>2. QED
          BY ONLY <4>1 DEF IsLast
      <3>4. QED
        BY <3>2, <3>3
    <2>3. GoodCall(new, F, scene, study, seen2)
      BY ONLY <2>1, <1>4, <1>14, <1>16, optimizer.seen \subseteq seen2, PassedOne
    <2>4. Progress(call, new, kept)
      BY ONLY <2>1, <1>4, <1>14, <1>16, optimizer.seen \subseteq seen2, PassedOne
    <2>5. QED
      BY <2>2, <2>3, <2>4
  <1>18. calls' = [calls EXCEPT ![c] = new] /\ Progress(calls[c], new, kept)
    BY <1>2, <1>3, <1>4, <1>17 DEF Write
  <1>19. GoodCalls(calls, F, scene, study, optimizer.seen)
    BY <1>1 DEF CallsInv
  <1>20. StepOf(c, F, calls, calls', scene, study, seen2, kept)
    BY ONLY <1>17, <1>18, <1>19, c \in Callers, optimizer.seen \subseteq seen2, OneMoves
  <1>21. QED
    BY <1>1, <1>15, <1>20

LEMMA WriteSizeStep ==
  ASSUME StateType, CallsInv, NEW c \in Callers, WriteSize(c)
  PROVE  Ordinary(c, calls', scene', study', optimizer') /\ optimizer'.handle = optimizer.handle
  <1>1. At(c, "size") /\ Write(c, "size") /\ scene' = scene /\ study' = study /\ optimizer' = optimizer
    BY DEF WriteSize
  <1>2. "size" = SizingRecord(calls[c].function)
    <2>1. /\ Has(Families[family][calls[c].function], "size")
          /\ Regular(Families[family][calls[c].function], calls[c].function)
      BY <1>1, AtStep
    <2>2. QED
      BY <2>1 DEF Regular, Only, SizingRecord
  <1>3. Stepped(c, calls', scene, study, optimizer)
    BY <1>1, <1>2, Writes DEF Stepped
  <1>4. QED
    BY <1>1, <1>3, PlainStep

LEMMA SizingStep ==
  ASSUME StateType, CallsInv, NEW c \in Callers, Sizing(c)
  PROVE  Ordinary(c, calls', scene', study', optimizer') /\ optimizer'.handle = optimizer.handle
  <1>1. /\ At(c, "sizing") /\ scene' = scene /\ study' = study /\ optimizer' = optimizer
        /\ "sizing" \in Handling \cup Sizes
    BY DEF Sizing, Sizes
  <1>2. CASE GoOn(c)
    <2>1. Stepped(c, calls', scene, study, optimizer)
      BY <1>1, <1>2, PlainMove
    <2>2. QED
      BY <1>1, <2>1, PlainStep
  <1>3. CASE calls' = [calls EXCEPT ![c] = [Over(@) EXCEPT !.informed = FALSE]]
    <2>1. PICK F : F = Families[family]
      OBVIOUS
    <2>2. PICK call : call = calls[c]
      OBVIOUS
    <2>3. PICK new : new = [Over(call) EXCEPT !.informed = FALSE]
      OBVIOUS
    <2>4. /\ calls[c].rest # <<>> /\ 1 \in DOMAIN calls[c].rest /\ calls[c].rest[1] = "sizing"
          /\ Has(Families[family][calls[c].function], "sizing")
          /\ Regular(Families[family][calls[c].function], calls[c].function)
      BY <1>1, AtStep
    <2>5. /\ call \in CallsOf(F) /\ ActiveCall(call, F, scene, study, optimizer.seen)
          /\ call.rest # <<>> /\ 1 \in DOMAIN call.rest /\ call.rest[1] \notin Reporting
      BY <2>1, <2>2, <2>4, RunningCall DEF Reporting
    <2>6. new \in CallsOf(F) /\ new.rest = <<>> /\ GoodCall(new, F, scene, study, optimizer.seen)
      BY ONLY <2>3, <2>5, EndedQuietly
    <2>7. call.function # "xv_optimizer_ask"
      BY <2>2, <2>4 DEF Regular, Only
    <2>8. call.taken = 0
      BY <2>5, <2>7 DEF ActiveCall, Taking
    <2>9. PICK kept : kept = optimizer.seen \cup optimizer.lost
      OBVIOUS
    <2>10. Progress(calls[c], new, kept)
      BY ONLY <2>2, <2>5, <2>6, <2>8 DEF Progress
    <2>11. calls' = [calls EXCEPT ![c] = new]
      BY <1>3, <2>2, <2>3
    <2>12. GoodCalls(calls, F, scene, study, optimizer.seen) /\ optimizer.seen \subseteq optimizer.seen
      BY <2>1 DEF CallsInv
    <2>13. StepOf(c, F, calls, calls', scene, study, optimizer.seen, kept)
      BY ONLY <2>6, <2>10, <2>11, <2>12, c \in Callers, OneMoves
    <2>14. Stepped(c, calls', scene, study, optimizer)
      BY <2>1, <2>9, <2>13 DEF Stepped
    <2>15. QED
      BY <1>1, <2>14, PlainStep
  <1>4. QED
    BY <1>2, <1>3 DEF Sizing

LEMMA FitsStep ==
  ASSUME StateType, CallsInv, NEW c \in Callers, Fits(c)
  PROVE  Ordinary(c, calls', scene', study', optimizer') /\ optimizer'.handle = optimizer.handle
  <1>1. At(c, "fits") /\ scene' = scene /\ study' = study /\ "fits" \in Handling \cup Sizes
    BY DEF Fits, Sizes
  <1>2. CASE GoOn(c) /\ optimizer' = optimizer
    <2>1. Stepped(c, calls', scene, study, optimizer)
      BY <1>1, <1>2, PlainMove
    <2>2. QED
      BY <1>1, <1>2, <2>1, PlainStep
  <1>3. CASE calls[c].capacity < calls[c].required /\ Refused(c)
    <2>1. /\ calls[c].rest # <<>> /\ 1 \in DOMAIN calls[c].rest /\ calls[c].rest[1] = "fits"
          /\ Head(calls[c].rest) = "fits" /\ "fits" \in Steps
      BY <1>1, AtStep
    <2>2. ~calls[c].informed
      <3>1. SUFFICES ASSUME calls[c].informed PROVE FALSE
        OBVIOUS
      <3>2. PICK code : code = Families[family][calls[c].function]
        OBVIOUS
      <3>3. calls[c].capacity >= Needed(code, scene, study) /\ calls[c].current
        BY <2>1, <3>1, <3>2, InformedCall
      <3>4. /\ calls[c] \in CallsOf(Families[family])
            /\ ActiveCall(calls[c], Families[family], scene, study, optimizer.seen)
        BY <2>1, RunningCall
      <3>5. calls[c].rest \in Seq(Steps) /\ Orderly(calls[c].rest, calls[c].function)
        BY <3>4 DEF CallsOf, ActiveCall, Remains
      <3>6. IsDecided(calls[c].rest)
        <4> SUFFICES ASSUME NEW j \in DOMAIN calls[c].rest PROVE calls[c].rest[j] \notin Deciding
          BY DEF IsDecided
        <4>1. CASE j = 1
          BY <2>1, <4>1 DEF Deciding
        <4>2. CASE j # 1
          <5>1. 1 < j
            BY <3>5, <4>2
          <5>2. Follows("fits", calls[c].rest[j], calls[c].function)
            BY <2>1, <3>5, <5>1 DEF Orderly
          <5>3. QED
            BY <5>2 DEF Follows, Sizes
        <4>3. QED
          BY <4>1, <4>2
      <3>7. Knows(calls[c], code, scene, study)
        BY <3>2, <3>4, <3>6 DEF ActiveCall
      <3>8. calls[c].required = Needed(code, scene, study)
        BY <3>3, <3>7 DEF Knows
      <3>9. calls[c].capacity \in Int /\ calls[c].required \in Int
        <4>1. calls[c].capacity \in 0..MaxCapacity /\ calls[c].required \in Nat
          BY <3>4 DEF CallsOf
        <4>2. QED
          BY <4>1, NativeAssumption
      <3>10. QED
        BY <1>3, <3>3, <3>8, <3>9
    <2>3. EndAt(c, "fits") /\ "fits" \notin Reporting
      BY <1>3, <2>1 DEF Refused, Reporting
    <2>4. QED
      BY <1>1, <2>1, <2>2, <2>3, PlainEnds
  <1>4. QED
    BY <1>2, <1>3 DEF Fits

LEMMA WriteOutputsStep ==
  ASSUME StateType, CallsInv, NEW c \in Callers, WriteOutputs(c)
  PROVE  Ordinary(c, calls', scene', study', optimizer') /\ optimizer'.handle = optimizer.handle
  <1>1. /\ At(c, "outputs") /\ Write(c, "outputs") /\ scene' = scene /\ study' = study
        /\ "outputs" \in Reporting
    BY DEF WriteOutputs, Reporting
  <1>2. calls[c].taken \in Nat
    BY DEF CallsInv, GoodCalls, CallsOf
  <1>3. PICK seen2 : seen2 = optimizer.seen \cup ({calls[c].taken} \ {0})
    OBVIOUS
  <1>4. optimizer \in OptimizerType /\ optimizer.seen \subseteq Nat
    BY DEF StateType, OptimizerType
  <1>5. seen2 \in SUBSET Nat /\ optimizer.seen \subseteq seen2
    BY <1>2, <1>3, <1>4
  <1>6. optimizer' = [optimizer EXCEPT !.seen = seen2]
    BY <1>3 DEF WriteOutputs
  <1>7. /\ optimizer' \in OptimizerType /\ optimizer'.seen = seen2 /\ optimizer'.lost = optimizer.lost
        /\ optimizer'.handle = optimizer.handle /\ optimizer'.pending = optimizer.pending
        /\ optimizer'.batches = optimizer.batches /\ optimizer'.evaluated = optimizer.evaluated
    BY ONLY <1>4, <1>5, <1>6 DEF OptimizerType
  <1>8. "outputs" = "outputs" /\ calls[c].taken # 0 => calls[c].taken \in seen2
    BY <1>3
  <1>9. StepOf(c, Families[family], calls, calls', scene, study, seen2, seen2 \cup optimizer.lost)
    BY <1>1, <1>5, <1>8, Writes
  <1>10. SameBatches(optimizer, optimizer')
    BY ONLY <1>5, <1>7 DEF SameBatches
  <1>11. Stepped(c, calls', scene, study, optimizer')
    BY <1>7, <1>9 DEF Stepped
  <1>12. QED
    BY <1>1, <1>7, <1>10, <1>11 DEF Ordinary, StateType

LEMMA WriteMetadataStep ==
  ASSUME StateType, CallsInv, NEW c \in Callers, WriteMetadata(c)
  PROVE  /\ Ordinary(c, calls', scene', study', optimizer') /\ optimizer'.handle = optimizer.handle
         /\ calls[c].function = "xv_optimizer_create" => "optimizer" \in told'
         /\ calls[c].function \in {"xv_compute_create", "xv_compute_create_for_adapter"} => "session" \in told'
         /\ told \subseteq told'
  <1>1. /\ At(c, "metadata") /\ Write(c, "metadata")
        /\ scene' = scene /\ study' = study /\ optimizer' = optimizer
        /\ "metadata" \in Reporting
    BY DEF WriteMetadata, Reporting
  <1>2. Stepped(c, calls', scene, study, optimizer)
    BY <1>1, Writes DEF Stepped
  <1>3. Ordinary(c, calls', scene', study', optimizer') /\ optimizer'.handle = optimizer.handle
    BY <1>1, <1>2, PlainStep
  <1>4. calls[c].function = "xv_optimizer_create" => "optimizer" \in told'
    BY Zenon DEF WriteMetadata
  <1>5. calls[c].function \in {"xv_compute_create", "xv_compute_create_for_adapter"} => "session" \in told'
    BY Zenon DEF WriteMetadata
  <1>6. told \subseteq told'
    BY DEF WriteMetadata
  <1>7. QED
    BY <1>3, <1>4, <1>5, <1>6

LEMMA ArgumentGiven ==
  ASSUME NEW function, NEW argument \in ArgumentsOf(function)
  PROVE  /\ argument \in Arguments
         /\ function = "xv_study_workspace_commit_batch" => argument.batch \in 1..MaxBatches
  <1>1. /\ function = "xv_study_workspace_create" => ArgumentsOf(function) = {a \in Arguments : a.batch = 0}
        /\ function = "xv_study_workspace_commit_batch" =>
             ArgumentsOf(function) = {a \in Arguments : a.batch > 0}
        /\ function = "xv_optimizer_tell" =>
             ArgumentsOf(function) = {a \in Arguments : a.batch \in optimizer.seen /\ a.version = "one"}
        /\ function \notin {"xv_study_workspace_create", "xv_study_workspace_commit_batch",
                            "xv_optimizer_tell"} => ArgumentsOf(function) = {NoArgument}
    BY Zenon DEF ArgumentsOf
  <1>2. argument \in Arguments
    BY <1>1, NothingYet
  <1>3. ASSUME function = "xv_study_workspace_commit_batch" PROVE argument.batch \in 1..MaxBatches
    <2>1. argument \in {a \in Arguments : a.batch > 0}
      BY <1>1, <1>3
    <2>2. argument.batch \in 0..MaxBatches /\ argument.batch > 0
      BY <2>1 DEF Arguments
    <2>3. QED
      BY <2>2, NativeAssumption
  <1>4. QED
    BY <1>2, <1>3

LEMMA CallStep ==
  ASSUME StateType, CallsInv, NEW c \in Callers, NEW function \in DOMAIN Families[family], Call(c, function)
  PROVE  /\ GoodCalls(calls', Families[family], scene, study, optimizer.seen)
         /\ calls[c].rest = <<>> /\ calls'[c].function = function /\ calls'[c].taken = 0
         /\ \A d \in Callers \ {c} : calls'[d] = calls[d]
         /\ calls'[c].rest = Families[family][function]
  <1>1. PICK F : F = Families[family]
    OBVIOUS
  <1>2. PICK old : old = calls[c]
    OBVIOUS
  <1>3. PICK argument \in ArgumentsOf(function), capacity \in Capacities(function) :
          calls' = [calls EXCEPT ![c] =
             [Idle EXCEPT !.function = function, !.argument = argument, !.rest = Code(function),
                          !.capacity = capacity,
                          !.informed = /\ calls[c].current /\ Learned(calls[c])
                                       /\ calls[c].function = function
                                       /\ calls[c].argument = argument
                                       /\ capacity >= calls[c].required]]
    BY DEF Call
  <1>4. PICK informed : informed = (/\ old.current /\ Learned(old)
                                    /\ old.function = function /\ old.argument = argument
                                    /\ capacity >= old.required)
    OBVIOUS
  <1>5. PICK new : new = Fresh(function, argument, F[function], capacity, informed)
    OBVIOUS
  <1>6. calls' = [calls EXCEPT ![c] = new]
    BY <1>1, <1>2, <1>3, <1>4, <1>5 DEF Code, Fresh
  <1>7. old.rest = <<>> /\ old \in CallsOf(F) /\ GoodCall(old, F, scene, study, optimizer.seen)
    BY <1>1, <1>2 DEF Call, Running, CallsInv, GoodCalls
  <1>8. /\ argument \in Arguments
        /\ function = "xv_study_workspace_commit_batch" => argument.batch \in 1..MaxBatches
    BY ArgumentGiven
  <1>9. capacity \in 0..MaxCapacity
    BY NativeAssumption DEF Capacities
  <1>10. Table(F) /\ function \in DOMAIN F
    BY <1>1, RegularCodes DEF StateType
  <1>11. /\ informed \in BOOLEAN
         /\ informed => Recalls(old, function, argument, capacity)
    BY ONLY <1>4 DEF Recalls
  <1>12. /\ new \in CallsOf(F) /\ GoodCall(new, F, scene, study, optimizer.seen)
         /\ new.rest = F[function] /\ new.rest # <<>> /\ new.function = function /\ new.taken = 0
    BY ONLY <1>5, <1>7, <1>8, <1>9, <1>10, <1>11, StartedCall
  <1>13. /\ calls \in [Callers -> CallsOf(F)]
         /\ \A d \in Callers : GoodCall(calls[d], F, scene, study, optimizer.seen)
    BY <1>1 DEF CallsInv, GoodCalls
  <1>14. /\ calls'[c] = new /\ \A d \in Callers \ {c} : calls'[d] = calls[d]
         /\ calls' \in [Callers -> CallsOf(F)]
    BY <1>6, <1>12, <1>13
  <1>15. \A d \in Callers : GoodCall(calls'[d], F, scene, study, optimizer.seen)
    BY <1>12, <1>13, <1>14
  <1>16. QED
    BY <1>1, <1>2, <1>7, <1>12, <1>14, <1>15 DEF GoodCalls

LEMMA SceneMovesStep ==
  ASSUME StateType, CallsInv, SceneMoves
  PROVE  /\ GoodCalls(calls', Families[family], scene', study, optimizer.seen)
         /\ \A d \in Callers : Alike(calls[d], calls'[d])
         /\ scene' \in SceneType
  <1>1. ASSUME NEW d \in Callers
        PROVE  /\ calls'[d] \in CallsOf(Families[family])
               /\ GoodCall(calls'[d], Families[family], scene', study, optimizer.seen)
               /\ Alike(calls[d], calls'[d])
    <2>1. PICK F : F = Families[family]
      OBVIOUS
    <2>2. PICK call : call = calls[d]
      OBVIOUS
    <2>3. call \in CallsOf(F) /\ GoodCall(call, F, scene, study, optimizer.seen)
      BY <2>1, <2>2 DEF CallsInv, GoodCalls
    <2>4. optimizer.seen \subseteq optimizer.seen /\ (study.exists => study.exists)
      OBVIOUS
    <2>5. /\ Outdated(call) \in CallsOf(F) /\ GoodCall(Outdated(call), F, scene', study, optimizer.seen)
      BY ONLY <2>3, <2>4, OutdatedCall
    <2>6. /\ call.rest # <<>> => /\ Outdated(call).rest = call.rest
                                 /\ Outdated(call).function = call.function
                                 /\ Outdated(call).taken = call.taken
          /\ call.rest = <<>> => Outdated(call).rest = <<>>
      BY ONLY <2>3, <2>4, OutdatedCall
    <2>7. Alike(call, Outdated(call))
      BY <2>6 DEF Alike
    <2>8. calls'[d] = Outdated(call)
      BY <2>2 DEF SceneMoves
    <2>9. QED
      BY <2>1, <2>2, <2>5, <2>7, <2>8
  <1>2. calls' \in [Callers -> CallsOf(Families[family])]
    <2>1. calls' = [d \in Callers |-> Outdated(calls[d])]
      BY DEF SceneMoves
    <2>2. QED
      BY <1>1, <2>1
  <1>3. scene' \in SceneType
    BY DEF SceneMoves, SceneType
  <1>4. QED
    BY <1>1, <1>2, <1>3 DEF GoodCalls

-----------------------------------------------------------------------------
(* The invariant.                                                           *)

AskingOf(cs) ==
  {d \in Callers : cs[d].rest # <<>> /\ cs[d].function = "xv_optimizer_ask" /\ cs[d].taken = 0}
Budget(cs, o) ==
  /\ o.batches + Cardinality(AskingOf(cs)) <= MaxBatches
  /\ o.pending <= o.batches
  /\ \A b \in 1..MaxBatches : o.evaluated[b] <= 1
  /\ \A b \in 1..MaxBatches : b > o.batches \/ b = o.pending => o.evaluated[b] = 0
Held(cs, o) ==
  o.pending # 0 =>
    \/ o.pending \in o.seen \cup o.lost
    \/ \E c \in Callers : cs[c].rest # <<>> /\ cs[c].taken = o.pending
Telling(cs, c, creators) ==
  cs[c].rest # <<>> /\ Head(cs[c].rest) = "metadata" /\ cs[c].function \in creators
Known(cs, object, isTold, creators) ==
  object = "live" /\ ~isTold => \E c \in Callers : Telling(cs, c, creators)
OptimizerCreators == {"xv_optimizer_create"}
SessionCreators == {"xv_compute_create", "xv_compute_create_for_adapter"}
KnownInv ==
  /\ Known(calls, optimizer.handle, "optimizer" \in told, OptimizerCreators)
  /\ Known(calls, session, "session" \in told, SessionCreators)
NativeInv ==
  StateType /\ CallsInv /\ Budget(calls, optimizer) /\ Held(calls, optimizer) /\ KnownInv

LEMMA AskingKept ==
  ASSUME NEW c \in Callers, NEW cs2,
         \A d \in Callers \ {c} : Alike(calls[d], cs2[d]),
         NEW kept, Progress(calls[c], cs2[c], kept)
  PROVE  AskingOf(cs2) \subseteq AskingOf(calls)
  <1>1. /\ calls[c].rest # <<>>
        /\ cs2[c].rest # <<>> => cs2[c].function = calls[c].function /\ (cs2[c].taken = 0 => calls[c].taken = 0)
    BY DEF Progress
  <1>2. QED
    BY <1>1 DEF Alike, AskingOf

LEMMA AskingFinite ==
  ASSUME NEW cs
  PROVE  IsFiniteSet(AskingOf(cs)) /\ Cardinality(AskingOf(cs)) \in Nat
  <1>1. AskingOf(cs) \subseteq Callers
    BY DEF AskingOf
  <1>2. IsFiniteSet(AskingOf(cs))
    BY <1>1, NativeAssumption, FS_Subset
  <1>3. QED
    BY <1>2, FS_CardinalityType

LEMMA FewerAsking ==
  ASSUME StateType, Budget(calls, optimizer), NEW cs2, AskingOf(cs2) \subseteq AskingOf(calls),
         NEW o2, SameBatches(optimizer, o2)
  PROVE  Budget(cs2, o2)
  <1>1. Cardinality(AskingOf(cs2)) <= Cardinality(AskingOf(calls))
    BY AskingFinite, FS_Subset
  <1>2. Cardinality(AskingOf(cs2)) \in Nat /\ Cardinality(AskingOf(calls)) \in Nat
    BY AskingFinite
  <1>3. optimizer.batches \in Nat /\ optimizer.batches + Cardinality(AskingOf(calls)) <= MaxBatches
    BY DEF StateType, OptimizerType, Budget
  <1>4. optimizer.batches + Cardinality(AskingOf(cs2)) <= MaxBatches
    BY <1>1, <1>2, <1>3, NativeAssumption
  <1>5. QED
    BY <1>4 DEF Budget, SameBatches

LEMMA HeldKept ==
  ASSUME Held(calls, optimizer), NEW c \in Callers, NEW cs2, NEW sc2, NEW st2, NEW o2,
         Stepped(c, cs2, sc2, st2, o2), SameBatches(optimizer, o2)
  PROVE  Held(cs2, o2)
  <1>1. /\ \A d \in Callers \ {c} : Alike(calls[d], cs2[d])
        /\ calls[c].taken # 0 => (cs2[c].rest # <<>> /\ cs2[c].taken = calls[c].taken)
                                   \/ calls[c].taken \in o2.seen \cup o2.lost
    BY DEF Stepped, StepOf, Progress
  <1>2. /\ o2.pending = optimizer.pending /\ optimizer.seen \subseteq o2.seen
        /\ optimizer.lost \subseteq o2.lost
    BY DEF SameBatches
  <1>3. SUFFICES ASSUME optimizer.pending # 0
                 PROVE  \/ optimizer.pending \in o2.seen \cup o2.lost
                        \/ \E d \in Callers : cs2[d].rest # <<>> /\ cs2[d].taken = optimizer.pending
    BY <1>2 DEF Held
  <1>4. CASE optimizer.pending \in optimizer.seen \cup optimizer.lost
    BY <1>2, <1>4
  <1>5. CASE \E d \in Callers : calls[d].rest # <<>> /\ calls[d].taken = optimizer.pending
    <2>1. PICK d \in Callers : calls[d].rest # <<>> /\ calls[d].taken = optimizer.pending
      BY <1>5
    <2>2. CASE d = c
      BY <1>1, <1>3, <2>1, <2>2
    <2>3. CASE d # c
      BY <1>1, <2>1, <2>3 DEF Alike
    <2>4. QED
      BY <2>2, <2>3
  <1>6. QED
    BY <1>3, <1>4, <1>5 DEF Held

LEMMA PlainCore ==
  ASSUME NativeInv, NEW c \in Callers, Ordinary(c, calls', scene', study', optimizer'), family' = family
  PROVE  StateType' /\ CallsInv' /\ Budget(calls', optimizer') /\ Held(calls', optimizer')
  <1>1. Stepped(c, calls', scene', study', optimizer') /\ SameBatches(optimizer, optimizer')
    BY DEF Ordinary
  <1>2. StateType'
    BY DEF Ordinary, StateType, NativeInv
  <1>3. CallsInv'
    BY <1>1 DEF Stepped, StepOf, CallsInv
  <1>4. AskingOf(calls') \subseteq AskingOf(calls)
    BY <1>1, AskingKept DEF Stepped, StepOf
  <1>5. Budget(calls', optimizer')
    BY <1>1, <1>4, FewerAsking DEF NativeInv
  <1>6. Held(calls', optimizer')
    BY <1>1, HeldKept DEF NativeInv
  <1>7. QED
    BY <1>2, <1>3, <1>5, <1>6

\* The caller that is about to be told a handle still is, unless it was told.
LEMMA KnownKept ==
  ASSUME NEW cs2, NEW c \in Callers, \A d \in Callers \ {c} : Alike(calls[d], cs2[d]),
         NEW object, NEW isTold, NEW creators, Known(calls, object, isTold, creators),
         NEW object2, object2 = "live" => object = "live", NEW isTold2, isTold => isTold2,
         Telling(calls, c, creators) => isTold2
  PROVE  Known(cs2, object2, isTold2, creators)
  <1>1. SUFFICES ASSUME object2 = "live", ~isTold2 PROVE \E d \in Callers : Telling(cs2, d, creators)
    BY DEF Known
  <1>2. PICK d \in Callers : Telling(calls, d, creators)
    BY <1>1 DEF Known
  <1>3. d # c
    BY <1>1, <1>2
  <1>4. Telling(cs2, d, creators)
    BY <1>2, <1>3 DEF Alike, Telling
  <1>5. QED
    BY <1>4

-----------------------------------------------------------------------------
(* Every step keeps the invariant.                                          *)

LEMMA QuietStep ==
  ASSUME NativeInv, NEW c \in Callers, Ordinary(c, calls', scene', study', optimizer'),
         optimizer'.handle = optimizer.handle, family' = family, session' = session, told' = told,
         ~At(c, "metadata")
  PROVE  NativeInv'
  <1>1. StateType' /\ CallsInv' /\ Budget(calls', optimizer') /\ Held(calls', optimizer')
    BY PlainCore
  <1>2. \A d \in Callers \ {c} : Alike(calls[d], calls'[d])
    BY DEF Ordinary, Stepped, StepOf
  <1>3. \A creators : ~Telling(calls, c, creators)
    BY DEF Telling, At
  <1>4. /\ Known(calls, optimizer.handle, "optimizer" \in told, OptimizerCreators)
        /\ Known(calls, session, "session" \in told, SessionCreators)
    BY DEF NativeInv, KnownInv
  <1>5. Known(calls', optimizer'.handle, "optimizer" \in told', OptimizerCreators)
    BY <1>2, <1>3, <1>4, KnownKept
  <1>6. Known(calls', session', "session" \in told', SessionCreators)
    BY <1>2, <1>3, <1>4, KnownKept
  <1>7. QED
    BY <1>1, <1>5, <1>6 DEF NativeInv, KnownInv

\* Before a step of this caller that looks at a table comes one that does not.
LEMMA LocalFirst ==
  ASSUME StateType, CallsInv, NEW c \in Callers, Local(calls[c].rest) # {}
  PROVE  ~At(c, "metadata")
  <1> SUFFICES ASSUME At(c, "metadata") PROVE FALSE
    OBVIOUS
  <1>1. calls[c].rest[1] = "metadata"
    BY AtStep
  <1>2. PICK n \in 1..Len(calls[c].rest) : \A i \in 1..n : calls[c].rest[i] \in Fallible
    BY DEF Local
  <1>3. calls[c].rest \in Seq(Steps)
    BY DEF CallsInv, GoodCalls, CallsOf
  <1>4. n \in Nat /\ 1 <= n
    BY <1>2, <1>3
  <1>5. calls[c].rest[1] \in Fallible
    BY <1>2, <1>4
  <1>6. QED
    BY <1>1, <1>5 DEF Fallible

LEMMA QuietSteps ==
  ASSUME NativeInv, NEW c \in Callers,
         \/ Refuse(c) \/ Pass(c) \/ FindScene(c) \/ FindHandle(c) \/ DiskFails(c) \/ OpenStudy(c)
         \/ CreateStudy(c) \/ BeginBatch(c) \/ CommitBatch(c)
         \/ WriteSize(c) \/ Sizing(c) \/ Fits(c) \/ WriteOutputs(c)
  PROVE  NativeInv'
  <1> USE DEF NativeInv
  <1>1. ASSUME Refuse(c) PROVE NativeInv'
    <2>1. family' = family /\ session' = session /\ told' = told /\ Local(calls[c].rest) # {}
      BY <1>1 DEF Refuse
    <2>2. QED
      BY <1>1, <2>1, RefuseStep, LocalFirst, QuietStep
  <1>2. ASSUME Pass(c) PROVE NativeInv'
    <2>1. family' = family /\ session' = session /\ told' = told /\ Local(calls[c].rest) # {}
      BY <1>2 DEF Pass
    <2>2. QED
      BY <1>2, <2>1, PassStep, LocalFirst, QuietStep
  <1>3. ASSUME FindScene(c) PROVE NativeInv'
    <2>1. family' = family /\ session' = session /\ told' = told /\ ~At(c, "metadata")
      BY <1>3 DEF FindScene, At
    <2>2. QED
      BY <1>3, <2>1, FindSceneStep, QuietStep
  <1>4. ASSUME FindHandle(c) PROVE NativeInv'
    <2>1. family' = family /\ session' = session /\ told' = told /\ ~At(c, "metadata")
      BY <1>4 DEF FindHandle, At
    <2>2. QED
      BY <1>4, <2>1, FindHandleStep, QuietStep
  <1>5. ASSUME DiskFails(c) PROVE NativeInv'
    <2>1. family' = family /\ session' = session /\ told' = told /\ ~At(c, "metadata")
      BY <1>5 DEF DiskFails, At
    <2>2. QED
      BY <1>5, <2>1, DiskFailsStep, QuietStep
  <1>6. ASSUME OpenStudy(c) PROVE NativeInv'
    <2>1. family' = family /\ session' = session /\ told' = told /\ ~At(c, "metadata")
      BY <1>6 DEF OpenStudy, At
    <2>2. QED
      BY <1>6, <2>1, OpenStudyStep, QuietStep
  <1>7. ASSUME CreateStudy(c) PROVE NativeInv'
    <2>1. family' = family /\ session' = session /\ told' = told /\ ~At(c, "metadata")
      BY <1>7 DEF CreateStudy, At
    <2>2. QED
      BY <1>7, <2>1, CreateStudyStep, QuietStep
  <1>8. ASSUME BeginBatch(c) PROVE NativeInv'
    <2>1. family' = family /\ session' = session /\ told' = told /\ ~At(c, "metadata")
      BY <1>8 DEF BeginBatch, At
    <2>2. QED
      BY <1>8, <2>1, BeginBatchStep, QuietStep
  <1>9. ASSUME CommitBatch(c) PROVE NativeInv'
    <2>1. family' = family /\ session' = session /\ told' = told /\ ~At(c, "metadata")
      BY <1>9 DEF CommitBatch, At
    <2>2. QED
      BY <1>9, <2>1, CommitBatchStep, QuietStep
  <1>10. ASSUME WriteSize(c) PROVE NativeInv'
    <2>1. family' = family /\ session' = session /\ told' = told /\ ~At(c, "metadata")
      BY <1>10 DEF WriteSize, At
    <2>2. QED
      BY <1>10, <2>1, WriteSizeStep, QuietStep
  <1>11. ASSUME Sizing(c) PROVE NativeInv'
    <2>1. family' = family /\ session' = session /\ told' = told /\ ~At(c, "metadata")
      BY <1>11 DEF Sizing, At
    <2>2. QED
      BY <1>11, <2>1, SizingStep, QuietStep
  <1>12. ASSUME Fits(c) PROVE NativeInv'
    <2>1. family' = family /\ session' = session /\ told' = told /\ ~At(c, "metadata")
      BY <1>12 DEF Fits, At
    <2>2. QED
      BY <1>12, <2>1, FitsStep, QuietStep
  <1>13. ASSUME WriteOutputs(c) PROVE NativeInv'
    <2>1. family' = family /\ session' = session /\ told' = told /\ ~At(c, "metadata")
      BY <1>13 DEF WriteOutputs, At
    <2>2. QED
      BY <1>13, <2>1, WriteOutputsStep, QuietStep
  <1>14. QED
    BY <1>1, <1>2, <1>3, <1>4, <1>5, <1>6, <1>7, <1>8, <1>9, <1>10, <1>11, <1>12, <1>13

LEMMA WriteMetadataKeeps ==
  ASSUME NativeInv, NEW c \in Callers, WriteMetadata(c)
  PROVE  NativeInv'
  <1>1. /\ Ordinary(c, calls', scene', study', optimizer') /\ optimizer'.handle = optimizer.handle
        /\ calls[c].function = "xv_optimizer_create" => "optimizer" \in told'
        /\ calls[c].function \in {"xv_compute_create", "xv_compute_create_for_adapter"} => "session" \in told'
        /\ told \subseteq told'
    BY WriteMetadataStep DEF NativeInv
  <1>2. family' = family /\ session' = session
    BY DEF WriteMetadata
  <1>3. StateType' /\ CallsInv' /\ Budget(calls', optimizer') /\ Held(calls', optimizer')
    BY <1>1, <1>2, PlainCore
  <1>4. \A d \in Callers \ {c} : Alike(calls[d], calls'[d])
    BY <1>1 DEF Ordinary, Stepped, StepOf
  <1>5. /\ Known(calls, optimizer.handle, "optimizer" \in told, OptimizerCreators)
        /\ Known(calls, session, "session" \in told, SessionCreators)
    BY DEF NativeInv, KnownInv
  <1>6. /\ "optimizer" \in told => "optimizer" \in told'
        /\ Telling(calls, c, OptimizerCreators) => "optimizer" \in told'
        /\ "session" \in told => "session" \in told'
        /\ Telling(calls, c, SessionCreators) => "session" \in told'
    BY <1>1 DEF Telling, OptimizerCreators, SessionCreators
  <1>7. Known(calls', optimizer'.handle, "optimizer" \in told', OptimizerCreators)
    BY <1>1, <1>4, <1>5, <1>6, KnownKept
  <1>8. Known(calls', session', "session" \in told', SessionCreators)
    <2>1. session' = "live" => session = "live"
      BY <1>2
    <2>2. QED
      BY <2>1, <1>4, <1>5, <1>6, KnownKept
  <1>9. QED
    BY <1>3, <1>7, <1>8 DEF NativeInv, KnownInv

LEMMA InsertKeeps ==
  ASSUME NativeInv, NEW c \in Callers, Insert(c)
  PROVE  NativeInv'
  <1>1. /\ Ordinary(c, calls', scene', study', optimizer')
        /\ calls'[c].rest # <<>> /\ Head(calls'[c].rest) = "metadata"
        /\ At(c, "insert_session") => calls'[c].function \in {"xv_compute_create", "xv_compute_create_for_adapter"}
        /\ At(c, "insert_optimizer") => calls'[c].function = "xv_optimizer_create"
        /\ session' # session => At(c, "insert_session")
        /\ optimizer'.handle # optimizer.handle => At(c, "insert_optimizer")
    BY InsertStep DEF NativeInv
  <1>2. family' = family /\ told' = told /\ ~At(c, "metadata")
    BY DEF Insert, At
  <1>3. StateType' /\ CallsInv' /\ Budget(calls', optimizer') /\ Held(calls', optimizer')
    BY <1>1, <1>2, PlainCore
  <1>4. \A d \in Callers \ {c} : Alike(calls[d], calls'[d])
    BY <1>1 DEF Ordinary, Stepped, StepOf
  <1>5. \A creators : ~Telling(calls, c, creators)
    BY <1>2 DEF Telling, At
  <1>6. /\ Known(calls, optimizer.handle, "optimizer" \in told, OptimizerCreators)
        /\ Known(calls, session, "session" \in told, SessionCreators)
    BY DEF NativeInv, KnownInv
  <1>7. Known(calls', optimizer'.handle, "optimizer" \in told', OptimizerCreators)
    <2>1. CASE optimizer'.handle = optimizer.handle
      BY <1>2, <1>4, <1>5, <1>6, <2>1, KnownKept
    <2>2. CASE optimizer'.handle # optimizer.handle
      BY <1>1, <2>2 DEF Known, Telling, OptimizerCreators
    <2>3. QED
      BY <2>1, <2>2
  <1>8. Known(calls', session', "session" \in told', SessionCreators)
    <2>1. CASE session' = session
      BY <1>2, <1>4, <1>5, <1>6, <2>1, KnownKept
    <2>2. CASE session' # session
      BY <1>1, <2>2 DEF Known, Telling, SessionCreators
    <2>3. QED
      BY <2>1, <2>2
  <1>9. QED
    BY <1>3, <1>7, <1>8 DEF NativeInv, KnownInv

LEMMA RemoveKeeps ==
  ASSUME NativeInv, NEW c \in Callers, RemoveHandle(c)
  PROVE  NativeInv'
  <1>1. /\ Ordinary(c, calls', scene', study', optimizer')
        /\ optimizer'.handle = "live" => optimizer.handle = "live"
        /\ session' = "live" => session = "live"
    BY RemoveStep DEF NativeInv
  <1>2. family' = family /\ told' = told /\ ~At(c, "metadata")
    BY DEF RemoveHandle, At
  <1>3. StateType' /\ CallsInv' /\ Budget(calls', optimizer') /\ Held(calls', optimizer')
    BY <1>1, <1>2, PlainCore
  <1>4. \A d \in Callers \ {c} : Alike(calls[d], calls'[d])
    BY <1>1 DEF Ordinary, Stepped, StepOf
  <1>5. \A creators : ~Telling(calls, c, creators)
    BY <1>2 DEF Telling, At
  <1>6. /\ Known(calls, optimizer.handle, "optimizer" \in told, OptimizerCreators)
        /\ Known(calls, session, "session" \in told, SessionCreators)
    BY DEF NativeInv, KnownInv
  <1>7. Known(calls', optimizer'.handle, "optimizer" \in told', OptimizerCreators)
    BY <1>1, <1>2, <1>4, <1>5, <1>6, KnownKept
  <1>8. Known(calls', session', "session" \in told', SessionCreators)
    BY <1>1, <1>2, <1>4, <1>5, <1>6, KnownKept
  <1>9. QED
    BY <1>3, <1>7, <1>8 DEF NativeInv, KnownInv

\* One caller less that may still take a batch.
LEMMA OneAskingLess ==
  ASSUME NEW cs2, AskingOf(cs2) \subseteq AskingOf(calls), NEW c \in AskingOf(calls), c \notin AskingOf(cs2)
  PROVE  Cardinality(AskingOf(cs2)) + 1 <= Cardinality(AskingOf(calls))
  <1>1. IsFiniteSet(AskingOf(calls)) /\ Cardinality(AskingOf(calls)) \in Nat
    BY AskingFinite
  <1>2. /\ IsFiniteSet(AskingOf(calls) \ {c})
        /\ Cardinality(AskingOf(calls) \ {c}) = Cardinality(AskingOf(calls)) - 1
    BY <1>1, FS_RemoveElement
  <1>3. AskingOf(cs2) \subseteq AskingOf(calls) \ {c}
    OBVIOUS
  <1>4. Cardinality(AskingOf(cs2)) <= Cardinality(AskingOf(calls) \ {c})
    BY <1>2, <1>3, FS_Subset
  <1>5. Cardinality(AskingOf(cs2)) \in Nat
    BY AskingFinite
  <1>6. QED
    BY <1>1, <1>2, <1>4, <1>5

LEMMA AskKeeps ==
  ASSUME NativeInv, NEW c \in Callers, Ask(c)
  PROVE  NativeInv'
  <1>1. family' = family /\ session' = session /\ told' = told /\ ~At(c, "metadata")
    BY DEF Ask, At
  <1>2. CASE Ordinary(c, calls', scene', study', optimizer') /\ optimizer'.handle = optimizer.handle
    BY <1>1, <1>2, QuietStep
  <1>3. CASE /\ AskStepped(c) /\ optimizer.pending = 0
             /\ calls[c].function = "xv_optimizer_ask" /\ calls[c].taken = 0
             /\ calls'[c].rest # <<>> /\ calls'[c].taken = optimizer.batches + 1
             /\ optimizer' = [optimizer EXCEPT !.pending = optimizer.batches + 1, !.batches = @ + 1]
    <2>1. PICK o : o = optimizer
      OBVIOUS
    <2>2. o \in OptimizerType
      BY <2>1 DEF NativeInv, StateType
    <2>3. o.batches + 1 \in Nat /\ o.batches \in Nat
      BY <2>2 DEF OptimizerType
    <2>4. PICK n \in Nat : n = o.batches + 1
      BY <2>3
    <2>5. optimizer' = Taken(o, n)
      BY <1>3, <2>1, <2>4 DEF Taken
    <2>6. /\ optimizer' \in OptimizerType /\ optimizer'.seen = o.seen /\ optimizer'.lost = o.lost
          /\ optimizer'.handle = o.handle /\ optimizer'.pending = n /\ optimizer'.batches = n
          /\ optimizer'.evaluated = o.evaluated
      BY ONLY <2>2, n \in Nat, <2>5, BatchTaken
    <2>7. /\ GoodCalls(calls', Families[family], scene', study', optimizer'.seen)
          /\ \A d \in Callers \ {c} : Alike(calls[d], calls'[d])
          /\ Progress(calls[c], calls'[c], optimizer'.seen \cup optimizer'.lost)
      BY <1>3 DEF AskStepped, Stepped, StepOf
    <2>8. StateType' /\ CallsInv'
      BY <1>1, <1>3, <2>6, <2>7 DEF NativeInv, StateType, CallsInv, AskStepped
    <2>9. Budget(calls', optimizer')
      <3>1. c \in AskingOf(calls) /\ c \notin AskingOf(calls')
        <4>1. calls[c].rest # <<>>
          BY <2>7 DEF Progress
        <4>2. calls'[c].taken # 0
          BY <1>3, <2>1, <2>3
        <4>3. QED
          BY <1>3, <4>1, <4>2 DEF AskingOf
      <3>2. AskingOf(calls') \subseteq AskingOf(calls)
        BY <2>7, AskingKept
      <3>3. Cardinality(AskingOf(calls')) + 1 <= Cardinality(AskingOf(calls))
        BY <3>1, <3>2, OneAskingLess
      <3>4. Cardinality(AskingOf(calls')) \in Nat /\ Cardinality(AskingOf(calls)) \in Nat
        BY AskingFinite
      <3>5. /\ o.batches + Cardinality(AskingOf(calls)) <= MaxBatches
            /\ \A b \in 1..MaxBatches : o.evaluated[b] <= 1
            /\ \A b \in 1..MaxBatches : b > o.batches \/ b = o.pending => o.evaluated[b] = 0
        BY <2>1 DEF NativeInv, Budget
      <3>6. n + Cardinality(AskingOf(calls')) <= MaxBatches
        BY <2>3, <2>4, <3>3, <3>4, <3>5, NativeAssumption
      <3>7. ASSUME NEW b \in 1..MaxBatches, b > n \/ b = n PROVE o.evaluated[b] = 0
        <4>1. b > o.batches
          BY <2>3, <2>4, <3>7
        <4>2. QED
          BY <3>5, <4>1
      <3>8. QED
        BY <2>6, <3>5, <3>6, <3>7 DEF Budget
    <2>10. Held(calls', optimizer')
      BY <1>3, <2>1, <2>4, <2>6 DEF Held
    <2>11. \A creators : ~Telling(calls, c, creators)
      BY <1>1 DEF Telling, At
    <2>12. /\ Known(calls, optimizer.handle, "optimizer" \in told, OptimizerCreators)
           /\ Known(calls, session, "session" \in told, SessionCreators)
      BY DEF NativeInv, KnownInv
    <2>13. Known(calls', optimizer'.handle, "optimizer" \in told', OptimizerCreators)
      BY <1>1, <2>1, <2>6, <2>7, <2>11, <2>12, KnownKept
    <2>14. Known(calls', session', "session" \in told', SessionCreators)
      BY <1>1, <2>7, <2>11, <2>12, KnownKept
    <2>15. QED
      BY <2>8, <2>9, <2>10, <2>13, <2>14 DEF NativeInv, KnownInv
  <1>4. QED
    BY <1>2, <1>3, AskStep DEF NativeInv

LEMMA TellKeeps ==
  ASSUME NativeInv, NEW c \in Callers, Tell(c)
  PROVE  NativeInv'
  <1>1. family' = family /\ session' = session /\ told' = told /\ ~At(c, "metadata")
    BY DEF Tell, At
  <1>2. CASE Ordinary(c, calls', scene', study', optimizer') /\ optimizer'.handle = optimizer.handle
    BY <1>1, <1>2, QuietStep
  <1>3. CASE /\ AskStepped(c) /\ Accepted(calls[c].argument.batch)
             /\ calls[c].argument.batch \in 0..MaxBatches
             /\ optimizer' = Told(calls[c].argument.batch)
    <2>1. PICK o : o = optimizer
      OBVIOUS
    <2>2. o \in OptimizerType
      BY <2>1 DEF NativeInv, StateType
    <2>3. PICK n : n = calls[c].argument.batch
      OBVIOUS
    <2>4. n \in 1..MaxBatches /\ n = o.pending
      BY <1>3, <2>1, <2>3, NativeAssumption DEF Accepted
    <2>5. o.evaluated \in [1..MaxBatches -> Nat] /\ o.batches \in Nat
      BY <2>2 DEF OptimizerType
    <2>6. PICK evaluated : evaluated = [o.evaluated EXCEPT ![n] = o.evaluated[n] + 1]
      OBVIOUS
    <2>7. evaluated \in [1..MaxBatches -> Nat]
      <3>1. PICK before : before = o.evaluated
        OBVIOUS
      <3>2. n \in 1..MaxBatches /\ before \in [1..MaxBatches -> Nat]
        BY <2>4, <2>5, <3>1
      <3>3. before[n] + 1 \in Nat
        BY ONLY <3>2
      <3>4. evaluated = [before EXCEPT ![n] = before[n] + 1]
        BY <2>6, <3>1
      <3>5. QED
        BY ONLY <3>3, <3>4, <3>2
    <2>8. optimizer' = Returned(o, evaluated)
      BY <1>3, <2>1, <2>3, <2>6 DEF Told, Returned
    <2>9. /\ optimizer' \in OptimizerType /\ optimizer'.seen = o.seen /\ optimizer'.lost = o.lost
          /\ optimizer'.handle = o.handle /\ optimizer'.pending = 0
          /\ optimizer'.batches = o.batches /\ optimizer'.evaluated = evaluated
      BY <2>2, <2>7, <2>8, BatchReturned
    <2>10. /\ GoodCalls(calls', Families[family], scene', study', optimizer'.seen)
           /\ \A d \in Callers \ {c} : Alike(calls[d], calls'[d])
           /\ Progress(calls[c], calls'[c], optimizer'.seen \cup optimizer'.lost)
      BY <1>3 DEF AskStepped, Stepped, StepOf
    <2>11. StateType' /\ CallsInv'
      BY <1>1, <1>3, <2>9, <2>10 DEF NativeInv, StateType, CallsInv, AskStepped
    <2>12. Budget(calls', optimizer')
      <3>1. AskingOf(calls') \subseteq AskingOf(calls)
        BY <2>10, AskingKept
      <3>2. Cardinality(AskingOf(calls')) <= Cardinality(AskingOf(calls))
        BY <3>1, AskingFinite, FS_Subset
      <3>3. Cardinality(AskingOf(calls')) \in Nat /\ Cardinality(AskingOf(calls)) \in Nat
        BY AskingFinite
      <3>4. /\ o.batches + Cardinality(AskingOf(calls)) <= MaxBatches /\ o.pending <= o.batches
            /\ \A b \in 1..MaxBatches : o.evaluated[b] <= 1
            /\ \A b \in 1..MaxBatches : b > o.batches \/ b = o.pending => o.evaluated[b] = 0
        BY <2>1 DEF NativeInv, Budget
      <3>5. o.batches + Cardinality(AskingOf(calls')) <= MaxBatches
        BY <2>5, <3>2, <3>3, <3>4, NativeAssumption
      <3>6. o.evaluated[n] = 0
        BY <2>4, <3>4
      <3>7. ASSUME NEW b \in 1..MaxBatches PROVE evaluated[b] <= 1
        BY <2>5, <2>6, <3>4, <3>6
      <3>8. ASSUME NEW b \in 1..MaxBatches, b > o.batches \/ b = 0 PROVE evaluated[b] = 0
        <4>1. b > o.batches /\ b # n
          BY <2>4, <2>5, <3>4, <3>8, NativeAssumption
        <4>2. QED
          BY <2>5, <2>6, <3>4, <4>1
      <3>9. QED
        BY <2>5, <2>9, <3>5, <3>7, <3>8 DEF Budget
    <2>13. Held(calls', optimizer')
      BY <2>9 DEF Held
    <2>14. \A creators : ~Telling(calls, c, creators)
      BY <1>1 DEF Telling, At
    <2>15. /\ Known(calls, optimizer.handle, "optimizer" \in told, OptimizerCreators)
           /\ Known(calls, session, "session" \in told, SessionCreators)
      BY DEF NativeInv, KnownInv
    <2>16. Known(calls', optimizer'.handle, "optimizer" \in told', OptimizerCreators)
      BY <1>1, <2>1, <2>9, <2>10, <2>14, <2>15, KnownKept
    <2>17. Known(calls', session', "session" \in told', SessionCreators)
      BY <1>1, <2>10, <2>14, <2>15, KnownKept
    <2>18. QED
      BY <2>11, <2>12, <2>13, <2>16, <2>17 DEF NativeInv, KnownInv
  <1>4. QED
    BY <1>2, <1>3, TellStep DEF NativeInv

LEMMA CallKeeps ==
  ASSUME NativeInv, NEW c \in Callers, NEW function \in DOMAIN Families[family], Call(c, function)
  PROVE  NativeInv'
  <1>1. /\ GoodCalls(calls', Families[family], scene, study, optimizer.seen)
        /\ calls[c].rest = <<>> /\ calls'[c].function = function /\ calls'[c].taken = 0
        /\ \A d \in Callers \ {c} : calls'[d] = calls[d]
    BY CallStep DEF NativeInv
  <1>2. UNCHANGED <<family, scene, session, optimizer, study, told>>
    BY DEF Call
  <1>3. StateType' /\ CallsInv'
    BY <1>1, <1>2 DEF NativeInv, StateType, CallsInv
  <1>4. Budget(calls', optimizer')
    <2>1. CASE function # "xv_optimizer_ask"
      <3>1. AskingOf(calls') \subseteq AskingOf(calls)
        BY <1>1, <2>1 DEF AskingOf
      <3>2. SameBatches(optimizer, optimizer)
        BY DEF SameBatches
      <3>3. QED
        BY <1>2, <3>1, <3>2, FewerAsking DEF NativeInv
    <2>2. CASE function = "xv_optimizer_ask"
      <3>1. optimizer.batches + Cardinality(AskingOf(calls)) < MaxBatches
        <4>1. Asking = AskingOf(calls)
          BY DEF Asking, AskingOf, Running
        <4>2. QED
          BY <2>2, <4>1 DEF Call
      <3>2. AskingOf(calls') \subseteq AskingOf(calls) \cup {c}
        BY <1>1 DEF AskingOf
      <3>3. IsFiniteSet(AskingOf(calls)) /\ c \notin AskingOf(calls)
        BY <1>1, AskingFinite DEF AskingOf
      <3>4. /\ IsFiniteSet(AskingOf(calls) \cup {c})
            /\ Cardinality(AskingOf(calls) \cup {c}) = Cardinality(AskingOf(calls)) + 1
        BY <3>3, FS_AddElement
      <3>5. Cardinality(AskingOf(calls')) <= Cardinality(AskingOf(calls)) + 1
        BY <3>2, <3>4, FS_Subset
      <3>6. Cardinality(AskingOf(calls')) \in Nat /\ Cardinality(AskingOf(calls)) \in Nat
        BY AskingFinite
      <3>7. optimizer.batches \in Nat
        BY DEF NativeInv, StateType, OptimizerType
      <3>8. optimizer.batches + Cardinality(AskingOf(calls')) <= MaxBatches
        BY <3>1, <3>5, <3>6, <3>7, NativeAssumption
      <3>9. QED
        BY <1>2, <3>8 DEF NativeInv, Budget
    <2>3. QED
      BY <2>1, <2>2
  <1>5. Held(calls', optimizer')
    BY <1>1, <1>2 DEF NativeInv, Held
  <1>6. ASSUME NEW object, NEW isTold, NEW creators, Known(calls, object, isTold, creators)
        PROVE  Known(calls', object, isTold, creators)
    BY <1>1, <1>6 DEF Known, Telling
  <1>7. KnownInv'
    BY <1>2, <1>6 DEF NativeInv, KnownInv
  <1>8. QED
    BY <1>3, <1>4, <1>5, <1>7 DEF NativeInv

LEMMA SceneMovesKeeps ==
  ASSUME NativeInv, SceneMoves
  PROVE  NativeInv'
  <1>1. /\ GoodCalls(calls', Families[family], scene', study, optimizer.seen)
        /\ \A d \in Callers : Alike(calls[d], calls'[d])
        /\ scene' \in SceneType
    BY SceneMovesStep DEF NativeInv
  <1>2. UNCHANGED <<family, session, optimizer, study, told>>
    BY DEF SceneMoves
  <1>3. StateType' /\ CallsInv'
    BY <1>1, <1>2 DEF NativeInv, StateType, CallsInv
  <1>4. Budget(calls', optimizer')
    <2>1. AskingOf(calls') \subseteq AskingOf(calls)
      BY <1>1 DEF Alike, AskingOf
    <2>2. SameBatches(optimizer, optimizer)
      BY DEF SameBatches
    <2>3. QED
      BY <1>2, <2>1, <2>2, FewerAsking DEF NativeInv
  <1>5. Held(calls', optimizer')
    BY <1>1, <1>2 DEF NativeInv, Held, Alike
  <1>6. ASSUME NEW object, NEW isTold, NEW creators, Known(calls, object, isTold, creators)
        PROVE  Known(calls', object, isTold, creators)
    BY <1>1, <1>6 DEF Known, Telling, Alike
  <1>7. KnownInv'
    BY <1>2, <1>6 DEF NativeInv, KnownInv
  <1>8. QED
    BY <1>3, <1>4, <1>5, <1>7 DEF NativeInv

LEMMA NothingChanges ==
  ASSUME NativeInv, UNCHANGED vars
  PROVE  NativeInv'
  BY DEF NativeInv, vars, StateType, CallsInv, KnownInv

LEMMA NativeInit ==
  ASSUME Init
  PROVE  NativeInv
  <1>1. \A c \in Callers : calls[c] = Idle
    BY DEF Init
  <1>2. PICK idle : idle = Idle
    OBVIOUS
  <1>3. /\ idle \in CallsOf(Families[family]) /\ idle.rest = <<>> /\ idle.at = "" /\ idle.wrote = {}
    BY ONLY <1>2, IdleCall
  <1>4. GoodCall(idle, Families[family], scene, study, optimizer.seen)
    BY <1>3 DEF GoodCall, EndedCall, Learned
  <1>5. CallsInv
    BY <1>1, <1>2, <1>3, <1>4 DEF Init, CallsInv, GoodCalls
  <1>6. PICK o : o = optimizer
    OBVIOUS
  <1>7. /\ o.handle = "none" /\ o.pending = 0 /\ o.batches = 0 /\ o.evaluated = [b \in 1..MaxBatches |-> 0]
        /\ o \in OptimizerType
    BY <1>6 DEF Init, OptimizerType, Handles
  <1>8. StateType
    BY <1>6, <1>7 DEF Init, StateType, StudyType, SceneType
  <1>9. AskingOf(calls) = {}
    BY <1>1, <1>2, <1>3 DEF AskingOf
  <1>10. Cardinality(AskingOf(calls)) = 0
    BY <1>9, FS_EmptySet
  <1>11. Budget(calls, optimizer) /\ Held(calls, optimizer)
    BY <1>6, <1>7, <1>10, NativeAssumption DEF Budget, Held
  <1>12. KnownInv
    BY <1>6, <1>7 DEF Init, KnownInv, Known
  <1>13. QED
    BY <1>5, <1>8, <1>11, <1>12 DEF NativeInv

-----------------------------------------------------------------------------
(* The theorems.                                                            *)

\* Whatever the threads of the host call, in whatever order their steps fall, every
\* call is at a point of its code that its past explains, and the optimizer and the
\* study are accounted for: the invariant that the other theorems follow from.
THEOREM NativeInvariant == Spec => []NativeInv
  <1>1. Init => NativeInv
    BY NativeInit
  <1>2. NativeInv /\ [Next]_vars => NativeInv'
    <2> SUFFICES ASSUME NativeInv, [Next]_vars PROVE NativeInv'
      OBVIOUS
    <2>1. ASSUME NEW c \in Callers, NEW function \in DOMAIN Families[family], Call(c, function)
          PROVE  NativeInv'
      BY <2>1, CallKeeps
    <2>2. ASSUME NEW c \in Callers,
                 \/ Refuse(c) \/ Pass(c) \/ FindScene(c) \/ FindHandle(c) \/ DiskFails(c)
                 \/ OpenStudy(c) \/ CreateStudy(c) \/ BeginBatch(c) \/ CommitBatch(c)
                 \/ WriteSize(c) \/ Sizing(c) \/ Fits(c) \/ WriteOutputs(c)
          PROVE  NativeInv'
      BY <2>2, QuietSteps
    <2>3. ASSUME NEW c \in Callers, Insert(c) PROVE NativeInv'
      BY <2>3, InsertKeeps
    <2>4. ASSUME NEW c \in Callers, RemoveHandle(c) PROVE NativeInv'
      BY <2>4, RemoveKeeps
    <2>5. ASSUME NEW c \in Callers, Ask(c) PROVE NativeInv'
      BY <2>5, AskKeeps
    <2>6. ASSUME NEW c \in Callers, Tell(c) PROVE NativeInv'
      BY <2>6, TellKeeps
    <2>7. ASSUME NEW c \in Callers, WriteMetadata(c) PROVE NativeInv'
      BY <2>7, WriteMetadataKeeps
    <2>8. CASE SceneMoves
      BY <2>8, SceneMovesKeeps
    <2>9. CASE UNCHANGED vars
      BY <2>9, NothingChanges
    <2>10. QED
      BY <2>1, <2>2, <2>3, <2>4, <2>5, <2>6, <2>7, <2>8, <2>9 DEF Next
  <1>3. QED
    BY <1>1, <1>2, PTL DEF Spec

\* A call that is over, as its caller finds it.
LEMMA EndedCalls ==
  ASSUME NativeInv, NEW c \in Callers, calls[c].at # ""
  PROVE  EndedCall(calls[c], Families[family], scene, study)
  <1>1. GoodCall(calls[c], Families[family], scene, study, optimizer.seen)
    BY DEF NativeInv, CallsInv, GoodCalls
  <1>2. CASE calls[c].rest # <<>>
    BY <1>1, <1>2 DEF GoodCall, ActiveCall
  <1>3. QED
    BY <1>1, <1>2 DEF GoodCall

\* A refused call has written no more than the sizing pass of its function gives: a
\* bare size, or the record of metadata for the three functions that report both at
\* once (surface.rs:287, 357, daylight.rs:789); never the answer, for each of the
\* exported functions and however many threads call them.
THEOREM RefusalsOnlyTheSizing == Spec => []RefusalsWriteOnlyTheSizing
  <1>1. NativeInv => RefusalsWriteOnlyTheSizing
    BY EndedCalls DEF RefusalsWriteOnlyTheSizing, EndedCall
  <1>2. QED
    BY <1>1, NativeInvariant, PTL

\* The call made again with a buffer of the size the first one reported is refused
\* neither for that buffer nor for what the first call did to the study.
THEOREM SizesSuffice == Spec => []SizingIsEnough
  <1>1. NativeInv => SizingIsEnough
    BY EndedCalls DEF SizingIsEnough, EndedCall
  <1>2. QED
    BY <1>1, NativeInvariant, PTL

\* A live object whose handle nobody was told is one whose creator is at the step
\* that tells it.
THEOREM NoHandleIsLost == Spec => []HandlesAreKnown
  <1>1. NativeInv => HandlesAreKnown
    BY DEF NativeInv, KnownInv, Known, Telling, HandlesAreKnown, At, OptimizerCreators, SessionCreators
  <1>2. QED
    BY <1>1, NativeInvariant, PTL

\* No batch of the optimizer is counted twice, and the pending one is with a caller,
\* on its way to one, or lost to a call that was refused.
THEOREM BatchesAreAccounted == Spec => []BatchesAccounted
  <1>1. NativeInv => BatchesAccounted
    BY DEF NativeInv, Budget, Held, BatchesAccounted, Running
  <1>2. QED
    BY <1>1, NativeInvariant, PTL

=============================================================================
