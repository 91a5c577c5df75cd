---------------------------- MODULE MCVayuSession ----------------------------
EXTENDS VayuSession, TLC
CONSTANTS c1, c2
MCThreads == {c1, c2}
\* A dome does not fit into a chunk.
MCMeshBytes == [m \in {"tower", "tree", "dome"} |-> CASE m = "tower" -> 3 [] m = "tree" -> 1 [] m = "dome" -> 4]
MCScenes == {<<"tower">>, <<"tower", "tree", "tree", "tree">>, <<"tree", "dome">>}
Policy(preference, rays, gpuBytes, cache) ==
    [preference |-> preference, rays |-> rays, chunkBytes |-> 8, gpuBytes |-> gpuBytes, cache |-> cache]
MCPolicies == {Policy("cpu", 1, 8, TRUE), Policy("auto", 0, 8, TRUE), Policy("auto", 1, 8, TRUE),
               Policy("require", 4, 11, TRUE), Policy("require", 4, 5, FALSE)}
Symmetry == Permutations(MCThreads)
=============================================================================
