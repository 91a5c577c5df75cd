-------------------------- MODULE MCSceneLifecycle --------------------------
(* A small instance of SceneLifecycle for TLC.                              *)
EXTENDS SceneLifecycle, TLC

Symmetric == Permutations(Instances) \cup Permutations(Shapes)
               \cup Permutations(Places) \cup Permutations(Labels)
=============================================================================
