------------------------------- MODULE MCScenes -------------------------------
(* Small instances of the scene registry behind the C ABI and of the lifecycle   *)
(* of the scenes in it, side by side: a behaviour is one of either, the other at  *)
(* rest.  The registry sees a scene as a value per occurrence; what an edit does   *)
(* inside it is the lifecycle's.  The same model values serve both.              *)
EXTENDS SceneRegistry, SceneLifecycle, TLC

ASSUME LifecycleAssumption

VARIABLE subject

ScenesInit == subject \in {"registry", "lifecycle"} /\ RegistryInit /\ Init
ScenesNext ==
    /\ UNCHANGED subject
    /\ \/ subject = "registry" /\ RegistryNext /\ UNCHANGED vars
       \/ subject = "lifecycle" /\ Next /\ UNCHANGED registryVars
ScenesSpec == ScenesInit /\ [][ScenesNext]_<<subject, registryVars, vars>>

Symmetric == Permutations(Threads) \cup Permutations(Occurrences)
               \cup Permutations(Values)
=============================================================================
