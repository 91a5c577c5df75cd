------------------------ MODULE MCControlledAnalysis ------------------------
(* Analyses that use no matrix share nothing: each runs alone.  Two that use  *)
(* one run beside each other; the cache is empty, holds it, or is full.  *)
EXTENDS ControlledAnalysis
CONSTANTS j1, j2
MCJobs == {j1, j2}
MCWatched == {j1}
MCEarlierMatrices == {<<>>, <<"old", "one">>, <<"old", "older", "oldest">>}
Use(analysis, m) == [analysis |-> analysis, matrix |-> m]
Alone(analysis) == [j \in {j1} |-> Use(analysis, "one")]
Both(analysis) == [j \in MCJobs |-> Use(analysis, "one")]
MCWorkloads ==
    {Alone(analysis) : analysis \in {"sky view", "annual irradiance", "annual daylight"}}
    \cup {Both("point illuminance")}
=============================================================================
