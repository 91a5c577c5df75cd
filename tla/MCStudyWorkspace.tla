--------------------------- MODULE MCStudyWorkspace ---------------------------
(* Instances of StudyWorkspace for TLC.                                     *)
EXTENDS StudyWorkspace, TLC

\* Two candidates in the first generation, one in the second.
McSubmissions ==
  LET rows == [id : 1 .. 3, result : Results]
  IN UNION {[1 .. n -> rows] : n \in 1 .. 2}

\* Payloads and time stamps are only ever compared.
Symmetry == Permutations(Results) \cup Permutations(Times)

=============================================================================
