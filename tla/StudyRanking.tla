---------------------------- MODULE StudyRanking ----------------------------
(***************************************************************************)
(* The ranking of a study and the ask/tell optimizer built on it            *)
(* (crates/xvarna-study/src/lib.rs).                                        *)
(*                                                                         *)
(* Objectives and violations are small integers in units of the tolerance,  *)
(* DOMINANCE_EPSILON: values one apart count as equal.  What a candidate is *)
(* made of does not matter here, nor how offspring are bred: a candidate is *)
(* its identifier, and its evaluation is any of Evaluations.                *)
(***************************************************************************)
EXTENDS Integers, Sequences, FiniteSets, FiniteSetsExt, SequencesExt, TLC

CONSTANTS Directions,        \* one of "minimize" and "maximize" for each objective
          Evaluations,       \* records of objectives and a violation
          PopulationSize, OffspringSize, ArchiveCapacity,
          Reference,         \* the reference point of the hypervolume
          MaxGenerations     \* bound: completed generations

VARIABLES population, archive,   \* sequences of individuals
          pending,               \* identifiers that ask returned
          next_candidate_id, generation, evaluation_count,
          cut                    \* history: the archive was truncated when it was last updated

rankingVars == <<population, archive, pending, next_candidate_id, generation, evaluation_count, cut>>

RankingAssumption ==
    /\ Directions \in Seq({"minimize", "maximize"}) \ {<<>>}
    /\ Evaluations \subseteq [objectives : [DOMAIN Directions -> Int], violation : Int]
    /\ PopulationSize \in Nat /\ OffspringSize \in Nat /\ ArchiveCapacity \in Nat

-----------------------------------------------------------------------------
(* Ranking.                                                                  *)

DOMINANCE_EPSILON == 1
Unranked == 1000     \* usize::MAX
Infinity == 1000000  \* the crowding of a boundary point
Scale == 840         \* crowding distances are fractions of this

Objectives == DOMAIN Directions
transformed_objective(x, k) ==
    IF Directions[k] = "minimize" THEN x.objectives[k] ELSE -x.objectives[k]
feasible(x) == x.violation <= DOMINANCE_EPSILON

Less(a, b) == a + DOMINANCE_EPSILON < b
BetterIn(x, y) == {k \in Objectives : Less(transformed_objective(x, k), transformed_objective(y, k))}
\* Mutant of dominance: the violations of two infeasible candidates are not compared.
FeasibleFirst(x, y) ==
    CASE feasible(x) # feasible(y) -> IF feasible(x) THEN "first" ELSE "second"
      [] BetterIn(x, y) # {} /\ BetterIn(y, x) = {} -> "first"
      [] BetterIn(y, x) # {} /\ BetterIn(x, y) = {} -> "second"
      [] OTHER -> "neither"
dominance(x, y) ==
    CASE feasible(x) # feasible(y) -> IF feasible(x) THEN "first" ELSE "second"
      [] ~feasible(x) /\ ~feasible(y) ->
           CASE Less(x.violation, y.violation) -> "first"
             [] Less(y.violation, x.violation) -> "second"
             [] OTHER -> "neither"
      [] OTHER ->
           CASE BetterIn(x, y) # {} /\ BetterIn(y, x) = {} -> "first"
             [] BetterIn(y, x) # {} /\ BetterIn(x, y) = {} -> "second"
             [] OTHER -> "neither"

\* The members of a finite set one after the other, as a total order has them.
place(x, S, before) == Cardinality({y \in S : <<x, y>> \notin before})
sort_by(S, before) == [n \in 1..Cardinality(S) |-> CHOOSE x \in S : place(x, S, before) = n]

\* Candidates of the same value come in the order of their identifiers, which differ.
by_objective(front, k) ==
    {p \in front \X front :
       \/ transformed_objective(p[1], k) < transformed_objective(p[2], k)
       \/ transformed_objective(p[1], k) = transformed_objective(p[2], k) /\ p[1].id < p[2].id}

\* The crowding distance of a member of a front.
assign_crowding(x, front) ==
    LET last == Cardinality(front)
        Place(k) == place(x, front, by_objective(front, k))
        At(k, i) == transformed_objective(sort_by(front, by_objective(front, k))[i], k)
        Spread(k) == At(k, last) - At(k, 1)
        Gap(k) == IF Spread(k) <= DOMINANCE_EPSILON THEN 0
                  ELSE (Scale * (At(k, Place(k) + 1) - At(k, Place(k) - 1))) \div Spread(k)
    IN  IF last <= 2 \/ \E k \in Objectives : Place(k) \in {1, last} THEN Infinity
        ELSE MapThenSumSet(Gap, Objectives)

\* What a ranking looks at, and what a checkpoint keeps, of an individual.
Bare(x) == [id |-> x.id, objectives |-> x.objectives, violation |-> x.violation]

\* Fronts are peeled off: a candidate is in the next one when the last of those
\* that dominate it was in this one.
peel(all) ==
    LET relation == {p \in all \X all : dominance(p[1], p[2]) = "second"}
        done[k \in 0..Cardinality(all)] ==
          IF k = 0 THEN {}
          ELSE LET before == done[k - 1]
               IN  before \cup {x \in all : \A y \in all : <<x, y>> \in relation => y \in before}
    IN  {[rank |-> k - 1, members |-> done[k] \ done[k - 1]] : k \in 1..Cardinality(all)}

\* Who is in no front, because the domination goes round in a circle, stays as it was.
ranking(individuals) ==
    LET fronts == peel({Bare(x) : x \in individuals})
        Ranked(x) ==
          IF \E f \in fronts : Bare(x) \in f.members
          THEN LET f == CHOOSE f \in fronts : Bare(x) \in f.members
               IN  [x EXCEPT !.rank = f.rank, !.crowding = assign_crowding(Bare(x), f.members)]
          ELSE x
    IN  [x \in individuals |-> Ranked(x)]
rank_individuals(individuals) ==
    LET ranked == ranking(Range(individuals)) IN [i \in DOMAIN individuals |-> ranked[individuals[i]]]

\* Individuals of candidates and their evaluations, not ranked yet.
Bound(x) == [id |-> x.id, objectives |-> x.objectives, violation |-> x.violation, rank |-> Unranked, crowding |-> 0]
bind_individuals(xs) == [i \in DOMAIN xs |-> Bound(xs[i])]

study_result(individuals) ==
    [pareto_candidate_ids |-> {x.id : x \in {y \in Range(individuals) : feasible(y) /\ y.rank = 0}},
     front_count |-> IF individuals = <<>> THEN 0 ELSE Max({x.rank : x \in Range(individuals)}) + 1]

Leftmost(p, q) == p[1] < q[1] \/ (p[1] = q[1] /\ p[2] < q[2])
reference(k) == IF Directions[k] = "minimize" THEN Reference[k] ELSE -Reference[k]
AtLeastZero(n) == IF n < 0 THEN 0 ELSE n

\* The area between the feasible first front and the reference point.
\* Mutant of hypervolume_2d: a point is taken to be lower than the one before.
NoHeightCheck(individuals) ==
    LET first == SelectSeq(individuals, LAMBDA x : feasible(x) /\ x.rank = 0)
        points == [i \in DOMAIN first |-> [k \in 1..2 |-> transformed_objective(first[i], k)]]
        inside == SelectSeq(points, LAMBDA p : p[1] <= reference(1) /\ p[2] <= reference(2))
        sorted == SortSeq(inside, Leftmost)
        Step(sum, p) == [volume |-> sum.volume + AtLeastZero(reference(1) - p[1]) * AtLeastZero(sum.height - p[2]),
                         height |-> p[2]]
    IN  FoldLeft(Step, [volume |-> 0, height |-> reference(2)], sorted).volume
hypervolume_2d(individuals) ==
    LET first == SelectSeq(individuals, LAMBDA x : feasible(x) /\ x.rank = 0)
        points == [i \in DOMAIN first |-> [k \in 1..2 |-> transformed_objective(first[i], k)]]
        inside == SelectSeq(points, LAMBDA p : p[1] <= reference(1) /\ p[2] <= reference(2))
        sorted == SortSeq(inside, Leftmost)
        Step(sum, p) == IF p[2] < sum.height
                        THEN [volume |-> sum.volume + AtLeastZero(reference(1) - p[1]) * AtLeastZero(sum.height - p[2]),
                              height |-> p[2]]
                        ELSE sum
    IN  FoldLeft(Step, [volume |-> 0, height |-> reference(2)], sorted).volume

-----------------------------------------------------------------------------
(* The optimizer.                                                            *)

\* Better fronts first, then emptier neighbourhoods, then older candidates.
selection_order(x, y) ==
    \/ x.rank < y.rank
    \/ x.rank = y.rank /\ x.crowding > y.crowding
    \/ x.rank = y.rank /\ x.crowding = y.crowding /\ x.id < y.id
Truncate(xs, n) == SubSeq(xs, 1, IF Len(xs) < n THEN Len(xs) ELSE n)
by_selection(S) == {p \in S \X S : selection_order(p[1], p[2])}
Selected(xs) == sort_by(xs, by_selection(xs))

next_candidate(i) == next_candidate_id + i - 1
stratified_initial_population == [i \in 1..PopulationSize |-> next_candidate(i)]
\* Parents, crossover and mutation decide the values only.
generate_offspring == [i \in 1..OffspringSize |-> next_candidate(i)]

ask ==
    /\ pending = <<>> /\ generation < MaxGenerations
    /\ pending' = IF population = <<>> THEN stratified_initial_population ELSE generate_offspring
    /\ next_candidate_id' = next_candidate_id + Len(pending')
    /\ UNCHANGED <<population, archive, generation, evaluation_count, cut>>

\* Mutant of Survivors: the ranks of the larger population are kept.
RankedBefore(combined) == Truncate(Selected(Range(ranking(Range(combined)))), PopulationSize)
Survivors(combined) == rank_individuals(Truncate(Selected(Range(ranking(Range(combined)))), PopulationSize))

\* Feasible, in the first front of the archive and the population, at most so many.
Historical(new_population) ==
    LET old == {x.id : x \in Range(archive)}
        combined == Range(archive) \cup {x \in Range(new_population) : x.id \notin old}
    IN  Selected({x \in Range(ranking(combined)) : feasible(x) /\ x.rank = 0})
update_archive(new_population) ==
    \E historical \in {Historical(new_population)} :
       /\ archive' = Truncate(historical, ArchiveCapacity)
       /\ cut' = (Len(historical) > ArchiveCapacity)

tell ==
    /\ pending # <<>>
    /\ \E results \in [DOMAIN pending -> Evaluations] :
         LET told == bind_individuals([i \in DOMAIN pending |->
                       [id |-> pending[i], objectives |-> results[i].objectives, violation |-> results[i].violation]])
         IN  /\ population' = Survivors(population \o told)
             /\ update_archive(population')
    /\ evaluation_count' = evaluation_count + Len(pending)
    /\ pending' = <<>> /\ generation' = generation + 1
    /\ UNCHANGED next_candidate_id

-----------------------------------------------------------------------------
(* Checkpoints.                                                              *)

checkpoint_individuals(xs) == [i \in DOMAIN xs |-> Bare(xs[i])]
checkpoint ==
    [population |-> checkpoint_individuals(population), archive |-> checkpoint_individuals(archive),
     pending |-> pending, next_candidate_id |-> next_candidate_id]
restore_individuals(xs) == rank_individuals(bind_individuals(xs))

Ids(xs) == {x.id : x \in Range(xs)}
DuplicateIdentifier(xs) == ~IsInjective([i \in DOMAIN xs |-> xs[i].id])
InvalidCheckpoint(c) ==
    \/ DuplicateIdentifier(c.population) \/ DuplicateIdentifier(c.archive)
    \/ Len(c.population) > PopulationSize \/ Len(c.archive) > ArchiveCapacity
    \/ ~IsInjective(c.pending) \/ Range(c.pending) \cap Ids(c.population) # {}
    \/ \E id \in Ids(c.population) \cup Ids(c.archive) \cup Range(c.pending) : c.next_candidate_id <= id

\* Another process goes on from the checkpoint.
from_checkpoint ==
    /\ ~InvalidCheckpoint(checkpoint)
    /\ population' = restore_individuals(checkpoint.population)
    /\ archive' = restore_individuals(checkpoint.archive)
    /\ UNCHANGED <<pending, next_candidate_id, generation, evaluation_count, cut>>

RankingInit ==
    /\ population = <<>> /\ archive = <<>> /\ pending = <<>>
    /\ next_candidate_id = 1 /\ generation = 0 /\ evaluation_count = 0
    /\ cut = FALSE
RankingNext == ask \/ tell \/ from_checkpoint
RankingSpec == RankingInit /\ [][RankingNext]_rankingVars

-----------------------------------------------------------------------------
(* Properties.                                                               *)

\* Constrained domination, in the words of the literature the code follows: less
\* violated, or both feasible and better in one objective and worse in none.
Beats(x, y) ==
    \/ feasible(x) /\ ~feasible(y)
    \/ ~feasible(x) /\ ~feasible(y) /\ x.violation < y.violation - DOMINANCE_EPSILON
    \/ /\ feasible(x) /\ feasible(y)
       /\ \E k \in Objectives : transformed_objective(x, k) < transformed_objective(y, k) - DOMINANCE_EPSILON
       /\ \A k \in Objectives : transformed_objective(x, k) <= transformed_objective(y, k) + DOMINANCE_EPSILON

\* Every survivor has a front, which is the one after the last front that holds a
\* survivor beating it; and the fronts that are counted all have members.
FrontsAreLayers ==
    /\ \A x \in Range(population) :
          LET above == {y.rank : y \in {z \in Range(population) : Beats(z, x)}}
          IN  x.rank = IF above = {} THEN 0 ELSE Max(above) + 1
    /\ 0..(study_result(population).front_count - 1) = {x.rank : x \in Range(population)}

\* Whatever points the population consists of, the hypervolume is the number of unit
\* cells below the reference point that a feasible point of the first front covers.
HypervolumeIsCovered ==
    LET Least(k) == Min({reference(k)} \cup {transformed_objective(x, k) : x \in Range(population)})
        pareto == study_result(population).pareto_candidate_ids
        front == {x \in Range(population) : x.id \in pareto}
        Covered(a, b) == \E x \in front :
            transformed_objective(x, 1) <= a /\ transformed_objective(x, 2) <= b
    IN  hypervolume_2d(population) =
          Cardinality({c \in (Least(1)..(reference(1) - 1)) \X (Least(2)..(reference(2) - 1)) : Covered(c[1], c[2])})

\* A checkpoint the optimizer takes is one it accepts, and the optimizer restored
\* from it has the same ranks and distances as the one that took it: the offspring
\* it breeds are the same.  (The distances of an archive that was cut are not: they
\* were assigned before the cut.  Nothing but the identity of the state reads them.)
RestoredIsTheSame ==
    /\ ~InvalidCheckpoint(checkpoint)
    /\ restore_individuals(checkpoint.population) = population
    /\ cut \/ restore_individuals(checkpoint.archive) = archive
=============================================================================
