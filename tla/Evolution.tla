----------------------------- MODULE Evolution -----------------------------
(***************************************************************************)
(* SelfEvolutionEngine.evolve of src/evolution/bootstrap.py, step by step, *)
(* with the hooks for validation and runtime feedback, as `aero evolve`    *)
(* and the evolution stage of a build run it.  What a genome is does not   *)
(* matter: a new candidate may have any fitness, or fail validation.       *)
(***************************************************************************)
EXTENDS ParetoFrontier

CONSTANTS
  population_size,
  max_generations,
  Fitness,         \* the metrics _evaluate_individual may come to
  Runtime,         \* the objectives a benchmark of a candidate may add: none
                   \* where runtime_evaluator is not set, or has failed
  Hook             \* "none", or "gate": validation_hook is set

\* Numbers by name.
IsMetrics(f) == IsFiniteSet(DOMAIN f) /\ f \in [DOMAIN f -> Int]

ASSUME EvolutionAssumption ==
  /\ population_size \in Nat \ {0} /\ max_generations \in Nat \ {0}
  /\ Hook \in {"none", "gate"}
  /\ \A f \in Fitness : /\ IsMetrics(f) /\ DOMAIN f # {}
                        /\ \A k \in DOMAIN f : f[k] < Infinity
  /\ \A f, g \in Fitness : DOMAIN f = DOMAIN g
  /\ \A r \in Runtime : IsMetrics(r) /\ \A f \in Fitness : DOMAIN f \cap DOMAIN r = {}

VARIABLES
  phase,          \* the step of the loop that comes next
  generation,
  population,
  parents,
  offspring,
  best_candidate,
  checkpoints,    \* .aero/evolution_checkpoints: by generation, its best
  everValid,      \* history: some candidate has passed validation
  dropped         \* history: who was not selected last

evolution_vars == <<phase, generation, population, parents, offspring, best_candidate,
                    checkpoints, everValid, dropped>>

NoOne      == [id |-> <<>>, fitness |-> <<>>, valid |-> FALSE]
Unmeasured == [k \in {} |-> 0]

Candidate(gen, i) == [id |-> <<gen, i>>, fitness |-> Unmeasured, valid |-> FALSE]

\* _initialize_population
EvolutionInit ==
  /\ phase = "evaluate" /\ generation = 0
  /\ population = [i \in 1..population_size |-> Candidate(0, i)]
  /\ parents = <<>> /\ offspring = <<>>
  /\ best_candidate = NoOne
  /\ checkpoints = <<>>
  /\ everValid = FALSE
  /\ dropped = {}

\* blend_into_fitness of src/runtime/feedback.py: further objectives.
Blended(f, runtime) ==
  [k \in DOMAIN f \cup DOMAIN runtime |-> IF k \in DOMAIN runtime THEN runtime[k] ELSE f[k]]

\* A regression: the hook is asked and its answer ignored.
Ignored(ind, f, runtime, passed) ==
  [ind EXCEPT !.fitness = Blended(f, runtime), !.valid = passed]

\* _evaluate_individual: the worst of everything for whoever fails.
Evaluated(ind, f, runtime, passed) ==
  [ind EXCEPT !.fitness = IF passed THEN Blended(f, runtime) ELSE [k \in DOMAIN f |-> Infinity],
              !.valid = passed]

\* _evaluate_population: who has a fitness keeps it.
Measure(individuals, f, r, p) ==
  [i \in DOMAIN individuals |->
     IF individuals[i].fitness = Unmeasured THEN Evaluated(individuals[i], f[i], r[i], p[i])
     ELSE individuals[i]]

Evaluations(individuals) ==
  LET new     == {i \in DOMAIN individuals : individuals[i].fitness = Unmeasured}
      verdict == IF Hook = "gate" THEN BOOLEAN ELSE {TRUE}
  IN {Measure(individuals, f, r, p) :
        f \in [new -> Fitness], r \in [new -> Runtime], p \in [new -> verdict]}

Valid(individuals) == \E i \in DOMAIN individuals : individuals[i].valid

Evaluate ==
  /\ phase = "evaluate"
  /\ population' \in Evaluations(population)
  /\ everValid' = (everValid \/ Valid(population'))
  /\ phase' = "breed"
  /\ UNCHANGED <<generation, parents, offspring, best_candidate, checkpoints, dropped>>

\* _select_parents: tournaments among those who lead.
MayBeParent ==
  LET n       == Cardinality(Leading(population))
      samples == {s \in [1..(IF n < 3 THEN n ELSE 3) -> Leading(population)] : IsInjective(s)}
  IN {tournament_select([k \in DOMAIN s |-> population[s[k]]]) : s \in samples}

\* _generate_offspring: a child for each pair, the rest at random.
Offspring(chosen) ==
  [i \in 1..population_size |->
     [Candidate(generation + 1, i) EXCEPT !.id = @ \o
        IF 2 * i <= Len(chosen) THEN <<chosen[2 * i - 1].id, chosen[2 * i].id>> ELSE <<>>]]

Breed ==
  /\ phase = "breed" /\ population # <<>>
  /\ \E chosen \in [1..(population_size \div 2) -> MayBeParent] :
       parents' = chosen /\ offspring' = Offspring(chosen)
  /\ phase' = "evaluate offspring"
  /\ UNCHANGED <<generation, population, best_candidate, checkpoints, everValid, dropped>>

EvaluateOffspring ==
  /\ phase = "evaluate offspring"
  /\ offspring' \in Evaluations(offspring)
  /\ everValid' = (everValid \/ Valid(offspring'))
  /\ phase' = "select"
  /\ UNCHANGED <<generation, population, parents, best_candidate, checkpoints, dropped>>

\* _update_population
Select ==
  /\ phase = "select"
  /\ population' = select_best(population \o offspring, population_size)
  /\ dropped' = (Range(population) \cup Range(offspring)) \ Range(population')
  /\ phase' = "best"
  /\ UNCHANGED <<generation, parents, offspring, best_candidate, checkpoints, everValid>>

Replaces(current) == best_candidate = NoOne \/ is_dominant(current.fitness, best_candidate.fitness)

\* _save_checkpoint: one file to each generation.
Saved(best) == Append(checkpoints, best)

\* The best so far, the checkpoint, and the next generation or the end.
UpdateBest ==
  /\ phase = "best"
  /\ LET current == get_best(population) IN
     best_candidate' = IF population # <<>> /\ Replaces(current) THEN current ELSE best_candidate
  /\ checkpoints' = Saved(best_candidate')
  /\ IF generation + 1 < max_generations
     THEN generation' = generation + 1 /\ phase' = "evaluate"
     ELSE UNCHANGED generation /\ phase' = "done"
  /\ UNCHANGED <<population, parents, offspring, everValid, dropped>>

EvolutionNext == Evaluate \/ Breed \/ EvaluateOffspring \/ Select \/ UpdateBest

EvolutionSpec == EvolutionInit /\ [][EvolutionNext]_evolution_vars
-----------------------------------------------------------------------------
\* Selection is elitist: the population keeps its size, and nobody in it is
\* dominated by one who has been left out.
EliteSurvives ==
  /\ Len(population) = population_size
  /\ phase = "best" => \A out \in dropped, i \in DOMAIN population :
       ~is_dominant(out.fitness, population[i].fitness)

\* Once any candidate has passed validation, whatever the generation, one
\* that failed it is not the best at a checkpoint, nor what evolve returns.
BestIsValid ==
  phase \in {"evaluate", "done"} /\ everValid => best_candidate.valid
=============================================================================
