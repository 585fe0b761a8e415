CONSTANTS
  use_crowding = TRUE
  population_size = 2
  max_generations = 2
  Runtime <- MCRuntime
  Fitness <- MCFitness
  Hook = "gate"
SPECIFICATION EvolutionSpec
INVARIANTS EliteSurvives BestIsValid
\* evolve returns.
CHECK_DEADLOCK FALSE
