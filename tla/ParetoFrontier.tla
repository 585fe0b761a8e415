--------------------------- MODULE ParetoFrontier ---------------------------
(***************************************************************************)
(* ParetoOptimizer of src/evolution/pareto_frontier.py.  A fitness is a    *)
(* function from objectives to numbers, all of them to be small; a         *)
(* population is a sequence of records with a field fitness.               *)
(***************************************************************************)
EXTENDS Integers, FiniteSets, Sequences, SequencesExt

CONSTANT use_crowding \* the configuration's crowding_distance

ASSUME ParetoAssumption == use_crowding \in BOOLEAN

Infinity == 1000

\* is_dominant compares the objectives that both have.
is_dominant(a, b) ==
  LET keys == DOMAIN a \cap DOMAIN b
  IN /\ \A k \in keys : a[k] <= b[k]
     /\ \E k \in keys : a[k] < b[k]

Dominates(pop, i, j) == is_dominant(pop[i].fitness, pop[j].fitness)

\* analyze_frontier: the places of those that nobody dominates.
NonDominated(pop) == {i \in DOMAIN pop : \A j \in DOMAIN pop : ~Dominates(pop, j, i)}

\* sorted: the positions of some keys, the smallest key first, and those of one
\* key as they stand.
Sorted(key) ==
  LET earlier(p) == {q \in DOMAIN key : key[q] < key[p] \/ (key[q] = key[p] /\ q < p)}
  IN [k \in 1..Cardinality(DOMAIN key) |->
        CHOOSE p \in DOMAIN key : Cardinality(earlier(p)) = k - 1]

\* The next front is found member by member of the one before it: each place is
\* appended when the last of those that dominate it is looked at.
NextFront(pop, front, places) ==
  LET dominators(i) == {p \in DOMAIN front : Dominates(pop, front[p], i)} \cup {0}
  IN Sorted([i \in places |-> CHOOSE p \in dominators(i) : \A q \in dominators(i) : q <= p])

\* _non_dominated_sort: the n-th front, and who is left after it; whoever is
\* dominated by members of earlier fronts only is in the next.
Peeled(pop, turn) ==
  LET places == {i \in turn.rest : \A j \in turn.rest : ~Dominates(pop, j, i)}
  IN [front |-> NextFront(pop, turn.front, places), rest |-> turn.rest \ places]

Fronts(pop) ==
  LET turn[n \in 0..Len(pop)] ==
        IF n = 0 THEN [front |-> <<>>, rest |-> DOMAIN pop] ELSE Peeled(pop, turn[n - 1])
  IN [n \in 1..Len(pop) |-> turn[n].front]

\* A number in twelfths, so that the quotients of small numbers are whole.
Quotient(a, b) == IF b < 0 THEN (-12 * a) \div (-b) ELSE (12 * a) \div b

\* _crowding_distance of the members of a front, for one of the objectives:
\* who lacks it is sorted last and counted as 0. (Where the extremes are
\* infinite all are, and it makes no difference which of them is taken.)
CrowdingFor(obj, pop, front) ==
  LET n == Len(front)
      Has(p)  == obj \in DOMAIN pop[front[p]].fitness
      Key(p)  == IF Has(p) THEN pop[front[p]].fitness[obj] ELSE Infinity
      Num(p)  == IF Has(p) THEN pop[front[p]].fitness[obj] ELSE 0
      sorted  == Sorted([p \in 1..n |-> Key(p)])
      span    == Num(sorted[n]) - Num(sorted[1])
  IN [p \in 1..n |->
        LET at == CHOOSE k \in 1..n : sorted[k] = p
        IN IF at \in {1, n} THEN Infinity
           ELSE IF span = 0 THEN 0
           ELSE Quotient(Num(sorted[at + 1]) - Num(sorted[at - 1]), span)]

\* The sum over the objectives of the first member; whoever is an extreme in
\* one of them is infinitely far from the others.
Crowding(pop, front) ==
  LET n == Len(front)
      objectives == SetToSeq(DOMAIN pop[front[1]].fitness)
      plus(a, b) == IF Infinity \in {a, b} THEN Infinity ELSE a + b
      distance(p) ==
        LET sum[m \in 0..Len(objectives)] ==
              IF m = 0 THEN 0
              ELSE plus(sum[m - 1], CrowdingFor(objectives[m], pop, front)[p])
        IN sum[Len(objectives)]
  IN [p \in 1..n |-> IF n <= 2 THEN Infinity ELSE distance(p)]

At(s, places) == [r \in DOMAIN places |-> s[places[r]]]

\* The places of a front, the least crowded first.
LeastCrowded(pop, front) ==
  LET cd == Crowding(pop, front)
      ranked == Sorted([p \in DOMAIN cd |-> -cd[p]])
  IN At(front, ranked)

\* A regression: all are ranked by how crowded they are, whatever their front.
SelectSpread(pop, count) ==
  LET all == LeastCrowded(pop, [i \in DOMAIN pop |-> i])
  IN [r \in 1..count |-> pop[all[r]]]

Ranked(pop, front) == IF use_crowding THEN LeastCrowded(pop, front) ELSE front

\* A front is taken whole if it fits, else the least crowded of it, or its first.
Taken(pop, count, chosen, front) ==
  IF Len(chosen) + Len(front) <= count THEN chosen \o front
  ELSE chosen \o SubSeq(Ranked(pop, front), 1, count - Len(chosen))

select_best(pop, count) ==
  LET fronts == Fronts(pop)
      chosen[n \in 0..Len(fronts)] ==
        IF n = 0 THEN <<>> ELSE Taken(pop, count, chosen[n - 1], fronts[n])
  IN At(pop, chosen[Len(fronts)])

\* get_best: the least crowded of the first front; where everybody is dominated
\* the first of all.
get_best(pop) ==
  LET front == Fronts(pop)[1]
  IN pop[IF front = <<>> THEN 1 ELSE LeastCrowded(pop, front)[1]]

\* Those nobody dominates, or all if there are none.
Leading(pop) == IF NonDominated(pop) = {} THEN DOMAIN pop ELSE NonDominated(pop)

\* tournament_select: the first of those who lead in the sample.
tournament_select(sample) ==
  sample[CHOOSE i \in Leading(sample) : \A j \in Leading(sample) : i <= j]
=============================================================================
