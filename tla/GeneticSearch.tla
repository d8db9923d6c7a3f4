---------------------------- MODULE GeneticSearch ----------------------------
(***************************************************************************)
(* ga.py: run_ga() evolves a population of fault sets of one order.  Each  *)
(* generation is one Pool.map over the population, taken here as one step: *)
(* Campaign shows that its rows come back in the population's order.  The  *)
(* random generator is a nondeterministic choice among what it can draw.   *)
(*                                                                         *)
(* A fitness is counted in tenths of a checkpoint: 1.0 is                  *)
(* 10 * Checkpoints.                                                       *)
(***************************************************************************)
EXTENDS Integers, Sequences, FiniteSets, FaultSets, Campaign

CONSTANTS
  Checkpoints,        \* bits of golden_marks, at least 1
  Achieved(_),        \* bits of golden_marks that a marks word has
  Order, Population, Generations, EliteN, ImmigrantN, TournamentSize,
  MinSeparation       \* GAConfig, with elite_n and immigrant_n as run_ga
                      \* computes them

ASSUME GAAssumption ==
  /\ Order \in Nat \ {0} /\ Population \in Nat \ {0} /\ Generations \in Nat \ {0}
  /\ EliteN \in Nat \ {0} /\ ImmigrantN \in Nat /\ TournamentSize \in Nat \ {0}
  /\ Checkpoints \in Nat \ {0}

VARIABLES
  search,             \* run_ga: idle, evaluating, breeding, found, exhausted,
                      \* raised
  candidates,         \* the gene pool
  generation,
  population,
  scored,             \* <<fitness, fault set, row>>, best first
  nextGen,
  best,               \* best_fit, best_fs, best_row
  history             \* the best fitness of every generation

gaVars == <<search, candidates, generation, population, scored, nextGen, best,
            history>>

Exploit == 10 * Checkpoints

Fitness(row) ==
  CASE row.outcome \in {"SEC_BYPASS", "SAFETY_VIOLATION"} -> Exploit
    [] row.outcome = "SDC" -> 5 * Checkpoints + 4 * Achieved(row.marks)
    [] row.outcome \in {"CRASH", "HANG"} -> Achieved(row.marks)
    [] OTHER -> 0

-----------------------------------------------------------------------------
(***************************************************************************)
(* rng.sample(pool, k): distinct positions, in any order.                  *)
(***************************************************************************)
Samples(pool, k) == {FaultSet(c) : c \in ToSet(Combinations(pool, k))}

(***************************************************************************)
(* _random_individual(): up to 50 samples, the last one kept even when     *)
(* none was separated.                                                     *)
(***************************************************************************)
RandomIndividuals == Samples(candidates, Order)

(***************************************************************************)
(* _mutate(): one fault replaced by any of the pool, if the result is      *)
(* separated; the individual itself when no try was.                       *)
(***************************************************************************)
Bug_Mutants(fs) ==    \* the separation of the mutant is not checked
  {FaultSet([fs EXCEPT ![i] = candidates[c]]) :
     i \in DOMAIN fs, c \in DOMAIN candidates}

Mutants(fs) ==
  {fs} \cup {FaultSet(m) : m \in
     {x \in {[fs EXCEPT ![i] = candidates[c]] :
               i \in DOMAIN fs, c \in DOMAIN candidates} :
        Separated(x, MinSeparation)}}

(***************************************************************************)
(* _crossover(): a separated sample of the parents' distinct faults, or    *)
(* one of the parents.                                                     *)
(***************************************************************************)
Children(a, b) ==
  LET genes == ToSet(a) \cup ToSet(b)
      drawn == {FaultSet(SetToSeq(S)) : S \in kSubset(Order, genes)}
  IN  {a, b} \cup {fs \in drawn : Separated(fs, MinSeparation)}

(***************************************************************************)
(* _tournament(): a best of a random sample of the ranking.                *)
(***************************************************************************)
Winners ==
  LET k == Min({TournamentSize, Len(scored)})
  IN  {scored[i][2] : i \in {j \in DOMAIN scored :
         Cardinality({o \in DOMAIN scored \ {j} : scored[o][1] <= scored[j][1]})
           >= k - 1}}

-----------------------------------------------------------------------------
NoBest == [fit |-> -1, fs |-> <<>>, row |-> <<>>]

GAInit ==
  /\ search = "idle" /\ candidates = <<>> /\ generation = 0
  /\ population = <<>> /\ scored = <<>> /\ nextGen = <<>>
  /\ best = NoBest /\ history = <<>>

RunGA(pool) ==
  /\ search = "idle" /\ Len(pool) >= Order
  /\ candidates' = pool
  /\ population' \in [1..Population -> Samples(pool, Order)]
  /\ search' = "evaluating"
  /\ UNCHANGED <<generation, scored, nextGen, best, history>>

(***************************************************************************)
(* rows zipped with the population, sorted by fitness, best first, equals  *)
(* in the population's order.                                              *)
(***************************************************************************)
Bug_Scored ==         \* rows sorted before they are zipped
  LET rows == SortSeq([i \in DOMAIN population |-> RowOf(population[i])],
                      LAMBDA r, s : Fitness(r) > Fitness(s))
  IN  [i \in DOMAIN population |-> <<Fitness(rows[i]), population[i], rows[i]>>]

IsRanking(place, fit) ==        \* a permutation, and stable
  /\ \A m \in DOMAIN fit : \E k \in DOMAIN fit : place[k] = m
  /\ \A i, j \in DOMAIN fit : i < j =>
       \/ fit[place[i]] > fit[place[j]]
       \/ fit[place[i]] = fit[place[j]] /\ place[i] < place[j]

Ranking(fit) ==
  CHOOSE place \in [DOMAIN fit -> DOMAIN fit] : IsRanking(place, fit)

Scored ==
  LET row == [i \in DOMAIN population |-> RowOf(population[i])]
      place == Ranking([i \in DOMAIN population |-> Fitness(row[i])])
  IN  [k \in DOMAIN population |->
         <<Fitness(row[place[k]]), population[place[k]], row[place[k]]>>]

Bug_Elites(ranking) ==          \* taken from the population, unsorted
  [i \in 1..Min({EliteN, Len(ranking)}) |-> population[i]]

Elites(ranking) ==
  [i \in 1..Min({EliteN, Len(ranking)}) |-> ranking[i][2]]

Raises == \E i \in DOMAIN population : population[i] \in RaisesOn

Evaluate ==
  /\ search = "evaluating" /\ generation < Generations /\ ~Raises
  /\ scored' = Scored
  /\ best' = IF scored'[1][1] > best.fit
             THEN [fit |-> scored'[1][1], fs |-> scored'[1][2],
                   row |-> scored'[1][3]]
             ELSE best
  /\ history' = Append(history, scored'[1][1])
  /\ IF best'.fit >= Exploit
     THEN search' = "found" /\ nextGen' = <<>>
     ELSE search' = "breeding" /\ nextGen' = Elites(scored')
  /\ generation' = generation + 1
  /\ UNCHANGED <<candidates, population>>

Immigrate ==
  /\ search = "breeding" /\ Len(nextGen) < EliteN + ImmigrantN
  /\ \E fs \in RandomIndividuals : nextGen' = Append(nextGen, fs)
  /\ UNCHANGED <<search, candidates, generation, population, scored, best, history>>

Breed ==
  /\ search = "breeding"
  /\ EliteN + ImmigrantN <= Len(nextGen) /\ Len(nextGen) < Population
  /\ \E a, b \in Winners : \E child \in Children(a, b) :
       \E fs \in {child} \cup Mutants(child) : nextGen' = Append(nextGen, fs)
  /\ UNCHANGED <<search, candidates, generation, population, scored, best, history>>

NextGeneration ==
  /\ search = "breeding"
  /\ Len(nextGen) >= Population /\ Len(nextGen) >= EliteN + ImmigrantN
  /\ population' = nextGen
  /\ nextGen' = <<>>
  /\ search' = "evaluating"
  /\ UNCHANGED <<candidates, generation, scored, best, history>>

GiveUp ==
  /\ search = "evaluating" /\ generation = Generations
  /\ search' = "exhausted"
  /\ UNCHANGED <<candidates, generation, population, scored, nextGen, best, history>>

RaiseGA ==            \* what a worker raises ends the search without a result
  /\ search = "evaluating" /\ generation < Generations /\ Raises
  /\ search' = "raised"
  /\ UNCHANGED <<candidates, generation, population, scored, nextGen, best, history>>

GANext ==
  Evaluate \/ RaiseGA \/ Immigrate \/ Breed \/ NextGeneration \/ GiveUp

-----------------------------------------------------------------------------
(***************************************************************************)
(* The best individual is reported with the row that its own run returned, *)
(* and `found` means that this very fault set is an exploit: zipping,      *)
(* sorting and keeping it over the generations never pairs a fault set     *)
(* with another one's row (run_ga, ga.py:171-183).                         *)
(***************************************************************************)
BestIsItsOwn ==
  /\ best # NoBest => best.row = RowOf(best.fs)
                      /\ best.fit = Fitness(RowOf(best.fs))
  /\ search = "found" <=>
       best # NoBest /\ best.row.outcome \in {"SEC_BYPASS", "SAFETY_VIOLATION"}

(***************************************************************************)
(* Elitism keeps what was reached: no generation is worse than one before  *)
(* it, and the reported best is the best of all (elites, ga.py:186).       *)
(***************************************************************************)
NeverLosesBest ==
  /\ \A i, j \in DOMAIN history : i <= j => history[i] <= history[j]
  /\ history # <<>> => best.fit = history[Len(history)]

(***************************************************************************)
(* What makes it inductive: the fittest individual so far comes first in   *)
(* the generation that is bred or evaluated next.                          *)
(***************************************************************************)
EliteInv ==
  /\ history \in Seq(Nat) /\ NeverLosesBest
  /\ history = <<>> => best = NoBest
  /\ search = "idle" => history = <<>>
  /\ search = "breeding" => history # <<>> /\ nextGen # <<>>
  /\ search = "evaluating" /\ history # <<>> =>
       Fitness(RowOf(population[1])) = history[Len(history)]
  /\ search = "breeding" => Fitness(RowOf(nextGen[1])) = history[Len(history)]

(***************************************************************************)
(* An experiment whose faults are too close together can only be drawn by  *)
(* _random_individual's fallback: crossover and mutation never make one,   *)
(* so it is an initial individual, an immigrant or a copy of one           *)
(* (_valid, _mutate, _crossover).                                          *)
(***************************************************************************)
BreedingKeepsSeparation ==
  [][Breed => LET bred == Last(nextGen')
              IN  Separated(bred, MinSeparation) \/ bred \in ToSet(population)]_gaVars
=============================================================================
