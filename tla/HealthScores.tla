---------------------------- MODULE HealthScores ----------------------------
(***************************************************************************)
(* common/health.py: the health score of a resource from the scores of its *)
(* instances, metric by metric.  A score of 0..100 may be Unknown (None).  *)
(* Python's floats are exact fractions here, num / den.                    *)
(***************************************************************************)
EXTENDS Integers, Sequences, FiniteSets

CONSTANT NUM_CRS_IN_REASON   \* 10 in the code: how many names a reason shows

ASSUME ReasonAssumption == NUM_CRS_IN_REASON \in Nat \ {0}

Unknown == -1
Failed  == -2                \* division by zero, IndexError, TypeError

NoReason == [named |-> << >>, more |-> 0]
Result(num, den, reason) == [num |-> num, den |-> den, reason |-> reason]

Total(values) ==
  LET sum[n \in 0..Len(values)] == IF n = 0 THEN 0 ELSE sum[n - 1] + values[n]
  IN  sum[Len(values)]

(* The members of a finite set in an order, which is a set of pairs: the   *)
(* n-th is the one that n - 1 others come before.                          *)
InOrder(S, order) ==
  [n \in 1..Cardinality(S) |-> CHOOSE x \in S : Cardinality({y \in S : <<y, x>> \in order}) = n - 1]

\* The elements of a list at some of its places, in the order of the list.
ElementsAt(list, places) ==
  LET at == InOrder(places, {p \in places \X places : p[1] < p[2]})
  IN  [n \in DOMAIN at |-> list[at[n]]]

\* Mutated form of Sorted: as they come.
Sorted_AsGiven(instances) == instances

(* An instance is a record of cr_name and health_score; a list of them is  *)
(* sorted in place before it is read, those of one score as they come.     *)
Sorted(instances) ==
  LET places  == DOMAIN instances
      Score(i) == instances[i].score
      at == InOrder(places, {p \in places \X places :
                               \/ Score(p[1]) < Score(p[2])
                               \/ Score(p[1]) = Score(p[2]) /\ p[1] < p[2]})
  IN  [n \in DOMAIN at |-> instances[at[n]]]

ReasonOf(impacting) ==
  LET n == Len(impacting)
      k == IF n < NUM_CRS_IN_REASON THEN n ELSE NUM_CRS_IN_REASON
  IN  [named |-> [i \in 1..k |-> impacting[i].cr], more |-> n - k]

AggHealthDivideMethod(instances) ==
  LET bad == {i \in DOMAIN instances : instances[i].score # 100}
  IN  IF instances = << >> THEN Result(Failed, 1, NoReason)
      ELSE Result(Total([i \in DOMAIN instances |-> instances[i].score]), Len(instances),
                  ReasonOf(ElementsAt(instances, bad)))

AggHealthEqualMethod(instances) ==
  LET least == instances[1].score
      bad == {i \in DOMAIN instances : instances[i].score # 100 /\ instances[i].score = least}
  IN  IF instances = << >> THEN Result(Failed, 1, NoReason)
      ELSE Result(least, 1, ReasonOf(ElementsAt(instances, bad)))

CalculateAggHealthScoreForMetric(instances, method) ==
  IF \E i \in DOMAIN instances : instances[i].score = Unknown
  THEN Result(Unknown, 1, NoReason)
  ELSE IF method = "divide" THEN AggHealthDivideMethod(Sorted(instances))
       ELSE AggHealthEqualMethod(Sorted(instances))

(* metrics: a sequence of [weight, result].  No answer (Unknown) without   *)
(* a weight; multiplying an unknown score raises.                          *)
CalculateOverallHealthScore(metrics) ==
  LET weights == Total([i \in DOMAIN metrics |-> metrics[i].weight])
      sum[n \in 0..Len(metrics)] ==
        IF n = 0 THEN [num |-> 0, den |-> 1]
        ELSE LET score == metrics[n].result
             IN  [num |-> sum[n - 1].num * score.den + metrics[n].weight * score.num * sum[n - 1].den,
                  den |-> sum[n - 1].den * score.den]
      all == sum[Len(metrics)]
  IN  IF \E i \in DOMAIN metrics : metrics[i].result.num < 0 THEN Failed
      ELSE IF weights = 0 THEN Unknown ELSE all.num \div (all.den * weights)
=============================================================================
