---------------------------- MODULE BudgetRules ----------------------------
(***************************************************************************)
(* The pure functions of src/src/controllers/budget.ts: effective weights, *)
(* the savings goal, its reserve, and one bucket's allowance.  Money is    *)
(* whole dollars, weights and shares are percents; a reserve is counted in *)
(* hundredths and an allowance in ten-thousandths of a dollar, which makes *)
(* the fractions of the code exact.                                        *)
(***************************************************************************)
EXTENDS Naturals

CONSTANTS
    Bucket,          \* the buckets: keys of DEFAULT_WEIGHTS
    NoBucket,        \* null
    ReserveShare     \* config reserveShare

ASSUME RulesAssumption == NoBucket \notin Bucket /\ ReserveShare \in 0..100

MinOf(a, b) == IF a <= b THEN a ELSE b
MaxOf(a, b) == IF a >= b THEN a ELSE b
Minus(a, b) == IF a >= b THEN a - b ELSE 0   \* Math.max(0, a - b)

\* Cash fell by more than 90 percent.
IsAugReset(previous, current) == previous > 0 /\ 10 * current < previous

\* Faulty variant: a rush lifts its bucket and leaves the others their weights.
EffectiveWeights_RushShares(w, flags, rushed) ==
    [b \in Bucket |-> IF b = rushed /\ flags[b] THEN 100
                      ELSE IF flags[b] THEN w[b] ELSE 0]

\* computeEffectiveWeights, in percent: while an active bucket is rushed it has
\* everything; otherwise every active bucket has its weight.
EffectiveWeights(w, flags, rushed) ==
    IF rushed # NoBucket /\ flags[rushed]
    THEN [b \in Bucket |-> IF b = rushed THEN 100 ELSE 0]
    ELSE [b \in Bucket |-> IF flags[b] THEN w[b] ELSE 0]

\* Faulty variant: every pending item is a candidate.
Eligible_AnyWeight(cost, effective, feasible) ==
    {b \in Bucket : cost[b] > 0 /\ b \in feasible}

\* selectGoal: a cheapest candidate among the feasible ones with a weight; the
\* tie break by name is left open.  feasible stands for isGoalFeasible.
Eligible(cost, effective, feasible) ==
    {b \in Bucket : cost[b] > 0 /\ effective[b] > 0 /\ b \in feasible}
SelectGoal(cost, effective, feasible) ==
    LET eligible == Eligible(cost, effective, feasible)
    IN  IF eligible = {} THEN {NoBucket}
        ELSE {b \in eligible : \A c \in eligible : cost[b] <= cost[c]}

\* goalEtaSeconds is 0, which every horizon allows: cash covers cost / share.
AtGrantPoint(cost, money) == ReserveShare > 0 /\ 100 * cost <= ReserveShare * money

\* computeReserve, in hundredths; isGranted.
ComputeReserve(money, goal, cost) ==
    IF goal = NoBucket THEN 0 ELSE MinOf(100 * cost, ReserveShare * money)
IsGranted(goal, reserve, cost) == goal # NoBucket /\ reserve >= 100 * cost

\* Faulty variants: a holder over its share gets a negative allowance; the other
\* spenders see all cash; a granted goal keeps its weighted share.
HolderAllowance_Unclamped(netWorth, holding, percent) ==
    100 * (netWorth * percent) - 10000 * holding
SpenderAllowance_NoReserve(money, reserve, percent) == (100 * money) * percent
GoalAllowance_NotLifted(money, percent, granted, cost) == (100 * money) * percent

\* What computeAllowances gives one bucket, in ten-thousandths: a holder, a
\* spender, the goal's spender.
HolderAllowance(netWorth, holding, percent) ==
    Minus(100 * (netWorth * percent), 10000 * holding)
SpenderAllowance(money, reserve, percent) ==
    Minus(100 * money, reserve) * percent
GoalAllowance(money, percent, granted, cost) ==
    LET weighted == (100 * money) * percent
    IN  IF granted /\ percent > 0 THEN MaxOf(weighted, 10000 * cost) ELSE weighted
============================================================================
