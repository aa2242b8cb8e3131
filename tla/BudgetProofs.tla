---------------------------- MODULE BudgetProofs ----------------------------
(***************************************************************************)
(* What TLAPS proves of Budget for every set of buckets, weights, prices,  *)
(* messages, market values and port capacity that the named assumptions of *)
(* Budget admit: first what each tick grants and saves, then the accounts, *)
(* flags and resets, with the messages that are in the port.               *)
(***************************************************************************)
EXTENDS Budget, SequenceTheorems, FoldTheorems

---------------------------------------------------------------------------
(* Arithmetic and typing helpers. *)

LEMMA MulNat == \A x, p \in Nat : x * p \in Nat
  BY SMT

LEMMA MulMono == ASSUME NEW x \in Nat, NEW p \in Nat, NEW q \in Nat, p <= q
                 PROVE  x * p <= x * q
<1>1. PICK d \in Nat : q = p + d
  BY SMT
<1>2. x * q = x * p + x * d
  BY <1>1, SMT
<1>. QED  BY <1>2, MulNat, SMT

\* Changing one bucket's value keeps a function a function.
LEMMA UpdateType ==
  ASSUME NEW f \in [Bucket -> Nat], NEW b \in Bucket, NEW n \in Nat
  PROVE  [f EXCEPT ![b] = n] \in [Bucket -> Nat]
  OBVIOUS

LEMMA SendType ==
  ASSUME TypeOK, NEW m \in Message, Send(m) PROVE port' \in Seq(Message)
  BY RulesAssumption, ConfigAssumption DEF TypeOK, Send

LEMMA TakeType ==
  ASSUME TypeOK, NEW kind, Take(kind)
  PROVE  message.bucket \in Bucket /\ message.amount \in Nat /\ port' \in Seq(Message)
<1>1. message \in Message /\ port' \in Seq(Message)
  BY HeadTailProperties DEF TypeOK, Take, message
<1>. QED  BY <1>1 DEF Message

LEMMA InitType == Init => TypeOK
<1>. SUFFICES ASSUME Init PROVE TypeOK
  OBVIOUS
<1>1. Zero \in [Bucket -> Nat] /\ [b \in Bucket |-> TRUE] \in [Bucket -> BOOLEAN]
  BY DEF Zero
<1>2. DefaultWeight \in [Bucket -> Nat] /\ InitialCash \subseteq 0..MaxCash
  BY RulesAssumption, ConfigAssumption, EnvironmentAssumption
<1>3. cash \in 0..MaxCash /\ port \in Seq(Message) /\ marker \subseteq Bucket
  BY <1>2 DEF Init
<1>4. disk \in PersistedState
  BY <1>1, <1>2 DEF Init, DefaultState, PersistedState
<1>5. status \in BudgetStatus
  BY <1>1 DEF Init, NoStatus, BudgetStatus
<1>6. active \in [Bucket -> BOOLEAN]
  BY <1>1 DEF Init, DefaultState
<1>. QED  BY <1>1, <1>2, <1>3, <1>4, <1>5, <1>6 DEF Init, TypeOK

\* The handlers change a setting at the message's bucket and nothing else.
LEMMA HandleMessageType == ASSUME TypeOK, HandleMessage PROVE TypeOK'
<1>. USE DEF history, messageHistory
<1>0. message.bucket \in Bucket /\ message.amount \in Nat /\ port' \in Seq(Message)
  BY TakeType DEF HandleMessage, HandlePurchased, HandleDone, HandleReportCap,
     HandleReportNext, HandleRush, HandleWeights, HandleReactivate, HandleFreeze,
     HandleUnfreeze
<1>b. message.bucket \in Bucket
  BY <1>0
<1>w. weights \in [Bucket -> Nat] /\ saved \in [Bucket -> Nat] /\ frozen \subseteq Bucket
  BY DEF TypeOK
<1>t. /\ spent \in [Bucket -> Nat] /\ caps \in [Bucket -> Nat] /\ spending \in Nat
  BY DEF TypeOK
<1>1. CASE HandlePurchased
  <2>1. spent[message.bucket] + message.amount \in Nat
    BY <1>0, <1>t
  <2>2. spent' \in [Bucket -> Nat]
    BY <1>0, <1>t, <1>1, <2>1 DEF HandlePurchased
  <2>3. spending' \in Nat
    BY <1>0, <1>t, <1>1 DEF HandlePurchased
  <2>. QED  BY <1>0, <1>1, <2>2, <2>3 DEF HandlePurchased, Take, TypeOK
<1>2. CASE HandleDone
  BY <1>0, <1>2 DEF HandleDone, Take, TypeOK
<1>3. CASE HandleReportCap
  <2>1. spent[message.bucket] + message.amount \in Nat
    BY <1>0, <1>t
  <2>2. caps' \in [Bucket -> Nat]
    BY <1>0, <1>t, <1>3, <2>1 DEF HandleReportCap
  <2>. QED  BY <1>0, <1>3, <2>2 DEF HandleReportCap, Take, TypeOK
<1>4. CASE HandleReportNext
  BY <1>0, <1>4 DEF HandleReportNext, Take, TypeOK, settings
<1>5. CASE HandleRush
  BY <1>0, <1>5 DEF HandleRush, Take, TypeOK
<1>6. CASE HandleWeights
  BY <1>0, <1>6, RulesAssumption, ConfigAssumption DEF HandleWeights, Take, TypeOK
<1>7. CASE HandleReactivate
  BY <1>0, <1>7 DEF HandleReactivate, Take, TypeOK
<1>8. CASE HandleFreeze
  <2>1. weights[message.bucket] \in Nat
    BY <1>b, <1>w
  <2>2. weights' \in [Bucket -> Nat]
    BY <1>b, <1>w, <1>8 DEF HandleFreeze
  <2>3. saved' \in [Bucket -> Nat]
    BY <1>b, <1>w, <1>8, <2>1 DEF HandleFreeze
  <2>4. frozen' \subseteq Bucket
    BY <1>b, <1>w, <1>8 DEF HandleFreeze
  <2>. QED  BY <1>0, <1>8, <2>2, <2>3, <2>4 DEF HandleFreeze, Take, TypeOK
<1>9. CASE HandleUnfreeze
  <2>1. saved[message.bucket] \in Nat
    BY <1>b, <1>w
  <2>2. weights' \in [Bucket -> Nat]
    BY <1>b, <1>w, <1>9, <2>1 DEF HandleUnfreeze
  <2>3. saved' \in [Bucket -> Nat]
    BY <1>b, <1>w, <1>9 DEF HandleUnfreeze
  <2>4. frozen' \subseteq Bucket
    BY <1>b, <1>w, <1>9 DEF HandleUnfreeze
  <2>. QED  BY <1>0, <1>9, <2>2, <2>3, <2>4 DEF HandleUnfreeze, Take, TypeOK
<1>. QED  BY <1>1, <1>2, <1>3, <1>4, <1>5, <1>6, <1>7, <1>8, <1>9 DEF HandleMessage

LEMMA StartType == ASSUME TypeOK, Start PROVE TypeOK'
<1>1. /\ weights' \in [Bucket -> Nat] /\ active' \in [Bucket -> BOOLEAN]
      /\ rush' \in Bucket \cup {NoBucket}
      /\ frozen' \subseteq Bucket /\ saved' \in [Bucket -> Nat]
      /\ spent' \in [Bucket -> Nat] /\ caps' \in [Bucket -> Nat]
  BY DEF Start, TypeOK, PersistedState
<1>2. pending' \in [Bucket -> Nat] /\ spending' \in Nat
  BY DEF Start, Zero
<1>3. prevCash' \in Nat
  BY RulesAssumption, ConfigAssumption DEF Start, TypeOK
<1>. QED  BY <1>1, <1>2, <1>3 DEF Start, TypeOK, history

LEMMA WakeType == ASSUME TypeOK, Wake PROVE TypeOK'
  BY DEF Wake, TypeOK, settings, history

LEMMA ZeroAccountsType ==
  ASSUME TypeOK, ZeroAccounts, NEW n \in Nat, SaveState(n)
  PROVE  /\ weights' \in [Bucket -> Nat] /\ active' \in [Bucket -> BOOLEAN]
         /\ rush' = NoBucket /\ frozen' \subseteq Bucket /\ saved' \in [Bucket -> Nat]
         /\ spent' = Zero /\ caps' = Zero
         /\ prevCash' = cash /\ marker' = {} /\ Zero \in [Bucket -> Nat]
         /\ disk' \in PersistedState
  BY DEF TypeOK, ZeroAccounts, SaveState, Zero, PersistedState

LEMMA StartLoopType == ASSUME TypeOK, StartLoop PROVE TypeOK'
<1>0. cash \in Nat
  BY RulesAssumption, ConfigAssumption DEF TypeOK
<1>1. CASE IsAugReset(prevCash, cash + spending)
  BY <1>0, <1>1, ZeroAccountsType DEF StartLoop, TypeOK
<1>2. CASE ~IsAugReset(prevCash, cash + spending)
  BY <1>2 DEF StartLoop, TypeOK, settings
<1>. QED  BY <1>1, <1>2

LEMMA ResetTickType == ASSUME TypeOK, ResetTick PROVE TypeOK'
<1>0. cash \in Nat
  BY RulesAssumption, ConfigAssumption DEF TypeOK
<1>. QED  BY <1>0, ZeroAccountsType DEF ResetTick, TypeOK

---------------------------------------------------------------------------
(* The pure functions. *)

LEMMA LiftedWeightsType ==
  ASSUME TypeOK, NEW has4S \in BOOLEAN
  PROVE  LiftedWeights(has4S) \in [Bucket -> Nat]
<1>1. weights \in [Bucket -> Nat]
  BY DEF TypeOK
<1>. QED  BY <1>1, RulesAssumption, BucketAssumption, ConfigAssumption DEF LiftedWeights

LEMMA EffectiveWeightsType ==
  ASSUME NEW w \in [Bucket -> Nat], NEW flags \in [Bucket -> BOOLEAN],
         NEW rushed \in Bucket \cup {NoBucket}
  PROVE  EffectiveWeights(w, flags, rushed) \in [Bucket -> Nat]
  BY DEF EffectiveWeights

LEMMA SelectGoalType ==
  ASSUME NEW cost, NEW effective, NEW feasible,
         NEW goal \in SelectGoal(cost, effective, feasible)
  PROVE  /\ goal \in Bucket \cup {NoBucket}
         /\ goal # NoBucket => cost[goal] > 0 /\ effective[goal] > 0
  BY RulesAssumption, BucketAssumption DEF SelectGoal, Eligible

\* The reserve is at most the price and at most all cash.
LEMMA ReserveBound ==
  ASSUME NEW money \in Nat, NEW goal, NEW cost \in Nat
  PROVE  /\ ComputeReserve(money, goal, cost) \in Nat
         /\ ComputeReserve(money, goal, cost) <= 100 * money
         /\ IsGranted(goal, ComputeReserve(money, goal, cost), cost) => cost <= money
         /\ goal # NoBucket /\ AtGrantPoint(cost, money)
              => IsGranted(goal, ComputeReserve(money, goal, cost), cost)
<1>1. ReserveShare \in Nat /\ ReserveShare <= 100
  BY RulesAssumption, ConfigAssumption
<1>2. money * ReserveShare <= money * 100 /\ ReserveShare * money = money * ReserveShare
  BY <1>1, MulMono, SMT
<1>3. ReserveShare * money \in Nat
  BY <1>1, MulNat
<1>. QED  BY <1>2, <1>3, SMT DEF ComputeReserve, IsGranted, AtGrantPoint, MinOf

LEMMA SpenderAllowanceBound ==
  ASSUME NEW money \in Nat, NEW reserve \in Nat, NEW percent \in Nat,
         reserve <= 100 * money
  PROVE  /\ SpenderAllowance(money, reserve, percent) \in Nat
         /\ percent <= 100 =>
              SpenderAllowance(money, reserve, percent) + 100 * reserve <= 10000 * money
<1>1. Minus(100 * money, reserve) = 100 * money - reserve
  BY SMT DEF Minus
<1>2. 100 * money - reserve \in Nat
  BY SMT
<1>3. (100 * money - reserve) * percent \in Nat
  BY <1>2, MulNat
<1>4. percent <= 100 => (100 * money - reserve) * percent <= (100 * money - reserve) * 100
  BY <1>2, MulMono
<1>. QED  BY <1>1, <1>2, <1>3, <1>4, SMT DEF SpenderAllowance

LEMMA HolderAllowanceNat ==
  ASSUME NEW netWorth \in Nat, NEW holding \in Nat, NEW percent \in Nat
  PROVE  HolderAllowance(netWorth, holding, percent) \in Nat
<1>1. netWorth * percent \in Nat
  BY MulNat
<1>. QED  BY <1>1, SMT DEF HolderAllowance, Minus

LEMMA GoalAllowanceNat ==
  ASSUME NEW money \in Nat, NEW percent \in Nat, NEW granted \in BOOLEAN,
         NEW cost \in Nat
  PROVE  GoalAllowance(money, percent, granted, cost) \in Nat
<1>1. (100 * money) * percent \in Nat
  BY MulNat, SMT
<1>. QED  BY <1>1, SMT DEF GoalAllowance, MaxOf

LEMMA ComputeAllowancesType ==
  ASSUME NEW money \in Nat, NEW market \in Market, NEW effective \in [Bucket -> Nat],
         NEW goal, NEW cost \in Nat, NEW reserve \in Nat, reserve <= 100 * money
  PROVE  ComputeAllowances(money, market, effective, goal, cost, reserve)
            \in [Bucket -> Nat]
<1>1. market.portfolio \in Nat /\ market.funds \in Nat
  BY EnvironmentAssumption
<1>2. money + market.portfolio + market.funds \in Nat
  BY <1>1, SMT
<1>3. IsGranted(goal, reserve, cost) \in BOOLEAN
  BY SMT DEF IsGranted
<1>4. \A b \in Bucket : effective[b] \in Nat
  OBVIOUS
<1>5. \A b \in Bucket :
        HolderAllowance(money + market.portfolio + market.funds,
            IF b = stocks THEN market.portfolio ELSE market.funds, effective[b]) \in Nat
  BY <1>1, <1>2, <1>4, HolderAllowanceNat
<1>6. \A b \in Bucket : SpenderAllowance(money, reserve, effective[b]) \in Nat
  <2>1. \A p \in Nat : SpenderAllowance(money, reserve, p) \in Nat
    BY SpenderAllowanceBound
  <2>. QED  BY <1>4, <2>1, Zenon
<1>7. \A b \in Bucket :
        GoalAllowance(money, effective[b], IsGranted(goal, reserve, cost), cost) \in Nat
  <2>1. \A p \in Nat, g \in BOOLEAN : GoalAllowance(money, p, g, cost) \in Nat
    BY GoalAllowanceNat
  <2>. QED  BY <1>3, <1>4, <2>1, Zenon
<1>. QED  BY <1>5, <1>6, <1>7 DEF ComputeAllowances

---------------------------------------------------------------------------
(* What a tick publishes. *)

\* A message that is not a holder's next purchase.
SpenderMessage == {m \in Message : m.action = "report-next" => m.bucket \notin Holder}

\* No holder ever saves for a purchase, so that the goal is always a spender.
HoldersDoNotSave ==
    /\ port \in Seq(SpenderMessage)
    /\ \A h \in Holder : pending[h] = 0

LEMMA StatusOfType ==
  ASSUME cash \in Nat, NEW market \in Market, NEW effective \in [Bucket -> Nat],
         NEW goal \in Bucket \cup {NoBucket}, NEW price \in Nat,
         NEW rushed \in Bucket \cup {NoBucket}
  PROVE  StatusOf(market, effective, goal, price, rushed) \in BudgetStatus
<1>. DEFINE reserve == ComputeReserve(cash, goal, price)
<1>1. reserve \in Nat /\ reserve <= 100 * cash
  BY ReserveBound
<1>2. ComputeAllowances(cash, market, effective, goal, price, reserve) \in [Bucket -> Nat]
  BY <1>1, ComputeAllowancesType
<1>3. IsGranted(goal, reserve, price) \in BOOLEAN
  BY SMT DEF IsGranted
<1>. QED  BY <1>1, <1>2, <1>3 DEF StatusOf, BudgetStatus

\* The four promises of a published status, from what PublishTick knows of it.
LEMMA StatusOfSafe ==
  ASSUME cash \in Nat, NEW market \in Market, NEW effective \in [Bucket -> Nat],
         NEW goal \in Spender \cup {NoBucket}, NEW price \in Nat,
         NEW rushed \in Bucket \cup {NoBucket},
         goal # NoBucket => effective[goal] > 0 /\ rushed = NoBucket,
         rushed # NoBucket =>
            goal = NoBucket /\ effective = [b \in Bucket |-> IF b = rushed THEN 100 ELSE 0],
         status' = StatusOf(market, effective, goal, price, rushed)
  PROVE  ReserveHidden' /\ GrantCovered' /\ GoalEligible' /\ RushExclusive'
<1>. DEFINE reserve == ComputeReserve(cash, goal, price)
            granted == IsGranted(goal, reserve, price)
            worth == cash + market.portfolio + market.funds
            held(b) == IF b = stocks THEN market.portfolio ELSE market.funds
<1>1. reserve \in Nat /\ reserve <= 100 * cash
  BY ReserveBound
<1>2. granted \in BOOLEAN
  BY SMT DEF IsGranted
<1>3. NoBucket \notin Bucket /\ Holder \subseteq Bucket
  BY RulesAssumption, BucketAssumption
<1>4. /\ status'.effective = effective /\ status'.cash = cash /\ status'.goal = goal
      /\ status'.cost = price /\ status'.reserve = reserve
      /\ status'.granted = granted /\ status'.rush = rushed
      /\ status'.allowance = ComputeAllowances(cash, market, effective, goal, price, reserve)
  BY DEF StatusOf
<1>5. \A b \in Spender \ {goal} :
        status'.allowance[b] = SpenderAllowance(cash, reserve, effective[b])
  BY <1>4 DEF ComputeAllowances, Spender
<1>6. goal # NoBucket =>
        status'.allowance[goal] = GoalAllowance(cash, effective[goal], granted, price)
  BY <1>3, <1>4 DEF ComputeAllowances, Spender
<1>7. \A b \in Holder :
        status'.allowance[b] = HolderAllowance(worth, held(b), effective[b])
  BY <1>3, <1>4 DEF ComputeAllowances
<1>8. ReserveHidden'
  <2>1. \A b \in Spender \ {goal} : effective[b] <= 100
            => SpenderAllowance(cash, reserve, effective[b]) + 100 * reserve <= 10000 * cash
    BY <1>1, SpenderAllowanceBound DEF Spender
  <2>. QED  BY <2>1, <1>4, <1>5 DEF ReserveHidden
<1>9. GrantCovered'
  <2>1. ASSUME granted, goal # NoBucket
        PROVE  10000 * price <= GoalAllowance(cash, effective[goal], granted, price)
    <3>1. effective[goal] \in Nat /\ effective[goal] > 0
      BY <2>1 DEF Spender
    <3>2. GoalAllowance(cash, effective[goal], granted, price)
            = MaxOf((100 * cash) * effective[goal], 10000 * price)
      BY <2>1, <3>1 DEF GoalAllowance
    <3>3. (100 * cash) * effective[goal] \in Nat
      BY <3>1, MulNat, SMT
    <3>4. 10000 * price <= MaxOf((100 * cash) * effective[goal], 10000 * price)
      BY <3>3, SMT DEF MaxOf
    <3>. QED  BY <3>2, <3>4
  <2>2. /\ granted => price <= cash
        /\ goal # NoBucket /\ AtGrantPoint(price, cash) => granted
    BY ReserveBound
  <2>. QED  BY <2>1, <2>2, <1>4, <1>6 DEF GrantCovered, AtGrantPoint
<1>10. GoalEligible'
  BY <1>4 DEF GoalEligible
<1>11. RushExclusive'
  <2>. SUFFICES ASSUME rushed # NoBucket PROVE RushExclusive'
    BY <1>4 DEF RushExclusive
  <2>1. reserve = 0 /\ rushed \in Bucket
    BY DEF ComputeReserve
  <2>2. \A b \in Bucket : effective[b] = IF b = rushed THEN 100 ELSE 0
    OBVIOUS
  <2>3. market.portfolio \in Nat /\ market.funds \in Nat
    BY EnvironmentAssumption
  <2>4. \A x, y \in Nat : HolderAllowance(x, y, 0) = 0
    BY SMT DEF HolderAllowance, Minus
  <2>5. /\ SpenderAllowance(cash, 0, 0) = 0
        /\ SpenderAllowance(cash, 0, 100) = 10000 * cash
    BY SMT DEF SpenderAllowance, Minus
  <2>6. \A b \in Holder \ {rushed} : status'.allowance[b] = 0
    BY <1>3, <1>7, <2>2, <2>3, <2>4
  <2>7. \A b \in Spender \ {rushed} : status'.allowance[b] = 0
    BY <1>3, <1>5, <2>1, <2>2, <2>5 DEF Spender
  <2>8. rushed \in Spender => status'.allowance[rushed] = 10000 * cash
    BY <1>3, <1>5, <2>1, <2>2, <2>5 DEF Spender
  <2>. QED  BY <1>4, <2>6, <2>7, <2>8 DEF RushExclusive, Spender
<1>. QED  BY <1>8, <1>9, <1>10, <1>11

LEMMA WithMarkersType == ASSUME TypeOK PROVE WithMarkers \in [Bucket -> BOOLEAN]
<1>1. active \in [Bucket -> BOOLEAN]
  BY DEF TypeOK
<1>2. \A b \in Bucket : (active[b] /\ b \notin marker) \in BOOLEAN
  OBVIOUS
<1>. QED  BY <1>2 DEF WithMarkers

\* What PublishTick gives to StatusOf.
LEMMA PublishTickStatus ==
  ASSUME TypeOK, HoldersDoNotSave,
         NEW market \in Market, NEW stale \in SUBSET Reported, NEW feasible,
         PublishTick(market, stale, feasible)
  PROVE  \E effective \in [Bucket -> Nat], goal \in Spender \cup {NoBucket}, price \in Nat :
            /\ status' = StatusOf(market, effective, goal, price, rush')
            /\ goal # NoBucket => effective[goal] > 0 /\ rush' = NoBucket
            /\ rush' # NoBucket =>
                 /\ goal = NoBucket
                 /\ effective = [b \in Bucket |-> IF b = rush' THEN 100 ELSE 0]
<1>. DEFINE cost == [pending' EXCEPT ![wseAccess] = market.wseCost]
            effective == EffectiveWeights(LiftedWeights(market.has4S), active', rush)
            goals == IF rush' # NoBucket THEN {NoBucket}
                     ELSE SelectGoal(cost, effective, feasible)
<1>1. market.wseCost \in Nat /\ market.has4S \in BOOLEAN
  BY EnvironmentAssumption
<1>2. active' \in [Bucket -> BOOLEAN] /\ rush \in Bucket \cup {NoBucket}
  BY WithMarkersType DEF PublishTick, TypeOK
<1>3. effective \in [Bucket -> Nat]
  BY <1>1, <1>2, LiftedWeightsType, EffectiveWeightsType
<1>4. PICK goal \in goals :
        status' = StatusOf(market, effective, goal,
                           IF goal = NoBucket THEN 0 ELSE cost[goal], rush')
  BY DEF PublishTick
<1>. DEFINE price == IF goal = NoBucket THEN 0 ELSE cost[goal]
<1>5. pending' \in [Bucket -> Nat] /\ \A h \in Holder : pending'[h] = 0
  <2>1. pending \in [Bucket -> Nat]
    BY DEF TypeOK
  <2>. QED  BY <2>1, RulesAssumption, BucketAssumption DEF PublishTick, HoldersDoNotSave
<1>6. cost \in [Bucket -> Nat] /\ \A h \in Holder : cost[h] = 0
  BY <1>1, <1>5, RulesAssumption, BucketAssumption
<1>. HIDE DEF cost, effective
<1>7. goal \in Bucket \cup {NoBucket} /\ (goal # NoBucket => cost[goal] > 0)
  BY SelectGoalType
<1>8. goal \in Spender \cup {NoBucket}
  BY <1>6, <1>7 DEF Spender
<1>9. price \in Nat
  BY <1>6, <1>7
<1>10. goal # NoBucket => effective[goal] > 0 /\ rush' = NoBucket
  BY SelectGoalType
<1>11. ASSUME rush' # NoBucket
       PROVE  goal = NoBucket /\ effective = [b \in Bucket |-> IF b = rush' THEN 100 ELSE 0]
  <2>1. rush # NoBucket /\ active'[rush] /\ rush' = rush
    BY <1>11 DEF PublishTick
  <2>2. goal = NoBucket
    BY <1>11
  <2>3. effective = [b \in Bucket |-> IF b = rush' THEN 100 ELSE 0]
    BY <2>1 DEF effective, EffectiveWeights
  <2>. QED  BY <2>2, <2>3
<1>. QED  BY <1>3, <1>4, <1>8, <1>9, <1>10, <1>11

LEMMA CashNat == ASSUME TypeOK PROVE cash \in Nat
  BY RulesAssumption, ConfigAssumption DEF TypeOK

LEMMA PublishTickType ==
  ASSUME TypeOK, HoldersDoNotSave,
         NEW market \in Market, NEW stale \in SUBSET Reported, NEW feasible,
         PublishTick(market, stale, feasible)
  PROVE  TypeOK'
<1>1. PICK effective \in [Bucket -> Nat], goal \in Spender \cup {NoBucket}, price \in Nat :
        status' = StatusOf(market, effective, goal, price, rush')
  BY PublishTickStatus
<1>2. rush' \in Bucket \cup {NoBucket}
  BY DEF PublishTick, TypeOK
<1>3. status' \in BudgetStatus
  BY <1>1, <1>2, CashNat, StatusOfType DEF Spender
<1>4. active' \in [Bucket -> BOOLEAN]
  BY WithMarkersType DEF PublishTick
<1>5. pending' \in [Bucket -> Nat]
  BY DEF PublishTick, TypeOK
<1>6. disk' \in PersistedState
  BY <1>2, <1>4 DEF PublishTick, SaveState, TypeOK, PersistedState
<1>7. prevCash' \in Nat
  BY CashNat DEF PublishTick
<1>. QED  BY <1>2, <1>3, <1>4, <1>5, <1>6, <1>7 DEF PublishTick, TypeOK

---------------------------------------------------------------------------
(* The daemon's environment. *)

LEMMA SentMessages ==
  /\ \A b \in Bucket, n \in Nat : [action |-> "purchased", bucket |-> b, amount |-> n] \in Message
  /\ \A b \in Bucket : [action |-> "done", bucket |-> b, amount |-> 0] \in Message
  /\ \A b \in Bucket : [action |-> "reactivate", bucket |-> b, amount |-> 0] \in Message
  BY DEF Message, MessageKind

LEMMA EnvironmentType == ASSUME TypeOK, Environment PROVE TypeOK'
<1>. USE DEF history, messageHistory, daemonVars, settings
<1>0. Price \subseteq Nat \ {0} /\ Command \subseteq Message /\ MaxCash \in Nat
      /\ CashAfterInstall \subseteq 0..MaxCash
  BY EnvironmentAssumption, RulesAssumption, ConfigAssumption
<1>e. ASSUME Happens PROVE events' \in Nat
  BY <1>e DEF Happens, TypeOK
<1>1. ASSUME NEW b \in Bucket, NEW price \in Price, Buy(b, price) PROVE TypeOK'
  <2>1. price \in Nat /\ cash \in Nat /\ cash <= MaxCash /\ price <= cash
    BY <1>0, <1>1 DEF Buy, TypeOK
  <2>2. cash' \in 0..MaxCash
    BY <1>0, <1>1, <2>1 DEF Buy
  <2>3. port' \in Seq(Message)
    BY <1>1, <2>1, SentMessages, SendType DEF Buy
  <2>4. events' \in Nat
    BY <1>1, <1>e DEF Buy
  <2>. QED  BY <1>1, <2>2, <2>3, <2>4 DEF Buy, TypeOK
<1>2. ASSUME NEW b \in Bucket, SignalDone(b) PROVE TypeOK'
  <2>1. port' \in Seq(Message) /\ events' \in Nat
    BY <1>2, <1>e, SentMessages, SendType DEF SignalDone
  <2>. QED  BY <1>2, <2>1 DEF SignalDone, TypeOK
<1>3. ASSUME NEW b \in Bucket, ReactivateBucket(b) PROVE TypeOK'
  <2>1. port' \in Seq(Message) /\ events' \in Nat
    BY <1>3, <1>e, SentMessages, SendType DEF ReactivateBucket
  <2>. QED  BY <1>3, <2>1 DEF ReactivateBucket, TypeOK
<1>a. ASSUME NEW b \in Disabled, MarkDone(b) PROVE TypeOK'
  <2>1. b \in Bucket /\ events' \in Nat
    BY <1>a, <1>e, BucketAssumption DEF MarkDone
  <2>. QED  BY <1>a, <2>1 DEF MarkDone, TypeOK
<1>4. ASSUME NEW m \in Command, SendCommand(m) PROVE TypeOK'
  <2>1. port' \in Seq(Message) /\ events' \in Nat
    BY <1>0, <1>4, <1>e, SendType DEF SendCommand
  <2>. QED  BY <1>4, <2>1 DEF SendCommand, TypeOK
<1>5. ASSUME NEW amount \in Price, Earn(amount) \/ Spend(amount) PROVE TypeOK'
  <2>1. amount \in Nat /\ cash \in Nat /\ cash <= MaxCash
    BY <1>0 DEF TypeOK
  <2>2. cash' \in 0..MaxCash
    BY <1>0, <1>5, <2>1 DEF Earn, Spend
  <2>3. events' \in Nat
    BY <1>5, <1>e DEF Earn, Spend
  <2>. QED  BY <1>5, <2>2, <2>3 DEF Earn, Spend, TypeOK
<1>6. ASSUME Stop PROVE TypeOK'
  <2>1. events' \in Nat
    BY <1>6, <1>e DEF Stop
  <2>2. pending' \in [Bucket -> Nat]
    BY <1>6 DEF Stop, Forget, Zero
  <2>. QED  BY <1>6, <2>1, <2>2 DEF Stop, Forget, TypeOK
<1>7. ASSUME StatusExpires PROVE TypeOK'
  <2>1. events' \in Nat
    BY <1>7, <1>e DEF StatusExpires
  <2>2. status' \in BudgetStatus
    BY <1>7 DEF StatusExpires, NoStatus, BudgetStatus, Zero
  <2>. QED  BY <1>7, <2>1, <2>2 DEF StatusExpires, TypeOK
<1>8. ASSUME Install PROVE TypeOK'
  <2>1. events' \in Nat
    BY <1>8, <1>e DEF Install
  <2>2. pending' \in [Bucket -> Nat]
    BY <1>8 DEF Install, Forget, Zero
  <2>3. status' \in BudgetStatus
    BY <1>8 DEF Install, NoStatus, BudgetStatus, Zero
  <2>4. cash' \in 0..MaxCash /\ port' \in Seq(Message)
    BY <1>0, <1>8 DEF Install
  <2>. QED  BY <1>8, <2>1, <2>2, <2>3, <2>4 DEF Install, Forget, TypeOK
<1>. QED  BY <1>a, <1>1, <1>2, <1>3, <1>4, <1>5, <1>6, <1>7, <1>8 DEF Environment

---------------------------------------------------------------------------
(* The inductive invariant and the theorems. *)

StatusSafe == ReserveHidden /\ GrantCovered /\ GoalEligible /\ RushExclusive

\* Typing needs to know that the goal is no holder, and the promises of the status
\* need both: TypeOK, HoldersDoNotSave and StatusSafe are inductive together.
BudgetInv == TypeOK /\ HoldersDoNotSave /\ StatusSafe

LEMMA HoldersTake ==
  ASSUME HoldersDoNotSave, NEW kind, Take(kind)
  PROVE  /\ message \in SpenderMessage /\ message.action = kind
         /\ port' \in Seq(SpenderMessage)
  BY HeadTailProperties DEF HoldersDoNotSave, Take, message

LEMMA HoldersSend ==
  ASSUME HoldersDoNotSave, NEW m \in SpenderMessage, Send(m)
  PROVE  port' \in Seq(SpenderMessage)
  BY RulesAssumption, ConfigAssumption DEF HoldersDoNotSave, Send

LEMMA HoldersStep ==
  ASSUME TypeOK, HoldersDoNotSave, [Next]_vars PROVE HoldersDoNotSave'
<1>. USE DEF daemonVars
<1>1. CASE HandleReportNext
  <2>1. /\ message \in SpenderMessage /\ message.action = "report-next"
        /\ port' \in Seq(SpenderMessage)
    BY <1>1, HoldersTake DEF HandleReportNext
  <2>2. message.bucket \notin Holder
    BY <2>1 DEF SpenderMessage
  <2>3. pending \in [Bucket -> Nat]
    BY DEF TypeOK
  <2>4. \A h \in Holder : pending'[h] = pending[h]
    BY <1>1, <2>2, <2>3, RulesAssumption, BucketAssumption DEF HandleReportNext
  <2>. QED  BY <2>1, <2>4 DEF HoldersDoNotSave
<1>2. ASSUME HandleMessage, ~HandleReportNext PROVE HoldersDoNotSave'
  <2>1. port' \in Seq(SpenderMessage)
    BY <1>2, HoldersTake DEF HandleMessage, HandlePurchased, HandleDone, HandleReportCap,
       HandleRush, HandleWeights, HandleReactivate, HandleFreeze, HandleUnfreeze
  <2>2. pending' = pending
    BY <1>2 DEF HandleMessage, HandlePurchased, HandleDone, HandleReportCap,
       HandleRush, HandleWeights, HandleReactivate, HandleFreeze, HandleUnfreeze
  <2>. QED  BY <2>1, <2>2 DEF HoldersDoNotSave
<1>3. CASE Wake \/ StartLoop
  BY <1>3 DEF Wake, StartLoop, HoldersDoNotSave
<1>4. CASE Tick
  BY <1>4, RulesAssumption, BucketAssumption DEF Tick, ResetTick, PublishTick, HoldersDoNotSave
<1>5. CASE Start
  BY <1>5, RulesAssumption, BucketAssumption DEF Start, Zero, HoldersDoNotSave
<1>6. ASSUME NEW b \in Bucket, NEW price \in Price, Buy(b, price) PROVE HoldersDoNotSave'
  <2>1. price \in Nat
    BY EnvironmentAssumption
  <2>2. [action |-> "purchased", bucket |-> b, amount |-> price] \in SpenderMessage
    BY <2>1, SentMessages DEF SpenderMessage
  <2>3. port' \in Seq(SpenderMessage)
    BY <1>6, <2>2, HoldersSend DEF Buy
  <2>. QED  BY <1>6, <2>3 DEF Buy, HoldersDoNotSave
<1>7. ASSUME NEW b \in Bucket, SignalDone(b) \/ ReactivateBucket(b) PROVE HoldersDoNotSave'
  <2>1. /\ [action |-> "done", bucket |-> b, amount |-> 0] \in SpenderMessage
        /\ [action |-> "reactivate", bucket |-> b, amount |-> 0] \in SpenderMessage
    BY SentMessages DEF SpenderMessage
  <2>2. port' \in Seq(SpenderMessage)
    BY <1>7, <2>1, HoldersSend DEF SignalDone, ReactivateBucket
  <2>. QED  BY <1>7, <2>2 DEF SignalDone, ReactivateBucket, HoldersDoNotSave
<1>8. ASSUME NEW m \in Command, SendCommand(m) PROVE HoldersDoNotSave'
  <2>1. m \in SpenderMessage
    BY EnvironmentAssumption DEF SpenderMessage
  <2>2. port' \in Seq(SpenderMessage)
    BY <1>8, <2>1, HoldersSend DEF SendCommand
  <2>. QED  BY <1>8, <2>2 DEF SendCommand, HoldersDoNotSave
<1>9. ASSUME NEW amount \in Price, Earn(amount) \/ Spend(amount) PROVE HoldersDoNotSave'
  BY <1>9 DEF Earn, Spend, HoldersDoNotSave
<1>a. ASSUME NEW b \in Disabled, MarkDone(b) PROVE HoldersDoNotSave'
  BY <1>a DEF MarkDone, HoldersDoNotSave
<1>10. CASE Stop \/ StatusExpires \/ Install
  <2>1. CASE Stop
    BY <2>1, RulesAssumption, BucketAssumption DEF Stop, Forget, Zero, HoldersDoNotSave
  <2>2. CASE StatusExpires
    BY <2>2 DEF StatusExpires, HoldersDoNotSave
  <2>3. CASE Install
    <3>1. port' \in Seq(SpenderMessage)
      BY <2>3 DEF Install
    <3>2. \A h \in Holder : pending'[h] = 0
      BY <2>3, RulesAssumption, BucketAssumption DEF Install, Forget, Zero
    <3>. QED  BY <3>1, <3>2 DEF HoldersDoNotSave
  <2>. QED  BY <1>10, <2>1, <2>2, <2>3
<1>11. CASE UNCHANGED vars
  BY <1>11 DEF vars, HoldersDoNotSave
<1>12. CASE Daemon
  BY <1>1, <1>2, <1>3, <1>4, <1>12 DEF Daemon
<1>13. CASE Environment
  BY <1>a, <1>6, <1>7, <1>8, <1>9, <1>10, <1>13 DEF Environment
<1>. QED  BY <1>5, <1>11, <1>12, <1>13 DEF Next

LEMMA TypeStep == ASSUME TypeOK, HoldersDoNotSave, [Next]_vars PROVE TypeOK'
<1>1. CASE Tick
  BY <1>1, ResetTickType, PublishTickType DEF Tick
<1>2. CASE UNCHANGED vars
  BY <1>2 DEF vars, daemonVars, settings, history, TypeOK
<1>. QED  BY <1>1, <1>2, StartType, WakeType, HandleMessageType, StartLoopType,
             EnvironmentType DEF Next, Daemon

\* A status is written by PublishTick and withdrawn by StatusExpires and Install.
LEMMA StatusStep ==
  ASSUME BudgetInv, [Next]_vars PROVE StatusSafe'
<1>1. CASE status' = status
  BY <1>1 DEF BudgetInv, StatusSafe, ReserveHidden, GrantCovered, GoalEligible,
     RushExclusive
<1>2. CASE StatusExpires \/ Install
  <2>1. status'.live = FALSE
    BY <1>2 DEF StatusExpires, Install, NoStatus
  <2>. QED  BY <2>1 DEF StatusSafe, ReserveHidden, GrantCovered, GoalEligible,
                RushExclusive
<1>3. ASSUME NEW market \in Market, NEW stale \in SUBSET Reported, NEW feasible,
             PublishTick(market, stale, feasible)
      PROVE  StatusSafe'
  <2>1. TypeOK /\ HoldersDoNotSave
    BY DEF BudgetInv
  <2>2. PICK effective \in [Bucket -> Nat], goal \in Spender \cup {NoBucket},
             price \in Nat :
            /\ status' = StatusOf(market, effective, goal, price, rush')
            /\ goal # NoBucket => effective[goal] > 0 /\ rush' = NoBucket
            /\ rush' # NoBucket =>
                 /\ goal = NoBucket
                 /\ effective = [b \in Bucket |-> IF b = rush' THEN 100 ELSE 0]
    BY <1>3, <2>1, PublishTickStatus
  <2>3. rush' \in Bucket \cup {NoBucket}
    BY <1>3, <2>1 DEF PublishTick, TypeOK
  <2>. QED  BY <2>1, <2>2, <2>3, CashNat, StatusOfSafe DEF StatusSafe
<1>4. CASE Wake \/ StartLoop \/ ResetTick \/ Start
  BY <1>4, <1>1 DEF Wake, StartLoop, ResetTick, Start
<1>5. CASE HandleMessage
  BY <1>5, <1>1 DEF HandleMessage, Take, HandlePurchased, HandleDone, HandleReportCap,
     HandleReportNext, HandleRush, HandleWeights, HandleReactivate, HandleFreeze,
     HandleUnfreeze
<1>6. ASSUME Environment, ~StatusExpires, ~Install PROVE StatusSafe'
  BY <1>6, <1>1 DEF Environment, Buy, SignalDone, ReactivateBucket, MarkDone, SendCommand, Earn,
     Spend, Stop
<1>7. CASE UNCHANGED vars
  BY <1>7, <1>1 DEF vars
<1>. QED  BY <1>2, <1>3, <1>4, <1>5, <1>6, <1>7 DEF Next, Daemon, Tick

LEMMA InitInv == Init => BudgetInv
<1>. SUFFICES ASSUME Init PROVE BudgetInv
  OBVIOUS
<1>1. HoldersDoNotSave
  BY RulesAssumption, BucketAssumption DEF Init, Zero, HoldersDoNotSave
<1>2. StatusSafe
  BY DEF Init, NoStatus, StatusSafe, ReserveHidden, GrantCovered, GoalEligible,
     RushExclusive
<1>. QED  BY <1>1, <1>2, InitType DEF BudgetInv

LEMMA InvStep == BudgetInv /\ [Next]_vars => BudgetInv'
<1>. SUFFICES ASSUME BudgetInv, [Next]_vars PROVE BudgetInv'
  OBVIOUS
<1>1. TypeOK /\ HoldersDoNotSave
  BY DEF BudgetInv
<1>2. TypeOK'
  BY <1>1, TypeStep
<1>3. HoldersDoNotSave'
  BY <1>1, HoldersStep
<1>. QED  BY <1>2, <1>3, StatusStep DEF BudgetInv

LEMMA Invariance == Spec => []BudgetInv
  BY InitInv, InvStep, PTL DEF Spec

\* Every variable keeps its kind: above all, no allowance published by computeAllowances
\* and no account or weight kept by handleMessage is ever negative, for every set of
\* buckets, weights, messages and prices.
THEOREM TypeCorrect == Spec => []TypeOK
<1>1. BudgetInv => TypeOK
  BY DEF BudgetInv
<1>. QED  BY <1>1, Invariance, PTL

\* The reserve computeReserve takes out of cash is beyond the reach of every spender
\* but the goal's (computeAllowances), whatever its weight up to 100 percent.
THEOREM ReserveIsHidden == Spec => []ReserveHidden
<1>1. BudgetInv => ReserveHidden
  BY DEF BudgetInv, StatusSafe
<1>. QED  BY <1>1, Invariance, PTL

\* A granted goal (isGranted) is within its bucket's allowance and within cash, and
\* a goal is granted as soon as cash reaches price / share; selectGoal never saves for
\* a bucket without an effective weight, and a rush suspends saving.
THEOREM GoalIsSound == Spec => []GoalSound
<1>1. BudgetInv => GoalSound
  BY DEF BudgetInv, StatusSafe, GoalSound
<1>. QED  BY <1>1, Invariance, PTL

\* computeEffectiveWeights gives a rushed bucket everything and the others nothing.
THEOREM RushIsExclusive == Spec => []RushExclusive
<1>1. BudgetInv => RushExclusive
  BY DEF BudgetInv, StatusSafe
<1>. QED  BY <1>1, Invariance, PTL

\* saveState is the last word of every tick: at the daemon's await the file holds the
\* settings and the accounts of its memory, so that killing it there loses none.
THEOREM SavedWhenKilled == Spec => []SavedAtAwait
<1>1. Init => SavedAtAwait
  BY DEF Init, SavedAtAwait
<1>2. SavedAtAwait /\ [Next]_vars => SavedAtAwait'
  <2>. SUFFICES ASSUME SavedAtAwait, [Next]_vars PROVE SavedAtAwait'
    OBVIOUS
  <2>. USE DEF daemonVars, settings, SavedAtAwait
  <2>1. CASE Start \/ Wake \/ StartLoop
    BY <2>1 DEF Start, Wake, StartLoop
  <2>2. CASE HandleMessage
    <3>1. pc' # "sleep"
      BY <2>2 DEF HandleMessage, Take, HandlePurchased, HandleDone, HandleReportCap,
         HandleReportNext, HandleRush, HandleWeights, HandleReactivate, HandleFreeze,
         HandleUnfreeze
    <3>. QED  BY <3>1
  <2>3. CASE ResetTick
    BY <2>3 DEF ResetTick, SaveState
  <2>4. ASSUME NEW market, NEW stale, NEW feasible, PublishTick(market, stale, feasible)
        PROVE  SavedAtAwait'
    BY <2>4 DEF PublishTick, SaveState
  <2>5. CASE Environment
    BY <2>5 DEF Environment, Buy, SignalDone, ReactivateBucket, MarkDone, SendCommand, Earn, Spend,
       Stop, StatusExpires, Install, Forget
  <2>6. CASE UNCHANGED vars
    BY <2>6 DEF vars
  <2>. QED  BY <2>1, <2>2, <2>3, <2>4, <2>5, <2>6 DEF Next, Daemon, Tick
<1>. QED  BY <1>1, <1>2, PTL DEF Spec

---------------------------------------------------------------------------
(* Sums over the messages of a port *)

\* A sum over 1..(n + 1) is its first value and the sum of the rest, moved by one.
LEMMA SumShift ==
    ASSUME NEW n \in Nat, NEW f, NEW h, Values(f, 1..(n + 1)),
           \A i \in 1..n : h[i] = f[i + 1]
    PROVE  SumFunctionOnSet(f, 1..(n + 1)) = f[1] + SumFunctionOnSet(h, 1..n)
<1> DEFINE Shifts(m) == SumFunctionOnSet(f, 1..(m + 1)) = f[1] + SumFunctionOnSet(h, 1..m)
           Good == {m \in Nat : m <= n => Shifts(m)}
<1>0. \A m \in 0..n : /\ IsFiniteSet(1..(m + 1)) /\ Values(f, 1..(m + 1))
                      /\ IsFiniteSet(1..m) /\ Values(h, 1..m)
  <2> SUFFICES ASSUME NEW m \in 0..n
               PROVE  /\ IsFiniteSet(1..(m + 1)) /\ Values(f, 1..(m + 1))
                      /\ IsFiniteSet(1..m) /\ Values(h, 1..m)
    OBVIOUS
  <2>1. \A i \in 1..(n + 1) : f[i] \in Int
    BY DEF Values
  <2>2. \A i \in 1..(m + 1) : i \in 1..(n + 1)
    OBVIOUS
  <2>3. \A i \in 1..m : i \in 1..n /\ i + 1 \in 1..(n + 1)
    OBVIOUS
  <2>4. IsFiniteSet(1..(m + 1)) /\ IsFiniteSet(1..m)
    BY FS_Interval
  <2> QED BY <2>1, <2>2, <2>3, <2>4 DEF Values
<1>1. ASSUME NEW m \in Nat, \A l \in 0..(m - 1) : l \in Good PROVE m \in Good
  <2>1. CASE m = 0
    <3>1. 1..(m + 1) = {1} /\ 1..m = {} /\ {1} \ {1} = {} /\ 0 \in 0..n
      BY <2>1
    <3>2. IsFiniteSet({1}) /\ Values(f, {1}) /\ f[1] \in Int
      BY <1>0, <2>1, <3>1 DEF Values
    <3>3. SumFunctionOnSet(f, {1}) = f[1] + SumFunctionOnSet(f, {})
      BY <3>1, <3>2, SumStep
    <3>4. SumFunctionOnSet(f, {}) = 0 /\ SumFunctionOnSet(h, {}) = 0
      BY SumEmpty
    <3> QED BY <3>1, <3>2, <3>3, <3>4
  <2>2. CASE m \in 1..n
    <3>1. /\ m - 1 \in 0..(m - 1) /\ m - 1 \in 0..n /\ m - 1 \in Nat /\ m \in 0..n
          /\ (m - 1) + 1 = m
      BY <2>2
    <3>2. SumFunctionOnSet(f, 1..m) = f[1] + SumFunctionOnSet(h, 1..(m - 1))
      <4>1. m - 1 \in Good
        BY <1>1, <3>1
      <4> QED BY <3>1, <4>1
    <3>3. /\ (1..(m + 1)) \ {m + 1} = 1..m /\ m + 1 \in 1..(m + 1)
          /\ (1..m) \ {m} = 1..(m - 1) /\ m \in 1..m
      BY <2>2
    <3>4. SumFunctionOnSet(f, 1..(m + 1)) = f[m + 1] + SumFunctionOnSet(f, 1..m)
      <4>1. IsFiniteSet(1..(m + 1)) /\ Values(f, 1..(m + 1))
        BY <1>0, <3>1
      <4>2. SumFunctionOnSet(f, 1..(m + 1))
               = f[m + 1] + SumFunctionOnSet(f, (1..(m + 1)) \ {m + 1})
        BY <3>3, <4>1, SumStep
      <4> QED BY <3>3, <4>2
    <3>5. SumFunctionOnSet(h, 1..m) = h[m] + SumFunctionOnSet(h, 1..(m - 1))
      <4>1. IsFiniteSet(1..m) /\ Values(h, 1..m)
        BY <1>0, <3>1
      <4>2. SumFunctionOnSet(h, 1..m) = h[m] + SumFunctionOnSet(h, (1..m) \ {m})
        BY <3>3, <4>1, SumStep
      <4> QED BY <3>3, <4>2
    <3>6. h[m] = f[m + 1] /\ h[m] \in Int /\ f[1] \in Int
      <4>1. m \in 1..n /\ 1 \in 1..(n + 1)
        BY <2>2
      <4> QED BY <1>0, <2>2, <3>1, <4>1 DEF Values
    <3>7. /\ SumFunctionOnSet(h, 1..(m - 1)) \in Int
      BY <1>0, <3>1, SumType
    <3>8. SumFunctionOnSet(f, 1..(m + 1)) = f[1] + SumFunctionOnSet(h, 1..m)
      BY <3>2, <3>4, <3>5, <3>6, <3>7
    <3> QED BY <3>8
  <2>3. CASE ~(m <= n)
    BY <2>3
  <2> QED BY <2>1, <2>2, <2>3
<1>2. n \in Good
  <2> HIDE DEF Good
  <2> QED BY <1>1, AllNat
<1> QED BY <1>2

\* The amounts of the purchases among messages.
AmountOf(buckets, s) == [i \in DOMAIN s |-> Amount(buckets, s[i])]

LEMMA AmountNat == ASSUME NEW buckets, NEW m \in Message PROVE Amount(buckets, m) \in Nat
  BY DEF Message, Amount

LEMMA AmountValues ==
    ASSUME NEW buckets, NEW s \in Seq(Message)
    PROVE  /\ DOMAIN s = 1..Len(s) /\ Len(s) \in Nat /\ IsFiniteSet(DOMAIN s)
           /\ Values(AmountOf(buckets, s), DOMAIN s)
           /\ \A i \in DOMAIN s : /\ AmountOf(buckets, s)[i] = Amount(buckets, s[i])
                                  /\ AmountOf(buckets, s)[i] >= 0
<1>1. DOMAIN s = 1..Len(s) /\ Len(s) \in Nat /\ \A i \in DOMAIN s : s[i] \in Message
  OBVIOUS
<1>2. \A i \in DOMAIN s : Amount(buckets, s[i]) \in Nat
  BY <1>1, AmountNat
<1> QED BY <1>1, <1>2, FS_Interval DEF AmountOf, Values

LEMMA PurchasedNat ==
    ASSUME NEW buckets, NEW s \in Seq(Message) PROVE Purchased(buckets, s) \in Nat
<1>1. SumFunctionOnSet(AmountOf(buckets, s), DOMAIN s) >= 0
  BY AmountValues, SumNat
<1>2. SumFunctionOnSet(AmountOf(buckets, s), DOMAIN s) \in Int
  BY AmountValues, SumType
<1>3. Purchased(buckets, s) = SumFunctionOnSet(AmountOf(buckets, s), DOMAIN s)
  BY DEF Purchased, AmountOf
<1> QED BY <1>1, <1>2, <1>3

LEMMA PurchasedEmpty == ASSUME NEW buckets PROVE Purchased(buckets, <<>>) = 0
<1>1. DOMAIN <<>> = {}
  OBVIOUS
<1> QED BY <1>1, SumEmpty DEF Purchased

LEMMA PurchasedTail ==
    ASSUME NEW buckets, NEW s \in Seq(Message), s # <<>>
    PROVE  Purchased(buckets, s) = Amount(buckets, Head(s)) + Purchased(buckets, Tail(s))
<1> DEFINE f == AmountOf(buckets, s)
           h == AmountOf(buckets, Tail(s))
           n == Len(s) - 1
<1>1. /\ n \in Nat /\ DOMAIN s = 1..(n + 1) /\ DOMAIN Tail(s) = 1..n
      /\ Tail(s) \in Seq(Message) /\ Head(s) = s[1]
      /\ \A i \in 1..n : Tail(s)[i] = s[i + 1] /\ i + 1 \in 1..(n + 1)
  OBVIOUS
<1>2. \A i \in 1..n : h[i] = f[i + 1]
  BY <1>1 DEF AmountOf
<1>3. f[1] = Amount(buckets, Head(s))
  BY <1>1, AmountValues
<1>4. Values(f, 1..(n + 1))
  BY <1>1, AmountValues
<1>5. SumFunctionOnSet(f, 1..(n + 1)) = f[1] + SumFunctionOnSet(h, 1..n)
  <2> HIDE DEF f, h, n
  <2> QED BY <1>1, <1>2, <1>4, SumShift
<1> QED BY <1>1, <1>3, <1>5 DEF Purchased, AmountOf

LEMMA PurchasedAppend ==
    ASSUME NEW buckets, NEW s \in Seq(Message), NEW m \in Message
    PROVE  Purchased(buckets, Append(s, m)) = Purchased(buckets, s) + Amount(buckets, m)
<1> DEFINE t == Append(s, m)
           f == AmountOf(buckets, t)
           h == AmountOf(buckets, s)
           n == Len(s)
<1>1. /\ n \in Nat /\ t \in Seq(Message) /\ DOMAIN s = 1..n /\ DOMAIN t = 1..(n + 1)
      /\ t[n + 1] = m /\ \A i \in 1..n : t[i] = s[i] /\ i \in 1..(n + 1)
      /\ n + 1 \in 1..(n + 1) /\ (1..(n + 1)) \ {n + 1} = 1..n
  OBVIOUS
<1>2. /\ Values(f, 1..(n + 1)) /\ Values(h, 1..n)
      /\ IsFiniteSet(1..(n + 1)) /\ IsFiniteSet(1..n)
  BY <1>1, AmountValues
<1>3. f[n + 1] = Amount(buckets, m) /\ \A i \in 1..n : h[i] = f[i]
  BY <1>1 DEF AmountOf
<1>4. SumFunctionOnSet(f, 1..(n + 1)) = f[n + 1] + SumFunctionOnSet(f, 1..n)
  <2> HIDE DEF f, h, n, t
  <2> QED BY <1>1, <1>2, SumStep
<1>5. SumFunctionOnSet(h, 1..n) = SumFunctionOnSet(f, 1..n)
  <2> HIDE DEF f, h, n, t
  <2> QED BY <1>2, <1>3, SumSame
<1>6. SumFunctionOnSet(h, 1..n) \in Int /\ Amount(buckets, m) \in Int
  <2>1. SumFunctionOnSet(h, 1..n) \in Int
    <3> HIDE DEF h, n
    <3> QED BY <1>2, SumType
  <2> QED BY <2>1, AmountNat
<1>7. /\ Purchased(buckets, t) = SumFunctionOnSet(f, 1..(n + 1))
      /\ Purchased(buckets, s) = SumFunctionOnSet(h, 1..n)
  BY <1>1 DEF Purchased, AmountOf
<1> HIDE DEF f, h, n
<1> QED BY <1>3, <1>4, <1>5, <1>6, <1>7

LEMMA PurchasedOne ==
    ASSUME NEW buckets, NEW m \in Message
    PROVE  Purchased(buckets, <<m>>) = Amount(buckets, m)
<1>1. <<m>> = Append(<<>>, m) /\ <<>> \in Seq(Message)
  OBVIOUS
<1>2. Purchased(buckets, Append(<<>>, m)) = Purchased(buckets, <<>>) + Amount(buckets, m)
  BY <1>1, PurchasedAppend
<1>3. Purchased(buckets, <<>>) = 0 /\ Amount(buckets, m) \in Nat
  BY PurchasedEmpty, AmountNat
<1> QED BY <1>1, <1>2, <1>3

---------------------------------------------------------------------------
(* What a step does to the port and to what it holds *)

LEMMA Taken ==
    ASSUME TypeOK, NEW kind, Take(kind)
    PROVE  /\ message \in Message /\ message.action = kind /\ port \in Seq(Message)
           /\ port # <<>> /\ port' = Tail(port) /\ message = Head(port)
           /\ pc' = pc /\ pc \in {"starting", "draining"}
           /\ UNCHANGED <<cash, disk, marker, prevCash, notified, lost, missed, unexplained>>
<1>1. port \in Seq(Message) /\ port # <<>> /\ port' = Tail(port) /\ message = Head(port)
  BY DEF TypeOK, Take, message
<1>2. message \in Message
  BY <1>1
<1> QED BY <1>1, <1>2 DEF Take, history, messageHistory

LEMMA TakenPurchases ==
    ASSUME TypeOK, NEW kind, Take(kind), NEW buckets
    PROVE  /\ Purchased(buckets, port) = Amount(buckets, message) + Purchased(buckets, port')
           /\ Purchased(buckets, port) \in Nat /\ Purchased(buckets, port') \in Nat
           /\ Amount(buckets, message) \in Nat
           /\ kind # "purchased" => Amount(buckets, message) = 0
<1>1. /\ message \in Message /\ port \in Seq(Message) /\ port # <<>>
      /\ port' = Tail(port) /\ message = Head(port) /\ message.action = kind
  BY Taken
<1>2. port' \in Seq(Message)
  BY <1>1
<1> QED BY <1>1, <1>2, PurchasedTail, PurchasedNat, AmountNat DEF Amount

\* What writing m to the port drops.
Dropped == IF Len(port) = PortCapacity THEN <<Head(port)>> ELSE <<>>

LEMMA SentPort ==
    ASSUME TypeOK, NEW m \in Message, Send(m)
    PROVE  /\ port \in Seq(Message) /\ Dropped \in Seq(Message)
           /\ Len(port) = PortCapacity => /\ port # <<>> /\ Head(port) \in Message
                                          /\ Dropped = <<Head(port)>>
                                          /\ port' = Append(Tail(port), m)
           /\ Len(port) # PortCapacity => Dropped = <<>> /\ port' = Append(port, m)
           /\ lost' = [b \in Bucket |-> lost[b] + Purchased({b}, Dropped)]
           /\ missed' = (missed \cup (SignalledIn(port) \ marker)) \ SignalledIn(port')
           /\ unexplained' = (unexplained \/ lost' # lost)
<1>1. port \in Seq(Message)
  BY DEF TypeOK
<1>2. Len(port) = PortCapacity => port # <<>> /\ Head(port) \in Message
  BY <1>1, ConfigAssumption
<1>3. Dropped \in Seq(Message)
  <2>1. CASE Len(port) = PortCapacity
    <3>1. \A x \in Message : <<x>> \in Seq(Message)
      OBVIOUS
    <3> QED BY <1>2, <2>1, <3>1 DEF Dropped
  <2>2. CASE Len(port) # PortCapacity
    <3>1. <<>> \in Seq(Message)
      OBVIOUS
    <3> QED BY <2>2, <3>1 DEF Dropped
  <2> QED BY <2>1, <2>2
<1>4. /\ lost' = [b \in Bucket |-> lost[b] + Purchased({b}, Dropped)]
      /\ missed' = (missed \cup (SignalledIn(port) \ marker)) \ SignalledIn(port')
      /\ unexplained' = (unexplained \/ lost' # lost)
  BY DEF Send, Lose, Dropped
<1>5. /\ Len(port) = PortCapacity => Dropped = <<Head(port)>> /\ port' = Append(Tail(port), m)
      /\ Len(port) # PortCapacity => Dropped = <<>> /\ port' = Append(port, m)
  BY DEF Send, Dropped
<1> QED BY <1>1, <1>2, <1>3, <1>4, <1>5

LEMMA SentPurchases ==
    ASSUME TypeOK, NEW m \in Message, Send(m), NEW buckets
    PROVE  /\ Purchased(buckets, port') + Purchased(buckets, Dropped)
                = Purchased(buckets, port) + Amount(buckets, m)
           /\ Purchased(buckets, port) \in Nat /\ Purchased(buckets, port') \in Nat
           /\ Purchased(buckets, Dropped) \in Nat /\ Amount(buckets, m) \in Nat
<1>1. CASE Len(port) = PortCapacity
  <2>1. /\ port \in Seq(Message) /\ port # <<>> /\ Head(port) \in Message
        /\ Dropped = <<Head(port)>> /\ port' = Append(Tail(port), m)
    BY <1>1, SentPort
  <2>2. Tail(port) \in Seq(Message) /\ port' \in Seq(Message)
    BY <2>1
  <2>3. /\ Purchased(buckets, port)
             = Amount(buckets, Head(port)) + Purchased(buckets, Tail(port))
        /\ Purchased(buckets, port') = Purchased(buckets, Tail(port)) + Amount(buckets, m)
        /\ Purchased(buckets, Dropped) = Amount(buckets, Head(port))
    BY <2>1, <2>2, PurchasedTail, PurchasedAppend, PurchasedOne
  <2>4. /\ Amount(buckets, Head(port)) \in Nat /\ Amount(buckets, m) \in Nat
        /\ Purchased(buckets, Tail(port)) \in Nat
    BY <2>1, <2>2, PurchasedNat, AmountNat
  <2> QED BY <2>3, <2>4
<1>2. CASE Len(port) # PortCapacity
  <2>1. port \in Seq(Message) /\ Dropped = <<>> /\ port' = Append(port, m)
    BY <1>2, SentPort
  <2>2. /\ Purchased(buckets, port') = Purchased(buckets, port) + Amount(buckets, m)
        /\ Purchased(buckets, Dropped) = 0
    BY <2>1, PurchasedAppend, PurchasedEmpty
  <2>3. Amount(buckets, m) \in Nat /\ Purchased(buckets, port) \in Nat
    BY <2>1, PurchasedNat, AmountNat
  <2> QED BY <2>2, <2>3
<1> QED BY <1>1, <1>2

---------------------------------------------------------------------------
(* Accounts *)

HistoryTyped == notified \in [Bucket -> Nat] /\ lost \in [Bucket -> Nat]

Counted(b) == IF pc = "down" THEN disk.spent[b] ELSE spent[b]
AccountOf(b) == notified[b] = (Purchased({b}, port) + lost[b]) + Counted(b)

\* The inductive invariant of the accounts.
AccountInv == HistoryTyped /\ \A b \in Bucket : AccountOf(b)

LEMMA CountedNat == ASSUME TypeOK, NEW b \in Bucket PROVE Counted(b) \in Nat
<1>1. disk.spent \in [Bucket -> Nat] /\ spent \in [Bucket -> Nat]
  BY DEF TypeOK, PersistedState
<1> QED BY <1>1 DEF Counted

LEMMA AccountsAgree == ASSUME TypeOK, AccountInv PROVE AccountsExact
  BY DEF AccountInv, AccountOf, Counted, AccountsExact

\* A message the daemon takes moves from the port to the account.
LEMMA AccountsHandled == ASSUME TypeOK, AccountInv, HandleMessage PROVE AccountInv'
<1>1. PICK kind : Take(kind)
  BY DEF HandleMessage, HandlePurchased, HandleDone, HandleReportCap, HandleReportNext,
     HandleRush, HandleWeights, HandleReactivate, HandleFreeze, HandleUnfreeze
<1>2. /\ message \in Message /\ message.action = kind
      /\ pc' = pc /\ pc # "down" /\ UNCHANGED <<notified, lost>>
  BY <1>1, Taken
<1>3. message.bucket \in Bucket /\ message.amount \in Nat
  BY <1>2 DEF Message
<1>4. spent \in [Bucket -> Nat]
  BY DEF TypeOK
<1>5. ASSUME NEW b \in Bucket
      PROVE  spent'[b] = spent[b] + Amount({b}, message) /\ spent[b] \in Nat
  <2>1. CASE HandlePurchased
    <3>1. spent' = [spent EXCEPT ![message.bucket] = @ + message.amount]
      BY <2>1 DEF HandlePurchased
    <3>2. kind = "purchased"
      BY <1>2, <2>1 DEF HandlePurchased, Take
    <3> QED BY <1>2, <1>3, <1>4, <3>1, <3>2 DEF Amount
  <2>2. CASE ~HandlePurchased
    <3>1. spent' = spent
      BY <2>2 DEF HandleMessage, HandleDone, HandleReportCap, HandleReportNext,
         HandleRush, HandleWeights, HandleReactivate, HandleFreeze, HandleUnfreeze, settings
    <3>2. message.action # "purchased"
      BY <2>2 DEF HandleMessage, HandleDone, HandleReportCap, HandleReportNext,
         HandleRush, HandleWeights, HandleReactivate, HandleFreeze, HandleUnfreeze, Take
    <3> QED BY <1>4, <3>1, <3>2 DEF Amount
  <2> QED BY <2>1, <2>2
<1>6. ASSUME NEW b \in Bucket PROVE AccountOf(b)'
  <2>1. /\ Purchased({b}, port) = Amount({b}, message) + Purchased({b}, port')
        /\ Purchased({b}, port') \in Nat /\ Amount({b}, message) \in Nat
    BY <1>1, TakenPurchases
  <2>2. notified[b] = (Purchased({b}, port) + lost[b]) + spent[b] /\ lost[b] \in Nat
    BY <1>2 DEF AccountInv, AccountOf, Counted, HistoryTyped
  <2>3. notified'[b] = notified[b] /\ lost'[b] = lost[b]
    BY <1>2
  <2>4. notified'[b] = (Purchased({b}, port') + lost'[b]) + spent'[b]
    BY <1>5, <2>1, <2>2, <2>3
  <2> QED BY <1>2, <2>4 DEF AccountOf, Counted
<1>7. HistoryTyped'
  BY <1>2 DEF AccountInv, HistoryTyped
<1> QED BY <1>6, <1>7 DEF AccountInv

\* What others write to the port, and a purchase they notify.
LEMMA AccountsSent ==
    ASSUME TypeOK, AccountInv, NEW m \in Message, Send(m), UNCHANGED <<pc, disk, spent>>,
           \A b \in Bucket : notified'[b] = notified[b] + Amount({b}, m),
           notified' \in [Bucket -> Nat]
    PROVE  AccountInv'
<1>1. ASSUME NEW b \in Bucket PROVE AccountOf(b)' /\ lost'[b] \in Nat
  <2>1. lost'[b] = lost[b] + Purchased({b}, Dropped) /\ lost[b] \in Nat
    BY SentPort DEF AccountInv, HistoryTyped
  <2>2. /\ Purchased({b}, port') + Purchased({b}, Dropped) = Purchased({b}, port) + Amount({b}, m)
        /\ Purchased({b}, port) \in Nat /\ Purchased({b}, port') \in Nat
        /\ Purchased({b}, Dropped) \in Nat /\ Amount({b}, m) \in Nat
    BY SentPurchases
  <2>3. notified[b] = (Purchased({b}, port) + lost[b]) + Counted(b) /\ Counted(b) \in Nat
    BY CountedNat DEF AccountInv, AccountOf
  <2>4. Counted(b)' = Counted(b)
    BY DEF Counted
  <2>5. notified'[b] = (Purchased({b}, port') + lost'[b]) + Counted(b)
    BY <2>1, <2>2, <2>3
  <2> QED BY <2>1, <2>2, <2>4, <2>5 DEF AccountOf
<1>2. lost' \in [Bucket -> Nat]
  <2>1. lost' = [b \in Bucket |-> lost[b] + Purchased({b}, Dropped)]
    BY SentPort
  <2> QED BY <1>1, <2>1
<1> QED BY <1>1, <1>2 DEF AccountInv, HistoryTyped

\* A reset starts the accounts afresh with an empty port.
LEMMA AccountsZeroed ==
    ASSUME ZeroAccounts, port' = <<>>, pc' # "down" PROVE AccountInv'
<1>1. notified' = Zero /\ lost' = Zero /\ spent' = Zero
  BY DEF ZeroAccounts
<1>2. \A b \in Bucket : Zero[b] = 0 /\ Zero \in [Bucket -> Nat]
  BY DEF Zero
<1>3. ASSUME NEW b \in Bucket PROVE AccountOf(b)'
  <2>1. Purchased({b}, port') = 0
    BY PurchasedEmpty
  <2> QED BY <1>1, <1>2, <2>1 DEF AccountOf, Counted
<1>4. HistoryTyped'
  BY <1>1 DEF HistoryTyped, Zero
<1> QED BY <1>3, <1>4 DEF AccountInv

\* Steps that move neither a message nor an account.
LEMMA AccountsStill ==
    ASSUME AccountInv, UNCHANGED <<port, notified, lost>>,
           \A b \in Bucket : Counted(b)' = Counted(b)
    PROVE  AccountInv'
  BY DEF AccountInv, HistoryTyped, AccountOf

\* The daemon's own steps.
LEMMA AccountsDaemon ==
    ASSUME TypeOK, AccountInv, Start \/ Daemon PROVE AccountInv'
<1> USE DEF history, messageHistory
<1>1. CASE HandleMessage
  BY <1>1, AccountsHandled
<1>2. CASE Start
  <2>1. UNCHANGED <<port, notified, lost>> /\ spent' = disk.spent /\ pc = "down" /\ pc' # "down"
    BY <1>2 DEF Start
  <2> QED BY <2>1, AccountsStill DEF Counted
<1>3. CASE Wake
  <2>1. UNCHANGED <<port, notified, lost, spent>> /\ pc # "down" /\ pc' # "down"
    BY <1>3 DEF Wake, settings
  <2> QED BY <2>1, AccountsStill DEF Counted
<1>4. CASE StartLoop
  <2>1. port' = <<>> /\ pc # "down" /\ pc' # "down" /\ port' = port
    BY <1>4 DEF StartLoop
  <2>2. ZeroAccounts \/ UNCHANGED <<notified, lost, spent>>
    BY <1>4 DEF StartLoop, settings
  <2> QED BY <2>1, <2>2, AccountsZeroed, AccountsStill DEF Counted
<1>5. CASE ResetTick
  BY <1>5, AccountsZeroed DEF ResetTick
<1>6. ASSUME NEW market, NEW stale, NEW feasible, PublishTick(market, stale, feasible)
      PROVE  AccountInv'
  <2>1. UNCHANGED <<port, notified, lost, spent>> /\ pc # "down" /\ pc' # "down"
    BY <1>6 DEF PublishTick
  <2> QED BY <2>1, AccountsStill DEF Counted
<1> QED BY <1>1, <1>2, <1>3, <1>4, <1>5, <1>6 DEF Daemon, Tick

\* An install drops all messages at once.
LEMMA AccountsInstalled ==
    ASSUME TypeOK, AccountInv, SavedAtAwait, Install PROVE AccountInv'
<1>1. /\ port' = <<>> /\ pc' = "down" /\ pc \in {"down", "sleep"}
      /\ UNCHANGED <<disk, spent, notified>>
      /\ lost' = [b \in Bucket |-> lost[b] + Purchased({b}, port)]
  BY DEF Install, Forget, Happens, Await, Lose, settings
<1>2. port \in Seq(Message)
  BY DEF TypeOK
<1>3. ASSUME NEW b \in Bucket PROVE AccountOf(b)' /\ lost'[b] \in Nat
  <2>1. Purchased({b}, port) \in Nat /\ Purchased({b}, port') = 0
    BY <1>1, <1>2, PurchasedNat, PurchasedEmpty
  <2>2. notified[b] = (Purchased({b}, port) + lost[b]) + Counted(b) /\ lost[b] \in Nat
    BY DEF AccountInv, AccountOf, HistoryTyped
  <2>3. Counted(b) = disk.spent[b] /\ Counted(b)' = disk.spent[b] /\ Counted(b) \in Nat
    BY <1>1, CountedNat DEF Counted, SavedAtAwait
  <2>4. lost'[b] = lost[b] + Purchased({b}, port) /\ notified'[b] = notified[b]
    BY <1>1
  <2>5. notified'[b] = (Purchased({b}, port') + lost'[b]) + Counted(b)'
    BY <2>1, <2>2, <2>3, <2>4
  <2>6. lost'[b] \in Nat
    BY <2>1, <2>2, <2>4
  <2> QED BY <2>5, <2>6 DEF AccountOf
<1>4. HistoryTyped'
  BY <1>1, <1>3 DEF AccountInv, HistoryTyped
<1> QED BY <1>3, <1>4 DEF AccountInv

LEMMA AccountsBought ==
    ASSUME TypeOK, AccountInv, NEW b \in Bucket, NEW price \in Price, Buy(b, price)
    PROVE  AccountInv'
<1> DEFINE m == [action |-> "purchased", bucket |-> b, amount |-> price]
<1>1. price \in Nat /\ m \in Message
  BY EnvironmentAssumption, SentMessages
<1>2. /\ Send(m) /\ UNCHANGED <<pc, disk, spent>>
      /\ notified' = [notified EXCEPT ![b] = @ + price]
  BY DEF Buy, daemonVars, settings
<1>3. notified \in [Bucket -> Nat]
  BY DEF AccountInv, HistoryTyped
<1>4. \A c \in Bucket : Amount({c}, m) = IF c = b THEN price ELSE 0
  BY DEF Amount
<1>5. ASSUME NEW c \in Bucket PROVE notified'[c] = notified[c] + Amount({c}, m)
  <2>1. notified[c] \in Nat
    BY <1>3
  <2> QED BY <1>1, <1>2, <1>3, <1>4, <2>1
<1>6. notified' \in [Bucket -> Nat]
  BY <1>1, <1>2, <1>3
<1> HIDE DEF m
<1> QED BY <1>1, <1>2, <1>5, <1>6, AccountsSent

\* A message that is no purchase.
LEMMA AccountsOtherSent ==
    ASSUME TypeOK, AccountInv, NEW m \in Message, m.action # "purchased", Send(m),
           UNCHANGED <<pc, disk, spent, notified>>
    PROVE  AccountInv'
<1>1. notified \in [Bucket -> Nat]
  BY DEF AccountInv, HistoryTyped
<1>2. \A b \in Bucket : Amount({b}, m) = 0 /\ notified[b] \in Nat
  BY <1>1 DEF Amount
<1>3. \A b \in Bucket : notified'[b] = notified[b] + Amount({b}, m)
  BY <1>2
<1>4. notified' \in [Bucket -> Nat]
  BY <1>1
<1> QED BY <1>3, <1>4, AccountsSent

LEMMA AccountsEnvironment ==
    ASSUME TypeOK, AccountInv, SavedAtAwait, Environment PROVE AccountInv'
<1> USE DEF daemonVars, settings, history, messageHistory
<1>1. CASE \E b \in Bucket, price \in Price : Buy(b, price)
  BY <1>1, AccountsBought
<1>2. ASSUME NEW b \in Bucket, SignalDone(b) \/ ReactivateBucket(b) PROVE AccountInv'
  <2>1. PICK a \in {"done", "reactivate"} : Send([action |-> a, bucket |-> b, amount |-> 0])
    BY <1>2 DEF SignalDone, ReactivateBucket
  <2>2. /\ [action |-> a, bucket |-> b, amount |-> 0] \in Message
        /\ [action |-> a, bucket |-> b, amount |-> 0].action # "purchased"
    BY SentMessages
  <2>3. UNCHANGED <<pc, disk, spent, notified>>
    BY <1>2 DEF SignalDone, ReactivateBucket
  <2> QED BY <2>1, <2>2, <2>3, AccountsOtherSent
<1>3. ASSUME NEW m \in Command, SendCommand(m) PROVE AccountInv'
  <2>1. m \in Message /\ m.action # "purchased"
    BY EnvironmentAssumption
  <2>2. Send(m) /\ UNCHANGED <<pc, disk, spent, notified>>
    BY <1>3 DEF SendCommand
  <2> QED BY <2>1, <2>2, AccountsOtherSent
<1>4. CASE \/ \E amount \in Price : Earn(amount) \/ Spend(amount)
           \/ StatusExpires \/ \E b \in Disabled : MarkDone(b)
  <2>1. UNCHANGED <<port, notified, lost, pc, disk, spent>>
    BY <1>4 DEF Earn, Spend, StatusExpires, MarkDone
  <2> QED BY <2>1, AccountsStill DEF Counted
<1>5. CASE Stop
  <2>1. /\ UNCHANGED <<port, notified, lost, disk, spent>>
        /\ pc = "sleep" /\ pc' = "down" /\ disk.spent = spent
    BY <1>5 DEF Stop, Forget, SavedAtAwait
  <2> QED BY <2>1, AccountsStill DEF Counted
<1>6. CASE Install
  BY <1>6, AccountsInstalled
<1> QED BY <1>1, <1>2, <1>3, <1>4, <1>5, <1>6 DEF Environment

LEMMA AccountsStart == Init => AccountInv
<1> SUFFICES ASSUME Init PROVE AccountInv
  OBVIOUS
<1>1. /\ port = <<>> /\ notified = Zero /\ lost = Zero /\ pc = "down"
      /\ disk.spent = Zero
  BY DEF Init, DefaultState
<1>2. ASSUME NEW b \in Bucket PROVE AccountOf(b)
  <2>1. Purchased({b}, port) = 0
    BY <1>1, PurchasedEmpty
  <2>2. notified[b] = 0 /\ lost[b] = 0 /\ Counted(b) = 0
    BY <1>1 DEF Zero, Counted
  <2> QED BY <2>1, <2>2 DEF AccountOf
<1>3. HistoryTyped
  BY <1>1 DEF HistoryTyped, Zero
<1> QED BY <1>2, <1>3 DEF AccountInv

LEMMA AccountsStep == TypeOK /\ SavedAtAwait /\ AccountInv /\ [Next]_vars => AccountInv'
<1> SUFFICES ASSUME TypeOK, SavedAtAwait, AccountInv, [Next]_vars PROVE AccountInv'
  OBVIOUS
<1>1. CASE UNCHANGED vars
  <2>1. UNCHANGED <<port, notified, lost, pc, disk, spent>>
    BY <1>1 DEF vars, daemonVars, settings, history, messageHistory
  <2> QED BY <2>1, AccountsStill DEF Counted
<1> QED BY <1>1, AccountsDaemon, AccountsEnvironment DEF Next

\* Every purchase a consumer notified is in exactly one place: still in the port, lost
\* with it, or in its bucket's account, which drainControlPort and handleMessage keep
\* and saveState and loadState carry over a restart.
THEOREM AccountsAreExact == Spec => []AccountsExact
<1>1. TypeOK /\ AccountInv => AccountsExact
  BY AccountsAgree
<1> QED BY <1>1, AccountsStart, AccountsStep, TypeCorrect, SavedWhenKilled, PTL DEF Spec

---------------------------------------------------------------------------
(* Resets *)

\* Since the last tick, cash fell by no more than what was notified of it, unless
\* unexplained says so: the notifications are in the port or already summed up.
ResetInv ==
    /\ pc = "starting" => prevCash <= cash
    /\ pc = "draining" /\ ~unexplained
         => prevCash <= (cash + spending) + Purchased(Bucket, port)
    /\ pc = "sleep" /\ ~unexplained => prevCash <= cash + Purchased(Bucket, port)

LEMMA Amounts == ASSUME TypeOK
                 PROVE  /\ cash \in Nat /\ prevCash \in Nat /\ spending \in Nat
                        /\ Purchased(Bucket, port) \in Nat
<1>1. port \in Seq(Message)
  BY DEF TypeOK
<1> QED BY <1>1, CashNat, PurchasedNat DEF TypeOK

\* No detected reset with more cash, or what was spent of it, than before.
LEMMA NoReset ==
    ASSUME NEW before \in Nat, NEW now \in Nat, before <= now
    PROVE  ~IsAugReset(before, now)
  BY DEF IsAugReset

\* A full port that drops a purchase says so.
LEMMA DroppedPurchase ==
    ASSUME TypeOK, HistoryTyped, NEW m \in Message, Send(m), ~unexplained'
    PROVE  Purchased(Bucket, Dropped) = 0
<1>1. CASE Len(port) = PortCapacity
  <2> DEFINE first == Head(port)
  <2>1. first \in Message /\ Dropped = <<first>>
    BY <1>1, SentPort
  <2>2. first.bucket \in Bucket /\ first.amount \in Nat
    BY <2>1 DEF Message
  <2>3. /\ Purchased(Bucket, Dropped) = Amount(Bucket, first)
        /\ Purchased({first.bucket}, Dropped) = Amount({first.bucket}, first)
    BY <2>1, PurchasedOne
  <2>4. Amount(Bucket, first) = Amount({first.bucket}, first)
    BY <2>2 DEF Amount
  <2>5. lost' = lost /\ lost'[first.bucket] = lost[first.bucket] + Purchased({first.bucket}, Dropped)
    BY <2>2, SentPort
  <2>6. lost[first.bucket] \in Nat /\ Amount({first.bucket}, first) \in Nat
    BY <2>1, <2>2, AmountNat DEF HistoryTyped
  <2> HIDE DEF first
  <2> QED BY <2>3, <2>4, <2>5, <2>6
<1>2. CASE Len(port) # PortCapacity
  BY <1>2, SentPort, PurchasedEmpty
<1> QED BY <1>1, <1>2

\* A message sent while the daemon sleeps: the cash falls by no more than its amount.
LEMMA ResetSent ==
    ASSUME TypeOK, HistoryTyped, ResetInv, Await, NEW m \in Message, Send(m),
           UNCHANGED <<pc, prevCash>>, cash' \in Nat, cash <= cash' + Amount(Bucket, m)
    PROVE  ResetInv'
<1>1. pc' \in {"down", "sleep"}
  BY DEF Await
<1>2. ASSUME pc' = "sleep", ~unexplained' PROVE prevCash' <= cash' + Purchased(Bucket, port')
  <2>1. prevCash <= cash + Purchased(Bucket, port)
    <3>1. ~unexplained
      BY <1>2, SentPort
    <3> QED BY <1>2, <3>1 DEF ResetInv
  <2>2. /\ Purchased(Bucket, port') + Purchased(Bucket, Dropped)
             = Purchased(Bucket, port) + Amount(Bucket, m)
        /\ Purchased(Bucket, port') \in Nat /\ Amount(Bucket, m) \in Nat
    BY SentPurchases
  <2>3. Purchased(Bucket, Dropped) = 0
    BY <1>2, DroppedPurchase
  <2>4. cash \in Nat /\ prevCash \in Nat /\ Purchased(Bucket, port) \in Nat /\ prevCash' = prevCash
    BY Amounts
  <2> QED BY <2>1, <2>2, <2>3, <2>4
<1> QED BY <1>1, <1>2 DEF ResetInv

LEMMA ResetHandled == ASSUME TypeOK, ResetInv, HandleMessage PROVE ResetInv'
<1>1. PICK kind : Take(kind)
  BY DEF HandleMessage, HandlePurchased, HandleDone, HandleReportCap, HandleReportNext,
     HandleRush, HandleWeights, HandleReactivate, HandleFreeze, HandleUnfreeze
<1>2. /\ message \in Message /\ message.action = kind
      /\ pc' = pc /\ pc \in {"starting", "draining"}
      /\ UNCHANGED <<cash, prevCash, unexplained>>
  BY <1>1, Taken
<1>3. /\ Purchased(Bucket, port) = Amount(Bucket, message) + Purchased(Bucket, port')
      /\ Purchased(Bucket, port') \in Nat /\ Amount(Bucket, message) \in Nat
  BY <1>1, TakenPurchases
<1>4. cash \in Nat /\ prevCash \in Nat /\ spending \in Nat
  BY Amounts
<1>5. spending' = spending + Amount(Bucket, message)
  <2>1. message.bucket \in Bucket
    BY <1>2 DEF Message
  <2>2. CASE HandlePurchased
    <3>1. spending' = spending + message.amount /\ message.action = "purchased"
      BY <2>2 DEF HandlePurchased, Take
    <3> QED BY <2>1, <3>1 DEF Amount
  <2>3. CASE ~HandlePurchased
    <3>1. spending' = spending
      BY <2>3 DEF HandleMessage, HandleDone, HandleReportCap, HandleReportNext,
         HandleRush, HandleWeights, HandleReactivate, HandleFreeze, HandleUnfreeze
    <3>2. message.action # "purchased"
      BY <2>3 DEF HandleMessage, HandleDone, HandleReportCap, HandleReportNext,
         HandleRush, HandleWeights, HandleReactivate, HandleFreeze, HandleUnfreeze, Take
    <3> QED BY <1>4, <3>1, <3>2 DEF Amount
  <2> QED BY <2>2, <2>3
<1>6. ASSUME pc' = "draining", ~unexplained'
      PROVE  prevCash' <= (cash' + spending') + Purchased(Bucket, port')
  <2>1. prevCash <= (cash + spending) + Purchased(Bucket, port)
    BY <1>2, <1>6 DEF ResetInv
  <2>2. cash' = cash /\ prevCash' = prevCash
    BY <1>2
  <2> QED BY <1>3, <1>4, <1>5, <2>1, <2>2
<1>7. pc' = "starting" => prevCash' <= cash'
  BY <1>2 DEF ResetInv
<1>8. pc' # "sleep"
  BY <1>2
<1> QED BY <1>6, <1>7, <1>8 DEF ResetInv

LEMMA ResetDaemon == ASSUME TypeOK, ResetInv, Start \/ Daemon PROVE ResetInv'
<1> USE DEF history, messageHistory
<1>0. cash \in Nat /\ prevCash \in Nat /\ spending \in Nat /\ Purchased(Bucket, port) \in Nat
  BY Amounts
<1>1. CASE HandleMessage
  BY <1>1, ResetHandled
<1>2. CASE Start
  <2>1. pc' = "starting" /\ prevCash' = cash /\ cash' = cash
    BY <1>2 DEF Start
  <2> QED BY <1>0, <2>1 DEF ResetInv
<1>3. CASE Wake
  <2>1. /\ pc = "sleep" /\ pc' = "draining" /\ spending' = 0
        /\ UNCHANGED <<cash, prevCash, port, unexplained>>
    BY <1>3 DEF Wake
  <2> QED BY <1>0, <2>1 DEF ResetInv
<1>4. CASE StartLoop
  <2>1. /\ pc = "starting" /\ pc' = "draining" /\ port = <<>> /\ port' = port /\ cash' = cash
        /\ spending' = 0 /\ (prevCash' = prevCash \/ prevCash' = cash)
    BY <1>4 DEF StartLoop, ZeroAccounts
  <2>2. prevCash' <= cash /\ Purchased(Bucket, port') \in Nat
    BY <1>0, <2>1 DEF ResetInv
  <2> QED BY <1>0, <2>1, <2>2 DEF ResetInv
<1>5. ASSUME ResetTick \/ \E market, stale, feasible : PublishTick(market, stale, feasible)
      PROVE  ResetInv'
  <2>1. pc' = "sleep" /\ prevCash' = cash /\ cash' = cash /\ port' = port
    BY <1>5 DEF ResetTick, PublishTick, ZeroAccounts
  <2> QED BY <1>0, <2>1 DEF ResetInv
<1> QED BY <1>1, <1>2, <1>3, <1>4, <1>5 DEF Daemon, Tick

LEMMA ResetEnvironment ==
    ASSUME TypeOK, TypeOK', HistoryTyped, ResetInv, Environment PROVE ResetInv'
<1> USE DEF daemonVars, history, messageHistory
<1>0. /\ cash \in Nat /\ prevCash \in Nat /\ Purchased(Bucket, port) \in Nat /\ cash' \in Nat
      /\ MaxCash \in Nat
  BY Amounts, ConfigAssumption DEF TypeOK
<1>1. ASSUME NEW b \in Bucket, NEW price \in Price, Buy(b, price) PROVE ResetInv'
  <2> DEFINE m == [action |-> "purchased", bucket |-> b, amount |-> price]
  <2>1. m \in Message /\ Amount(Bucket, m) = price /\ price \in Nat
    BY EnvironmentAssumption, SentMessages DEF Amount
  <2>2. Send(m) /\ Await /\ UNCHANGED <<pc, prevCash>> /\ price <= cash /\ cash' = cash - price
    BY <1>1 DEF Buy, Happens
  <2>3. cash <= cash' + price
    BY <1>0, <2>1, <2>2
  <2> HIDE DEF m
  <2> QED BY <1>0, <2>1, <2>2, <2>3, ResetSent
<1>2. ASSUME NEW m \in Message, Send(m), Await, UNCHANGED <<pc, prevCash, cash>> PROVE ResetInv'
  <2>1. Amount(Bucket, m) \in Nat
    BY AmountNat
  <2>2. cash' = cash /\ cash <= cash' + Amount(Bucket, m)
    BY <1>0, <1>2, <2>1
  <2> QED BY <1>0, <1>2, <2>2, ResetSent
<1>3. ASSUME NEW b \in Bucket, SignalDone(b) \/ ReactivateBucket(b) PROVE ResetInv'
  <2>1. PICK a \in {"done", "reactivate"} : Send([action |-> a, bucket |-> b, amount |-> 0])
    BY <1>3 DEF SignalDone, ReactivateBucket
  <2>2. [action |-> a, bucket |-> b, amount |-> 0] \in Message
    BY SentMessages
  <2>3. UNCHANGED <<pc, prevCash, cash>> /\ Await
    BY <1>3 DEF SignalDone, ReactivateBucket, Happens
  <2> QED BY <1>2, <2>1, <2>2, <2>3
<1>4. ASSUME NEW m \in Command, SendCommand(m) PROVE ResetInv'
  <2>1. m \in Message
    BY EnvironmentAssumption
  <2>2. Send(m) /\ Await /\ UNCHANGED <<pc, prevCash, cash>>
    BY <1>4 DEF SendCommand, Happens
  <2> QED BY <1>2, <2>1, <2>2
<1>5. ASSUME NEW amount \in Price, Earn(amount) PROVE ResetInv'
  <2>1. amount \in Nat
    BY EnvironmentAssumption
  <2>2. /\ UNCHANGED <<pc, prevCash, port, unexplained>> /\ cash' = cash + amount
        /\ pc \in {"down", "sleep"}
    BY <1>5 DEF Earn, Happens, Await
  <2> QED BY <1>0, <2>1, <2>2 DEF ResetInv
<1>6. CASE (\E amount \in Price : Spend(amount)) \/ Install
  <2>1. unexplained' = TRUE /\ pc' \in {"down", "sleep"}
    BY <1>6 DEF Spend, Install, Forget, Happens, Await
  <2> QED BY <2>1 DEF ResetInv
<1>7. CASE Stop
  <2>1. pc' = "down"
    BY <1>7 DEF Stop, Forget
  <2> QED BY <2>1 DEF ResetInv
<1>8. CASE StatusExpires
  <2>1. pc' = "down"
    BY <1>8 DEF StatusExpires
  <2> QED BY <2>1 DEF ResetInv
<1>9. ASSUME NEW b \in Disabled, MarkDone(b) PROVE ResetInv'
  <2>1. UNCHANGED <<pc, prevCash, cash, spending, port, unexplained>>
    BY <1>9 DEF MarkDone
  <2> QED BY <1>0, <2>1 DEF ResetInv
<1> QED BY <1>1, <1>3, <1>4, <1>5, <1>6, <1>7, <1>8, <1>9 DEF Environment

LEMMA ResetStep ==
    TypeOK /\ TypeOK' /\ AccountInv /\ ResetInv /\ [Next]_vars => ResetInv'
<1> SUFFICES ASSUME TypeOK, TypeOK', AccountInv, ResetInv, [Next]_vars PROVE ResetInv'
  OBVIOUS
<1>1. CASE UNCHANGED vars
  <2>1. UNCHANGED <<pc, prevCash, port, unexplained, cash, spending>>
    BY <1>1 DEF vars, daemonVars, history
  <2> QED BY <2>1 DEF ResetInv
<1> QED BY <1>1, ResetDaemon, ResetEnvironment DEF Next, AccountInv

LEMMA ResetStart == Init => ResetInv
  BY DEF Init, ResetInv

LEMMA AccountInvAlways == Spec => []AccountInv
  BY AccountsStart, AccountsStep, TypeCorrect, SavedWhenKilled, PTL DEF Spec

\* isAugReset finds a reset only when cash fell without a notification since the last
\* tick: never because of purchases, however they lie in the port, and never in the
\* startup check of daemons/budget.ts, which compares the cash with itself.
THEOREM ResetsAreUnexplained == Spec => ResetsOnlyUnexplained
<1> DEFINE Step == ResetTick \/ (StartLoop /\ notified' # notified) => unexplained
<1>1. TypeOK /\ ResetInv /\ [Next]_vars => [Step]_vars
  <2> SUFFICES ASSUME TypeOK, ResetInv, ResetTick \/ (StartLoop /\ notified' # notified)
               PROVE  unexplained
    OBVIOUS
  <2>0. cash \in Nat /\ prevCash \in Nat /\ spending \in Nat
    BY Amounts
  <2>1. CASE ResetTick
    <3>1. pc = "draining" /\ port = <<>> /\ IsAugReset(prevCash, cash + spending)
      BY <2>1 DEF ResetTick
    <3>2. Purchased(Bucket, port) = 0
      BY <3>1, PurchasedEmpty
    <3>3. ~(prevCash <= cash + spending)
      BY <2>0, <3>1, NoReset
    <3> QED BY <2>0, <3>1, <3>2, <3>3 DEF ResetInv
  <2>2. CASE StartLoop /\ notified' # notified
    <3>1. pc = "starting" /\ IsAugReset(prevCash, cash + spending)
      BY <2>2 DEF StartLoop, messageHistory
    <3>2. prevCash <= cash + spending
      BY <2>0, <3>1 DEF ResetInv
    <3> QED BY <2>0, <3>1, <3>2, NoReset
  <2> QED BY <2>1, <2>2
<1>2. Spec => []ResetInv
  BY ResetStart, ResetStep, TypeCorrect, AccountInvAlways, PTL DEF Spec
<1> QED BY <1>1, <1>2, TypeCorrect, PTL DEF Spec, ResetsOnlyUnexplained

---------------------------------------------------------------------------
(* Signals *)

\* The flag the daemon has of a bucket, or will load.
Flagged(b) == IF pc = "down" THEN disk.active[b] ELSE active[b]

\* Message i of s is the last signal of b in it.
LastSignal(s, i, b) ==
    i \in DOMAIN s /\ IsSignal(s[i], b) /\ \A j \in DOMAIN s : j > i => ~IsSignal(s[j], b)

\* The last signal in the port of a bucket the marker file does not name reactivates it,
\* and a bucket without signal and marker is active, unless a reactivation was lost.
PortAgrees(b) ==
    \A i \in DOMAIN port :
        LastSignal(port, i, b) /\ b \notin marker => port[i].action = "reactivate"
FlagAgrees(b) ==
    b \notin SignalledIn(port) /\ b \notin marker /\ b \notin missed => Flagged(b)
SignalInv == \A b \in Bucket : PortAgrees(b) /\ FlagAgrees(b)

\* Steps that leave port, marker file and history alone.
LEMMA SignalsStill ==
    ASSUME SignalInv, UNCHANGED <<port, marker, missed>>,
           \A b \in Bucket : b \notin marker /\ Flagged(b) => Flagged(b)'
    PROVE  SignalInv'
<1>1. ASSUME NEW b \in Bucket PROVE PortAgrees(b)' /\ FlagAgrees(b)'
  <2>1. PortAgrees(b)'
    BY DEF SignalInv, PortAgrees
  <2>2. SignalledIn(port)' = SignalledIn(port)
    OBVIOUS
  <2>3. FlagAgrees(b)'
    BY <2>2 DEF SignalInv, FlagAgrees
  <2> QED BY <2>1, <2>3
<1> QED BY <1>1 DEF SignalInv

\* What is last in the rest of a sequence is last in the whole of it.
LEMMA LastOfTail ==
    ASSUME NEW s \in Seq(Message), s # <<>>, NEW b, NEW i, LastSignal(Tail(s), i, b)
    PROVE  LastSignal(s, i + 1, b) /\ s[i + 1] = Tail(s)[i] /\ i \in Nat
<1>1. /\ DOMAIN Tail(s) = 1..(Len(s) - 1) /\ DOMAIN s = 1..Len(s) /\ Len(s) \in Nat
      /\ \A j \in 1..(Len(s) - 1) : Tail(s)[j] = s[j + 1]
  OBVIOUS
<1>2. i \in 1..(Len(s) - 1) /\ i + 1 \in DOMAIN s /\ s[i + 1] = Tail(s)[i] /\ i \in Nat
  BY <1>1 DEF LastSignal
<1>3. ASSUME NEW j \in DOMAIN s, j > i + 1 PROVE ~IsSignal(s[j], b)
  <2>1. j - 1 \in DOMAIN Tail(s) /\ j - 1 > i /\ (j - 1) + 1 = j
    BY <1>1, <1>2, <1>3
  <2>2. Tail(s)[j - 1] = s[j]
    BY <1>1, <2>1
  <2> QED BY <2>1, <2>2 DEF LastSignal
<1> QED BY <1>2, <1>3 DEF LastSignal

LEMMA LastOfAppend ==
    ASSUME NEW s \in Seq(Message), NEW m \in Message, NEW b, NEW i,
           LastSignal(Append(s, m), i, b)
    PROVE  /\ IsSignal(m, b) => Append(s, m)[i] = m
           /\ ~IsSignal(m, b) => LastSignal(s, i, b) /\ Append(s, m)[i] = s[i]
<1> DEFINE t == Append(s, m)
           n == Len(s)
<1>1. /\ n \in Nat /\ DOMAIN s = 1..n /\ DOMAIN t = 1..(n + 1) /\ t[n + 1] = m
      /\ \A j \in 1..n : t[j] = s[j]
  OBVIOUS
<1>2. i \in 1..(n + 1) /\ IsSignal(t[i], b) /\ \A j \in 1..(n + 1) : j > i => ~IsSignal(t[j], b)
  BY <1>1 DEF LastSignal
<1> HIDE DEF t, n
<1>3. ASSUME IsSignal(m, b) PROVE t[i] = m
  <2>1. ~(n + 1 > i)
    BY <1>1, <1>2, <1>3
  <2>2. i = n + 1
    BY <1>1, <1>2, <2>1
  <2> QED BY <1>1, <2>2
<1>4. ASSUME ~IsSignal(m, b) PROVE LastSignal(s, i, b) /\ t[i] = s[i]
  <2>1. i # n + 1
    BY <1>1, <1>2, <1>4
  <2>2. i \in 1..n /\ t[i] = s[i]
    BY <1>1, <1>2, <2>1
  <2>3. ASSUME NEW j \in 1..n, j > i PROVE ~IsSignal(s[j], b)
    BY <1>1, <1>2, <2>3
  <2> QED BY <1>1, <1>2, <2>2, <2>3 DEF LastSignal
<1> QED BY <1>3, <1>4 DEF t

\* A message is sent, with the marker file changed for the bucket it signals.
LEMMA SignalsSent ==
    ASSUME TypeOK, SignalInv, NEW m \in Message, Send(m), UNCHANGED <<pc, disk, active>>,
           \A b \in Bucket : IsSignal(m, b) /\ b \notin marker' => m.action = "reactivate",
           \A b \in Bucket : ~IsSignal(m, b) => (b \in marker' <=> b \in marker)
    PROVE  SignalInv'
<1> DEFINE rest == IF Len(port) = PortCapacity THEN Tail(port) ELSE port
<1>1. rest \in Seq(Message) /\ port' = Append(rest, m) /\ port \in Seq(Message)
  <2>1. CASE Len(port) = PortCapacity
    <3>1. port \in Seq(Message) /\ port # <<>> /\ port' = Append(Tail(port), m)
      BY <2>1, SentPort
    <3>2. Tail(port) \in Seq(Message)
      BY <3>1
    <3> QED BY <2>1, <3>1, <3>2
  <2>2. CASE Len(port) # PortCapacity
    BY <2>2, SentPort
  <2> QED BY <2>1, <2>2
<1>2. ASSUME NEW b \in Bucket, NEW i, LastSignal(rest, i, b)
      PROVE  b \notin marker => rest[i].action = "reactivate"
  <2>1. CASE Len(port) = PortCapacity
    <3>1. port \in Seq(Message) /\ port # <<>> /\ rest = Tail(port)
      BY <2>1, SentPort
    <3>2. LastSignal(port, i + 1, b) /\ port[i + 1] = rest[i] /\ i + 1 \in DOMAIN port
      BY <1>2, <3>1, LastOfTail DEF LastSignal
    <3>3. b \notin marker => port[i + 1].action = "reactivate"
      BY <3>2 DEF SignalInv, PortAgrees
    <3> HIDE DEF rest
    <3> QED BY <3>2, <3>3
  <2>2. CASE Len(port) # PortCapacity
    <3>1. rest = port /\ i \in DOMAIN port
      BY <1>2, <2>2 DEF LastSignal
    <3> QED BY <1>2, <3>1 DEF SignalInv, PortAgrees
  <2> QED BY <2>1, <2>2
<1> HIDE DEF rest
<1>3. ASSUME NEW b \in Bucket PROVE PortAgrees(b)'
  <2> SUFFICES ASSUME NEW i \in DOMAIN port', LastSignal(port', i, b), b \notin marker'
               PROVE  port'[i].action = "reactivate"
    BY DEF PortAgrees
  <2>1. CASE IsSignal(m, b)
    <3>1. port'[i] = m
      BY <1>1, <2>1, LastOfAppend
    <3> QED BY <2>1, <3>1
  <2>2. CASE ~IsSignal(m, b)
    <3>1. LastSignal(rest, i, b) /\ port'[i] = rest[i]
      BY <1>1, <2>2, LastOfAppend
    <3>2. b \notin marker => rest[i].action = "reactivate"
      BY <1>2, <3>1
    <3> QED BY <2>2, <3>1, <3>2
  <2> QED BY <2>1, <2>2
<1>4. ASSUME NEW b \in Bucket PROVE FlagAgrees(b)'
  <2> SUFFICES ASSUME b \notin SignalledIn(port'), b \notin marker', b \notin missed'
               PROVE  Flagged(b)'
    BY DEF FlagAgrees
  <2>1. ~IsSignal(m, b)
    <3> SUFFICES ASSUME IsSignal(m, b) PROVE FALSE
      OBVIOUS
    <3>1. Len(rest) + 1 \in DOMAIN port' /\ port'[Len(rest) + 1] = m
      BY <1>1
    <3>2. b \in SignalledIn(port')
      BY <3>1 DEF SignalledIn
    <3> QED BY <3>2
  <2>2. b \notin marker
    BY <2>1
  <2>3. missed' = (missed \cup (SignalledIn(port) \ marker)) \ SignalledIn(port')
    BY SentPort
  <2>4. b \notin missed /\ b \notin SignalledIn(port)
    <3> HIDE DEF SignalledIn
    <3> QED BY <2>2, <2>3
  <2>5. Flagged(b)
    BY <2>2, <2>4 DEF SignalInv, FlagAgrees
  <2> QED BY <2>5 DEF Flagged
<1> QED BY <1>3, <1>4 DEF SignalInv

\* A message the daemon takes: if it was a bucket's only signal, the flag follows it.
LEMMA SignalsHandled == ASSUME TypeOK, SignalInv, HandleMessage PROVE SignalInv'
<1>1. PICK kind : Take(kind)
  BY DEF HandleMessage, HandlePurchased, HandleDone, HandleReportCap, HandleReportNext,
     HandleRush, HandleWeights, HandleReactivate, HandleFreeze, HandleUnfreeze
<1>2. /\ message \in Message /\ port \in Seq(Message) /\ port # <<>>
      /\ port' = Tail(port) /\ message = Head(port)
      /\ pc' = pc /\ pc # "down" /\ UNCHANGED <<marker, missed>>
  BY <1>1, Taken
<1>3. message.bucket \in Bucket /\ active \in [Bucket -> BOOLEAN]
  BY <1>2 DEF Message, TypeOK
<1>4. ASSUME NEW b \in Bucket, ~IsSignal(message, b) PROVE active'[b] = active[b]
  <2>1. CASE HandleDone \/ HandleReactivate
    <3>1. message.action \in {"done", "reactivate"}
      BY <2>1 DEF HandleDone, HandleReactivate, Take
    <3>2. message.bucket # b
      BY <1>4, <3>1 DEF IsSignal
    <3> QED BY <1>3, <2>1, <3>2 DEF HandleDone, HandleReactivate
  <2>2. CASE ~(HandleDone \/ HandleReactivate)
    <3>1. active' = active
      BY <2>2 DEF HandleMessage, HandlePurchased, HandleReportCap, HandleReportNext,
         HandleRush, HandleWeights, HandleFreeze, HandleUnfreeze, settings
    <3> QED BY <3>1
  <2> QED BY <2>1, <2>2
<1>5. ASSUME NEW b \in Bucket, IsSignal(message, b), message.action = "reactivate"
      PROVE  active'[b] = TRUE
  <2>1. HandleReactivate /\ message.bucket = b
    BY <1>5 DEF HandleMessage, HandlePurchased, HandleDone, HandleReportCap, HandleReportNext,
       HandleRush, HandleWeights, HandleReactivate, HandleFreeze, HandleUnfreeze, Take, IsSignal
  <2> QED BY <1>3, <2>1 DEF HandleReactivate
<1>6. ASSUME NEW b \in Bucket PROVE PortAgrees(b)'
  <2> SUFFICES ASSUME NEW i \in DOMAIN port', LastSignal(port', i, b), b \notin marker'
               PROVE  port'[i].action = "reactivate"
    BY DEF PortAgrees
  <2>1. LastSignal(port, i + 1, b) /\ port[i + 1] = port'[i] /\ i + 1 \in DOMAIN port
    BY <1>2, LastOfTail DEF LastSignal
  <2>2. b \notin marker => port[i + 1].action = "reactivate"
    BY <2>1 DEF SignalInv, PortAgrees
  <2> QED BY <1>2, <2>1, <2>2
<1>7. ASSUME NEW b \in Bucket PROVE FlagAgrees(b)'
  <2> SUFFICES ASSUME b \notin SignalledIn(port'), b \notin marker', b \notin missed'
               PROVE  Flagged(b)'
    BY DEF FlagAgrees
  <2>1. b \notin marker /\ b \notin missed
    BY <1>2
  <2>2. /\ DOMAIN port = 1..Len(port) /\ Len(port) \in Nat /\ Len(port) > 0 /\ message = port[1]
        /\ DOMAIN port' = 1..(Len(port) - 1)
        /\ \A j \in 1..(Len(port) - 1) : port'[j] = port[j + 1]
    BY <1>2
  <2>3. ASSUME NEW j \in DOMAIN port, j > 1 PROVE ~IsSignal(port[j], b)
    <3>1. j - 1 \in DOMAIN port' /\ port'[j - 1] = port[j]
      BY <2>2, <2>3
    <3>2. ~IsSignal(port'[j - 1], b)
      BY <3>1 DEF SignalledIn
    <3> QED BY <3>1, <3>2
  <2>4. CASE IsSignal(message, b)
    <3>1. LastSignal(port, 1, b) /\ 1 \in DOMAIN port
      BY <2>2, <2>3, <2>4 DEF LastSignal
    <3>2. b \notin marker => port[1].action = "reactivate"
      BY <3>1 DEF SignalInv, PortAgrees
    <3>3. message.action = "reactivate"
      BY <2>1, <2>2, <3>2
    <3>4. active'[b] = TRUE
      BY <1>5, <2>4, <3>3
    <3> QED BY <1>2, <3>4 DEF Flagged
  <2>5. CASE ~IsSignal(message, b)
    <3>1. b \notin SignalledIn(port)
      <4> SUFFICES ASSUME NEW j \in DOMAIN port, IsSignal(port[j], b) PROVE FALSE
        BY DEF SignalledIn
      <4>1. j = 1
        BY <2>2, <2>3
      <4> QED BY <2>2, <2>5, <4>1
    <3>2. Flagged(b)
      BY <2>1, <3>1 DEF SignalInv, FlagAgrees
    <3>3. active[b]
      BY <1>2, <3>2 DEF Flagged
    <3>4. active'[b] = active[b]
      BY <1>4, <2>5
    <3> QED BY <1>2, <3>3, <3>4 DEF Flagged
  <2> QED BY <2>4, <2>5
<1> QED BY <1>6, <1>7 DEF SignalInv

LEMMA SignalsZeroed == ASSUME ZeroAccounts, port' = <<>>, pc' # "down" PROVE SignalInv'
<1>1. active' = [b \in Bucket |-> TRUE]
  BY DEF ZeroAccounts
<1>2. DOMAIN port' = {}
  OBVIOUS
<1>3. ASSUME NEW b \in Bucket PROVE PortAgrees(b)' /\ FlagAgrees(b)'
  <2>1. PortAgrees(b)'
    BY <1>2 DEF PortAgrees
  <2>2. active'[b] = TRUE
    BY <1>1
  <2>3. FlagAgrees(b)'
    BY <2>2 DEF FlagAgrees, Flagged
  <2> QED BY <2>1, <2>3
<1> QED BY <1>3 DEF SignalInv

LEMMA SignalsDaemon == ASSUME TypeOK, SignalInv, Start \/ Daemon PROVE SignalInv'
<1> USE DEF history, messageHistory
<1>1. CASE HandleMessage
  BY <1>1, SignalsHandled
<1>2. CASE Start
  <2>1. UNCHANGED <<port, marker, missed>> /\ active' = disk.active /\ pc = "down" /\ pc' # "down"
    BY <1>2 DEF Start
  <2> QED BY <2>1, SignalsStill DEF Flagged
<1>3. CASE Wake
  <2>1. UNCHANGED <<port, marker, missed, active>> /\ pc # "down" /\ pc' # "down"
    BY <1>3 DEF Wake, settings
  <2> QED BY <2>1, SignalsStill DEF Flagged
<1>4. CASE StartLoop
  <2>1. port' = <<>> /\ pc # "down" /\ pc' # "down" /\ port' = port
    BY <1>4 DEF StartLoop
  <2>2. ZeroAccounts \/ UNCHANGED <<marker, missed, active>>
    BY <1>4 DEF StartLoop, settings
  <2>3. CASE ZeroAccounts
    BY <2>1, <2>3, SignalsZeroed
  <2>4. CASE UNCHANGED <<marker, missed, active>>
    BY <2>1, <2>4, SignalsStill DEF Flagged
  <2> QED BY <2>2, <2>3, <2>4
<1>5. CASE ResetTick
  <2>1. ZeroAccounts /\ port' = <<>> /\ pc' # "down"
    BY <1>5 DEF ResetTick
  <2> QED BY <2>1, SignalsZeroed
<1>6. ASSUME NEW market, NEW stale, NEW feasible, PublishTick(market, stale, feasible)
      PROVE  SignalInv'
  <2>1. /\ UNCHANGED <<port, marker, missed>> /\ active' = WithMarkers
        /\ pc # "down" /\ pc' # "down"
    BY <1>6 DEF PublishTick
  <2>2. \A b \in Bucket : b \notin marker /\ active[b] => active'[b]
    BY <2>1 DEF WithMarkers
  <2>3. \A b \in Bucket : b \notin marker /\ Flagged(b) => Flagged(b)'
    BY <2>1, <2>2 DEF Flagged
  <2> QED BY <2>1, <2>3, SignalsStill
<1> QED BY <1>1, <1>2, <1>3, <1>4, <1>5, <1>6 DEF Daemon, Tick

LEMMA SignalsInstalled ==
    ASSUME TypeOK, SignalInv, SavedAtAwait, Install PROVE SignalInv'
<1>1. /\ port' = <<>> /\ pc' = "down" /\ pc \in {"down", "sleep"}
      /\ UNCHANGED <<disk, marker>>
      /\ missed' = (missed \cup (SignalledIn(port) \ marker)) \ SignalledIn(port')
  BY DEF Install, Forget, Happens, Await, Lose
<1>2. DOMAIN port' = {}
  BY <1>1
<1>3. ASSUME NEW b \in Bucket PROVE PortAgrees(b)' /\ FlagAgrees(b)'
  <2>1. PortAgrees(b)'
    BY <1>2 DEF PortAgrees
  <2>2. b \notin SignalledIn(port')
    BY <1>2 DEF SignalledIn
  <2>3. ASSUME b \notin marker', b \notin missed' PROVE Flagged(b)'
    <3>1. b \notin marker
      BY <1>1, <2>3
    <3>2. b \notin missed /\ b \notin SignalledIn(port)
      <4> HIDE DEF SignalledIn
      <4> QED BY <1>1, <2>2, <2>3, <3>1
    <3>3. Flagged(b)
      BY <3>1, <3>2 DEF SignalInv, FlagAgrees
    <3> QED BY <1>1, <3>3 DEF Flagged, SavedAtAwait
  <2> QED BY <2>1, <2>3 DEF FlagAgrees
<1> QED BY <1>3 DEF SignalInv

LEMMA SignalsEnvironment ==
    ASSUME TypeOK, SignalInv, SavedAtAwait, Environment PROVE SignalInv'
<1> USE DEF daemonVars, settings, history, messageHistory
<1>1. ASSUME NEW m \in Message, Send(m), UNCHANGED <<pc, disk, active, marker>>,
             m.action \notin {"done", "reactivate"}
      PROVE  SignalInv'
  <2>1. \A b : ~IsSignal(m, b)
    BY <1>1 DEF IsSignal
  <2>2. marker' = marker
    BY <1>1
  <2> QED BY <1>1, <2>1, <2>2, SignalsSent
<1>2. ASSUME NEW b \in Bucket, NEW price \in Price, Buy(b, price) PROVE SignalInv'
  <2> DEFINE m == [action |-> "purchased", bucket |-> b, amount |-> price]
  <2>1. m \in Message /\ m.action = "purchased"
    BY EnvironmentAssumption, SentMessages
  <2>2. Send(m) /\ UNCHANGED <<pc, disk, active, marker>>
    BY <1>2 DEF Buy
  <2> HIDE DEF m
  <2> QED BY <1>1, <2>1, <2>2
<1>3. ASSUME NEW m \in Command, SendCommand(m) PROVE SignalInv'
  <2>1. m \in Message /\ m.action \notin {"done", "reactivate"}
    BY EnvironmentAssumption
  <2>2. Send(m) /\ UNCHANGED <<pc, disk, active, marker>>
    BY <1>3 DEF SendCommand
  <2> QED BY <1>1, <2>1, <2>2
<1>4. ASSUME NEW b \in Bucket, SignalDone(b) PROVE SignalInv'
  <2> DEFINE m == [action |-> "done", bucket |-> b, amount |-> 0]
  <2>1. m \in Message /\ m.action = "done" /\ m.bucket = b
    BY SentMessages
  <2>2. Send(m) /\ UNCHANGED <<pc, disk, active>> /\ marker' = marker \cup {b}
    BY <1>4 DEF SignalDone
  <2> HIDE DEF m
  <2>3. \A c : IsSignal(m, c) <=> c = b
    BY <2>1 DEF IsSignal
  <2>4. \A c \in Bucket : IsSignal(m, c) /\ c \notin marker' => m.action = "reactivate"
    BY <2>1, <2>2, <2>3
  <2>5. \A c \in Bucket : ~IsSignal(m, c) => (c \in marker' <=> c \in marker)
    BY <2>2, <2>3
  <2> QED BY <2>1, <2>2, <2>4, <2>5, SignalsSent
<1>5. ASSUME NEW b \in Bucket, ReactivateBucket(b) PROVE SignalInv'
  <2> DEFINE m == [action |-> "reactivate", bucket |-> b, amount |-> 0]
  <2>1. m \in Message /\ m.action = "reactivate" /\ m.bucket = b
    BY SentMessages
  <2>2. Send(m) /\ UNCHANGED <<pc, disk, active>> /\ marker' = marker \ {b}
    BY <1>5 DEF ReactivateBucket
  <2> HIDE DEF m
  <2>3. \A c : IsSignal(m, c) <=> c = b
    BY <2>1 DEF IsSignal
  <2>4. \A c \in Bucket : IsSignal(m, c) /\ c \notin marker' => m.action = "reactivate"
    BY <2>1, <2>2, <2>3
  <2>5. \A c \in Bucket : ~IsSignal(m, c) => (c \in marker' <=> c \in marker)
    BY <2>2, <2>3
  <2> QED BY <2>1, <2>2, <2>4, <2>5, SignalsSent
<1>6. CASE (\E amount \in Price : Earn(amount) \/ Spend(amount)) \/ StatusExpires
  <2>1. UNCHANGED <<port, marker, missed, pc, disk, active>>
    BY <1>6 DEF Earn, Spend, StatusExpires
  <2> QED BY <2>1, SignalsStill DEF Flagged
<1>7. CASE Stop
  <2>1. /\ UNCHANGED <<port, marker, missed, disk, active>>
        /\ pc = "sleep" /\ pc' = "down" /\ disk.active = active
    BY <1>7 DEF Stop, Forget, SavedAtAwait
  <2> QED BY <2>1, SignalsStill DEF Flagged
<1>8. CASE Install
  BY <1>8, SignalsInstalled
<1>9. ASSUME NEW b \in Disabled, MarkDone(b) PROVE SignalInv'
  <2>1. marker \subseteq marker' /\ UNCHANGED <<port, missed, pc, disk, active>>
    BY <1>9 DEF MarkDone
  <2>2. ASSUME NEW c \in Bucket PROVE PortAgrees(c)' /\ FlagAgrees(c)'
    <3>1. SignalledIn(port)' = SignalledIn(port) /\ (Flagged(c)' <=> Flagged(c))
      BY <2>1 DEF Flagged
    <3>2. PortAgrees(c) /\ FlagAgrees(c)
      BY DEF SignalInv
    <3> QED BY <2>1, <3>1, <3>2 DEF PortAgrees, FlagAgrees
  <2> QED BY <2>2 DEF SignalInv
<1> QED BY <1>2, <1>3, <1>4, <1>5, <1>6, <1>7, <1>8, <1>9 DEF Environment

LEMMA SignalsStart == Init => SignalInv
<1> SUFFICES ASSUME Init PROVE SignalInv
  OBVIOUS
<1>1. port = <<>> /\ pc = "down" /\ disk.active = [b \in Bucket |-> TRUE]
  BY DEF Init, DefaultState
<1>2. ASSUME NEW b \in Bucket PROVE PortAgrees(b) /\ FlagAgrees(b)
  <2>1. PortAgrees(b)
    BY <1>1 DEF PortAgrees
  <2>2. Flagged(b)
    BY <1>1 DEF Flagged
  <2> QED BY <2>1, <2>2 DEF FlagAgrees
<1> QED BY <1>2 DEF SignalInv

LEMMA SignalsStep == TypeOK /\ SavedAtAwait /\ SignalInv /\ [Next]_vars => SignalInv'
<1> SUFFICES ASSUME TypeOK, SavedAtAwait, SignalInv, [Next]_vars PROVE SignalInv'
  OBVIOUS
<1>1. CASE UNCHANGED vars
  <2>1. UNCHANGED <<port, marker, missed, pc, disk, active>>
    BY <1>1 DEF vars, daemonVars, settings, history, messageHistory
  <2> QED BY <2>1, SignalsStill DEF Flagged
<1> QED BY <1>1, SignalsDaemon, SignalsEnvironment DEF Next

\* After every tick a bucket is active exactly if the marker file does not name it,
\* unless its reactivation was lost: handleMessage and checkDoneMarkers agree with
\* signalDone and reactivateBucket however signals, ticks, resets, restarts and
\* dropped messages interleave.
THEOREM SignalsAlwaysAgree == Spec => SignalsAgree
<1> DEFINE Step == pc # "sleep" /\ pc' = "sleep"
                     => \A b \in Bucket \ missed' : active'[b] <=> b \notin marker'
<1>1. TypeOK /\ SignalInv /\ [Next]_vars => [Step]_vars
  <2> SUFFICES ASSUME TypeOK, SignalInv, Next, pc # "sleep", pc' = "sleep",
                      NEW b \in Bucket \ missed'
               PROVE  active'[b] <=> b \notin marker'
    OBVIOUS
  <2>1. CASE ResetTick
    <3>1. active'[b] = TRUE /\ marker' = {}
      BY <2>1 DEF ResetTick, ZeroAccounts
    <3> QED BY <3>1
  <2>2. ASSUME NEW market, NEW stale, NEW feasible, PublishTick(market, stale, feasible)
        PROVE  active'[b] <=> b \notin marker'
    <3>1. /\ pc = "draining" /\ port = <<>> /\ UNCHANGED <<marker, missed>>
          /\ active' = WithMarkers
      BY <2>2 DEF PublishTick, messageHistory
    <3>2. b \notin SignalledIn(port) /\ b \notin missed
      BY <3>1 DEF SignalledIn
    <3>3. b \notin marker => active[b]
      BY <3>1, <3>2 DEF SignalInv, FlagAgrees, Flagged
    <3>4. active'[b] <=> active[b] /\ b \notin marker
      BY <3>1 DEF WithMarkers
    <3> QED BY <3>1, <3>3, <3>4
  <2>3. CASE ~ResetTick /\ ~(\E market, stale, feasible : PublishTick(market, stale, feasible))
    <3>1. ~Tick
      BY <2>3 DEF Tick
    <3>2. ~Start /\ ~Wake /\ ~StartLoop
      BY DEF Start, Wake, StartLoop
    <3>3. ~HandleMessage
      BY Taken DEF HandleMessage, HandlePurchased, HandleDone, HandleReportCap,
         HandleReportNext, HandleRush, HandleWeights, HandleReactivate, HandleFreeze,
         HandleUnfreeze
    <3>4. ~Environment
      BY DEF Environment, Buy, SignalDone, ReactivateBucket, MarkDone, SendCommand, Earn, Spend, Stop,
         StatusExpires, Install, Forget, daemonVars
    <3> QED BY <3>1, <3>2, <3>3, <3>4 DEF Next, Daemon
  <2> QED BY <2>1, <2>2, <2>3
<1>2. Spec => []SignalInv
  BY SignalsStart, SignalsStep, TypeCorrect, SavedWhenKilled, PTL DEF Spec
<1> QED BY <1>1, <1>2, TypeCorrect, PTL DEF Spec, SignalsAgree
=============================================================================
