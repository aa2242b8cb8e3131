--------------------------- MODULE SpendersProofs ---------------------------
(***************************************************************************)
(* What TLAPS proves of Spenders, for every price list, size ladder, slot  *)
(* limit and set of weights.                                               *)
(***************************************************************************)
EXTENDS Spenders, FoldTheorems, SequenceTheorems

Place == {"down", "sleep", "filling", "upgrading", "buying"}
Size == DOMAIN ServerCost

\* Nobody spends cash that is not there, and what pserv plans and owns are sizes
\* that exist.
Solvent ==
    /\ cash \in Nat
    /\ status \in [live : BOOLEAN, allowance : [Bucket -> Nat]]
    /\ pending \in [Bucket -> Nat]
    /\ rams \in Seq(Size) /\ limit \in Size /\ cap \in Size
    /\ plan \in [left : Nat, size : Size]
    /\ pc \in [Bucket -> Place]
    /\ homeRam \in Nat /\ homeCores \in Nat /\ owned \subseteq DOMAIN ProgramCost
    /\ nodes \subseteq HacknetUpgrade

\* The inductive invariant.
SpendersInv == Solvent /\ BatchIsPaid

---------------------------------------------------------------------------
(* Prices *)

LEMMA Prices ==
    /\ Size = 1..Len(ServerCost) /\ Len(ServerCost) \in Nat \ {0} /\ 1 \in Size
    /\ \A k \in Size : ServerCost[k] \in Nat /\ ServerCost[k] > 0 /\ ServerSizes[k] \in Nat
    /\ \A k \in Size : k + 1 \in Size => ServerCost[k] < ServerCost[k + 1]
    /\ Limits \subseteq Size /\ Slots \in Nat /\ Slots > 0
<1>1. Size = 1..Len(ServerCost) /\ Len(ServerCost) \in Nat /\ Size = 1..Len(ServerSizes)
  BY SpendersAssumption DEF Size
<1>2. Len(ServerSizes) # 0
  BY SpendersAssumption
<1>3. \A k \in Size : ServerCost[k] \in Nat /\ ServerCost[k] > 0 /\ ServerSizes[k] \in Nat
  BY <1>1, SpendersAssumption
<1>4. ASSUME NEW k \in Size, k + 1 \in Size PROVE ServerCost[k] < ServerCost[k + 1]
  <2>1. k + 1 \in DOMAIN ServerCost \ {1} /\ (k + 1) - 1 = k
    BY <1>1, <1>4 DEF Size
  <2>2. ServerCost[(k + 1) - 1] < ServerCost[k + 1]
    BY <2>1, SpendersAssumption
  <2> QED BY <2>1, <2>2
<1>5. Limits \subseteq Size /\ Slots \in Nat /\ Slots > 0
  <2>1. DOMAIN ServerCost = DOMAIN ServerSizes /\ Limits \subseteq DOMAIN ServerSizes
    BY SpendersAssumption
  <2>2. Slots \in Nat \ {0}
    BY SpendersAssumption
  <2> QED BY <2>1, <2>2 DEF Size
<1> QED BY <1>1, <1>2, <1>3, <1>4, <1>5

LEMMA OtherPrices ==
    /\ HomeRamCost \in Seq(Nat) /\ HomeCoreCost \in Seq(Nat) /\ ProgramCost \in Seq(Nat)
    /\ TorCost \in Nat /\ HacknetCost \in [HacknetUpgrade -> Nat]
    /\ firstNode \in HacknetUpgrade
    /\ servers \in Bucket /\ home \in Bucket /\ programs \in Bucket /\ hacknet \in Bucket
<1>1. ASSUME NEW p, p \in Seq(Nat \ {0}) PROVE p \in Seq(Nat)
  BY <1>1
<1> QED BY <1>1, SpendersAssumption

\* A count of servers that divides the budget is covered by it.
LEMMA DivFits ==
    ASSUME NEW b \in Nat, NEW c \in Nat, c > 0
    PROVE  /\ b \div c \in Nat /\ (b \div c) * c <= b
           /\ c <= b => b \div c >= 1
  BY SMT

LEMMA MulMono ==
    ASSUME NEW m \in Nat, NEW n \in Nat, NEW c \in Nat, m <= n
    PROVE  m * c \in Nat /\ m * c <= n * c
<1>1. PICK d \in Nat : n = m + d
  <2>1. n - m \in Nat /\ n = m + (n - m)
    BY SMT
  <2> QED BY <2>1
<1>2. n * c = m * c + d * c /\ m * c \in Nat /\ d * c \in Nat
  BY <1>1, SMT
<1> QED BY <1>2, SMT

LEMMA BudgetFits == Solvent => Budget \in Nat /\ Budget <= cash
<1> SUFFICES ASSUME Solvent PROVE Budget \in Nat /\ Budget <= cash
  OBVIOUS
<1>1. cash \in Nat /\ status.allowance[servers] \in Nat
  BY OtherPrices DEF Solvent
<1> QED BY <1>1 DEF Budget, MinOf

---------------------------------------------------------------------------
(* The budget daemon *)

LEMMA MinusNat == ASSUME NEW a \in Nat, NEW b \in Nat PROVE Minus(a, b) \in Nat
  BY DEF Minus

LEMMA NatTimes == \A x, y \in Nat : x * y \in Nat
  BY SMT

\* What a tick publishes are natural numbers.
LEMMA PublishedNat ==
    ASSUME Solvent, NEW goal \in Bucket \cup {NoBucket}
    PROVE  Published(goal) \in [Bucket -> Nat]
<1>1. Effective \in [Bucket -> Nat]
  <2>1. Weight \in [Bucket -> 1..100]
    BY SpendersAssumption
  <2>2. Weight \in [Bucket -> Nat]
    BY <2>1
  <2> QED BY <2>2, RulesAssumption DEF Effective, EffectiveWeights
<1> DEFINE cost == IF goal = NoBucket THEN 0 ELSE pending[goal]
           reserve == ComputeReserve(cash, goal, cost)
           granted == IsGranted(goal, reserve, cost)
           Allowance(b) == IF b = goal THEN GoalAllowance(cash, Effective[b], granted, cost)
                           ELSE SpenderAllowance(cash, reserve, Effective[b])
<1>2. cash \in Nat /\ cost \in Nat
  BY DEF Solvent
<1>3. reserve \in Nat
  <2> HIDE DEF cost
  <2>1. ReserveShare \in Nat
    BY RulesAssumption
  <2>2. 100 * cost \in Nat /\ ReserveShare * cash \in Nat
    BY <1>2, <2>1, NatTimes
  <2> QED BY <2>2 DEF ComputeReserve, MinOf
<1>4. ASSUME NEW b \in Bucket PROVE Allowance(b) \in Nat
  <2> HIDE DEF cost, reserve, granted
  <2>1. Effective[b] \in Nat /\ 100 * cash \in Nat
    BY <1>1, <1>2
  <2>2. (100 * cash) * Effective[b] \in Nat /\ 10000 * cost \in Nat
    BY <1>2, <2>1, NatTimes
  <2>3. GoalAllowance(cash, Effective[b], granted, cost) \in Nat
    BY <2>2 DEF GoalAllowance, MaxOf
  <2>4. Minus(100 * cash, reserve) \in Nat
    BY <1>3, <2>1, MinusNat
  <2>5. SpenderAllowance(cash, reserve, Effective[b]) \in Nat
    BY <2>1, <2>4, NatTimes DEF SpenderAllowance
  <2> QED BY <2>3, <2>5
<1>5. Published(goal) = [b \in Bucket |-> Allowance(b) \div 10000]
  BY DEF Published
<1>6. \A n \in Nat : n \div 10000 \in Nat
  BY SMT
<1>7. ASSUME NEW b \in Bucket PROVE Allowance(b) \div 10000 \in Nat
  <2> DEFINE whole == Allowance(b)
  <2>1. whole \in Nat
    BY <1>4
  <2> HIDE DEF whole
  <2>2. whole \div 10000 \in Nat
    BY <2>1, <1>6
  <2> QED BY <2>2 DEF whole
<1> HIDE DEF Allowance
<1> QED BY <1>5, <1>7

LEMMA TickSolvent ==
    ASSUME Solvent, NEW feasible, Tick(feasible)
    PROVE  status' \in [live : BOOLEAN, allowance : [Bucket -> Nat]]
<1>1. PICK goal \in SelectGoal(pending, Effective, feasible) :
        status' = [live |-> TRUE, allowance |-> Published(goal)]
  BY DEF Tick
<1>2. goal \in Bucket \cup {NoBucket}
  BY DEF SelectGoal, Eligible
<1>3. Published(goal) \in [Bucket -> Nat]
  BY <1>2, PublishedNat
<1> QED BY <1>1, <1>3

---------------------------------------------------------------------------
(* pserv *)

\* What the end of a turn of its loops leaves.
PservOK ==
    /\ cash' \in Nat /\ pending' \in [Bucket -> Nat] /\ rams' \in Seq(Size)
    /\ cap' \in Size /\ plan' \in [left : Nat, size : Size]
    /\ pc' \in [Bucket -> Place]

LEMMA GotoPlace ==
    ASSUME Solvent, NEW b \in Bucket, NEW place \in Place, Goto(b, place)
    PROVE  pc' \in [Bucket -> Place] /\ pc'[b] = place
  BY DEF Goto, Solvent

LEMMA EndOK ==
    ASSUME Solvent, NEW waitingCost \in Nat, NEW marks, NEW maximum, NEW table,
           EndServersCycle(waitingCost, marks, maximum, table)
    PROVE  /\ pending' \in [Bucket -> Nat] /\ cap' \in Size
           /\ plan' \in [left : Nat, size : Size]
           /\ pc' \in [Bucket -> Place] /\ pc'[servers] # "filling"
<1>1. pending' \in [Bucket -> Nat]
  BY DEF EndServersCycle, Solvent
<1>2. cap' \in Size /\ plan' \in [left : Nat, size : Size]
  <2>1. cap' = limit /\ plan' = noPlan
    BY DEF EndServersCycle
  <2>2. noPlan \in [left : Nat, size : Size]
    BY Prices DEF noPlan
  <2> QED BY <2>1, <2>2 DEF Solvent
<1>3. PICK place \in {"down", "sleep"} : Goto(servers, place)
  BY DEF EndServersCycle
<1>4. place \in Place /\ place # "filling"
  BY DEF Place
<1> QED BY <1>1, <1>2, <1>3, <1>4, GotoPlace, OtherPrices

LEMMA SmallestExists == Solvent /\ Len(rams) >= Slots => Smallest \in DOMAIN rams
<1> SUFFICES ASSUME Solvent, Len(rams) >= Slots PROVE Smallest \in DOMAIN rams
  OBVIOUS
<1>1. DOMAIN rams = 1..Len(rams) /\ Len(rams) \in Nat /\ Len(rams) > 0
  BY Prices DEF Solvent
<1>2. \A i \in DOMAIN rams : rams[i] \in Nat
  BY Prices DEF Solvent
<1> DEFINE R == {rams[i] : i \in DOMAIN rams}
<1>3. PICK r \in R : \A m \in R : r <= m
  <2>1. R \subseteq Nat /\ R # {}
    BY <1>1, <1>2
  <2> HIDE DEF R
  <2> QED BY <2>1, LeastNat
<1> DEFINE U == {i \in DOMAIN rams : rams[i] = r}
<1>4. PICK i \in U : \A m \in U : i <= m
  <2>1. U \subseteq Nat /\ U # {}
    BY <1>1
  <2> HIDE DEF U
  <2> QED BY <2>1, LeastNat
<1>5. ASSUME NEW j \in DOMAIN rams
      PROVE  rams[i] < rams[j] \/ (rams[i] = rams[j] /\ i <= j)
  <2>1. r <= rams[j] /\ rams[i] = r /\ r \in Nat /\ rams[j] \in Nat
    BY <1>2, <1>3
  <2>2. rams[j] = r => i <= j
    BY <1>4
  <2> HIDE DEF R, U
  <2> QED BY <2>1, <2>2
<1> QED BY <1>5 DEF Smallest

LEMMA BuyOK ==
    ASSUME Solvent, NEW size \in Size, NEW left \in Nat, NEW maximum \in Size,
           ServerCost[size] <= cash, BuyServer(size, left, maximum)
    PROVE  /\ PservOK /\ pc'[servers] = "filling"
           /\ cash' = cash - ServerCost[size] /\ Len(rams') = Len(rams) + 1
           /\ plan'.left = left /\ plan'.size = size
<1>1. cash' = cash - ServerCost[size] /\ cash' \in Nat
  BY Prices DEF BuyServer, Solvent
<1>2. rams' = Append(rams, size) /\ rams' \in Seq(Size) /\ Len(rams') = Len(rams) + 1
  BY DEF BuyServer, Solvent
<1>3. plan' = [left |-> left, size |-> size] /\ cap' = maximum /\ pending' = pending
  BY DEF BuyServer
<1>4. pc' \in [Bucket -> Place] /\ pc'[servers] = "filling"
  <2>1. Goto(servers, "filling") /\ "filling" \in Place
    BY DEF BuyServer, Place
  <2> QED BY <2>1, GotoPlace, OtherPrices
<1>5. pending' \in [Bucket -> Nat]
  BY <1>3 DEF Solvent
<1> QED BY <1>1, <1>2, <1>3, <1>4, <1>5 DEF PservOK

\* An upgrade costs no more than the cash of its moment.
LEMMA UpgradeOK ==
    ASSUME Solvent, NEW marks, NEW maximum \in Size, UpgradeSmallest(marks, maximum)
    PROVE  PservOK /\ pc'[servers] # "filling"
<1> DEFINE from == rams[Smallest]
           affordable == {k \in (from + 1)..maximum : UpgradeCost(from, k) <= Budget}
<1>0. cash \in Nat /\ rams \in Seq(Size) /\ maximum \in Nat /\ maximum <= Len(ServerCost)
  BY Prices DEF Solvent
<1>1. CASE Len(rams) < Slots \/ from >= maximum
  <2>1. EndServersCycle(0, marks, maximum, rams) /\ UNCHANGED <<cash, rams>>
    BY <1>1 DEF UpgradeSmallest
  <2> QED BY <1>0, <2>1, EndOK DEF PservOK
<1>2. CASE ~(Len(rams) < Slots \/ from >= maximum)
  <2>1. Smallest \in DOMAIN rams
    <3>1. Len(rams) >= Slots
      BY <1>0, <1>2, Prices
    <3> QED BY <3>1, SmallestExists
  <2>2. from \in Size /\ from \in Nat /\ from > 0
    BY <1>0, <2>1, Prices
  <2>3. from + 1 \in Size /\ \A k \in (from + 1)..maximum : k \in Size
    <3> HIDE DEF from
    <3> QED BY <1>0, <1>2, <2>2, Prices
  <2>4. CASE affordable = {}
    <3>1. EndServersCycle(UpgradeCost(from, from + 1), marks, maximum, rams)
      BY <1>2, <2>4 DEF UpgradeSmallest
    <3>2. UNCHANGED <<cash, rams>>
      BY <1>2, <2>4 DEF UpgradeSmallest
    <3>3. UpgradeCost(from, from + 1) \in Nat
      <4> HIDE DEF from
      <4>1. ServerCost[from] < ServerCost[from + 1]
        BY <2>2, <2>3, Prices
      <4>2. ServerCost[from] \in Nat /\ ServerCost[from + 1] \in Nat
        BY <2>2, <2>3, Prices
      <4> QED BY <4>1, <4>2 DEF UpgradeCost
    <3> HIDE DEF from
    <3> QED BY <1>0, <3>1, <3>2, <3>3, EndOK DEF PservOK
  <2>5. CASE affordable # {}
    <3> DEFINE to == Max(affordable)
    <3>1. to \in affordable
      <4>1. affordable \subseteq 1..maximum
        <5> HIDE DEF from
        <5> QED BY <1>0, <2>2
      <4> HIDE DEF affordable
      <4> QED BY <1>0, <2>5, <4>1, MaxNat
    <3>2. to \in Size /\ UpgradeCost(from, to) <= Budget
      BY <2>3, <3>1
    <3>3. /\ cash' = cash - UpgradeCost(from, to)
          /\ rams' = [rams EXCEPT ![Smallest] = to]
          /\ plan' = noPlan /\ cap' = maximum /\ pending' = pending
          /\ Goto(servers, "upgrading")
      BY <1>2, <2>5 DEF UpgradeSmallest
    <3>4. cash' \in Nat
      <4> HIDE DEF from, to, affordable
      <4>1. UpgradeCost(from, to) \in Int
        BY <2>2, <3>2, Prices DEF UpgradeCost
      <4>2. Budget \in Nat /\ Budget <= cash
        BY BudgetFits
      <4> HIDE DEF Budget, UpgradeCost
      <4> QED BY <1>0, <3>2, <3>3, <4>1, <4>2
    <3>5. rams' \in Seq(Size)
      <4> HIDE DEF from, to, affordable
      <4> QED BY <1>0, <2>1, <3>2, <3>3, ExceptSeq
    <3>6. plan' \in [left : Nat, size : Size]
      BY <3>3, Prices DEF noPlan
    <3>7. pc' \in [Bucket -> Place] /\ pc'[servers] # "filling"
      <4>1. "upgrading" \in Place
        BY DEF Place
      <4> QED BY <3>3, <4>1, GotoPlace, OtherPrices
    <3>8. cap' \in Size /\ pending' \in [Bucket -> Nat]
      BY <3>3 DEF Solvent
    <3> HIDE DEF to, from, affordable
    <3> QED BY <3>4, <3>5, <3>6, <3>7, <3>8 DEF PservOK
  <2> QED BY <2>4, <2>5
<1> QED BY <1>1, <1>2

\* The cycle up to its first await: a batch starts with the slots and the cash for
\* all of it.
LEMMA CycleOK ==
    ASSUME SpendersInv, NEW marks, NEW was, CycleFrom(marks, was)
    PROVE  SpendersInv'
<1> DEFINE after == MonitorMarks(marks, was)
<1> HIDE DEF after
<1>1. Solvent /\ limit \in Size /\ rams \in Seq(Size) /\ cash \in Nat
  BY DEF SpendersInv, Solvent
<1>2. UNCHANGED <<status, homeRam, homeCores, owned, nodes, limit>>
  BY DEF CycleFrom, user
<1>3. PservOK /\ BatchIsPaid'
  <2>1. CASE servers \notin autoBuy
    <3>1. EndServersCycle(0, after, limit, rams) /\ UNCHANGED <<cash, rams>>
      BY <2>1 DEF CycleFrom, after
    <3>2. PservOK /\ pc'[servers] # "filling"
      BY <1>1, <3>1, EndOK DEF PservOK
    <3> QED BY <3>2 DEF BatchIsPaid, At
  <2>2. CASE servers \in autoBuy /\ Len(rams) >= Slots
    <3>1. UpgradeSmallest(after, limit)
      BY <2>2 DEF CycleFrom, after
    <3>2. PservOK /\ pc'[servers] # "filling"
      BY <1>1, <3>1, UpgradeOK
    <3> QED BY <3>2 DEF BatchIsPaid, At
  <2>3. CASE servers \in autoBuy /\ ~(Len(rams) >= Slots) /\ BestPlans(Budget, limit) = {}
    <3>1. EndServersCycle(ServerCost[1], after, limit, rams) /\ UNCHANGED <<cash, rams>>
      BY <2>3 DEF CycleFrom, after
    <3>2. ServerCost[1] \in Nat
      BY Prices
    <3>3. PservOK /\ pc'[servers] # "filling"
      BY <1>1, <3>1, <3>2, EndOK DEF PservOK
    <3> QED BY <3>3 DEF BatchIsPaid, At
  <2>4. CASE servers \in autoBuy /\ ~(Len(rams) >= Slots) /\ BestPlans(Budget, limit) # {}
    <3>1. PICK k \in BestPlans(Budget, limit) : BuyServer(k, CountAt(Budget, k) - 1, limit)
      BY <2>4 DEF CycleFrom
    <3> DEFINE count == CountAt(Budget, k)
               price == ServerCost[k]
               slots == Slots - Len(rams)
    <3>2. k \in Size /\ price <= Budget
      <4>1. k \in 1..limit /\ price <= Budget
        BY DEF BestPlans
      <4>2. limit <= Len(ServerCost) /\ limit \in Nat
        BY <1>1, Prices
      <4> HIDE DEF price
      <4> QED BY <4>1, <4>2, Prices
    <3>3. price \in Nat /\ price > 0 /\ Budget \in Nat /\ Budget <= cash
      BY <1>1, <3>2, Prices, BudgetFits
    <3>4. slots \in Nat /\ slots > 0 /\ Len(rams) \in Nat
      BY <1>1, <2>4, Prices
    <3>5. count = MinOf(slots, Budget \div price)
      BY DEF CountAt
    <3>6. count \in Nat /\ count >= 1 /\ count <= slots /\ count <= Budget \div price
      <4> HIDE DEF count, slots, price, Budget
      <4>1. Budget \div price \in Nat /\ Budget \div price >= 1
        BY <3>2, <3>3, DivFits
      <4> QED BY <3>4, <3>5, <4>1 DEF MinOf
    <3>7. count * price <= Budget /\ count * price = (count - 1) * price + price
      <4> HIDE DEF count, slots, price, Budget
      <4>1. Budget \div price \in Nat /\ (Budget \div price) * price <= Budget
        BY <3>3, DivFits
      <4>2. count * price <= (Budget \div price) * price /\ count * price \in Nat
        BY <3>3, <3>6, <4>1, MulMono
      <4>3. (Budget \div price) * price \in Nat
        BY <3>3, <4>1, NatTimes
      <4>4. count * price <= Budget
        BY <3>3, <4>1, <4>2, <4>3
      <4>5. count * price = (count - 1) * price + price
        BY <3>3, <3>6
      <4> QED BY <4>4, <4>5
    <3>8. count - 1 \in Nat
      <4> HIDE DEF count
      <4> QED BY <3>6
    <3>9. /\ PservOK /\ cash' = cash - price /\ Len(rams') = Len(rams) + 1
          /\ plan'.left = count - 1 /\ plan'.size = k
      <4>1. price <= cash
        <5> HIDE DEF price, Budget
        <5> QED BY <1>1, <3>2, <3>3
      <4> HIDE DEF count
      <4>2. BuyServer(k, count - 1, limit)
        BY <3>1 DEF count
      <4> QED BY <1>1, <3>2, <3>8, <4>1, <4>2, BuyOK DEF price
    <3>10. Len(rams') + plan'.left <= Slots
      <4>1. slots = Slots - Len(rams) /\ Slots \in Nat
        BY Prices
      <4> HIDE DEF count, slots
      <4> QED BY <3>4, <3>6, <3>9, <4>1
    <3>11. plan'.left * ServerCost[plan'.size] <= cash'
      <4>1. plan'.left * ServerCost[plan'.size] = (count - 1) * price
        BY <3>9
      <4> HIDE DEF count, price, Budget
      <4>2. (count - 1) * price \in Nat
        BY <3>3, <3>8, NatTimes
      <4> QED BY <1>1, <3>3, <3>7, <3>9, <4>1, <4>2
    <3> QED BY <3>9, <3>10, <3>11 DEF BatchIsPaid
  <2> QED BY <2>1, <2>2, <2>3, <2>4
<1>4. Solvent'
  BY <1>1, <1>2, <1>3 DEF Solvent, PservOK
<1> QED BY <1>3, <1>4 DEF SpendersInv

\* A later purchase of the batch takes one slot and one price of what is kept.
LEMMA FillOK == ASSUME SpendersInv, FillSlots PROVE SpendersInv'
<1>1. Solvent /\ cap \in Size /\ rams \in Seq(Size) /\ cash \in Nat /\ Len(rams) \in Nat
  BY DEF SpendersInv, Solvent
<1>2. UNCHANGED <<status, homeRam, homeCores, owned, nodes, limit, taken>>
  BY DEF FillSlots, user
<1>3. plan.left \in Nat /\ plan.size \in Size /\ At(servers, "filling")
  BY DEF SpendersInv, Solvent, FillSlots
<1> DEFINE price == ServerCost[plan.size]
           left == plan.left
<1>4. price \in Nat /\ left \in Nat /\ Slots \in Nat
  BY <1>3, Prices
<1>5. CASE left > 0 /\ price <= cash
  <2>1. BuyServer(plan.size, left - 1, cap)
    BY <1>5 DEF FillSlots
  <2>2. left - 1 \in Nat
    <3> HIDE DEF left
    <3> QED BY <1>4, <1>5
  <2>3. /\ PservOK /\ cash' = cash - price /\ Len(rams') = Len(rams) + 1
        /\ plan'.left = left - 1 /\ plan'.size = plan.size
    <3> HIDE DEF left
    <3> QED BY <1>1, <1>3, <1>5, <2>1, <2>2, BuyOK
  <2>4. Len(rams') + plan'.left <= Slots
    <3>1. Len(rams) + left <= Slots
      BY <1>3 DEF SpendersInv, BatchIsPaid
    <3> HIDE DEF left, price
    <3> QED BY <1>1, <1>4, <2>3, <3>1
  <2>5. ASSUME ~taken' PROVE plan'.left * ServerCost[plan'.size] <= cash'
    <3>1. left * price <= cash
      BY <1>2, <1>3, <2>5 DEF SpendersInv, BatchIsPaid
    <3>2. plan'.left * ServerCost[plan'.size] = (left - 1) * price
      BY <2>3
    <3> HIDE DEF left, price
    <3>3. (left - 1) * price = left * price - price /\ left * price \in Nat
      BY <1>4
    <3> QED BY <1>1, <1>4, <2>3, <3>1, <3>2, <3>3
  <2> QED BY <1>1, <1>2, <2>3, <2>4, <2>5 DEF SpendersInv, Solvent, BatchIsPaid, PservOK
<1>6. CASE ~(left > 0 /\ price <= cash)
  <2>1. UpgradeSmallest(marker, cap)
    BY <1>6 DEF FillSlots
  <2>2. PservOK /\ pc'[servers] # "filling"
    BY <1>1, <2>1, UpgradeOK
  <2> QED BY <1>1, <1>2, <2>2 DEF SpendersInv, Solvent, BatchIsPaid, PservOK, At
<1> QED BY <1>5, <1>6

LEMMA UpgradeStepOK == ASSUME SpendersInv, Upgrade PROVE SpendersInv'
<1>1. Solvent /\ cap \in Size
  BY DEF SpendersInv, Solvent
<1>2. UNCHANGED <<status, homeRam, homeCores, owned, nodes, limit>>
  BY DEF Upgrade, user
<1>3. PservOK /\ pc'[servers] # "filling"
  BY <1>1, UpgradeOK DEF Upgrade
<1> QED BY <1>1, <1>2, <1>3 DEF SpendersInv, Solvent, BatchIsPaid, PservOK, At

---------------------------------------------------------------------------
(* The other spenders *)

\* A step that leaves the batch and the servers alone keeps the batch paid, if it
\* leaves the cash or takes note.
LEMMA KeepsBatch ==
    ASSUME SpendersInv, Solvent', UNCHANGED <<rams, plan>>,
           pc'[servers] = "filling" => pc[servers] = "filling",
           pc[servers] = "filling" /\ ~taken' => ~taken /\ cash' >= cash
    PROVE  SpendersInv'
<1>1. rams' = rams /\ plan' = plan
  OBVIOUS
<1>2. ASSUME pc'[servers] = "filling"
      PROVE  /\ Len(rams') + plan'.left <= Slots
             /\ ~taken' => plan'.left * ServerCost[plan'.size] <= cash'
  <2>1. Len(rams) + plan.left <= Slots
    BY <1>2 DEF SpendersInv, BatchIsPaid, At
  <2>2. ASSUME ~taken' PROVE plan.left * ServerCost[plan.size] <= cash'
    <3> DEFINE need == plan.left * ServerCost[plan.size]
    <3>1. need <= cash /\ cash' >= cash
      BY <1>2, <2>2 DEF SpendersInv, BatchIsPaid, At
    <3>2. need \in Nat /\ cash \in Nat /\ cash' \in Nat
      <4>1. plan.left \in Nat /\ ServerCost[plan.size] \in Nat
        BY Prices DEF SpendersInv, Solvent
      <4>2. cash \in Nat /\ cash' \in Nat
        BY DEF SpendersInv, Solvent
      <4> QED BY <4>1, <4>2, NatTimes
    <3> HIDE DEF need
    <3>3. need <= cash'
      BY <3>1, <3>2
    <3> QED BY <3>3 DEF need
  <2> QED BY <1>1, <2>1, <2>2
<1> QED BY <1>2 DEF SpendersInv, BatchIsPaid, At

LEMMA TakenKeeps ==
    ASSUME SpendersInv, Solvent', UNCHANGED <<rams, plan>>, pc'[servers] = pc[servers], Taken
    PROVE  SpendersInv'
<1>1. pc[servers] = "filling" /\ ~taken' => ~taken /\ cash' = cash
  BY DEF Taken
<1>2. cash \in Nat
  BY DEF SpendersInv, Solvent
<1> QED BY <1>1, <1>2, KeepsBatch

LEMMA Distinct ==
    /\ servers # home /\ servers # programs /\ servers # hacknet
    /\ home # programs /\ home # hacknet /\ programs # hacknet
<1>1. servers \notin {home, programs, hacknet} /\ home \notin {programs, hacknet}
  BY SpendersAssumption
<1>2. programs # hacknet
  BY SpendersAssumption
<1> QED BY <1>1, <1>2

LEMMA OtherPlace ==
    ASSUME Solvent, NEW b \in Bucket, b # servers, NEW place \in Place,
           pc' = pc \/ pc' = [pc EXCEPT ![b] = place]
    PROVE  pc' \in [Bucket -> Place] /\ pc'[servers] = pc[servers]
  BY OtherPrices DEF Solvent

\* A list of prices gives a price at every position.
LEMMA PriceAt == ASSUME NEW p \in Seq(Nat), NEW i \in 1..Len(p) PROVE p[i] \in Nat
  OBVIOUS

LEMMA HomeOK == ASSUME SpendersInv, HomeCycle PROVE SpendersInv'
<1>0. Solvent /\ cash \in Nat /\ homeRam \in Nat /\ homeCores \in Nat
  BY DEF SpendersInv, Solvent
<1>1. UNCHANGED <<rams, plan, status, owned, nodes, limit, cap>> /\ Taken
  BY DEF HomeCycle, pserv, user
<1> DEFINE ram == IF RamAffordable THEN homeRam + 1 ELSE homeRam
           left == IF RamAffordable THEN cash - HomeRamCost[ram] ELSE cash
           cores == IF CoresAffordable(left) THEN homeCores + 1 ELSE homeCores
           paid == IF CoresAffordable(left) THEN left - HomeCoreCost[cores] ELSE left
<1>2. ram \in Nat /\ left \in Nat
  <2>1. CASE RamAffordable
    <3>1. homeRam + 1 \in 1..Len(HomeRamCost) /\ HomeRamCost[homeRam + 1] <= cash
      BY <1>0, <2>1, OtherPrices DEF RamAffordable
    <3>2. HomeRamCost[homeRam + 1] \in Nat
      BY <3>1, PriceAt, OtherPrices
    <3> QED BY <1>0, <2>1, <3>1, <3>2
  <2>2. CASE ~RamAffordable
    BY <1>0, <2>2
  <2> QED BY <2>1, <2>2
<1>3. cores \in Nat /\ paid \in Nat
  <2> HIDE DEF left, ram
  <2>1. CASE CoresAffordable(left)
    <3>1. homeCores + 1 \in 1..Len(HomeCoreCost) /\ HomeCoreCost[homeCores + 1] <= left
      BY <1>0, <2>1, OtherPrices DEF CoresAffordable
    <3>2. HomeCoreCost[homeCores + 1] \in Nat
      BY <3>1, PriceAt, OtherPrices
    <3> QED BY <1>0, <1>2, <2>1, <3>1, <3>2
  <2>2. CASE ~CoresAffordable(left)
    BY <1>0, <1>2, <2>2
  <2> QED BY <2>1, <2>2
<1>4. /\ homeRam' = ram /\ homeCores' = cores /\ cash' = paid
      /\ pending' = [pending EXCEPT ![home] = HomeNext(ram, cores)]
      /\ pc' = pc \/ pc' = [pc EXCEPT ![home] = "down"]
  BY DEF HomeCycle
<1>5. HomeNext(ram, cores) \in Nat
  <2> HIDE DEF ram, cores
  <2>1. ram < Len(HomeRamCost) => HomeRamCost[ram + 1] \in Nat
    BY <1>2, OtherPrices, PriceAt
  <2>2. cores < Len(HomeCoreCost) => HomeCoreCost[cores + 1] \in Nat
    BY <1>3, OtherPrices, PriceAt
  <2> QED BY <2>1, <2>2 DEF HomeNext
<1> HIDE DEF ram, left, cores, paid
<1>6. pending' \in [Bucket -> Nat]
  BY <1>0, <1>4, <1>5 DEF Solvent
<1>7. pc' \in [Bucket -> Place] /\ pc'[servers] = pc[servers]
  <2>1. "down" \in Place
    BY DEF Place
  <2> QED BY <1>0, <1>4, <2>1, Distinct, OtherPrices, OtherPlace
<1>8. Solvent'
  BY <1>0, <1>1, <1>2, <1>3, <1>4, <1>6, <1>7 DEF Solvent
<1> QED BY <1>1, <1>7, <1>8, TakenKeeps

---------------------------------------------------------------------------
(* darkweb: the loop over the programs *)

Purse == [owned : SUBSET DOMAIN ProgramCost, cash : Nat]
Programs == [k \in DOMAIN ProgramCost |-> k]

\* A turn of the loop takes from the purse what is in it.
LEMMA BuyProgramOK ==
    ASSUME NEW purse \in Purse, NEW k \in DOMAIN ProgramCost
    PROVE  BuyProgram(purse, k) \in Purse
<1>1. ProgramCost[k] \in Nat
  <2>1. ProgramCost \in Seq(Nat)
    BY OtherPrices
  <2> QED BY <2>1
<1>2. CASE /\ k \notin purse.owned /\ ProgramCost[k] <= purse.cash
           /\ CanAfford(programs, ProgramCost[k])
  <2>1. BuyProgram(purse, k) = [owned |-> purse.owned \cup {k},
                                cash |-> purse.cash - ProgramCost[k]]
    BY <1>2 DEF BuyProgram
  <2>2. purse.owned \cup {k} \in SUBSET DOMAIN ProgramCost
    BY DEF Purse
  <2>3. purse.cash - ProgramCost[k] \in Nat
    BY <1>1, <1>2 DEF Purse
  <2> QED BY <2>1, <2>2, <2>3 DEF Purse
<1>3. CASE ~(/\ k \notin purse.owned /\ ProgramCost[k] <= purse.cash
             /\ CanAfford(programs, ProgramCost[k]))
  BY <1>3 DEF BuyProgram
<1> QED BY <1>2, <1>3

\* The whole loop does.
LEMMA ProgramsBought ==
    ASSUME NEW base \in Purse
    PROVE  FoldLeft(BuyProgram, base, Programs) \in Purse
<1> DEFINE n == Len(ProgramCost)
           D == 1..n
           c == [s \in SUBSET D |-> Max(s)]
           F == [p \in D \X Purse |-> BuyProgram(p[2], Programs[p[1]])]
           Unfold(g) == [s \in SUBSET D |-> IF s = {} THEN base
                                            ELSE BuyProgram(g[s \ {Max(s)}], Programs[Max(s)])]
           iter == CHOOSE g : g = Unfold(g)
<1>0. /\ n \in Nat /\ DOMAIN Programs = D /\ DOMAIN ProgramCost = D /\ IsFiniteSet(D)
      /\ \A i \in D : Programs[i] = i
  <2>1. ProgramCost \in Seq(Nat)
    BY OtherPrices
  <2>2. n \in Nat /\ DOMAIN ProgramCost = D
    BY <2>1
  <2> QED BY <2>2, FS_Interval DEF Programs
<1>1. \A s \in SUBSET D : s # {} => c[s] \in s
  BY <1>0, MaxNat
<1>2. \A t \in Purse, i \in D : BuyProgram(t, Programs[i]) \in Purse
  BY <1>0, BuyProgramOK
<1>3. F \in [D \X Purse -> Purse]
  BY <1>0, <1>2
<1>4. PICK g \in [SUBSET D -> Purse] : FoldsOver(g, F, base, c, D)
  <2> HIDE DEF c, F, D
  <2>1. IsFiniteSet(D) /\ base \in Purse
    BY <1>0
  <2> QED BY <1>1, <1>3, <2>1, FoldExists, Zenon
<1>5. ASSUME NEW s \in SUBSET D, s # {}
      PROVE  F[<<c[s], g[s \ {c[s]}]>>] = BuyProgram(g[s \ {Max(s)}], Programs[Max(s)])
  <2>1. c[s] = Max(s) /\ Max(s) \in D /\ g[s \ {Max(s)}] \in Purse
    BY <1>1, <1>5
  <2> QED BY <2>1
<1>6. g = Unfold(g)
  <2> HIDE DEF c, F, D
  <2> QED BY <1>4, <1>5 DEF FoldsOver
<1>7. iter = Unfold(iter)
  BY <1>6
<1>8. FoldLeft(BuyProgram, base, Programs) = iter[D]
  BY <1>0 DEF FoldLeft, MapThenFoldSet
<1> HIDE DEF iter
<1>9. iter[{}] = base
  BY <1>7
<1>10. ASSUME NEW i \in D PROVE iter[1..i] = BuyProgram(iter[1..(i - 1)], Programs[i])
  <2>1. 1..i \in SUBSET D /\ 1..i # {} /\ (1..i) \ {i} = 1..(i - 1) /\ Max(1..i) = i
    BY <1>0, Prefix
  <2> QED BY <1>7, <2>1
<1> DEFINE Good == {i \in Nat : i \in 0..n => iter[1..i] \in Purse}
<1>11. Nat \subseteq Good
  <2>1. ASSUME NEW i \in Nat, \A m \in 0..(i - 1) : m \in Good PROVE i \in Good
    <3>1. CASE i = 0
      <4>1. 1..i = {}
        BY <3>1
      <4> QED BY <4>1, <1>9
    <3>2. CASE i \in D
      <4>1. i - 1 \in Good /\ i - 1 \in 0..n
        BY <1>0, <2>1, <3>2
      <4> QED BY <1>0, <1>2, <1>10, <3>2, <4>1
    <3>3. CASE i \notin 0..n
      BY <3>3
    <3> QED BY <1>0, <3>1, <3>2, <3>3
  <2> HIDE DEF Good
  <2> QED BY <2>1, AllNat
<1> QED BY <1>0, <1>8, <1>11

LEMMA ProgramsOK == ASSUME SpendersInv, ProgramsCycle PROVE SpendersInv'
<1>0. Solvent /\ cash \in Nat /\ owned \in SUBSET DOMAIN ProgramCost
  BY DEF SpendersInv, Solvent
<1>1. UNCHANGED <<rams, plan, status, homeRam, homeCores, nodes, limit, cap>> /\ Taken
  BY DEF ProgramsCycle, pserv, user
<1> DEFINE buysTor == ~hasTor /\ CanAfford(programs, TorCost) /\ TorCost <= cash
           start == [owned |-> owned, cash |-> IF buysTor THEN cash - TorCost ELSE cash]
           result == IF hasTor \/ buysTor
                     THEN FoldLeft(BuyProgram, start, Programs) ELSE start
<1>2. start \in Purse
  <2>1. TorCost \in Nat
    BY OtherPrices
  <2>2. (IF buysTor THEN cash - TorCost ELSE cash) \in Nat
    BY <1>0, <2>1
  <2> QED BY <1>0, <2>2 DEF Purse
<1>3. result \in Purse
  <2> HIDE DEF start
  <2> QED BY <1>2, ProgramsBought
<1>4. /\ owned' = result.owned /\ cash' = result.cash
      /\ pending' = [pending EXCEPT ![programs] = ProgramsNext(hasTor', owned')]
      /\ pc' = pc \/ pc' = [pc EXCEPT ![programs] = "down"]
  BY DEF ProgramsCycle, Programs
<1> HIDE DEF result, start, buysTor
<1>5. owned' \in SUBSET DOMAIN ProgramCost /\ cash' \in Nat
  BY <1>3, <1>4 DEF Purse
<1>6. ProgramsNext(hasTor', owned') \in Nat
  <2>1. CASE owned' # DOMAIN ProgramCost
    <3> DEFINE rest == DOMAIN ProgramCost \ owned'
    <3>1. rest \in SUBSET Nat /\ rest # {}
      <4>1. DOMAIN ProgramCost \in SUBSET Nat
        BY OtherPrices
      <4> QED BY <1>5, <2>1, <4>1
    <3> HIDE DEF rest
    <3>2. Min(rest) \in rest
      BY <3>1, MinNat
    <3>3. ProgramCost[Min(rest)] \in Nat
      <4>1. Min(rest) \in DOMAIN ProgramCost /\ ProgramCost \in Seq(Nat)
        BY <3>2, OtherPrices DEF rest
      <4> QED BY <4>1
    <3> QED BY <2>1, <3>3, OtherPrices DEF ProgramsNext, rest
  <2>2. CASE owned' = DOMAIN ProgramCost
    BY <2>2, OtherPrices DEF ProgramsNext
  <2> QED BY <2>1, <2>2
<1>7. pending' \in [Bucket -> Nat]
  BY <1>0, <1>4, <1>6 DEF Solvent
<1>8. pc' \in [Bucket -> Place] /\ pc'[servers] = pc[servers]
  <2>1. "down" \in Place
    BY DEF Place
  <2> QED BY <1>0, <1>4, <2>1, Distinct, OtherPrices, OtherPlace
<1>9. Solvent'
  BY <1>0, <1>1, <1>5, <1>7, <1>8 DEF Solvent
<1> QED BY <1>1, <1>8, <1>9, TakenKeeps

---------------------------------------------------------------------------
(* hacknet, and what the others do *)

LEMMA HacknetOK == ASSUME SpendersInv, HacknetCycle PROVE SpendersInv'
<1>0. Solvent /\ cash \in Nat /\ nodes \in SUBSET HacknetUpgrade
  BY DEF SpendersInv, Solvent
<1>1. /\ UNCHANGED <<rams, plan, status, pending, homeRam, homeCores, owned, limit, cap>>
      /\ Taken
  BY DEF HacknetCycle, pserv, user
<1>2. \A u \in HacknetUpgrade : HacknetCost[u] \in Nat
  BY OtherPrices
<1>3. CashThen \in Nat /\ NodesThen \in SUBSET HacknetUpgrade
  <2>1. CASE FirstBought
    <3>1. HacknetCost[firstNode] \in Nat /\ HacknetCost[firstNode] <= cash
      BY <1>2, <2>1, OtherPrices DEF FirstBought, HacknetAffordable
    <3>2. CashThen = cash - HacknetCost[firstNode] /\ NodesThen = {firstNode}
      BY <2>1 DEF CashThen, NodesThen
    <3> QED BY <1>0, <3>1, <3>2, OtherPrices
  <2>2. CASE ~FirstBought
    BY <1>0, <2>2 DEF CashThen, NodesThen
  <2> QED BY <2>1, <2>2
<1>4. /\ cash' \in Nat /\ nodes' \in SUBSET HacknetUpgrade
      /\ \E place \in Place : Goto(hacknet, place)
  <2>1. CASE HacknetCandidates = {}
    <3>1. cash' = CashThen /\ nodes' = NodesThen /\ Goto(hacknet, "sleep")
      BY <2>1 DEF HacknetCycle
    <3> QED BY <1>3, <3>1 DEF Place
  <2>2. CASE HacknetCandidates # {}
    <3>1. PICK u \in HacknetCandidates :
            nodes' = NodesThen \cup {u} /\ cash' = CashThen - HacknetCost[u]
      BY <2>2 DEF HacknetCycle
    <3>2. u \in HacknetUpgrade /\ HacknetCost[u] <= CashThen
      BY DEF HacknetCandidates, HacknetAffordable
    <3>3. cash' \in Nat
      BY <1>2, <1>3, <3>1, <3>2
    <3>4. Goto(hacknet, "buying")
      BY <2>2 DEF HacknetCycle
    <3> QED BY <1>3, <3>1, <3>2, <3>3, <3>4 DEF Place
  <2> QED BY <2>1, <2>2
<1>5. pc' \in [Bucket -> Place] /\ pc'[servers] = pc[servers]
  <2>1. PICK place \in Place : pc' = [pc EXCEPT ![hacknet] = place]
    BY <1>4 DEF Goto
  <2> QED BY <1>0, <2>1, Distinct, OtherPrices, OtherPlace
<1>6. Solvent'
  BY <1>0, <1>1, <1>4, <1>5 DEF Solvent
<1> QED BY <1>1, <1>5, <1>6, TakenKeeps

\* Somebody stops a daemon: pserv forgets its batch.
LEMMA StopOK == ASSUME SpendersInv, NEW b \in Bucket, StopDaemon(b) PROVE SpendersInv'
<1>0. Solvent /\ cash \in Nat
  BY DEF SpendersInv, Solvent
<1>1. UNCHANGED <<cash, rams, status, pending, homeRam, homeCores, owned, nodes, limit, taken>>
  BY DEF StopDaemon, game
<1>2. pc' \in [Bucket -> Place] /\ pc' = [pc EXCEPT ![b] = "down"]
  BY <1>0 DEF StopDaemon, Goto, Solvent, Place
<1>3. plan' \in [left : Nat, size : Size] /\ cap' \in Size
  <2>1. noPlan \in [left : Nat, size : Size]
    BY Prices DEF noPlan
  <2>2. /\ plan' = IF b = servers THEN noPlan ELSE plan
        /\ cap' = IF b = servers THEN limit ELSE cap
    BY DEF StopDaemon
  <2> QED BY <1>0, <2>1, <2>2 DEF Solvent
<1>4. Solvent'
  BY <1>0, <1>1, <1>2, <1>3 DEF Solvent
<1>5. CASE b = servers
  <2>1. pc'[servers] # "filling"
    BY <1>2, <1>5, OtherPrices
  <2> QED BY <1>4, <2>1 DEF SpendersInv, BatchIsPaid, At
<1>6. CASE b # servers
  <2>1. plan' = plan /\ rams' = rams
    BY <1>1, <1>6 DEF StopDaemon
  <2>2. pc'[servers] = pc[servers]
    BY <1>2, <1>6, OtherPrices
  <2> QED BY <1>0, <1>1, <1>4, <2>1, <2>2, KeepsBatch
<1> QED BY <1>5, <1>6

LEMMA StartOK == ASSUME SpendersInv, NEW b \in Bucket, StartDaemon(b) PROVE SpendersInv'
<1>0. Solvent /\ cash \in Nat
  BY DEF SpendersInv, Solvent
<1>1. UNCHANGED <<cash, rams, status, pending, homeRam, homeCores, owned, nodes, limit, taken,
                  plan, cap>>
  BY DEF StartDaemon, game, pserv, user
<1>2. pc' = [pc EXCEPT ![b] = "sleep"] /\ b # servers /\ "sleep" \in Place
  BY DEF StartDaemon, Goto, Place
<1>3. pc' \in [Bucket -> Place] /\ pc'[servers] = pc[servers]
  BY <1>0, <1>2, OtherPlace
<1>4. Solvent'
  BY <1>0, <1>1, <1>3 DEF Solvent
<1> QED BY <1>0, <1>1, <1>3, <1>4, KeepsBatch

\* The steps of the budget daemon, the player and the user that leave every daemon
\* where it is.
LEMMA StillOK ==
    ASSUME SpendersInv,
           \/ BudgetDaemon \/ Prune \/ Earn \/ Spend \/ SetLimit
           \/ \E b \in Bucket : ToggleAutoBuy(b)
    PROVE  SpendersInv'
<1>0. Solvent /\ cash \in Nat /\ limit \in Size
  BY DEF SpendersInv, Solvent
<1>1. UNCHANGED <<rams, plan, pc, homeRam, homeCores, owned, nodes>>
  BY DEF BudgetDaemon, Tick, Prune, PrunePending, Earn, Spend, SetLimit, ToggleAutoBuy,
         game, pserv
<1>2. status' \in [live : BOOLEAN, allowance : [Bucket -> Nat]]
  <2>1. CASE BudgetDaemon
    BY <1>0, <2>1, TickSolvent DEF BudgetDaemon
  <2>2. CASE ~BudgetDaemon
    <3>1. status' = status
      BY <2>2 DEF Prune, PrunePending, Earn, Spend, SetLimit, ToggleAutoBuy
    <3> QED BY <1>0, <3>1 DEF Solvent
  <2> QED BY <2>1, <2>2
<1>3. pending' \in [Bucket -> Nat]
  <2>1. pending' = pending \/ \E b \in Bucket : pending' = [pending EXCEPT ![b] = 0]
    BY DEF BudgetDaemon, Tick, Prune, PrunePending, Earn, Spend, SetLimit, ToggleAutoBuy
  <2>2. pending \in [Bucket -> Nat]
    BY <1>0 DEF Solvent
  <2>3. ASSUME NEW b \in Bucket PROVE [pending EXCEPT ![b] = 0] \in [Bucket -> Nat]
    BY <2>2
  <2> QED BY <2>1, <2>2, <2>3
<1>4. limit' \in Size /\ cap' \in Size
  <2>1. CASE SetLimit
    <3>1. limit' \in Limits /\ (cap' = limit' \/ cap' = cap)
      BY <2>1 DEF SetLimit
    <3> QED BY <1>0, <3>1, Prices DEF Solvent
  <2>2. CASE ~SetLimit
    <3>1. limit' = limit /\ cap' = cap
      BY <2>2 DEF BudgetDaemon, Tick, Prune, PrunePending, Earn, Spend, ToggleAutoBuy, user, pserv
    <3> QED BY <1>0, <3>1 DEF Solvent
  <2> QED BY <2>1, <2>2
<1>5. cash' \in Nat /\ (Taken \/ (taken' = taken /\ cash' >= cash))
  <2>1. CASE Spend
    <3>1. cash' \in 0..(cash - 1) /\ Taken
      BY <2>1 DEF Spend
    <3> QED BY <1>0, <3>1
  <2>2. CASE Earn
    <3>1. cash' = cash + 1 /\ taken' = taken
      BY <2>2 DEF Earn
    <3> QED BY <1>0, <3>1
  <2>3. CASE ~Spend /\ ~Earn
    <3>1. cash' = cash /\ taken' = taken
      BY <2>3 DEF BudgetDaemon, Tick, Prune, PrunePending, SetLimit, ToggleAutoBuy
    <3> QED BY <1>0, <3>1
  <2> QED BY <2>1, <2>2, <2>3
<1>6. Solvent'
  BY <1>0, <1>1, <1>2, <1>3, <1>4, <1>5 DEF Solvent
<1>7. CASE Taken
  BY <1>1, <1>6, <1>7, TakenKeeps
<1>8. CASE taken' = taken /\ cash' >= cash
  BY <1>1, <1>6, <1>8, KeepsBatch
<1> QED BY <1>5, <1>7, <1>8

---------------------------------------------------------------------------

LEMMA InitOK == Init => SpendersInv
<1> SUFFICES ASSUME Init PROVE SpendersInv
  OBVIOUS
<1>1. cash \in Nat /\ homeRam \in Nat /\ homeCores \in Nat
  BY DEF Init
<1>2. status \in [live : BOOLEAN, allowance : [Bucket -> Nat]] /\ pending \in [Bucket -> Nat]
  BY DEF Init, NoStatus
<1>3. Min(Limits) \in Size
  <2>1. Limits \in SUBSET Nat /\ Limits # {}
    <3>1. Limits # {}
      BY SpendersAssumption
    <3>2. Limits \subseteq Size /\ Size \subseteq Nat
      BY Prices
    <3> QED BY <3>1, <3>2
  <2> QED BY <2>1, MinNat, Prices
<1>4. rams \in Seq(Size) /\ limit \in Size /\ cap \in Size
  BY <1>3 DEF Init
<1>5. plan \in [left : Nat, size : Size]
  BY Prices DEF Init, noPlan
<1>6. pc \in [Bucket -> Place] /\ pc[servers] # "filling"
  BY OtherPrices DEF Init, Place
<1>7. owned \subseteq DOMAIN ProgramCost /\ nodes \subseteq HacknetUpgrade
  BY DEF Init
<1> QED BY <1>1, <1>2, <1>4, <1>5, <1>6, <1>7 DEF SpendersInv, Solvent, BatchIsPaid, At

LEMMA NextOK == SpendersInv /\ [Next]_vars => SpendersInv'
<1> SUFFICES ASSUME SpendersInv, [Next]_vars PROVE SpendersInv'
  OBVIOUS
<1>1. CASE Pserv
  BY <1>1, CycleOK, FillOK, UpgradeStepOK DEF Pserv, ServersCycle
<1>2. CASE StartServers
  <2>1. \E marks : CycleFrom(marks, FALSE)
    BY <1>2 DEF StartServers
  <2> QED BY <2>1, CycleOK
<1>3. CASE HomeCycle
  BY <1>3, HomeOK
<1>4. CASE ProgramsCycle
  BY <1>4, ProgramsOK
<1>5. CASE HacknetCycle
  BY <1>5, HacknetOK
<1>6. CASE \E b \in Bucket : StartDaemon(b) \/ StopDaemon(b)
  BY <1>6, StartOK, StopOK
<1>7. CASE BudgetDaemon \/ Prune \/ Earn \/ Spend \/ SetLimit
           \/ \E b \in Bucket : ToggleAutoBuy(b)
  BY <1>7, StillOK
<1>8. CASE UNCHANGED vars
  BY <1>8 DEF vars, game, pserv, user, SpendersInv, Solvent, BatchIsPaid, At
<1> QED BY <1>1, <1>2, <1>3, <1>4, <1>5, <1>6, <1>7, <1>8 DEF Next, User

LEMMA SpendersInvAlways == Spec => []SpendersInv
BY InitOK, NextOK, PTL DEF Spec

\* Nobody ever spends cash that is not there, whatever is bought against the
\* allowances of one tick; and the sizes, prices and places stay what they are.
THEOREM NobodyOverspends == Spec => []Solvent
<1>1. SpendersInv => Solvent
  BY DEF SpendersInv
<1> QED BY <1>1, SpendersInvAlways, PTL

\* A batch of servers that pserv has begun finds a slot for every server of it and,
\* unless somebody else spends meanwhile, the cash (controllers/pserv.ts,
\* calculateBatchPurchasePlan and the loop that buys).
THEOREM BatchAlwaysPaid == Spec => []BatchIsPaid
<1>1. SpendersInv => BatchIsPaid
  BY DEF SpendersInv
<1> QED BY <1>1, SpendersInvAlways, PTL
============================================================================
