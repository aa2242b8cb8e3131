------------------------------ MODULE Spenders ------------------------------
(***************************************************************************)
(* The four daemons that spend cash on upgrades, against the allowances    *)
(* the budget daemon publishes: purchased servers (daemons/pserv.ts,       *)
(* controllers/pserv.ts), the home server (daemons/home.ts), darkweb       *)
(* programs (daemons/darkweb.ts, controllers/darkweb.ts) and hacknet       *)
(* (daemons/hacknet.ts), all under src/src.                                *)
(*                                                                         *)
(* Each of them compares with the allowance of the last tick, however much *)
(* has been spent since.  pserv and hacknet sleep 5 ms after each purchase *)
(* of a cycle, home and darkweb buy all they can without an await.  The    *)
(* budget daemon is up; its accounts, files and restarts are in Budget.    *)
(* What waits in its port until a tick is in pending and marker already,   *)
(* since nothing but a tick reads them.  Prices are whole dollars, so that  *)
(* of an allowance the whole dollars are kept.                             *)
(***************************************************************************)
EXTENDS BudgetRules, Sequences, FiniteSetsExt, SequencesExt

CONSTANTS
    servers, home, programs, hacknet,   \* the buckets
    Weight,         \* their weights
    ServerSizes,    \* RAM of a purchased server: a sequence, each twice the one before
    ServerCost,     \* ns.cloud.getServerCost, by position in ServerSizes
    Slots,          \* ns.cloud.getServerLimit
    Limits,         \* what the user may set pserv's maxRam to (positions)
    HomeRamCost, HomeCoreCost,   \* prices of the upgrades of home, in order
    TorCost, ProgramCost,        \* TOR, and the programs with the cheapest first
    HacknetUpgrade, firstNode,   \* upgrades within the payback ceiling; the first server
    HacknetCost,
    BatchLimit,     \* purchases of hacknet in a cycle
    MaxCash,        \* bound: the cash the player ever has
    Switched,       \* bound: the buckets whose autoBuy the user changes
    MaxEvents       \* bound: steps of the user

ASSUME SpendersAssumption ==
    /\ Bucket = {servers, home, programs, hacknet}
    /\ servers \notin {home, programs, hacknet} /\ home \notin {programs, hacknet}
    /\ programs # hacknet
    /\ Weight \in [Bucket -> 1..100]
    /\ ServerSizes \in Seq(Nat \ {0}) /\ ServerSizes # <<>>
    /\ ServerCost \in Seq(Nat \ {0}) /\ DOMAIN ServerCost = DOMAIN ServerSizes
    /\ \A k \in DOMAIN ServerCost \ {1} : ServerCost[k - 1] < ServerCost[k]
    /\ Slots \in Nat \ {0} /\ Limits \subseteq DOMAIN ServerSizes /\ Limits # {}
    /\ HomeRamCost \in Seq(Nat \ {0}) /\ HomeCoreCost \in Seq(Nat \ {0})
    /\ TorCost \in Nat \ {0} /\ ProgramCost \in Seq(Nat \ {0}) /\ ProgramCost # <<>>
    /\ firstNode \in HacknetUpgrade /\ HacknetCost \in [HacknetUpgrade -> Nat \ {0}]
    /\ BatchLimit \in Nat \ {0} /\ MaxCash \in Nat /\ Switched \subseteq Bucket

VARIABLES
    cash,       \* the player's money
    \* the budget daemon
    status,     \* what it published last
    pending,    \* the next purchase each bucket reported, 0 for none
    marker,     \* /data/budget-done.txt
    \* the game
    rams,       \* the purchased servers' sizes (positions), oldest first
    homeRam, homeCores, hasTor, owned, nodes,
    \* the daemons
    pc,         \* the await each is at
    plan,       \* pserv: servers still to buy of the batch, and their size
    cap,        \* pserv: maxRam as the cycle read it (limit between cycles)
    wasMonitor, \* pserv: wasMonitorMode
    purchases,  \* hacknet: purchasesThisTick
    \* the user
    autoBuy,    \* the buckets whose daemon has autoBuy set
    limit,      \* pserv's maxRam
    events,
    \* history, for the properties
    taken       \* somebody else spent since pserv planned its batch

game == <<rams, homeRam, homeCores, hasTor, owned, nodes>>
pserv == <<plan, cap, wasMonitor>>
user == <<autoBuy, limit, events>>
vars == <<cash, status, pending, marker, game, pc, pserv, purchases, user, taken>>

noPlan == [left |-> 0, size |-> 1]
NoStatus == [live |-> FALSE, allowance |-> [b \in Bucket |-> 0]]

Init ==
    /\ cash = 0 /\ status = NoStatus /\ pending = [b \in Bucket |-> 0]
    \* the user has set maxRam as low as it goes; pserv starts with the marker an
    \* earlier one may have left
    /\ marker \in {{}, {servers}}
    /\ pc = [b \in Bucket |-> IF b = servers THEN "down" ELSE "sleep"]
    /\ rams = <<>> /\ homeRam = 0 /\ homeCores = 0 /\ hasTor = FALSE
    /\ owned = {} /\ nodes = {}
    /\ plan = noPlan /\ cap = Min(Limits) /\ wasMonitor = FALSE /\ purchases = 0
    /\ autoBuy = Bucket /\ limit = cap /\ events = 0 /\ taken = FALSE

\* History: the others' cash, while a batch is being paid.
Taken == taken' = (pc[servers] = "filling" /\ (taken \/ cash' # cash))
At(b, place) == pc[b] = place
Goto(b, place) == pc' = [pc EXCEPT ![b] = place]
Up(b) == ~At(b, "down")

---------------------------------------------------------------------------
(* The budget daemon *)

\* The buckets that have not signalled that they are done have their weights.
Effective == EffectiveWeights(Weight, [b \in Bucket |-> b \notin marker], NoBucket)

\* What computeAllowances gives everyone for a goal, in whole dollars.
Published(goal) ==
    LET cost == IF goal = NoBucket THEN 0 ELSE pending[goal]
        reserve == ComputeReserve(cash, goal, cost)
        Allowance(b) ==
            IF b = goal
            THEN GoalAllowance(cash, Effective[b], IsGranted(goal, reserve, cost), cost)
            ELSE SpenderAllowance(cash, reserve, Effective[b])
    IN  [b \in Bucket |-> Allowance(b) \div 10000]

\* A tick reads the port and the marker file, chooses the goal and publishes.
\* feasible are those of the reported items that are within goalHorizon at the
\* estimated income.
Tick(feasible) ==
    /\ \A b \in Bucket : pending[b] > 0 /\ AtGrantPoint(pending[b], cash) => b \in feasible
    /\ \E goal \in SelectGoal(pending, Effective, feasible) :
         status' = [live |-> TRUE, allowance |-> Published(goal)]
    /\ UNCHANGED <<cash, pending, marker, game, pc, pserv, purchases, user, taken>>

\* prunePending: a daemon that is down for two minutes no longer saves for its item.
PrunePending(b) ==
    /\ ~Up(b) /\ pending[b] > 0
    /\ pending' = [pending EXCEPT ![b] = 0]
    /\ UNCHANGED <<cash, status, marker, game, pc, pserv, purchases, user, taken>>

\* getBudgetBalance, canAfford: everything is allowed while nothing is published.
CanAfford(b, cost) == status.live => cost <= status.allowance[b]

---------------------------------------------------------------------------
(* pserv *)

FullyDone(size) == Len(rams) >= Slots /\ \A i \in DOMAIN rams : rams[i] >= size
With(b) == marker \cup {b}
Without(b) == marker \ {b}

\* getBudget, with config reserve 0.
Budget == IF status.live THEN MinOf(cash, status.allowance[servers]) ELSE cash

\* Faulty variant: a batch fills all slots if one server is affordable.
CountAt_AllSlots(budget, size) == Slots - Len(rams)

\* How many servers of a size calculateBatchPurchasePlan buys.
CountAt(budget, size) == MinOf(Slots - Len(rams), budget \div ServerCost[size])

\* calculateBatchPurchasePlan: the affordable size with the most RAM in total, the
\* smallest of these; minRam is the first size.
BestPlans(budget, maximum) ==
    LET affordable == {k \in 1..maximum : ServerCost[k] <= budget}
        Total(k) == ServerSizes[k] * CountAt(budget, k)
    IN  {k \in affordable : \A j \in affordable :
            Total(j) < Total(k) \/ (Total(j) = Total(k) /\ k <= j)}

\* The end of a cycle: reportNext, and the exit of a daemon that is done.
EndServersCycle(waitingCost, marks, maximum, table) ==
    LET done == Len(table) >= Slots /\ \A i \in DOMAIN table : table[i] >= maximum
    IN  /\ pending' = [pending EXCEPT ![servers] = waitingCost]
        /\ marker' = IF done THEN marks \cup {servers} ELSE marks
        /\ Goto(servers, IF done THEN "down" ELSE "sleep")
        /\ plan' = noPlan /\ cap' = limit

\* ns.cloud.purchaseServer for the batch; 5 ms of sleep.
BuyServer(size, left, maximum) ==
    /\ cap' = maximum /\ cash' = cash - ServerCost[size]
    /\ rams' = Append(rams, size)
    /\ plan' = [left |-> left, size |-> size]
    /\ Goto(servers, "filling")
    /\ UNCHANGED pending

Smallest == CHOOSE i \in DOMAIN rams :
    \A j \in DOMAIN rams : rams[i] < rams[j] \/ (rams[i] = rams[j] /\ i <= j)
UpgradeCost(from, to) == ServerCost[to] - ServerCost[from]

\* Phase 2, one turn of the loop: the smallest server gets the largest size the
\* budget of this moment allows.
UpgradeSmallest(marks, maximum) ==
    LET from == rams[Smallest]
        affordable == {k \in (from + 1)..maximum : UpgradeCost(from, k) <= Budget}
    IN  IF Len(rams) < Slots \/ from >= maximum
        THEN EndServersCycle(0, marks, maximum, rams) /\ UNCHANGED <<cash, rams>>
        ELSE IF affordable = {}
        THEN /\ EndServersCycle(UpgradeCost(from, from + 1), marks, maximum, rams)
             /\ UNCHANGED <<cash, rams>>
        ELSE /\ cash' = cash - UpgradeCost(from, Max(affordable))
             /\ rams' = [rams EXCEPT ![Smallest] = Max(affordable)]
             /\ Goto(servers, "upgrading")
             /\ plan' = noPlan /\ cap' = maximum /\ marker' = marks /\ UNCHANGED pending

\* Entering the monitor mode gives the bucket up, leaving it takes it back.
MonitorMarks(marks, was) ==
    IF servers \notin autoBuy THEN (IF was THEN marks ELSE marks \cup {servers})
    ELSE IF was THEN marks \ {servers} ELSE marks

\* The cycle of main up to its first await, with the config read here.
CycleFrom(marks, was) ==
    /\ wasMonitor' = (servers \notin autoBuy) /\ taken' = FALSE
    /\ IF servers \notin autoBuy
       THEN EndServersCycle(0, MonitorMarks(marks, was), limit, rams) /\ UNCHANGED <<cash, rams>>
       ELSE IF Len(rams) >= Slots THEN UpgradeSmallest(MonitorMarks(marks, was), limit)
       ELSE IF BestPlans(Budget, limit) = {}
       THEN /\ EndServersCycle(ServerCost[1], MonitorMarks(marks, was), limit, rams)
            /\ UNCHANGED <<cash, rams>>
       ELSE /\ \E k \in BestPlans(Budget, limit) : BuyServer(k, CountAt(Budget, k) - 1, limit)
            /\ marker' = MonitorMarks(marks, was)
    /\ UNCHANGED <<status, homeRam, homeCores, hasTor, owned, nodes, purchases, user>>

ServersCycle == At(servers, "sleep") /\ CycleFrom(marker, wasMonitor)

\* The start of main, up to the first await of its first cycle: unless everything
\* is bought, the bucket is taken back.
StartServers ==
    /\ At(servers, "down")
    /\ CycleFrom(IF servers \in autoBuy /\ ~FullyDone(limit) THEN Without(servers) ELSE marker,
                 FALSE)

\* After a purchase of the batch: the next one, which fails if the cash is gone,
\* and then the upgrades.
FillSlots ==
    /\ At(servers, "filling")
    /\ IF plan.left > 0 /\ ServerCost[plan.size] <= cash
       THEN BuyServer(plan.size, plan.left - 1, cap) /\ UNCHANGED marker
       ELSE UpgradeSmallest(marker, cap)
    /\ UNCHANGED <<status, homeRam, homeCores, hasTor, owned, nodes, wasMonitor,
                   purchases, user, taken>>

Upgrade ==
    /\ At(servers, "upgrading") /\ UpgradeSmallest(marker, cap)
    /\ UNCHANGED <<status, homeRam, homeCores, hasTor, owned, nodes, wasMonitor,
                   purchases, user, taken>>

Pserv == ServersCycle \/ FillSlots \/ Upgrade

---------------------------------------------------------------------------
(* home: one cycle buys RAM and then cores, against the same allowance. *)

RamAffordable ==
    /\ home \in autoBuy /\ homeRam < Len(HomeRamCost)
    /\ CanAfford(home, HomeRamCost[homeRam + 1]) /\ HomeRamCost[homeRam + 1] <= cash
CoresAffordable(money) ==
    /\ home \in autoBuy /\ homeCores < Len(HomeCoreCost)
    /\ CanAfford(home, HomeCoreCost[homeCores + 1]) /\ HomeCoreCost[homeCores + 1] <= money

\* reportNext: RAM before cores; monitoring clears the item.
HomeNext(ram, cores) ==
    IF home \notin autoBuy THEN 0
    ELSE IF ram < Len(HomeRamCost) THEN HomeRamCost[ram + 1]
    ELSE IF cores < Len(HomeCoreCost) THEN HomeCoreCost[cores + 1] ELSE 0

HomeCycle ==
    /\ At(home, "sleep")
    /\ LET ram == IF RamAffordable THEN homeRam + 1 ELSE homeRam
           left == IF RamAffordable THEN cash - HomeRamCost[ram] ELSE cash
           cores == IF CoresAffordable(left) THEN homeCores + 1 ELSE homeCores
           done == ram = Len(HomeRamCost) /\ cores = Len(HomeCoreCost)
       IN  /\ homeRam' = ram /\ homeCores' = cores
           /\ cash' = IF CoresAffordable(left) THEN left - HomeCoreCost[cores] ELSE left
           /\ pending' = [pending EXCEPT ![home] = HomeNext(ram, cores)]
           /\ marker' = IF done THEN With(home) ELSE marker
           /\ pc' = IF done THEN [pc EXCEPT ![home] = "down"] ELSE pc
    /\ Taken
    /\ UNCHANGED <<status, rams, hasTor, owned, nodes, pserv, purchases, user>>

---------------------------------------------------------------------------
(* darkweb: TOR, and then every program the same reading allows. *)

\* One turn of analyzeDarkwebPrograms' loop over the programs by cost.
BuyProgram(bought, k) ==
    IF k \notin bought.owned /\ ProgramCost[k] <= bought.cash /\ CanAfford(programs, ProgramCost[k])
    THEN [owned |-> bought.owned \cup {k}, cash |-> bought.cash - ProgramCost[k]]
    ELSE bought

\* reportNext: the router, then the cheapest program not owned.
ProgramsNext(tor, have) ==
    IF ~tor THEN TorCost
    ELSE IF have = DOMAIN ProgramCost THEN 0
    ELSE ProgramCost[Min(DOMAIN ProgramCost \ have)]

ProgramsCycle ==
    /\ At(programs, "sleep")
    /\ LET buysTor == ~hasTor /\ CanAfford(programs, TorCost) /\ TorCost <= cash
           start == [owned |-> owned, cash |-> IF buysTor THEN cash - TorCost ELSE cash]
           result == IF hasTor \/ buysTor
                     THEN FoldLeft(BuyProgram, start, [k \in DOMAIN ProgramCost |-> k])
                     ELSE start
           done == (hasTor \/ buysTor) /\ result.owned = DOMAIN ProgramCost
       IN  /\ hasTor' = (hasTor \/ buysTor)
           /\ owned' = result.owned /\ cash' = result.cash
           /\ pending' = [pending EXCEPT ![programs] = ProgramsNext(hasTor', owned')]
           /\ marker' = IF done THEN With(programs) ELSE marker
           /\ pc' = IF done THEN [pc EXCEPT ![programs] = "down"] ELSE pc
    /\ Taken
    /\ UNCHANGED <<status, rams, homeRam, homeCores, nodes, pserv, purchases, user>>

---------------------------------------------------------------------------
(* hacknet: reads the config once a cycle, and then buys one upgrade after   *)
(* the other, ranked by return (left open here), with 5 ms of sleep between. *)

HacknetAffordable(u, money) == HacknetCost[u] <= money /\ CanAfford(hacknet, HacknetCost[u])

\* The first server is bought without a sleep after it.
FirstBought == nodes = {} /\ HacknetAffordable(firstNode, cash)
NodesThen == IF FirstBought THEN {firstNode} ELSE nodes
CashThen == IF FirstBought THEN cash - HacknetCost[firstNode] ELSE cash
CountThen == IF FirstBought THEN purchases + 1 ELSE purchases
HacknetCandidates ==
    IF NodesThen = {} \/ CountThen >= BatchLimit THEN {}
    ELSE {u \in HacknetUpgrade \ NodesThen : HacknetAffordable(u, CashThen)}

HacknetCycle ==
    /\ (hacknet \in autoBuy /\ At(hacknet, "sleep")) \/ At(hacknet, "buying")
    /\ IF HacknetCandidates = {}
       THEN /\ nodes' = NodesThen /\ cash' = CashThen
            /\ purchases' = 0 /\ Goto(hacknet, "sleep")
       ELSE /\ \E u \in HacknetCandidates :
                 nodes' = NodesThen \cup {u} /\ cash' = CashThen - HacknetCost[u]
            /\ purchases' = CountThen + 1 /\ Goto(hacknet, "buying")
    /\ Taken
    /\ UNCHANGED <<status, pending, marker, rams, homeRam, homeCores, hasTor, owned, pserv, user>>

\* What a daemon that is up and buys is there for.
Complete(b) ==
    CASE b = servers  -> FullyDone(limit)
      [] b = home     -> homeRam = Len(HomeRamCost) /\ homeCores = Len(HomeCoreCost)
      [] b = programs -> hasTor /\ owned = DOMAIN ProgramCost
      [] b = hacknet  -> TRUE

---------------------------------------------------------------------------
(* The player and the user. *)

Earn ==
    /\ cash < MaxCash /\ cash' = cash + 1
    /\ UNCHANGED <<status, pending, marker, game, pc, pserv, purchases, user, taken>>

UserStep == events < MaxEvents /\ events' = events + 1

\* Spending nobody reports, such as augmentations.
Spend ==
    /\ UserStep /\ cash > 0 /\ cash' \in 0..(cash - 1) /\ Taken
    /\ UNCHANGED <<status, pending, marker, game, pc, pserv, purchases, autoBuy, limit>>

\* start.js or the dashboard starts a daemon. One that has bought everything would
\* exit in its first cycle.
StartDaemon(b) ==
    /\ b # servers /\ ~Complete(b) /\ At(b, "down") /\ Goto(b, "sleep")
    /\ UNCHANGED <<cash, status, pending, marker, game, pserv, purchases, user, taken>>

StopDaemon(b) ==
    /\ UserStep /\ Up(b) /\ Goto(b, "down")
    /\ plan' = IF b = servers THEN noPlan ELSE plan
    /\ cap' = IF b = servers THEN limit ELSE cap
    /\ purchases' = IF b = hacknet THEN 0 ELSE purchases
    /\ UNCHANGED <<cash, status, pending, marker, game, wasMonitor, autoBuy, limit, taken>>

\* The dashboard writes the config file of a daemon; darkweb's has no autoBuy.
ToggleAutoBuy(b) ==
    /\ UserStep /\ b \in Switched \ {programs}
    /\ autoBuy' = IF b \in autoBuy THEN autoBuy \ {b} ELSE autoBuy \cup {b}
    /\ UNCHANGED <<cash, status, pending, marker, game, pc, pserv, purchases, limit, taken>>
SetLimit ==
    /\ UserStep /\ limit' \in Limits \ {limit}
    /\ cap' = IF pc[servers] \in {"down", "sleep"} THEN limit' ELSE cap
    /\ UNCHANGED <<cash, status, pending, marker, game, pc, plan, wasMonitor, purchases,
                   autoBuy, taken>>

BudgetDaemon == \E feasible \in SUBSET {b \in Bucket : pending[b] > 0} : Tick(feasible)
Prune == \E b \in Bucket : PrunePending(b)
User == \/ Spend \/ SetLimit
        \/ \E b \in Bucket : StopDaemon(b) \/ ToggleAutoBuy(b)
Next == \/ BudgetDaemon \/ Prune \/ Pserv \/ HomeCycle \/ ProgramsCycle \/ HacknetCycle
        \/ Earn \/ User
        \/ StartServers \/ \E b \in Bucket : StartDaemon(b)

\* The loops go on (hacknet's need not) and there is always some income; nobody
\* need start a daemon.
Spec == /\ Init /\ [][Next]_vars
        /\ WF_vars(BudgetDaemon) /\ WF_vars(Prune) /\ WF_vars(Earn)
        /\ WF_vars(Pserv) /\ WF_vars(HomeCycle) /\ WF_vars(ProgramsCycle)

---------------------------------------------------------------------------
(* Properties *)

\* The promise of the savings goal (docs/systems/budget.md): with cash of no more
\* than twice the dearest price, a spender that stays up gets everything it wants,
\* however small its weight, whatever the others buy meanwhile against the
\* allowances of the same tick, and whichever of them is stopped, put into monitor
\* mode or given another maxRam while the goal is its item.
EverythingBought ==
    \A b \in Bucket \ {hacknet} : []<>(~Up(b) \/ b \notin autoBuy \/ Complete(b))

\* A batch of servers is planned from one reading of cash and allowance and paid
\* for over many sleeps, with no second look at the slots: no purchase of it fails
\* for want of a slot, nor, unless somebody else spends meanwhile, of cash.
BatchIsPaid ==
    At(servers, "filling") =>
        /\ Len(rams) + plan.left <= Slots
        /\ ~taken => plan.left * ServerCost[plan.size] <= cash
============================================================================
