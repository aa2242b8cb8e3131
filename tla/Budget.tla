------------------------------- MODULE Budget -------------------------------
(***************************************************************************)
(* The budget daemon (src/src/daemons/budget.ts, controllers/budget.ts)    *)
(* and its clients (src/src/lib/budget.ts): one daemon that turns the      *)
(* player's cash into allowances, consumers that spend against the last    *)
(* allowance published, a control port between them, and two files that    *)
(* survive a restart.                                                      *)
(*                                                                         *)
(* Units are those of BudgetRules.                                         *)
(***************************************************************************)
EXTENDS BudgetRules, Sequences, Functions

CONSTANTS
    Holder,          \* HOLDER_BUCKETS: allowance is a share of net worth
    stocks,          \* the bucket lifted to Weight4S with 4S data
    wseAccess,       \* WSE_ACCESS_BUCKET
    DefaultWeight,   \* DEFAULT_WEIGHTS
    Weight4S,        \* config stocksWeight4S
    Disabled,        \* buckets whose daemon start.js may be told to leave out: corp
    Price,           \* what purchases cost
    Command,         \* messages users and consumers send beside purchases
    Market,          \* what readHoldings may find on the status ports
    InitialCash,     \* the player's money at the start
    CashAfterInstall,\* what an augmentation install may leave
    MaxCash,         \* bound: the cash the player ever has
    PortCapacity,    \* values the control port holds before it drops the oldest
    MaxEvents        \* bound: steps of the daemon's environment

ASSUME BucketAssumption ==
    /\ Holder \subseteq Bucket /\ Disabled \subseteq Bucket
    /\ stocks \in Holder /\ wseAccess \in Bucket \ Holder
ASSUME ConfigAssumption ==
    /\ DefaultWeight \in [Bucket -> Nat]
    /\ Weight4S \in Nat
    /\ PortCapacity \in Nat \ {0} /\ MaxCash \in Nat

MessageKind == {"purchased", "done", "report-cap", "report-next", "rush",
    "cancel-rush", "update-weight", "reset-weights", "reactivate", "freeze", "unfreeze"}
Message == [action : MessageKind, bucket : Bucket, amount : Nat]

ASSUME EnvironmentAssumption ==
    /\ Price \subseteq Nat \ {0}
    /\ Command \subseteq Message
    \* Purchases and signals are sent by lib/budget.ts (and the dashboard, for corp),
    \* together with the purchase or the change to the marker file: these are Buy,
    \* SignalDone and ReactivateBucket.
    /\ \A m \in Command : m.action \notin {"purchased", "done", "reactivate"}
    \* Only pserv, home and programs call reportNext.
    /\ \A m \in Command : m.action = "report-next" => m.bucket \notin Holder
    /\ Market \subseteq [portfolio : Nat, funds : Nat, wseCost : Nat, has4S : BOOLEAN]
    /\ InitialCash \subseteq 0..MaxCash /\ CashAfterInstall \subseteq 0..MaxCash

VARIABLES
    cash,         \* the player's money
    port,         \* BUDGET_CONTROL_PORT
    marker,       \* /data/budget-done.txt: buckets whose consumer is finished
    disk,         \* /data/budget-balances.json
    status,       \* STATUS_PORTS.budget as peekStatus shows it
    \* the daemon's memory
    pc, weights, active, rush, frozen, saved, spent, caps,
    pending,      \* cost of the next purchase each bucket reported, 0 for none
    prevCash,     \* cash at the previous tick
    spending,     \* what drainControlPort summed up in this drain
    \* history, for the properties
    notified,     \* purchases notified since the last detected reset
    lost,         \* those of them whose message a full port dropped
    missed,       \* buckets whose last reactivate message was lost
    unexplained,  \* cash fell since the last tick, and no notification of it arrived
    events

settings == <<weights, active, rush, frozen, saved, spent, caps>>
daemonVars == <<pc, settings, pending, prevCash, spending>>
messageHistory == <<notified, lost, missed>>
history == <<messageHistory, unexplained>>
vars == <<cash, port, marker, disk, status, daemonVars, history, events>>

Zero == [b \in Bucket |-> 0]
NoStatus == [live |-> FALSE, allowance |-> Zero, effective |-> Zero, cash |-> 0,
             goal |-> NoBucket, cost |-> 0, reserve |-> 0, granted |-> FALSE,
             rush |-> NoBucket]

\* createDefaultPersistedState.  The weights a freeze saved are a set of frozen
\* buckets and, for these, the saved weight.
DefaultState == [weights |-> DefaultWeight, active |-> [b \in Bucket |-> TRUE],
                 rush |-> NoBucket, frozen |-> {}, saved |-> Zero,
                 spent |-> Zero, caps |-> Zero, lastCash |-> 0]

Init ==
    /\ cash \in InitialCash
    /\ port = <<>> /\ marker = {}
    /\ disk = DefaultState
    /\ status = NoStatus
    /\ pc = "down"
    /\ weights = DefaultWeight /\ active = DefaultState.active
    /\ rush = NoBucket /\ frozen = {} /\ saved = Zero /\ spent = Zero /\ caps = Zero
    /\ pending = Zero /\ prevCash = 0 /\ spending = 0
    /\ notified = Zero /\ lost = Zero /\ missed = {} /\ unexplained = FALSE
    /\ events = 0

---------------------------------------------------------------------------
(* The functions of controllers/budget.ts that read settings or holdings *)

\* applyStocks4SWeight.
LiftedWeights(has4S) ==
    IF has4S /\ weights[stocks] > 0 /\ weights[stocks] < Weight4S
    THEN [weights EXCEPT ![stocks] = Weight4S] ELSE weights

\* computeAllowances: a holder's share of net worth, everybody else's of cash.
ComputeAllowances(money, market, effective, goal, cost, reserve) ==
    LET netWorth == money + market.portfolio + market.funds
        Holding(b) == IF b = stocks THEN market.portfolio ELSE market.funds
    IN  [b \in Bucket |->
            IF b \in Holder THEN HolderAllowance(netWorth, Holding(b), effective[b])
            ELSE IF b = goal
            THEN GoalAllowance(money, effective[b], IsGranted(goal, reserve, cost), cost)
            ELSE SpenderAllowance(money, reserve, effective[b])]

---------------------------------------------------------------------------
(* The daemon.  Its only await is the sleep at the end of a tick, so nobody  *)
(* else runs unless it is down or asleep.                                    *)

Await == pc \in {"down", "sleep"}

\* loadState.  The merged object has no lastCash, so that prevCash = state.lastCash
\* ?? currentCash is the current cash.
Start ==
    /\ pc = "down" /\ pc' = "starting"
    /\ weights' = disk.weights /\ active' = disk.active /\ rush' = disk.rush
    /\ frozen' = disk.frozen /\ saved' = disk.saved
    /\ spent' = disk.spent /\ caps' = disk.caps
    /\ pending' = Zero /\ prevCash' = cash /\ spending' = 0
    /\ UNCHANGED <<cash, port, marker, disk, status, history, events>>

Wake ==
    /\ pc = "sleep" /\ pc' = "draining" /\ spending' = 0
    /\ UNCHANGED <<cash, port, marker, disk, status, settings, pending, prevCash,
                   history, events>>

\* drainControlPort takes the messages one by one; handleMessage by kind.
message == Head(port)
Take(kind) ==
    /\ pc \in {"starting", "draining"} /\ port # <<>> /\ message.action = kind
    /\ port' = Tail(port)
    /\ UNCHANGED <<cash, marker, disk, status, pc, prevCash, history, events>>

\* Faulty variants: purchases drained at startup are not counted; purchases are
\* not summed up for the reset check.
HandlePurchased_NotAtStartup ==
    /\ Take("purchased")
    /\ spent' = IF pc = "starting" THEN spent
                ELSE [spent EXCEPT ![message.bucket] = @ + message.amount]
    /\ spending' = spending + message.amount
    /\ UNCHANGED <<weights, active, rush, frozen, saved, caps, pending>>

HandlePurchased_NotSummed ==
    /\ Take("purchased")
    /\ spent' = [spent EXCEPT ![message.bucket] = @ + message.amount]
    /\ UNCHANGED <<weights, active, rush, frozen, saved, caps, pending, spending>>

HandlePurchased ==
    /\ Take("purchased")
    /\ spent' = [spent EXCEPT ![message.bucket] = @ + message.amount]
    /\ spending' = spending + message.amount
    /\ UNCHANGED <<weights, active, rush, frozen, saved, caps, pending>>

HandleDone ==
    /\ Take("done")
    /\ active' = [active EXCEPT ![message.bucket] = FALSE]
    /\ UNCHANGED <<weights, rush, frozen, saved, spent, caps, pending, spending>>

\* The cap is what was spent plus what remains.
HandleReportCap ==
    /\ Take("report-cap")
    /\ caps' = [caps EXCEPT ![message.bucket] = spent[message.bucket] + message.amount]
    /\ UNCHANGED <<weights, active, rush, frozen, saved, spent, pending, spending>>

HandleReportNext ==
    /\ Take("report-next")
    /\ pending' = [pending EXCEPT ![message.bucket] = message.amount]
    /\ UNCHANGED <<settings, spending>>

HandleRush ==
    /\ \/ Take("rush") /\ rush' = message.bucket
       \/ Take("cancel-rush") /\ rush' = NoBucket
    /\ UNCHANGED <<weights, active, frozen, saved, spent, caps, pending, spending>>

HandleWeights ==
    /\ \/ Take("update-weight")
          /\ weights' = [weights EXCEPT ![message.bucket] = message.amount]
       \/ Take("reset-weights") /\ weights' = DefaultWeight
    /\ UNCHANGED <<active, rush, frozen, saved, spent, caps, pending, spending>>

HandleReactivate ==
    /\ Take("reactivate")
    /\ active' = [active EXCEPT ![message.bucket] = TRUE]
    /\ UNCHANGED <<weights, rush, frozen, saved, spent, caps, pending, spending>>

\* A second freeze must not save the weight 0 the first one set.
HandleFreeze ==
    /\ Take("freeze")
    /\ IF message.bucket \in frozen THEN UNCHANGED <<weights, frozen, saved>>
       ELSE /\ frozen' = frozen \cup {message.bucket}
            /\ saved' = [saved EXCEPT ![message.bucket] = weights[message.bucket]]
            /\ weights' = [weights EXCEPT ![message.bucket] = 0]
    /\ UNCHANGED <<active, rush, spent, caps, pending, spending>>

HandleUnfreeze ==
    /\ Take("unfreeze")
    /\ IF message.bucket \notin frozen THEN UNCHANGED <<weights, frozen, saved>>
       ELSE /\ frozen' = frozen \ {message.bucket}
            /\ saved' = [saved EXCEPT ![message.bucket] = 0]
            /\ weights' = [weights EXCEPT ![message.bucket] = saved[message.bucket]]
    /\ UNCHANGED <<active, rush, spent, caps, pending, spending>>

HandleMessage ==
    \/ HandlePurchased \/ HandleDone \/ HandleReportCap \/ HandleReportNext
    \/ HandleRush \/ HandleWeights \/ HandleReactivate \/ HandleFreeze \/ HandleUnfreeze

\* Faulty variant: the marker file survives the reset.
ZeroAccounts_KeepMarkers ==
    /\ spent' = Zero /\ caps' = Zero /\ rush' = NoBucket
    /\ active' = [b \in Bucket |-> TRUE]
    /\ marker' = marker /\ prevCash' = cash
    /\ notified' = Zero /\ lost' = Zero /\ missed' = {}
    /\ UNCHANGED <<weights, frozen, saved>>

\* Both places that detect a reset start the accounts afresh; weights, frozen
\* buckets and pending items stay.
ZeroAccounts ==
    /\ spent' = Zero /\ caps' = Zero /\ rush' = NoBucket
    /\ active' = [b \in Bucket |-> TRUE]
    /\ marker' = {} /\ prevCash' = cash
    /\ notified' = Zero /\ lost' = Zero /\ missed' = {}
    /\ UNCHANGED <<weights, frozen, saved>>

\* Faulty variant: the state is saved before a finished rush is cancelled.
SaveState_TooEarly(lastCash) ==
    disk' = [weights |-> weights', active |-> active', rush |-> rush,
             frozen |-> frozen', saved |-> saved', spent |-> spent', caps |-> caps',
             lastCash |-> lastCash]

\* saveState, at the end of a step that has already primed the settings.
SaveState(lastCash) ==
    disk' = [weights |-> weights', active |-> active', rush |-> rush',
             frozen |-> frozen', saved |-> saved', spent |-> spent', caps |-> caps',
             lastCash |-> lastCash]

\* The end of startup: the port is drained, the reset check has been made.
StartLoop ==
    /\ pc = "starting" /\ port = <<>>
    /\ pc' = "draining" /\ spending' = 0
    /\ IF IsAugReset(prevCash, cash + spending)
       THEN ZeroAccounts /\ SaveState(cash)
       ELSE UNCHANGED <<settings, marker, prevCash, disk, messageHistory>>
    /\ UNCHANGED <<cash, port, status, pending, unexplained, events>>

\* Faulty variant: the marker file is not read.
WithMarkers_Ignored == active

\* checkDoneMarkers.
WithMarkers == [b \in Bucket |-> active[b] /\ b \notin marker]

\* A tick that finds a reset publishes nothing.
ResetTick ==
    /\ pc = "draining" /\ port = <<>> /\ pc' = "sleep"
    /\ IsAugReset(prevCash, cash + spending)
    /\ ZeroAccounts /\ SaveState(cash)
    /\ unexplained' = FALSE
    /\ UNCHANGED <<cash, port, status, pending, spending, events>>

\* The BudgetStatus a tick publishes.  rushed is the bucket still rushed.
StatusOf(market, effective, goal, price, rushed) ==
    LET reserve == ComputeReserve(cash, goal, price)
    IN  [live |-> TRUE,
         allowance |-> ComputeAllowances(cash, market, effective, goal, price, reserve),
         effective |-> effective, cash |-> cash, goal |-> goal, cost |-> price,
         reserve |-> reserve, granted |-> IsGranted(goal, reserve, price),
         rush |-> rushed]

\* Any other tick.  stale are the pending items not refreshed for two minutes,
\* feasible the items within goalHorizon at the estimated income; both depend on
\* times and rates left out here.
PublishTick(market, stale, feasible) ==
    /\ pc = "draining" /\ port = <<>> /\ pc' = "sleep"
    /\ ~IsAugReset(prevCash, cash + spending)
    /\ pending' = [b \in Bucket |-> IF b \in stale THEN 0 ELSE pending[b]]
    /\ active' = WithMarkers
    /\ rush' = IF rush # NoBucket /\ active'[rush] THEN rush ELSE NoBucket
    /\ LET cost == [pending' EXCEPT ![wseAccess] = market.wseCost]
           effective == EffectiveWeights(LiftedWeights(market.has4S), active', rush)
           goals == IF rush' # NoBucket THEN {NoBucket}
                    ELSE SelectGoal(cost, effective, feasible)
       IN  /\ \A b \in Bucket : AtGrantPoint(cost[b], cash) => b \in feasible
           /\ \E goal \in goals :
                LET price == IF goal = NoBucket THEN 0 ELSE cost[goal]
                IN  status' = StatusOf(market, effective, goal, price, rush')
    /\ UNCHANGED <<weights, frozen, saved, spent, caps>>
    /\ SaveState(prevCash)
    /\ prevCash' = cash
    /\ unexplained' = FALSE
    /\ UNCHANGED <<cash, port, marker, spending, messageHistory, events>>

Reported == {b \in Bucket : pending[b] > 0}
Tick == \/ ResetTick
        \/ \E market \in Market, stale \in SUBSET Reported, feasible \in SUBSET Bucket :
              PublishTick(market, stale, feasible)

Daemon == Wake \/ HandleMessage \/ StartLoop \/ Tick

---------------------------------------------------------------------------
(* Its environment: consumers, the player, restarts. *)

Happens == Await /\ events < MaxEvents /\ events' = events + 1

\* What a port loses of its oldest messages, for the history variables: the
\* purchases, and the reactivations (the marker file tells which signal of a
\* bucket came last) unless a later signal of the bucket is still pending.
Amount(buckets, m) ==
    IF m.action = "purchased" /\ m.bucket \in buckets THEN m.amount ELSE 0
Purchased(buckets, messages) ==
    SumFunctionOnSet([i \in DOMAIN messages |-> Amount(buckets, messages[i])],
                     DOMAIN messages)
IsSignal(m, b) == m.bucket = b /\ m.action \in {"done", "reactivate"}
SignalledIn(messages) ==
    {b \in Bucket : \E i \in DOMAIN messages : IsSignal(messages[i], b)}
Lose(dropped) ==
    /\ lost' = [b \in Bucket |-> lost[b] + Purchased({b}, dropped)]
    /\ missed' = (missed \cup (SignalledIn(port) \ marker)) \ SignalledIn(port')

\* handle.write: a full port drops its oldest value.
Send(m) ==
    LET full == Len(port) = PortCapacity
    IN  /\ port' = Append(IF full THEN Tail(port) ELSE port, m)
        /\ Lose(IF full THEN <<Head(port)>> ELSE <<>>)
        /\ unexplained' = (unexplained \/ lost' # lost)

\* getBudgetBalance: what bucket may spend, unlimited when nothing is published.
\* canAfford compares without regard to what was bought since the publication.
CanAfford(b, price) == status.live => 10000 * price <= status.allowance[b]

\* A consumer buys and calls notifyPurchase before its next await.
Buy(b, price) ==
    /\ Happens /\ price <= cash /\ CanAfford(b, price)
    /\ cash' = cash - price
    /\ Send([action |-> "purchased", bucket |-> b, amount |-> price])
    /\ notified' = [notified EXCEPT ![b] = @ + price]
    /\ UNCHANGED <<marker, disk, status, daemonVars>>

\* signalDone and reactivateBucket change the marker file and send a message.
SignalDone(b) ==
    /\ Happens
    /\ marker' = marker \cup {b}
    /\ Send([action |-> "done", bucket |-> b, amount |-> 0])
    /\ UNCHANGED <<cash, disk, status, daemonVars, notified>>

ReactivateBucket(b) ==
    /\ Happens
    /\ marker' = marker \ {b}
    /\ Send([action |-> "reactivate", bucket |-> b, amount |-> 0])
    /\ UNCHANGED <<cash, disk, status, daemonVars, notified>>

\* start.js marks a daemon it leaves out as finished, and sends nothing.
MarkDone(b) ==
    /\ Happens
    /\ marker' = marker \cup {b}
    /\ UNCHANGED <<cash, port, disk, status, daemonVars, history>>

\* reportCap, reportNext, setBudgetWeight and the dashboard's commands.
SendCommand(m) ==
    /\ Happens /\ Send(m)
    /\ UNCHANGED <<cash, marker, disk, status, daemonVars, notified>>

Earn(amount) ==
    /\ Happens /\ cash + amount <= MaxCash /\ cash' = cash + amount
    /\ UNCHANGED <<port, marker, disk, status, daemonVars, history>>

\* Spending nobody reports, such as augmentations.
Spend(amount) ==
    /\ Happens /\ amount <= cash /\ cash' = cash - amount
    /\ unexplained' = TRUE
    /\ UNCHANGED <<port, marker, disk, status, daemonVars, messageHistory>>

\* The daemon is killed at its await; its memory is gone (pending and the
\* previous cash are set to 0 here, the rest is overwritten at the next start).
Forget == pc' = "down" /\ pending' = Zero /\ prevCash' = 0 /\ spending' = 0

Stop ==
    /\ Happens /\ pc = "sleep" /\ Forget
    /\ UNCHANGED <<cash, port, marker, disk, status, settings, history>>

\* Thirty seconds after the last publication peekStatus returns null.
StatusExpires ==
    /\ Happens /\ pc = "down" /\ status.live /\ status' = NoStatus
    /\ UNCHANGED <<cash, port, marker, disk, daemonVars, history>>

\* An augmentation install kills every script, empties the ports, takes the cash
\* and keeps the files of home.
Install ==
    /\ Happens /\ Forget
    /\ cash' \in CashAfterInstall
    /\ port' = <<>> /\ status' = NoStatus
    /\ unexplained' = TRUE /\ Lose(port)
    /\ UNCHANGED <<marker, disk, settings, notified>>

Environment ==
    \/ \E b \in Bucket, price \in Price : Buy(b, price)
    \/ \E b \in Bucket : SignalDone(b) \/ ReactivateBucket(b)
    \/ \E b \in Disabled : MarkDone(b)
    \/ \E m \in Command : SendCommand(m)
    \/ \E amount \in Price : Earn(amount) \/ Spend(amount)
    \/ Stop \/ StatusExpires \/ Install

Next == Daemon \/ Start \/ Environment

\* The daemon runs while it is up; nothing says that it is started again.
Spec == Init /\ [][Next]_vars /\ WF_vars(Daemon)

---------------------------------------------------------------------------
(* Properties *)

\* BudgetPersistedState, and what the properties need of BudgetStatus.
PersistedState ==
    [weights : [Bucket -> Nat], active : [Bucket -> BOOLEAN],
     rush : Bucket \cup {NoBucket}, frozen : SUBSET Bucket, saved : [Bucket -> Nat],
     spent : [Bucket -> Nat], caps : [Bucket -> Nat], lastCash : Nat]
BudgetStatus ==
    [live : BOOLEAN, allowance : [Bucket -> Nat], effective : [Bucket -> Nat],
     cash : Nat, goal : Bucket \cup {NoBucket}, cost : Nat, reserve : Nat,
     granted : BOOLEAN, rush : Bucket \cup {NoBucket}]

\* Every variable holds a value of its kind; above all, no allowance, account or
\* weight is ever negative, although allowances are differences (computeAllowances)
\* and the accounts are cut back by resets.
TypeOK ==
    /\ cash \in 0..MaxCash
    /\ port \in Seq(Message)
    /\ marker \subseteq Bucket
    /\ pc \in {"down", "starting", "draining", "sleep"}
    /\ weights \in [Bucket -> Nat] /\ active \in [Bucket -> BOOLEAN]
    /\ rush \in Bucket \cup {NoBucket}
    /\ frozen \subseteq Bucket /\ saved \in [Bucket -> Nat]
    /\ spent \in [Bucket -> Nat] /\ caps \in [Bucket -> Nat]
    /\ pending \in [Bucket -> Nat] /\ prevCash \in Nat /\ spending \in Nat
    /\ disk \in PersistedState
    /\ status \in BudgetStatus
    /\ events \in Nat

Spender == Bucket \ Holder

\* The reserve is hidden from every spender but the goal's: one that spends its
\* whole allowance leaves the reserve of that publication untouched, unless the
\* user gave it a weight above 100 percent.
ReserveHidden ==
    status.live => \A b \in Spender \ {status.goal} :
        status.effective[b] <= 100
            => status.allowance[b] + 100 * status.reserve <= 10000 * status.cash

\* A granted goal can be bought: its bucket's allowance covers the price and the
\* published cash did too.  It is granted as soon as cash reaches price / share.
GrantCovered ==
    status.live /\ status.goal # NoBucket =>
        /\ status.granted =>
             /\ 10000 * status.cost <= status.allowance[status.goal]
             /\ status.cost <= status.cash
        /\ AtGrantPoint(status.cost, status.cash) => status.granted

\* Done, zeroed and rush-sidelined buckets are never the goal, nor is a holder's
\* reserve kept while a bucket is rushed.
GoalEligible ==
    status.live /\ status.goal # NoBucket =>
        /\ status.effective[status.goal] > 0
        /\ status.rush = NoBucket

\* What is saved for can be had: in one publication, made from cash, weights, pending items
\* and flags, the goal is one that may be saved for, and its grant is good.
GoalSound == GoalEligible /\ GrantCovered

\* While a bucket is rushed it may spend all cash and everybody else nothing.
RushExclusive ==
    status.live /\ status.rush # NoBucket =>
        /\ \A b \in Bucket \ {status.rush} : status.allowance[b] = 0
        /\ status.rush \in Spender => status.allowance[status.rush] = 10000 * status.cash

\* Killing the daemon at its await loses nothing but the pending items and the
\* previous cash: the file holds every setting and account as the daemon does,
\* the cancellation of a finished rush included.
SavedAtAwait ==
    pc = "sleep" => /\ disk.weights = weights /\ disk.active = active
                    /\ disk.rush = rush /\ disk.frozen = frozen
                    /\ disk.saved = saved
                    /\ disk.spent = spent /\ disk.caps = caps

\* Every notified purchase is counted exactly once, across ticks, restarts and
\* reset detection, unless its message is still pending or was lost with the port.
AccountsExact ==
    \A b \in Bucket :
        notified[b] = Purchased({b}, port) + lost[b]
                        + (IF pc = "down" THEN disk.spent[b] ELSE spent[b])

\* Reported spending never looks like an augmentation reset: one is detected only
\* when cash fell without a notification since the last tick.
ResetsOnlyUnexplained ==
    [][ResetTick \/ (StartLoop /\ notified' # notified) => unexplained]_vars

\* After every tick the daemon's flags and the marker file agree, whatever the order
\* of signals, ticks, resets, restarts and lost messages, and although start.js writes
\* the file alone: only a reactivation whose message was lost leaves a bucket inactive without a marker.
SignalsAgree ==
    [][pc # "sleep" /\ pc' = "sleep"
         => \A b \in Bucket \ missed' : active'[b] <=> b \notin marker']_vars

\* A finished bucket's allowance is released in the end, even when the done
\* message was lost with the port: the marker file is enough.
FinishedReleased ==
    \A b \in Bucket :
        b \in marker /\ pc # "down"
            ~> (status.live /\ status.allowance[b] = 0) \/ b \notin marker \/ pc = "down"

\* "Use persisted lastCash for aug-reset detection across daemon restarts"
\* (src/src/daemons/budget.ts:330): a drop of more than 90 percent from the saved
\* cash that pending purchases do not explain starts the accounts afresh.
StartupDetectsReset ==
    [][StartLoop /\ IsAugReset(disk.lastCash, cash + spending)
         => spent' = Zero /\ marker' = {} /\ \A b \in Bucket : active'[b]]_vars
============================================================================
