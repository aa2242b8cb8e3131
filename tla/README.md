# Verification of the Bitburner automation suite

TLA+ models, TLC runs and TLAPS proofs for the daemons under `src/src`. The
program is a set of Netscript daemons that play a game. Each is an endless loop
with a sleep at its end; most run on the one server `home` and share its RAM;
they talk through numbered ports and small text files. JavaScript runs one of
them at a time and switches only at an `await`. That fixes the grain of every
model here: **a step is what a script does from one await to the next**, and what
happens at an await is everything the other scripts, the user and the game may do.

Paths below are relative to the repository (`src/`). `PROJECT.json` maps every
definition to the lines it stands for, and lists under "hazards" each place where
one of the components could go wrong and a unit test would hardly reach.

## 1. The system

| Component | State it keeps | Operations | Interacts through | Hard behaviour |
|---|---|---|---|---|
| Queue daemon (`daemons/queue.ts`) | batch, rotation index, list of killed scripts | drain and sort, run a status check, force or queue an entry, wait, relaunch | `QUEUE_PORT`, processes of home | RAM taken by others at each await, timeouts, killed while it holds a batch |
| RAM tiers, launcher (`lib/ram-utils.ts`, `lib/launcher.ts`) | none | walk the kill tiers, exec, enqueue | processes of home | two launchers side by side |
| Bootstrap (`start.ts`, `tools/control/launch.ts`) | config seeds | launch the core and the optional daemons | processes, config files | may kill what it has just launched |
| Budget daemon (`daemons/budget.ts`, `controllers/budget.ts`) | weights, flags, rush, freezes, accounts, pending items | eleven messages, the tick, reset detection, saving | control port, status port, two files | messages of several ticks, restarts, installs, stale allowances |
| Budget clients (`lib/budget.ts`) | marker file | canAfford, notifyPurchase, signalDone, reactivateBucket, report* | the same | what they read is one tick old |
| Spenders: pserv, home, darkweb, hacknet | a batch plan, a purchase count | one cycle: read the game, buy, report | budget clients | several purchases against one reading, sleeps between purchases |
| Focus daemon (`daemons/focus.ts`) | `/config/focus.txt`, whether the Simulacrum check ran | three messages, start-up default, publish | control port, the file, action scripts | five writers of the file |
| Work, rep and blade daemons | tier, counters | pick work, start it unless they yield | focus file, the player | three loops act on one player |
| Dashboard (`views/dashboard`) | cached statuses and pids, command port | claims, starts, stops, budget commands | every port | acts on cached pids |
| Hack daemon and batches (`daemons/hack.ts`, `controllers/hack.ts`, `lib/batch.ts`) | phase of each target, batches due | plan, place, launch, judge, recover | worker scripts, RAM of all servers | landing order, late wakes, lost workers, restarts |
| Darknet coordinator and agents | cells, vault; per agent a vault copy and a backlog | seed, poll, digest reports, publish; spread, crack, report | ports and files over many servers | agents die, reports are late, lost or about a server that was replaced |
| Darknet solvers (`lib/darknet/solvers`) | what is known of one password | next attempt from the last feedback | the agent | lost, foreign or noisy log lines, attempt caps |
| Contracts (`daemons/contracts.ts`, `lib/contracts`) | keys attempted, recent results | scan, force, publish; 30 pure solvers | control port, nuke's status, the game | few tries, restarts, servers that come later |
| Share, nuke, gang, corp, stocks, faction, augments daemons | mostly a tier and a cache each | one cycle | status ports, budget clients | not modelled, section 6 |
| Infiltration, casino, actions, tools, simulators | none worth a model | run once, or drive the DOM | the game | not modelled, section 6 |

What makes each one correct:

* **Queue**: a request waits until it is served, once, or is lost to a full port or a
  dead daemon; none overtakes an older one of its priority; force mode kills from the
  lowest tier up, as few scripts as that allows and enough if enough exist; what it
  killed comes back; a hung script holds up neither entries nor the rotation.
* **Budget**: what consumers may spend never touches the reserve, a granted goal can
  be paid, a rush is exclusive; each purchase is counted once; settings and accounts
  survive a kill; spending is not taken for an augmentation reset; the two records of
  a finished bucket agree.
* **Spenders**: nobody spends what is not there, a batch planned ahead can be paid,
  and everyone gets what it wants in the end although all of them buy against allowances that are a tick old.
* **Focus**: the holder is the one asked for last; it has no sleeve besides; assigned
  sleeves work for the daemon their key names; the player comes to work for a holder
  that keeps the focus.
* **Batches**: what is stolen is on its way back, but for what a pipeline of batches may
  fail to restore; batches are placed whole, and money keeps flowing whatever is killed.
* **Darknet**: no password is lost, the published vault never contradicts the
  poll, and the swarm heals; a solver never rules the password out, and reaches it within its cap.
* **Contracts**: every answer is right, no try is wasted, and every solvable contract is solved.

## 2. Modules

| Module | Models |
|---|---|
| `Ports` | a bounded port that drops its oldest value, `drainQueue` |
| `HomeRam` | processes of home, `walkKillTiers`, `calcAvailableAfterKills`, `ensureRamAndExec` |
| `QueueRunner` (extends both) | queue daemon, its port, all other scripts as environment |
| `Mailbox` | abstract specification: what the queue promises |
| `BudgetRules` | the pure rules of `controllers/budget.ts`: goal, reserve, grant, allowances |
| `Budget` (extends `BudgetRules`) | budget daemon, clients, both files, user, game |
| `Spenders` (extends `BudgetRules`) | pserv, home, darkweb, hacknet against the budget daemon's tick |
| `Focus` (extends `Ports`) | focus daemon, file, action scripts, dashboard, work/rep/blade cycles |
| `Batches` | batch mode of the hack daemon, its workers, the targets |
| `Darknet` | coordinator, agents, ports, vault file, servers that restart, vanish or are replaced |
| `Crack` | an agent cracking one neighbour: `driveSolver` and 22 solvers |
| `ContractSolvers` | the solvers of coding contracts |
| `ContractRules` | external: what each contract type asks, stated independently of the solvers |
| `ContractRegistry` (extends `ContractSolvers`) | which solver answers which type, and the judge of its answers |
| `Contracts` | the contracts daemon, for any solvers and verdicts |
| `MC...` | the instances for TLC |
| `FoldTheorems` | lemmas about sums, folds and recursive functions, used by most of the following |
| `QueueProofs` | theorems about `Ports`, `HomeRam` and `QueueRunner`, and the refinement of `Mailbox` |
| `BudgetProofs`, `SpendersProofs`, `FocusProofs`, `BatchProofs`, `DarknetProofs`, `ContractProofs` | theorems about the module of the name |

Operators named `X_Something` with a comment "Faulty variant" are what a plausible
bug would make of `X`. They occur in no specification; each run was repeated with
one of them in place of `X` to see that its properties do fail then.

### Queue (`QueueRunner`, `HomeRam`, `Ports`, `Mailbox`)

`procs[p]` is the number of threads of script `p` on home, 0 when it does not run;
RAM is the sum over `procs`. `pc` names the await the daemon is at. `Drain` is the
top of the loop, `Missing`, `AlreadyRunning`, `Skip`, `ExecNow` and `FreeRam` are the
branches of `executeEntry`, `ExecFreed` and `GiveUp` what follows the 200 ms pause
after the kills, `Finished` and `TimedOut` the two ends of `waitForScript`,
`Relaunch` the loop that puts killed scripts back (with one thread). The walk is
nondeterministic where `sort` leaves ties to `ns.ps`. Around it scripts start, end
and enqueue; `start.js` and `launch.js` do so with kills of their own
(`ForceLaunch`), which is why the freed RAM can be gone after the pause. A timeout may
come whenever the script still runs. One step is taken per entry that is decided
without an await, so there are a few interleavings more than in the code.

`drainQueue` is defined by the place of each value in the result: how many are ahead
of it. `QueueProofs` shows that this is a stable sort of the port.

**Refinement.** `Mailbox` has letters that wait, are served or are lost.
`QueueRunner` maps its port and its drained batch to the waiting letters and what is
decided to the served ones (`mailbox`, an INSTANCE with that mapping): enqueueing is
`Post`, with a full port it also loses the oldest letter; a decision is `Serve`;
stopping the daemon is `Lose`; draining, killing, waiting, relaunching and everything
the other scripts do are invisible. `Serve` forbids to pass over an older letter of
the same priority, so this one formula says that nothing is forgotten, invented,
repeated or put out of order.

### Budget (`Budget`, `BudgetRules`)

Money is counted in whole dollars and weights in percent; reserves are hundredths and
allowances ten-thousandths of a dollar, so that the code's fractions are exact
integers. `pc`: `down`, `starting` (drain of the start), `draining` (the loop's
drain), `sleep` (the await). `HandlePurchased` ... `HandleUnfreeze` are the cases of
`handleMessage`; `StartLoop` is the reset test of the start, `ResetTick` and
`PublishTick` the two ways through a tick. `disk` is `budget-balances.json`, `marker` is
`budget-done.txt`. The code estimates from income over time whether an item can pay
back; here that is a free choice of feasible items, and so is whether the stocks
status is fresh. The environment buys against the last status (`Buy`, which like
the code assumes unlimited money when there is none), signals, sends commands, earns,
spends without telling, stops the daemon, lets its status expire, installs
augmentations; `start.js` writes a disabled bucket into the marker file and tells nobody (`MarkDone`). The commands of `EnvironmentAssumption` exclude purchases, done and
reactivate: only `lib/budget.ts` and the dashboard's corp toggle
(`state-store.ts:1146-1180`) send those, the last two together with a change of the
marker file, and they are actions of their own. `notified`, `lost`, `missed`, `unexplained` are history
variables, for properties only.

### Spenders

Each cycle is split at its awaits: `pserv` and hacknet sleep after every
purchase, home and darkweb buy all they can in one step. What waits in the budget
daemon's port until a tick is in `pending` and `marker` at once, since nothing but a tick reads it.
`Effective`, `Published` and `Tick` are a tick of the budget daemon over the
rules of `BudgetRules`; its accounts and restarts are in `Budget`. Prices are whole
dollars, so whole dollars are kept of an allowance. Left out: `oneShot`, tier 0, the
reserve of pserv (0 by default); the instance has no core upgrades to buy.

### Focus

The file is `holder`, `fallback` (the bare key `sleeveHolder`), `own` (the keys
`sleeveHolder.<i>`) and `simulacrum`. The daemon has one await: it is `down`, in
`sleep`, or `draining`, when nobody else runs. `HandleSetHolder`, `HandleSetSleeve`,
`HandleRefresh` are its messages with every early return, `Wake` the retry of a check
that found no RAM. Scripts it execs run later (`scripts`); those of one message are
launched in the order of the sleeves, and some may not start for want of RAM. The dashboard decides by `believed`, its cached pid, whether it sends a message or
writes the file (`ClaimFocus`, `ClaimSleeve`); `StopTool`, `SetWorkFocusNone` and
`Install` write it too, although `focus.ts:5` and `docs/architecture.md` call the
daemon the sole writer. `WorkCycle`, `RepCycle` and `BladeCycle` read the file and act
on the player in one step, as the code does. The rules by which starting one kind of
work ends another are the game's (`Begin`, `BeginBladeAction`).

### Batches

A unit of time is `BATCH_SPACER` (200 ms), of security 0.002, of RAM 10 MB; times are
what is left of them. A target's missing money is counted on the scale of its logarithm,
where a hack, which takes a share, and a grow thread, which multiplies, both add up.
`Stolen[k]` is what a hack worker of k threads takes and `GrowPower` what a grow thread
restores, two constants without a relation: a batch need not restore what it takes.
It does not without Formulas.exe: `batch.ts:232-237` rounds the hack threads up but
sizes the grow for the share before rounding. The figures are those of the plan; that
the player's skill grows between plan and landing is left out. A grow raises the
security for the threads that find a thread's worth of money to restore. A cycle of the daemon reads RAM at its
top (`Cycle`): `Judge`, `Recover`, `Advance`,
`PlanBatchCycle`, `AllocateServersToBatchOps`, `ExecuteBatchOps`, `Track`. Its one await
before the end, of `deployWorkers` (`hack.ts:1009`), only copies files, which the game answers at once:
no time passes and no worker lands in it. `Wake` may
come up to `Lateness` late. Placement is a fold: `Take` gives a host what fits of an operation,
`Place` an operation to the hosts in turn, `PlaceAll` the operations of a batch, `AllocateBatch`
takes all of it back if one does not fit. `exec` refuses a worker that its host has no room for;
`ExecuteBatchOps` has no such branch, and `HostsHaveRoom` says that none is needed. A cycle
finds enough tags that nothing carries (`Batch` bounds them; in the code they are counted). Workers land one by one in any order when their time has come. A
restarted daemon runs `ReconstructBatchState`. Left out: the legacy, XP and drain
modes, scoring and re-scoring of targets, statistics, the counter in tags; the branch
for a target "already prepped" at that place of the code cannot be reached.

### Darknet and Crack

A tick of the coordinator is one step: digest the reports (`Heard`), poll (`Poll`), seed,
save, publish. Its error path is left out: an exception between a report and the save
(`daemons/darknet.ts:326-358`) ends the tick without the save, and the next tick no longer knows of it. An agent awaits in its sleep and in every authenticate. Reports go through
a port that overflows; the game restarts, deletes, renames and links servers and
kills the scripts there. What a cell is told apart by is kept, the rest of a
`CellRecord` is display. Left out: the labyrinth, stasis links set by the
coordinator, phishing, stock promotion. A visit logs what it sees of a server that went
offline since the probe, too, whose details are a dummy's.

`Crack` is what happens inside one `authenticate`: a solver is a function of its state
and the last feedback; the agent repeats attempts that timed out and reads the verdict's details from a log in which its own line may be missing or buried. Characters are
numbers; the response time has jitter below 25 ms; PHP's deviation is counted in
thousandths; the list of moduli of BigMo%od is shortened because TLC's integers have
32 bits, which leaves the algorithm and makes the largest password smaller.
KingOfTheHill and MathML are left out (real arithmetic, and parsing). OctantVoxel is modelled for whole
numbers in a whole base; `octant-voxel.ts:18-35` also reads digits behind the point and a fractional base.

### Contracts

A cycle has no await and is one step: read the control port, scan, force, publish. A
solver has no state, so a contract carries the verdict on its answer from the
moment it appears. Which types have a solver, which solvers throw and what the game accepts are constants of
`Contracts` (`Registered`, `Throwing`, `Accepted`), so that its proofs hold for any registry; the instance
takes the real one, `ContractRegistry`. "Revised" stands for a type whose rule the game changed under its
solver, "Baffling" for one whose solver throws, "Novel" has none. The judge,
`ContractRules`, states each type's rule without an algorithm where it can (best over all choices,
shortest of all encodings). `attemptedKeys` lives as long as the daemon; a forced
attempt looks neither at it nor at `minTries` and submits a refused answer again. `ScanRepeatsNothing` and `LastTriesKept`
therefore speak of scans only; the attempts exempt are those of the user and the automatic ones of the darknet
coordinator alike. A malformed answer, for which `attempt` throws, costs no try in the game
(`docs/systems/contracts.md:25`) and one in the model, which is the worse case.

## 3. Runs

| Run | Question | Distinct states |
|---|---|---|
| `QueueTiers` | what the walk kills and what comes back; entry and rotation go on | 58,736 |
| `QueueOrder` | three entries over a port of two with a daemon stop: the refinement, order, types | 548,545 |
| `BudgetAllowances` | every status published | 2.25 million |
| `BudgetAccounts` | purchases, signals, a bucket disabled by `start.js`, resets, restarts against accounts, flags and files | 1,380,656 |
| `BudgetStartup` (violated) | does a restarted daemon see the reset? | |
| `Spenders` | four spenders and a user: is the batch paid, does everyone get what it wants? | 271,783 |
| `FocusSharing` | requests in any order against file, sleeves and player | 193,896 |
| `Batches` | one target from first prep to pipelined batches that take more than they restore, one fault | 278,701 |
| `BatchDesync` (violated) | is only unexpected loss of money taken for a desync? | |
| `DarknetSwarm` | two servers, two events of the game or the user | 195,717 |
| `Cracks` | 22 solvers on every short and the hardest long passwords | 178,106 |
| `ContractAnswers` | every answer of 30 solvers, and the daemon around them | 13.6 thousand |

The passing runs find no violation. What the other two show:

* **`BudgetStartup`** `loadState` never copies `lastCash`, so the test at
  `budget.ts:332-338` compares cash with itself. The reset that an install causes is
  missed, which the comment above it (330-331) says it is there to prevent. (The
  file's `lastCash` would also be one tick old: it is saved before `prevCash` moves on.)
* **`BatchDesync`** `lib/batch.ts:350` calls money below the maximum a desync when no
  operation is expected. `hack.ts:936` asks as soon as one batch is 500 ms past its
  end, although the next one lands its hack 200 ms and its grow 600 ms after that end: a wake in
  between kills every worker of a healthy pipeline. The instance differs from that of
  `Batches` in its times, which decide where wakes fall.

Divergences met while modelling, described here without a run:

* `docs/systems/darknet.md:214-223` says that a server that was cracked while its owner's
  processes took all its RAM gets its agent with "the next replication attempt" after they release it, and that the cracking
  agent still holds its session. It does, and for that very reason `handleNeighbour` returns at
  `dnet-agent.ts:163` before it comes to `replicate`: the server stays without an agent until the agent
  next door ends, the server restarts, or another neighbour without a session visits it. `SwarmHeals` is
  therefore stated for a server to which no agent holds a session; without that condition TLC finds this behaviour in `DarknetSwarm`.
* Without heartbleed AccountsManager is said to work (`docs/systems/darknet.md:125,171-173`),
  by counting up from 0 to a maximum of "about 140" (`docs/design/2026-09-19-darknet.md:198`);
  `tools/test-darknet.mjs:229` tests it with 150 attempts. The agent's cap is 120 and
  `agent-logic.ts:32-37` has no floor for this model, so a number of 119 or more that is not the midpoint of the range is
  given up at every tick. (The solver's comment, `solvers/accounts-manager.ts:14-15`, puts the maximum at about 110.)
  `CracksUnlessHindered` exempts these numbers without heartbleed; without the exemption TLC finds one of them given up in `Cracks`.
* `docs/systems/darknet.md:174-196` says that the cap of 120 attempts can be too low for `2G_cellular` and
  `RateMyPix.Auth` and that only `Factori-Os` is exempted. `agent-logic.ts:32-37` has floors for
  all of them and for `DeepGreen` (512, 220, 130, 220); `Cracks` finds them sufficient on the longest and latest passwords.
* `launcher.ts:8` says that the queue relaunches what it killed. `executeEntry` returns
  at `queue.ts:158`, before its relaunch loop, when the RAM is short after the pause.
* `docs/architecture.md:106-110` has daemons park unless they hold the focus. They also go on when the
  bare `sleeveHolder` names them, and then act on the player.
* `docs/systems/budget.md:48-49` says a frozen weight is 0 until unfrozen. An `update-weight` in
  between sets it, and the unfreeze then overwrites the update. pserv's `setBudgetWeight` of
  every cycle (`pserv.ts:201`) does the same to a weight the user has set or frozen.
* `docs/systems/budget.md` presents the allowance as what a bucket may spend; several
  purchases between two ticks each pass against the same allowance.
* `docs/systems/hack.md:40` has all threads of XP mode weaken; `runXpMode`
  (`hack.ts:1065-1140`) hacks only, and fills the free RAM of home, `homeReserve` included.
* `hack.ts:684` calls the reconstructed end of a batch conservative; a weaken time from now is too early for
  a pipelined batch whose operations were started with a delay.
* `contracts.ts:128-130`: a contract whose forced attempt failed is missing from the pending list for one publication.
* `gang.ts:872-879`: a gang daemon that is restarted after it has signalled done starts
  with `wasGangBudgetDone` false; equipment that can be bought later does not reactivate
  its bucket, although the comment above says so.

Two statements of this project about the focus file and the batch plan turned out
false or too weak while they were being proved, and the models were mended: that the last claim wins does not hold
once the control port overflows (`SendPast` now records it as a crossed request; the
port holds fifty values in the game), and `BatchIsPaid` now says what every purchase of a batch
needs, slots and cash, instead of looking at the last one.

### Bounds

* Queue: two worker kinds stand for the four of tier 1 (the walk tells them apart by
  RAM only), threads up to 2 so that sizes differ and tie, RAM 8 so that one, two or
  three kills are needed and sometimes nothing is enough. `QueueTiers` has one force
  entry: several kills, waits and relaunches of one entry do not depend on later ones,
  whose order `QueueOrder` explores with three entries of four kinds, a port of two
  that overflows, and one stop.
* Budget: buckets are one of each role the code distinguishes (holder, access bucket,
  plain spender); `BudgetAccounts` has two, a port of two that drops messages and five
  events: done, loss, restart, reactivate and a purchase. Cash values lie on both sides
  of the grant point and of the 90 percent drop. `MaxEvents` bounds the steps of the
  environment, never those of the daemon.
* Spenders: the dearest item costs half of `MaxCash`, which is the grant point of
  half the cash; two slots, two sizes, one step of the user.
* Focus: one sleeve already has a fallback, an own key, an unset key and a count of 0
  or 1; two events, so that any two requests meet in every order with everything else.
* Batches: two batches in flight, three hosts (the roomy one, one that is carved out
  for sharing, and home with its reserve), one fault. A batch takes 503 units of money and restores 500, with a
  tolerance of 2, so that what a pipeline fails to restore does stop the next batch. `MaxDeficit` and `MaxSecurity` cap
  the damage.
* Darknet: the darkweb server and one neighbour, two passwords of different
  fingerprints, of which one may leak, two events.
* Crack: all words over small alphabets, the longest and last over the real ones, so
  that the caps are reached; up to two lost lines.
* Contracts: all small problems of each type (standing at home), the empty and the one-element ones among
  them where the type has any, and two files on two hosts for the daemon, with one forced attempt and one restart.

### Fairness

* `QueueRunner`, `Budget`: weak fairness of the daemon's own steps. Its loop has no
  exit and each await (a sleep, a bounded wait) ends. Nothing is assumed of other
  scripts: `EntryDecided` and `RotationContinues` hold although a script may hang for
  ever. Stops are allowed and appear in the properties.
* `Spenders`: weak fairness of the tick, of pruning, of the loops of pserv, home and darkweb,
  and of some income. Nobody need start a daemon, and hacknet's loop need not go on.
* `Focus`: weak fairness of the daemon, strong fairness of the scripts and of each of
  the three cycles: they get their turn only while the daemon sleeps, which it does
  again and again. Strong fairness also of a wake that finds RAM for the check: an
  assumption about home, not something the code ensures. A cycle that fails to start
  its work is a stutter, so fairness of a cycle says that the game accepts the work at some time.
* `Batches`: weak fairness of time, of landings and of the daemon's timer. Nobody
  restarts the daemon.
* `Darknet`: weak fairness of the coordinator's tick and of each agent's step; seeding is
  not throttled in the run, since the throttle only delays it.
* `Crack`, `Contracts`: the agent's loop and the daemon's loop go on; nuke publishes once.

## 4. Proofs

Every theorem holds for all values of the constants that satisfy the named ASSUMEs of
the module: any number of buckets, servers, sleeves, processes and messages, any
prices, weights and port sizes. The assumptions are facts of the code or of the
game's data: amounts are naturals, percentages at most 100, kill tiers are disjoint, a cost list
is ascending, a port holds at least one value, contract files are finitely many. One is a fact about callers: no
holder bucket ever reports a next purchase (only pserv, home and programs call
`reportNext`); with it broken the goal could be a holder, whose allowance is not raised to the price.

| Theorem | States | Inductive invariant and why |
|---|---|---|
| `DrainQueueSorts` | a drain is a stable sort of the port | none |
| `QueueTypeCorrect` | `TypeOK`, with home never overcommitted | `QueueInv == Sound(procs) /\ ControlOK /\ HasFile /\ InOrder`; an exec is safe only if the script has a file, hence a size |
| `OvertakingIsByPriority` | `OvertakesOnlyLower` | `InOrder`: what was served, then the batch, then the port, is one sequence in which a later entry is younger or of lower priority |
| `QueueIsMailbox` | `ServesMailbox`: the refinement | `InOrder` again: without it the head of the batch could be passed over an older waiting letter |
| `KillsLowerTiersFirst`, `FreesEnoughIfPossible`, `KillsFewest` | the walk | no invariant but types; the walk is a prefix of an order, `Prefix`, `PrefixIsBest` |
| `KilledAreRelaunched` | `RelaunchedIfRoom` | a fold over the killed list, one relaunch at a time |
| `TypeCorrect`, `ReserveIsHidden`, `GoalIsSound`, `RushIsExclusive` | the published status | `BudgetInv == TypeOK /\ HoldersDoNotSave /\ StatusSafe` |
| `SavedWhenKilled` | `SavedAtAwait` | itself: all ways to the await pass the save |
| `AccountsAreExact` | `AccountsExact` | `AccountInv`: typed histories and, per bucket, account + port + lost = notified |
| `ResetsAreUnexplained` | `ResetsOnlyUnexplained` | `ResetInv`: cash fell since the last tick by no more than what is notified, in the port or summed up |
| `SignalsAlwaysAgree` | `SignalsAgree` | `SignalInv`: the last signal in the port of a bucket that the marker file does not name reactivates it; with no signal in the port such a bucket is active, unless its reactivation was lost |
| `NobodyOverspends` | `Solvent`: cash never negative, everything typed | itself |
| `TheftsAlwaysCovered` | `TheftsCovered`, whatever a hack takes and a grow thread restores | `BatchInv`: while nobody kills a worker, `Balanced`, `Covered` and `Bounded`, sums over the workers in flight for every target and every moment, and the number of batches in flight |
| `HostsAlwaysHaveRoom` | `HostsHaveRoom` | itself, with types: the workers placed so far and the free RAM of a fold's accumulator add up |
| `BatchesAreWhole` | `WholeBatches` | types and `HacksTagged`; a fold that leaves nothing to place has placed every thread |
| `BatchAlwaysPaid` | `BatchIsPaid` | `SpendersInv == Solvent /\ BatchIsPaid` |
| `FocusTypeCorrect` | `TypeOK` | itself |
| `RequestsLeaveSleeves` | `HolderLeavesSleeves` | none: a request finds what it needs in the file it reads in the same step |
| `LastClaimAlwaysWins` | `LastClaimWins` | `ClaimsInOrder`: the last request in the port, or the file if there is none, names who is wanted |
| `SleevesServeTheirKeys` | `SleevesServe` | `ScriptsFollowKeys`: the last script waiting for a sleeve starts it on its key's task |
| `DarknetTypeCorrect` | `TypeOK` | `DarkInv`, with the state of an agent at its awaits |
| `VaultAlwaysSaved` | `VaultSaved` | `Honest`: along a tick's fold over events, an entry that differs from the start is marked changed |
| `NewsAlwaysFresh` | `NewsFresh` | `Honest`: an entry put there or found in order fits the cell's fingerprint; the poll then aligns cell and server |
| `ScansNeverRepeat` | `ScanRepeatsNothing` | `ContractInv`: types and `Remembered`, what is not among the attempted keys was never answered; per cycle `ScannedTo` and `Covers` along the two loops |
| `ScansLeaveTries` | `LastTriesKept` | `ContractInv`: every file of a cycle goes from its start to its end by `Later`, which chains |
| `ListAlwaysCurrent` | `ListIsCurrent` | `ContractInv`, `Covers`: after the scans and after every forced attempt, what was found is answered or listed |

How they go:

* **Layout.** One lemma per action, one step per conjunct it disturbs, the initial
  state and the step combined by PTL in the theorem. Each invariant was first checked by TLC on the
  run that checks its property.
* **Sums, folds and recursion.** `FoldTheorems` replaces induction by a least
  counterexample: `LeastNat` (a nonempty set of naturals has a least element) gives `AllNat`, and from
  it `Recursion` (a recursive function over 0..n is what its equation says), `FoldExists`
  (what `FoldLeft` computes is the last of a sequence of accumulators) and the `Sum...`
  lemmas about `SumFunctionOnSet`. They carry RAM over processes, purchases over
  a port (`PurchasedTail`, `PurchasedAppend`), the walk, the relaunch loop, the programs darkweb buys in a row and
  the reports of a tick.
* **Budget.** `GrantCovered` speaks of the last status, whose goal was chosen from
  pending items of earlier ticks: `HoldersDoNotSave` carries the assumption on callers
  from the port through the daemon's memory to that choice. The arithmetic is in `ReserveBound`,
  `SpenderAllowanceBound`, `HolderAllowanceNat`, `GoalAllowanceNat`. The proof of `ResetsAreUnexplained`
  also shows that the test at start-up can never fire, which is what the run `BudgetStartup` exhibits.
* **Signals.** The hard case is a port that drops its oldest value: if that was the last
  signal of its bucket, either the marker file still names the bucket (done) or the bucket is `missed` (reactivate). What `start.js` writes
  into the file has no signal, so the invariant says nothing of buckets that are named there: the tick clears their flags.
* **Spenders.** `floor(budget / cost)` servers cost at most the budget and the budget is at most
  the cash; between purchases of a batch any other spender sets `taken`.
* **Batches.** The four operations of a batch land at t, t + 1, t + 2 and t + 3, whatever the three
  times of the target are (`LandingOrder`, from `TimesAssumption`: a weaken takes longest). So up to any moment no
  more is taken of a target than the grows that follow restore, as far as a batch's grow restores what its hack takes
  (`Lead`, with `Kept` of a batch's `Taken`), and no more security is added than the weakens take (`Raise`); `Balanced` says
  that both sums are never positive. The rest, `Leak` for each batch, does not add up over more batches than a pipeline holds, because
  only a target that lacks no more than the tolerance gets new ones: `Bounded` says how many may be in flight, and
  `HackCountBound` sums their hacks by tag, so that all they may leave open is `Residue`. It survives a landing because what lands is due now, a step of time
  because it is said for every moment, and a cycle because a batch is added whole and prep work has no hack. `Covered` combines
  it with what the target already lacks: deficit and excess security less what is pending (`Owed`, `Excess`); what is still open of the money raises no security, since a grow
  raises it only for what it restores.
  The thread counts of the two weakens enter through `CeilDiv` alone. A killed worker breaks all of it, so the
  invariant is about runs without one, as the property is; stops of the daemon are allowed.
* **Placement.** Sums over workers are rearranged by host, type and tag (`SumPart`, `SumCover`, `SumImage`). That a slot is
  used only while it has room for a thread gives `HostsHaveRoom`; that tags are unused gives `BatchesAreWhole`: the
  workers of a tag are then exactly those of one batch.
* **Queue.** `KillsFewest`: a set that respects the tiers and is smaller than the walk's
  prefix frees no more than the prefix of its size, which by minimality of the walk is not enough.
* **Contracts.** A cycle is two loops over one store. `Later` says what any number of submissions may have
  done to a file; it is reflexive and chains, so that one scan (`ScanOK`) and one forced attempt (`ForcedOK`) suffice.
  `ScannedTo` holds after each scan because the files found are distinct (`SetAsSequence`): what is listed is not touched
  again. `Covers` survives the forced attempts, which may hit a file twice, because a submitted file leaves the list.

Only model-checked, and why:

* Liveness, which is out of the prover's reach: `EntryDecided`, `RotationContinues`,
  `FinishedReleased`, `EverythingBought`, `FlagChecked`, `HandoverCompletes`,
  `MoneyFlows`, `SwarmHeals`, `CrackEnds`, `SolvableSolved`.
* `AnswersRight`, `KnowledgeSound`, `CracksUnlessHindered`: `ContractSolvers`, `ContractRules` and `Crack` use recursive operators or bit
  operations, of which the provers know nothing.

## 5. How the parts meet

`Ports` is shared by queue and focus, `BudgetRules` by the budget daemon and its
spenders. The budget's environment is an abstraction of `Spenders`: any purchase
against the last status, reported or not. The spenders' tick is `Budget`'s
`PublishTick` without holders, rush and freezes. `Crack` is one crack of an agent of `Darknet`, whose
outcome is a free choice there. `Contracts` receives forced attempts from the dashboard and
from the darknet coordinator. All scripts appear to the queue as processes that start, end and multiply.

## 6. Not modelled

The map covers about a tenth of the repository's lines; much of the rest is outside the running system or
has no state to get wrong:

* Display code (the dashboard's views and its state store, the formatting of every
  status), type declarations, one-shot tools and actions, simulators, tests and build scripts.
* Game I/O without shared state: infiltration and casino drive the DOM; the advisor ranks
  advice; rankings of crimes, factions, upgrades and targets by game formulas.
* Inside the modelled parts: wording, logs, the payback horizon, the dry run of the kill
  walk, a malformed port value (ends a drain early; no writer sends one), the queue's RAM lookup
  failing for a script whose file changes.
* Not promised by the code, so stated as hazards without a property: a force entry that gives up after
  its kills; the bare `sleeveHolder`; a `maxRam` of pserv that is no power of two times the
  smallest size, for which no upgrade is ever found though its cost is reported.
* Daemons with a state machine that would repay a model, not done yet: faction, augments, share, gang, corp,
  stocks, nuke.

## 7. Plan

Done: the queue with its refinement; budget, spenders; focus; batches;
darknet and crack; contracts; proofs of the safety properties of queue, budget, spenders, focus, batches, darknet and contracts.

Next, in this order:

1. **Gang and corp**: spending against the budget beside `Spenders`, task assignment.
2. **Faction, augments, stocks**: their phases and the order of purchases.
