------------------------------- MODULE Batches -------------------------------
(***************************************************************************)
(* Batch mode of the hack daemon (daemons/hack.ts, controllers/hack.ts,    *)
(* lib/batch.ts).  Every second or so the daemon plans, for each target,   *)
(* either work that brings it to full money and low security (prep) or     *)
(* batches of four operations (hack, weaken, grow, weaken) timed to land   *)
(* in this order, packs the worker processes onto the servers, and judges  *)
(* the batches whose time has come by the state of the target.             *)
(*                                                                         *)
(* A unit of time is BATCH_SPACER, 200 ms; times are what is left of them. *)
(* A target's missing money is counted on the scale of its logarithm: a    *)
(* hack takes a share and a grow thread multiplies, so that both add up    *)
(* there.  What a hack takes and what a grow thread restores are constants *)
(* of their own, for a batch need not restore what it takes: without       *)
(* Formulas.exe calculateBatchThreads rounds the hack threads up but sizes *)
(* the grow for the share before rounding.  Left out is what changes these *)
(* figures between the plan and the landing (the player's skill).  A unit  *)
(* of security is 0.002 and a unit of RAM 10 MB.                           *)
(***************************************************************************)
EXTENDS Integers, Sequences, FiniteSets, SequencesExt, FiniteSetsExt, Functions

CONSTANTS
    Targets,          \* the targets, best score first
    Batch,            \* tags of batches, reused once nothing carries them
    Servers, Home,    \* hosts of workers, in the order of the scan
    MaxRam,           \* [Server -> Nat]
    HomeReserve,      \* RAM of home that workers must leave
    SharePercent,     \* share of the fleet the share daemon asks for
    HackTime, GrowTime, WeakenTime,
    HackThreads, GrowThreads,     \* of one batch
    Stolen,           \* [threads of a hack worker -> units of money it takes]
    GrowPower,        \* units of money a grow thread restores
    MaxBatches,       \* batches per target
    MoneyTolerance,   \* units within which money counts as full, 99.9 percent
    MoneyMargin,      \* units from 95 percent to full money
    MaxDeficit, MaxSecurity,
    StartDeficits, StartSecurities,
    MaxFaults         \* bound: workers killed by others and stops of the daemon

Target == ToSet(Targets)
Server == ToSet(Servers)

ASSUME TargetsAssumption ==
    /\ Targets \in Seq(Target)
    /\ \A i, j \in DOMAIN Targets : Targets[i] = Targets[j] => i = j
ASSUME BatchAssumption == IsFiniteSet(Batch) /\ "prep" \notin Batch /\ "prep-cw" \notin Batch
ASSUME TimesAssumption ==
    /\ HackTime \in Nat /\ GrowTime \in Nat /\ WeakenTime \in Nat
    /\ HackTime < WeakenTime /\ GrowTime < WeakenTime
ASSUME ServersAssumption ==
    /\ Servers \in Seq(Server)
    /\ Home \in Server /\ MaxRam \in [Server -> Nat] /\ HomeReserve \in Nat
ASSUME ThreadsAssumption == HackThreads \in Nat \ {0} /\ GrowThreads \in Nat \ {0}
\* Part of a batch's hack takes no more than its part of what the whole takes: each
\* further thread takes the same share of what is left, more on the logarithm's scale.
ASSUME MoneyAssumption ==
    /\ GrowPower \in Nat \ {0} /\ MoneyTolerance \in Nat
    /\ Stolen \in [0 .. HackThreads -> Nat]
    /\ \A k \in 0 .. HackThreads : HackThreads * Stolen[k] <= k * Stolen[HackThreads]
ASSUME LimitsAssumption ==
    /\ MaxBatches \in Nat /\ MaxDeficit \in Nat /\ MaxSecurity \in Nat
    /\ StartDeficits \subseteq Nat /\ StartSecurities \subseteq Nat

VARIABLES
    up,         \* does the daemon run?
    sleep,      \* what is left of its sleep, negative when it wakes late
    phase,      \* phase of each target in the daemon's memory
    due,        \* activeBatchMap: batch -> [target, left] until its expected end
    workers,    \* the worker processes: what they do, where, and when it lands
    deficit,    \* units of money that the target lacks
    security,   \* security above the minimum
    killed,     \* workers killed by others so far
    stopped     \* stops of the daemon so far

vars == <<up, sleep, phase, due, workers, deficit, security, killed, stopped>>
faults == <<killed, stopped>>

------------------------------------------------------------------------------
(* Figures of the library. *)

BatchWindow == 4
TickTime == 6                  \* 1000 ms and the default interval of 200 ms
Grace == 3                     \* 500 ms, up to the next unit
Lateness == 1                  \* bound: a sleep ends at most so much late
WeakenPower == 25              \* 0.05 per thread
HackSecurity == 1              \* 0.002 per thread
GrowSecurity == 2              \* 0.004 per thread
PrepTolerance == 250           \* 0.5

Duration == [hack |-> HackTime, grow |-> GrowTime, weaken |-> WeakenTime]
RamCost == [hack |-> 170, grow |-> 175, weaken |-> 175]

CeilDiv(a, b) == (a + b - 1) \div b
AtLeast(low, n) == IF n < low THEN low ELSE n
AtMost(high, n) == IF n > high THEN high ELSE n

IsTargetPrepped(t) == deficit[t] <= MoneyTolerance /\ security[t] <= PrepTolerance
DetectDesync(t) == security[t] > 2 * PrepTolerance \/ deficit[t] > MoneyMargin

CompensatingThreads(threads, perThread) ==
    AtLeast(1, CeilDiv(threads * perThread, WeakenPower))

\* An operation the daemon wants to run, before it is placed on servers.
Operation(type, target, threads, delay, tag) ==
    [type |-> type, target |-> target, threads |-> threads, delay |-> delay,
     tag |-> tag]

\* Faulty variant: the grow lands beside the hack.
CalculateBatchDelays_GrowEarly(index) ==
    LET offset == index * BatchWindow
    IN  [hack    |-> AtLeast(0, WeakenTime - HackTime - 1 + offset),
         weaken1 |-> offset,
         grow    |-> AtLeast(0, WeakenTime - GrowTime - 1 + offset),
         weaken2 |-> 2 + offset]

CalculateBatchDelays(index) ==
    LET offset == index * BatchWindow
    IN  [hack    |-> AtLeast(0, WeakenTime - HackTime - 1 + offset),
         weaken1 |-> offset,
         grow    |-> AtLeast(0, WeakenTime - GrowTime + 1 + offset),
         weaken2 |-> 2 + offset]

\* The operations of a planned batch, the index-th of its target's pipeline.
BatchOps(batch) ==
    LET delays == CalculateBatchDelays(batch.index)
        w1 == CompensatingThreads(HackThreads, HackSecurity)
        w2 == CompensatingThreads(GrowThreads, GrowSecurity)
        Op(type, threads, delay) == Operation(type, batch.target, threads, delay, batch.tag)
    IN  <<Op("hack", HackThreads, delays.hack), Op("weaken", w1, delays.weaken1),
          Op("grow", GrowThreads, delays.grow), Op("weaken", w2, delays.weaken2)>>
ExpectedEnd(batch) == WeakenTime + CalculateBatchDelays(batch.index).weaken2

\* Weaken what is above the tolerance, grow what is missing, weaken what that adds.
\* No worker is started for an operation of no threads.
PrepOps(t) ==
    LET weaken == IF security[t] > PrepTolerance
                  THEN CeilDiv(security[t], WeakenPower) ELSE 0
        grow == IF deficit[t] > MoneyTolerance THEN CeilDiv(deficit[t], GrowPower) ELSE 0
        compensation == CeilDiv(grow * GrowSecurity, WeakenPower)
    IN  <<Operation("weaken", t, weaken, 0, "prep"),
          Operation("grow", t, grow, 0, "prep"),
          Operation("weaken", t, compensation, 0, "prep-cw")>>

------------------------------------------------------------------------------
(* Servers. *)

UsedRam(ws, s) ==
    SumFunctionOnSet([w \in ws |-> RamCost[w.type] * w.threads], {w \in ws : w.server = s})
Reserved(s) == IF s = Home THEN HomeReserve ELSE 0

\* What getUsableServers reports: free RAM of a host, less the reserve of home.
AvailableRam(s) == MaxRam[s] - UsedRam(workers, s) - Reserved(s)
UsableServers == {s \in Server : AvailableRam(s) > 0}

Scanned(s) == CHOOSE i \in DOMAIN Servers : Servers[i] = s

\* The order in which getUsableServers lists the hosts.
First(a, b) == \/ AvailableRam(a) > AvailableRam(b)
               \/ AvailableRam(a) = AvailableRam(b) /\ Scanned(a) < Scanned(b)

\* The smallest hosts are left to the share daemon until it has its percentage.
ShareServers ==
    LET Before(s) == {h \in UsableServers \ {Home} :
                        \/ MaxRam[h] < MaxRam[s]
                        \/ MaxRam[h] = MaxRam[s] /\ First(h, s)}
        Total(hosts) == SumFunctionOnSet(MaxRam, hosts)
    IN  {s \in UsableServers \ {Home} :
            Total(Before(s)) * 100 < Total(UsableServers) * SharePercent}

\* The hosts that hacking may use, the one with most free RAM first.
SlotOrders ==
    {slots \in SetToSeqs(UsableServers \ ShareServers) :
        \A i, j \in DOMAIN slots : i < j => First(slots[i], slots[j])}

\* What an operation's threads on a host become.
Worker(op, s, threads) ==
    [type |-> op.type, target |-> op.target, tag |-> op.tag, server |-> s,
     threads |-> threads, left |-> op.delay + Duration[op.type]]

\* An allocation: the free RAM of each slot, the workers placed so far, and the threads
\* of the operation at hand that are left to place.  A slot takes what fits on it.
\* Faulty variant: what was placed is not taken off the free RAM.
Take_Stale(alloc, op, s) ==
    LET given == AtMost(alloc.left, alloc.free[s] \div RamCost[op.type])
    IN  IF given = 0 THEN alloc
        ELSE [free |-> alloc.free, placed |-> alloc.placed \cup {Worker(op, s, given)},
              left |-> alloc.left - given]

Take(alloc, op, s) ==
    LET given == AtMost(alloc.left, alloc.free[s] \div RamCost[op.type])
    IN  IF given = 0 THEN alloc
        ELSE [free |-> [alloc.free EXCEPT ![s] = @ - given * RamCost[op.type]],
              placed |-> alloc.placed \cup {Worker(op, s, given)},
              left |-> alloc.left - given]

\* Place so many threads of an operation on the slots in turn.
Place(slots, alloc, op, threads) ==
    LET after[i \in 0 .. Len(slots)] ==
            IF i = 0 THEN [free |-> alloc.free, placed |-> alloc.placed, left |-> threads]
            ELSE Take(after[i - 1], op, slots[i])
    IN  after[Len(slots)]

\* Prep operations get what fits into their share of the fleet, in their order.
AllocatePrep(slots, alloc, ops, share) ==
    LET smallest == Min({RamCost[type] : type \in DOMAIN RamCost})
        Allocate(was, op) ==
            LET most == AtMost(was.budget \div RamCost[op.type], op.threads)
                now == Place(slots, was.alloc, op, most)
            IN  IF was.budget < smallest THEN was
                ELSE [alloc |-> now,
                      budget |-> was.budget - (most - now.left) * RamCost[op.type]]
        after[k \in 0 .. Len(ops)] ==
            IF k = 0 THEN [alloc |-> alloc, budget |-> share]
            ELSE Allocate(after[k - 1], ops[k])
    IN  after[Len(ops)].alloc

\* Place all threads of each operation, up to the first that does not fit.
PlaceAll(slots, alloc, ops) ==
    LET PlaceNext(was, op) ==
            IF was.left > 0 THEN was ELSE Place(slots, was, op, op.threads)
        after[k \in 0 .. Len(ops)] ==
            IF k = 0 THEN [free |-> alloc.free, placed |-> alloc.placed, left |-> 0]
            ELSE PlaceNext(after[k - 1], ops[k])
    IN  after[Len(ops)]

\* Faulty variant: the operations that did fit stay when another does not.
AllocateBatch_NoRollback(slots, alloc, batch) == PlaceAll(slots, alloc, BatchOps(batch))

\* A batch is placed as a whole or not at all.
AllocateBatch(slots, alloc, batch) ==
    LET all == PlaceAll(slots, alloc, BatchOps(batch))
    IN  IF all.left = 0 THEN all ELSE alloc

\* Half of the fleet is for prep work if batches wait, else all of it.
AllocateServersToBatchOps(slots, plan) ==
    LET free == [s \in Server |-> IF s \in ToSet(slots) THEN AvailableRam(s) ELSE 0]
        total == SumFunctionOnSet(free, Server)
        share == IF plan.batches = <<>> THEN total ELSE total \div 2
        after[k \in 0 .. Len(plan.batches)] ==
            IF k = 0
            THEN AllocatePrep(slots, [free |-> free, placed |-> {}, left |-> 0], plan.prep, share)
            ELSE AllocateBatch(slots, after[k - 1], plan.batches[k])
    IN  after[Len(plan.batches)].placed

\* exec refuses a worker that its host has no RAM for.  HostsHaveRoom says that it
\* never has to.
ExecuteBatchOps(running, placed) == running \cup placed

------------------------------------------------------------------------------
(* A cycle of the daemon.  RAM is read at its top, everything else as it goes. *)
(* It awaits deployWorkers before it plans: the copies it makes are answered   *)
(* at once, so that no other script runs and no time passes in between.        *)

WorkersOf(ws, t) == {w \in ws : w.target = t}
Prepping(ws, t) == \E w \in WorkersOf(ws, t) : w.tag \in {"prep", "prep-cw"}
RunningBatches(ws, t) == {w.tag : w \in WorkersOf(ws, t)} \cap Batch
Expired(map) == {b \in DOMAIN map : map[b].left <= -Grace}

\* A batch whose time has come was a success, unless its target looks desynced.
Judge(phases, map) ==
    [t \in Target |->
        IF phases[t] = "batch" /\ DetectDesync(t) /\ \E b \in Expired(map) : map[b].target = t
        THEN "desync-recovery" ELSE phases[t]]

\* Faulty variant: the target of a desync is never prepped again.
Recover_Stays(judged) == judged

\* The workers of a desynced target are killed and it is prepped again.
Recover(judged) ==
    [t \in Target |-> IF judged[t] = "desync-recovery" THEN "prep" ELSE judged[t]]

Recovering(judged) == {t \in Target : judged[t] = "desync-recovery"}
Survivors(judged) == {w \in workers : w.target \notin Recovering(judged)}
StillDue(judged, map) ==
    LET kept == {b \in DOMAIN map \ Expired(map) : map[b].target \notin Recovering(judged)}
    IN  [b \in kept |-> map[b]]

\* A prepped target without prep workers takes batches.
Advance(phases, ws) ==
    [t \in Target |-> IF phases[t] = "prep" /\ IsTargetPrepped(t) /\ ~Prepping(ws, t)
                      THEN "batch" ELSE phases[t]]

BatchCap == AtMost(MaxBatches, AtLeast(1, WeakenTime \div BatchWindow))

\* For each target prep work, or as many batches as its pipeline has room for, with
\* tags of their own.
PrepOf(phases, ws, t) ==
    IF /\ phases[t] # "desync-recovery" /\ (phases[t] = "prep" \/ ~IsTargetPrepped(t))
       /\ ~Prepping(ws, t)
    THEN PrepOps(t) ELSE <<>>

BatchesOf(phases, ws, t) ==
    LET active == Cardinality(RunningBatches(ws, t))
    IN  IF phases[t] = "batch" /\ IsTargetPrepped(t)
        THEN [k \in 1 .. AtLeast(0, BatchCap - active) |->
                 [target |-> t, index |-> active + k - 1]]
        ELSE <<>>

PlanBatchCycle(phases, ws, fresh) ==
    LET batches == FlattenSeq([i \in DOMAIN Targets |-> BatchesOf(phases, ws, Targets[i])])
    IN  [prep |-> FlattenSeq([i \in DOMAIN Targets |-> PrepOf(phases, ws, Targets[i])]),
         batches |-> [i \in DOMAIN batches |->
                         [target |-> batches[i].target, index |-> batches[i].index,
                          tag |-> fresh[i]]]]

\* Batches of which any operation was placed are due when they should have landed.
Track(map, plan, placed) ==
    LET launched == {b \in ToSet(plan.batches) : \E w \in placed : w.tag = b.tag}
    IN  [tag \in {b.tag : b \in launched} |->
            LET b == CHOOSE b \in launched : b.tag = tag
            IN  [target |-> b.target, left |-> ExpectedEnd(b)]] @@ map

\* One cycle, from what the daemon remembers of phases and batches.  Bound: it finds
\* enough tags that nothing carries.
Cycle(phases, map) ==
    LET judged == Judge(phases, map)
        survivors == Survivors(judged)
        kept == StillDue(judged, map)
        advanced == Advance(Recover(judged), survivors)
        unused == Batch \ (DOMAIN kept \cup {w.tag : w \in survivors})
        plan == PlanBatchCycle(advanced, survivors, SetToSeq(unused))
    IN  /\ Len(plan.batches) <= Cardinality(unused)
        /\ phase' = advanced
        /\ \E slots \in SlotOrders :
             LET placed == AllocateServersToBatchOps(slots, plan)
             IN  /\ workers' = ExecuteBatchOps(survivors, placed)
                 /\ due' = Track(kept, plan, placed)
        /\ up' = TRUE
        /\ sleep' = TickTime
        /\ UNCHANGED <<deficit, security>>

Wake == up /\ sleep <= 0 /\ Cycle(phase, due) /\ UNCHANGED faults

\* What a new daemon takes over: the batches it finds running are expected to end
\* a weaken time from now.
ReconstructBatchState ==
    LET running == UNION {RunningBatches(workers, t) : t \in Target}
    IN  [b \in running |-> [target |-> (CHOOSE w \in workers : w.tag = b).target,
                            left |-> WeakenTime]]

Start ==
    /\ ~up
    /\ Cycle([t \in Target |-> IF IsTargetPrepped(t) THEN "batch" ELSE "prep"],
             ReconstructBatchState)
    /\ UNCHANGED faults

------------------------------------------------------------------------------
(* The game and everybody else. *)

Theft(w) == Stolen[w.threads]

\* A worker's operation takes effect and the worker ends.  A hack may fail.  A grow
\* raises the security for the threads that find a thread's worth of money to restore.
Land(w) ==
    /\ w.left = 0
    /\ workers' = workers \ {w}
    /\ LET t == w.target
       IN  \/ /\ w.type = "hack"
              /\ deficit' = [deficit EXCEPT ![t] = AtMost(MaxDeficit, @ + Theft(w))]
              /\ security' = [security EXCEPT ![t] =
                                AtMost(MaxSecurity, @ + HackSecurity * w.threads)]
           \/ w.type = "hack" /\ UNCHANGED <<deficit, security>>
           \/ /\ w.type = "grow"
              /\ LET grown == AtMost(deficit[t], GrowPower * w.threads)
                 IN  /\ deficit' = [deficit EXCEPT ![t] = @ - grown]
                     /\ security' = [security EXCEPT ![t] =
                            AtMost(MaxSecurity, @ + GrowSecurity * (grown \div GrowPower))]
           \/ /\ w.type = "weaken"
              /\ security' = [security EXCEPT ![t] = AtLeast(0, @ - WeakenPower * w.threads)]
              /\ UNCHANGED deficit
    /\ UNCHANGED <<up, sleep, phase, due, killed, stopped>>

\* A unit of time passes; nothing that is due now is left undone.
Elapse ==
    /\ \A w \in workers : w.left > 0
    /\ up => sleep > -Lateness
    /\ up \/ workers # {}
    /\ workers' = {[w EXCEPT !.left = @ - 1] : w \in workers}
    /\ sleep' = IF up THEN sleep - 1 ELSE sleep
    /\ due' = [b \in DOMAIN due |-> [due[b] EXCEPT !.left = @ - 1]]
    /\ UNCHANGED <<up, phase, deficit, security, killed, stopped>>

\* The queue daemon, another launcher or the player kills a worker.
KillWorker(w) ==
    /\ killed + stopped < MaxFaults
    /\ killed' = killed + 1
    /\ workers' = workers \ {w}
    /\ UNCHANGED <<up, sleep, phase, due, deficit, security, stopped>>

\* The daemon is stopped; its memory is gone, its workers go on.
Stop ==
    /\ up /\ killed + stopped < MaxFaults
    /\ stopped' = stopped + 1
    /\ up' = FALSE
    /\ sleep' = 0
    /\ phase' = [t \in Target |-> "prep"]
    /\ due' = <<>>
    /\ UNCHANGED <<workers, deficit, security, killed>>

Init ==
    /\ up = FALSE
    /\ sleep = 0
    /\ phase = [t \in Target |-> "prep"]
    /\ due = <<>>
    /\ workers = {}
    /\ deficit \in [Target -> StartDeficits]
    /\ security \in [Target -> StartSecurities]
    /\ killed = 0
    /\ stopped = 0

Next ==
    \/ Wake \/ Start \/ Stop \/ Elapse
    \/ \E w \in workers : Land(w) \/ KillWorker(w)

\* The daemon's timer fires: of all steps this is true of Wake only.
TimerFires == up /\ sleep <= 0 /\ sleep' = TickTime

\* Time passes, operations land, the daemon's sleep ends.  Nobody has to start the
\* daemon again.
Fairness ==
    WF_vars(Elapse) /\ WF_vars(\E w \in workers : Land(w)) /\ WF_sleep(TimerFires)

Spec == Init /\ [][Next]_vars /\ Fairness

------------------------------------------------------------------------------
(* Properties. *)

ThreadsOf(ws) == SumFunctionOnSet([w \in ws |-> w.threads], ws)
Pending(t, type) == ThreadsOf({w \in WorkersOf(workers, t) : w.type = type})

\* What a batch takes more than its grow restores, and what a target may lack besides
\* for a pipeline of such batches.
Leak == AtLeast(0, Stolen[HackThreads] - GrowPower * GrowThreads)
Residue == MoneyTolerance + BatchCap * Leak

\* What the four operations of a batch are for: as long as nobody kills a worker, what
\* batches have taken or raised at any moment is restored by workers still to land,
\* whatever the other batches and prep workers of the target do meanwhile, and across
\* restarts of the daemon.  What batches fail to restore never adds up over more of
\* them than a pipeline holds: a target that lacks more than the tolerance gets no new
\* batch until prep work has made it up.
TheftsCovered ==
    \A t \in Target :
        phase[t] = "batch" /\ killed = 0
          => /\ deficit[t] <= Residue + GrowPower * Pending(t, "grow")
             /\ GrowPower * security[t]
                  <= GrowPower * (PrepTolerance + WeakenPower * Pending(t, "weaken"))
                     + GrowSecurity * Residue

\* The workers of a cycle fit the hosts beside those that run, for all that prep work,
\* earlier batches and batches taken back did to the free RAM in between: no host is
\* overcommitted, the reserve of home stays free, and exec refuses no worker.
HostsHaveRoom ==
    \A s \in Server : UsedRam(workers, s) <= AtLeast(0, MaxRam[s] - Reserved(s))

\* A batch is started with all threads of its four operations or not at all, however the
\* free RAM is spread over the hosts and whatever prep work goes before it.
WholeBatches ==
    [][\A t \in Target : \A b \in RunningBatches(workers', t) :
          b \notin RunningBatches(workers, t)
            => LET Threads(type) == ThreadsOf({w \in workers' : w.tag = b /\ w.type = type})
               IN  /\ Threads("hack") = HackThreads
                   /\ Threads("grow") = GrowThreads
                   /\ Threads("weaken") = CompensatingThreads(HackThreads, HackSecurity)
                                        + CompensatingThreads(GrowThreads, GrowSecurity)]_vars

\* A daemon that stays up goes on stealing money: whatever state its targets are in, and
\* after every desync and every worker that was killed, another hack lands.
MoneyFlows == <>[]up => []<>(\E w \in workers : w.type = "hack" /\ w.left = 0)

\* "Money significantly below max with no operations expected = desync"
\* (src/src/lib/batch.ts:350): money that is only out until a grow on its way
\* lands is no desync.
DesyncOnlyUnexpected ==
    [][\A t \in Target :
          Wake /\ phase[t] = "batch" /\ phase'[t] = "prep"
            => \/ security[t] > 2 * PrepTolerance
               \/ deficit[t] > Residue + GrowPower * Pending(t, "grow")]_vars
==============================================================================
