------------------------------ MODULE HomeRam ------------------------------
(***************************************************************************)
(* The RAM of the home server and the kill tiers that free it:             *)
(* src/src/lib/ram-utils.ts and src/src/lib/launcher.ts.  A process is     *)
(* known by its script and arguments together (what ns.isRunning(script,   *)
(* host, ...args) tells apart), one member of Process; procs[p] is the     *)
(* number of threads p runs with, 0 when it does not run.                  *)
(***************************************************************************)
EXTENDS Integers, SequencesExt, FiniteSetsExt, Functions

CONSTANTS
    Process,       \* scripts with their arguments
    ScriptRam,     \* ns.getScriptRam: RAM per thread, 0 if the file is missing
    KillTiers,     \* KILL_TIERS: a sequence of sets of processes
    MaxRam         \* ns.getServerMaxRam("home")

ASSUME ProcessAssumption   == IsFiniteSet(Process)
ASSUME ScriptRamAssumption == ScriptRam \in [Process -> Nat]
ASSUME MaxRamAssumption    == MaxRam \in Nat
\* No script is listed in two tiers.
ASSUME KillTiersAssumption ==
    /\ KillTiers \in Seq(SUBSET Process)
    /\ \A i, j \in DOMAIN KillTiers : i # j => KillTiers[i] \cap KillTiers[j] = {}

Ram(procs)     == [p \in Process |-> ScriptRam[p] * procs[p]]
UsedRam(procs) == SumFunctionOnSet(Ram(procs), Process)
\* What is left of maxRam; negative never, the game refuses such an exec.
AvailableRam(procs) == MaxRam - UsedRam(procs)

Running(procs)      == {p \in Process : procs[p] > 0}
InTier(p, i)        == p \in KillTiers[i]
Exec(procs, p, threads) == [procs EXCEPT ![p] = threads]

---------------------------------------------------------------------------
(* walkKillTiers *)

Killable(procs, tiers) == {p \in Running(procs) : \E i \in tiers : InTier(p, i)}
TierOf(p, tiers) == Min({i \in tiers : InTier(p, i)})

\* Faulty variant: every killable process in one list, sorted by RAM.
Before_OneTier(procs, tiers, p, q) == Ram(procs)[p] >= Ram(procs)[q]

\* Faulty variant: within a tier, smallest first.
Before_SmallestFirst(procs, tiers, p, q) ==
    \/ TierOf(p, tiers) < TierOf(q, tiers)
    \/ TierOf(p, tiers) = TierOf(q, tiers) /\ Ram(procs)[p] <= Ram(procs)[q]

\* Tier by tier and, within a tier, by RAM, largest first.
Before(procs, tiers, p, q) ==
    \/ TierOf(p, tiers) < TierOf(q, tiers)
    \/ TierOf(p, tiers) = TierOf(q, tiers) /\ Ram(procs)[p] >= Ram(procs)[q]

\* The processes of the given tiers, in an order the walk may visit them.
\* Equal RAM leaves the order of ns.ps, which is arbitrary here.
KillOrders(procs, tiers) ==
    {order \in SetToSeqs(Killable(procs, tiers)) :
        \A i, j \in DOMAIN order : i < j => Before(procs, tiers, order[i], order[j])}

RamOf(procs, victims) == SumFunctionOnSet(Ram(procs), ToSet(victims))

\* The lengths of the prefixes of order that bring the available RAM to target.
Enough(procs, target, order) ==
    {k \in 0..Len(order) :
        AvailableRam(procs) + RamOf(procs, SubSeq(order, 1, k)) >= target}

\* Faulty variant: the walk stops one victim short.
VictimsAlong_OneShort(procs, target, order) ==
    LET enough == {k \in 0..(Len(order) - 1) : k + 1 \in Enough(procs, target, order)}
    IN  SubSeq(order, 1, IF enough = {} THEN Len(order) ELSE Min(enough))

\* The victims a walk along order takes: the shortest prefix that brings the
\* available RAM to target, everything when nothing less does.
VictimsAlong(procs, target, order) ==
    LET enough == Enough(procs, target, order)
    IN  SubSeq(order, 1, IF enough = {} THEN Len(order) ELSE Min(enough))

\* The results walkKillTiers can have, as the sequences of killed processes.
WalkKillTiers(procs, target, tiers) ==
    {VictimsAlong(procs, target, order) : order \in KillOrders(procs, tiers)}

\* ns.kill takes a process off home, and its RAM with it, at once.
Kill(procs, victims) ==
    [p \in Process |-> IF p \in ToSet(victims) THEN 0 ELSE procs[p]]

AllTiers == DOMAIN KillTiers

\* calcAvailableAfterKills: what there would be with every killable process dead.
CalcAvailableAfterKills(procs, tiers) ==
    AvailableRam(procs) + SumFunctionOnSet(Ram(procs), Killable(procs, tiers))

\* ensureRamAndExec: the process tables it can leave behind.  The victims stay
\* dead even when they are not enough and nothing is launched.
EnsureRamAndExec(procs, p) ==
    IF ScriptRam[p] = 0 THEN {procs}
    ELSE {LET freed == Kill(procs, victims)
          IN  IF AvailableRam(freed) >= ScriptRam[p] THEN Exec(freed, p, 1) ELSE freed :
             victims \in WalkKillTiers(procs, ScriptRam[p], AllTiers)}
============================================================================
