--------------------------- MODULE MCQueueRunner ---------------------------
(* Small instances of QueueRunner for TLC. *)
EXTENDS QueueRunner, TLC

CONSTANTS shareWorker, hackWorker, shareDaemon, dashboard, hackDaemon,
          checkWork, checkFactions, install, buy, gone

\* Kill tiers: the real ones, two workers standing for the four of tier 1.
mcTiers == << {shareWorker, hackWorker}, {shareDaemon}, {dashboard} >>
mcChecks == <<checkWork, checkFactions>>
mcRam == (shareWorker :> 1) @@ (hackWorker :> 1) @@ (shareDaemon :> 2) @@
         (dashboard :> 2) @@ (hackDaemon :> 2) @@ (checkWork :> 1) @@
         (checkFactions :> 2) @@ (install :> 5) @@ (buy :> 3) @@ (gone :> 0)

TierProcesses == {shareWorker, hackWorker, shareDaemon, dashboard,
                  checkWork, checkFactions, install}
FewProcesses == {shareWorker, dashboard, hackDaemon, checkWork, checkFactions, install, buy, gone}
mcRamOf(S) == [p \in S |-> mcRam[p]]
ramTiers == mcRamOf(TierProcesses)
ramFew == mcRamOf(FewProcesses)
OrderProcesses == {dashboard, hackDaemon, checkWork, install, buy, gone}
ramOrder == mcRamOf(OrderProcesses)
orderActions == {checkWork, install, buy, gone}
orderChecks == <<checkWork>>
fewTiers == << {shareWorker}, {}, {dashboard} >>
liveTiers == << {}, {}, {dashboard} >>
fewActions == {checkWork, checkFactions, install, buy, gone}
tierActions == {checkWork, checkFactions, install}

Ask(a, p, m) == [action |-> a, priority |-> p, mode |-> m]
forceInstall == {Ask(install, 10, "force")}
mixed == {Ask(install, 10, "force"), Ask(buy, 8, "queue"),
          Ask(buy, 3, "force"), Ask(gone, 8, "queue")}
============================================================================
