---------------------------- MODULE QueueRunner ----------------------------
(***************************************************************************)
(* The queue daemon, src/src/daemons/queue.ts, with the port it drains,    *)
(* the process table it shares with every other script on home, and the    *)
(* scripts that enqueue, launch and exit beside it.                        *)
(*                                                                         *)
(* A step of the daemon runs from one await to the next.  Entries of a     *)
(* batch that are decided without an await (skipped, missing, already      *)
(* running) take one step each, so that the model admits a few more        *)
(* interleavings than the program.                                         *)
(***************************************************************************)
EXTENDS HomeRam, Ports

CONSTANTS
    Action,          \* processes started through the queue only
    StatusChecks,    \* STATUS_CHECKS: the actions of the round robin, in order
    Request,         \* what users enqueue: [action, priority, mode]
    PortCapacity,    \* entries the queue port holds before it drops the oldest
    MaxEntries,      \* bound: user entries ever enqueued
    MaxThreads,      \* bound: threads of a process another script starts
    MaxStops         \* bound: times the daemon is stopped

ASSUME ActionAssumption == Action \subseteq Process
ASSUME ChecksAssumption == StatusChecks \in Seq(Action) /\ StatusChecks # <<>>
ASSUME RequestAssumption ==
    Request \subseteq [action : Action, priority : Nat, mode : {"force", "queue"}]
ASSUME BoundAssumption  ==
    /\ PortCapacity \in Nat \ {0} /\ MaxThreads \in Nat \ {0}
    /\ MaxEntries \in Nat /\ MaxStops \in Nat

VARIABLES
    procs,       \* the process table of home
    port,        \* QUEUE_PORT
    \* the daemon
    pc,          \* the await it is at, "down" when it does not run
    todo,        \* entries of this tick not yet decided; the head is current
    killed,      \* executeEntry's killed, the scripts to relaunch
    completed,   \* what waitForScript returned
    roundRobin,  \* index of the next status check
    \* what happened to the user entries, for the properties
    enqueued,    \* how many there were
    decided,     \* those executeEntry returned for, in order
    dropped,     \* the ids a full port or a stopped daemon lost
    stops        \* how often the daemon was stopped

daemonVars == <<pc, todo, killed, completed, roundRobin>>
vars == <<procs, port, daemonVars, enqueued, decided, dropped, stops>>

Mode == {"force", "queue"}
Entry == [id : Nat, action : Action, priority : Nat, mode : Mode]
statusPriority == 5
StatusEntry(k) == [id |-> 0, action |-> StatusChecks[k],
                   priority |-> statusPriority, mode |-> "queue"]
Ids(entries) == {entries[i].id : i \in DOMAIN entries}
current == Head(todo)

Init ==
    /\ procs = [p \in Process |-> 0]
    /\ port = <<>>
    /\ pc = "idle" /\ todo = <<>> /\ killed = <<>> /\ completed = FALSE
    /\ roundRobin = 1
    /\ enqueued = 0 /\ decided = <<>> /\ dropped = {} /\ stops = 0

---------------------------------------------------------------------------
(* The daemon *)

\* The top of main's loop: drain the port, or else take the next status check.
Drain ==
    /\ pc = "idle"
    /\ todo' = IF port = <<>> THEN <<StatusEntry(roundRobin)>>
                              ELSE DrainQueue(port)
    /\ port' = <<>>
    /\ pc' = "execute"
    /\ UNCHANGED <<procs, killed, completed, roundRobin, enqueued, decided, dropped, stops>>

\* Faulty variant: the loop over the batch breaks after a failed entry.
Return_BreakOnFailure(outcome) ==
    LET rest == IF outcome = "failed" THEN <<>> ELSE Tail(todo)
    IN  /\ todo' = rest
        /\ pc' = IF rest = <<>> THEN "idle" ELSE "execute"
        /\ killed' = <<>> /\ roundRobin' = roundRobin
        /\ decided' = IF current.id = 0 THEN decided
                      ELSE Append(decided, [entry |-> current, outcome |-> outcome])
        /\ UNCHANGED <<port, enqueued, dropped, stops>>

\* Faulty variant: the rotation advances only past a check that ran.
Return_AdvanceOnSuccess(outcome) ==
    /\ todo' = Tail(todo)
    /\ pc' = IF Len(todo) = 1 THEN "idle" ELSE "execute"
    /\ killed' = <<>>
    /\ roundRobin' = IF current.id = 0 /\ outcome = "ran"
                     THEN (roundRobin % Len(StatusChecks)) + 1 ELSE roundRobin
    /\ decided' = IF current.id = 0 THEN decided
                  ELSE Append(decided, [entry |-> current, outcome |-> outcome])
    /\ UNCHANGED <<port, enqueued, dropped, stops>>

\* executeEntry returns: the loop goes to the next entry, or sleeps until the
\* next tick; a status check advances the rotation whatever came of it.
Return(outcome) ==
    /\ todo' = Tail(todo)
    /\ pc' = IF Len(todo) = 1 THEN "idle" ELSE "execute"
    /\ killed' = <<>>
    /\ roundRobin' = IF current.id = 0 THEN (roundRobin % Len(StatusChecks)) + 1
                                       ELSE roundRobin
    /\ decided' = IF current.id = 0 THEN decided
                  ELSE Append(decided, [entry |-> current, outcome |-> outcome])
    /\ UNCHANGED <<port, enqueued, dropped, stops>>

Start(table) ==
    /\ procs' = Exec(table, current.action, 1)
    /\ pc' = "wait"
    /\ UNCHANGED <<port, todo, completed, roundRobin, enqueued, decided, dropped, stops>>

Short == AvailableRam(procs) < ScriptRam[current.action]

\* executeEntry up to its first await, by its early returns.
Missing ==
    /\ pc = "execute" /\ ScriptRam[current.action] = 0
    /\ Return("missing") /\ UNCHANGED <<procs, completed>>

AlreadyRunning ==
    /\ pc = "execute" /\ ScriptRam[current.action] > 0
    /\ procs[current.action] > 0
    /\ Return("handled") /\ UNCHANGED <<procs, completed>>

Runnable ==
    /\ pc = "execute" /\ ScriptRam[current.action] > 0
    /\ procs[current.action] = 0

Skip ==
    /\ Runnable /\ Short /\ current.mode = "queue"
    /\ Return("skipped") /\ UNCHANGED <<procs, completed>>

ExecNow ==
    /\ Runnable /\ ~Short
    /\ Start(procs) /\ UNCHANGED killed

\* Force mode: kill along the tiers, the dashboard's included, then sleep 200 ms.
FreeRam ==
    /\ Runnable /\ Short /\ current.mode = "force"
    /\ killed' \in WalkKillTiers(procs, ScriptRam[current.action], AllTiers)
    /\ procs' = Kill(procs, killed')
    /\ pc' = "freed"
    /\ UNCHANGED <<port, todo, completed, roundRobin, enqueued, decided, dropped, stops>>

\* Faulty variant: no second look at the RAM after the sleep.
ExecFreed_NoRecheck ==
    /\ pc = "freed"
    /\ Start(procs) /\ UNCHANGED killed

\* After that sleep another script may have taken the RAM.
ExecFreed ==
    /\ pc = "freed" /\ ~Short
    /\ Start(procs) /\ UNCHANGED killed

GiveUp ==
    /\ pc = "freed" /\ Short
    /\ Return("failed") /\ UNCHANGED <<procs, completed>>

\* waitForScript: the script has ended, or still runs after scriptTimeout; only
\* then are the killed scripts relaunched, 200 ms later.
AfterWait(done) ==
    /\ completed' = done
    /\ IF killed = <<>> THEN Return(IF done THEN "ran" ELSE "timedOut")
       ELSE /\ pc' = "relaunch"
            /\ UNCHANGED <<port, todo, killed, roundRobin, enqueued, decided, dropped, stops>>
    /\ UNCHANGED procs

\* Faulty variant: waitForScript waits for as long as the script runs.
TimedOut_Never == FALSE /\ AfterWait(FALSE)

Finished == pc = "wait" /\ procs[current.action] = 0 /\ AfterWait(TRUE)
TimedOut == pc = "wait" /\ procs[current.action] > 0 /\ AfterWait(FALSE)

\* Faulty variant: the room is measured against the entry's script.
RelaunchOne_WrongRam(table, p) ==
    IF ScriptRam[p] > 0 /\ table[p] = 0
       /\ AvailableRam(table) >= ScriptRam[current.action]
    THEN Exec(table, p, 1) ELSE table

\* The relaunch loop: one thread each, if the script is not back already and
\* there is RAM for it.
RelaunchOne(table, p) ==
    IF ScriptRam[p] > 0 /\ table[p] = 0 /\ AvailableRam(table) >= ScriptRam[p]
    THEN Exec(table, p, 1) ELSE table

Relaunched(table, scripts) == FoldLeft(RelaunchOne, table, scripts)

Relaunch ==
    /\ pc = "relaunch"
    /\ procs' = Relaunched(procs, killed)
    /\ Return(IF completed THEN "ran" ELSE "timedOut")
    /\ UNCHANGED completed

Daemon == \/ Drain \/ Missing \/ AlreadyRunning \/ Skip \/ ExecNow \/ FreeRam
          \/ ExecFreed \/ GiveUp \/ Finished \/ TimedOut \/ Relaunch

\* The daemon is killed: the batch it drained was only in its memory.
Stop ==
    /\ pc # "down"
    /\ stops < MaxStops /\ stops' = stops + 1
    /\ dropped' = dropped \cup (Ids(todo) \ {0})
    /\ pc' = "down" /\ todo' = <<>> /\ killed' = <<>> /\ completed' = FALSE
    /\ roundRobin' = 1
    /\ UNCHANGED <<procs, port, enqueued, decided>>

Restart ==
    /\ pc = "down" /\ pc' = "idle"
    /\ UNCHANGED <<procs, port, todo, killed, completed, roundRobin,
                   enqueued, decided, dropped, stops>>

---------------------------------------------------------------------------
(* The scripts around it *)

\* queueAction and queueExec: anyone may append to the port at any time.
Enqueue(request) ==
    LET entry == [id |-> enqueued + 1, action |-> request.action,
                  priority |-> request.priority, mode |-> request.mode]
    IN  /\ enqueued < MaxEntries
        /\ enqueued' = enqueued + 1
        /\ port' = PortWrite(port, entry, PortCapacity)
        /\ dropped' = IF Len(port) < PortCapacity THEN dropped
                      ELSE dropped \cup {Head(port).id}
        /\ UNCHANGED <<procs, daemonVars, decided, stops>>

\* ns.exec by any other script: into free RAM, or not at all.
Launch(p, threads) ==
    /\ procs[p] = 0 /\ ScriptRam[p] > 0
    /\ AvailableRam(procs) >= threads * ScriptRam[p]
    /\ procs' = Exec(procs, p, threads)
    /\ UNCHANGED <<port, daemonVars, enqueued, decided, dropped, stops>>

\* start.js and tools/control/launch.js start a script that is not running
\* with ensureRamAndExec; they relaunch nothing.
ForceLaunch(p) ==
    /\ procs[p] = 0
    /\ procs' \in EnsureRamAndExec(procs, p)
    /\ UNCHANGED <<port, daemonVars, enqueued, decided, dropped, stops>>

Exit(p) ==
    /\ procs[p] > 0
    /\ procs' = Exec(procs, p, 0)
    /\ UNCHANGED <<port, daemonVars, enqueued, decided, dropped, stops>>

Other == Process \ Action

Environment ==
    \/ \E request \in Request : Enqueue(request)
    \/ \E p \in Other, n \in 1..MaxThreads : Launch(p, n)
    \/ \E p \in Other : ForceLaunch(p)
    \/ \E p \in Process : Exit(p)

Next == Daemon \/ Stop \/ Restart \/ Environment

\* The daemon's timers fire; it is not assumed that anyone restarts it, nor
\* that any script it starts ever ends.
Spec == Init /\ [][Next]_vars /\ WF_vars(Daemon)

---------------------------------------------------------------------------
(* Properties *)

TypeOK ==
    /\ procs \in [Process -> Nat] /\ UsedRam(procs) <= MaxRam
    /\ port \in Seq(Entry) /\ Len(port) <= PortCapacity
    /\ pc \in {"down", "idle", "execute", "freed", "wait", "relaunch"}
    /\ todo \in Seq(Entry) /\ (todo = <<>> <=> pc \in {"down", "idle"})
    /\ killed \in Seq(Process) /\ completed \in BOOLEAN
    /\ roundRobin \in DOMAIN StatusChecks
    /\ enqueued \in 0..MaxEntries /\ dropped \subseteq 1..enqueued
    /\ decided \in Seq([entry : Entry, outcome : {"missing", "handled", "skipped",
                                                  "ran", "timedOut", "failed"}])

decidedIds == {decided[i].entry.id : i \in DOMAIN decided}
service == [i \in DOMAIN decided |-> decided[i].entry] \o todo \o port

Users(entries) == {entry \in ToSet(entries) : entry.id # 0}
mailbox == INSTANCE Mailbox WITH posted <- enqueued, lost <- dropped,
               waiting <- Users(todo) \cup Users(port),
               served <- [i \in DOMAIN decided |-> decided[i].entry]

\* The port, the batches and the loop of main are a mailbox: a request that was
\* enqueued waits in the port or in the batch until it is decided, once, or lost
\* to a full port or a stopped daemon; none is forgotten, run twice or made up.
ServesMailbox == mailbox!Spec

\* An entry is served before an older one only if its priority is higher: across
\* ticks, timeouts and restarts, equal priorities are first in, first out (the
\* stable sort of drainQueue).
OvertakesOnlyLower ==
    \A i, j \in DOMAIN service :
        i < j /\ service[j].id # 0 /\ service[i].id > service[j].id
            => service[i].priority > service[j].priority

\* What force mode kills: a process of a later tier only when nothing of an
\* earlier tier is left, so that the dashboard is the last resort.
LowerTiersFirst ==
    [][FreeRam => \A i, j \in AllTiers :
         i < j /\ (\E v \in ToSet(killed') : InTier(v, j))
            => \A p \in Running(procs') : ~InTier(p, i)]_vars

\* Within that discipline the walk kills as few processes as can be: no set of
\* processes that empties the lower tiers first and frees enough is smaller
\* ("sorted by RAM descending (kill fewest to free most)").
FewestKills ==
    [][FreeRam => \A victims \in SUBSET Running(procs) :
         /\ \A v \in victims : \E j \in AllTiers : InTier(v, j) /\
               \A i \in 1..(j - 1), p \in Running(procs) : InTier(p, i) => p \in victims
         /\ AvailableRam(procs) + SumFunctionOnSet(Ram(procs), victims)
              >= ScriptRam[current.action]
         => Cardinality(victims) >= Len(killed')]_vars

\* The walk frees enough whenever killing everything killable would
\* (calcAvailableAfterKills), so that a force entry is given up only when it must
\* be, or when another script takes the RAM during the pause.
EnoughIfPossible ==
    [][FreeRam => \/ ~Short'
                  \/ CalcAvailableAfterKills(procs, AllTiers) < ScriptRam[current.action]]_vars

NotBack(table, p) == table[p] = 0 /\ AvailableRam(table) >= ScriptRam[p]

\* Once the script of a force entry has ended or timed out, no script killed for
\* it stays dead while home has room for it.
RelaunchedIfRoom ==
    [][Relaunch => \A p \in ToSet(killed) : ~NotBack(procs', p)]_vars

\* scriptTimeout keeps a script that hangs from holding up the queue: unless the
\* daemon stops or the port overflows, every entry is decided in the end.
EntryDecided ==
    \A i \in 1..MaxEntries :
        enqueued >= i ~> (i \in decidedIds \cup dropped \/ pc = "down")

\* The rotation of status checks never stays at one check for ever, skipped and
\* hanging checks included.
RotationContinues ==
    \A k \in DOMAIN StatusChecks : []<>(roundRobin = k \/ pc = "down")

============================================================================
