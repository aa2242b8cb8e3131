------------------------------ MODULE Darknet ------------------------------
(***************************************************************************)
(* The darknet swarm: the coordinator on home (src/src/daemons/darknet.ts  *)
(* with src/src/controllers/darknet.ts), the agents on darknet servers     *)
(* (src/src/workers/dnet-agent.ts), the ports between them, the password   *)
(* vault on disk, and the game, which restarts, deletes and recycles       *)
(* servers and with them kills the scripts there.                          *)
(*                                                                         *)
(* The coordinator has one await, its sleep: a tick is one step.  An agent *)
(* awaits in its sleep and in every authenticate; its visits to neighbours *)
(* that need none take one step each, which admits a few more              *)
(* interleavings than the program.                                         *)
(***************************************************************************)
EXTENDS Naturals, Sequences, FiniteSets, SequencesExt

CONSTANTS
    Host,            \* darknet servers
    Darkweb,         \* the one home can always exec on
    Neighbours,      \* the servers probe() lists on each, but Darkweb: it is always authed
    Password,        \* passwords servers are made with
    FingerprintOf,   \* difficulty, modelId and length of the server with a password
    Leaked,          \* passwords that heartbleed logs may give away
    Blocked,         \* servers whose RAM is taken by their owner at first
    PortCapacity,    \* batches DARKNET_REPORT_PORT holds
    MaxBacklog,      \* MAX_BACKLOG
    Patience,        \* AGENT_LIVENESS_FLOOR_MS, in ticks of the coordinator
    SeedThrottle,    \* agentIntervalMs * RESEED_THROTTLE_MULT, in such ticks
    MaxEvents        \* bound: restarts, deletions, links, stops and the like

None == "none"
Dummy == "dummy"   \* the fingerprint in the details of a server that is offline
Fingerprint == {FingerprintOf[p] : p \in Password} \cup {Dummy}
Entry == [password : Password, fingerprint : Fingerprint]
NoEntry == [password |-> None, fingerprint |-> None]

ASSUME HostAssumption ==
    /\ Darkweb \in Host /\ Blocked \subseteq Host \ {Darkweb}
    /\ Neighbours \in [Host -> SUBSET (Host \ {Darkweb})]
    /\ \A h \in Host : h \notin Neighbours[h]
ASSUME PasswordAssumption ==
    /\ None \notin Password /\ Password # {} /\ Leaked \subseteq Password
    /\ None \notin Fingerprint
ASSUME BoundAssumption ==
    /\ PortCapacity \in Nat \ {0} /\ MaxBacklog \in Nat \ {0}
    /\ Patience \in Nat /\ SeedThrottle \in Nat /\ MaxEvents \in Nat

VARIABLES
    \* the game
    secret,      \* the password of each server, None while it is offline
    room,        \* servers with free RAM for an agent
    linked,      \* servers with a stasis link
    sessions,    \* <<h, n>>: the agent process on h has a session on n
    agent,       \* the agent process on each server
    \* ports and disk
    policy,      \* Policy.vault as last published, NoPolicy before
    reports,     \* DARKNET_REPORT_PORT
    disk,        \* the entries of /data/darknet-vault.json
    \* the coordinator
    up,          \* does it run?
    vault,       \* model.vault.entries
    cells,       \* model.cells
    cooldown,    \* ticks until the next attempt to seed, from lastSeedAttempt
    force,       \* is a reseed command pending?
    events       \* steps of the game and the user so far

game == <<secret, room, linked>>
coordinator == <<up, vault, cells, cooldown, force>>
vars == <<game, sessions, agent, policy, reports, disk, coordinator, events>>

NoPolicy == <<>>
NoVault == [h \in Host |-> NoEntry]

\* What a CellRecord is told apart by: is it in model.cells, its fingerprint, is
\* agentPid set, is its state offline, ticks since agentSeenAt (capped).
NoCell == [known |-> FALSE, fingerprint |-> None, resident |-> FALSE,
           offline |-> FALSE, silent |-> 0]
NoAgent == [pc |-> "none", vault |-> NoVault, todo |-> {}, host |-> Darkweb,
            fingerprint |-> None, events |-> <<>>, backlog |-> <<>>]
NewAgent == [NoAgent EXCEPT !.pc = "asleep"]
Running(h) == agent[h].pc # "none"
Online(h) == secret[h] # None
fingerprint(h) == IF Online(h) THEN FingerprintOf[secret[h]] ELSE Dummy

\* A stasis-linked server is exempt from restarts and deletion, Darkweb is stationary.
Mutable(h) == h \notin linked /\ h # Darkweb

Seen(h) == [t |-> "seen", host |-> h, password |-> None, fingerprint |-> fingerprint(h)]
Cracked(h, fp) == [t |-> "cracked", host |-> h, password |-> secret[h], fingerprint |-> fp]
Stale(h, fp) == [t |-> "stale", host |-> h, password |-> None, fingerprint |-> fp]
Leak(h, p) == [t |-> "leak", host |-> h, password |-> p, fingerprint |-> None]

Init ==
    /\ secret = [h \in Host |-> CHOOSE p \in Password : TRUE]
    /\ room \in {Host, Host \ Blocked} /\ linked = {}
    /\ sessions = {} /\ agent = [h \in Host |-> NoAgent]
    /\ policy = NoPolicy /\ reports = <<>> /\ disk = NoVault
    /\ up = TRUE /\ vault = NoVault /\ cells = [h \in Host |-> NoCell]
    /\ cooldown = [h \in Host |-> 0] /\ force = FALSE
    /\ events = 0

---------------------------------------------------------------------------
(* An agent. *)

\* The top of agentLoop, and probe().  The policy is read once for the tick.
WakeAgent(h) ==
    /\ agent[h].pc = "asleep" /\ policy # NoPolicy
    /\ LET found == {n \in Neighbours[h] : Online(n)}
       IN  agent' = [agent EXCEPT
             ![h].pc = "visiting", ![h].todo = found,
             ![h].vault = [n \in Host |-> IF n \in found THEN policy[n] ELSE NoEntry]]
    /\ UNCHANGED <<game, sessions, policy, reports, disk, coordinator, events>>

\* Faulty variant: no agent is started on a server that was reached.
Replicate_Never(agents, n) == agents

\* replicate: exec with preventDuplicates, where an agent fits.
Replicate(agents, n) ==
    IF n \in room /\ agents[n].pc = "none" THEN [agents EXCEPT ![n] = NewAgent] ELSE agents

\* The agent on h is done with the neighbour n, or waits for a call on it.
NextNeighbour(a, n) == [a EXCEPT !.pc = "visiting", !.todo = @ \ {n},
                                  !.vault[n] = NoEntry, !.host = Darkweb, !.fingerprint = None]
Await(a, pc, n) == [a EXCEPT !.pc = pc, !.host = n, !.fingerprint = fingerprint(n)]
Log(a, event) == [a EXCEPT !.events = Append(@, event)]

\* handleNeighbour up to its first await.  What is seen is logged, also of a server
\* that went offline since the probe.  A session ends the visit at once; a vaulted
\* password restores one and revives the agent that a restart has killed.
Visit(h, n) ==
    /\ agent[h].pc = "visiting" /\ n \in agent[h].todo
    /\ LET a == Log(agent[h], Seen(n))
           entry == agent[h].vault[n]
           open == Online(n) /\ <<h, n>> \notin sessions
           usable == entry # NoEntry /\ entry.fingerprint = fingerprint(n)
       IN  \/ /\ ~open
              /\ agent' = [agent EXCEPT ![h] = NextNeighbour(a, n)]
              /\ UNCHANGED sessions
           \/ /\ open /\ usable /\ entry.password = secret[n]
              /\ sessions' = sessions \cup {<<h, n>>}
              /\ agent' = Replicate([agent EXCEPT ![h] = NextNeighbour(a, n)], n)
           \/ /\ open /\ usable /\ entry.password # secret[n]
              /\ agent' = [agent EXCEPT ![h] = Await(a, "restoring", n)]
              /\ UNCHANGED sessions
           \/ /\ open /\ ~usable
              /\ agent' = [agent EXCEPT ![h] = Await(a, "cracking", n)]
              /\ UNCHANGED sessions
    /\ UNCHANGED <<game, policy, reports, disk, coordinator, events>>

\* authenticate with the vaulted password has answered: restored or refused.  A
\* refusal is reported, then the solver gets its turn.
Restored(h) ==
    LET a == agent[h]  n == a.host
    IN  /\ a.pc = "restoring" /\ Online(n)
        /\ IF secret[n] = a.vault[n].password
           THEN /\ sessions' = sessions \cup {<<h, n>>}
                /\ agent' = Replicate([agent EXCEPT ![h] = NextNeighbour(a, n)], n)
           ELSE /\ agent' = [agent EXCEPT ![h] =
                                [Log(a, Stale(n, a.fingerprint)) EXCEPT !.pc = "cracking"]]
                /\ UNCHANGED sessions
        /\ UNCHANGED <<game, policy, reports, disk, coordinator, events>>

\* driveSolver ends with the password.  The fingerprint reported is the one read
\* before the attempts.
Crack(h) ==
    LET a == agent[h]  n == a.host
    IN  /\ a.pc = "cracking" /\ Online(n)
        /\ sessions' = sessions \cup {<<h, n>>}
        /\ agent' = Replicate([agent EXCEPT ![h] =
                        NextNeighbour(Log(a, Cracked(n, a.fingerprint)), n)], n)
        /\ UNCHANGED <<game, policy, reports, disk, coordinator, events>>

\* Either call finds that the server has gone: next neighbour.
Vanished(h) ==
    LET a == agent[h]
    IN  /\ a.pc \in {"restoring", "cracking"} /\ ~Online(a.host)
        /\ agent' = [agent EXCEPT ![h] = NextNeighbour(a, a.host)]
        /\ UNCHANGED <<game, sessions, policy, reports, disk, coordinator, events>>

\* capBacklog keeps the newest.
CapBacklog(all) ==
    SubSeq(all, IF Len(all) > MaxBacklog THEN Len(all) - MaxBacklog + 1 ELSE 1, Len(all))

\* The end of the agent's tick: the batch is sent; what a full port refuses waits
\* for the next tick.
Report(h) ==
    /\ agent[h].pc = "visiting" /\ agent[h].todo = {}
    /\ LET combined == CapBacklog(agent[h].backlog \o agent[h].events)
           sent == Len(reports) < PortCapacity
       IN  /\ reports' = IF sent
                THEN Append(reports, [from |-> h, agent |-> TRUE, events |-> combined])
                ELSE reports
           /\ agent' = [agent EXCEPT ![h] =
                [NewAgent EXCEPT !.backlog = IF sent THEN <<>> ELSE combined]]
    /\ UNCHANGED <<game, sessions, policy, disk, coordinator, events>>

AgentStep(h) ==
    \/ WakeAgent(h) \/ \E n \in Host : Visit(h, n)
    \/ Restored(h) \/ Crack(h) \/ Vanished(h) \/ Report(h)

\* A local worker (phishing, say) outlives an agent that stopped alone, and reports
\* too; its batch is lost when the port is full.
WorkerReport(h) ==
    /\ ~Mutable(h) /\ ~Running(h) /\ Len(reports) < PortCapacity
    /\ reports' = Append(reports, [from |-> h, agent |-> FALSE, events |-> <<>>])
    /\ UNCHANGED <<game, sessions, agent, policy, disk, coordinator, events>>

---------------------------------------------------------------------------
(* A tick of the coordinator.  What it knows of a server while it works is *)
(* k: [cell, entry, changed]; changed is what sets vaultDirty.             *)

Drop(k) == [k EXCEPT !.entry = NoEntry, !.changed = @ \/ k.entry # NoEntry]
Put(k, p, fp) == [k EXCEPT !.entry = [password |-> p, fingerprint |-> fp], !.changed = TRUE]
IsRecycled(k, fp) == k.cell.fingerprint # None /\ k.cell.fingerprint # fp
Note(k, fp) ==
    [k EXCEPT !.cell.known = TRUE, !.cell.fingerprint = fp, !.cell.offline = FALSE]

\* The cases of applyReport that touch cells or vault.
ApplySeen(k, e) == Note(IF IsRecycled(k, e.fingerprint) THEN Drop(k) ELSE k, e.fingerprint)
ApplyCracked(k, e) == Note(Put(k, e.password, e.fingerprint), e.fingerprint)
ApplyStale(k, e) ==
    IF k.entry.fingerprint = e.fingerprint THEN Drop(k) ELSE k

\* Faulty variant: a leaked password does not mark the vault for saving.
ApplyLeak_NotSaved(k, e) ==
    IF k.cell.fingerprint # None /\ k.entry = NoEntry
    THEN [Put(k, e.password, k.cell.fingerprint) EXCEPT !.changed = k.changed] ELSE k

ApplyLeak(k, e) ==
    IF k.cell.fingerprint # None /\ k.entry = NoEntry
    THEN Put(k, e.password, k.cell.fingerprint) ELSE k

ApplyEvent(model, e) ==
    [model EXCEPT ![e.host] =
        CASE e.t = "seen" -> ApplySeen(@, e)
          [] e.t = "cracked" -> ApplyCracked(@, e)
          [] e.t = "stale" -> ApplyStale(@, e)
          [] e.t = "leak" -> ApplyLeak(@, e)]

Alive(k) == [k EXCEPT !.cell.known = TRUE, !.cell.resident = TRUE,
                      !.cell.offline = FALSE, !.cell.silent = 0]

\* Only an agent's batch proves that its host carries a live agent.
Hear(model, batch) ==
    [model EXCEPT ![batch.from] = IF batch.agent THEN Alive(@) ELSE [@ EXCEPT !.cell.known = TRUE]]

ApplyReport(model, batch) ==
    LET after[i \in 0..Len(batch.events)] ==
            IF i = 0 THEN Hear(model, batch) ELSE ApplyEvent(after[i - 1], batch.events[i])
    IN  after[Len(batch.events)]

\* Faulty variant: the poll renews the fingerprint without dropping the entry.
Refresh_KeepEntry(k, h) ==
    IF ~k.cell.known \/ ~Online(h) THEN k ELSE Note(k, fingerprint(h))

\* refreshFromDetails, for a known cell: a tombstone for an offline server, the
\* vault entry of a recycled one goes, a silent agent counts as dead.
Refresh(k, h) ==
    IF ~k.cell.known THEN k
    ELSE IF ~Online(h) THEN [k EXCEPT !.cell.offline = TRUE, !.cell.resident = FALSE]
    ELSE IF IsRecycled(k, fingerprint(h))
    THEN [Note(Drop(k), fingerprint(h)) EXCEPT !.cell.resident = FALSE]
    ELSE [Note(k, fingerprint(h)) EXCEPT !.cell.resident = @ /\ k.cell.silent <= Patience]

\* What the coordinator knows before a tick, every agent one tick more silent.
Known(h) == [cell |-> [cells[h] EXCEPT !.silent = IF @ > Patience THEN @ ELSE @ + 1],
             entry |-> vault[h], changed |-> FALSE]

\* What a tick makes of the drained batches, and then of its poll of every cell.
Heard(batches) ==
    LET after[i \in 0..Len(batches)] ==
            IF i = 0 THEN [h \in Host |-> Known(h)] ELSE ApplyReport(after[i - 1], batches[i])
    IN  after[Len(batches)]
Poll(heard) == [h \in Host |-> Refresh(heard[h], h)]

\* Whom reseed tries: the seeds whose agent is not known to live, not too often.
SeedAttempts(model) ==
    {h \in {Darkweb} \cup linked :
        \/ force
        \/ cooldown[h] = 0 /\ (~model[h].cell.resident \/ model[h].cell.offline)}

\* It needs the password of any seed but Darkweb, for the session from home.
CanSeed(model, h) == h \in room /\ (h = Darkweb \/ model[h].entry.password = secret[h])

Tick ==
    /\ up /\ reports' = <<>> /\ force' = FALSE
    /\ UNCHANGED <<game, sessions, up, events>>
    /\ \E heard \in {Heard(reports)} : \E model \in {Poll(heard)} :
        LET tried == SeedAttempts(model)
            policed == [h \in Host |-> model[h].entry]
        IN  /\ cells' = [h \in Host |-> model[h].cell]
            /\ vault' = policed /\ policy' = policed
            /\ agent' = [h \in Host |->
                 IF h \in tried /\ ~Running(h) /\ CanSeed(model, h) THEN NewAgent ELSE agent[h]]
            /\ cooldown' = [h \in Host |-> IF h \in tried THEN SeedThrottle
                                ELSE IF cooldown[h] = 0 THEN 0 ELSE cooldown[h] - 1]
            /\ disk' = IF \E h \in Host : model[h].changed THEN policed ELSE disk

\* The daemon is started again: the map is lost, the vault is read back.
StartCoordinator ==
    /\ ~up /\ up' = TRUE
    /\ vault' = disk /\ cells' = [h \in Host |-> NoCell]
    /\ cooldown' = [h \in Host |-> 0]
    /\ UNCHANGED <<game, sessions, agent, policy, reports, disk, force, events>>

---------------------------------------------------------------------------
(* The game and the user. *)

Happens == events < MaxEvents /\ events' = events + 1

\* A call times out too often, or the solver gives up, possibly with a password of
\* some server found in the logs: next neighbour.
GiveUp(h) ==
    LET a == agent[h]
    IN  /\ Happens /\ a.pc \in {"restoring", "cracking"}
        /\ \/ agent' = [agent EXCEPT ![h] = NextNeighbour(a, a.host)]
           \/ /\ a.pc = "cracking"
              /\ \E x \in Host \ {Darkweb}, p \in Leaked :
                    agent' = [agent EXCEPT ![h] = NextNeighbour(Log(a, Leak(x, p)), a.host)]
        /\ UNCHANGED <<game, sessions, policy, reports, disk, coordinator>>

\* Scripts on h die; the sessions they had die with them, and so do, unless only
\* the script stopped, the sessions others had on h.
Kill(h) == agent' = [agent EXCEPT ![h] = NoAgent]
SessionsWithout(h) == {s \in sessions : s[1] # h /\ s[2] # h}

RestartServer(h) ==
    /\ Happens /\ Mutable(h) /\ Online(h)
    /\ Kill(h) /\ sessions' = SessionsWithout(h)
    /\ UNCHANGED <<secret, room, linked, policy, reports, disk, coordinator>>

DeleteServer(h) ==
    /\ Happens /\ Mutable(h) /\ Online(h)
    /\ secret' = [secret EXCEPT ![h] = None]
    /\ Kill(h) /\ sessions' = SessionsWithout(h)
    /\ UNCHANGED <<room, linked, policy, reports, disk, coordinator>>

\* The name is used again, for a new server.
RecycleName(h, p) ==
    /\ ~Online(h) /\ secret' = [secret EXCEPT ![h] = p] /\ room' = room \cup {h}
    /\ UNCHANGED <<linked, sessions, agent, policy, reports, disk,
                   coordinator, events>>

\* A seed's agent stops alone: killed by the user, or by an exception of its loop.
AgentStops(h) ==
    /\ Happens /\ ~Mutable(h) /\ Running(h)
    /\ Kill(h) /\ sessions' = {s \in sessions : s[1] # h}
    /\ UNCHANGED <<game, policy, reports, disk, coordinator>>

\* The owner's processes release RAM, up to where an agent fits.
ReleaseRam(h) ==
    /\ Happens /\ h \notin room /\ room' = room \cup {h}
    /\ UNCHANGED <<secret, linked, sessions, agent, policy, reports, disk, coordinator>>

\* dnet-stasis on h, launched by its agent, sets the link or clears it.
SetStasisLink(h) ==
    /\ Happens /\ Running(h) /\ h # Darkweb
    /\ linked' = IF h \in linked THEN linked \ {h} ELSE linked \cup {h}
    /\ UNCHANGED <<secret, room, sessions, agent, policy, reports, disk, coordinator>>

ReseedCommand ==
    /\ Happens /\ ~force /\ force' = TRUE
    /\ UNCHANGED <<game, sessions, agent, policy, reports, disk, up, vault, cells, cooldown>>

\* The coordinator is killed at its await; its memory is gone.
StopCoordinator ==
    /\ Happens /\ up /\ up' = FALSE
    /\ vault' = NoVault /\ cells' = [h \in Host |-> NoCell]
    /\ cooldown' = [h \in Host |-> 0]
    /\ UNCHANGED <<game, sessions, agent, policy, reports, disk, force>>

Environment ==
    \/ \E h \in Host : \/ GiveUp(h) \/ RestartServer(h) \/ DeleteServer(h) \/ AgentStops(h)
                       \/ ReleaseRam(h) \/ SetStasisLink(h) \/ WorkerReport(h)
                       \/ \E p \in Password : RecycleName(h, p)
    \/ ReseedCommand \/ StopCoordinator \/ StartCoordinator

Next == Tick \/ (\E h \in Host : AgentStep(h)) \/ Environment

\* The loops of coordinator and agents have no exit and every await ends.
Fairness == WF_vars(Tick) /\ \A h \in Host : WF_vars(AgentStep(h))
Spec == Init /\ [][Next]_vars /\ Fairness

---------------------------------------------------------------------------
(* Properties *)

Event ==
    [t : {"seen", "stale"}, host : Host, password : {None}, fingerprint : Fingerprint]
        \cup [t : {"cracked"}, host : Host, password : Password, fingerprint : Fingerprint]
        \cup [t : {"leak"}, host : Host, password : Password, fingerprint : {None}]
Batch == [from : Host, agent : BOOLEAN, events : Seq(Event)]
Agent == [pc : {"none", "asleep", "visiting", "restoring", "cracking"},
          vault : [Host -> Entry \cup {NoEntry}], todo : SUBSET Host, host : Host,
          fingerprint : Fingerprint \cup {None}, events : Seq(Event), backlog : Seq(Event)]
Cell == [known : BOOLEAN, fingerprint : Fingerprint \cup {None}, resident : BOOLEAN,
         offline : BOOLEAN, silent : 0..(Patience + 1)]

\* Every variable holds a value of its kind, and no backlog outgrows its cap.
TypeOK ==
    /\ secret \in [Host -> Password \cup {None}] /\ secret[Darkweb] # None
    /\ room \subseteq Host /\ linked \subseteq Host \ {Darkweb}
    /\ sessions \subseteq Host \X Host
    /\ agent \in [Host -> Agent]
    /\ \A h \in Host : Len(agent[h].backlog) <= MaxBacklog
    /\ policy \in [Host -> Entry \cup {NoEntry}] \cup {NoPolicy}
    /\ reports \in Seq(Batch) /\ Len(reports) <= PortCapacity
    /\ disk \in [Host -> Entry \cup {NoEntry}] /\ vault \in [Host -> Entry \cup {NoEntry}]
    /\ cells \in [Host -> Cell] /\ up \in BOOLEAN /\ force \in BOOLEAN
    /\ cooldown \in [Host -> 0..SeedThrottle]

\* Killing the coordinator loses no password: at its await the file holds the vault.
VaultSaved == up => disk = vault

\* However late or out of date the reports of a tick are, what it learns from them,
\* or knew to be in order, never contradicts its own poll in what it publishes.
NewsFresh ==
    [][\A h \in Host :
        policy' # policy /\ cells'[h].known /\ Online(h) /\ vault'[h] # NoEntry
        /\ (vault'[h] # vault[h] \/ vault[h].fingerprint = cells[h].fingerprint)
            => vault'[h].fingerprint = fingerprint(h)]_<<policy, vault>>

\* The swarm heals: a server that is online, has room, and on which no agent holds a
\* session any more gets an agent again, whatever was restarted, deleted or lost, and
\* although other scripts on it may go on reporting.  Where an agent next door does hold
\* a session its visits end there, although docs/systems/darknet.md:222 says that the next
\* one colonizes a server whose owner's processes release its RAM.
SwarmHeals ==
    \A h \in Host :
        up /\ Online(h) /\ h \in room /\ ~Running(h) /\ (\A x \in Host : <<x, h>> \notin sessions)
            ~> ~up \/ ~Online(h) \/ Running(h)

============================================================================
