------------------------------- MODULE Focus -------------------------------
(***************************************************************************)
(* Who uses the player and the sleeves: the focus daemon                   *)
(* (src/src/daemons/focus.ts), the file /config/focus.txt with all its     *)
(* writers, and the work, rep and blade daemons that read it once a cycle  *)
(* and start the player's work unless they yield.                          *)
(*                                                                         *)
(* The published status shows the file and is left out.  A key that is     *)
(* missing means the same as the value it falls back to, except for        *)
(* sleeveHolder.<i>.                                                       *)
(***************************************************************************)
EXTENDS Ports, SequencesExt

CONSTANTS
    DefaultHolder,   \* key default: the holder to use when there is none
    LastHolder,      \* holders an earlier session may have left in the file
    MaxSleeves,      \* bound: sleeves the player ever has
    PortCapacity,    \* values the control port holds before it drops the oldest
    MaxEvents        \* bound: steps of users, dashboard and game

Owner == {"work", "rep", "blade"}     \* FOCUS_DAEMONS
None  == "none"
Empty == ""
Unset == "unset"                      \* no key sleeveHolder.<i>
Sleeve == 0..(MaxSleeves - 1)
\* What getCurrentWork tells apart.
Work == {"IDLE", "CLASS", "CRIME", "FACTION"}

ASSUME FocusAssumption ==
    /\ DefaultHolder \in Owner \cup {None}
    /\ LastHolder \subseteq Owner \cup {None, Empty}
    /\ MaxSleeves \in Nat /\ MaxEvents \in Nat /\ PortCapacity \in Nat \ {0}

VARIABLES
    \* /config/focus.txt
    holder, fallback, own,   \* holder, sleeveHolder, sleeveHolder.<i>
    simulacrum,
    \* the focus daemon, its port and the action scripts it started
    pc, checked, port, scripts,
    \* the game: sleeves, what they work on, whether The Blade's Simulacrum is
    \* installed, the player's work, a running Bladeburner action, running daemons
    numSleeves, task, installed, activity, bladeActs, running,
    believed,        \* the dashboard's cachedData.pids.focus > 0
    \* history, for the properties
    wanted,          \* the holder last asked for
    crossed,         \* it was written while an older request was in the port, or
                     \* a full port dropped it
    unserved,        \* sleeves whose key changed without an assign-sleeve script
    events

config == <<holder, fallback, own, simulacrum>>
daemonVars == <<pc, checked, port, scripts>>
game == <<numSleeves, task, installed>>
player == <<activity, bladeActs>>
history == <<wanted, crossed, unserved>>
vars == <<config, daemonVars, game, player, running, believed, history, events>>

Message == [action : {"set-holder", "set-sleeve", "refresh"}, owner : Owner \cup {None},
            all : BOOLEAN, sleeve : Sleeve \cup {0}]
Script == [name : {"check-simulacrum", "assign-sleeve"}, sleeve : Sleeve \cup {0},
           owner : Owner \cup {None}]
check == [name |-> "check-simulacrum", sleeve |-> 0, owner |-> None]
Assign(i, d) == [name |-> "assign-sleeve", sleeve |-> i, owner |-> d]

Init ==
    /\ holder \in LastHolder /\ fallback = None /\ own = [i \in Sleeve |-> Unset]
    /\ simulacrum \in BOOLEAN /\ installed \in BOOLEAN
    /\ pc = "down" /\ checked = FALSE /\ port = <<>> /\ scripts = <<>>
    /\ numSleeves \in {0, MaxSleeves} /\ task = [i \in Sleeve |-> None]
    /\ activity = "IDLE" /\ bladeActs = FALSE /\ running = {} /\ believed = FALSE
    /\ wanted = holder /\ crossed = FALSE /\ unserved = {} /\ events = 0

Counted == {i \in Sleeve : i < numSleeves}
HolderPending == \E k \in DOMAIN port : port[k].action = "set-holder"
\* resolveSleeveDaemon.
ResolveSleeveDaemon(i) == IF own[i] = Unset THEN fallback ELSE own[i]

---------------------------------------------------------------------------
(* The focus daemon: its only await is the sleep at the end of a tick. *)

Await == pc \in {"down", "sleep"}

\* execSimulacrumCheck: ns.exec finds RAM or not.
ExecSimulacrumCheck(launched) ==
    /\ checked' = launched
    /\ scripts' = IF launched THEN Append(scripts, check) ELSE scripts

\* The start of main.  An empty holder gets the default; sleeve keys that name the
\* same daemon are not looked at.
Start(launched) ==
    /\ pc = "down" /\ pc' = "draining"
    /\ ExecSimulacrumCheck(launched)
    /\ holder' = IF holder = Empty THEN DefaultHolder ELSE holder
    /\ wanted' = IF holder = Empty /\ ~HolderPending THEN DefaultHolder ELSE wanted
    /\ believed' \in {believed, TRUE}
    /\ UNCHANGED <<fallback, own, simulacrum, port, game, player, running, crossed,
                   unserved, events>>

\* Faulty variant: the check is tried once.
Wake_NoRetry(launched) ==
    /\ pc = "sleep" /\ pc' = "draining"
    /\ launched = FALSE
    /\ UNCHANGED <<config, checked, scripts, port, game, player, running, believed,
                   history, events>>

\* The top of a tick: a check that found no RAM is tried again.
Wake(launched) ==
    /\ pc = "sleep" /\ pc' = "draining"
    /\ IF checked THEN launched = FALSE /\ UNCHANGED <<checked, scripts>>
       ELSE ExecSimulacrumCheck(launched)
    /\ UNCHANGED <<config, port, game, player, running, believed, history, events>>

message == Head(port)
Take(action) ==
    /\ pc = "draining" /\ port # <<>> /\ message.action = action
    /\ port' = Tail(port)
    /\ UNCHANGED <<simulacrum, pc, game, player, running, believed, events>>

\* Faulty variant: only the fallback key is cleared.
ClearSleeveConflicts_Fallback(d) ==
    /\ fallback' = IF fallback = d THEN None ELSE fallback
    /\ own' = own

\* clearSleeveConflicts, conflictingSleeveKeys.
ClearSleeveConflicts(d) ==
    /\ fallback' = IF fallback = d THEN None ELSE fallback
    /\ own' = [i \in Sleeve |-> IF own[i] = d THEN None ELSE own[i]]

\* Faulty variant: the guard on "none" covers the whole message.
HandleSetHolder_NotNone ==
    /\ Take("set-holder")
    /\ IF message.owner = None THEN UNCHANGED <<holder, fallback, own>>
       ELSE holder' = message.owner /\ ClearSleeveConflicts(message.owner)
    /\ UNCHANGED <<checked, scripts, history>>

HandleSetHolder ==
    /\ Take("set-holder")
    /\ holder' = message.owner
    /\ IF message.owner = None THEN UNCHANGED <<fallback, own>>
       ELSE ClearSleeveConflicts(message.owner)
    /\ UNCHANGED <<checked, scripts, history>>

\* processControlMessage's early returns of set-sleeve: no sleeves, the holder
\* itself, an index out of range.
SleeveRefused ==
    \/ numSleeves = 0
    \/ message.owner # None /\ message.owner = holder
    \/ ~message.all /\ message.sleeve \notin Counted
Targets == IF message.all THEN Counted ELSE {message.sleeve}

\* The scripts of a message start in the order of the sleeves; some find no RAM.
Launches(started, d) ==
    {[k \in DOMAIN order |-> Assign(order[k], d)] :
        order \in {o \in SetToSeqs(started) : \A j, k \in DOMAIN o : j < k => o[j] < o[k]}}

HandleSetSleeve ==
    /\ Take("set-sleeve")
    /\ IF SleeveRefused THEN UNCHANGED <<fallback, own, scripts, unserved>>
       ELSE /\ fallback' = IF message.all THEN message.owner ELSE fallback
            /\ own' = [i \in Sleeve |-> IF i \in Targets THEN message.owner ELSE own[i]]
            /\ \E started \in SUBSET (IF message.owner = None THEN {} ELSE Targets) :
                 /\ \E launches \in Launches(started, message.owner) :
                       scripts' = scripts \o launches
                 /\ unserved' = (unserved \cup Targets) \ started
    /\ UNCHANGED <<holder, checked, wanted, crossed>>

HandleRefresh(launched) ==
    /\ Take("refresh") /\ ExecSimulacrumCheck(launched)
    /\ UNCHANGED <<holder, fallback, own, history>>

Publish ==
    /\ pc = "draining" /\ port = <<>> /\ pc' = "sleep"
    /\ UNCHANGED <<config, checked, port, scripts, game, player, running, believed,
                   history, events>>

Daemon ==
    \/ \E launched \in BOOLEAN : Wake(launched) \/ HandleRefresh(launched)
    \/ HandleSetHolder \/ HandleSetSleeve \/ Publish

---------------------------------------------------------------------------
(* The action scripts, which the game runs in the order they were started. *)

RunNext(name) ==
    /\ Await /\ scripts # <<>> /\ Head(scripts).name = name
    /\ scripts' = Tail(scripts)
    /\ UNCHANGED <<holder, fallback, own, pc, checked, port, numSleeves, installed, player,
                   running, believed, history, events>>

CheckSimulacrum ==
    /\ RunNext("check-simulacrum")
    /\ simulacrum' = installed /\ UNCHANGED task

\* Faulty variant: a script for another daemon leaves a busy sleeve alone.
AssignSleeve_IdleOnly ==
    /\ RunNext("assign-sleeve")
    /\ LET i == Head(scripts).sleeve
       IN  task' = IF task[i] = None THEN [task EXCEPT ![i] = Head(scripts).owner] ELSE task
    /\ UNCHANGED simulacrum

\* The game accepts the task, or the sleeve is left idle.
AssignSleeve ==
    /\ RunNext("assign-sleeve")
    /\ \E result \in {Head(scripts).owner, None} :
          task' = [task EXCEPT ![Head(scripts).sleeve] = result]
    /\ UNCHANGED simulacrum

---------------------------------------------------------------------------
(* The daemons that use the player.  A cycle reads the file and acts on it    *)
(* without an await in between.                                               *)

\* Faulty variant: blade takes itself for exempt whatever the flag says.
Yields_BladeNever(d) == d # "blade" /\ holder # Empty /\ holder # d /\ fallback # d

\* focusYielding.  Only the bare sleeve key counts.
Yields(d) ==
    /\ holder # Empty /\ holder # d /\ fallback # d
    /\ d = "blade" => ~simulacrum

\* Starting work ends a Bladeburner action and the other way round, unless The
\* Blade's Simulacrum is installed.
Begin(work) == activity' = work /\ bladeActs' = (bladeActs /\ installed)
BeginBladeAction ==
    bladeActs' = TRUE /\ activity' = IF installed THEN activity ELSE "IDLE"

\* runWorkCycle trains at a gym or a university or commits crimes, whichever
\* /config/work.txt asks for; it takes over from any other work.
WorkCycle ==
    /\ "work" \in running /\ Await /\ ~Yields("work")
    /\ \E work \in {"CLASS", "CRIME"} : Begin(work)
    /\ UNCHANGED <<config, daemonVars, game, running, believed, history, events>>

\* runFullMode at its highest tier, with a faction to work for; gym and university
\* are never interrupted.
RepCycle ==
    /\ "rep" \in running /\ Await /\ ~Yields("rep")
    /\ activity \notin {"CLASS", "FACTION"} /\ Begin("FACTION")
    /\ UNCHANGED <<config, daemonVars, game, running, believed, history, events>>

\* runAutomationMode with an action to recommend.
BladeCycle ==
    /\ "blade" \in running /\ Await /\ ~Yields("blade")
    /\ ~bladeActs /\ BeginBladeAction
    /\ UNCHANGED <<config, daemonVars, game, running, believed, history, events>>

Cycle == WorkCycle \/ RepCycle \/ BladeCycle

---------------------------------------------------------------------------
(* The dashboard, the users' scripts and the game. *)

Event == Await /\ events < MaxEvents /\ events' = events + 1
Send(m) == port' = PortWrite(port, m, PortCapacity)
\* History: a full port dropped the last pending request for the holder.
SendPast(m) == Send(m) /\ crossed' = (crossed \/ (HolderPending /\ ~HolderPending'))
\* History: d was written as the holder, past any request still in the port.
Written(d) == wanted' = d /\ crossed' = HolderPending

\* claim-focus, which believes the pid it cached.
ClaimFocus(d) ==
    /\ Event
    /\ IF believed
       THEN /\ Send([action |-> "set-holder", owner |-> d, all |-> FALSE, sleeve |-> 0])
            /\ wanted' = d /\ crossed' = FALSE
            /\ UNCHANGED <<holder, fallback, own>>
       ELSE holder' = d /\ ClearSleeveConflicts(d) /\ Written(d) /\ UNCHANGED port
    /\ UNCHANGED <<simulacrum, pc, checked, scripts, game, player, running, believed, unserved>>

\* claim-sleeve-focus; without the daemon one key is written and no script started.
ClaimSleeve(all, i, d) ==
    /\ Event
    /\ IF believed
       THEN /\ SendPast([action |-> "set-sleeve", owner |-> d, all |-> all, sleeve |-> i])
            /\ UNCHANGED <<fallback, own, unserved>>
       ELSE /\ d # None => d # holder
            /\ fallback' = IF all THEN d ELSE fallback
            /\ own' = IF all THEN own ELSE [own EXCEPT ![i] = d]
            /\ unserved' = unserved \cup IF all THEN {j \in Sleeve : own[j] = Unset} ELSE {i}
            /\ UNCHANGED <<port, crossed>>
    /\ UNCHANGED <<holder, simulacrum, pc, checked, scripts, game, player, running, believed,
                   wanted>>

\* stopTool kills the pid it cached, which may be an older one.
StopTool(d) ==
    /\ Event
    /\ running' \in {running, running \ {d}}
    /\ IF holder = d THEN holder' = Empty /\ Written(Empty) ELSE UNCHANGED <<holder, wanted, crossed>>
    /\ ClearSleeveConflicts(d)
    /\ UNCHANGED <<simulacrum, daemonVars, game, player, believed, unserved>>

\* start.js, the queue or the dashboard launches daemons, some others are killed
\* for their RAM, one exits.
StartTools ==
    /\ Event /\ running' \in SUBSET Owner
    /\ UNCHANGED <<config, daemonVars, game, player, believed, history>>

\* Every tick of the dashboard; one that was restarted believes nothing yet.
DetectRunningTools ==
    /\ Await /\ believed' \in {pc # "down", FALSE}
    /\ UNCHANGED <<config, daemonVars, game, player, running, history, events>>

StopFocus ==
    /\ Event /\ pc' = "down" /\ believed' \in {believed, FALSE}
    /\ UNCHANGED <<config, checked, port, scripts, game, player, running, history>>

\* actions/set-work-focus.js --focus none.
SetWorkFocusNone ==
    /\ Event /\ holder' = None /\ Written(None)
    /\ UNCHANGED <<fallback, own, simulacrum, daemonVars, game, player, running, believed, unserved>>

\* A refresh message, which the daemon takes from anyone.
Refresh ==
    /\ Event /\ SendPast([action |-> "refresh", owner |-> None, all |-> FALSE, sleeve |-> 0])
    /\ UNCHANGED <<config, pc, checked, scripts, game, player, running, believed, wanted, unserved>>

\* actions/install-augments.js: the file stays, everything else starts over.
Install ==
    /\ Event /\ holder' = "work" /\ wanted' = "work" /\ crossed' = FALSE
    /\ pc' = "down" /\ port' = <<>> /\ scripts' = <<>> /\ running' = {} /\ believed' = FALSE
    /\ activity' = "IDLE" /\ bladeActs' = FALSE
    /\ task' = [i \in Sleeve |-> None] /\ unserved' = Sleeve
    /\ installed' \in BOOLEAN
    /\ UNCHANGED <<fallback, own, simulacrum, checked, numSleeves>>

BuySleeve ==
    /\ Event /\ numSleeves < MaxSleeves
    /\ numSleeves' = numSleeves + 1 /\ unserved' = unserved \cup {numSleeves}
    /\ UNCHANGED <<config, daemonVars, task, installed, player, running, believed, wanted, crossed>>

\* The player starts some work by hand.
WorkByHand ==
    /\ Event /\ \E work \in Work \ {"IDLE"} : Begin(work)
    /\ UNCHANGED <<config, daemonVars, game, running, believed, history>>

Dashboard ==
    \/ \E d \in Owner \cup {None} :
          \/ ClaimFocus(d)
          \/ \E i \in Counted : ClaimSleeve(FALSE, i, d)
          \/ ClaimSleeve(TRUE, 0, d)
    \/ \E d \in Owner : StopTool(d)
    \/ StartTools \/ DetectRunningTools \/ StopFocus \/ SetWorkFocusNone \/ Refresh

Scripts == CheckSimulacrum \/ AssignSleeve
Next ==
    \/ \E launched \in BOOLEAN : Start(launched)
    \/ Daemon \/ Scripts \/ Cycle \/ Dashboard
    \/ Install \/ BuySleeve \/ WorkByHand

\* The daemon's loop goes on; the scripts and the cycles get their turn in its
\* sleeps; home has room for the check again and again.
Fairness ==
    /\ WF_vars(Daemon) /\ SF_vars(Wake(TRUE)) /\ SF_vars(Scripts)
    /\ SF_vars(WorkCycle) /\ SF_vars(RepCycle) /\ SF_vars(BladeCycle)
Spec == Init /\ [][Next]_vars /\ Fairness

---------------------------------------------------------------------------
(* Properties *)

\* The file holds only what its readers understand: sleeve keys never empty, the
\* holder empty only until the daemon starts or after a stop.
TypeOK ==
    /\ holder \in Owner \cup {None, Empty} /\ fallback \in Owner \cup {None}
    /\ own \in [Sleeve -> Owner \cup {None, Unset}] /\ simulacrum \in BOOLEAN
    /\ pc \in {"down", "draining", "sleep"} /\ checked \in BOOLEAN
    /\ port \in Seq(Message) /\ Len(port) <= PortCapacity /\ scripts \in Seq(Script)
    /\ numSleeves \in 0..MaxSleeves /\ task \in [Sleeve -> Owner \cup {None}]
    /\ installed \in BOOLEAN /\ activity \in Work /\ bladeActs \in BOOLEAN
    /\ running \subseteq Owner /\ believed \in BOOLEAN
    /\ wanted \in Owner \cup {None, Empty} /\ crossed \in BOOLEAN
    /\ unserved \subseteq Sleeve /\ events \in 0..MaxEvents

Conflict == holder \in Owner /\ (fallback = holder \/ \E i \in Sleeve : own[i] = holder)

\* Whatever way a request takes, a daemon that has a sleeve does not become the
\* holder as well.  The two writers that do not look at the sleeves are exempt:
\* the default at the start, and the installation.
HolderLeavesSleeves ==
    [][Conflict' => Conflict \/ (holder = Empty /\ pc = "down") \/ Install]_vars

\* Once the daemon has emptied its port the holder is the one asked for last,
\* unless a request for another one was still in the port when the file was
\* written past it, or the port was full.
LastClaimWins == pc # "draining" /\ ~HolderPending /\ ~crossed => holder = wanted

\* When every script has run, a sleeve whose last assignment did start a script
\* works for the daemon its key names, or is idle.
SleevesServe ==
    \A i \in Counted \ unserved :
        scripts = <<>> /\ ResolveSleeveDaemon(i) \in Owner
            => task[i] \in {ResolveSleeveDaemon(i), None}

\* The flag that exempts blade, possibly left from before an installation, is
\* brought up to date although home may have no room when the daemon starts.
FlagChecked == pc # "down" ~> simulacrum = installed \/ pc = "down"

WorksFor(d) ==
    CASE d = "work"  -> activity \in {"CLASS", "CRIME"}
      [] d = "rep"   -> activity \in {"FACTION", "CLASS"}
      [] d = "blade" -> bladeActs

\* When a daemon keeps the focus, and no sleeve fallback is set, the player comes
\* to work for it and the other daemons do not interfere again.  rep leaves a
\* class that is under way alone.
HandoverCompletes ==
    \A d \in Owner :
        <>[](holder = d /\ d \in running /\ fallback = None /\ pc # "down") => <>[]WorksFor(d)

=============================================================================
