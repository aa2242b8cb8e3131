------------------------------ MODULE Contracts ------------------------------
(***************************************************************************)
(* The contracts daemon (src/src/daemons/contracts.ts).  One cycle of the  *)
(* daemon runs without an await, so it is one step: read the control port, *)
(* try every contract on the scanned servers, then the forced ones,        *)
(* publish.  The solvers and the verdicts on their answers are constants   *)
(* here; ContractRegistry gives them.                                      *)
(* The game's side (contracts appear, answers are judged) is external; so  *)
(* are the players of the control port: the dashboard, and the darknet     *)
(* coordinator that forwards every contract an agent reports.              *)
(***************************************************************************)
EXTENDS Integers, Sequences, FiniteSets, SequencesExt

CONSTANTS
  File,            \* contract files: a file stands for its host and name
  HostOf,          \* [File -> host]
  Type,            \* contract types the game generates
  Registered,      \* those with a solver
  Throwing,        \* those whose solver throws
  Solvable,        \* those whose solver agrees with the game's rule
  Accepted(_, _),  \* does the game accept the solver's answer to a problem of a type?
  Problems(_),     \* the data it may give a contract of a type that appears
  Standing(_),     \* the same for one that is there before the daemon starts
  MinTries,        \* config minTries
  FirstTries,      \* tries of a new contract
  MaxRecent,       \* MAX_RECENT
  MaxForced,       \* bound: forced attempts asked for
  MaxRestarts      \* bound: restarts of the daemon

ASSUME ContractsAssumption ==
  /\ MinTries \in Nat \ {0} /\ FirstTries \in Nat \ {0} /\ MaxRecent \in Nat \ {0}
  /\ MaxForced \in Nat /\ MaxRestarts \in Nat
ASSUME FilesAssumption == IsFiniteSet(File)
ASSUME TypesAssumption ==
  /\ "unborn" \notin Type /\ "gone" \notin Type
  /\ \A t \in Type : \A d \in Problems(t) \cup Standing(t) : Accepted(t, d) \in BOOLEAN

VARIABLES
  shelf,       \* [File -> what the file holds: Unborn, Gone or a contract]
  rooted,      \* the hosts nuke has published, none before its first status
  control,     \* CONTRACTS_CONTROL_PORT: files to force
  attempted,   \* attemptedKeys
  recent,      \* recentResults, newest first
  pending,     \* pendingContracts of the last status: <<file, reason>>
  spent,       \* history: [File -> answers submitted by [scan, forced] since the daemon started]
  parity,      \* history: the number of cycles, modulo 2
  forcedSoFar, restarts    \* bounds
vars == <<shelf, rooted, control, attempted, recent, pending, spent, parity, forcedSoFar, restarts>>

\* A contract is <<type, tries left, data, verdict>>; a file without one has no tries.  The verdict is
\* the game's on the solver's answer: solvers have no state, so that it is the same at every attempt.
Unborn == <<"unborn", 0, 0, FALSE>>
Gone == <<"gone", 0, 0, FALSE>>
TypeOf(c) == c[1]
TriesOf(c) == c[2]
DataOf(c) == c[3]
Verdict(c) == c[4]
Home == "home"
On(sh, f) == TriesOf(sh[f]) > 0
-----------------------------------------------------------------------------
Known(type) == type \in Registered
Contract(type, d) == <<type, FirstTries, d, Accepted(type, d)>>
-----------------------------------------------------------------------------
\* Either contracts are still to appear, or one is at home already, every server is known, no other
\* will come and nobody else does anything (the bounds are used up).
Init ==
  /\ \/ /\ shelf = [f \in File |-> Unborn]
        /\ rooted = {}
        /\ forcedSoFar = 0 /\ restarts = 0
     \/ \E t \in Type : \E d \in Standing(t) : \E f \in {g \in File : HostOf[g] = Home} :
        /\ shelf = [g \in File |-> IF g = f THEN Contract(t, d) ELSE Gone]
        /\ rooted = {HostOf[g] : g \in File}
        /\ forcedSoFar = MaxForced /\ restarts = MaxRestarts
  /\ control = <<>>
  /\ attempted = {}
  /\ recent = <<>>
  /\ pending = {}
  /\ spent = [f \in File |-> [scan |-> 0, forced |-> 0]]
  /\ parity = 0

Newest(list) == IF Len(list) <= MaxRecent THEN list ELSE SubSeq(list, 1, MaxRecent)

\* Submit the solver's answer: an accepted contract goes; a refused one (a throw counts as such)
\* loses a try and goes with the last.  The game takes no try for an answer it cannot read; the
\* model, on the safe side of what may be lost, takes one.  `how` is "scan" or "forced".
Submit(st, f, how) ==
  LET c    == st.shelf[f]
      left == IF Verdict(c) \/ TriesOf(c) = 1 THEN Gone
              ELSE <<TypeOf(c), TriesOf(c) - 1, DataOf(c), Verdict(c)>>
      result == [file |-> f, type |-> TypeOf(c), success |-> Verdict(c)]
  IN  [st EXCEPT !.shelf[f] = left,
                 !.attempted = @ \cup {f},
                 !.recent = Newest(<<result>> \o @),
                 !.spent[f][how] = @ + 1]

\* Why a scan passes a contract over, or "" when it submits an answer.
Skip_Untracked(st, f) ==
  LET c == st.shelf[f] IN
  CASE ~Known(TypeOf(c)) -> "no solver"
    [] TriesOf(c) < MinTries -> "low tries"
    [] TypeOf(c) \in Throwing -> "solver error"
    [] OTHER -> ""

\* A key without the host: files of one name on two hosts are taken for one.
Skip_NameOnly(st, f) ==
  LET c == st.shelf[f] IN
  CASE st.attempted # {} -> "previously failed"
    [] ~Known(TypeOf(c)) -> "no solver"
    [] TriesOf(c) < MinTries -> "low tries"
    [] TypeOf(c) \in Throwing -> "solver error"
    [] OTHER -> ""

Skip_AnyTries(st, f) ==
  LET c == st.shelf[f] IN
  CASE f \in st.attempted -> "previously failed"
    [] ~Known(TypeOf(c)) -> "no solver"
    [] TypeOf(c) \in Throwing -> "solver error"
    [] OTHER -> ""

Skip(st, f) ==
  LET c == st.shelf[f] IN
  CASE f \in st.attempted -> "previously failed"
    [] ~Known(TypeOf(c)) -> "no solver"
    [] TriesOf(c) < MinTries -> "low tries"
    [] TypeOf(c) \in Throwing -> "solver error"
    [] OTHER -> ""

Scan(st, f) ==
  IF Skip(st, f) = "" THEN Submit(st, f, "scan")
  ELSE [st EXCEPT !.pending = @ \cup {<<f, Skip(st, f)>>}]

\* A forced attempt looks at neither attemptedKeys nor minTries; submitted, it leaves the list.
ForcedAttempt_StaysPending(st, f) ==
  IF On(st.shelf, f) /\ Known(TypeOf(st.shelf[f])) /\ TypeOf(st.shelf[f]) \notin Throwing
  THEN Submit(st, f, "forced")
  ELSE st

ForcedAttempt(st, f) ==
  IF On(st.shelf, f) /\ Known(TypeOf(st.shelf[f])) /\ TypeOf(st.shelf[f]) \notin Throwing
  THEN LET done == Submit(st, f, "forced")
       IN  [done EXCEPT !.pending = {p \in @ : p[1] # f}]
  ELSE st

\* All files found are scanned, one after the other, and all attempts asked for are made.
ScanAll(start, files) ==
  LET after[k \in 0 .. Len(files)] == IF k = 0 THEN start ELSE Scan(after[k - 1], files[k])
  IN  after[Len(files)]
ForceAll(start, asked) ==
  LET after[k \in 0 .. Len(asked)] == IF k = 0 THEN start ELSE ForcedAttempt(after[k - 1], asked[k])
  IN  after[Len(asked)]

\* The servers of nuke's status and home, or home alone.
Servers == {Home} \cup rooted

Cycle ==
  LET files == SetToSeq({f \in File : On(shelf, f) /\ HostOf[f] \in Servers})
      start == [shelf |-> shelf, attempted |-> attempted, recent |-> recent, pending |-> {}, spent |-> spent]
      after == ForceAll(ScanAll(start, files), control)
  IN  /\ control' = <<>>
      /\ shelf' = after.shelf
      /\ attempted' = after.attempted
      /\ recent' = after.recent
      /\ pending' = after.pending
      /\ spent' = after.spent
      /\ parity' = 1 - parity
      /\ UNCHANGED <<rooted, forcedSoFar, restarts>>

\* The daemon is killed and started again: its memory is new, the status stays on its port.
Restart ==
  /\ restarts < MaxRestarts
  /\ restarts' = restarts + 1
  /\ attempted' = {}
  /\ recent' = <<>>
  /\ spent' = [f \in File |-> [scan |-> 0, forced |-> 0]]
  /\ UNCHANGED <<shelf, rooted, control, pending, parity, forcedSoFar>>

\* External: the game puts a contract on a server.
Appear(f) ==
  /\ TypeOf(shelf[f]) = "unborn"
  /\ \E t \in Type : \E d \in Problems(t) : shelf' = [shelf EXCEPT ![f] = Contract(t, d)]
  /\ UNCHANGED <<rooted, control, attempted, recent, pending, spent, parity, forcedSoFar, restarts>>

\* External: nuke publishes the servers it has rooted.
NukePublishes ==
  /\ rooted = {}
  /\ rooted' = {HostOf[f] : f \in File}
  /\ UNCHANGED <<shelf, control, attempted, recent, pending, spent, parity, forcedSoFar, restarts>>

\* External: the dashboard or the darknet coordinator asks for an attempt.
AskForced(f) ==
  /\ TypeOf(shelf[f]) # "unborn"
  /\ forcedSoFar < MaxForced
  /\ forcedSoFar' = forcedSoFar + 1
  /\ control' = Append(control, f)
  /\ UNCHANGED <<shelf, rooted, attempted, recent, pending, spent, parity, restarts>>

Next ==
  \/ Cycle
  \/ Restart
  \/ NukePublishes
  \/ \E f \in File : Appear(f) \/ AskForced(f)

\* The daemon's loop always comes back after `interval` (a cycle is always possible, so this is weak
\* fairness of it, said without ENABLED); nuke publishes in its own first cycle.
Fairness == []<><<parity' # parity>>_parity /\ WF_vars(NukePublishes)
Spec == Init /\ [][Next]_vars /\ Fairness
-----------------------------------------------------------------------------
AllAccepted(types) == \A k \in DOMAIN recent : recent[k].type \in types => recent[k].success

\* No answer of a solver is ever refused, so that none costs a try.  The one-pass sweeps and tables
\* find what the game computes from all choices (stock-trader.ts, array-jumping.ts, merge-intervals.ts,
\* unique-paths.ts, total-primes.ts and the like; shortcuts and loop bounds are where they can fail).
\* Compression is shortest and decodes to the input, decompression takes every legal encoding, the
\* Hamming codes have the exact length and correct any one flipped bit (lz-compression.ts,
\* rle-compression.ts, hamming-codes.ts, the ciphers).  The searches find all solutions, or a best
\* one, or say rightly that there is none (sanitize-parentheses.ts, ip-addresses.ts,
\* math-expressions.ts, shortest-path.ts, graph-coloring.ts, largest-rectangle.ts).
AnswersRight == AllAccepted(Solvable)

\* A scan spends a try on a contract only if this daemon has never answered it, forced attempts
\* included (contracts.ts:38-41): a refused answer is not given again on the daemon's own account.
ScanRepeatsNothing ==
  [][\A f \in File : spent'[f].scan > spent[f].scan => spent[f] = [scan |-> 0, forced |-> 0]]_vars

\* A refused answer of a scan leaves minTries - 1 tries, so that with minTries above one no contract
\* is used up by scans alone, however often the daemon restarts and forgets what it tried
\* (contracts.ts:145): the last tries are the player's.
LastTriesKept ==
  [][\A f \in File :
        On(shelf, f) /\ ~Verdict(shelf[f]) /\ TriesOf(shelf'[f]) < TriesOf(shelf[f])
          => TriesOf(shelf'[f]) >= MinTries - 1 \/ spent'[f].forced > spent[f].forced]_vars

\* A step that ends with a publication.
Published == parity' # parity

\* A published list shows no contract that is gone, and leaves out of the scanned ones that remain
\* only those answered in this very cycle (contracts.ts:128-135, 234-236).
ListIsCurrent ==
  [][Published =>
       /\ \A p \in pending' : On(shelf', p[1])
       /\ \A f \in File : On(shelf', f) /\ HostOf[f] \in Servers /\ spent'[f] = spent[f]
                          => \E p \in pending' : p[1] = f]_vars

\* Every contract of a type whose solver is right is solved in the end, wherever it appears.
SolvableSolved ==
  \A f \in File : (On(shelf, f) /\ TypeOf(shelf[f]) \in Solvable) ~> TypeOf(shelf[f]) = "gone"
=============================================================================
