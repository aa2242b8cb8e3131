---------------------------- MODULE FocusProofs ----------------------------
(***************************************************************************)
(* What TLAPS proves of Focus, for every number of sleeves, default holder *)
(* and port capacity.                                                      *)
(***************************************************************************)
EXTENDS Focus, Integers, SequenceTheorems, FiniteSetTheorems, TLAPS

---------------------------------------------------------------------------
(* The control port. *)

\* Taking the oldest value moves the others up.
LEMMA TakeHead ==
    ASSUME NEW S, NEW q \in Seq(S), q # <<>>
    PROVE  /\ Head(q) \in S /\ 1 \in DOMAIN q /\ Head(q) = q[1]
           /\ Tail(q) \in Seq(S) /\ Len(q) \in Nat /\ Len(Tail(q)) = Len(q) - 1
           /\ \A i \in DOMAIN Tail(q) : /\ i \in Nat \ {0} /\ i + 1 \in DOMAIN q
                                        /\ Tail(q)[i] = q[i + 1]
           /\ \A i \in DOMAIN q : i # 1 => i \in Nat /\ i - 1 \in DOMAIN Tail(q)
<1>1. /\ Head(q) \in S /\ Tail(q) \in Seq(S) /\ Head(q) = q[1]
      /\ Len(Tail(q)) = Len(q) - 1 /\ Len(q) \in Nat \ {0}
      /\ \A i \in 1..Len(Tail(q)) : Tail(q)[i] = q[i + 1]
  BY EmptySeq, LenProperties, HeadTailProperties
<1>2. DOMAIN q = 1..Len(q) /\ DOMAIN Tail(q) = 1..(Len(q) - 1)
  BY <1>1, LenProperties
<1> QED BY <1>1, <1>2

\* A written value is the last; the others are those there were, one less if the
\* port was full.
LEMMA WrittenLast ==
    ASSUME NEW S, NEW q \in Seq(S), NEW v \in S, NEW capacity \in Nat \ {0},
           Len(q) <= capacity
    PROVE  LET w == PortWrite(q, v, capacity)
               n == Len(w)
           IN  /\ w \in Seq(S) /\ n \in 1..capacity /\ DOMAIN w = 1..n /\ w[n] = v
               /\ \E d \in {0, 1} :
                    /\ \A i \in 1..(n - 1) : i + d \in DOMAIN q /\ w[i] = q[i + d]
                    /\ \A i \in DOMAIN q : i > d => i - d \in 1..(n - 1)
<1> DEFINE kept == IF Len(q) < capacity THEN q ELSE Tail(q)
           w == PortWrite(q, v, capacity)
<1>1. w = Append(kept, v) /\ Len(q) \in Nat /\ DOMAIN q = 1..Len(q)
  BY LenProperties DEF PortWrite
<1> DEFINE d == IF Len(q) < capacity THEN 0 ELSE 1
<1>2. /\ d \in {0, 1} /\ kept \in Seq(S) /\ Len(kept) \in Nat
      /\ Len(kept) = Len(q) - d /\ Len(kept) < capacity /\ DOMAIN kept = 1..Len(kept)
      /\ \A i \in DOMAIN kept : i + d \in DOMAIN q /\ kept[i] = q[i + d]
  <2>1. CASE Len(q) < capacity
    BY <1>1, <2>1
  <2>2. CASE ~(Len(q) < capacity)
    <3>1. q # <<>>
      BY <1>1, <2>2
    <3>2. Tail(q) \in Seq(S) /\ Len(Tail(q)) = Len(q) - 1 /\ Len(q) = capacity
      <4>1. Tail(q) \in Seq(S) /\ Len(Tail(q)) = Len(q) - 1
        BY <3>1, TakeHead
      <4>2. \A n \in Nat : n <= capacity /\ ~(n < capacity) => n = capacity
        OBVIOUS
      <4>3. Len(q) = capacity
        BY <1>1, <2>2, <4>2, Zenon
      <4> QED BY <4>1, <4>3
    <3>3. DOMAIN Tail(q) = 1..Len(Tail(q))
      BY <3>2, LenProperties
    <3>4. \A i \in DOMAIN Tail(q) : i + 1 \in DOMAIN q /\ Tail(q)[i] = q[i + 1]
      BY <3>1, TakeHead
    <3> QED BY <1>1, <2>2, <3>2, <3>3, <3>4
  <2> QED BY <2>1, <2>2
<1> HIDE DEF kept, d
<1>3. /\ w \in Seq(S) /\ Len(w) = Len(kept) + 1 /\ w[Len(kept) + 1] = v
      /\ \A i \in 1..Len(kept) : w[i] = kept[i]
  BY <1>1, <1>2, AppendProperties
<1>4. DOMAIN w = 1..Len(w)
  BY <1>3, LenProperties
<1> HIDE DEF w
<1>5. Len(w) \in 1..capacity /\ w[Len(w)] = v /\ Len(w) - 1 = Len(kept)
  BY <1>2, <1>3
<1>6. \A i \in 1..(Len(w) - 1) : i + d \in DOMAIN q /\ w[i] = q[i + d]
  BY <1>2, <1>3, <1>5
<1>7. \A i \in DOMAIN q : i > d => i - d \in 1..(Len(w) - 1)
  BY <1>1, <1>2, <1>5
<1> QED BY <1>2, <1>3, <1>4, <1>5, <1>6, <1>7 DEF w

---------------------------------------------------------------------------
(* No request makes a daemon the holder while it keeps a sleeve. *)

\* What HolderLeavesSleeves says of one step.
StepLeavesSleeves == Conflict' => Conflict \/ (holder = Empty /\ pc = "down") \/ Install

\* A new holder whose keys are cleared conflicts with none of them.
LEMMA ClearedKeys ==
    ASSUME NEW d \in Owner \cup {None}, ClearSleeveConflicts(d), holder' = d
    PROVE  ~Conflict'
BY DEF Conflict, ClearSleeveConflicts, Owner, None

\* Clearing keys under the same holder adds no conflict.
LEMMA FewerKeys ==
    ASSUME NEW d \in Owner \cup {None}, ClearSleeveConflicts(d), holder' = holder, Conflict'
    PROVE  Conflict
BY DEF Conflict, ClearSleeveConflicts, Owner, None

\* Each message the daemon handles, and each step of the others.
LEMMA StepKeepsSleeves == [Next]_vars => StepLeavesSleeves
<1> SUFFICES ASSUME [Next]_vars, Conflict' PROVE Conflict \/ (holder = Empty /\ pc = "down") \/ Install
  BY DEF StepLeavesSleeves
<1>1. CASE UNCHANGED <<holder, fallback, own>>
  BY <1>1 DEF Conflict
<1>2. CASE \E launched \in BOOLEAN : Start(launched)
  BY <1>2 DEF Start, Conflict
<1>3. CASE HandleSetHolder
  <2>1. CASE message.owner = None
    BY <1>3, <2>1 DEF HandleSetHolder, Conflict, Owner, None
  <2>2. CASE message.owner # None
    <3>1. holder' = message.owner /\ ClearSleeveConflicts(message.owner)
      BY <1>3, <2>2 DEF HandleSetHolder
    <3> QED BY <3>1 DEF Conflict, ClearSleeveConflicts, Owner, None
  <2> QED BY <2>1, <2>2
<1>4. CASE HandleSetSleeve
  <2>1. CASE SleeveRefused
    BY <1>4, <2>1, <1>1 DEF HandleSetSleeve
  <2>2. CASE ~SleeveRefused
    <3>1. /\ holder' = holder
          /\ fallback' = IF message.all THEN message.owner ELSE fallback
          /\ own' = [i \in Sleeve |-> IF i \in Targets THEN message.owner ELSE own[i]]
      BY <1>4, <2>2 DEF HandleSetSleeve
    <3>2. holder \in Owner => message.owner # holder
      BY <2>2 DEF SleeveRefused, Owner, None
    <3> QED BY <3>1, <3>2 DEF Conflict
  <2> QED BY <2>1, <2>2
<1>5. CASE \E d \in Owner \cup {None} : ClaimFocus(d)
  <2> PICK d \in Owner \cup {None} : ClaimFocus(d)
    BY <1>5
  <2>1. CASE believed
    BY <2>1, <1>1 DEF ClaimFocus
  <2>2. CASE ~believed
    BY <2>2, ClearedKeys DEF ClaimFocus
  <2> QED BY <2>1, <2>2
<1>6. ASSUME NEW all \in BOOLEAN, NEW i, NEW d \in Owner \cup {None}, ClaimSleeve(all, i, d)
      PROVE  Conflict
  <2>1. CASE believed
    BY <1>6, <2>1 DEF ClaimSleeve, Conflict
  <2>2. CASE ~believed
    <3>1. /\ holder' = holder /\ (d # None => d # holder)
          /\ fallback' = IF all THEN d ELSE fallback
          /\ own' = IF all THEN own ELSE [own EXCEPT ![i] = d]
      BY <1>6, <2>2 DEF ClaimSleeve
    <3> QED BY <3>1 DEF Conflict, Owner, None
  <2> QED BY <2>1, <2>2
<1>7. CASE \E d \in Owner : StopTool(d)
  <2> PICK d \in Owner : StopTool(d)
    BY <1>7
  <2>1. holder' = holder \/ holder' = Empty
    BY DEF StopTool
  <2>2. CASE holder' = Empty
    BY <2>2 DEF Conflict, Owner, Empty
  <2>3. CASE holder' = holder
    BY <2>3, FewerKeys DEF StopTool
  <2> QED BY <2>1, <2>2, <2>3
<1>8. CASE SetWorkFocusNone
  BY <1>8 DEF SetWorkFocusNone, Conflict, Owner, None
<1>9. CASE Install
  BY <1>9
<1>10. CASE Scripts \/ Cycle \/ BuySleeve \/ WorkByHand \/ StartTools \/ DetectRunningTools
            \/ StopFocus \/ Refresh
  BY <1>10, <1>1 DEF Scripts, CheckSimulacrum, AssignSleeve, RunNext, Cycle, WorkCycle, RepCycle,
     BladeCycle, BuySleeve, WorkByHand, StartTools, DetectRunningTools, StopFocus, Refresh, config
<1>11. CASE Publish \/ \E launched \in BOOLEAN : Wake(launched) \/ HandleRefresh(launched)
  BY <1>11, <1>1 DEF Publish, Wake, HandleRefresh, config
<1>12. CASE UNCHANGED vars
  BY <1>12, <1>1 DEF vars, config
<1> QED
  BY <1>2, <1>3, <1>4, <1>5, <1>6, <1>7, <1>8, <1>9, <1>10, <1>11, <1>12
  DEF Next, Daemon, Dashboard

\* HolderLeavesSleeves: a claim, a sleeve assignment and a stop, by whichever of the
\* daemon and the dashboard writes the file, never add a holder that has a sleeve.
THEOREM RequestsLeaveSleeves == Spec => HolderLeavesSleeves
<1>1. [Next]_vars => [Conflict' => Conflict \/ (holder = Empty /\ pc = "down") \/ Install]_vars
  BY StepKeepsSleeves DEF StepLeavesSleeves
<1> QED BY <1>1, PTL DEF Spec, HolderLeavesSleeves

---------------------------------------------------------------------------
(* Types *)

SomeOwner == Owner \cup {None}

\* A message a script sends fits into the port.
LEMMA SendTyped ==
    ASSUME TypeOK, NEW m \in Message, Send(m)
    PROVE  port' \in Seq(Message) /\ Len(port') <= PortCapacity
<1>1. port' = PortWrite(port, m, PortCapacity) /\ PortCapacity \in Nat \ {0}
      /\ port \in Seq(Message) /\ Len(port) <= PortCapacity
  BY FocusAssumption DEF Send, TypeOK
<1>2. port' \in Seq(Message) /\ Len(port') \in 1..PortCapacity
  BY <1>1, WrittenLast
<1> QED BY <1>1, <1>2

LEMMA MessageTyped ==
    ASSUME NEW action \in {"set-holder", "set-sleeve", "refresh"}, NEW d \in SomeOwner,
           NEW all \in BOOLEAN, NEW i \in Sleeve \cup {0}
    PROVE  [action |-> action, owner |-> d, all |-> all, sleeve |-> i] \in Message
BY DEF Message, SomeOwner

\* The scripts of a message: one for each sleeve of the set, for the same daemon.
LEMMA LaunchesTyped ==
    ASSUME NEW started \in SUBSET Sleeve, NEW d \in SomeOwner, NEW l \in Launches(started, d)
    PROVE  /\ l \in Seq(Script)
           /\ \A k \in DOMAIN l : \E i \in started : l[k] = Assign(i, d)
           /\ \A i \in started : \E k \in DOMAIN l : l[k] = Assign(i, d)
<1> DEFINE n == Cardinality(started)
<1>1. IsFiniteSet(started) /\ n \in Nat
  <2>1. IsFiniteSet(Sleeve)
    BY FocusAssumption, FS_Interval DEF Sleeve
  <2> QED BY <2>1, FS_Subset, FS_CardinalityType
<1>2. PICK order \in SetToSeqs(started) : l = [k \in DOMAIN order |-> Assign(order[k], d)]
  BY DEF Launches
<1>3. order \in [1..n -> started] /\ \A j, k \in 1..n : j # k => order[j] # order[k]
  BY <1>2 DEF SetToSeqs
<1>4. \A i \in started : \E k \in 1..n : order[k] = i
  <2>1. order \in Injection(1..n, started)
    BY <1>3 DEF Injection, IsInjective
  <2>2. IsFiniteSet(1..n) /\ Cardinality(1..n) = n
    BY <1>1, FS_Interval
  <2>3. order \in Surjection(1..n, started)
    BY <1>1, <2>1, <2>2, FS_Injection
  <2> QED BY <2>3 DEF Surjection
<1>5. l = [k \in 1..n |-> Assign(order[k], d)]
  BY <1>2, <1>3
<1>6. \A i \in started : Assign(i, d) \in Script
  BY DEF Assign, Script, SomeOwner
<1> HIDE DEF n
<1>7. l \in Seq(Script) /\ DOMAIN l = 1..n
  BY <1>1, <1>3, <1>5, <1>6
<1>8. \A k \in DOMAIN l : \E i \in started : l[k] = Assign(i, d)
  BY <1>3, <1>5
<1>9. \A i \in started : \E k \in DOMAIN l : l[k] = Assign(i, d)
  BY <1>4, <1>5
<1> QED BY <1>7, <1>8, <1>9

LEMMA TargetsTyped ==
    ASSUME TypeOK, port # <<>>, ~SleeveRefused
    PROVE  /\ message \in Message /\ Targets \in SUBSET Counted /\ Counted \in SUBSET Sleeve
           /\ \A started \in SUBSET (IF message.owner = None THEN {} ELSE Targets) :
                started \in SUBSET Targets /\ started \in SUBSET Sleeve
<1>1. message \in Message
  BY TakeHead DEF TypeOK, message
<1>2. Counted \in SUBSET Sleeve
  BY DEF Counted
<1>3. Targets \in SUBSET Counted
  BY DEF SleeveRefused, Targets
<1> QED BY <1>1, <1>2, <1>3

\* Steps of the daemon that change its port or its scripts.
LEMMA TakeTyped ==
    ASSUME TypeOK, NEW action, Take(action)
    PROVE  /\ message \in Message /\ port' \in Seq(Message) /\ Len(port') <= PortCapacity
           /\ pc' = pc /\ UNCHANGED <<simulacrum, game, player, running, believed, events>>
<1>1. /\ message \in Message /\ Tail(port) \in Seq(Message)
      /\ Len(Tail(port)) = Len(port) - 1 /\ Len(port) \in Nat
  BY TakeHead DEF Take, TypeOK, message
<1>2. port' = Tail(port) /\ Len(port) <= PortCapacity /\ PortCapacity \in Nat
  BY FocusAssumption DEF Take, TypeOK
<1> QED BY <1>1, <1>2 DEF Take

LEMMA CheckTyped ==
    ASSUME TypeOK, NEW launched \in BOOLEAN, ExecSimulacrumCheck(launched)
    PROVE  checked' \in BOOLEAN /\ scripts' \in Seq(Script)
<1>1. check \in Script
  BY DEF check, Script
<1> QED BY <1>1 DEF ExecSimulacrumCheck, TypeOK

\* What of a state the messages, the clearing of keys and the events change.
LEMMA ClearTyped ==
    ASSUME TypeOK, NEW d, ClearSleeveConflicts(d)
    PROVE  fallback' \in SomeOwner /\ own' \in [Sleeve -> SomeOwner \cup {Unset}]
BY DEF ClearSleeveConflicts, TypeOK, SomeOwner

LEMMA InitTyped == Init => TypeOK
<1> SUFFICES ASSUME Init PROVE TypeOK
  OBVIOUS
<1>1. port \in Seq(Message) /\ Len(port) <= PortCapacity /\ scripts \in Seq(Script)
  BY FocusAssumption DEF Init
<1>2. numSleeves \in 0..MaxSleeves /\ events \in 0..MaxEvents
  BY FocusAssumption DEF Init
<1>3. holder \in Owner \cup {None, Empty} /\ wanted \in Owner \cup {None, Empty}
  BY FocusAssumption DEF Init
<1>4. own \in [Sleeve -> Owner \cup {None, Unset}] /\ task \in [Sleeve -> Owner \cup {None}]
  BY DEF Init
<1> QED BY <1>1, <1>2, <1>3, <1>4 DEF Init, TypeOK, Work

LEMMA StepTyped == TypeOK /\ [Next]_vars => TypeOK'
<1> SUFFICES ASSUME TypeOK, [Next]_vars PROVE TypeOK'
  OBVIOUS
<1> USE DEF config, daemonVars, game, player, history
<1>1. CASE \E launched \in BOOLEAN : Start(launched)
  <2>1. PICK launched \in BOOLEAN : Start(launched)
    BY <1>1
  <2>2. checked' \in BOOLEAN /\ scripts' \in Seq(Script)
    BY <2>1, CheckTyped DEF Start
  <2>3. holder' \in SomeOwner \cup {Empty} /\ wanted' \in SomeOwner \cup {Empty}
    BY <2>1, FocusAssumption DEF Start, TypeOK, SomeOwner
  <2>4. believed' \in BOOLEAN /\ pc' = "draining"
    BY <2>1 DEF Start, TypeOK
  <2> QED BY <2>1, <2>2, <2>3, <2>4 DEF Start, TypeOK, SomeOwner
<1>2. CASE \E launched \in BOOLEAN : Wake(launched)
  <2>1. PICK launched \in BOOLEAN : Wake(launched)
    BY <1>2
  <2>2. checked' \in BOOLEAN /\ scripts' \in Seq(Script)
    BY <2>1, CheckTyped DEF Wake, TypeOK
  <2> QED BY <2>1, <2>2 DEF Wake, TypeOK
<1>3. CASE \E launched \in BOOLEAN : HandleRefresh(launched)
  <2>1. PICK launched \in BOOLEAN : HandleRefresh(launched)
    BY <1>3
  <2>2. checked' \in BOOLEAN /\ scripts' \in Seq(Script)
    BY <2>1, CheckTyped DEF HandleRefresh
  <2>3. /\ port' \in Seq(Message) /\ Len(port') <= PortCapacity /\ pc' = pc
        /\ UNCHANGED <<simulacrum, game, player, running, believed, events>>
    BY <2>1, TakeTyped DEF HandleRefresh
  <2> QED BY <2>1, <2>2, <2>3 DEF HandleRefresh, TypeOK
<1>4. CASE HandleSetHolder
  <2>1. /\ message \in Message /\ port' \in Seq(Message) /\ Len(port') <= PortCapacity
        /\ pc' = pc /\ UNCHANGED <<simulacrum, game, player, running, believed, events>>
    BY <1>4, TakeTyped DEF HandleSetHolder
  <2>2. holder' \in SomeOwner /\ UNCHANGED <<checked, scripts, wanted, crossed, unserved>>
    BY <1>4, <2>1 DEF HandleSetHolder, Message, SomeOwner
  <2>3. fallback' \in SomeOwner /\ own' \in [Sleeve -> SomeOwner \cup {Unset}]
    BY <1>4, ClearTyped DEF HandleSetHolder, TypeOK, SomeOwner
  <2> QED BY <2>1, <2>2, <2>3 DEF TypeOK, SomeOwner
<1>5. CASE HandleSetSleeve
  <2>1. /\ message \in Message /\ port' \in Seq(Message) /\ Len(port') <= PortCapacity
        /\ pc' = pc /\ UNCHANGED <<simulacrum, game, player, running, believed, events>>
    BY <1>5, TakeTyped DEF HandleSetSleeve
  <2>2. UNCHANGED <<holder, checked, wanted, crossed>>
    BY <1>5 DEF HandleSetSleeve
  <2>3. CASE SleeveRefused
    BY <1>5, <2>1, <2>2, <2>3 DEF HandleSetSleeve, TypeOK
  <2>4. CASE ~SleeveRefused
    <3>1. /\ Targets \in SUBSET Sleeve
          /\ \A started \in SUBSET (IF message.owner = None THEN {} ELSE Targets) :
               started \in SUBSET Targets /\ started \in SUBSET Sleeve
      BY <1>5, <2>4, TargetsTyped DEF HandleSetSleeve, Take
    <3>2. message.owner \in SomeOwner
      BY <2>1 DEF Message, SomeOwner
    <3>3. /\ fallback' \in SomeOwner
          /\ own' = [i \in Sleeve |-> IF i \in Targets THEN message.owner ELSE own[i]]
      BY <1>5, <2>4, <3>2 DEF HandleSetSleeve, TypeOK, SomeOwner
    <3>4. own' \in [Sleeve -> SomeOwner \cup {Unset}]
      BY <3>2, <3>3 DEF TypeOK, SomeOwner
    <3>5. PICK started \in SUBSET (IF message.owner = None THEN {} ELSE Targets) :
            /\ \E l \in Launches(started, message.owner) : scripts' = scripts \o l
            /\ unserved' = (unserved \cup Targets) \ started
      BY <1>5, <2>4 DEF HandleSetSleeve
    <3>6. unserved' \in SUBSET Sleeve
      BY <3>1, <3>5 DEF TypeOK
    <3>7. scripts' \in Seq(Script)
      <4>1. PICK l \in Launches(started, message.owner) : scripts' = scripts \o l
        BY <3>5
      <4>2. l \in Seq(Script)
        BY <3>1, <3>2, LaunchesTyped
      <4> QED BY <4>1, <4>2 DEF TypeOK
    <3> QED BY <2>1, <2>2, <3>3, <3>4, <3>6, <3>7 DEF TypeOK, SomeOwner
  <2> QED BY <2>3, <2>4
<1>6. CASE Publish
  BY <1>6 DEF Publish, TypeOK
<1>7. CASE Scripts
  <2>1. PICK name : RunNext(name)
    BY <1>7 DEF Scripts, CheckSimulacrum, AssignSleeve
  <2>2. Head(scripts) \in Script /\ scripts' \in Seq(Script)
    BY <2>1, TakeHead DEF RunNext, TypeOK
  <2>3. simulacrum' \in BOOLEAN
    BY <1>7 DEF Scripts, CheckSimulacrum, AssignSleeve, TypeOK
  <2>4. task' \in [Sleeve -> SomeOwner]
    <3>1. CASE CheckSimulacrum
      BY <3>1 DEF CheckSimulacrum, TypeOK, SomeOwner
    <3>2. CASE AssignSleeve
      <4>1. PICK result \in {Head(scripts).owner, None} :
              task' = [task EXCEPT ![Head(scripts).sleeve] = result]
        BY <3>2 DEF AssignSleeve
      <4>2. result \in SomeOwner
        BY <2>2, <4>1 DEF Script, SomeOwner
      <4> QED BY <4>1, <4>2 DEF TypeOK, SomeOwner
    <3> QED BY <1>7, <3>1, <3>2 DEF Scripts
  <2> QED BY <2>1, <2>2, <2>3, <2>4 DEF RunNext, TypeOK, SomeOwner
<1>8. CASE Cycle
  <2>1. activity' \in Work /\ bladeActs' \in BOOLEAN
    <3>1. CASE \E work \in Work : Begin(work)
      BY <3>1 DEF Begin
    <3>2. CASE BeginBladeAction
      BY <3>2 DEF BeginBladeAction, TypeOK, Work
    <3> QED BY <1>8, <3>1, <3>2 DEF Cycle, WorkCycle, RepCycle, BladeCycle, Work
  <2>2. UNCHANGED <<config, daemonVars, game, running, believed, history, events>>
    BY <1>8 DEF Cycle, WorkCycle, RepCycle, BladeCycle
  <2> QED BY <2>1, <2>2 DEF TypeOK
<1>9. CASE \E d \in Owner \cup {None} : ClaimFocus(d)
  <2>1. PICK d \in SomeOwner : ClaimFocus(d)
    BY <1>9 DEF SomeOwner
  <2>2. events' \in 0..MaxEvents
    BY <2>1, FocusAssumption DEF ClaimFocus, Event, TypeOK
  <2>3. CASE believed
    <3>1. port' \in Seq(Message) /\ Len(port') <= PortCapacity
      BY <2>1, <2>3, SendTyped, MessageTyped DEF ClaimFocus
    <3> QED BY <2>1, <2>2, <2>3, <3>1 DEF ClaimFocus, TypeOK, SomeOwner
  <2>4. CASE ~believed
    <3>1. fallback' \in SomeOwner /\ own' \in [Sleeve -> SomeOwner \cup {Unset}]
      BY <2>1, <2>4, ClearTyped DEF ClaimFocus
    <3>2. wanted' \in SomeOwner /\ crossed' \in BOOLEAN
      BY <2>1, <2>4 DEF ClaimFocus, Written, HolderPending
    <3> QED BY <2>1, <2>2, <2>4, <3>1, <3>2 DEF ClaimFocus, TypeOK, SomeOwner
  <2> QED BY <2>3, <2>4
<1>10. ASSUME NEW d \in SomeOwner, NEW all \in BOOLEAN, NEW i \in Sleeve \cup {0},
              ~all => i \in Sleeve, ClaimSleeve(all, i, d)
       PROVE  TypeOK'
  <2>1. events' \in 0..MaxEvents
    BY <1>10, FocusAssumption DEF ClaimSleeve, Event, TypeOK
  <2>2. CASE believed
    <3>1. port' \in Seq(Message) /\ Len(port') <= PortCapacity /\ crossed' \in BOOLEAN
      BY <1>10, <2>2, SendTyped, MessageTyped DEF ClaimSleeve, SendPast, TypeOK, HolderPending
    <3> QED BY <1>10, <2>1, <2>2, <3>1 DEF ClaimSleeve, TypeOK
  <2>3. CASE ~believed
    <3>1. fallback' \in SomeOwner /\ own' \in [Sleeve -> SomeOwner \cup {Unset}]
      BY <1>10, <2>3 DEF ClaimSleeve, TypeOK, SomeOwner
    <3>2. unserved' \in SUBSET Sleeve
      BY <1>10, <2>3 DEF ClaimSleeve, TypeOK
    <3> QED BY <1>10, <2>1, <2>3, <3>1, <3>2 DEF ClaimSleeve, TypeOK, SomeOwner
  <2> QED BY <2>2, <2>3
<1>11. CASE \E d \in Owner : StopTool(d)
  <2>1. PICK d \in Owner : StopTool(d)
    BY <1>11
  <2>2. fallback' \in SomeOwner /\ own' \in [Sleeve -> SomeOwner \cup {Unset}]
    BY <2>1, ClearTyped DEF StopTool
  <2>3. /\ holder' \in SomeOwner \cup {Empty} /\ wanted' \in SomeOwner \cup {Empty}
        /\ crossed' \in BOOLEAN
    BY <2>1 DEF StopTool, Written, HolderPending, TypeOK, SomeOwner
  <2>4. running' \subseteq Owner /\ events' \in 0..MaxEvents
    BY <2>1, FocusAssumption DEF StopTool, Event, TypeOK
  <2> QED BY <2>1, <2>2, <2>3, <2>4 DEF StopTool, TypeOK, SomeOwner
<1>12. CASE StartTools \/ DetectRunningTools \/ StopFocus
  <2>1. events' \in 0..MaxEvents
    <3>1. Event \/ events' = events
      BY <1>12 DEF StartTools, DetectRunningTools, StopFocus
    <3> QED BY <3>1, FocusAssumption DEF Event, TypeOK
  <2> QED BY <1>12, <2>1 DEF StartTools, DetectRunningTools, StopFocus, TypeOK
<1>13. CASE SetWorkFocusNone
  <2>1. events' \in 0..MaxEvents /\ crossed' \in BOOLEAN
    BY <1>13, FocusAssumption DEF SetWorkFocusNone, Event, TypeOK, Written, HolderPending
  <2> QED BY <1>13, <2>1 DEF SetWorkFocusNone, Written, TypeOK
<1>14. CASE Refresh
  <2>1. port' \in Seq(Message) /\ Len(port') <= PortCapacity /\ crossed' \in BOOLEAN
    BY <1>14, SendTyped, MessageTyped DEF Refresh, SendPast, TypeOK, HolderPending, SomeOwner
  <2>2. events' \in 0..MaxEvents
    BY <1>14, FocusAssumption DEF Refresh, Event, TypeOK
  <2> QED BY <1>14, <2>1, <2>2 DEF Refresh, TypeOK
<1>15. CASE Install
  <2>1. events' \in 0..MaxEvents
    BY <1>15, FocusAssumption DEF Install, Event, TypeOK
  <2>2. port' \in Seq(Message) /\ Len(port') <= PortCapacity /\ scripts' \in Seq(Script)
    BY <1>15, FocusAssumption DEF Install
  <2>3. task' \in [Sleeve -> Owner \cup {None}] /\ unserved' \subseteq Sleeve
    BY <1>15 DEF Install
  <2> QED BY <1>15, <2>1, <2>2, <2>3 DEF Install, TypeOK, Owner, Work
<1>16. CASE BuySleeve
  <2>1. /\ events' \in 0..MaxEvents /\ numSleeves' \in 0..MaxSleeves
        /\ unserved' \subseteq Sleeve
    BY <1>16, FocusAssumption DEF BuySleeve, Event, TypeOK, Sleeve
  <2> QED BY <1>16, <2>1 DEF BuySleeve, TypeOK
<1>17. CASE WorkByHand
  <2>1. events' \in 0..MaxEvents
    BY <1>17, FocusAssumption DEF WorkByHand, Event, TypeOK
  <2> QED BY <1>17, <2>1 DEF WorkByHand, Begin, TypeOK
<1>18. CASE UNCHANGED vars
  BY <1>18 DEF vars, TypeOK
<1>19. CASE Dashboard
  <2>1. \A i \in Counted : i \in Sleeve
    BY DEF Counted
  <2> QED
    BY <1>19, <2>1, <1>9, <1>10, <1>11, <1>12, <1>13, <1>14 DEF Dashboard, SomeOwner
<1> QED
  BY <1>1, <1>2, <1>3, <1>4, <1>5, <1>6, <1>7, <1>8, <1>15, <1>16, <1>17, <1>18, <1>19
  DEF Next, Daemon

\* The file holds only what its readers understand, whoever writes it.
THEOREM FocusTypeCorrect == Spec => []TypeOK
  BY InitTyped, StepTyped, PTL DEF Spec

---------------------------------------------------------------------------
(* The last claim wins. *)

\* The last request for the holder in a port.
LastRequest(q, k) ==
    /\ k \in DOMAIN q /\ q[k].action = "set-holder"
    /\ \A l \in DOMAIN q : l > k => q[l].action # "set-holder"

\* Unless a request was overtaken or dropped, the last one in the port, or the file
\* when there is none, names the holder wanted.
ClaimsInOrder ==
    ~crossed => /\ \A k \in DOMAIN port : LastRequest(port, k) => port[k].owner = wanted
                /\ ~HolderPending => holder = wanted

\* The value at the head is pending, and so is whatever is left without it.
LEMMA TakenRequest ==
    ASSUME TypeOK, NEW action, Take(action)
    PROVE  /\ \A k \in DOMAIN port' : LastRequest(port', k) => LastRequest(port, k + 1)
           /\ \A k \in DOMAIN port' : k + 1 \in DOMAIN port /\ port'[k] = port[k + 1]
           /\ ~HolderPending' /\ action # "set-holder" => ~HolderPending
           /\ ~HolderPending' /\ action = "set-holder" => LastRequest(port, 1)
           /\ 1 \in DOMAIN port /\ message = port[1]
<1>1. /\ port # <<>> /\ port' = Tail(port) /\ port \in Seq(Message) /\ message.action = action
  BY DEF Take, TypeOK
<1>2. /\ 1 \in DOMAIN port /\ message = port[1]
      /\ \A i \in DOMAIN Tail(port) : /\ i \in Nat \ {0} /\ i + 1 \in DOMAIN port
                                      /\ Tail(port)[i] = port[i + 1]
      /\ \A i \in DOMAIN port : i # 1 => i \in Nat /\ i - 1 \in DOMAIN Tail(port)
  BY <1>1, TakeHead DEF message
<1>3. \A i \in DOMAIN port : i \in Nat \ {0}
  BY <1>1, LenProperties
<1>4. \A i \in DOMAIN port : i # 1 => i - 1 \in DOMAIN port' /\ port'[i - 1] = port[i]
  <2> SUFFICES ASSUME NEW i \in DOMAIN port, i # 1
               PROVE  i - 1 \in DOMAIN port' /\ port'[i - 1] = port[i]
    OBVIOUS
  <2>1. i - 1 \in DOMAIN Tail(port) /\ (i - 1) + 1 = i
    BY <1>2, <1>3
  <2>2. Tail(port)[i - 1] = port[(i - 1) + 1]
    BY <1>2, <2>1
  <2> QED BY <1>1, <2>1, <2>2
<1>5. ASSUME NEW k \in DOMAIN port', LastRequest(port', k) PROVE LastRequest(port, k + 1)
  <2>1. k \in Nat /\ k + 1 \in DOMAIN port /\ port[k + 1].action = "set-holder"
    BY <1>1, <1>2, <1>5 DEF LastRequest
  <2>2. ASSUME NEW l \in DOMAIN port, l > k + 1 PROVE port[l].action # "set-holder"
    <3>1. l # 1 /\ l - 1 > k
      BY <1>3, <2>1, <2>2
    <3> QED BY <1>4, <1>5, <3>1 DEF LastRequest
  <2> QED BY <2>1, <2>2 DEF LastRequest
<1>6. ASSUME ~HolderPending' PROVE \A l \in DOMAIN port : l # 1 => port[l].action # "set-holder"
  BY <1>4, <1>6 DEF HolderPending
<1>7. ASSUME ~HolderPending', action # "set-holder" PROVE ~HolderPending
  BY <1>1, <1>2, <1>6, <1>7 DEF HolderPending
<1>8. ASSUME ~HolderPending', action = "set-holder" PROVE LastRequest(port, 1)
  BY <1>1, <1>2, <1>3, <1>6, <1>8 DEF LastRequest
<1> QED BY <1>1, <1>2, <1>5, <1>7, <1>8

\* A message that is no request for the holder.
LEMMA SentPast ==
    ASSUME TypeOK, ClaimsInOrder, NEW m \in Message, m.action # "set-holder",
           SendPast(m), UNCHANGED <<holder, wanted>>
    PROVE  ClaimsInOrder'
<1> DEFINE w == PortWrite(port, m, PortCapacity)
           n == Len(w)
<1>1. port' = w /\ port \in Seq(Message) /\ Len(port) <= PortCapacity
      /\ PortCapacity \in Nat \ {0}
  BY FocusAssumption DEF SendPast, Send, TypeOK
<1>2. /\ w \in Seq(Message) /\ n \in 1..PortCapacity /\ DOMAIN w = 1..n /\ w[n] = m
      /\ \E d \in {0, 1} :
           /\ \A i \in 1..(n - 1) : i + d \in DOMAIN port /\ w[i] = port[i + d]
           /\ \A i \in DOMAIN port : i > d => i - d \in 1..(n - 1)
  BY <1>1, WrittenLast
<1> HIDE DEF w
<1>3. PICK d \in {0, 1} :
        /\ \A i \in 1..(n - 1) : i + d \in DOMAIN port /\ w[i] = port[i + d]
        /\ \A i \in DOMAIN port : i > d => i - d \in 1..(n - 1)
  BY <1>2
<1>4. \A i \in DOMAIN port : i \in Nat
  BY <1>1, LenProperties
<1>5. ASSUME NEW k \in DOMAIN w, LastRequest(w, k)
      PROVE  k \in 1..(n - 1) /\ LastRequest(port, k + d) /\ w[k] = port[k + d]
  <2>1. w[k].action = "set-holder"
    BY <1>5 DEF LastRequest
  <2>2. k # n
    BY <1>2, <2>1
  <2>3. k \in 1..(n - 1)
    BY <1>2, <2>2
  <2>4. k + d \in DOMAIN port /\ w[k] = port[k + d]
    BY <1>3, <2>3
  <2>5. ASSUME NEW l \in DOMAIN port, l > k + d PROVE port[l].action # "set-holder"
    <3>1. l > d /\ l - d > k /\ (l - d) + d = l
      BY <1>4, <2>3, <2>5
    <3>2. l - d \in 1..(n - 1)
      BY <1>3, <3>1
    <3>3. w[l - d] = port[l] /\ l - d \in DOMAIN w
      BY <1>2, <1>3, <3>1, <3>2
    <3> QED BY <1>5, <3>1, <3>3 DEF LastRequest
  <2> QED BY <2>1, <2>3, <2>4, <2>5 DEF LastRequest
<1>6. ASSUME ~crossed' PROVE ~crossed /\ (HolderPending => HolderPending')
  BY <1>6 DEF SendPast, HolderPending
<1> QED BY <1>1, <1>5, <1>6 DEF ClaimsInOrder, LastRequest

LEMMA ClaimSent ==
    ASSUME TypeOK, NEW m \in Message, m.action = "set-holder", Send(m), wanted' = m.owner
    PROVE  ClaimsInOrder'
<1> DEFINE w == PortWrite(port, m, PortCapacity)
           n == Len(w)
<1>1. port' = w /\ port \in Seq(Message) /\ Len(port) <= PortCapacity
      /\ PortCapacity \in Nat \ {0}
  BY FocusAssumption DEF Send, TypeOK
<1>2. n \in 1..PortCapacity /\ DOMAIN w = 1..n /\ w[n] = m
  BY <1>1, WrittenLast
<1> HIDE DEF w
<1>3. ASSUME NEW k \in DOMAIN w, LastRequest(w, k) PROVE k = n
  <2>1. n \in DOMAIN w /\ ~(n > k)
    BY <1>2, <1>3 DEF LastRequest
  <2> QED BY <1>2, <2>1
<1>4. HolderPending'
  BY <1>1, <1>2 DEF HolderPending
<1> QED BY <1>1, <1>2, <1>3, <1>4 DEF ClaimsInOrder

LEMMA InitClaims == Init => ClaimsInOrder
BY DEF Init, ClaimsInOrder, LastRequest

LEMMA StepClaims == TypeOK /\ ClaimsInOrder /\ [Next]_vars => ClaimsInOrder'
<1> SUFFICES ASSUME TypeOK, ClaimsInOrder, [Next]_vars PROVE ClaimsInOrder'
  OBVIOUS
<1> USE DEF config, daemonVars, game, player, history
<1>1. CASE UNCHANGED <<port, holder, wanted, crossed>>
  BY <1>1 DEF ClaimsInOrder, LastRequest, HolderPending
<1>2. ASSUME NEW d, holder' = d, Written(d), UNCHANGED port PROVE ClaimsInOrder'
  BY <1>2 DEF ClaimsInOrder, LastRequest, HolderPending, Written
<1>3. CASE \E launched \in BOOLEAN : Start(launched)
  BY <1>3 DEF Start, ClaimsInOrder, LastRequest, HolderPending
<1>4. ASSUME NEW action, action # "set-holder", Take(action), UNCHANGED <<holder, wanted, crossed>>
      PROVE  ClaimsInOrder'
  BY <1>4, TakenRequest DEF ClaimsInOrder
<1>5. CASE HandleSetHolder
  <2>1. Take("set-holder") /\ holder' = message.owner /\ UNCHANGED <<wanted, crossed>>
    BY <1>5 DEF HandleSetHolder
  <2> QED BY <2>1, TakenRequest DEF ClaimsInOrder
<1>6. CASE HandleSetSleeve \/ \E launched \in BOOLEAN : HandleRefresh(launched)
  BY <1>4, <1>6 DEF HandleSetSleeve, HandleRefresh
<1>7. CASE \E d \in Owner \cup {None} : ClaimFocus(d)
  <2>1. PICK d \in SomeOwner : ClaimFocus(d)
    BY <1>7 DEF SomeOwner
  <2>2. CASE believed
    BY <2>1, <2>2, ClaimSent, MessageTyped DEF ClaimFocus
  <2>3. CASE ~believed
    BY <2>1, <2>3, <1>2 DEF ClaimFocus
  <2> QED BY <2>2, <2>3
<1>8. ASSUME NEW d \in SomeOwner, NEW all \in BOOLEAN, NEW i \in Sleeve \cup {0},
             ClaimSleeve(all, i, d)
      PROVE  ClaimsInOrder'
  <2>1. CASE believed
    BY <1>8, <2>1, SentPast, MessageTyped DEF ClaimSleeve
  <2>2. CASE ~believed
    BY <1>1, <1>8, <2>2 DEF ClaimSleeve
  <2> QED BY <2>1, <2>2
<1>9. CASE \E d \in Owner : StopTool(d)
  BY <1>1, <1>2, <1>9 DEF StopTool
<1>10. CASE SetWorkFocusNone
  BY <1>2, <1>10 DEF SetWorkFocusNone
<1>11. CASE Refresh
  BY <1>11, SentPast, MessageTyped DEF Refresh, SomeOwner
<1>12. CASE Install
  BY <1>12 DEF Install, ClaimsInOrder, HolderPending
<1>13. CASE \/ \E launched \in BOOLEAN : Wake(launched)
            \/ Publish \/ Scripts \/ Cycle \/ StartTools \/ DetectRunningTools \/ StopFocus
            \/ BuySleeve \/ WorkByHand \/ UNCHANGED vars
  BY <1>1, <1>13 DEF Wake, Publish, Scripts, CheckSimulacrum, AssignSleeve, RunNext, Cycle,
     WorkCycle, RepCycle, BladeCycle, StartTools, DetectRunningTools, StopFocus, BuySleeve,
     WorkByHand, vars
<1>14. CASE Dashboard
  <2>1. \A i \in Counted : i \in Sleeve
    BY DEF Counted
  <2> QED BY <1>7, <1>8, <1>9, <1>10, <1>11, <1>13, <1>14, <2>1 DEF Dashboard, SomeOwner
<1> QED BY <1>3, <1>5, <1>6, <1>12, <1>13, <1>14 DEF Next, Daemon

\* Once the port is empty of requests, the holder is the one asked for last, whichever
\* of the daemon, the dashboard and the scripts wrote the file.
THEOREM LastClaimAlwaysWins == Spec => []LastClaimWins
<1>1. TypeOK /\ ClaimsInOrder => LastClaimWins
  BY DEF ClaimsInOrder, LastClaimWins
<1> QED BY <1>1, InitTyped, StepTyped, InitClaims, StepClaims, PTL DEF Spec

---------------------------------------------------------------------------
(* Sleeves work for whom the file says. *)

ForSleeve(q, k, i) == q[k].name = "assign-sleeve" /\ q[k].sleeve = i

\* The last script waiting for a sleeve starts it on the task of its key; without
\* one, the sleeve is on that task, or idle.
ScriptsFollowKeys ==
    \A i \in Counted \ unserved : ResolveSleeveDaemon(i) \in Owner =>
        /\ \A k \in DOMAIN scripts :
             ForSleeve(scripts, k, i) /\ (\A l \in DOMAIN scripts : l > k => ~ForSleeve(scripts, l, i))
               => scripts[k].owner = ResolveSleeveDaemon(i)
        /\ (\A k \in DOMAIN scripts : ~ForSleeve(scripts, k, i))
             => task[i] \in {ResolveSleeveDaemon(i), None}

\* A change of the file that gives no sleeve a new owner.
LEMMA KeysKept ==
    ASSUME ScriptsFollowKeys, UNCHANGED <<scripts, task>>,
           \A i \in (Counted \ unserved)' :
              /\ i \in Counted \ unserved
              /\ ResolveSleeveDaemon(i)' \in Owner
                   => ResolveSleeveDaemon(i)' = ResolveSleeveDaemon(i)
    PROVE  ScriptsFollowKeys'
BY DEF ScriptsFollowKeys, ForSleeve

LEMMA ClearKept ==
    ASSUME TypeOK, ScriptsFollowKeys, UNCHANGED <<scripts, task, numSleeves, unserved>>,
           NEW d \in SomeOwner, ClearSleeveConflicts(d)
    PROVE  ScriptsFollowKeys'
<1>1. \A i \in Sleeve : ResolveSleeveDaemon(i)' \in Owner
                          => ResolveSleeveDaemon(i)' = ResolveSleeveDaemon(i)
  <2> SUFFICES ASSUME NEW i \in Sleeve, ResolveSleeveDaemon(i)' \in Owner
               PROVE  ResolveSleeveDaemon(i)' = ResolveSleeveDaemon(i)
    OBVIOUS
  <2>1. /\ own'[i] = IF own[i] = d THEN None ELSE own[i]
        /\ fallback' = IF fallback = d THEN None ELSE fallback
        /\ d # Unset
    BY DEF ClearSleeveConflicts, SomeOwner, Owner, None, Unset
  <2>2. None \notin Owner /\ None # Unset
    BY DEF Owner, None, Unset
  <2>3. CASE own[i] = Unset
    BY <2>1, <2>2, <2>3 DEF ResolveSleeveDaemon
  <2>4. CASE own[i] # Unset
    BY <2>1, <2>2, <2>4 DEF ResolveSleeveDaemon
  <2> QED BY <2>3, <2>4
<1> QED BY <1>1, KeysKept DEF Counted

\* The check is no script for a sleeve.
LEMMA CheckKept ==
    ASSUME TypeOK, ScriptsFollowKeys, NEW launched \in BOOLEAN, ExecSimulacrumCheck(launched),
           UNCHANGED <<fallback, own, task, numSleeves, unserved>>
    PROVE  ScriptsFollowKeys'
<1>1. CASE scripts' = scripts
  BY <1>1, KeysKept DEF ResolveSleeveDaemon, Counted
<1>2. CASE scripts' = Append(scripts, check)
  <2> DEFINE n == Len(scripts)
  <2>1. /\ scripts \in Seq(Script) /\ n \in Nat /\ DOMAIN scripts = 1..n
        /\ check \in Script /\ check.name # "assign-sleeve"
    BY LenProperties DEF TypeOK, check, Script
  <2>2. /\ DOMAIN scripts' = 1..(n + 1) /\ scripts'[n + 1] = check
        /\ \A k \in 1..n : scripts'[k] = scripts[k]
    BY <1>2, <2>1
  <2> HIDE DEF n
  <2>3. \A i : ~ForSleeve(scripts', n + 1, i)
    BY <2>1, <2>2 DEF ForSleeve
  <2>4. \A i, k : k \in DOMAIN scripts => (ForSleeve(scripts', k, i) <=> ForSleeve(scripts, k, i))
    BY <2>1, <2>2 DEF ForSleeve
  <2>5. \A k \in DOMAIN scripts' : k \in DOMAIN scripts \/ k = n + 1
    BY <2>1, <2>2
  <2>6. DOMAIN scripts \in SUBSET (DOMAIN scripts') /\ \A k \in DOMAIN scripts : scripts'[k] = scripts[k]
    BY <2>1, <2>2
  <2>7. \A i : ResolveSleeveDaemon(i)' = ResolveSleeveDaemon(i)
    BY DEF ResolveSleeveDaemon
  <2>8. (Counted \ unserved)' = Counted \ unserved
    BY DEF Counted
  <2> SUFFICES ASSUME NEW i \in Counted \ unserved, ResolveSleeveDaemon(i) \in Owner
               PROVE  /\ \A k \in DOMAIN scripts' :
                           ForSleeve(scripts', k, i) /\ (\A l \in DOMAIN scripts' : l > k => ~ForSleeve(scripts', l, i))
                             => scripts'[k].owner = ResolveSleeveDaemon(i)
                      /\ (\A k \in DOMAIN scripts' : ~ForSleeve(scripts', k, i))
                           => task[i] \in {ResolveSleeveDaemon(i), None}
    BY <2>7, <2>8 DEF ScriptsFollowKeys
  <2>9. ASSUME NEW k \in DOMAIN scripts', ForSleeve(scripts', k, i),
               \A l \in DOMAIN scripts' : l > k => ~ForSleeve(scripts', l, i)
        PROVE  scripts'[k].owner = ResolveSleeveDaemon(i)
    <3>1. k \in DOMAIN scripts
      BY <2>3, <2>5, <2>9
    <3>2. ForSleeve(scripts, k, i) /\ \A l \in DOMAIN scripts : l > k => ~ForSleeve(scripts, l, i)
      BY <2>4, <2>6, <2>9, <3>1
    <3> QED BY <2>6, <3>1, <3>2 DEF ScriptsFollowKeys
  <2>10. ASSUME \A k \in DOMAIN scripts' : ~ForSleeve(scripts', k, i)
         PROVE  task[i] \in {ResolveSleeveDaemon(i), None}
    <3>1. \A k \in DOMAIN scripts : ~ForSleeve(scripts, k, i)
      BY <2>4, <2>6, <2>10
    <3> QED BY <3>1 DEF ScriptsFollowKeys
  <2> QED BY <2>9, <2>10
<1> QED BY <1>1, <1>2 DEF ExecSimulacrumCheck

\* A script that runs was the first; if it was the last for its sleeve, the sleeve
\* now does what it said, or nothing.
LEMMA RunKept ==
    ASSUME TypeOK, ScriptsFollowKeys, Scripts PROVE ScriptsFollowKeys'
<1>1. PICK name : RunNext(name)
  BY DEF Scripts, CheckSimulacrum, AssignSleeve
<1>2. /\ scripts # <<>> /\ scripts' = Tail(scripts) /\ scripts \in Seq(Script)
      /\ UNCHANGED <<fallback, own, numSleeves, unserved>>
  BY <1>1 DEF RunNext, TypeOK, history
<1>3. /\ 1 \in DOMAIN scripts /\ Head(scripts) = scripts[1] /\ Head(scripts) \in Script
      /\ \A k \in DOMAIN scripts' : /\ k \in Nat \ {0} /\ k + 1 \in DOMAIN scripts
                                    /\ scripts'[k] = scripts[k + 1]
      /\ \A k \in DOMAIN scripts : k # 1 => k \in Nat /\ k - 1 \in DOMAIN scripts'
  BY <1>2, TakeHead
<1>4. \A k \in DOMAIN scripts : k \in Nat \ {0}
  BY <1>2, LenProperties
<1>5. \A k, i : k \in DOMAIN scripts' => (ForSleeve(scripts', k, i) <=> ForSleeve(scripts, k + 1, i))
  BY <1>3 DEF ForSleeve
<1>6. \A l \in DOMAIN scripts : l # 1 => l - 1 \in DOMAIN scripts' /\ (l - 1) + 1 = l
  BY <1>3, <1>4
<1>7. /\ \A i : ResolveSleeveDaemon(i)' = ResolveSleeveDaemon(i)
      /\ (Counted \ unserved)' = Counted \ unserved /\ Counted \in SUBSET Sleeve
  BY <1>2 DEF ResolveSleeveDaemon, Counted
<1> SUFFICES ASSUME NEW i \in Counted \ unserved, ResolveSleeveDaemon(i) \in Owner
             PROVE  /\ \A k \in DOMAIN scripts' :
                         ForSleeve(scripts', k, i) /\ (\A l \in DOMAIN scripts' : l > k => ~ForSleeve(scripts', l, i))
                           => scripts'[k].owner = ResolveSleeveDaemon(i)
                    /\ (\A k \in DOMAIN scripts' : ~ForSleeve(scripts', k, i))
                         => task'[i] \in {ResolveSleeveDaemon(i), None}
  BY <1>7 DEF ScriptsFollowKeys
<1>8. ASSUME NEW k \in DOMAIN scripts', ForSleeve(scripts', k, i),
             \A l \in DOMAIN scripts' : l > k => ~ForSleeve(scripts', l, i)
      PROVE  scripts'[k].owner = ResolveSleeveDaemon(i)
  <2>1. k + 1 \in DOMAIN scripts /\ ForSleeve(scripts, k + 1, i) /\ k \in Nat \ {0}
    BY <1>3, <1>5, <1>8
  <2>2. ASSUME NEW l \in DOMAIN scripts, l > k + 1 PROVE ~ForSleeve(scripts, l, i)
    <3>1. l # 1 /\ l - 1 > k
      BY <1>4, <2>1, <2>2
    <3>2. l - 1 \in DOMAIN scripts' /\ (l - 1) + 1 = l
      BY <1>6, <3>1
    <3> QED BY <1>5, <1>8, <3>1, <3>2
  <2>3. scripts[k + 1].owner = ResolveSleeveDaemon(i)
    BY <2>1, <2>2 DEF ScriptsFollowKeys
  <2> QED BY <1>3, <1>8, <2>3
<1>9. ASSUME \A k \in DOMAIN scripts' : ~ForSleeve(scripts', k, i)
      PROVE  task'[i] \in {ResolveSleeveDaemon(i), None}
  <2>1. \A l \in DOMAIN scripts : l # 1 => ~ForSleeve(scripts, l, i)
    <3> SUFFICES ASSUME NEW l \in DOMAIN scripts, l # 1 PROVE ~ForSleeve(scripts, l, i)
      OBVIOUS
    <3>1. l - 1 \in DOMAIN scripts' /\ (l - 1) + 1 = l
      BY <1>6
    <3> QED BY <1>5, <1>9, <3>1
  <2>2. CASE ForSleeve(scripts, 1, i)
    <3>1. scripts[1].owner = ResolveSleeveDaemon(i)
      <4>1. \A l \in DOMAIN scripts : l > 1 => ~ForSleeve(scripts, l, i)
        BY <1>4, <2>1
      <4> QED BY <1>3, <2>2, <4>1 DEF ScriptsFollowKeys
    <3>2. AssignSleeve
      BY <1>3, <2>2 DEF Scripts, CheckSimulacrum, RunNext, ForSleeve
    <3>3. PICK result \in {scripts[1].owner, None} : task' = [task EXCEPT ![i] = result]
      BY <1>3, <2>2, <3>2 DEF AssignSleeve, ForSleeve
    <3>4. task'[i] = result
      BY <1>7, <3>3 DEF TypeOK
    <3> QED BY <3>1, <3>3, <3>4
  <2>3. CASE ~ForSleeve(scripts, 1, i)
    <3>1. task[i] \in {ResolveSleeveDaemon(i), None}
      BY <2>1, <2>3 DEF ScriptsFollowKeys
    <3>2. task'[i] = task[i]
      <4>1. CASE CheckSimulacrum
        BY <4>1 DEF CheckSimulacrum
      <4>2. CASE AssignSleeve
        <5>1. Head(scripts).sleeve # i
          BY <1>3, <2>3, <4>2 DEF AssignSleeve, RunNext, ForSleeve
        <5>2. PICK result : task' = [task EXCEPT ![Head(scripts).sleeve] = result]
          BY <4>2 DEF AssignSleeve
        <5> QED BY <1>7, <5>1, <5>2 DEF TypeOK
      <4> QED BY <4>1, <4>2 DEF Scripts
    <3> QED BY <3>1, <3>2
  <2> QED BY <2>2, <2>3
<1> QED BY <1>8, <1>9

\* A sleeve whose key a message sets is served by the script it starts, or not at all.
LEMMA SetSleeveKept ==
    ASSUME TypeOK, ScriptsFollowKeys, HandleSetSleeve PROVE ScriptsFollowKeys'
<1>1. UNCHANGED <<task, numSleeves>>
  BY DEF HandleSetSleeve, Take, game
<1>2. CASE SleeveRefused
  BY <1>1, <1>2, KeysKept DEF HandleSetSleeve, ResolveSleeveDaemon, Counted
<1>3. CASE ~SleeveRefused
  <2>1. /\ message \in Message /\ Targets \in SUBSET Counted /\ Counted \in SUBSET Sleeve
        /\ \A started \in SUBSET (IF message.owner = None THEN {} ELSE Targets) :
             started \in SUBSET Targets /\ started \in SUBSET Sleeve
    BY <1>3, TargetsTyped DEF HandleSetSleeve, Take
  <2> DEFINE d == message.owner
  <2>2. d \in SomeOwner
    BY <2>1 DEF Message, SomeOwner
  <2>3. /\ fallback' = IF message.all THEN d ELSE fallback
        /\ own' = [i \in Sleeve |-> IF i \in Targets THEN d ELSE own[i]]
        /\ \E started \in SUBSET (IF d = None THEN {} ELSE Targets) :
             /\ \E l \in Launches(started, d) : scripts' = scripts \o l
             /\ unserved' = (unserved \cup Targets) \ started
    BY <1>3 DEF HandleSetSleeve
  <2> HIDE DEF d
  <2>4. PICK started \in SUBSET (IF d = None THEN {} ELSE Targets) :
             /\ \E l \in Launches(started, d) : scripts' = scripts \o l
             /\ unserved' = (unserved \cup Targets) \ started
    BY <2>3
  <2>5. PICK new \in Launches(started, d) : scripts' = scripts \o new
    BY <2>4
  <2>6. started \in SUBSET Targets /\ started \in SUBSET Sleeve
    BY <2>1 DEF d
  <2>7. /\ new \in Seq(Script)
        /\ \A k \in DOMAIN new : \E i \in started : new[k] = Assign(i, d)
        /\ \A i \in started : \E k \in DOMAIN new : new[k] = Assign(i, d)
    BY <2>2, <2>6, LaunchesTyped
  <2> DEFINE n == Len(scripts)
             m == Len(new)
  <2>8. /\ scripts \in Seq(Script) /\ n \in Nat /\ m \in Nat
        /\ DOMAIN scripts = 1..n /\ DOMAIN new = 1..m
    BY <2>7, LenProperties DEF TypeOK
  <2>9. /\ DOMAIN scripts' = 1..(n + m)
        /\ \A k \in 1..n : scripts'[k] = scripts[k]
        /\ \A k \in 1..m : scripts'[n + k] = new[k]
    BY <2>5, <2>7, <2>8, ConcatProperties
  <2> HIDE DEF n, m
  <2>10. \A k \in DOMAIN scripts' : k \in 1..n \/ (k > n /\ k - n \in 1..m /\ scripts'[k] = new[k - n])
    <3> SUFFICES ASSUME NEW k \in DOMAIN scripts', ~(k \in 1..n)
                 PROVE  k > n /\ k - n \in 1..m /\ scripts'[k] = new[k - n]
      OBVIOUS
    <3>1. k > n /\ k - n \in 1..m /\ n + (k - n) = k
      BY <2>8, <2>9
    <3> QED BY <2>9, <3>1
  <2> SUFFICES ASSUME NEW i \in (Counted \ unserved)', ResolveSleeveDaemon(i)' \in Owner
               PROVE  /\ \A k \in DOMAIN scripts' :
                           ForSleeve(scripts', k, i) /\ (\A l \in DOMAIN scripts' : l > k => ~ForSleeve(scripts', l, i))
                             => scripts'[k].owner = ResolveSleeveDaemon(i)'
                      /\ (\A k \in DOMAIN scripts' : ~ForSleeve(scripts', k, i))
                           => task'[i] \in {ResolveSleeveDaemon(i)', None}
    BY DEF ScriptsFollowKeys
  <2>11. i \in Counted /\ i \in Sleeve
    BY <1>1, <2>1 DEF Counted
  <2>12. CASE i \in Targets
    <3>1. i \in started
      BY <2>4, <2>12
    <3>2. ResolveSleeveDaemon(i)' = d
      BY <2>2, <2>3, <2>11, <2>12 DEF ResolveSleeveDaemon, SomeOwner, Owner, None, Unset
    <3>3. PICK a \in 1..m : new[a] = Assign(i, d)
      BY <2>7, <2>8, <3>1
    <3>4. n + a \in DOMAIN scripts' /\ ForSleeve(scripts', n + a, i)
      BY <2>8, <2>9, <3>3 DEF ForSleeve, Assign
    <3>5. ASSUME NEW k \in DOMAIN scripts',
                 \A l \in DOMAIN scripts' : l > k => ~ForSleeve(scripts', l, i)
          PROVE  scripts'[k].owner = d
      <4>1. ~(n + a > k)
        BY <3>4, <3>5
      <4>2. k - n \in 1..m /\ scripts'[k] = new[k - n]
        BY <2>8, <2>9, <2>10, <4>1
      <4>3. PICK j \in started : new[k - n] = Assign(j, d)
        BY <2>7, <2>8, <4>2
      <4> QED BY <4>2, <4>3 DEF Assign
    <3> QED BY <3>2, <3>4, <3>5
  <2>13. CASE i \notin Targets
    <3>1. ~message.all
      BY <2>11, <2>13 DEF Targets
    <3>2. ResolveSleeveDaemon(i)' = ResolveSleeveDaemon(i)
      BY <2>3, <2>11, <2>13, <3>1 DEF ResolveSleeveDaemon
    <3>3. i \in Counted \ unserved
      BY <2>4, <2>6, <2>11, <2>13
    <3>4. \A k \in DOMAIN scripts' : ForSleeve(scripts', k, i) => k \in 1..n
      <4> SUFFICES ASSUME NEW k \in DOMAIN scripts', ~(k \in 1..n) PROVE ~ForSleeve(scripts', k, i)
        OBVIOUS
      <4>1. k - n \in DOMAIN new /\ scripts'[k] = new[k - n]
        BY <2>8, <2>10
      <4>2. PICK j \in started : new[k - n] = Assign(j, d)
        BY <2>7, <4>1
      <4>3. j # i
        BY <2>6, <2>13
      <4> QED BY <4>1, <4>2, <4>3 DEF ForSleeve, Assign
    <3>5. /\ \A k \in 1..n : k \in DOMAIN scripts' /\ (ForSleeve(scripts', k, i) <=> ForSleeve(scripts, k, i))
          /\ \A k \in 1..n : scripts'[k] = scripts[k]
      BY <2>8, <2>9 DEF ForSleeve
    <3>6. ASSUME NEW k \in DOMAIN scripts', ForSleeve(scripts', k, i),
                 \A l \in DOMAIN scripts' : l > k => ~ForSleeve(scripts', l, i)
          PROVE  scripts'[k].owner = ResolveSleeveDaemon(i)
      <4>1. k \in DOMAIN scripts /\ ForSleeve(scripts, k, i)
        BY <2>8, <3>4, <3>5, <3>6
      <4>2. \A l \in DOMAIN scripts : l > k => ~ForSleeve(scripts, l, i)
        BY <2>8, <3>5, <3>6
      <4>3. scripts[k].owner = ResolveSleeveDaemon(i)
        BY <3>2, <3>3, <4>1, <4>2 DEF ScriptsFollowKeys
      <4> QED BY <2>8, <3>5, <4>1, <4>3
    <3>7. ASSUME \A k \in DOMAIN scripts' : ~ForSleeve(scripts', k, i)
          PROVE  task'[i] \in {ResolveSleeveDaemon(i), None}
      <4>1. \A k \in DOMAIN scripts : ~ForSleeve(scripts, k, i)
        BY <2>8, <3>5, <3>7
      <4> QED BY <1>1, <3>2, <3>3, <4>1 DEF ScriptsFollowKeys
    <3> QED BY <3>2, <3>6, <3>7
  <2> QED BY <2>12, <2>13
<1> QED BY <1>2, <1>3

LEMMA InitSleeves == Init => ScriptsFollowKeys
<1> SUFFICES ASSUME Init PROVE ScriptsFollowKeys
  OBVIOUS
<1>1. \A i \in Sleeve : ResolveSleeveDaemon(i) = None
  BY DEF Init, ResolveSleeveDaemon
<1> QED BY <1>1 DEF ScriptsFollowKeys, Counted, Owner, None

LEMMA StepSleeves == TypeOK /\ ScriptsFollowKeys /\ [Next]_vars => ScriptsFollowKeys'
<1> SUFFICES ASSUME TypeOK, ScriptsFollowKeys, [Next]_vars PROVE ScriptsFollowKeys'
  OBVIOUS
<1> USE DEF config, daemonVars, game, player, history
<1>1. CASE UNCHANGED <<fallback, own, scripts, task, numSleeves, unserved>>
  BY <1>1, KeysKept DEF ResolveSleeveDaemon, Counted
<1>2. CASE \E launched \in BOOLEAN : Start(launched) \/ Wake(launched) \/ HandleRefresh(launched)
  <2>1. PICK launched \in BOOLEAN : Start(launched) \/ Wake(launched) \/ HandleRefresh(launched)
    BY <1>2
  <2>2. UNCHANGED <<fallback, own, task, numSleeves, unserved>>
    BY <2>1 DEF Start, Wake, HandleRefresh, Take
  <2>3. ExecSimulacrumCheck(launched) \/ scripts' = scripts
    BY <2>1 DEF Start, Wake, HandleRefresh
  <2> QED BY <1>1, <2>2, <2>3, CheckKept
<1>3. CASE HandleSetHolder
  <2>1. message.owner \in SomeOwner
    <3>1. message \in Message
      BY <1>3, TakeTyped DEF HandleSetHolder
    <3> QED BY <3>1 DEF Message, SomeOwner
  <2>2. UNCHANGED <<scripts, task, numSleeves, unserved>>
    BY <1>3 DEF HandleSetHolder, Take
  <2>3. ClearSleeveConflicts(message.owner) \/ UNCHANGED <<fallback, own>>
    BY <1>3 DEF HandleSetHolder
  <2> QED BY <1>1, <2>1, <2>2, <2>3, ClearKept
<1>4. CASE HandleSetSleeve
  BY <1>4, SetSleeveKept
<1>5. CASE Scripts
  BY <1>5, RunKept
<1>6. CASE \E d \in Owner \cup {None} : ClaimFocus(d)
  <2>1. PICK d \in SomeOwner : ClaimFocus(d)
    BY <1>6 DEF SomeOwner
  <2> QED BY <1>1, <2>1, ClearKept DEF ClaimFocus
<1>7. ASSUME NEW d \in SomeOwner, NEW all \in BOOLEAN, NEW i \in Sleeve \cup {0},
             ClaimSleeve(all, i, d)
      PROVE  ScriptsFollowKeys'
  <2>1. CASE believed
    BY <1>1, <1>7, <2>1 DEF ClaimSleeve
  <2>2. CASE ~believed
    <3>1. /\ fallback' = IF all THEN d ELSE fallback
          /\ own' = IF all THEN own ELSE [own EXCEPT ![i] = d]
          /\ unserved' = unserved \cup IF all THEN {j \in Sleeve : own[j] = Unset} ELSE {i}
          /\ UNCHANGED <<scripts, task, numSleeves>>
      BY <1>7, <2>2 DEF ClaimSleeve
    <3>2. ASSUME NEW j \in (Counted \ unserved)'
          PROVE  j \in Counted \ unserved /\ ResolveSleeveDaemon(j)' = ResolveSleeveDaemon(j)
      <4>1. j \in Sleeve /\ j \in Counted \ unserved
        BY <3>1, <3>2 DEF Counted
      <4>2. CASE all
        BY <3>1, <3>2, <4>1, <4>2 DEF ResolveSleeveDaemon
      <4>3. CASE ~all
        BY <3>1, <3>2, <4>1, <4>3 DEF ResolveSleeveDaemon, TypeOK
      <4> QED BY <4>1, <4>2, <4>3
    <3> QED BY <3>1, <3>2, KeysKept
  <2> QED BY <2>1, <2>2
<1>8. CASE \E d \in Owner : StopTool(d)
  BY <1>8, ClearKept DEF StopTool, SomeOwner
<1>9. CASE Install
  <2>1. unserved' = Sleeve /\ Counted' \in SUBSET Sleeve
    BY <1>9 DEF Install, Counted
  <2> QED BY <2>1 DEF ScriptsFollowKeys
<1>10. CASE BuySleeve
  <2>1. /\ numSleeves' = numSleeves + 1 /\ unserved' = unserved \cup {numSleeves}
        /\ UNCHANGED <<fallback, own, scripts, task>> /\ numSleeves \in Nat
    BY <1>10, FocusAssumption DEF BuySleeve, TypeOK
  <2>2. \A i \in (Counted \ unserved)' : i \in Counted \ unserved
    <3> SUFFICES ASSUME NEW i \in (Counted \ unserved)' PROVE i \in Counted \ unserved
      OBVIOUS
    <3>1. i \in Sleeve /\ i < numSleeves + 1 /\ i # numSleeves /\ i \notin unserved /\ i \in Int
      BY <2>1, FocusAssumption DEF Counted, Sleeve
    <3>2. i < numSleeves
      BY <2>1, <3>1
    <3> QED BY <3>1, <3>2 DEF Counted
  <2> QED BY <2>1, <2>2, KeysKept DEF ResolveSleeveDaemon
<1>11. CASE \/ Publish \/ Cycle \/ StartTools \/ DetectRunningTools \/ StopFocus
            \/ WorkByHand \/ SetWorkFocusNone \/ Refresh \/ UNCHANGED vars
  BY <1>1, <1>11 DEF Publish, Cycle, WorkCycle, RepCycle, BladeCycle, StartTools,
     DetectRunningTools, StopFocus, WorkByHand, SetWorkFocusNone, Refresh, vars
<1>12. CASE Dashboard
  <2>1. \A i \in Counted : i \in Sleeve
    BY DEF Counted
  <2> QED BY <1>6, <1>7, <1>8, <1>11, <1>12, <2>1 DEF Dashboard, SomeOwner
<1> QED BY <1>2, <1>3, <1>4, <1>5, <1>9, <1>10, <1>11, <1>12 DEF Next, Daemon

\* When every script has run, a sleeve that got one works for the daemon its key
\* names, or is idle.
THEOREM SleevesServeTheirKeys == Spec => []SleevesServe
<1>1. TypeOK /\ ScriptsFollowKeys => SleevesServe
  <2>1. DOMAIN <<>> = {}
    OBVIOUS
  <2> QED BY <2>1 DEF ScriptsFollowKeys, SleevesServe
<1> QED BY <1>1, InitTyped, StepTyped, InitSleeves, StepSleeves, PTL DEF Spec
============================================================================
