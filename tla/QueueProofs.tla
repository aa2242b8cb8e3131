---------------------------- MODULE QueueProofs ----------------------------
(***************************************************************************)
(* What TLAPS proves of QueueRunner, for every set of processes, RAM size, *)
(* kill tiers, requests, port capacity and rotation of status checks.      *)
(***************************************************************************)
EXTENDS QueueRunner, FoldTheorems, SequenceTheorems

---------------------------------------------------------------------------
(* drainQueue is a stable sort *)

Priorities(q) == \A i \in DOMAIN q : q[i].priority \in Nat

\* Two entries never compare equal, and the comparator is transitive.
LEMMA AheadIsStrictOrder ==
    ASSUME NEW S, NEW q \in Seq(S), Priorities(q)
    PROVE  /\ \A i \in DOMAIN q : ~Ahead(q, i, i)
           /\ \A i, j \in DOMAIN q : i # j => Ahead(q, i, j) \/ Ahead(q, j, i)
           /\ \A i, j, k \in DOMAIN q : Ahead(q, i, j) /\ Ahead(q, j, k) => Ahead(q, i, k)
<1>1. DOMAIN q \subseteq Nat /\ \A i \in DOMAIN q : q[i].priority \in Nat
  BY LenProperties DEF Priorities
<1> QED BY <1>1, SMT DEF Ahead

\* The place of an entry in the sorted sequence is one of its indices, and two
\* entries have two places, the one ahead the lower.
LEMMA PlacesDiffer ==
    ASSUME NEW S, NEW q \in Seq(S), Priorities(q)
    PROVE  /\ \A i \in DOMAIN q : Place(q, i) \in DOMAIN q
           /\ \A i, j \in DOMAIN q : Ahead(q, i, j) => Place(q, i) < Place(q, j)
<1> DEFINE before(i) == {j \in DOMAIN q : Ahead(q, j, i)}
<1>1. /\ DOMAIN q = 1..Len(q) /\ Len(q) \in Nat
      /\ IsFiniteSet(DOMAIN q) /\ Cardinality(DOMAIN q) = Len(q)
  <2>1. DOMAIN q = 1..Len(q) /\ Len(q) \in Nat
    BY LenProperties
  <2> QED BY <2>1, FS_Interval
<1>2. ASSUME NEW i \in DOMAIN q, NEW s \in SUBSET (DOMAIN q), i \notin s
      PROVE  IsFiniteSet(s) /\ Cardinality(s) \in Nat /\ Cardinality(s) < Len(q)
  <2>1. s \in SUBSET (DOMAIN q \ {i})
    BY <1>2
  <2>2. IsFiniteSet(DOMAIN q \ {i}) /\ Cardinality(DOMAIN q \ {i}) = Len(q) - 1
    BY <1>1, FS_RemoveElement
  <2>3. IsFiniteSet(s) /\ Cardinality(s) <= Cardinality(DOMAIN q \ {i})
    BY <2>1, <2>2, FS_Subset
  <2>4. Cardinality(s) \in Nat
    BY <2>3, FS_CardinalityType
  <2> QED BY <1>1, <2>2, <2>3, <2>4
<1>3. ASSUME NEW i \in DOMAIN q
      PROVE  /\ IsFiniteSet(before(i)) /\ Cardinality(before(i)) \in Nat
             /\ Place(q, i) = Cardinality(before(i)) + 1 /\ Place(q, i) \in DOMAIN q
  <2>1. before(i) \in SUBSET (DOMAIN q) /\ i \notin before(i)
    BY AheadIsStrictOrder
  <2>2. Place(q, i) = Cardinality(before(i)) + 1
    BY DEF Place
  <2> QED BY <1>1, <1>2, <2>1, <2>2
<1>4. ASSUME NEW i \in DOMAIN q, NEW j \in DOMAIN q, Ahead(q, i, j)
      PROVE  Place(q, i) < Place(q, j)
  <2>1. before(i) \in SUBSET before(j) /\ i \in before(j) /\ i \notin before(i)
    BY <1>4, AheadIsStrictOrder
  <2>2. before(i) # before(j)
    BY <2>1
  <2>3. Cardinality(before(i)) <= Cardinality(before(j))
        /\ Cardinality(before(i)) # Cardinality(before(j))
    BY <1>3, <2>1, <2>2, FS_Subset
  <2>4. /\ Cardinality(before(i)) \in Nat /\ Place(q, i) = Cardinality(before(i)) + 1
        /\ Cardinality(before(j)) \in Nat /\ Place(q, j) = Cardinality(before(j)) + 1
    BY <1>3
  <2> HIDE DEF before
  <2> QED BY <2>3, <2>4, SMT
<1> QED BY <1>3, <1>4

\* The result of drainQueue holds every entry of the port exactly once (from is
\* a bijection), and each is ahead of those after it.
IsSort(from, q, sorted) ==
    /\ from \in [DOMAIN q -> DOMAIN q]
    /\ \A k, l \in DOMAIN q : from[k] = from[l] => k = l
    /\ \A i \in DOMAIN q : \E k \in DOMAIN q : from[k] = i
    /\ \A k \in DOMAIN q : sorted[k] = q[from[k]]
    /\ \A k, l \in DOMAIN q : k < l => Ahead(q, from[k], from[l])

LEMMA DrainQueueSorts ==
    ASSUME NEW S, NEW q \in Seq(S), Priorities(q)
    PROVE  /\ DrainQueue(q) \in Seq(S)
           /\ Len(DrainQueue(q)) = Len(q) /\ DOMAIN DrainQueue(q) = DOMAIN q
           /\ \E from : IsSort(from, q, DrainQueue(q))
<1> DEFINE D == DOMAIN q
           place == [i \in D |-> Place(q, i)]
           from == [k \in D |-> CHOOSE i \in D : Place(q, i) = k]
<1>1. D = 1..Len(q) /\ Len(q) \in Nat /\ IsFiniteSet(D)
  BY LenProperties, FS_Interval
<1>2. place \in [D -> D] /\ \A i, j \in D : place[i] = place[j] => i = j
  <2>1. ASSUME NEW i \in D, NEW j \in D, i # j PROVE place[i] # place[j]
    <3>1. Place(q, i) \in Nat /\ Place(q, j) \in Nat
      BY <1>1, PlacesDiffer
    <3>2. Place(q, i) < Place(q, j) \/ Place(q, j) < Place(q, i)
      BY <2>1, PlacesDiffer, AheadIsStrictOrder
    <3> QED BY <3>1, <3>2
  <2> QED BY <2>1, PlacesDiffer
<1>3. \A k \in D : \E i \in D : place[i] = k
  <2>1. place \in Surjection(D, D)
    <3>1. place \in Injection(D, D)
      BY <1>2 DEF Injection, IsInjective
    <3> HIDE DEF place, D
    <3> QED BY <1>1, <3>1, FS_Injection
  <2> QED BY <2>1 DEF Surjection
<1>4. \A k \in D : from[k] \in D /\ Place(q, from[k]) = k
  BY <1>3
<1>5. ASSUME NEW k \in D, NEW l \in D, k < l PROVE Ahead(q, from[k], from[l])
  <2>1. from[k] # from[l]
    BY <1>1, <1>4, <1>5
  <2>2. CASE Ahead(q, from[l], from[k])
    <3>1. l < k
      BY <1>4, <2>2, PlacesDiffer
    <3> QED BY <1>1, <1>5, <3>1
  <2> QED BY <1>4, <2>1, <2>2, AheadIsStrictOrder
<1>6. \A i \in D : from[place[i]] = i
  BY <1>2, <1>4
<1>7. DrainQueue(q) = [k \in D |-> q[from[k]]]
  BY DEF DrainQueue
<1>8. DrainQueue(q) \in Seq(S) /\ Len(DrainQueue(q)) = Len(q) /\ DOMAIN DrainQueue(q) = D
  <2>1. \A k \in D : q[from[k]] \in S
    BY <1>4, ElementOfSeq
  <2> QED BY <1>1, <1>7, <2>1
<1>9. IsSort(from, q, DrainQueue(q))
  BY <1>2, <1>4, <1>5, <1>6, <1>7 DEF IsSort
<1> QED BY <1>8, <1>9

---------------------------------------------------------------------------
(* RAM *)

Table == [Process -> Nat]

LEMMA MulNat == \A x, y \in Nat : x * y \in Nat
  BY SMT

LEMMA RamValues ==
    ASSUME NEW t \in Table, NEW T \in SUBSET Process
    PROVE  /\ IsFiniteSet(T) /\ Values(Ram(t), T)
           /\ \A p \in Process : Ram(t)[p] = ScriptRam[p] * t[p] /\ Ram(t)[p] \in Nat
           /\ SumFunctionOnSet(Ram(t), T) \in Int /\ SumFunctionOnSet(Ram(t), T) >= 0
<1>1. IsFiniteSet(T)
  BY ProcessAssumption, FS_Subset
<1>2. \A p \in Process : Ram(t)[p] = ScriptRam[p] * t[p] /\ Ram(t)[p] \in Nat
  <2>1. \A p \in Process : ScriptRam[p] \in Nat /\ t[p] \in Nat
    BY ScriptRamAssumption DEF Table
  <2> QED BY <2>1, MulNat DEF Ram
<1>3. Values(Ram(t), T)
  BY <1>2 DEF Values
<1>4. SumFunctionOnSet(Ram(t), T) >= 0
  BY <1>1, <1>2, <1>3, SumNat
<1> QED BY <1>1, <1>2, <1>3, <1>4, SumType

\* Launching or ending one process changes the used RAM by its own.
LEMMA ExecRam ==
    ASSUME NEW t \in Table, NEW p \in Process, NEW n \in Nat
    PROVE  /\ Exec(t, p, n) \in Table
           /\ UsedRam(Exec(t, p, n)) = UsedRam(t) - ScriptRam[p] * t[p] + ScriptRam[p] * n
           /\ UsedRam(t) \in Int /\ UsedRam(Exec(t, p, n)) \in Int
           /\ ScriptRam[p] * t[p] \in Nat /\ ScriptRam[p] * n \in Nat
<1> DEFINE u == Exec(t, p, n)
<1>1. u \in Table /\ u[p] = n /\ \A q \in Process \ {p} : u[q] = t[q]
  BY DEF Exec, Table
<1>2. /\ Values(Ram(t), Process) /\ Ram(u)[p] \in Int
      /\ \A q \in Process \ {p} : Ram(t)[q] = Ram(u)[q]
  <2> HIDE DEF u
  <2>1. Values(Ram(t), Process)
    BY RamValues
  <2>2. Ram(u)[p] \in Nat
    BY <1>1, RamValues
  <2>3. \A q \in Process \ {p} : Ram(t)[q] = Ram(u)[q]
    BY <1>1 DEF Ram
  <2> QED BY <2>1, <2>2, <2>3
<1>3. SumFunctionOnSet(Ram(u), Process) = SumFunctionOnSet(Ram(t), Process) - Ram(t)[p] + Ram(u)[p]
  BY <1>2, ProcessAssumption, SumUpdate
<1>4. Ram(t)[p] = ScriptRam[p] * t[p] /\ Ram(u)[p] = ScriptRam[p] * n
  BY <1>1, RamValues
<1>5. Ram(t)[p] \in Nat /\ Ram(u)[p] \in Nat
  BY <1>1, RamValues
<1>6. UsedRam(t) \in Int /\ UsedRam(u) \in Int
  BY <1>1, RamValues DEF UsedRam
<1> QED BY <1>1, <1>3, <1>4, <1>5, <1>6 DEF UsedRam

\* Killing frees the RAM of the victims, counted once each.
LEMMA KillRam ==
    ASSUME NEW t \in Table, NEW victims, ToSet(victims) \in SUBSET Process
    PROVE  /\ Kill(t, victims) \in Table
           /\ UsedRam(Kill(t, victims)) = UsedRam(t) - RamOf(t, victims)
           /\ UsedRam(t) \in Int /\ RamOf(t, victims) \in Int /\ RamOf(t, victims) >= 0
<1> DEFINE u == Kill(t, victims)
           V == ToSet(victims)
<1>1. /\ u \in Table /\ \A p \in Process : u[p] = IF p \in V THEN 0 ELSE t[p]
  BY DEF Kill, Table
<1> HIDE DEF u, V
<1>2. V \in SUBSET Process /\ Process \ V \in SUBSET Process
  BY DEF V
<1>3. SumFunctionOnSet(Ram(t), Process)
        = SumFunctionOnSet(Ram(t), V) + SumFunctionOnSet(Ram(t), Process \ V)
  BY <1>2, RamValues, SumSplit, ProcessAssumption
<1>4. SumFunctionOnSet(Ram(u), Process)
        = SumFunctionOnSet(Ram(u), V) + SumFunctionOnSet(Ram(u), Process \ V)
  BY <1>1, <1>2, RamValues, SumSplit, ProcessAssumption
<1>5. SumFunctionOnSet(Ram(u), Process \ V) = SumFunctionOnSet(Ram(t), Process \ V)
  <2>1. \A p \in Process \ V : Ram(u)[p] = Ram(t)[p]
    BY <1>1 DEF Ram
  <2> QED BY <1>1, <1>2, <2>1, RamValues, SumSame
<1>6. SumFunctionOnSet(Ram(u), V) = 0
  <2>1. \A p \in V : Ram(u)[p] = 0
    <3> SUFFICES ASSUME NEW p \in V PROVE Ram(u)[p] = 0
      OBVIOUS
    <3>1. ScriptRam[p] \in Nat /\ u[p] = 0 /\ p \in Process
      BY <1>1, <1>2, ScriptRamAssumption
    <3>2. Ram(u)[p] = ScriptRam[p] * u[p]
      BY <3>1 DEF Ram
    <3> QED BY <3>1, <3>2, SMT
  <2>2. IsFiniteSet(V) /\ Values(Ram(u), V)
    BY <1>1, <1>2, RamValues
  <2> QED BY <2>1, <2>2, SumZero
<1>7. /\ SumFunctionOnSet(Ram(t), V) \in Int /\ SumFunctionOnSet(Ram(t), V) >= 0
      /\ SumFunctionOnSet(Ram(t), Process \ V) \in Int
      /\ SumFunctionOnSet(Ram(t), Process) \in Int
  BY <1>2, RamValues
<1> QED BY <1>1, <1>3, <1>4, <1>5, <1>6, <1>7 DEF UsedRam, RamOf, u, V

---------------------------------------------------------------------------
(* walkKillTiers *)

\* order lists the killable processes, each once, by tier and RAM, and the walk
\* along it stops after k of them, as soon as there is enough.
IsWalk(order, k, t, target, victims) ==
    LET killable == Killable(t, AllTiers)
        n == Cardinality(killable)
    IN  /\ n \in Nat /\ order \in [1..n -> killable] /\ Len(order) = n
        /\ \A i, j \in 1..n : order[i] = order[j] => i = j
        /\ \A p \in killable : \E i \in 1..n : order[i] = p
        /\ \A i, j \in 1..n : i < j => Before(t, AllTiers, order[i], order[j])
        /\ k \in 0..n /\ victims = SubSeq(order, 1, k)
        /\ \/ Enough(t, target, order) = {} /\ k = n
           \/ k \in Enough(t, target, order) /\ \A m \in Enough(t, target, order) : k <= m

LEMMA WalkShape ==
    ASSUME NEW t, NEW target, NEW victims \in WalkKillTiers(t, target, AllTiers)
    PROVE  \E order, k : IsWalk(order, k, t, target, victims)
<1> DEFINE killable == Killable(t, AllTiers)
           n == Cardinality(killable)
<1>1. IsFiniteSet(killable) /\ n \in Nat
  <2>1. killable \in SUBSET Process
    BY DEF Killable, Running
  <2> QED BY <2>1, ProcessAssumption, FS_Subset, FS_CardinalityType
<1>2. PICK order \in KillOrders(t, AllTiers) : victims = VictimsAlong(t, target, order)
  BY DEF WalkKillTiers
<1>3. /\ order \in [1..n -> killable]
      /\ \A i, j \in 1..n : i # j => order[i] # order[j]
      /\ \A i, j \in 1..n : i < j => Before(t, AllTiers, order[i], order[j])
  BY <1>2 DEF KillOrders, SetToSeqs
<1>4. \A p \in killable : \E i \in 1..n : order[i] = p
  <2>1. IsFiniteSet(1..n) /\ Cardinality(1..n) = n
    BY <1>1, FS_Interval
  <2>2. order \in Injection(1..n, killable)
    BY <1>3 DEF Injection, IsInjective
  <2> HIDE DEF killable
  <2>3. order \in Surjection(1..n, killable)
    BY <1>1, <2>1, <2>2, FS_Injection
  <2> QED BY <2>3 DEF Surjection
<1> HIDE DEF killable
<1>5. Len(order) = n
  BY <1>1, <1>3
<1> DEFINE enough == Enough(t, target, order)
           k == IF enough = {} THEN Len(order) ELSE Min(enough)
<1>6. enough \in SUBSET (0..n)
  BY <1>5 DEF Enough
<1>7. victims = SubSeq(order, 1, k)
  BY <1>2 DEF VictimsAlong
<1>8. k \in 0..n /\ ((enough = {} /\ k = n) \/ (k \in enough /\ \A m \in enough : k <= m))
  <2>1. CASE enough = {}
    BY <1>1, <1>5, <2>1
  <2>2. CASE enough # {}
    BY <1>1, <1>6, <2>2, MinNat
  <2> QED BY <2>1, <2>2
<1> HIDE DEF k
<1>9. IsWalk(order, k, t, target, victims)
  BY <1>1, <1>3, <1>4, <1>5, <1>7, <1>8 DEF IsWalk, killable
<1> QED BY <1>9

\* The victims are killable and, as a sequence, typed.
LEMMA WalkVictims ==
    ASSUME NEW t, NEW target, NEW victims, NEW order, NEW k,
           IsWalk(order, k, t, target, victims)
    PROVE  /\ victims \in Seq(Process) /\ Len(victims) = k
           /\ ToSet(victims) = {order[i] : i \in 1..k}
           /\ ToSet(victims) \in SUBSET Killable(t, AllTiers)
           /\ Killable(t, AllTiers) \in SUBSET Running(t) /\ Running(t) \in SUBSET Process
<1> DEFINE killable == Killable(t, AllTiers)
           n == Cardinality(killable)
<1>1. killable \in SUBSET Running(t) /\ Running(t) \in SUBSET Process
  BY DEF Killable, Running
<1> HIDE DEF killable
<1>2. /\ n \in Nat /\ order \in [1..n -> killable] /\ k \in 0..n
      /\ victims = SubSeq(order, 1, k)
  BY DEF IsWalk, killable
<1>3. order \in Seq(killable) /\ Len(order) = n
  BY <1>2
<1>4. victims \in Seq(killable) /\ Len(victims) = k /\ DOMAIN victims = 1..k
      /\ \A i \in 1..k : victims[i] = order[i]
  <2>1. victims = [i \in 1..k |-> order[i]]
    BY <1>2 DEF SubSeq
  <2> QED BY <1>2, <2>1
<1>5. ToSet(victims) = {order[i] : i \in 1..k}
  BY <1>4 DEF ToSet
<1>6. ToSet(victims) \in SUBSET killable /\ victims \in Seq(Process)
  BY <1>1, <1>2, <1>4, <1>5
<1> QED BY <1>1, <1>4, <1>5, <1>6 DEF killable

---------------------------------------------------------------------------
(* The relaunch loop *)

\* One pass of the loop at a time.
LEMMA RelaunchSteps ==
    ASSUME NEW base \in Table, NEW q \in Seq(Process)
    PROVE  \E table \in [0..Len(q) -> Table] :
               /\ table[0] = base
               /\ \A i \in 1..Len(q) : table[i] = RelaunchOne(table[i - 1], q[i])
               /\ Relaunched(base, q) = table[Len(q)]
<1> DEFINE n == Len(q)
           D == 1..n
           c == [s \in SUBSET D |-> Max(s)]
           F == [p \in D \X Table |-> RelaunchOne(p[2], q[p[1]])]
           Unfold(g) == [s \in SUBSET D |-> IF s = {} THEN base
                                            ELSE RelaunchOne(g[s \ {Max(s)}], q[Max(s)])]
           iter == CHOOSE g : g = Unfold(g)
<1>0. n \in Nat /\ DOMAIN q = D /\ IsFiniteSet(D) /\ \A i \in D : q[i] \in Process
  BY FS_Interval
<1>1. \A s \in SUBSET D : s # {} => c[s] \in s
  BY <1>0, MaxNat
<1>2. \A t \in Table, p \in Process : RelaunchOne(t, p) \in Table
  BY ExecRam DEF RelaunchOne
<1>3. F \in [D \X Table -> Table]
  BY <1>0, <1>2
<1>4. PICK g \in [SUBSET D -> Table] : FoldsOver(g, F, base, c, D)
  <2> HIDE DEF c, F, D
  <2>1. IsFiniteSet(D) /\ base \in Table
    BY <1>0
  <2> QED BY <1>1, <1>3, <2>1, FoldExists, Zenon
<1>5. ASSUME NEW s \in SUBSET D, s # {}
      PROVE  F[<<c[s], g[s \ {c[s]}]>>] = RelaunchOne(g[s \ {Max(s)}], q[Max(s)])
  <2>1. c[s] = Max(s) /\ Max(s) \in D /\ g[s \ {Max(s)}] \in Table
    BY <1>1, <1>5
  <2> QED BY <2>1
<1>6. g = Unfold(g)
  <2> HIDE DEF c, F, D
  <2> QED BY <1>4, <1>5 DEF FoldsOver
<1>7. iter = Unfold(iter)
  BY <1>6
<1>8. Relaunched(base, q) = iter[D]
  BY <1>0 DEF Relaunched, FoldLeft, MapThenFoldSet
<1> HIDE DEF iter
<1>9. iter[{}] = base
  BY <1>7
<1>10. ASSUME NEW i \in D PROVE iter[1..i] = RelaunchOne(iter[1..(i - 1)], q[i])
  <2>1. 1..i \in SUBSET D /\ 1..i # {} /\ (1..i) \ {i} = 1..(i - 1) /\ Max(1..i) = i
    BY <1>0, Prefix
  <2> QED BY <1>7, <2>1
<1> DEFINE table == [i \in 0..n |-> iter[1..i]]
           Good == {i \in Nat : i \in 0..n => iter[1..i] \in Table}
<1>11. Nat \subseteq Good
  <2>1. ASSUME NEW i \in Nat, \A m \in 0..(i - 1) : m \in Good PROVE i \in Good
    <3>1. CASE i = 0
      <4>1. 1..i = {}
        BY <3>1
      <4> QED BY <4>1, <1>9
    <3>2. CASE i \in D
      <4>1. i - 1 \in Good /\ i - 1 \in 0..n
        BY <1>0, <2>1, <3>2
      <4> QED BY <1>0, <1>2, <1>10, <3>2, <4>1
    <3>3. CASE i \notin 0..n
      BY <3>3
    <3> QED BY <1>0, <3>1, <3>2, <3>3
  <2> HIDE DEF Good
  <2> QED BY <2>1, AllNat
<1>12. table \in [0..n -> Table]
  BY <1>11
<1>13. table[0] = base
  <2>1. 1..0 = {}
    OBVIOUS
  <2> QED BY <1>0, <1>9, <2>1
<1>14. \A i \in 1..n : table[i] = RelaunchOne(table[i - 1], q[i])
  BY <1>0, <1>10
<1>15. Relaunched(base, q) = table[n]
  BY <1>0, <1>8
<1> HIDE DEF table
<1> QED BY <1>12, <1>13, <1>14, <1>15

---------------------------------------------------------------------------
(* What every process table satisfies *)

\* It fits into the RAM of home, and what runs has a file.
Sound(t) ==
    /\ t \in Table /\ UsedRam(t) <= MaxRam
    /\ \A p \in Process : t[p] > 0 => ScriptRam[p] > 0

LEMMA ExecSound ==
    ASSUME NEW t, Sound(t), NEW p \in Process, NEW n \in Nat, ScriptRam[p] > 0,
           ScriptRam[p] * n <= AvailableRam(t)
    PROVE  Sound(Exec(t, p, n))
<1>1. t \in Table
  BY DEF Sound
<1>2. /\ Exec(t, p, n) \in Table
      /\ UsedRam(Exec(t, p, n)) = UsedRam(t) - ScriptRam[p] * t[p] + ScriptRam[p] * n
      /\ UsedRam(t) \in Int /\ UsedRam(Exec(t, p, n)) \in Int
      /\ ScriptRam[p] * t[p] \in Nat /\ ScriptRam[p] * n \in Nat
  BY <1>1, ExecRam
<1>3. UsedRam(Exec(t, p, n)) <= MaxRam
  <2> DEFINE a == ScriptRam[p] * t[p]
             b == ScriptRam[p] * n
  <2>1. a \in Nat /\ b \in Nat /\ b <= MaxRam - UsedRam(t)
        /\ UsedRam(Exec(t, p, n)) = UsedRam(t) - a + b
    BY <1>2 DEF AvailableRam
  <2> HIDE DEF a, b
  <2> QED BY <1>2, <2>1, MaxRamAssumption
<1>4. \A q \in Process : Exec(t, p, n)[q] > 0 => ScriptRam[q] > 0
  BY <1>1 DEF Sound, Exec, Table
<1> QED BY <1>2, <1>3, <1>4 DEF Sound

LEMMA ExitSound ==
    ASSUME NEW t, Sound(t), NEW p \in Process
    PROVE  Sound(Exec(t, p, 0))
<1>1. t \in Table /\ ScriptRam[p] \in Nat
  BY ScriptRamAssumption DEF Sound
<1>2. /\ Exec(t, p, 0) \in Table
      /\ UsedRam(Exec(t, p, 0)) = UsedRam(t) - ScriptRam[p] * t[p] + ScriptRam[p] * 0
      /\ UsedRam(t) \in Int /\ ScriptRam[p] * t[p] \in Nat
  BY <1>1, ExecRam
<1>3. ScriptRam[p] * 0 = 0
  BY <1>1
<1>4. UsedRam(Exec(t, p, 0)) <= MaxRam
  <2> DEFINE a == ScriptRam[p] * t[p]
  <2>1. a \in Nat /\ UsedRam(Exec(t, p, 0)) = UsedRam(t) - a /\ UsedRam(t) <= MaxRam
    BY <1>2, <1>3 DEF Sound
  <2> HIDE DEF a
  <2> QED BY <1>2, <2>1, MaxRamAssumption
<1>5. \A q \in Process : Exec(t, p, 0)[q] > 0 => ScriptRam[q] > 0
  BY <1>1 DEF Sound, Exec, Table
<1> QED BY <1>2, <1>4, <1>5 DEF Sound

LEMMA KillSound ==
    ASSUME NEW t, Sound(t), NEW victims, ToSet(victims) \in SUBSET Process
    PROVE  Sound(Kill(t, victims))
<1>1. t \in Table
  BY DEF Sound
<1>2. /\ Kill(t, victims) \in Table
      /\ UsedRam(Kill(t, victims)) = UsedRam(t) - RamOf(t, victims)
      /\ UsedRam(t) \in Int /\ RamOf(t, victims) \in Int /\ RamOf(t, victims) >= 0
  BY <1>1, KillRam
<1>3. UsedRam(Kill(t, victims)) <= MaxRam
  BY <1>2, MaxRamAssumption DEF Sound
<1>4. \A q \in Process : Kill(t, victims)[q] > 0 => ScriptRam[q] > 0
  BY <1>1 DEF Sound, Kill, Table
<1> QED BY <1>2, <1>3, <1>4 DEF Sound

LEMMA RelaunchOneSound ==
    ASSUME NEW t, Sound(t), NEW p \in Process PROVE Sound(RelaunchOne(t, p))
<1>1. CASE ScriptRam[p] > 0 /\ t[p] = 0 /\ AvailableRam(t) >= ScriptRam[p]
  <2>1. ScriptRam[p] * 1 <= AvailableRam(t)
    <3>1. ScriptRam[p] \in Nat /\ UsedRam(t) \in Int /\ AvailableRam(t) = MaxRam - UsedRam(t)
      BY ScriptRamAssumption, ExecRam DEF Sound, AvailableRam
    <3> QED BY <1>1, <3>1, MaxRamAssumption
  <2> QED BY <1>1, <2>1, ExecSound DEF RelaunchOne
<1>2. CASE ~(ScriptRam[p] > 0 /\ t[p] = 0 /\ AvailableRam(t) >= ScriptRam[p])
  BY <1>2 DEF RelaunchOne
<1> QED BY <1>1, <1>2

LEMMA RelaunchedSound ==
    ASSUME NEW t, Sound(t), NEW q \in Seq(Process) PROVE Sound(Relaunched(t, q))
<1>0. t \in Table /\ Len(q) \in Nat /\ \A i \in 1..Len(q) : q[i] \in Process
  BY DEF Sound
<1>1. PICK table \in [0..Len(q) -> Table] :
        /\ table[0] = t
        /\ \A i \in 1..Len(q) : table[i] = RelaunchOne(table[i - 1], q[i])
        /\ Relaunched(t, q) = table[Len(q)]
  BY <1>0, RelaunchSteps
<1> DEFINE Good == {i \in Nat : i \in 0..Len(q) => Sound(table[i])}
<1>2. ASSUME NEW i \in Nat, \A m \in 0..(i - 1) : m \in Good PROVE i \in Good
  <2>1. CASE i = 0
    BY <1>1, <2>1
  <2>2. CASE i # 0 /\ i \in 0..Len(q)
    <3>1. i \in 1..Len(q) /\ i - 1 \in 0..Len(q) /\ i - 1 \in 0..(i - 1)
      BY <1>0, <2>2
    <3> QED BY <1>0, <1>1, <1>2, <3>1, RelaunchOneSound
  <2> QED BY <2>1, <2>2
<1>3. Nat \subseteq Good
  <2> HIDE DEF Good
  <2> QED BY <1>2, AllNat
<1> QED BY <1>0, <1>1, <1>3

LEMMA EnsureSound ==
    ASSUME NEW t, Sound(t), NEW p \in Process, NEW u \in EnsureRamAndExec(t, p)
    PROVE  Sound(u)
<1>1. CASE ScriptRam[p] = 0
  BY <1>1 DEF EnsureRamAndExec
<1>2. CASE ScriptRam[p] # 0
  <2>1. PICK victims \in WalkKillTiers(t, ScriptRam[p], AllTiers) :
          u = IF AvailableRam(Kill(t, victims)) >= ScriptRam[p]
              THEN Exec(Kill(t, victims), p, 1) ELSE Kill(t, victims)
    BY <1>2 DEF EnsureRamAndExec
  <2> DEFINE freed == Kill(t, victims)
  <2>2. Sound(freed)
    <3>1. ToSet(victims) \in SUBSET Process
      BY WalkShape, WalkVictims
    <3> QED BY <3>1, KillSound
  <2>3. u = IF AvailableRam(freed) >= ScriptRam[p] THEN Exec(freed, p, 1) ELSE freed
    BY <2>1
  <2> HIDE DEF freed
  <2>4. CASE AvailableRam(freed) >= ScriptRam[p]
    <3>1. ScriptRam[p] \in Nat /\ UsedRam(freed) \in Int
          /\ AvailableRam(freed) = MaxRam - UsedRam(freed)
      BY <2>2, ScriptRamAssumption, ExecRam DEF Sound, AvailableRam
    <3>2. ScriptRam[p] * 1 <= AvailableRam(freed) /\ ScriptRam[p] > 0
      BY <1>2, <2>4, <3>1, MaxRamAssumption
    <3> QED BY <2>2, <2>3, <2>4, <3>2, ExecSound
  <2> QED BY <2>2, <2>3, <2>4
<1> QED BY <1>1, <1>2

---------------------------------------------------------------------------
(* The inductive invariant *)

Outcome == {"missing", "handled", "skipped", "ran", "timedOut", "failed"}

\* TypeOK without the process table.
ControlOK ==
    /\ port \in Seq(Entry) /\ Len(port) <= PortCapacity
    /\ pc \in {"down", "idle", "execute", "freed", "wait", "relaunch"}
    /\ todo \in Seq(Entry) /\ (todo = <<>> <=> pc \in {"down", "idle"})
    /\ killed \in Seq(Process) /\ completed \in BOOLEAN
    /\ roundRobin \in DOMAIN StatusChecks
    /\ enqueued \in 0..MaxEntries /\ dropped \subseteq 1..enqueued
    /\ decided \in Seq([entry : Entry, outcome : Outcome])

\* What the daemon is about to start, and what it killed, has a file.
HasFile ==
    /\ \A i \in DOMAIN killed : ScriptRam[killed[i]] > 0
    /\ pc \in {"freed", "wait", "relaunch"} => ScriptRam[current.action] > 0

\* a may be served before b.
Fine(a, b) == b.id # 0 /\ a.id > b.id => a.priority > b.priority
Served == [i \in DOMAIN decided |-> decided[i].entry]

\* What is served is in order with itself and with the batch, and the port holds
\* only what was enqueued after all of it, in the order of its arrival.
InOrder ==
    /\ \A i, j \in DOMAIN decided : i < j => Fine(decided[i].entry, decided[j].entry)
    /\ \A i, j \in DOMAIN todo : i < j => Fine(todo[i], todo[j])
    /\ \A i \in DOMAIN decided, j \in DOMAIN todo : Fine(decided[i].entry, todo[j])
    /\ \A i, j \in DOMAIN todo : i # j /\ todo[i].id # 0 => todo[i].id # todo[j].id
    /\ \A i, j \in DOMAIN port : i < j => port[i].id < port[j].id
    /\ \A i \in DOMAIN decided, j \in DOMAIN port : decided[i].entry.id < port[j].id
    /\ \A i \in DOMAIN todo, j \in DOMAIN port : todo[i].id < port[j].id
    /\ \A i \in DOMAIN decided : decided[i].entry.id <= enqueued
    /\ \A i \in DOMAIN todo : todo[i].id <= enqueued
    /\ \A j \in DOMAIN port : 0 < port[j].id /\ port[j].id <= enqueued

QueueInv == Sound(procs) /\ ControlOK /\ HasFile /\ InOrder

LEMMA QueueInvTyped == ControlOK /\ Sound(procs) => TypeOK
BY DEF TypeOK, ControlOK, Sound, Table, Outcome

LEMMA InitQueueInv == Init => QueueInv
<1> SUFFICES ASSUME Init PROVE QueueInv
  OBVIOUS
<1>1. Sound(procs)
  <2>1. procs \in Table /\ \A p \in Process : procs[p] = 0
    BY DEF Init, Table
  <2>2. \A p \in Process : Ram(procs)[p] = 0
    <3> SUFFICES ASSUME NEW p \in Process PROVE Ram(procs)[p] = 0
      OBVIOUS
    <3>1. ScriptRam[p] \in Nat /\ procs[p] = 0 /\ Ram(procs)[p] = ScriptRam[p] * procs[p]
      BY <2>1, ScriptRamAssumption, RamValues
    <3> QED BY <3>1, SMT
  <2>3. UsedRam(procs) = 0
    BY <2>1, <2>2, RamValues, SumZero DEF UsedRam
  <2> QED BY <2>1, <2>3, MaxRamAssumption DEF Sound
<1>2. ControlOK
  <2>1. 1 \in DOMAIN StatusChecks
    BY ChecksAssumption
  <2>2. <<>> \in Seq(Entry) /\ <<>> \in Seq(Process) /\ Len(<<>>) = 0
        /\ <<>> \in Seq([entry : Entry, outcome : Outcome])
    OBVIOUS
  <2>3. 0 \in 0..MaxEntries /\ 0 <= PortCapacity
    BY BoundAssumption
  <2> QED BY <2>1, <2>2, <2>3 DEF Init, ControlOK
<1>3. HasFile /\ InOrder
  BY DEF Init, HasFile, InOrder
<1> QED BY <1>1, <1>2, <1>3 DEF QueueInv

---------------------------------------------------------------------------
(* Steps of the daemon *)

LEMMA CurrentType ==
    ASSUME ControlOK, todo # <<>>
    PROVE  /\ current \in Entry /\ current.action \in Process /\ Tail(todo) \in Seq(Entry)
           /\ Len(Tail(todo)) = Len(todo) - 1 /\ Len(todo) \in Nat \ {0}
           /\ DOMAIN todo = 1..Len(todo) /\ current = todo[1]
           /\ \A i \in DOMAIN Tail(todo) : i + 1 \in DOMAIN todo /\ Tail(todo)[i] = todo[i + 1]
<1>1. todo \in Seq(Entry) /\ Len(todo) \in Nat \ {0} /\ DOMAIN todo = 1..Len(todo)
  BY EmptySeq, LenProperties DEF ControlOK
<1>2. /\ current \in Entry /\ Tail(todo) \in Seq(Entry) /\ current = todo[1]
      /\ Len(Tail(todo)) = Len(todo) - 1
  BY <1>1, HeadTailProperties DEF ControlOK, current
<1>3. current.action \in Process
  BY <1>2, ActionAssumption DEF Entry
<1>4. \A i \in DOMAIN Tail(todo) : i + 1 \in DOMAIN todo /\ Tail(todo)[i] = todo[i + 1]
  BY <1>1, HeadTailProperties DEF ControlOK
<1> QED BY <1>1, <1>2, <1>3, <1>4

LEMMA StatusType ==
    ASSUME NEW k \in DOMAIN StatusChecks
    PROVE  StatusEntry(k) \in Entry /\ (k % Len(StatusChecks)) + 1 \in DOMAIN StatusChecks
<1>1. Len(StatusChecks) \in Nat \ {0} /\ DOMAIN StatusChecks = 1..Len(StatusChecks)
      /\ StatusChecks[k] \in Action
  BY ChecksAssumption, EmptySeq, LenProperties
<1>2. StatusEntry(k) \in Entry
  BY <1>1 DEF StatusEntry, Entry, statusPriority, Mode
<1>3. k % Len(StatusChecks) \in 0..(Len(StatusChecks) - 1)
  BY <1>1, SMT
<1> QED BY <1>1, <1>2, <1>3

LEMMA ReturnControl ==
    ASSUME ControlOK, todo # <<>>, NEW o \in Outcome, Return(o), completed' \in BOOLEAN
    PROVE  ControlOK'
<1>1. Tail(todo) \in Seq(Entry) /\ (Tail(todo) = <<>> <=> Len(todo) = 1)
  <2>1. /\ Tail(todo) \in Seq(Entry) /\ Len(todo) \in Nat
        /\ Len(Tail(todo)) = Len(todo) - 1
    BY CurrentType
  <2> QED BY <2>1, EmptySeq
<1>2. todo' \in Seq(Entry) /\ (todo' = <<>> <=> pc' \in {"down", "idle"})
      /\ pc' \in {"down", "idle", "execute", "freed", "wait", "relaunch"}
  BY <1>1 DEF Return
<1>3. roundRobin' \in DOMAIN StatusChecks
  BY StatusType DEF Return, ControlOK
<1>4. decided' \in Seq([entry : Entry, outcome : Outcome])
  <2>1. current \in Entry
    BY CurrentType
  <2>2. [entry |-> current, outcome |-> o] \in [entry : Entry, outcome : Outcome]
    BY <2>1
  <2> QED BY <2>2, AppendProperties DEF Return, ControlOK
<1>5. killed' \in Seq(Process)
  BY DEF Return
<1> QED BY <1>2, <1>3, <1>4, <1>5 DEF Return, ControlOK

LEMMA ReturnFile == ASSUME NEW o \in Outcome, Return(o) PROVE HasFile'
<1>1. killed' = <<>> /\ pc' \in {"idle", "execute"}
  BY DEF Return
<1> QED BY <1>1 DEF HasFile

\* The next state is typed, whichever step leads to it.
LEMMA DaemonControl ==
    ASSUME QueueInv, Daemon
    PROVE  ControlOK' /\ HasFile' /\ Sound(procs')
<1> USE DEF QueueInv
<1>0. ASSUME todo # <<>>, NEW o \in Outcome, Return(o), completed' \in BOOLEAN, Sound(procs')
      PROVE  ControlOK' /\ HasFile' /\ Sound(procs')
  BY <1>0, ReturnControl, ReturnFile
<1>1. CASE Drain
  <2>1. port \in Seq(Entry) /\ roundRobin \in DOMAIN StatusChecks /\ pc = "idle"
    BY <1>1 DEF ControlOK, Drain
  <2>2. todo' \in Seq(Entry) /\ todo' # <<>>
    <3>1. CASE port = <<>>
      <4>1. todo' = <<StatusEntry(roundRobin)>>
        BY <1>1, <3>1 DEF Drain
      <4> QED BY <2>1, <4>1, StatusType
    <3>2. CASE port # <<>>
      <4>1. Priorities(port)
        <5>1. \A i \in DOMAIN port : port[i] \in Entry
          BY <2>1, ElementOfSeq
        <5> QED BY <5>1 DEF Priorities, Entry
      <4>2. DrainQueue(port) \in Seq(Entry) /\ Len(DrainQueue(port)) = Len(port)
        BY <2>1, <4>1, DrainQueueSorts
      <4>3. Len(port) # 0
        BY <2>1, <3>2, EmptySeq
      <4>4. todo' = DrainQueue(port)
        BY <1>1, <3>2 DEF Drain
      <4> QED BY <4>2, <4>3, <4>4
    <3> QED BY <3>1, <3>2
  <2>3. port' = <<>> /\ port' \in Seq(Entry) /\ Len(port') = 0 /\ pc' = "execute"
    BY <1>1 DEF Drain
  <2>4. ControlOK'
    BY <1>1, <2>2, <2>3, BoundAssumption DEF ControlOK, Drain
  <2>5. HasFile'
    BY <1>1, <2>3 DEF HasFile, Drain
  <2> QED BY <1>1, <2>4, <2>5 DEF Drain
<1>2. CASE Missing \/ AlreadyRunning \/ Skip \/ GiveUp
  <2>1. todo # <<>> /\ UNCHANGED <<procs, completed>> /\ completed \in BOOLEAN
    BY <1>2 DEF Missing, AlreadyRunning, Skip, GiveUp, Runnable, ControlOK
  <2>2. \E o \in Outcome : Return(o)
    BY <1>2 DEF Missing, AlreadyRunning, Skip, GiveUp, Outcome
  <2> QED BY <1>0, <2>1, <2>2
<1>3. CASE ExecNow \/ ExecFreed
  <2>1. /\ todo # <<>> /\ ~Short /\ Start(procs) /\ UNCHANGED killed
        /\ ScriptRam[current.action] # 0
    BY <1>3 DEF ExecNow, ExecFreed, Runnable, ControlOK, HasFile
  <2>2. current.action \in Process
    BY <2>1, CurrentType
  <2>3. ScriptRam[current.action] \in Nat /\ UsedRam(procs) \in Int
        /\ AvailableRam(procs) = MaxRam - UsedRam(procs)
    BY <2>2, ScriptRamAssumption, ExecRam DEF Sound, AvailableRam
  <2>4. ScriptRam[current.action] * 1 <= AvailableRam(procs) /\ ScriptRam[current.action] > 0
    BY <2>1, <2>3, MaxRamAssumption DEF Short
  <2>5. Sound(Exec(procs, current.action, 1))
    BY <2>2, <2>4, ExecSound
  <2>6. ControlOK'
    BY <2>1 DEF Start, ControlOK
  <2>7. HasFile'
    BY <2>1, <2>4 DEF Start, HasFile, current
  <2> QED BY <2>1, <2>5, <2>6, <2>7 DEF Start
<1>4. CASE FreeRam
  <2>1. /\ todo # <<>> /\ ScriptRam[current.action] > 0
        /\ killed' \in WalkKillTiers(procs, ScriptRam[current.action], AllTiers)
        /\ procs' = Kill(procs, killed') /\ pc' = "freed"
        /\ UNCHANGED <<port, todo, completed, roundRobin, enqueued, decided, dropped>>
    BY <1>4 DEF FreeRam, Runnable, ControlOK
  <2>2. /\ killed' \in Seq(Process) /\ ToSet(killed') \in SUBSET Running(procs)
        /\ Running(procs) \in SUBSET Process
    BY <2>1, WalkShape, WalkVictims
  <2>3. Sound(procs')
    BY <2>1, <2>2, KillSound
  <2>4. ControlOK'
    BY <2>1, <2>2 DEF ControlOK
  <2>5. \A i \in DOMAIN killed' : ScriptRam[killed'[i]] > 0
    <3>1. \A i \in DOMAIN killed' : killed'[i] \in Running(procs)
      BY <2>2 DEF ToSet
    <3> QED BY <2>2, <3>1 DEF Running, Sound
  <2>6. HasFile'
    BY <2>1, <2>5 DEF HasFile, current
  <2> QED BY <2>3, <2>4, <2>6
<1>5. CASE Finished \/ TimedOut
  <2>1. PICK done \in BOOLEAN : AfterWait(done)
    BY <1>5 DEF Finished, TimedOut
  <2>2. todo # <<>> /\ pc = "wait"
    BY <1>5 DEF Finished, TimedOut, ControlOK
  <2>3. completed' \in BOOLEAN /\ procs' = procs
    BY <2>1 DEF AfterWait
  <2>4. CASE killed = <<>>
    <3>1. \E o \in Outcome : Return(o)
      BY <2>1, <2>4 DEF AfterWait, Outcome
    <3> QED BY <1>0, <2>2, <2>3, <3>1
  <2>5. CASE killed # <<>>
    <3>1. pc' = "relaunch"
          /\ UNCHANGED <<port, todo, killed, roundRobin, enqueued, decided, dropped>>
      BY <2>1, <2>5 DEF AfterWait
    <3>2. ControlOK'
      BY <2>2, <2>3, <3>1 DEF ControlOK
    <3>3. HasFile'
      BY <2>2, <3>1 DEF HasFile, current
    <3> QED BY <2>3, <3>2, <3>3
  <2> QED BY <2>4, <2>5
<1>6. CASE Relaunch
  <2>1. /\ todo # <<>> /\ procs' = Relaunched(procs, killed) /\ completed' \in BOOLEAN
        /\ killed \in Seq(Process)
    BY <1>6 DEF Relaunch, ControlOK
  <2>2. Sound(procs')
    BY <2>1, RelaunchedSound
  <2>3. \E o \in Outcome : Return(o)
    BY <1>6 DEF Relaunch, Outcome
  <2> QED BY <1>0, <2>1, <2>2, <2>3
<1> QED BY <1>1, <1>2, <1>3, <1>4, <1>5, <1>6 DEF Daemon

LEMMA OtherControl ==
    ASSUME QueueInv, Stop \/ Restart \/ Environment
    PROVE  ControlOK' /\ HasFile' /\ Sound(procs')
<1> USE DEF QueueInv
<1>1. CASE Stop
  <2>1. dropped' \subseteq 1..enqueued
    <3>1. Ids(todo) \ {0} \subseteq 1..enqueued
      <4> SUFFICES ASSUME NEW x \in Ids(todo) \ {0} PROVE x \in 1..enqueued
        OBVIOUS
      <4>1. PICK i \in DOMAIN todo : x = todo[i].id
        BY DEF Ids
      <4>2. todo[i] \in Entry /\ todo[i].id <= enqueued /\ enqueued \in Nat
        BY ElementOfSeq, BoundAssumption DEF ControlOK, InOrder
      <4> QED BY <4>1, <4>2 DEF Entry
    <3> QED BY <1>1, <3>1 DEF Stop, ControlOK
  <2>2. 1 \in DOMAIN StatusChecks
    BY ChecksAssumption
  <2>3. ControlOK'
    <3>1. <<>> \in Seq(Entry) /\ <<>> \in Seq(Process)
      OBVIOUS
    <3>2. /\ pc' = "down" /\ todo' = <<>> /\ killed' = <<>> /\ completed' = FALSE
          /\ roundRobin' = 1 /\ UNCHANGED <<port, enqueued, decided>>
      BY <1>1 DEF Stop
    <3> QED BY <2>1, <2>2, <3>1, <3>2 DEF ControlOK
  <2>4. HasFile'
    BY <1>1 DEF Stop, HasFile
  <2> QED BY <1>1, <2>3, <2>4 DEF Stop
<1>2. CASE Restart
  <2>1. ControlOK'
    BY <1>2 DEF Restart, ControlOK
  <2>2. HasFile'
    BY <1>2 DEF Restart, HasFile
  <2> QED BY <1>2, <2>1, <2>2 DEF Restart
<1>3. ASSUME NEW request \in Request, Enqueue(request)
      PROVE  ControlOK' /\ HasFile' /\ Sound(procs')
  <2> DEFINE entry == [id |-> enqueued + 1, action |-> request.action,
                       priority |-> request.priority, mode |-> request.mode]
  <2>1. /\ enqueued \in Nat /\ enqueued' = enqueued + 1 /\ enqueued' \in 0..MaxEntries
        /\ port' = PortWrite(port, entry, PortCapacity)
        /\ dropped' = IF Len(port) < PortCapacity THEN dropped ELSE dropped \cup {Head(port).id}
        /\ UNCHANGED <<procs, daemonVars, decided>>
    BY <1>3, BoundAssumption DEF Enqueue, ControlOK
  <2>2. entry \in Entry
    <3>1. request \in [action : Action, priority : Nat, mode : {"force", "queue"}]
      BY RequestAssumption
    <3> QED BY <2>1, <3>1 DEF Entry, Mode
  <2> HIDE DEF entry
  <2>3. port' \in Seq(Entry) /\ Len(port') <= PortCapacity /\ dropped' \subseteq 1..enqueued'
    <3>1. port \in Seq(Entry) /\ Len(port) \in Nat /\ Len(port) <= PortCapacity
          /\ PortCapacity \in Nat \ {0}
      BY BoundAssumption, LenProperties DEF ControlOK
    <3>2. CASE Len(port) < PortCapacity
      <4>1. port' = Append(port, entry)
        BY <2>1, <3>2 DEF PortWrite
      <4>2. dropped' \subseteq 1..enqueued'
        BY <2>1, <3>2 DEF ControlOK
      <4> QED BY <2>2, <3>1, <3>2, <4>1, <4>2, AppendProperties
    <3>3. CASE ~(Len(port) < PortCapacity)
      <4>1. port # <<>>
        BY <3>1, <3>3
      <4>2. /\ Tail(port) \in Seq(Entry) /\ Len(Tail(port)) = Len(port) - 1
            /\ Head(port) \in Entry /\ Head(port) = port[1] /\ 1 \in DOMAIN port
        BY <3>1, <4>1, HeadTailProperties, LenProperties
      <4>3. port' = Append(Tail(port), entry)
        BY <2>1, <3>3 DEF PortWrite
      <4>4. Head(port).id \in 1..enqueued
        BY <2>1, <4>2 DEF InOrder, Entry
      <4>5. dropped' \subseteq 1..enqueued'
        <5>1. dropped' = dropped \cup {Head(port).id} /\ dropped \subseteq 1..enqueued
          BY <2>1, <3>3 DEF ControlOK
        <5>2. 1..enqueued \subseteq 1..enqueued'
          BY <2>1
        <5> QED BY <4>4, <5>1, <5>2
      <4> QED BY <2>2, <3>1, <4>2, <4>3, <4>5, AppendProperties
    <3> QED BY <3>2, <3>3
  <2>4. ControlOK'
    BY <2>1, <2>3 DEF ControlOK, daemonVars
  <2>5. HasFile'
    BY <2>1 DEF HasFile, daemonVars, current
  <2> QED BY <2>1, <2>4, <2>5
<1>4. ASSUME UNCHANGED <<port, daemonVars, enqueued, decided, dropped>>, Sound(procs')
      PROVE  ControlOK' /\ HasFile' /\ Sound(procs')
  <2>1. ControlOK'
    BY <1>4 DEF ControlOK, daemonVars
  <2>2. HasFile'
    BY <1>4 DEF HasFile, daemonVars, current
  <2> QED BY <1>4, <2>1, <2>2
<1>5. ASSUME NEW p \in Other, NEW n \in 1..MaxThreads, Launch(p, n)
      PROVE  ControlOK' /\ HasFile' /\ Sound(procs')
  <2>1. p \in Process /\ n \in Nat /\ ScriptRam[p] \in Nat
    BY ScriptRamAssumption, BoundAssumption DEF Other
  <2>2. n * ScriptRam[p] = ScriptRam[p] * n
    BY <2>1, SMT
  <2>3. ScriptRam[p] > 0 /\ ScriptRam[p] * n <= AvailableRam(procs)
        /\ procs' = Exec(procs, p, n)
    <3>1. ScriptRam[p] * n \in Nat /\ UsedRam(procs) \in Int
          /\ AvailableRam(procs) = MaxRam - UsedRam(procs)
      BY <2>1, ExecRam DEF Sound, AvailableRam
    <3>2. AvailableRam(procs) >= n * ScriptRam[p] /\ ScriptRam[p] > 0
          /\ procs' = Exec(procs, p, n)
      BY <1>5 DEF Launch
    <3> QED BY <2>2, <3>1, <3>2, MaxRamAssumption
  <2>4. Sound(procs')
    BY <2>1, <2>3, ExecSound
  <2> QED BY <1>4, <1>5, <2>4 DEF Launch
<1>6. ASSUME NEW p \in Other, ForceLaunch(p)
      PROVE  ControlOK' /\ HasFile' /\ Sound(procs')
  <2>1. Sound(procs')
    BY <1>6, EnsureSound DEF ForceLaunch, Other
  <2> QED BY <1>4, <1>6, <2>1 DEF ForceLaunch
<1>7. ASSUME NEW p \in Process, Exit(p)
      PROVE  ControlOK' /\ HasFile' /\ Sound(procs')
  <2>1. Sound(procs')
    BY <1>7, ExitSound DEF Exit
  <2> QED BY <1>4, <1>7, <2>1 DEF Exit
<1> QED BY <1>1, <1>2, <1>3, <1>5, <1>6, <1>7 DEF Environment

---------------------------------------------------------------------------
(* The order of service *)

LEMMA DecidedType ==
    ASSUME ControlOK PROVE \A i \in DOMAIN decided : decided[i].entry \in Entry
<1> DEFINE S == [entry : Entry, outcome : Outcome]
<1>1. decided \in Seq(S)
  BY DEF ControlOK
<1>2. \A i \in DOMAIN decided : decided[i] \in S
  <2> HIDE DEF S
  <2> QED BY <1>1, ElementOfSeq
<1> QED BY <1>2

LEMMA DrainOrder == ASSUME QueueInv, Drain PROVE InOrder'
<1> USE DEF QueueInv
<1>1. /\ todo = <<>> /\ port' = <<>> /\ UNCHANGED <<decided, enqueued>>
      /\ port \in Seq(Entry) /\ roundRobin \in DOMAIN StatusChecks /\ enqueued \in Nat
  BY BoundAssumption DEF Drain, ControlOK
<1>2. CASE port = <<>>
  <2>1. todo' = <<StatusEntry(roundRobin)>>
    BY <1>2 DEF Drain
  <2>2. DOMAIN todo' = {1} /\ todo'[1].id = 0
    BY <2>1 DEF StatusEntry
  <2> QED BY <1>1, <2>2 DEF InOrder, Fine
<1>3. CASE port # <<>>
  <2>1. /\ todo' = DrainQueue(port) /\ DOMAIN port \subseteq Nat
        /\ \A i \in DOMAIN port : port[i] \in Entry
    BY <1>1, <1>3, ElementOfSeq, LenProperties DEF Drain
  <2>2. Priorities(port)
    BY <2>1 DEF Priorities, Entry
  <2>3. PICK from : IsSort(from, port, todo') /\ DOMAIN todo' = DOMAIN port
    BY <1>1, <2>1, <2>2, DrainQueueSorts
  <2>4. \A k \in DOMAIN port : from[k] \in DOMAIN port /\ todo'[k] = port[from[k]]
    BY <2>3 DEF IsSort
  <2>5. ASSUME NEW k \in DOMAIN port, NEW l \in DOMAIN port, k < l
        PROVE  Fine(todo'[k], todo'[l])
    <3>1. Ahead(port, from[k], from[l])
      BY <2>3, <2>5 DEF IsSort
    <3>2. CASE port[from[k]].priority > port[from[l]].priority
      BY <2>4, <3>2 DEF Fine
    <3>3. CASE from[k] < from[l]
      <4>1. port[from[k]].id < port[from[l]].id
        BY <2>4, <3>3 DEF InOrder
      <4>2. port[from[k]].id \in Nat /\ port[from[l]].id \in Nat
        BY <2>1, <2>4 DEF Entry
      <4> QED BY <2>4, <4>1, <4>2 DEF Fine
    <3> QED BY <3>1, <3>2, <3>3 DEF Ahead
  <2>6. \A k, l \in DOMAIN port : k # l => todo'[k].id # todo'[l].id
    <3>1. ASSUME NEW i \in DOMAIN port, NEW j \in DOMAIN port, i # j
          PROVE  port[i].id # port[j].id
      <4>1. port[i].id \in Nat /\ port[j].id \in Nat /\ i \in Nat /\ j \in Nat
        BY <2>1 DEF Entry
      <4>2. port[i].id < port[j].id \/ port[j].id < port[i].id
        BY <3>1, <4>1 DEF InOrder
      <4> QED BY <4>1, <4>2
    <3>2. \A k, l \in DOMAIN port : k # l => from[k] # from[l]
      BY <2>3 DEF IsSort
    <3> QED BY <2>4, <3>1, <3>2
  <2>7. ASSUME NEW i \in DOMAIN decided, NEW l \in DOMAIN port
        PROVE  Fine(decided[i].entry, todo'[l])
    <3>1. decided[i].entry.id < port[from[l]].id
      BY <2>4 DEF InOrder
    <3>2. decided[i].entry.id \in Nat /\ port[from[l]].id \in Nat
      <4>1. decided[i].entry \in Entry
        BY DecidedType
      <4> QED BY <2>1, <2>4, <4>1 DEF Entry
    <3> QED BY <2>4, <3>1, <3>2 DEF Fine
  <2>8. \A k \in DOMAIN port : todo'[k].id <= enqueued
    BY <2>4 DEF InOrder
  <2> QED BY <1>1, <2>3, <2>5, <2>6, <2>7, <2>8 DEF InOrder
<1> QED BY <1>2, <1>3

\* Serving the head of the batch moves it to the end of what is decided.
LEMMA ReturnOrder ==
    ASSUME QueueInv, todo # <<>>, NEW o \in Outcome, Return(o) PROVE InOrder'
<1> USE DEF QueueInv
<1>1. /\ current \in Entry /\ DOMAIN todo = 1..Len(todo) /\ Len(todo) \in Nat \ {0}
      /\ current = todo[1]
      /\ \A i \in DOMAIN todo' : i \in Nat /\ i + 1 \in DOMAIN todo /\ todo'[i] = todo[i + 1]
  <2>1. Tail(todo) \in Seq(Entry) /\ todo' = Tail(todo)
    BY CurrentType DEF Return
  <2>2. DOMAIN todo' = 1..Len(todo') /\ Len(todo') \in Nat
    BY <2>1, LenProperties
  <2> QED BY <2>1, <2>2, CurrentType
<1>2. UNCHANGED <<port, enqueued>>
  BY DEF Return
<1>3. /\ \A i, j \in DOMAIN todo' : i < j => Fine(todo'[i], todo'[j])
      /\ \A i, j \in DOMAIN todo' : i # j /\ todo'[i].id # 0 => todo'[i].id # todo'[j].id
      /\ \A i \in DOMAIN todo', j \in DOMAIN port : todo'[i].id < port[j].id
      /\ \A i \in DOMAIN todo' : todo'[i].id <= enqueued
  <2>1. ASSUME NEW i \in DOMAIN todo', NEW j \in DOMAIN todo' PROVE
          /\ i < j => Fine(todo'[i], todo'[j])
          /\ i # j /\ todo'[i].id # 0 => todo'[i].id # todo'[j].id
    <3>1. i + 1 \in DOMAIN todo /\ j + 1 \in DOMAIN todo /\ i \in Nat /\ j \in Nat
          /\ todo'[i] = todo[i + 1] /\ todo'[j] = todo[j + 1]
      BY <1>1
    <3>2. (i < j => i + 1 < j + 1) /\ (i # j => i + 1 # j + 1)
      BY <3>1
    <3> QED BY <3>1, <3>2 DEF InOrder
  <2>2. ASSUME NEW i \in DOMAIN todo' PROVE
          todo'[i].id <= enqueued /\ \A j \in DOMAIN port : todo'[i].id < port[j].id
    BY <1>1 DEF InOrder
  <2> QED BY <2>1, <2>2
<1>4. CASE current.id = 0
  <2>1. decided' = decided
    BY <1>4 DEF Return
  <2>2. \A i \in DOMAIN decided, j \in DOMAIN todo' : Fine(decided[i].entry, todo'[j])
    BY <1>1 DEF InOrder
  <2> QED BY <1>2, <1>3, <2>1, <2>2 DEF InOrder
<1>5. CASE current.id # 0
  <2> DEFINE n == Len(decided)
             record == [entry |-> current, outcome |-> o]
  <2>1. decided' = Append(decided, record)
    BY <1>5 DEF Return
  <2>2. /\ decided \in Seq([entry : Entry, outcome : Outcome])
        /\ n \in Nat /\ DOMAIN decided = 1..n
        /\ DOMAIN decided' = 1..(n + 1) /\ decided'[n + 1].entry = current
        /\ \A i \in DOMAIN decided : decided'[i] = decided[i]
    <3>1. decided \in Seq([entry : Entry, outcome : Outcome])
      BY DEF ControlOK
    <3>2. record \in [entry : Entry, outcome : Outcome] /\ record.entry = current
      BY <1>1
    <3> HIDE DEF record
    <3>3. n \in Nat /\ DOMAIN decided = 1..n
      BY <3>1, LenProperties
    <3> QED BY <2>1, <3>1, <3>2, <3>3, AppendProperties
  <2> HIDE DEF n, record
  <2>3. ASSUME NEW i \in DOMAIN decided' PROVE
          \/ i \in DOMAIN decided /\ decided'[i].entry = decided[i].entry
          \/ i = n + 1 /\ i \notin DOMAIN decided /\ decided'[i].entry = todo[1]
    BY <1>1, <2>2
  <2>4. 1 \in DOMAIN todo
    BY <1>1
  <2>5. ASSUME NEW i \in DOMAIN decided', NEW j \in DOMAIN decided', i < j
        PROVE  Fine(decided'[i].entry, decided'[j].entry)
    <3>1. CASE j \in DOMAIN decided
      <4>1. i \in DOMAIN decided
        BY <2>2, <2>5, <3>1
      <4> QED BY <2>2, <2>5, <3>1, <4>1 DEF InOrder
    <3>2. CASE j \notin DOMAIN decided
      <4>1. j = n + 1 /\ i \in DOMAIN decided
        BY <2>2, <2>5, <3>2
      <4> QED BY <1>1, <2>2, <2>4, <4>1 DEF InOrder
    <3> QED BY <3>1, <3>2
  <2>6. ASSUME NEW i \in DOMAIN decided', NEW j \in DOMAIN todo'
        PROVE  Fine(decided'[i].entry, todo'[j])
    <3>1. j + 1 \in DOMAIN todo /\ todo'[j] = todo[j + 1] /\ 1 < j + 1
      <4>1. j + 1 \in DOMAIN todo /\ todo'[j] = todo[j + 1] /\ j \in Nat /\ j # 0
        <5>1. j \in DOMAIN todo' /\ j + 1 \in DOMAIN todo /\ todo'[j] = todo[j + 1] /\ j \in Nat
          BY <1>1
        <5>2. 0 \notin DOMAIN todo'
          <6>1. todo' \in Seq(Entry)
            BY CurrentType DEF Return
          <6> QED BY <6>1, LenProperties
        <5> QED BY <5>1, <5>2
      <4> QED BY <4>1
    <3> QED BY <2>3, <2>4, <3>1 DEF InOrder
  <2>7. ASSUME NEW i \in DOMAIN decided' PROVE
          /\ decided'[i].entry.id <= enqueued
          /\ \A j \in DOMAIN port : decided'[i].entry.id < port[j].id
    BY <2>3, <2>4 DEF InOrder
  <2> QED BY <1>2, <1>3, <2>5, <2>6, <2>7 DEF InOrder
<1> QED BY <1>4, <1>5

LEMMA EnqueueOrder ==
    ASSUME QueueInv, NEW request \in Request, Enqueue(request) PROVE InOrder'
<1> USE DEF QueueInv
<1> DEFINE entry == [id |-> enqueued + 1, action |-> request.action,
                     priority |-> request.priority, mode |-> request.mode]
           kept == IF Len(port) < PortCapacity THEN port ELSE Tail(port)
<1>1. /\ enqueued \in Nat /\ enqueued' = enqueued + 1 /\ UNCHANGED <<todo, decided>>
      /\ port' = Append(kept, entry) /\ entry.id = enqueued + 1
  BY BoundAssumption DEF Enqueue, PortWrite, ControlOK, daemonVars
<1> HIDE DEF entry
<1>2. port \in Seq(Entry) /\ Len(port) \in Nat /\ DOMAIN port = 1..Len(port)
  BY LenProperties DEF ControlOK
<1>3. PICK d \in {0, 1} :
        /\ kept \in Seq(Entry)
        /\ \A i \in DOMAIN kept : i \in Nat /\ i + d \in DOMAIN port /\ kept[i] = port[i + d]
  <2>1. CASE Len(port) < PortCapacity
    BY <1>2, <2>1
  <2>2. CASE ~(Len(port) < PortCapacity)
    <3>1. port # <<>>
      BY <1>2, <2>2, BoundAssumption
    <3>2. /\ Tail(port) \in Seq(Entry) /\ Len(Tail(port)) = Len(port) - 1
          /\ \A i \in 1..Len(Tail(port)) : Tail(port)[i] = port[i + 1]
      BY <1>2, <3>1, HeadTailProperties
    <3>3. DOMAIN Tail(port) = 1..(Len(port) - 1)
      BY <3>2, LenProperties
    <3> QED BY <1>2, <2>2, <3>2, <3>3
  <2> QED BY <2>1, <2>2
<1>4. \A i \in DOMAIN kept : 0 < kept[i].id /\ kept[i].id <= enqueued
  BY <1>3 DEF InOrder
<1>5. \A i, j \in DOMAIN kept : i < j => kept[i].id < kept[j].id
  <2> SUFFICES ASSUME NEW i \in DOMAIN kept, NEW j \in DOMAIN kept, i < j
               PROVE  kept[i].id < kept[j].id
    OBVIOUS
  <2>1. i + d < j + d /\ i + d \in DOMAIN port /\ j + d \in DOMAIN port
    BY <1>3
  <2> QED BY <1>3, <2>1 DEF InOrder
<1>6. /\ \A i \in DOMAIN decided, j \in DOMAIN kept : decided[i].entry.id < kept[j].id
      /\ \A i \in DOMAIN todo, j \in DOMAIN kept : todo[i].id < kept[j].id
  BY <1>3 DEF InOrder
<1> HIDE DEF kept
<1> DEFINE n == Len(kept)
<1>7. /\ n \in Nat /\ DOMAIN kept = 1..n /\ DOMAIN port' = 1..(n + 1)
      /\ port'[n + 1] = entry /\ \A i \in DOMAIN kept : port'[i] = kept[i]
  <2>1. n \in Nat /\ DOMAIN kept = 1..n
    BY <1>3, LenProperties
  <2> QED BY <1>1, <1>3, <2>1, AppendProperties
<1> HIDE DEF n
<1>8. ASSUME NEW j \in DOMAIN port' PROVE
        \/ j \in DOMAIN kept /\ port'[j] = kept[j]
        \/ j = n + 1 /\ port'[j].id = enqueued + 1
  BY <1>1, <1>7
<1>9. \A i \in DOMAIN kept : kept[i].id \in Nat
  <2>1. \A i \in DOMAIN kept : kept[i] \in Entry
    BY <1>3, ElementOfSeq
  <2> QED BY <2>1 DEF Entry
<1>10. /\ \A i \in DOMAIN decided : decided[i].entry.id \in Nat
       /\ \A i \in DOMAIN todo : todo[i].id \in Nat
  <2>1. \A i \in DOMAIN todo : todo[i] \in Entry
    BY ElementOfSeq DEF ControlOK
  <2> QED BY <2>1, DecidedType DEF Entry
<1>11. \A j \in DOMAIN port' : 0 < port'[j].id /\ port'[j].id <= enqueued'
  BY <1>1, <1>4, <1>8, <1>9
<1>12. ASSUME NEW i \in DOMAIN port', NEW j \in DOMAIN port', i < j
       PROVE  port'[i].id < port'[j].id
  <2>1. CASE j \in DOMAIN kept
    <3>1. i \in DOMAIN kept
      BY <1>7, <1>12, <2>1
    <3> QED BY <1>5, <1>7, <1>12, <2>1, <3>1
  <2>2. CASE j \notin DOMAIN kept
    <3>1. i \in DOMAIN kept /\ port'[j].id = enqueued + 1
      BY <1>7, <1>8, <1>12, <2>2
    <3>2. port'[i].id <= enqueued /\ port'[i].id \in Nat
      BY <1>4, <1>7, <1>9, <3>1
    <3> QED BY <1>1, <3>1, <3>2
  <2> QED BY <2>1, <2>2
<1>13. \A i \in DOMAIN decided, j \in DOMAIN port' : decided[i].entry.id < port'[j].id
  <2> SUFFICES ASSUME NEW i \in DOMAIN decided, NEW j \in DOMAIN port'
               PROVE  decided[i].entry.id < port'[j].id
    OBVIOUS
  <2>1. decided[i].entry.id <= enqueued /\ decided[i].entry.id \in Nat
    BY <1>10 DEF InOrder
  <2> QED BY <1>1, <1>6, <1>8, <2>1
<1>14. \A i \in DOMAIN todo, j \in DOMAIN port' : todo[i].id < port'[j].id
  <2> SUFFICES ASSUME NEW i \in DOMAIN todo, NEW j \in DOMAIN port'
               PROVE  todo[i].id < port'[j].id
    OBVIOUS
  <2>1. todo[i].id <= enqueued /\ todo[i].id \in Nat
    BY <1>10 DEF InOrder
  <2> QED BY <1>1, <1>6, <1>8, <2>1
<1>15. /\ \A i \in DOMAIN decided : decided[i].entry.id <= enqueued'
       /\ \A i \in DOMAIN todo : todo[i].id <= enqueued'
  BY <1>1, <1>10 DEF InOrder
<1> QED BY <1>1, <1>11, <1>12, <1>13, <1>14, <1>15 DEF InOrder

LEMMA NextOrder == ASSUME QueueInv, [Next]_vars PROVE InOrder'
<1> USE DEF QueueInv
<1>1. ASSUME UNCHANGED <<port, todo, decided, enqueued>> PROVE InOrder'
  BY <1>1 DEF InOrder
<1>2. ASSUME todo # <<>>, \E o \in Outcome : Return(o) PROVE InOrder'
  BY <1>2, ReturnOrder
<1>3. CASE Drain
  BY <1>3, DrainOrder
<1>4. CASE Missing \/ AlreadyRunning \/ Skip \/ GiveUp
  <2>1. todo # <<>> /\ \E o \in Outcome : Return(o)
    BY <1>4 DEF Missing, AlreadyRunning, Skip, GiveUp, Runnable, ControlOK, Outcome
  <2> QED BY <1>2, <2>1
<1>5. CASE ExecNow \/ FreeRam \/ ExecFreed
  BY <1>1, <1>5 DEF ExecNow, FreeRam, ExecFreed, Start
<1>6. CASE Finished \/ TimedOut
  <2>1. todo # <<>> /\ \E done \in BOOLEAN : AfterWait(done)
    BY <1>6 DEF Finished, TimedOut, ControlOK
  <2>2. (\E o \in Outcome : Return(o)) \/ UNCHANGED <<port, todo, decided, enqueued>>
    BY <2>1 DEF AfterWait, Outcome
  <2> QED BY <1>1, <1>2, <2>1, <2>2
<1>7. CASE Relaunch
  <2>1. todo # <<>> /\ \E o \in Outcome : Return(o)
    BY <1>7 DEF Relaunch, ControlOK, Outcome
  <2> QED BY <1>2, <2>1
<1>8. CASE Stop
  <2>1. todo' = <<>> /\ UNCHANGED <<port, enqueued, decided>>
    BY <1>8 DEF Stop
  <2> QED BY <2>1 DEF InOrder
<1>9. CASE Environment
  <2>1. ASSUME NEW request \in Request, Enqueue(request) PROVE InOrder'
    BY <2>1, EnqueueOrder
  <2>2. CASE \/ \E p \in Other, n \in 1..MaxThreads : Launch(p, n)
             \/ \E p \in Other : ForceLaunch(p)
             \/ \E p \in Process : Exit(p)
    BY <1>1, <2>2 DEF Launch, ForceLaunch, Exit, daemonVars
  <2> QED BY <1>9, <2>1, <2>2 DEF Environment
<1>10. CASE Restart \/ UNCHANGED vars
  BY <1>1, <1>10 DEF Restart, vars, daemonVars
<1> QED BY <1>3, <1>4, <1>5, <1>6, <1>7, <1>8, <1>9, <1>10 DEF Next, Daemon

LEMMA QueueInvInductive == QueueInv /\ [Next]_vars => QueueInv'
<1> SUFFICES ASSUME QueueInv, [Next]_vars PROVE QueueInv'
  OBVIOUS
<1>1. CASE Next
  BY <1>1, DaemonControl, OtherControl, NextOrder DEF Next, QueueInv
<1>2. CASE UNCHANGED vars
  <2>1. ControlOK' /\ HasFile' /\ Sound(procs')
    BY <1>2 DEF QueueInv, vars, daemonVars, ControlOK, HasFile, current
  <2> QED BY <2>1, NextOrder DEF QueueInv
<1> QED BY <1>1, <1>2

LEMMA QueueInvAlways == Spec => []QueueInv
  BY InitQueueInv, QueueInvInductive, PTL DEF Spec

\* Type correctness, and that home never runs more than it has RAM for.
THEOREM QueueTypeCorrect == Spec => []TypeOK
<1>1. QueueInv => TypeOK
  BY QueueInvTyped DEF QueueInv
<1> QED BY <1>1, QueueInvAlways, PTL

\* Where an entry of the three sequences, one after the other, comes from.
LEMMA Concatenated ==
    ASSUME NEW S, NEW a \in Seq(S), NEW b \in Seq(S), NEW c \in Seq(S),
           NEW i \in DOMAIN (a \o b \o c), NEW j \in DOMAIN (a \o b \o c), i < j
    PROVE  LET q == a \o b \o c IN
           \/ \E k, l \in DOMAIN a : k < l /\ q[i] = a[k] /\ q[j] = a[l]
           \/ \E k, l \in DOMAIN b : k < l /\ q[i] = b[k] /\ q[j] = b[l]
           \/ \E k, l \in DOMAIN c : k < l /\ q[i] = c[k] /\ q[j] = c[l]
           \/ \E k \in DOMAIN a, l \in DOMAIN b : q[i] = a[k] /\ q[j] = b[l]
           \/ \E k \in DOMAIN a, l \in DOMAIN c : q[i] = a[k] /\ q[j] = c[l]
           \/ \E k \in DOMAIN b, l \in DOMAIN c : q[i] = b[k] /\ q[j] = c[l]
<1> DEFINE m == Len(a)
           n == Len(b)
           r == Len(c)
           q == a \o b \o c
<1>1. /\ m \in Nat /\ n \in Nat /\ r \in Nat
      /\ DOMAIN a = 1..m /\ DOMAIN b = 1..n /\ DOMAIN c = 1..r
  BY LenProperties
<1>2. /\ a \o b \in Seq(S) /\ Len(a \o b) = m + n
      /\ \A k \in 1..(m + n) : (a \o b)[k] = IF k <= m THEN a[k] ELSE b[k - m]
  BY ConcatProperties
<1>3. /\ q \in Seq(S) /\ Len(q) = m + n + r
      /\ \A k \in 1..(m + n + r) : q[k] = IF k <= m + n THEN (a \o b)[k] ELSE c[k - (m + n)]
  BY <1>2, ConcatProperties
<1>4. i \in 1..(m + n + r) /\ j \in 1..(m + n + r)
  BY <1>3, LenProperties
<1> HIDE DEF m, n, r, q
<1>5. ASSUME NEW k \in 1..(m + n + r) PROVE
        \/ k \in 1..m /\ q[k] = a[k]
        \/ k - m \in 1..n /\ q[k] = b[k - m]
        \/ k - (m + n) \in 1..r /\ q[k] = c[k - (m + n)]
  <2>1. CASE k <= m
    <3>1. k \in 1..m /\ k \in 1..(m + n) /\ k <= m + n
      BY <1>1, <2>1
    <3> QED BY <1>2, <1>3, <2>1, <3>1
  <2>2. CASE m < k /\ k <= m + n
    <3>1. k - m \in 1..n /\ k \in 1..(m + n) /\ ~(k <= m)
      BY <1>1, <2>2
    <3> QED BY <1>2, <1>3, <2>2, <3>1
  <2>3. CASE m + n < k
    <3>1. k - (m + n) \in 1..r /\ ~(k <= m + n)
      BY <1>1, <2>3
    <3> QED BY <1>3, <3>1
  <2> QED BY <1>1, <2>1, <2>2, <2>3
<1>6. /\ i - m < j - m /\ i - (m + n) < j - (m + n) /\ i \in Nat /\ j \in Nat
  BY <1>1, <1>4
<1>7. CASE i \in 1..m /\ q[i] = a[i]
  BY <1>1, <1>4, <1>5, <1>7 DEF q
<1>8. CASE i - m \in 1..n /\ q[i] = b[i - m]
  <2>1. ~(j \in 1..m)
    BY <1>1, <1>6, <1>8
  <2> QED BY <1>1, <1>4, <1>5, <1>6, <1>8, <2>1 DEF q
<1>9. CASE i - (m + n) \in 1..r /\ q[i] = c[i - (m + n)]
  <2>1. ~(j \in 1..m) /\ ~(j - m \in 1..n)
    BY <1>1, <1>6, <1>9
  <2> QED BY <1>1, <1>4, <1>5, <1>6, <1>9, <2>1 DEF q
<1> QED BY <1>4, <1>5, <1>7, <1>8, <1>9

\* Equal priorities are first in, first out, across ticks, timeouts and restarts.
THEOREM OvertakingIsByPriority == Spec => []OvertakesOnlyLower
<1>1. QueueInv => OvertakesOnlyLower
  <2> SUFFICES ASSUME QueueInv, NEW i \in DOMAIN service, NEW j \in DOMAIN service,
                      i < j, service[j].id # 0, service[i].id > service[j].id
               PROVE  service[i].priority > service[j].priority
    BY DEF OvertakesOnlyLower
  <2>1. Served \in Seq(Entry) /\ todo \in Seq(Entry) /\ port \in Seq(Entry)
        /\ DOMAIN Served = DOMAIN decided
        /\ \A k \in DOMAIN Served : Served[k] = decided[k].entry
    <3>1. Len(decided) \in Nat /\ DOMAIN decided = 1..Len(decided)
      BY LenProperties DEF QueueInv, ControlOK
    <3> QED BY <3>1, DecidedType DEF Served, QueueInv, ControlOK
  <2>2. service = Served \o todo \o port
    BY DEF service, Served
  <2>3. /\ \A k, l \in DOMAIN Served : k < l => Fine(Served[k], Served[l])
        /\ \A k, l \in DOMAIN todo : k < l => Fine(todo[k], todo[l])
        /\ \A k \in DOMAIN Served, l \in DOMAIN todo : Fine(Served[k], todo[l])
    BY <2>1 DEF QueueInv, InOrder
  <2>4. /\ \A k, l \in DOMAIN port : k < l => Fine(port[k], port[l])
        /\ \A k \in DOMAIN Served, l \in DOMAIN port : Fine(Served[k], port[l])
        /\ \A k \in DOMAIN todo, l \in DOMAIN port : Fine(todo[k], port[l])
    <3>1. /\ \A k \in DOMAIN Served : Served[k].id \in Nat
          /\ \A k \in DOMAIN todo : todo[k].id \in Nat
          /\ \A k \in DOMAIN port : port[k].id \in Nat
      <4>1. /\ \A k \in DOMAIN Served : Served[k] \in Entry
            /\ \A k \in DOMAIN todo : todo[k] \in Entry
            /\ \A k \in DOMAIN port : port[k] \in Entry
        BY <2>1, ElementOfSeq
      <4> QED BY <4>1 DEF Entry
    <3>2. /\ \A k, l \in DOMAIN port : k < l => port[k].id < port[l].id
          /\ \A k \in DOMAIN Served, l \in DOMAIN port : Served[k].id < port[l].id
          /\ \A k \in DOMAIN todo, l \in DOMAIN port : todo[k].id < port[l].id
      BY <2>1 DEF QueueInv, InOrder
    <3>3. \A a, b : a.id \in Nat /\ b.id \in Nat /\ a.id < b.id => Fine(a, b)
      BY DEF Fine
    <3> QED BY <3>1, <3>2, <3>3
  <2>5. Fine(service[i], service[j])
    BY <2>1, <2>2, <2>3, <2>4, Concatenated
  <2> QED BY <2>5 DEF Fine
<1> QED BY <1>1, QueueInvAlways, PTL

---------------------------------------------------------------------------
(* The queue is a mailbox *)

Waiting == Users(todo) \cup Users(port)

LEMMA UsersTyped ==
    ASSUME QueueInv
    PROVE  /\ Waiting \subseteq Entry
           /\ \A e \in Users(todo), f \in Users(port) : e.id < f.id
           /\ \A e \in Users(port) : e.id # 0
           /\ Users(port) = ToSet(port)
<1>1. port \in Seq(Entry) /\ todo \in Seq(Entry)
  BY DEF QueueInv, ControlOK
<1>2. /\ \A i \in DOMAIN todo : todo[i] \in Entry
      /\ \A j \in DOMAIN port : port[j] \in Entry /\ port[j].id # 0
  <2>1. /\ \A i \in DOMAIN todo : todo[i] \in Entry
        /\ \A j \in DOMAIN port : port[j] \in Entry /\ 0 < port[j].id
    BY <1>1, ElementOfSeq DEF QueueInv, InOrder
  <2> QED BY <2>1
<1>3. \A i \in DOMAIN todo, j \in DOMAIN port : todo[i].id < port[j].id
  BY DEF QueueInv, InOrder
<1> QED BY <1>2, <1>3 DEF Waiting, Users, ToSet

\* An entry moved from the head of the batch to the answers is served.
LEMMA ReturnServes ==
    ASSUME QueueInv, todo # <<>>, NEW o \in Outcome, Return(o)
    PROVE  mailbox!Serve \/ UNCHANGED mailbox!vars
<1> USE DEF QueueInv
<1>1. /\ current \in Entry /\ DOMAIN todo = 1..Len(todo) /\ Len(todo) \in Nat \ {0}
      /\ current = todo[1] /\ 1 \in DOMAIN todo
      /\ todo' = Tail(todo) /\ Tail(todo) \in Seq(Entry)
      /\ \A i \in DOMAIN Tail(todo) : i + 1 \in DOMAIN todo /\ Tail(todo)[i] = todo[i + 1]
      /\ Len(Tail(todo)) = Len(todo) - 1
  BY CurrentType DEF Return
<1>2. UNCHANGED <<port, enqueued, dropped>>
  BY DEF Return
<1>3. DOMAIN Tail(todo) = 1..(Len(todo) - 1)
  BY <1>1, LenProperties
<1>4. \A i \in DOMAIN todo : i # 1 => i - 1 \in DOMAIN Tail(todo) /\ Tail(todo)[i - 1] = todo[i]
  <2> SUFFICES ASSUME NEW i \in DOMAIN todo, i # 1
               PROVE  i - 1 \in DOMAIN Tail(todo) /\ Tail(todo)[i - 1] = todo[i]
    OBVIOUS
  <2>1. i - 1 \in DOMAIN Tail(todo) /\ (i - 1) + 1 = i
    BY <1>1, <1>3
  <2> QED BY <1>1, <2>1
<1>5. ToSet(todo) = ToSet(todo') \cup {current}
  <2>1. \A i \in DOMAIN todo : todo[i] \in ToSet(todo') \cup {current}
    BY <1>1, <1>4 DEF ToSet
  <2>2. \A i \in DOMAIN todo' : todo'[i] \in ToSet(todo)
    BY <1>1 DEF ToSet
  <2>3. current \in ToSet(todo)
    BY <1>1 DEF ToSet
  <2> QED BY <2>1, <2>2, <2>3 DEF ToSet
<1>6. CASE current.id = 0
  <2>1. Users(todo') = Users(todo)
    BY <1>5, <1>6 DEF Users
  <2>2. decided' = decided
    BY <1>6 DEF Return
  <2> QED BY <1>2, <2>1, <2>2 DEF mailbox!vars
<1>7. CASE current.id # 0
  <2>1. current \in Waiting
    BY <1>1, <1>7 DEF Waiting, Users, ToSet
  <2>2. \A older \in Waiting : older.id < current.id => older.priority < current.priority
    <3> SUFFICES ASSUME NEW older \in Waiting, older.id < current.id
                 PROVE  older.priority < current.priority
      OBVIOUS
    <3>0. older \in Entry
      BY UsersTyped
    <3>1. CASE older \in Users(port)
      <4>1. current.id < older.id
        BY <1>1, <1>7, <3>1, UsersTyped DEF Users, ToSet
      <4> QED BY <1>1, <3>0, <4>1 DEF Entry
    <3>2. CASE older \in Users(todo)
      <4>1. PICK i \in DOMAIN todo : older = todo[i] /\ todo[i].id # 0
        BY <3>2 DEF Users, ToSet
      <4>2. i # 1
        BY <1>1, <3>0, <4>1 DEF Entry
      <4>3. 1 < i
        BY <1>1, <4>2
      <4>4. Fine(current, older)
        BY <1>1, <4>1, <4>3 DEF InOrder
      <4> QED BY <1>1, <3>0, <4>1, <4>4 DEF Fine, Entry
    <3> QED BY <3>1, <3>2 DEF Waiting
  <2>3. Users(todo') \cup Users(port') = Waiting \ {current}
    <3>1. current \notin ToSet(todo')
      <4> SUFFICES ASSUME NEW i \in DOMAIN todo', todo'[i] = current PROVE FALSE
        BY DEF ToSet
      <4>1. i + 1 \in DOMAIN todo /\ todo[i + 1] = current /\ i + 1 # 1
        BY <1>1, <1>3
      <4> QED BY <1>1, <1>7, <4>1 DEF InOrder
    <3>2. current \notin Users(port)
      <4> SUFFICES ASSUME current \in Users(port) PROVE FALSE
        OBVIOUS
      <4>1. current \in Users(todo)
        BY <1>1, <1>7 DEF Users, ToSet
      <4>2. current.id < current.id
        BY <4>1, UsersTyped
      <4> QED BY <1>1, <4>2 DEF Entry
    <3> QED BY <1>2, <1>5, <3>1, <3>2 DEF Users, Waiting
  <2>4. [i \in DOMAIN decided |-> decided[i].entry]'
          = Append([i \in DOMAIN decided |-> decided[i].entry], current)
    <3> DEFINE record == [entry |-> current, outcome |-> o]
               n == Len(decided)
    <3>1. decided' = Append(decided, record) /\ record.entry = current
      BY <1>7 DEF Return
    <3>2. decided \in Seq([entry : Entry, outcome : Outcome]) /\ n \in Nat
          /\ DOMAIN decided = 1..n
      BY LenProperties DEF ControlOK
    <3>3. record \in [entry : Entry, outcome : Outcome]
      BY <1>1
    <3> HIDE DEF record
    <3>4. /\ DOMAIN decided' = 1..(n + 1) /\ decided'[n + 1] = record
          /\ \A i \in 1..n : decided'[i] = decided[i]
      BY <3>1, <3>2, <3>3, AppendProperties
    <3> HIDE DEF n
    <3> DEFINE a == [i \in 1..n |-> decided[i].entry]
               b == [i \in 1..(n + 1) |-> decided'[i].entry]
    <3>5. a \in Seq(Entry) /\ Len(a) = n
      BY <3>2, DecidedType
    <3>6. b = Append(a, current)
      BY <3>1, <3>2, <3>4, <3>5
    <3> QED BY <3>2, <3>4, <3>6
  <2> QED BY <1>2, <2>1, <2>2, <2>3, <2>4 DEF mailbox!Serve, Waiting
<1> QED BY <1>6, <1>7

\* What a batch holds is what was in the port.
LEMMA DrainWaits == ASSUME QueueInv, Drain PROVE UNCHANGED mailbox!vars
<1> USE DEF QueueInv
<1>1. /\ todo = <<>> /\ port' = <<>> /\ UNCHANGED <<decided, enqueued, dropped>>
      /\ port \in Seq(Entry)
  BY DEF Drain, ControlOK
<1>2. Users(todo) = {} /\ Users(port') = {}
  BY <1>1 DEF Users, ToSet
<1>3. CASE port = <<>>
  <2>1. todo' = <<StatusEntry(roundRobin)>>
    BY <1>3 DEF Drain
  <2>2. Users(todo') = {}
    BY <2>1 DEF Users, ToSet, StatusEntry
  <2>3. Users(port) = {}
    BY <1>3 DEF Users, ToSet
  <2> QED BY <1>1, <1>2, <2>2, <2>3 DEF mailbox!vars
<1>4. CASE port # <<>>
  <2>1. todo' = DrainQueue(port)
    BY <1>4 DEF Drain
  <2>2. Priorities(port)
    <3>1. \A i \in DOMAIN port : port[i] \in Entry
      BY <1>1, ElementOfSeq
    <3> QED BY <3>1 DEF Priorities, Entry
  <2>3. PICK from : IsSort(from, port, todo') /\ DOMAIN todo' = DOMAIN port
    BY <1>1, <2>1, <2>2, DrainQueueSorts
  <2>4. /\ \A k \in DOMAIN port : from[k] \in DOMAIN port /\ todo'[k] = port[from[k]]
        /\ \A i \in DOMAIN port : \E k \in DOMAIN port : from[k] = i
    BY <2>3 DEF IsSort
  <2>5. ToSet(todo') = ToSet(port)
    BY <2>3, <2>4 DEF ToSet
  <2> QED BY <1>1, <1>2, <2>5 DEF mailbox!vars, Users
<1> QED BY <1>3, <1>4

\* A full port loses its oldest entry to the new one.
LEMMA EnqueuePosts ==
    ASSUME QueueInv, NEW request \in Request, Enqueue(request) PROVE mailbox!Post
<1> USE DEF QueueInv
<1> DEFINE entry == [id |-> enqueued + 1, action |-> request.action,
                     priority |-> request.priority, mode |-> request.mode]
<1>1. /\ enqueued \in Nat /\ enqueued' = enqueued + 1 /\ UNCHANGED <<todo, decided>>
      /\ port' = PortWrite(port, entry, PortCapacity) /\ entry.id = enqueued + 1
      /\ dropped' = IF Len(port) < PortCapacity THEN dropped ELSE dropped \cup {Head(port).id}
      /\ mailbox!Letter(enqueued + 1, request) = entry
  BY BoundAssumption DEF Enqueue, ControlOK, daemonVars, mailbox!Letter
<1>2. entry \in Entry
  <2>1. request \in [action : Action, priority : Nat, mode : {"force", "queue"}]
    BY RequestAssumption
  <2> QED BY <1>1, <2>1 DEF Entry, Mode
<1>3. entry.id # 0
  BY <1>1
<1> HIDE DEF entry
<1>4. port \in Seq(Entry) /\ Len(port) \in Nat /\ DOMAIN port = 1..Len(port)
  BY LenProperties DEF ControlOK
<1>5. CASE Len(port) < PortCapacity
  <2>1. port' = Append(port, entry) /\ dropped' = dropped
    BY <1>1, <1>5 DEF PortWrite
  <2>2. ToSet(port') = ToSet(port) \cup {entry}
    <3>1. /\ DOMAIN port' = 1..(Len(port) + 1) /\ port'[Len(port) + 1] = entry
          /\ \A i \in 1..Len(port) : port'[i] = port[i]
      BY <1>2, <1>4, <2>1, AppendProperties
    <3>2. \A i \in DOMAIN port' : port'[i] \in ToSet(port) \cup {entry}
      BY <1>4, <3>1 DEF ToSet
    <3>3. \A i \in DOMAIN port : i \in DOMAIN port' /\ port'[i] = port[i]
      BY <1>4, <3>1
    <3>4. Len(port) + 1 \in DOMAIN port'
      BY <1>4, <3>1
    <3> QED BY <3>1, <3>2, <3>3, <3>4 DEF ToSet
  <2>3. Users(todo') \cup Users(port') = (Waiting \ {}) \cup {entry}
    BY <1>1, <1>3, <2>2 DEF Users, Waiting
  <2>4. {} \in SUBSET Waiting /\ mailbox!LettersIds({}) = {}
    BY DEF mailbox!LettersIds
  <2>5. dropped' = dropped \cup mailbox!LettersIds({})
    BY <2>1, <2>4
  <2> QED BY <1>1, <2>3, <2>4, <2>5 DEF mailbox!Post, Waiting
<1>6. CASE ~(Len(port) < PortCapacity)
  <2>0. port # <<>>
    BY <1>4, <1>6, BoundAssumption
  <2> DEFINE oldest == Head(port)
  <2>1. /\ port' = Append(Tail(port), entry) /\ dropped' = dropped \cup {oldest.id}
    BY <1>1, <1>6 DEF PortWrite
  <2>2. /\ oldest \in Entry /\ oldest = port[1] /\ 1 \in DOMAIN port
        /\ Tail(port) \in Seq(Entry) /\ Len(Tail(port)) = Len(port) - 1
        /\ DOMAIN Tail(port) = 1..(Len(port) - 1)
        /\ \A i \in 1..(Len(port) - 1) : Tail(port)[i] = port[i + 1]
    BY <1>4, <2>0, HeadTailProperties, LenProperties
  <2> HIDE DEF oldest
  <2>3. ToSet(port') = ToSet(Tail(port)) \cup {entry}
    <3> DEFINE rest == Tail(port)
               n == Len(rest)
    <3>0. rest \in Seq(Entry) /\ n \in Nat /\ DOMAIN rest = 1..n /\ port' = Append(rest, entry)
      BY <2>1, <2>2, LenProperties
    <3> HIDE DEF rest
    <3>1. /\ DOMAIN port' = 1..(n + 1) /\ port'[n + 1] = entry
          /\ \A i \in 1..n : port'[i] = rest[i]
      BY <1>2, <3>0, AppendProperties
    <3> HIDE DEF n
    <3>2. \A i \in DOMAIN port' : port'[i] \in ToSet(rest) \cup {entry}
      BY <3>0, <3>1 DEF ToSet
    <3>3. \A i \in DOMAIN rest : i \in DOMAIN port' /\ port'[i] = rest[i]
      BY <3>0, <3>1
    <3>4. n + 1 \in DOMAIN port'
      BY <3>0, <3>1
    <3> QED BY <3>1, <3>2, <3>3, <3>4 DEF ToSet, rest
  <2>4. \A i \in DOMAIN port : i # 1 =>
          i - 1 \in DOMAIN Tail(port) /\ Tail(port)[i - 1] = port[i] /\ port[i].id # oldest.id
    <3> SUFFICES ASSUME NEW i \in DOMAIN port, i # 1
                 PROVE  i - 1 \in DOMAIN Tail(port) /\ Tail(port)[i - 1] = port[i]
                        /\ port[i].id # oldest.id
      OBVIOUS
    <3>1. i - 1 \in 1..(Len(port) - 1) /\ (i - 1) + 1 = i /\ 1 < i
      BY <1>4
    <3>2. oldest.id < port[i].id
      BY <2>2, <3>1 DEF InOrder
    <3>3. oldest.id \in Nat
      BY <2>2 DEF Entry
    <3> QED BY <2>2, <3>1, <3>2, <3>3
  <2>5. ToSet(Tail(port)) = ToSet(port) \ {oldest}
    <3>1. \A i \in DOMAIN Tail(port) : i + 1 \in DOMAIN port /\ Tail(port)[i] = port[i + 1] /\ i + 1 # 1
      BY <1>4, <2>2
    <3>2. \A x \in ToSet(Tail(port)) : x \in ToSet(port) /\ x # oldest
      BY <2>4, <3>1 DEF ToSet
    <3>3. \A i \in DOMAIN port : port[i] # oldest => port[i] \in ToSet(Tail(port))
      BY <2>2, <2>4 DEF ToSet
    <3> QED BY <3>2, <3>3 DEF ToSet
  <2>6. oldest \in Waiting /\ oldest \notin Users(todo) /\ oldest.id # 0
    <3>1. oldest \in ToSet(port) /\ oldest \in Users(port) /\ oldest.id # 0
      BY <2>2, UsersTyped DEF ToSet
    <3>2. oldest \notin Users(todo)
      <4> SUFFICES ASSUME oldest \in Users(todo) PROVE FALSE
        OBVIOUS
      <4>1. oldest.id < oldest.id /\ oldest.id \in Nat
        BY <2>2, <3>1, UsersTyped DEF Entry
      <4> QED BY <4>1
    <3> QED BY <3>1, <3>2 DEF Waiting
  <2>7. Users(todo') \cup Users(port') = (Waiting \ {oldest}) \cup {entry}
    BY <1>1, <1>3, <2>3, <2>5, <2>6 DEF Users, Waiting
  <2>8. {oldest} \in SUBSET Waiting /\ mailbox!LettersIds({oldest}) = {oldest.id}
    BY <2>6 DEF mailbox!LettersIds
  <2>9. dropped' = dropped \cup mailbox!LettersIds({oldest})
    BY <2>1, <2>8
  <2> QED BY <1>1, <2>7, <2>8, <2>9 DEF mailbox!Post, Waiting
<1> QED BY <1>5, <1>6

LEMMA StopLoses == ASSUME QueueInv, Stop PROVE mailbox!Lose
<1>1. /\ todo' = <<>> /\ UNCHANGED <<port, enqueued, decided>>
      /\ dropped' = dropped \cup (Ids(todo) \ {0})
  BY DEF Stop
<1>2. Users(todo) \in SUBSET Waiting /\ Users(todo') = {}
  BY <1>1 DEF Waiting, Users, ToSet
<1>3. \A e \in Users(todo) : e \notin Users(port)
  <2> SUFFICES ASSUME NEW e \in Users(todo), e \in Users(port) PROVE FALSE
    OBVIOUS
  <2>1. e.id < e.id /\ e.id \in Nat
    BY UsersTyped DEF Waiting, Entry
  <2> QED BY <2>1
<1>4. Users(todo') \cup Users(port') = Waiting \ Users(todo)
  BY <1>1, <1>2, <1>3 DEF Waiting
<1>5. mailbox!LettersIds(Users(todo)) = Ids(todo) \ {0}
  <2>1. \A x \in Ids(todo) \ {0} : x \in mailbox!LettersIds(Users(todo))
    BY DEF Ids, mailbox!LettersIds, Users, ToSet
  <2>2. \A x \in mailbox!LettersIds(Users(todo)) : x \in Ids(todo) \ {0}
    BY DEF Ids, mailbox!LettersIds, Users, ToSet
  <2> QED BY <2>1, <2>2
<1> QED BY <1>1, <1>2, <1>4, <1>5 DEF mailbox!Lose, Waiting

LEMMA InitMailbox == Init => mailbox!Init
<1> SUFFICES ASSUME Init PROVE mailbox!Init
  OBVIOUS
<1>1. decided = <<>> /\ todo = <<>> /\ port = <<>> /\ enqueued = 0 /\ dropped = {}
  BY DEF Init
<1>2. Users(todo) \cup Users(port) = {} /\ [i \in DOMAIN decided |-> decided[i].entry] = <<>>
  BY <1>1 DEF Users, ToSet
<1> QED BY <1>1, <1>2 DEF mailbox!Init

LEMMA StepMailbox == QueueInv /\ [Next]_vars => [mailbox!Next]_mailbox!vars
<1> SUFFICES ASSUME QueueInv, [Next]_vars PROVE mailbox!Next \/ UNCHANGED mailbox!vars
  OBVIOUS
<1> USE DEF QueueInv
<1>1. ASSUME UNCHANGED <<port, todo, decided, enqueued, dropped>>
      PROVE  UNCHANGED mailbox!vars
  BY <1>1 DEF mailbox!vars, Users
<1>2. ASSUME todo # <<>>, \E o \in Outcome : Return(o)
      PROVE  mailbox!Next \/ UNCHANGED mailbox!vars
  BY <1>2, ReturnServes DEF mailbox!Next
<1>3. CASE Drain
  BY <1>3, DrainWaits
<1>4. CASE Missing \/ AlreadyRunning \/ Skip \/ GiveUp \/ Relaunch
  <2>1. todo # <<>> /\ \E o \in Outcome : Return(o)
    BY <1>4 DEF Missing, AlreadyRunning, Skip, GiveUp, Relaunch, Runnable, ControlOK, Outcome
  <2> QED BY <1>2, <2>1
<1>5. CASE ExecNow \/ FreeRam \/ ExecFreed
  BY <1>1, <1>5 DEF ExecNow, FreeRam, ExecFreed, Start
<1>6. CASE Finished \/ TimedOut
  <2>1. todo # <<>> /\ \E done \in BOOLEAN : AfterWait(done)
    BY <1>6 DEF Finished, TimedOut, ControlOK
  <2>2. \/ \E o \in Outcome : Return(o)
        \/ UNCHANGED <<port, todo, decided, enqueued, dropped>>
    BY <2>1 DEF AfterWait, Outcome
  <2> QED BY <1>1, <1>2, <2>1, <2>2
<1>7. CASE Stop
  BY <1>7, StopLoses DEF mailbox!Next
<1>8. CASE Environment
  <2>1. ASSUME NEW request \in Request, Enqueue(request) PROVE mailbox!Next
    BY <2>1, EnqueuePosts DEF mailbox!Next
  <2>2. CASE \/ \E p \in Other, n \in 1..MaxThreads : Launch(p, n)
             \/ \E p \in Other : ForceLaunch(p)
             \/ \E p \in Process : Exit(p)
    BY <1>1, <2>2 DEF Launch, ForceLaunch, Exit, daemonVars
  <2> QED BY <1>8, <2>1, <2>2 DEF Environment
<1>9. CASE Restart \/ UNCHANGED vars
  BY <1>1, <1>9 DEF Restart, vars, daemonVars
<1> QED BY <1>3, <1>4, <1>5, <1>6, <1>7, <1>8, <1>9 DEF Next, Daemon

\* The queue implements the abstract mailbox: port, batches, kills, timeouts,
\* stops and restarts are steps of the mailbox or invisible to it.
THEOREM QueueIsMailbox == Spec => ServesMailbox
<1>1. Spec => mailbox!Spec
  BY InitMailbox, StepMailbox, QueueInvAlways, PTL DEF Spec, mailbox!Spec
<1> QED BY <1>1 DEF ServesMailbox

---------------------------------------------------------------------------
(* What force mode kills and relaunches *)

LEMMA TierUnique ==
    ASSUME NEW p, NEW i \in AllTiers, InTier(p, i) PROVE TierOf(p, AllTiers) = i
<1>1. AllTiers \in SUBSET Nat
  BY KillTiersAssumption, LenProperties DEF AllTiers
<1>2. \A j \in AllTiers : InTier(p, j) => j = i
  BY KillTiersAssumption DEF InTier, AllTiers
<1>3. {j \in AllTiers : InTier(p, j)} = {i}
  BY <1>2
<1>4. Min({i}) = i
  BY <1>1, MinNat
<1> QED BY <1>3, <1>4 DEF TierOf

\* What FreeRam does, in terms of a walk.
LEMMA FreeRamWalks ==
    ASSUME QueueInv, FreeRam
    PROVE  /\ procs \in Table /\ current.action \in Process /\ current' = current
           /\ ScriptRam[current.action] \in Nat
           /\ procs' = Kill(procs, killed')
           /\ \E order, k : IsWalk(order, k, procs, ScriptRam[current.action], killed')
           /\ killed' \in Seq(Process)
           /\ ToSet(killed') \in SUBSET Killable(procs, AllTiers)
           /\ Killable(procs, AllTiers) \in SUBSET Process
           /\ AvailableRam(procs) \in Int /\ RamOf(procs, killed') \in Int
           /\ AvailableRam(procs') = AvailableRam(procs) + RamOf(procs, killed')
<1>1. /\ todo # <<>> /\ todo' = todo /\ procs' = Kill(procs, killed')
      /\ killed' \in WalkKillTiers(procs, ScriptRam[current.action], AllTiers)
  BY DEF FreeRam, Runnable, QueueInv, ControlOK
<1>2. procs \in Table /\ current.action \in Process
  BY <1>1, CurrentType DEF QueueInv, Sound
<1>3. ScriptRam[current.action] \in Nat /\ current' = current
  BY <1>1, <1>2, ScriptRamAssumption DEF current
<1>4. PICK order, k : IsWalk(order, k, procs, ScriptRam[current.action], killed')
  BY <1>1, WalkShape
<1>5. /\ killed' \in Seq(Process) /\ ToSet(killed') \in SUBSET Killable(procs, AllTiers)
      /\ Killable(procs, AllTiers) \in SUBSET Process
  BY <1>4, WalkVictims
<1>6. /\ UsedRam(procs') = UsedRam(procs) - RamOf(procs, killed')
      /\ UsedRam(procs) \in Int /\ RamOf(procs, killed') \in Int
  BY <1>1, <1>2, <1>5, KillRam
<1>7. /\ AvailableRam(procs) \in Int
      /\ AvailableRam(procs') = AvailableRam(procs) + RamOf(procs, killed')
  BY <1>6, MaxRamAssumption DEF AvailableRam
<1> QED BY <1>1, <1>2, <1>3, <1>4, <1>5, <1>6, <1>7

\* The dashboard is the last resort: nothing of a tier is killed while a process
\* of an earlier tier is left.
THEOREM KillsLowerTiersFirst == Spec => LowerTiersFirst
<1> DEFINE Step == FreeRam => \A i, j \in AllTiers :
                     i < j /\ (\E v \in ToSet(killed') : InTier(v, j))
                       => \A p \in Running(procs') : ~InTier(p, i)
<1>1. QueueInv => Step
  <2> SUFFICES ASSUME QueueInv, FreeRam, NEW i \in AllTiers, NEW j \in AllTiers, i < j,
                      NEW v \in ToSet(killed'), InTier(v, j),
                      NEW p \in Running(procs'), InTier(p, i)
               PROVE  FALSE
    OBVIOUS
  <2>1. PICK order, k : IsWalk(order, k, procs, ScriptRam[current.action], killed')
    BY FreeRamWalks
  <2> DEFINE killable == Killable(procs, AllTiers)
             n == Cardinality(killable)
  <2>2. /\ n \in Nat /\ k \in 0..n
        /\ \A q \in killable : \E a \in 1..n : order[a] = q
        /\ \A a, b \in 1..n : a < b => Before(procs, AllTiers, order[a], order[b])
    BY <2>1 DEF IsWalk
  <2>3. ToSet(killed') = {order[a] : a \in 1..k}
    BY <2>1, WalkVictims
  <2>4. p \in killable /\ p \notin ToSet(killed')
    <3>1. p \in Process /\ procs'[p] > 0 /\ procs' = Kill(procs, killed')
      BY FreeRamWalks DEF Running
    <3>2. p \notin ToSet(killed') /\ procs[p] > 0
      BY <3>1 DEF Kill
    <3> QED BY <3>1, <3>2 DEF Killable, Running
  <2> HIDE DEF killable, n
  <2>5. PICK b \in 1..n : order[b] = p
    BY <2>2, <2>4
  <2>6. PICK a \in 1..k : order[a] = v
    BY <2>3
  <2>7. a \in 1..n /\ a < b
    <3>1. ~(b \in 1..k)
      BY <2>3, <2>4, <2>5
    <3> QED BY <2>2, <3>1
  <2>8. Before(procs, AllTiers, v, p)
    BY <2>2, <2>5, <2>6, <2>7
  <2>9. TierOf(v, AllTiers) = j /\ TierOf(p, AllTiers) = i
    BY TierUnique
  <2>10. i \in Nat /\ j \in Nat
    BY KillTiersAssumption, LenProperties DEF AllTiers
  <2> QED BY <2>8, <2>9, <2>10 DEF Before
<1>2. QueueInv /\ [Next]_vars => [Step]_vars
  BY <1>1
<1> QED BY <1>2, QueueInvAlways, PTL DEF Spec, LowerTiersFirst

\* The walk frees enough whenever killing everything killable would.
THEOREM FreesEnoughIfPossible == Spec => EnoughIfPossible
<1> DEFINE Step == FreeRam => \/ ~Short'
                              \/ CalcAvailableAfterKills(procs, AllTiers) < ScriptRam[current.action]
<1>1. QueueInv => Step
  <2> SUFFICES ASSUME QueueInv, FreeRam
               PROVE  \/ ~Short'
                      \/ CalcAvailableAfterKills(procs, AllTiers) < ScriptRam[current.action]
    OBVIOUS
  <2> DEFINE target == ScriptRam[current.action]
             killable == Killable(procs, AllTiers)
             n == Cardinality(killable)
  <2>1. PICK order, k : IsWalk(order, k, procs, target, killed')
    BY FreeRamWalks
  <2>2. /\ n \in Nat /\ k \in 0..n /\ killed' = SubSeq(order, 1, k) /\ Len(order) = n
        /\ order \in [1..n -> killable] /\ \A p \in killable : \E a \in 1..n : order[a] = p
        /\ \/ Enough(procs, target, order) = {} /\ k = n
           \/ k \in Enough(procs, target, order)
    BY <2>1 DEF IsWalk
  <2>3. /\ target \in Nat /\ AvailableRam(procs) \in Int /\ RamOf(procs, killed') \in Int
        /\ AvailableRam(procs') = AvailableRam(procs) + RamOf(procs, killed')
        /\ current' = current
    BY FreeRamWalks
  <2>4. CASE k \in Enough(procs, target, order)
    <3>1. AvailableRam(procs) + RamOf(procs, killed') >= target
      BY <2>2, <2>4 DEF Enough
    <3>2. ~(AvailableRam(procs') < target)
      BY <2>3, <3>1
    <3> QED BY <2>3, <3>2 DEF Short
  <2>5. CASE Enough(procs, target, order) = {} /\ k = n
    <3>1. n \in 0..Len(order) /\ n \notin Enough(procs, target, order)
      BY <2>2, <2>5
    <3>2. ~(AvailableRam(procs) + RamOf(procs, SubSeq(order, 1, n)) >= target)
      BY <3>1 DEF Enough
    <3>3. ToSet(killed') = killable
      <4>1. ToSet(killed') = {order[a] : a \in 1..k}
        BY <2>1, WalkVictims
      <4>2. \A a \in 1..k : order[a] \in killable
        BY <2>2
      <4>3. \A p \in killable : \E a \in 1..k : order[a] = p
        BY <2>2, <2>5
      <4> QED BY <4>1, <4>2, <4>3
    <3>4. CalcAvailableAfterKills(procs, AllTiers) = AvailableRam(procs) + RamOf(procs, killed')
      BY <3>3 DEF CalcAvailableAfterKills, RamOf
    <3> QED BY <2>2, <2>3, <2>5, <3>2, <3>4
  <2> QED BY <2>2, <2>4, <2>5
<1>2. QueueInv /\ [Next]_vars => [Step]_vars
  BY <1>1
<1> QED BY <1>2, QueueInvAlways, PTL DEF Spec, EnoughIfPossible

\* Once a process has been offered to the relaunch loop, it is back or there is
\* no room for it, and the rest of the loop does not change that.
LEMMA RelaunchKeeps ==
    ASSUME NEW t, Sound(t), NEW p \in Process, NEW r \in Process
    PROVE  /\ ~NotBack(t, p) => ~NotBack(RelaunchOne(t, r), p)
           /\ ScriptRam[p] > 0 => ~NotBack(RelaunchOne(t, p), p)
<1>1. t \in Table /\ \A q \in Process : t[q] \in Nat /\ ScriptRam[q] \in Nat
  BY ScriptRamAssumption DEF Sound, Table
<1>2. ASSUME NEW q \in Process, t[q] = 0
      PROVE  /\ \A s \in Process \ {q} : Exec(t, q, 1)[s] = t[s]
             /\ Exec(t, q, 1)[q] = 1
             /\ AvailableRam(Exec(t, q, 1)) <= AvailableRam(t)
             /\ AvailableRam(Exec(t, q, 1)) \in Int /\ AvailableRam(t) \in Int
  <2>1. /\ UsedRam(Exec(t, q, 1)) = UsedRam(t) - ScriptRam[q] * t[q] + ScriptRam[q] * 1
        /\ UsedRam(t) \in Int /\ UsedRam(Exec(t, q, 1)) \in Int
    BY <1>1, ExecRam
  <2>2. ScriptRam[q] * t[q] = 0 /\ ScriptRam[q] * 1 = ScriptRam[q] /\ ScriptRam[q] \in Nat
    BY <1>1, <1>2, SMT
  <2>3. UsedRam(t) <= UsedRam(Exec(t, q, 1))
    BY <2>1, <2>2
  <2> QED BY <1>1, <2>1, <2>3, MaxRamAssumption DEF AvailableRam, Exec, Table
<1>3. AvailableRam(t) \in Int
  BY <1>1, ExecRam, MaxRamAssumption DEF AvailableRam
<1>4. ASSUME ~NotBack(t, p) PROVE ~NotBack(RelaunchOne(t, r), p)
  <2>1. CASE ScriptRam[r] > 0 /\ t[r] = 0 /\ AvailableRam(t) >= ScriptRam[r]
    <3>1. RelaunchOne(t, r) = Exec(t, r, 1)
      BY <2>1 DEF RelaunchOne
    <3> DEFINE a == AvailableRam(Exec(t, r, 1))
    <3>2. a \in Int /\ a <= AvailableRam(t) /\ (r # p => Exec(t, r, 1)[p] = t[p])
          /\ (r = p => Exec(t, r, 1)[p] = 1)
      BY <1>2, <2>1
    <3>3. t[p] # 0 \/ ~(AvailableRam(t) >= ScriptRam[p])
      BY <1>4 DEF NotBack
    <3>4. Exec(t, r, 1)[p] # 0 \/ ~(a >= ScriptRam[p])
      <4> HIDE DEF a
      <4> QED BY <1>1, <1>3, <3>2, <3>3
    <3> QED BY <3>1, <3>4 DEF NotBack
  <2> QED BY <1>4, <2>1 DEF RelaunchOne
<1>5. ASSUME ScriptRam[p] > 0 PROVE ~NotBack(RelaunchOne(t, p), p)
  <2>1. CASE t[p] = 0 /\ AvailableRam(t) >= ScriptRam[p]
    <3>1. RelaunchOne(t, p)[p] = 1
      BY <1>2, <1>5, <2>1 DEF RelaunchOne
    <3> QED BY <3>1 DEF NotBack
  <2>2. CASE ~(t[p] = 0 /\ AvailableRam(t) >= ScriptRam[p])
    BY <2>2 DEF RelaunchOne, NotBack
  <2> QED BY <2>1, <2>2
<1> QED BY <1>4, <1>5

LEMMA RelaunchedBack ==
    ASSUME NEW t, Sound(t), NEW q \in Seq(Process), NEW a \in DOMAIN q, ScriptRam[q[a]] > 0
    PROVE  ~NotBack(Relaunched(t, q), q[a])
<1>0. /\ t \in Table /\ Len(q) \in Nat /\ \A i \in 1..Len(q) : q[i] \in Process
      /\ a \in 1..Len(q)
  BY DEF Sound
<1>1. PICK table \in [0..Len(q) -> Table] :
        /\ table[0] = t
        /\ \A i \in 1..Len(q) : table[i] = RelaunchOne(table[i - 1], q[i])
        /\ Relaunched(t, q) = table[Len(q)]
  BY <1>0, RelaunchSteps
<1> DEFINE Good == {i \in Nat : i \in 0..Len(q) =>
                      Sound(table[i]) /\ (a <= i => ~NotBack(table[i], q[a]))}
<1>2. ASSUME NEW i \in Nat, \A m \in 0..(i - 1) : m \in Good PROVE i \in Good
  <2>1. CASE i = 0
    BY <1>0, <1>1, <2>1
  <2>2. CASE i # 0 /\ i \in 0..Len(q)
    <3>1. i \in 1..Len(q) /\ i - 1 \in 0..Len(q) /\ i - 1 \in 0..(i - 1)
      BY <1>0, <2>2
    <3>2. table[i] = RelaunchOne(table[i - 1], q[i]) /\ Sound(table[i - 1])
      BY <1>1, <1>2, <3>1
    <3>3. Sound(table[i])
      BY <1>0, <3>1, <3>2, RelaunchOneSound
    <3>4. ASSUME a <= i PROVE ~NotBack(table[i], q[a])
      <4>1. CASE a = i
        BY <1>0, <3>1, <3>2, <4>1, RelaunchKeeps
      <4>2. CASE a # i
        <5>1. a <= i - 1
          BY <1>0, <3>4, <4>2
        <5>2. ~NotBack(table[i - 1], q[a])
          BY <1>2, <3>1, <5>1
        <5> QED BY <1>0, <3>1, <3>2, <5>2, RelaunchKeeps
      <4> QED BY <4>1, <4>2
    <3> QED BY <3>3, <3>4
  <2> QED BY <2>1, <2>2
<1>3. Nat \subseteq Good
  <2> HIDE DEF Good
  <2> QED BY <1>2, AllNat
<1> QED BY <1>0, <1>1, <1>3

\* After a force entry, no script it killed stays dead while home has room for it.
THEOREM KilledAreRelaunched == Spec => RelaunchedIfRoom
<1> DEFINE Step == Relaunch => \A p \in ToSet(killed) : ~NotBack(procs', p)
<1>1. QueueInv => Step
  <2> SUFFICES ASSUME QueueInv, Relaunch, NEW p \in ToSet(killed)
               PROVE  ~NotBack(procs', p)
    OBVIOUS
  <2>1. PICK a \in DOMAIN killed : killed[a] = p
    BY DEF ToSet
  <2>2. /\ Sound(procs) /\ killed \in Seq(Process) /\ ScriptRam[killed[a]] > 0
        /\ procs' = Relaunched(procs, killed)
    BY DEF QueueInv, ControlOK, HasFile, Relaunch
  <2> QED BY <2>1, <2>2, RelaunchedBack
<1>2. QueueInv /\ [Next]_vars => [Step]_vars
  BY <1>1
<1> QED BY <1>2, QueueInvAlways, PTL DEF Spec, RelaunchedIfRoom

\* A set of processes that empties lower tiers first and is smaller than a prefix
\* of the walk's order frees no more than the prefix of its size.
LEMMA PrefixIsBest ==
    ASSUME NEW t \in Table, NEW target, NEW taken, NEW order, NEW k,
           IsWalk(order, k, t, target, taken),
           NEW victims \in SUBSET Killable(t, AllTiers),
           \A v \in victims, j \in AllTiers : InTier(v, j) =>
               \A i \in 1..(j - 1), p \in Running(t) : InTier(p, i) => p \in victims
    PROVE  LET m == Cardinality(victims) IN
           /\ m \in 0..Len(order)
           /\ SumFunctionOnSet(Ram(t), victims) <= RamOf(t, SubSeq(order, 1, m))
           /\ SumFunctionOnSet(Ram(t), victims) \in Int
           /\ RamOf(t, SubSeq(order, 1, m)) \in Int
<1> DEFINE killable == Killable(t, AllTiers)
           n == Cardinality(killable)
           m == Cardinality(victims)
           first == {order[a] : a \in 1..m}
           Sum(s) == SumFunctionOnSet(Ram(t), s)
<1>1. killable \in SUBSET Running(t) /\ Running(t) \in SUBSET Process /\ killable \in SUBSET Process
  BY DEF Killable, Running
<1>2. /\ n \in Nat /\ order \in [1..n -> killable] /\ Len(order) = n
      /\ \A i, j \in 1..n : order[i] = order[j] => i = j
      /\ \A p \in killable : \E i \in 1..n : order[i] = p
      /\ \A i, j \in 1..n : i < j => Before(t, AllTiers, order[i], order[j])
  BY DEF IsWalk
<1>3. IsFiniteSet(killable) /\ IsFiniteSet(victims) /\ m \in Nat /\ m <= n
  <2>1. IsFiniteSet(killable)
    BY <1>1, ProcessAssumption, FS_Subset
  <2> QED BY <2>1, FS_Subset, FS_CardinalityType
<1>4. \A p \in killable : \E i \in AllTiers : InTier(p, i)
  BY DEF Killable
<1>5. AllTiers = 1..Len(KillTiers) /\ Len(KillTiers) \in Nat
  BY KillTiersAssumption, LenProperties DEF AllTiers
<1>6. \A s \in SUBSET killable : /\ IsFiniteSet(s) /\ Values(Ram(t), s) /\ Sum(s) \in Int
                                 /\ s \in SUBSET Process
  <2>1. \A s \in SUBSET killable : s \in SUBSET Process
    BY <1>1
  <2> QED BY <2>1, RamValues
<1> HIDE DEF killable
<1>7. 1..m \in SUBSET (1..n) /\ m \in 0..Len(order)
  BY <1>2, <1>3
<1>8. first \in SUBSET killable /\ ToSet(SubSeq(order, 1, m)) = first
  <2> HIDE DEF n, m
  <2>1. SubSeq(order, 1, m) = [a \in 1..m |-> order[a]]
    BY <1>2, <1>3, <1>7 DEF SubSeq
  <2>2. ToSet(SubSeq(order, 1, m)) = {order[a] : a \in 1..m}
    BY <2>1 DEF ToSet
  <2> QED BY <1>2, <1>7, <2>2
<1>9. Cardinality(first) = m
  <2> DEFINE f == [a \in 1..m |-> order[a]]
  <2>1. f \in Bijection(1..m, first)
    <3> HIDE DEF n, m
    <3>1. f \in Injection(1..m, first)
      BY <1>2, <1>7 DEF Injection, IsInjective
    <3>2. f \in Surjection(1..m, first)
      BY DEF Surjection
    <3> QED BY <3>1, <3>2 DEF Bijection
  <2>2. IsFiniteSet(1..m) /\ Cardinality(1..m) = m
    BY <1>3, FS_Interval
  <2>3. ExistsBijection(1..m, first)
    BY <2>1 DEF ExistsBijection
  <2> HIDE DEF f, first
  <2> QED BY <2>2, <2>3, FS_Bijection
<1>10. Cardinality(victims \ first) = Cardinality(first \ victims)
  <2>1. IsFiniteSet(first)
    BY <1>6, <1>8
  <2> HIDE DEF first, m
  <2>2. /\ Cardinality(victims \ first) = Cardinality(victims) - Cardinality(victims \cap first)
        /\ Cardinality(first \ victims) = Cardinality(first) - Cardinality(first \cap victims)
    BY <1>3, <2>1, FS_Difference
  <2>3. first \cap victims = victims \cap first
    OBVIOUS
  <2> QED BY <1>9, <2>2, <2>3 DEF m
<1>11. ASSUME NEW x \in victims \ first, NEW y \in first \ victims
       PROVE  Ram(t)[x] <= Ram(t)[y]
  <2>1. PICK b \in 1..n : order[b] = x
    BY <1>2, <1>11 DEF killable
  <2>2. PICK a \in 1..m : order[a] = y
    BY <1>11
  <2>3. a \in 1..n /\ a < b
    <3>1. ~(b \in 1..m)
      BY <1>11, <2>1
    <3> HIDE DEF m, n
    <3> QED BY <1>3, <1>7, <2>1, <2>2, <3>1
  <2>4. Before(t, AllTiers, y, x)
    BY <1>2, <2>1, <2>2, <2>3
  <2>5. x \in killable /\ y \in killable /\ y \in Running(t)
    BY <1>1, <1>8, <1>11 DEF killable
  <2>6. PICK i \in AllTiers, j \in AllTiers : InTier(y, i) /\ InTier(x, j)
    BY <1>4, <2>5
  <2>7. TierOf(y, AllTiers) = i /\ TierOf(x, AllTiers) = j
    BY <2>6, TierUnique
  <2>8. ~(i < j)
    <3>1. SUFFICES ASSUME i < j PROVE FALSE
      OBVIOUS
    <3>2. i \in 1..(j - 1)
      BY <1>5, <3>1
    <3> QED BY <1>11, <2>5, <2>6, <3>2
  <2>9. Ram(t)[y] >= Ram(t)[x]
    BY <2>4, <2>7, <2>8 DEF Before
  <2>10. Ram(t)[x] \in Int /\ Ram(t)[y] \in Int
    BY <1>1, <2>5, RamValues
  <2> QED BY <2>9, <2>10
<1> HIDE DEF first
<1>12. Sum(victims \ first) <= Sum(first \ victims)
  <2>1. victims \ first \in SUBSET killable /\ first \ victims \in SUBSET killable
    BY <1>8 DEF killable
  <2> QED BY <1>6, <1>10, <1>11, <2>1, SumDominated
<1>13. /\ Sum(victims) = Sum(victims \cap first) + Sum(victims \ first)
       /\ Sum(first) = Sum(victims \cap first) + Sum(first \ victims)
  <2>1. /\ victims \in SUBSET killable /\ victims \cap first \in SUBSET victims
        /\ victims \cap first \in SUBSET first
        /\ victims \ (victims \cap first) = victims \ first
        /\ first \ (victims \cap first) = first \ victims
    BY DEF killable
  <2>2. /\ Sum(victims) = Sum(victims \cap first) + Sum(victims \ (victims \cap first))
        /\ Sum(first) = Sum(victims \cap first) + Sum(first \ (victims \cap first))
    <3>1. IsFiniteSet(victims) /\ Values(Ram(t), victims)
      BY <1>6, <2>1
    <3>2. IsFiniteSet(first) /\ Values(Ram(t), first)
      BY <1>6, <1>8
    <3>3. Sum(victims) = Sum(victims \cap first) + Sum(victims \ (victims \cap first))
      BY <2>1, <3>1, SumSplit
    <3>4. Sum(first) = Sum(victims \cap first) + Sum(first \ (victims \cap first))
      BY <2>1, <3>2, SumSplit
    <3> QED BY <3>3, <3>4
  <2> QED BY <2>1, <2>2
<1>14. Sum(victims) <= Sum(first)
  <2>1. /\ Sum(victims \cap first) \in Int /\ Sum(victims \ first) \in Int
        /\ Sum(first \ victims) \in Int
    <3>1. /\ victims \cap first \in SUBSET killable /\ victims \ first \in SUBSET killable
          /\ first \ victims \in SUBSET killable
      BY <1>8 DEF killable
    <3> QED BY <1>6, <3>1
  <2> HIDE DEF Sum
  <2> QED BY <1>12, <1>13, <2>1
<1>15. Sum(victims) \in Int /\ Sum(first) \in Int
  BY <1>6, <1>8 DEF killable
<1> QED BY <1>7, <1>8, <1>14, <1>15 DEF RamOf

\* The walk kills as few processes as its tiers allow.
THEOREM KillsFewest == Spec => FewestKills
<1> DEFINE Step == FreeRam => \A victims \in SUBSET Running(procs) :
         /\ \A v \in victims : \E j \in AllTiers : InTier(v, j) /\
               \A i \in 1..(j - 1), p \in Running(procs) : InTier(p, i) => p \in victims
         /\ AvailableRam(procs) + SumFunctionOnSet(Ram(procs), victims)
              >= ScriptRam[current.action]
         => Cardinality(victims) >= Len(killed')
<1>1. QueueInv => Step
  <2> SUFFICES ASSUME QueueInv, FreeRam, NEW victims \in SUBSET Running(procs),
                      \A v \in victims : \E j \in AllTiers : InTier(v, j) /\
                        \A i \in 1..(j - 1), p \in Running(procs) :
                          InTier(p, i) => p \in victims,
                      AvailableRam(procs) + SumFunctionOnSet(Ram(procs), victims)
                        >= ScriptRam[current.action]
               PROVE  Cardinality(victims) >= Len(killed')
    OBVIOUS
  <2> DEFINE target == ScriptRam[current.action]
             m == Cardinality(victims)
  <2>1. PICK order, k : IsWalk(order, k, procs, target, killed')
    BY FreeRamWalks
  <2>2. /\ procs \in Table /\ target \in Nat /\ AvailableRam(procs) \in Int
    BY FreeRamWalks
  <2>3. victims \in SUBSET Killable(procs, AllTiers)
    BY DEF Killable
  <2>4. ASSUME NEW v \in victims, NEW j \in AllTiers, InTier(v, j),
               NEW i \in 1..(j - 1), NEW p \in Running(procs), InTier(p, i)
        PROVE  p \in victims
    <3>1. PICK h \in AllTiers : InTier(v, h) /\
             \A l \in 1..(h - 1), q \in Running(procs) : InTier(q, l) => q \in victims
      OBVIOUS
    <3>2. h = j
      BY <2>4, <3>1, TierUnique
    <3> QED BY <2>4, <3>1, <3>2
  <2>5. /\ m \in 0..Len(order)
        /\ SumFunctionOnSet(Ram(procs), victims) <= RamOf(procs, SubSeq(order, 1, m))
        /\ SumFunctionOnSet(Ram(procs), victims) \in Int
        /\ RamOf(procs, SubSeq(order, 1, m)) \in Int
    BY <2>1, <2>2, <2>3, <2>4, PrefixIsBest
  <2>6. AvailableRam(procs) + RamOf(procs, SubSeq(order, 1, m)) >= target
    BY <2>2, <2>5
  <2>7. m \in Enough(procs, target, order)
    BY <2>5, <2>6 DEF Enough
  <2>8. k <= m /\ Len(killed') = k /\ k \in Nat
    <3>1. k <= m /\ k \in 0..Cardinality(Killable(procs, AllTiers))
      BY <2>1, <2>7 DEF IsWalk
    <3> QED BY <2>1, <3>1, WalkVictims
  <2> QED BY <2>5, <2>8
<1>2. QueueInv /\ [Next]_vars => [Step]_vars
  BY <1>1
<1> QED BY <1>2, QueueInvAlways, PTL DEF Spec, FewestKills
============================================================================
