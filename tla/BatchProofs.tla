---------------------------- MODULE BatchProofs ----------------------------
(***************************************************************************)
(* What TLAPS proves of Batches, for every number of targets and hosts,    *)
(* every RAM, every thread count, all times and all figures of what a hack *)
(* takes and a grow thread restores that the assumptions admit.  A batch   *)
(* enters whole (WholeBatches), its workers fit (HostsHaveRoom), and since *)
(* its operations land in order and a pipeline holds so many batches only, *)
(* sums over the workers still to land bound what the target lacks, also   *)
(* where a batch takes more than its grow restores (TheftsCovered).        *)
(***************************************************************************)
EXTENDS Batches, FoldTheorems, SequenceTheorems

---------------------------------------------------------------------------
(* Sequences *)

\* What holds of no elements and of each part added to those before it holds of a
\* concatenation.
LEMMA FlattenLeads ==
    ASSUME NEW S, NEW qs \in Seq(Seq(S)), NEW J \in [0..Len(qs) -> SUBSET Seq(S)],
           <<>> \in J[0], \A i \in 1..Len(qs) : \A x \in J[i - 1] : x \o qs[i] \in J[i]
    PROVE  FlattenSeq(qs) \in J[Len(qs)]
<1> DEFINE n == Len(qs)
           X == Seq(S)
           none == <<>>
<1>0. /\ n \in Nat /\ none \in X /\ \A i \in 1..n : qs[i] \in X
      /\ \A x, y \in X : x \o y \in X
      /\ \A x \in X : none \o x = x
  BY EmptySeq, ConcatProperties, ConcatEmptySeq, ElementOfSeq
<1>1. \A i \in 1..n : i \in 0..n /\ i - 1 \in 0..n /\ (i # 1 => i - 1 \in 1..n)
  BY <1>0
<1> HIDE DEF X, none
<1> DEFINE Unfold(g) == [i \in 1..n |-> IF i = 1 THEN qs[i] ELSE g[i - 1] \o qs[i]]
           flat == CHOOSE g : g = Unfold(g)
<1>2. FlattenSeq(qs) = IF n = 0 THEN qs ELSE flat[n]
  BY DEF FlattenSeq
<1>3. \A i \in 1..n : \A x \in J[i - 1] : x \o qs[i] \in J[i]
  OBVIOUS
<1>4. CASE n = 0
  <2>1. qs = none
    BY <1>4, EmptySeq DEF none
  <2> QED BY <1>2, <1>4, <2>1 DEF none, n
<1>5. CASE n # 0
  <2> HIDE DEF n
  <2> DEFINE F == [p \in (1..n) \X X |-> p[2] \o qs[p[1]]]
  <2>1. \A i \in 1..n : \A x \in X : F[<<i, x>>] = x \o qs[i] /\ F[<<i, x>>] \in X
    BY <1>0
  <2>2. \A i \in 0..n : J[i] \subseteq X
    BY DEF X, n
  <2>3. PICK g \in [0..n -> X] : RunOf(g, F, J, none, n)
    <3>1. J \in [0..n -> SUBSET X] /\ none \in J[0]
      BY DEF X, n, none
    <3>2. Leads(F, J, n)
      <4>1. ASSUME NEW i \in 1..n, NEW x \in J[i - 1] PROVE F[<<i, x>>] \in J[i]
        <5>1. x \in X /\ x \o qs[i] \in J[i]
          BY <1>1, <1>3, <2>2
        <5> HIDE DEF F
        <5> QED BY <2>1, <5>1
      <4> HIDE DEF F
      <4>2. \A i \in 1..n : \A x \in J[i - 1] : F[<<i, x>>] \in J[i]
        BY <4>1, Zenon
      <4> QED BY <4>2, Zenon DEF Leads
    <3>3. n \in Nat
      BY <1>0
    <3> HIDE DEF F
    <3> QED BY <3>1, <3>2, <3>3, RunExists, Zenon
  <2> DEFINE h == [i \in 1..n |-> g[i]]
  <2>4. ASSUME NEW i \in 1..n PROVE h[i] = IF i = 1 THEN qs[i] ELSE h[i - 1] \o qs[i]
    <3>1. i - 1 \in 0..n /\ g[i - 1] \in X
      BY <1>1, <2>3
    <3>2. g[i] = g[i - 1] \o qs[i]
      BY <2>1, <2>3, <3>1 DEF RunOf
    <3>3. CASE i = 1
      <4>1. g[i - 1] = none /\ none \o qs[i] = qs[i]
        <5>1. i - 1 = 0 /\ qs[i] \in X
          BY <1>0, <3>3
        <5> QED BY <1>0, <2>3, <5>1, Zenon DEF RunOf
      <4> QED BY <3>2, <3>3, <4>1
    <3>4. CASE i # 1
      BY <1>1, <3>2, <3>4
    <3> QED BY <3>3, <3>4
  <2>5. h = Unfold(h)
    BY <2>4
  <2> HIDE DEF F
  <2>6. flat = Unfold(flat)
    BY <2>5
  <2> HIDE DEF flat
  <2> DEFINE g2 == [i \in 0..n |-> IF i = 0 THEN none ELSE flat[i]]
  <2>7. \A i \in 0..n : g2[i] \in J[i]
    <3>1. ASSUME NEW i \in 1..n, g2[i - 1] \in J[i - 1] PROVE g2[i] \in J[i]
      <4>1. i \in 0..n /\ i - 1 \in 0..n /\ i # 0 /\ g2[i] = flat[i]
        BY <1>1
      <4>2. CASE i = 1
        <5>1. i - 1 = 0 /\ none \in J[0] /\ qs[i] = none \o qs[i]
          BY <1>0, <4>2 DEF none
        <5>2. none \o qs[i] \in J[i]
          <6>1. none \in J[i - 1]
            BY <5>1, Zenon
          <6> QED BY <1>3, <6>1
        <5> QED BY <2>6, <4>1, <4>2, <5>1, <5>2
      <4>3. CASE i # 1
        <5>1. i - 1 \in 1..n /\ i - 1 # 0
          BY <1>1, <4>3
        <5>2. g2[i - 1] = flat[i - 1] /\ flat[i] = flat[i - 1] \o qs[i]
          BY <2>6, <4>1, <4>3, <5>1
        <5> QED BY <1>3, <3>1, <4>1, <5>2
      <4> QED BY <4>2, <4>3
    <3>2. g2[0] \in J[0]
      BY <1>0 DEF none
    <3> HIDE DEF g2
    <3> QED BY <1>0, <3>1, <3>2, RunStays
  <2>8. n \in 0..n /\ n \in 1..n
    BY <1>0, <1>5
  <2> QED BY <1>2, <1>5, <2>7, <2>8 DEF n
<1> QED BY <1>4, <1>5

\* The elements of a concatenation are those of its parts.
LEMMA Flattened ==
    ASSUME NEW S, NEW qs \in Seq(Seq(S))
    PROVE  FlattenSeq(qs) \in Seq(S)
<1> DEFINE n == Len(qs)
           J == [i \in 0..n |-> Seq(S)]
<1>1. n \in Nat /\ <<>> \in Seq(S) /\ \A i \in 1..n : qs[i] \in Seq(S)
  BY EmptySeq, LenProperties, ElementOfSeq
<1>2. \A x, y \in Seq(S) : x \o y \in Seq(S)
  BY ConcatProperties
<1> HIDE DEF n
<1>3. \A i \in 0..n : J[i] = Seq(S)
  OBVIOUS
<1>4. \A i \in 1..n : i \in 0..n /\ i - 1 \in 0..n
  BY <1>1
<1>5. J \in [0..n -> SUBSET Seq(S)]
  OBVIOUS
<1>6. 0 \in 0..n /\ n \in 0..n
  BY <1>1
<1> HIDE DEF J
<1>7. \A i \in 1..n : \A x \in J[i - 1] : x \o qs[i] \in J[i]
  BY <1>1, <1>2, <1>3, <1>4
<1> QED BY <1>1, <1>3, <1>5, <1>6, <1>7, FlattenLeads DEF n

---------------------------------------------------------------------------
(* Workers and allocations *)

Kind == {"hack", "grow", "weaken"}
Tag == Batch \cup {"prep", "prep-cw"}
Process == [type : Kind, target : Target, tag : Tag, server : Server, threads : Nat, left : Nat]
Op == [type : Kind, target : Target, threads : Nat, delay : Nat, tag : Tag]
Crew == {P \in SUBSET Process : IsFiniteSet(P)}
Alloc == [free : [Server -> Nat], placed : Crew, left : Nat]

ThreadCount == [w \in Process |-> w.threads]
RamUse == [w \in Process |-> RamCost[w.type] * w.threads]

\* The workers that threads of an operation may become on the hosts of a set.
Spots(op, hosts) ==
    {w \in Process : /\ w.type = op.type /\ w.target = op.target /\ w.tag = op.tag
                     /\ w.left = op.delay + Duration[op.type] /\ w.server \in hosts}

\* Free RAM and placed workers together stay within what was free.
Within(alloc, free) == \A s \in Server : alloc.free[s] + UsedRam(alloc.placed, s) <= free[s]

LEMMA Figures ==
    /\ \A type \in Kind : RamCost[type] \in {170, 175} /\ Duration[type] \in Nat
    /\ DOMAIN RamCost = Kind
  BY TimesAssumption DEF RamCost, Duration, Kind

LEMMA CrewValues ==
    ASSUME NEW P \in Crew
    PROVE  /\ IsFiniteSet(P) /\ P \subseteq Process
           /\ Values(ThreadCount, P) /\ Values(RamUse, P)
           /\ \A w \in P : ThreadCount[w] \in Nat /\ RamUse[w] \in Nat /\ RamUse[w] >= 0
           /\ \A Q \in SUBSET P : Q \in Crew
<1>1. IsFiniteSet(P) /\ P \subseteq Process /\ \A Q \in SUBSET P : Q \in Crew
  BY FS_Subset DEF Crew
<1>2. ASSUME NEW w \in Process PROVE ThreadCount[w] \in Nat /\ RamUse[w] \in Nat
  <2>1. w.threads \in Nat /\ RamCost[w.type] \in {170, 175}
    BY Figures DEF Process
  <2>2. ThreadCount[w] = w.threads /\ RamUse[w] = RamCost[w.type] * w.threads
    BY DEF ThreadCount, RamUse
  <2> HIDE DEF RamUse
  <2> QED BY <2>1, <2>2
<1> QED BY <1>1, <1>2 DEF Values

\* RAM in use as a sum of the workers' RAM.
LEMMA UsedRamIs ==
    ASSUME NEW P \in Crew, NEW s \in Server
    PROVE  LET here == {w \in P : w.server = s}
           IN  /\ here \in Crew
               /\ UsedRam(P, s) = SumFunctionOnSet(RamUse, here) /\ UsedRam(P, s) \in Nat
<1> DEFINE here == {w \in P : w.server = s}
           f == [w \in P |-> RamCost[w.type] * w.threads]
<1>1. here \in Crew
  BY CrewValues
<1>2. IsFiniteSet(here) /\ Values(RamUse, here) /\ \A w \in here : RamUse[w] >= 0 /\ RamUse[w] = f[w]
  <2>1. \A w \in here : RamUse[w] = f[w]
    BY DEF Crew, RamUse
  <2> QED BY <1>1, <2>1, CrewValues
<1>3. SumFunctionOnSet(RamUse, here) = SumFunctionOnSet(f, here)
  <2> HIDE DEF f, here
  <2> QED BY <1>2, SumSame
<1>4. SumFunctionOnSet(RamUse, here) \in Int /\ SumFunctionOnSet(RamUse, here) >= 0
  BY <1>2, SumType, SumNat
<1> QED BY <1>1, <1>3, <1>4 DEF UsedRam

\* More workers use more RAM, a union no more than its parts together.
LEMMA UsedRamOfPart ==
    ASSUME NEW P \in Crew, NEW Q \in SUBSET P, NEW s \in Server
    PROVE  UsedRam(Q, s) <= UsedRam(P, s)
<1> DEFINE At(ws) == {w \in ws : w.server = s}
<1>1. Q \in Crew
  BY CrewValues
<1>2. At(P) \in Crew /\ UsedRam(P, s) = SumFunctionOnSet(RamUse, At(P))
  BY UsedRamIs
<1>3. UsedRam(Q, s) = SumFunctionOnSet(RamUse, At(Q)) /\ At(Q) \in SUBSET At(P)
  BY <1>1, UsedRamIs
<1> HIDE DEF At
<1> QED BY <1>2, <1>3, CrewValues, SumPart

LEMMA UsedRamOfUnion ==
    ASSUME NEW P \in Crew, NEW Q \in Crew, NEW s \in Server
    PROVE  P \cup Q \in Crew /\ UsedRam(P \cup Q, s) <= UsedRam(P, s) + UsedRam(Q, s)
<1> DEFINE At(ws) == {w \in ws : w.server = s}
<1>0. P \cup Q \in Crew
  BY FS_Union DEF Crew
<1>1. At(P) \in Crew /\ UsedRam(P, s) = SumFunctionOnSet(RamUse, At(P))
  BY UsedRamIs
<1>2. At(Q) \in Crew /\ UsedRam(Q, s) = SumFunctionOnSet(RamUse, At(Q))
  BY UsedRamIs
<1>3. UsedRam(P \cup Q, s) = SumFunctionOnSet(RamUse, At(P) \cup At(Q))
  <2>1. At(P \cup Q) = At(P) \cup At(Q)
    OBVIOUS
  <2> QED BY <1>0, <2>1, UsedRamIs
<1>4. \A w \in At(P) \cup At(Q) : RamUse[w] >= 0
  BY CrewValues
<1> HIDE DEF At
<1> QED BY <1>0, <1>1, <1>2, <1>3, <1>4, CrewValues, SumCover

LEMMA UsedRamOfOne ==
    ASSUME NEW w \in Process, NEW s \in Server
    PROVE  /\ {w} \in Crew
           /\ UsedRam({w}, s) = IF w.server = s THEN RamCost[w.type] * w.threads ELSE 0
<1>1. {w} \in Crew
  BY FS_Singleton DEF Crew
<1>2. UsedRam({w}, s) = SumFunctionOnSet(RamUse, {v \in {w} : v.server = s})
  BY <1>1, UsedRamIs
<1>3. CASE w.server = s
  <2>1. {v \in {w} : v.server = s} = {w} /\ {w} \ {w} = {}
    BY <1>3
  <2>2. SumFunctionOnSet(RamUse, {w}) = RamUse[w] + SumFunctionOnSet(RamUse, {w} \ {w})
    BY <1>1, CrewValues, SumStep
  <2>3. SumFunctionOnSet(RamUse, {}) = 0 /\ RamUse[w] \in Nat
    BY <1>1, CrewValues, SumEmpty
  <2>4. RamUse[w] = RamCost[w.type] * w.threads
    BY DEF RamUse
  <2>5. SumFunctionOnSet(RamUse, {w}) = RamUse[w] + 0
    BY <2>1, <2>2, <2>3, Zenon
  <2>6. UsedRam({w}, s) = SumFunctionOnSet(RamUse, {w})
    BY <1>2, <2>1, Zenon
  <2> QED BY <1>1, <1>3, <2>3, <2>4, <2>5, <2>6
<1>4. CASE w.server # s
  <2>1. {v \in {w} : v.server = s} = {}
    BY <1>4
  <2> QED BY <1>1, <1>2, <1>4, <2>1, SumEmpty
<1> QED BY <1>3, <1>4

---------------------------------------------------------------------------
(* Placing an operation *)

\* Slots are hosts, each but once.
Slotted(slots) ==
    slots \in Seq(Server) /\ \A i, j \in DOMAIN slots : slots[i] = slots[j] => i = j

\* What one slot takes, and what it leaves.
LEMMA TakeOK ==
    ASSUME NEW a \in Alloc, NEW op \in Op, NEW s \in Server, NEW free, free \in [Server -> Nat],
           Within(a, free)
    PROVE  LET r == Take(a, op, s)
               given == a.left - r.left
           IN  /\ r \in Alloc /\ Within(r, free) /\ given \in Nat
               /\ given = 0 => r.placed = a.placed
               /\ given # 0 => /\ Worker(op, s, given) \in Spots(op, {s})
                               /\ r.placed = a.placed \cup {Worker(op, s, given)}
<1> DEFINE cost == RamCost[op.type]
           fits == a.free[s] \div cost
           given == AtMost(a.left, fits)
           w == Worker(op, s, given)
<1>1. /\ cost \in {170, 175} /\ Duration[op.type] \in Nat /\ op.type \in Kind
      /\ a.free[s] \in Nat /\ a.left \in Nat /\ a.free \in [Server -> Nat] /\ a.placed \in Crew
  BY Figures DEF Op, Alloc
<1>2. fits \in Nat /\ fits * cost <= a.free[s]
  <2>1. \A n \in Nat : /\ n \div 170 \in Nat /\ (n \div 170) * 170 <= n
                       /\ n \div 175 \in Nat /\ (n \div 175) * 175 <= n
    OBVIOUS
  <2> QED BY <1>1, <2>1
<1>3. given \in Nat /\ given <= a.left /\ given * cost \in Nat /\ given * cost <= a.free[s]
  <2>1. given \in Nat /\ given <= a.left /\ given <= fits
    BY <1>1, <1>2 DEF AtMost
  <2> HIDE DEF given, fits
  <2>2. CASE cost = 170
    BY <1>1, <1>2, <2>1, <2>2
  <2>3. CASE cost = 175
    BY <1>1, <1>2, <2>1, <2>3
  <2> QED BY <1>1, <2>2, <2>3
<1>4. Take(a, op, s) = IF given = 0 THEN a
                       ELSE [free |-> [a.free EXCEPT ![s] = @ - given * cost],
                             placed |-> a.placed \cup {w}, left |-> a.left - given]
  BY DEF Take
<1>5. CASE given = 0
  <2>1. Take(a, op, s) = a
    BY <1>4, <1>5
  <2> QED BY <1>1, <2>1
<1>6. CASE given # 0
  <2> DEFINE r == Take(a, op, s)
             lower == [a.free EXCEPT ![s] = @ - given * cost]
  <2>1. w \in Spots(op, {s})
    <3>1. op.target \in Target /\ op.tag \in Tag /\ op.delay + Duration[op.type] \in Nat
      BY <1>1 DEF Op
    <3> HIDE DEF given
    <3> QED BY <1>1, <1>3, <3>1 DEF Worker, Spots, Process
  <2>2. /\ r.free = lower /\ r.placed = a.placed \cup {w} /\ r.left = a.left - given
        /\ r = [free |-> lower, placed |-> a.placed \cup {w}, left |-> a.left - given]
    BY <1>4, <1>6
  <2>3. w \in Process /\ w.server = s /\ w.threads = given /\ w.type = op.type
    BY <2>1 DEF Spots, Worker
  <2>4. a.placed \cup {w} \in Crew
    BY <1>1, <2>3, UsedRamOfOne, UsedRamOfUnion
  <2>5. lower \in [Server -> Nat] /\ lower[s] = a.free[s] - given * cost
        /\ \A h \in Server \ {s} : lower[h] = a.free[h]
    <3>1. a.free[s] - given * cost \in Nat
      <4> HIDE DEF given, cost
      <4> QED BY <1>1, <1>3
    <3> HIDE DEF given, cost
    <3> QED BY <1>1, <3>1
  <2>6. a.left - given \in Nat /\ a.left - (a.left - given) = given
    <3> HIDE DEF given
    <3> QED BY <1>1, <1>3
  <2>7. r \in Alloc
    <3> HIDE DEF r, lower, w, given
    <3> QED BY <2>2, <2>4, <2>5, <2>6 DEF Alloc
  <2>8. ASSUME NEW h \in Server
        PROVE  r.free[h] + UsedRam(r.placed, h) <= free[h]
    <3> DEFINE old == UsedRam(a.placed, h)
               new == UsedRam(r.placed, h)
               one == UsedRam({w}, h)
    <3>1. new <= old + one
      <4>1. a.placed \in Crew /\ {w} \in Crew /\ r.placed = a.placed \cup {w}
        BY <1>1, <2>2, <2>3, UsedRamOfOne
      <4> HIDE DEF r, w
      <4>2. UsedRam(a.placed \cup {w}, h) <= UsedRam(a.placed, h) + UsedRam({w}, h)
        BY <4>1, UsedRamOfUnion
      <4> QED BY <4>1, <4>2
    <3>2. one = IF h = s THEN cost * given ELSE 0
      BY <2>3, UsedRamOfOne
    <3>3. r.free[h] = a.free[h] - one
      <4>1. cost * given = given * cost
        BY <1>1, <1>3
      <4>2. CASE h = s
        BY <2>2, <2>5, <3>2, <4>1, <4>2
      <4>3. CASE h # s
        BY <1>1, <2>2, <2>5, <3>2, <4>3
      <4> QED BY <4>2, <4>3
    <3>4. a.free[h] + old <= free[h]
      BY DEF Within
    <3>5. old \in Nat /\ new \in Nat /\ one \in Nat /\ a.free[h] \in Nat /\ free[h] \in Nat
      <4>1. r.placed \in Crew /\ {w} \in Crew
        BY <2>2, <2>3, <2>4, UsedRamOfOne
      <4>2. \A P \in Crew : UsedRam(P, h) \in Nat
        BY UsedRamIs
      <4> HIDE DEF r, w, given
      <4> QED BY <1>1, <4>1, <4>2
    <3> HIDE DEF r, w, given
    <3> QED BY <3>1, <3>3, <3>4, <3>5
  <2>9. Within(r, free)
    BY <2>8 DEF Within
  <2> HIDE DEF r, given, w
  <2> QED BY <1>3, <1>6, <2>1, <2>2, <2>6, <2>7, <2>9 DEF r, w
<1> QED BY <1>5, <1>6

\* An allocation with workers for so many threads of an operation more than another.
Adds(r, a, op, threads) ==
    \E V \in Crew : /\ V \subseteq Spots(op, Server) /\ r.placed = a.placed \cup V
                    /\ SumFunctionOnSet(ThreadCount, V) = threads

\* An operation placed on slots in turn: the workers are on slots, one each, and their
\* threads are what is no longer left.
LEMMA PlaceOK ==
    ASSUME NEW a \in Alloc, NEW op \in Op, NEW threads \in Nat, NEW free \in [Server -> Nat],
           Within(a, free), NEW slots, Slotted(slots)
    PROVE  LET r == Place(slots, a, op, threads)
           IN  /\ r \in Alloc /\ Within(r, free) /\ r.left <= threads
               /\ Adds(r, a, op, threads - r.left)
<1> DEFINE n == Len(slots)
           base == [free |-> a.free, placed |-> a.placed, left |-> threads]
           Hosts(i) == {slots[j] : j \in 1..i}
           Of(x, i, V) == /\ V \subseteq Spots(op, Hosts(i)) /\ x.placed = a.placed \cup V
                          /\ SumFunctionOnSet(ThreadCount, V) = threads - x.left
           J == [i \in 0..n |-> {x \in Alloc : /\ Within(x, free) /\ x.left <= threads
                                               /\ \E V \in Crew : Of(x, i, V)}]
           F == [p \in (1..n) \X Alloc |-> Take(p[2], op, slots[p[1]])]
           Unfold(g) == [i \in 0..n |-> IF i = 0 THEN base ELSE Take(g[i - 1], op, slots[i])]
           after == CHOOSE g : g = Unfold(g)
<1>0. /\ n \in Nat /\ \A i \in 1..n : slots[i] \in Server
      /\ \A i, j \in 1..n : slots[i] = slots[j] => i = j
  BY LenProperties, ElementOfSeq DEF Slotted
<1>1. Place(slots, a, op, threads) = after[n]
  BY DEF Place
<1> HIDE DEF n
<1>2. \A i \in 1..n : i \in 0..n /\ i - 1 \in 0..n
  BY <1>0
<1>3. J \in [0..n -> SUBSET Alloc]
  OBVIOUS
<1>4. base \in J[0]
  <2>1. base \in Alloc /\ Within(base, free) /\ base.left <= threads
    BY DEF Alloc, Within
  <2>2. {} \in Crew /\ {} \subseteq Spots(op, Hosts(0)) /\ SumFunctionOnSet(ThreadCount, {}) = 0
    BY FS_EmptySet, SumEmpty DEF Crew
  <2>3. base.placed = a.placed \cup {} /\ threads - base.left = 0
    OBVIOUS
  <2>4. Of(base, 0, {})
    BY <2>2, <2>3
  <2>5. 0 \in 0..n
    BY <1>0
  <2> HIDE DEF Of, base
  <2> QED BY <2>1, <2>2, <2>4, <2>5
<1>5. ASSUME NEW i \in 1..n, NEW x \in J[i - 1]
      PROVE  Take(x, op, slots[i]) \in J[i]
  <2> DEFINE s == slots[i]
             r == Take(x, op, s)
             given == x.left - r.left
             w == Worker(op, s, given)
  <2>1. /\ i \in 0..n /\ i - 1 \in 0..n /\ s \in Server /\ x \in Alloc
        /\ Within(x, free) /\ x.left <= threads
    BY <1>0, <1>2
  <2>2. PICK V \in Crew : Of(x, i - 1, V)
    BY <1>2
  <2>3. /\ r \in Alloc /\ Within(r, free) /\ given \in Nat
        /\ given = 0 => r.placed = x.placed
        /\ given # 0 => w \in Spots(op, {s}) /\ r.placed = x.placed \cup {w}
    <3> HIDE DEF s
    <3> QED BY <2>1, TakeOK
  <2>4. Hosts(i) = Hosts(i - 1) \cup {s} /\ s \notin Hosts(i - 1)
    <3>1. 1..i = (1..(i - 1)) \cup {i} /\ \A j \in 1..(i - 1) : j \in 1..n /\ j # i
      BY <1>0
    <3>2. \A j \in 1..(i - 1) : slots[j] # s
      BY <1>0, <3>1
    <3> HIDE DEF s
    <3>3. Hosts(i) = Hosts(i - 1) \cup {slots[i]}
      BY <3>1
    <3> QED BY <3>2, <3>3 DEF s
  <2>5. x.left \in Nat /\ r.left \in Nat
    BY <2>1, <2>3 DEF Alloc
  <2>6. r.left <= threads
    <3> HIDE DEF r
    <3> QED BY <2>1, <2>3, <2>5
  <2>7. \E U \in Crew : Of(r, i, U)
    <3>1. CASE given = 0
      <4>1. r.left = x.left /\ r.placed = x.placed
        <5> HIDE DEF r
        <5> QED BY <2>3, <2>5, <3>1
      <4>2. Of(r, i, V)
        <5>1. V \subseteq Spots(op, Hosts(i))
          <6> HIDE DEF Hosts, s
          <6> QED BY <2>2, <2>4 DEF Spots
        <5> HIDE DEF r, Hosts
        <5> QED BY <2>2, <4>1, <5>1
      <4> QED BY <4>2
    <3>2. CASE given # 0
      <4>1. /\ w \in Process /\ w.server = s /\ w.threads = given
            /\ w \in Spots(op, Hosts(i)) /\ w \notin V
        <5>1. w \in Process /\ w.server = s /\ w.threads = given
          BY <2>3, <3>2 DEF Spots, Worker
        <5>2. \A v \in V : v.server \in Hosts(i - 1)
          BY <2>2 DEF Spots
        <5>3. w \in Spots(op, Hosts(i))
          <6> HIDE DEF w, Hosts, s
          <6> QED BY <2>3, <2>4, <3>2 DEF Spots
        <5> HIDE DEF w, Hosts, s
        <5> QED BY <2>4, <5>1, <5>2, <5>3
      <4> DEFINE U == V \cup {w}
      <4>2. U \in Crew /\ r.placed = a.placed \cup U /\ U \subseteq Spots(op, Hosts(i))
        <5>1. U \in Crew
          BY <4>1, UsedRamOfOne, UsedRamOfUnion, <2>1
        <5>2. V \subseteq Spots(op, Hosts(i))
          <6> HIDE DEF Hosts, s
          <6> QED BY <2>2, <2>4 DEF Spots
        <5>3. r.placed = (a.placed \cup V) \cup {w}
          <6> HIDE DEF w, r
          <6> QED BY <2>2, <2>3, <3>2
        <5> HIDE DEF w, r, Hosts
        <5> QED BY <4>1, <5>1, <5>2, <5>3
      <4>3. SumFunctionOnSet(ThreadCount, U) = SumFunctionOnSet(ThreadCount, V) + given
        <5>1. U \ {w} = V /\ w \in U
          <6> HIDE DEF w
          <6> QED BY <4>1
        <5>2. SumFunctionOnSet(ThreadCount, U) = ThreadCount[w] + SumFunctionOnSet(ThreadCount, U \ {w})
          <6> HIDE DEF U, w
          <6> QED BY <4>2, <5>1, CrewValues, SumStep
        <5>3. ThreadCount[w] = given
          <6> HIDE DEF w
          <6> QED BY <4>1 DEF ThreadCount
        <5>4. SumFunctionOnSet(ThreadCount, V) \in Int
          BY CrewValues, SumType
        <5> HIDE DEF U, w, given
        <5>5. SumFunctionOnSet(ThreadCount, U) = given + SumFunctionOnSet(ThreadCount, V)
          BY <5>1, <5>2, <5>3
        <5> QED BY <2>3, <5>4, <5>5
      <4>4. SumFunctionOnSet(ThreadCount, U) = threads - r.left
        <5>1. SumFunctionOnSet(ThreadCount, V) = threads - x.left
          BY <2>2
        <5> HIDE DEF r, U
        <5> QED BY <2>5, <4>3, <5>1
      <4>5. Of(r, i, U)
        <5> HIDE DEF r, U, Hosts
        <5> QED BY <4>2, <4>4
      <4> QED BY <4>2, <4>5
    <3> QED BY <3>1, <3>2
  <2> HIDE DEF r, Of
  <2>8. r \in J[i]
    BY <2>1, <2>3, <2>6, <2>7
  <2> QED BY <2>8 DEF r
<1> HIDE DEF J, base
<1>6. \A i \in 1..n, x \in Alloc : F[<<i, x>>] = Take(x, op, slots[i])
  OBVIOUS
<1>7. \A i \in 1..n : \A x \in J[i - 1] : x \in Alloc
  BY <1>2, <1>3
<1>8. PICK g \in [0..n -> Alloc] : RunOf(g, F, J, base, n)
  <2>1. Leads(F, J, n)
    <3> HIDE DEF F
    <3> QED BY <1>5, <1>6, <1>7 DEF Leads
  <2> HIDE DEF F
  <2> QED BY <1>0, <1>3, <1>4, <2>1, RunExists, Zenon
<1>9. g = Unfold(g)
  <2>1. ASSUME NEW i \in 1..n PROVE i # 0 /\ i \in 0..n /\ g[i] = Take(g[i - 1], op, slots[i])
    <3>1. g[i - 1] \in Alloc /\ g[i] = F[<<i, g[i - 1]>>]
      BY <1>2, <1>8 DEF RunOf
    <3> HIDE DEF F
    <3> QED BY <1>0, <1>2, <1>6, <3>1
  <2>2. \A i \in 0..n : i = 0 \/ i \in 1..n
    BY <1>0
  <2> HIDE DEF F
  <2> QED BY <1>8, <2>1, <2>2 DEF RunOf
<1>10. after = Unfold(after)
  BY <1>9
<1> HIDE DEF after, F
<1>11. \A i \in 0..n : after[i] \in J[i]
  <2>1. after[0] = base
    BY <1>0, <1>10
  <2>2. \A i \in 1..n : after[i] = Take(after[i - 1], op, slots[i])
    BY <1>0, <1>10
  <2>3. after[0] \in J[0] /\ \A i \in 1..n : after[i - 1] \in J[i - 1] => after[i] \in J[i]
    BY <1>4, <1>5, <2>1, <2>2
  <2> QED BY <1>0, <2>3, RunStays, Zenon
<1>12. after[n] \in J[n] /\ n \in 0..n
  BY <1>0, <1>11
<1>13. \A i \in 0..n : Spots(op, Hosts(i)) \subseteq Spots(op, Server)
  BY DEF Spots, Process
<1>14. PICK V \in Crew : Of(after[n], n, V)
  BY <1>12 DEF J
<1> HIDE DEF Hosts
<1>15. Adds(after[n], a, op, threads - after[n].left)
  BY <1>12, <1>13, <1>14 DEF Adds
<1> QED BY <1>1, <1>12, <1>15 DEF J

---------------------------------------------------------------------------
(* Placing a batch *)

Planned == [target : Target, index : Nat, tag : Batch]
LandsIn(op) == op.delay + Duration[op.type]

LEMMA WeakenThreads ==
    LET w1 == CompensatingThreads(HackThreads, HackSecurity)
        w2 == CompensatingThreads(GrowThreads, GrowSecurity)
    IN  /\ w1 \in Nat /\ HackSecurity * HackThreads <= WeakenPower * w1
        /\ w2 \in Nat /\ GrowSecurity * GrowThreads <= WeakenPower * w2
<1>1. \A n \in Nat : /\ (n + 25 - 1) \div 25 \in Nat
                     /\ n <= 25 * ((n + 25 - 1) \div 25)
  OBVIOUS
<1>2. \A n \in Nat : AtLeast(1, n) \in Nat /\ n <= AtLeast(1, n)
  BY DEF AtLeast
<1>3. /\ HackThreads \in Nat /\ HackThreads * 1 = HackThreads
      /\ GrowThreads \in Nat /\ GrowThreads * 2 \in Nat /\ 2 * GrowThreads = GrowThreads * 2
  BY ThreadsAssumption
<1>4. ASSUME NEW n \in Nat
      PROVE  AtLeast(1, CeilDiv(n, 25)) \in Nat /\ n <= 25 * AtLeast(1, CeilDiv(n, 25))
  <2>1. CeilDiv(n, 25) \in Nat /\ n <= 25 * CeilDiv(n, 25)
    BY <1>1 DEF CeilDiv
  <2>2. AtLeast(1, CeilDiv(n, 25)) \in Nat /\ CeilDiv(n, 25) <= AtLeast(1, CeilDiv(n, 25))
    BY <1>2, <2>1
  <2> QED BY <2>1, <2>2
<1> QED BY <1>3, <1>4
        DEF CompensatingThreads, HackSecurity, GrowSecurity, WeakenPower

LEMMA FourInSeq ==
    ASSUME NEW S, NEW a \in S, NEW b \in S, NEW c \in S, NEW d \in S
    PROVE  <<a, b, c, d>> \in Seq(S)
OBVIOUS

\* The operations of a batch land one after the other.
LEMMA LandingOrder ==
    ASSUME NEW b \in Planned
    PROVE  LET ops == BatchOps(b)
               t == WeakenTime - 1 + b.index * BatchWindow
           IN  /\ ops \in Seq(Op) /\ Len(ops) = 4 /\ \A k \in 1..4 : ops[k] \in Op
               /\ \A k \in 1..4 : ops[k].target = b.target /\ ops[k].tag = b.tag
               /\ t \in Nat
               /\ ops[1].type = "hack" /\ ops[1].threads = HackThreads /\ LandsIn(ops[1]) = t
               /\ ops[2].type = "weaken" /\ LandsIn(ops[2]) = t + 1
               /\ ops[2].threads = CompensatingThreads(HackThreads, HackSecurity)
               /\ ops[3].type = "grow" /\ ops[3].threads = GrowThreads /\ LandsIn(ops[3]) = t + 2
               /\ ops[4].type = "weaken" /\ LandsIn(ops[4]) = t + 3
               /\ ops[4].threads = CompensatingThreads(GrowThreads, GrowSecurity)
<1> DEFINE ops == BatchOps(b)
           offset == b.index * BatchWindow
           delays == CalculateBatchDelays(b.index)
<1>1. offset \in Nat /\ b.target \in Target /\ b.tag \in Tag
  BY DEF Planned, BatchWindow, Tag
<1>2. /\ delays.hack = AtLeast(0, WeakenTime - HackTime - 1 + offset)
      /\ delays.weaken1 = offset
      /\ delays.grow = AtLeast(0, WeakenTime - GrowTime + 1 + offset)
      /\ delays.weaken2 = 2 + offset
  BY DEF CalculateBatchDelays
<1> HIDE DEF offset, delays
<1>3. /\ delays.hack \in Nat /\ delays.hack + HackTime = WeakenTime - 1 + offset
      /\ delays.grow \in Nat /\ delays.grow + GrowTime = WeakenTime - 1 + offset + 2
      /\ delays.weaken1 \in Nat /\ delays.weaken1 + WeakenTime = WeakenTime - 1 + offset + 1
      /\ delays.weaken2 \in Nat /\ delays.weaken2 + WeakenTime = WeakenTime - 1 + offset + 3
      /\ WeakenTime - 1 + offset \in Nat
  BY <1>1, <1>2, TimesAssumption DEF AtLeast
<1> DEFINE w1 == CompensatingThreads(HackThreads, HackSecurity)
           w2 == CompensatingThreads(GrowThreads, GrowSecurity)
<1>4. w1 \in Nat /\ w2 \in Nat
  BY WeakenThreads
<1> HIDE DEF w1, w2
<1>5. ops = <<Operation("hack", b.target, HackThreads, delays.hack, b.tag),
              Operation("weaken", b.target, w1, delays.weaken1, b.tag),
              Operation("grow", b.target, GrowThreads, delays.grow, b.tag),
              Operation("weaken", b.target, w2, delays.weaken2, b.tag)>>
  BY DEF BatchOps, delays, w1, w2
<1>7. /\ ops[1] = Operation("hack", b.target, HackThreads, delays.hack, b.tag)
      /\ ops[2] = Operation("weaken", b.target, w1, delays.weaken1, b.tag)
      /\ ops[3] = Operation("grow", b.target, GrowThreads, delays.grow, b.tag)
      /\ ops[4] = Operation("weaken", b.target, w2, delays.weaken2, b.tag)
      /\ Len(ops) = 4
  <2> HIDE DEF ops
  <2> QED BY <1>5
<1> HIDE DEF ops
<1>8. /\ HackThreads \in Nat /\ GrowThreads \in Nat
      /\ "hack" \in Kind /\ "weaken" \in Kind /\ "grow" \in Kind
  BY ThreadsAssumption DEF Kind
<1>9. /\ \A k \in 1..4 : k \in {1, 2, 3, 4}
      /\ Duration["hack"] = HackTime /\ Duration["grow"] = GrowTime
      /\ Duration["weaken"] = WeakenTime
  BY DEF Duration
<1>10. /\ ops[1] \in Op /\ ops[1].type = "hack" /\ ops[1].threads = HackThreads
       /\ ops[1].delay = delays.hack /\ ops[1].target = b.target /\ ops[1].tag = b.tag
  BY <1>1, <1>3, <1>7, <1>8 DEF Operation, Op
<1>11. /\ ops[2] \in Op /\ ops[2].type = "weaken" /\ ops[2].threads = w1
       /\ ops[2].delay = delays.weaken1 /\ ops[2].target = b.target /\ ops[2].tag = b.tag
  BY <1>1, <1>3, <1>4, <1>7, <1>8 DEF Operation, Op
<1>12. /\ ops[3] \in Op /\ ops[3].type = "grow" /\ ops[3].threads = GrowThreads
       /\ ops[3].delay = delays.grow /\ ops[3].target = b.target /\ ops[3].tag = b.tag
  BY <1>1, <1>3, <1>7, <1>8 DEF Operation, Op
<1>13. /\ ops[4] \in Op /\ ops[4].type = "weaken" /\ ops[4].threads = w2
       /\ ops[4].delay = delays.weaken2 /\ ops[4].target = b.target /\ ops[4].tag = b.tag
  BY <1>1, <1>3, <1>4, <1>7, <1>8 DEF Operation, Op
<1>14. \A k \in 1..4 : ops[k] \in Op /\ ops[k].target = b.target /\ ops[k].tag = b.tag
  BY <1>9, <1>10, <1>11, <1>12, <1>13
<1>15. ops \in Seq(Op)
  <2>1. ops = <<ops[1], ops[2], ops[3], ops[4]>>
    BY <1>5, <1>7
  <2> QED BY <1>10, <1>11, <1>12, <1>13, <2>1, FourInSeq
<1>16. /\ LandsIn(ops[1]) = WeakenTime - 1 + offset /\ LandsIn(ops[2]) = WeakenTime - 1 + offset + 1
       /\ LandsIn(ops[3]) = WeakenTime - 1 + offset + 2
       /\ LandsIn(ops[4]) = WeakenTime - 1 + offset + 3
  BY <1>3, <1>9, <1>10, <1>11, <1>12, <1>13 DEF LandsIn
<1> QED BY <1>3, <1>7, <1>10, <1>11, <1>12, <1>13, <1>14, <1>15, <1>16 DEF ops, w1, w2, offset

Fills(V, op) ==
    V \in Crew /\ V \subseteq Spots(op, Server) /\ SumFunctionOnSet(ThreadCount, V) = op.threads

\* The workers of a batch with all threads of its operations.
Whole(b, B) ==
    \E V1, V2, V3, V4 \in Crew :
        /\ B = V1 \cup V2 \cup V3 \cup V4
        /\ Fills(V1, BatchOps(b)[1]) /\ Fills(V2, BatchOps(b)[2])
        /\ Fills(V3, BatchOps(b)[3]) /\ Fills(V4, BatchOps(b)[4])

PlaceNext(slots, was, op) == IF was.left > 0 THEN was ELSE Place(slots, was, op, op.threads)

LEMMA PlaceNextOK ==
    ASSUME NEW x \in Alloc, NEW op \in Op, NEW free \in [Server -> Nat], Within(x, free),
           NEW slots, Slotted(slots)
    PROVE  LET r == PlaceNext(slots, x, op)
           IN  /\ r \in Alloc /\ Within(r, free)
               /\ r.left = 0 => /\ x.left = 0
                                /\ \E V \in Crew : Fills(V, op) /\ r.placed = x.placed \cup V
<1> DEFINE r == Place(slots, x, op, op.threads)
<1>1. x.left \in Nat /\ op.threads \in Nat
  BY DEF Alloc, Op
<1>2. CASE x.left > 0
  BY <1>1, <1>2 DEF PlaceNext
<1>3. CASE ~(x.left > 0)
  <2>1. PlaceNext(slots, x, op) = r /\ x.left = 0
    BY <1>1, <1>3 DEF PlaceNext
  <2>2. r \in Alloc /\ Within(r, free) /\ Adds(r, x, op, op.threads - r.left)
    BY <1>1, PlaceOK
  <2> HIDE DEF r
  <2>3. ASSUME r.left = 0 PROVE op.threads - r.left = op.threads
    BY <1>1, <2>3
  <2> QED BY <2>1, <2>2, <2>3 DEF Adds, Fills
<1> QED BY <1>2, <1>3

\* A batch enters whole or not at all, and fits.
LEMMA AllocateBatchOK ==
    ASSUME NEW a \in Alloc, NEW b \in Planned, NEW free \in [Server -> Nat], Within(a, free),
           NEW slots, Slotted(slots)
    PROVE  LET r == AllocateBatch(slots, a, b)
           IN  /\ r \in Alloc /\ Within(r, free)
               /\ r = a \/ \E B \in Crew : Whole(b, B) /\ r.placed = a.placed \cup B
<1> DEFINE ops == BatchOps(b)
           x0 == [free |-> a.free, placed |-> a.placed, left |-> 0]
           x1 == PlaceNext(slots, x0, ops[1])
           x2 == PlaceNext(slots, x1, ops[2])
           x3 == PlaceNext(slots, x2, ops[3])
           x4 == PlaceNext(slots, x3, ops[4])
           Unfold(g) == [k \in 0..4 |-> IF k = 0 THEN x0 ELSE PlaceNext(slots, g[k - 1], ops[k])]
           after == CHOOSE g : g = Unfold(g)
<1>1. Len(ops) = 4 /\ ops[1] \in Op /\ ops[2] \in Op /\ ops[3] \in Op /\ ops[4] \in Op
  BY LandingOrder
<1>2. PlaceAll(slots, a, ops) = after[4]
  <2> HIDE DEF ops
  <2> QED BY <1>1 DEF PlaceAll, PlaceNext
<1> HIDE DEF x1, x2, x3, x4, ops, x0
<1> DEFINE h == [k \in 0..4 |-> IF k = 0 THEN x0 ELSE IF k = 1 THEN x1 ELSE IF k = 2 THEN x2
                                ELSE IF k = 3 THEN x3 ELSE x4]
<1>3. h = Unfold(h)
  <2>1. h[0] = x0 /\ h[1] = x1 /\ h[2] = x2 /\ h[3] = x3 /\ h[4] = x4
    OBVIOUS
  <2>2. ASSUME NEW k \in 0..4 PROVE h[k] = IF k = 0 THEN x0 ELSE PlaceNext(slots, h[k - 1], ops[k])
    <3>1. k = 0 \/ k = 1 \/ k = 2 \/ k = 3 \/ k = 4
      OBVIOUS
    <3> HIDE DEF h
    <3> QED BY <2>1, <3>1 DEF x1, x2, x3, x4
  <2> QED BY <2>2
<1>4. after = Unfold(after)
  BY <1>3
<1> HIDE DEF after, h
<1>5. after[4] = x4
  <2>1. after[0] = x0 /\ \A k \in 1..4 : after[k] = PlaceNext(slots, after[k - 1], ops[k])
    BY <1>4
  <2>2. after[1] = x1
    BY <2>1 DEF x1
  <2>3. after[2] = x2
    BY <2>1, <2>2 DEF x2
  <2>4. after[3] = x3
    BY <2>1, <2>3 DEF x3
  <2> QED BY <2>1, <2>4 DEF x4
<1>6. x0 \in Alloc /\ Within(x0, free) /\ x0.placed = a.placed
  BY DEF x0, Alloc, Within
<1>7. /\ x1 \in Alloc /\ Within(x1, free)
      /\ x1.left = 0 => \E V \in Crew : Fills(V, ops[1]) /\ x1.placed = a.placed \cup V
  BY <1>1, <1>6, PlaceNextOK DEF x1
<1>8. /\ x2 \in Alloc /\ Within(x2, free)
      /\ x2.left = 0 => x1.left = 0 /\ \E V \in Crew : Fills(V, ops[2]) /\ x2.placed = x1.placed \cup V
  BY <1>1, <1>7, PlaceNextOK DEF x2
<1>9. /\ x3 \in Alloc /\ Within(x3, free)
      /\ x3.left = 0 => x2.left = 0 /\ \E V \in Crew : Fills(V, ops[3]) /\ x3.placed = x2.placed \cup V
  BY <1>1, <1>8, PlaceNextOK DEF x3
<1>10. /\ x4 \in Alloc /\ Within(x4, free)
       /\ x4.left = 0 => x3.left = 0 /\ \E V \in Crew : Fills(V, ops[4]) /\ x4.placed = x3.placed \cup V
  BY <1>1, <1>9, PlaceNextOK DEF x4
<1>11. AllocateBatch(slots, a, b) = IF x4.left = 0 THEN x4 ELSE a
  BY <1>2, <1>5 DEF AllocateBatch, ops
<1>12. CASE x4.left # 0
  BY <1>11, <1>12
<1>13. CASE x4.left = 0
  <2>1. PICK V4 \in Crew : Fills(V4, ops[4]) /\ x4.placed = x3.placed \cup V4
    BY <1>10, <1>13
  <2>2. PICK V3 \in Crew : Fills(V3, ops[3]) /\ x3.placed = x2.placed \cup V3
    BY <1>9, <1>10, <1>13
  <2>3. PICK V2 \in Crew : Fills(V2, ops[2]) /\ x2.placed = x1.placed \cup V2
    BY <1>8, <1>9, <1>10, <1>13
  <2>4. PICK V1 \in Crew : Fills(V1, ops[1]) /\ x1.placed = a.placed \cup V1
    BY <1>7, <1>8, <1>9, <1>10, <1>13
  <2> DEFINE B == V1 \cup V2 \cup V3 \cup V4
  <2>5. x4.placed = a.placed \cup B
    BY <2>1, <2>2, <2>3, <2>4
  <2>6. B \in Crew
    <3>1. \A P, Q \in Crew : P \cup Q \in Crew
      BY FS_Union DEF Crew
    <3> QED BY <3>1
  <2>7. Whole(b, B)
    BY <2>1, <2>2, <2>3, <2>4 DEF Whole, ops
  <2> HIDE DEF B
  <2> QED BY <1>10, <1>11, <1>13, <2>5, <2>6, <2>7
<1> QED BY <1>12, <1>13

\* A function that weighs the workers of an operation by thread.
Rates(f, op, c) == c \in Int /\ \A w \in Spots(op, Server) : f[w] = c * w.threads
RatesOf(f, b, c1, c2, c3, c4) ==
    LET ops == BatchOps(b)
    IN  Rates(f, ops[1], c1) /\ Rates(f, ops[2], c2) /\ Rates(f, ops[3], c3) /\ Rates(f, ops[4], c4)

\* What a whole batch adds to a sum that weighs each of its operations by thread.
LEMMA WholeSum ==
    ASSUME NEW b \in Planned, NEW B, Whole(b, B), NEW f,
           NEW c1, NEW c2, NEW c3, NEW c4, RatesOf(f, b, c1, c2, c3, c4)
    PROVE  /\ IsFiniteSet(B) /\ Values(f, B)
           /\ SumFunctionOnSet(f, B)
                = c1 * HackThreads + c2 * CompensatingThreads(HackThreads, HackSecurity)
                  + (c3 * GrowThreads + c4 * CompensatingThreads(GrowThreads, GrowSecurity))
<1> DEFINE ops == BatchOps(b)
           w1 == CompensatingThreads(HackThreads, HackSecurity)
           w2 == CompensatingThreads(GrowThreads, GrowSecurity)
           t == WeakenTime - 1 + b.index * BatchWindow
<1>1. /\ t \in Nat /\ ops[1].type = "hack" /\ ops[2].type = "weaken"
      /\ ops[3].type = "grow" /\ ops[4].type = "weaken"
      /\ LandsIn(ops[2]) = t + 1 /\ LandsIn(ops[4]) = t + 3
      /\ ops[1].threads = HackThreads /\ ops[2].threads = w1
      /\ ops[3].threads = GrowThreads /\ ops[4].threads = w2
  BY LandingOrder
<1> HIDE DEF t, ops, w1, w2
<1>2. PICK V1 \in Crew, V2 \in Crew, V3 \in Crew, V4 \in Crew :
          /\ B = V1 \cup V2 \cup V3 \cup V4
          /\ Fills(V1, ops[1]) /\ Fills(V2, ops[2]) /\ Fills(V3, ops[3]) /\ Fills(V4, ops[4])
  BY DEF Whole, ops
<1>3. \A op : \A V : Fills(V, op) => \A w \in V : /\ w \in Spots(op, Server) /\ w.type = op.type
                                                 /\ w.left = LandsIn(op)
  BY DEF Fills, Spots, LandsIn
<1>4. /\ V1 \cap V2 = {} /\ V3 \cap V4 = {}
      /\ (V1 \cup V2) \cap (V3 \cup V4) = {}
  <2>1. LandsIn(ops[2]) # LandsIn(ops[4])
    BY <1>1
  <2>2. /\ \A w \in V1 : w.type = "hack"
        /\ \A w \in V2 : w.type = "weaken" /\ w.left = LandsIn(ops[2])
        /\ \A w \in V3 : w.type = "grow"
        /\ \A w \in V4 : w.type = "weaken" /\ w.left = LandsIn(ops[4])
    BY <1>1, <1>2, <1>3
  <2> QED BY <2>1, <2>2
<1>5. ASSUME NEW V, NEW op, Fills(V, op), NEW c, Rates(f, op, c)
      PROVE  IsFiniteSet(V) /\ Values(f, V) /\ SumFunctionOnSet(f, V) = c * op.threads
  <2>1. V \in Crew /\ IsFiniteSet(V) /\ Values(ThreadCount, V) /\ V \subseteq Process
    BY <1>5, CrewValues DEF Fills
  <2>2. \A w \in V : f[w] = c * ThreadCount[w]
    BY <1>3, <1>5, <2>1 DEF ThreadCount, Rates
  <2>3. c \in Int
    BY <1>5 DEF Rates
  <2> QED BY <1>5, <2>1, <2>2, <2>3, SumTimes DEF Fills
<1>6. IsFiniteSet(V1) /\ Values(f, V1) /\ SumFunctionOnSet(f, V1) = c1 * HackThreads
  BY <1>1, <1>2, <1>5 DEF RatesOf, ops
<1>7. IsFiniteSet(V2) /\ Values(f, V2) /\ SumFunctionOnSet(f, V2) = c2 * w1
  BY <1>1, <1>2, <1>5 DEF RatesOf, ops
<1>8. IsFiniteSet(V3) /\ Values(f, V3) /\ SumFunctionOnSet(f, V3) = c3 * GrowThreads
  BY <1>1, <1>2, <1>5 DEF RatesOf, ops
<1>9. IsFiniteSet(V4) /\ Values(f, V4) /\ SumFunctionOnSet(f, V4) = c4 * w2
  BY <1>1, <1>2, <1>5 DEF RatesOf, ops
<1>10. /\ IsFiniteSet(V1 \cup V2) /\ Values(f, V1 \cup V2)
       /\ SumFunctionOnSet(f, V1 \cup V2) = c1 * HackThreads + c2 * w1
  BY <1>4, <1>6, <1>7, SumUnion
<1>11. /\ IsFiniteSet(V3 \cup V4) /\ Values(f, V3 \cup V4)
       /\ SumFunctionOnSet(f, V3 \cup V4) = c3 * GrowThreads + c4 * w2
  BY <1>4, <1>8, <1>9, SumUnion
<1>12. B = (V1 \cup V2) \cup (V3 \cup V4)
  BY <1>2
<1>13. /\ IsFiniteSet(B) /\ Values(f, B)
       /\ SumFunctionOnSet(f, B)
            = SumFunctionOnSet(f, V1 \cup V2) + SumFunctionOnSet(f, V3 \cup V4)
  BY <1>4, <1>10, <1>11, <1>12, SumUnion
<1> QED BY <1>10, <1>11, <1>13 DEF w1, w2

---------------------------------------------------------------------------
(* What batches take and what they restore *)

\* What a batch takes, how much of it its grow restores, and what a grow thread restores
\* for each thread of the hack: sums are HackThreads times the money they stand for.
Taken == Stolen[HackThreads]
Kept == AtMost(GrowPower * GrowThreads, Taken)
Back == HackThreads * GrowPower

LEMMA MoneyFigures ==
    /\ HackThreads \in Nat /\ HackThreads > 0 /\ GrowThreads \in Nat
    /\ GrowPower \in Nat /\ GrowPower > 0 /\ MoneyTolerance \in Nat
    /\ Taken \in Nat /\ Kept \in Nat /\ Leak \in Nat /\ Taken = Kept + Leak
    /\ Back \in Nat /\ Kept * HackThreads <= Back * GrowThreads
    /\ BatchCap \in Nat /\ BatchCap * Leak \in Nat /\ Residue \in Nat
    /\ Residue = MoneyTolerance + BatchCap * Leak
<1>1. /\ HackThreads \in Nat /\ HackThreads > 0 /\ GrowThreads \in Nat
      /\ GrowPower \in Nat /\ GrowPower > 0 /\ MoneyTolerance \in Nat
      /\ HackThreads \in 0 .. HackThreads /\ Stolen \in [0 .. HackThreads -> Nat]
  BY ThreadsAssumption, MoneyAssumption
<1>2. \A m, n \in Nat : m * n \in Nat
  OBVIOUS
<1>3. Taken \in Nat
  BY <1>1 DEF Taken
<1>4. GrowPower * GrowThreads \in Nat /\ Back \in Nat
  BY <1>1, <1>2 DEF Back
<1>5. /\ Kept \in Nat /\ Leak \in Nat /\ Taken = Kept + Leak
      /\ Kept <= GrowPower * GrowThreads
  BY <1>3, <1>4 DEF Kept, Leak, Taken, AtMost, AtLeast
<1>6. Kept * HackThreads <= Back * GrowThreads
  <2>1. \A x, y, h \in Nat : x <= y => x * h <= y * h
    OBVIOUS
  <2>2. (GrowPower * GrowThreads) * HackThreads = Back * GrowThreads
    BY <1>1 DEF Back
  <2>3. Kept * HackThreads <= (GrowPower * GrowThreads) * HackThreads
    BY <1>1, <1>4, <1>5, <2>1
  <2> QED BY <2>2, <2>3
<1>7. BatchCap \in Nat
  <2>1. WeakenTime \div 4 \in Nat
    BY TimesAssumption
  <2> QED BY <2>1, LimitsAssumption DEF BatchCap, AtMost, AtLeast, BatchWindow
<1>8. BatchCap * Leak \in Nat
  BY <1>2, <1>5, <1>7
<1>9. Residue = MoneyTolerance + BatchCap * Leak /\ Residue \in Nat
  BY <1>1, <1>8 DEF Residue
<1> QED BY <1>1, <1>3, <1>4, <1>5, <1>6, <1>7, <1>8, <1>9

\* Of a target's batches, what hacks that land n or later take and their grows restore,
\* less what grows restore that land two later.
LeadRate(t, n, w) ==
    IF w.target # t \/ w.tag \notin Batch THEN 0
    ELSE IF w.type = "hack" /\ w.left >= n THEN Kept
    ELSE IF w.type = "grow" /\ w.left >= n + 2 THEN -Back
    ELSE 0
Lead(t, n) == [w \in Process |-> LeadRate(t, n, w) * w.threads]

\* Likewise what hacks and grows raise the security by, less what weakens take off it
\* that land at least one later.
RaiseRate(t, n, w) ==
    IF w.target # t \/ w.tag \notin Batch THEN 0
    ELSE IF w.type = "hack" /\ w.left >= n THEN HackSecurity
    ELSE IF w.type = "grow" /\ w.left >= n THEN GrowSecurity
    ELSE IF w.type = "weaken" /\ w.left >= n + 1 THEN -WeakenPower
    ELSE 0
Raise(t, n) == [w \in Process |-> RaiseRate(t, n, w) * w.threads]

\* From every moment on, batches restore at least what they take and raise.
Balanced(P) ==
    \A t \in Target, n \in Nat :
        SumFunctionOnSet(Lead(t, n), P) <= 0 /\ SumFunctionOnSet(Raise(t, n), P) <= 0

LEMMA WeightValues ==
    ASSUME NEW t, NEW n \in Nat, NEW P \in Crew
    PROVE  /\ IsFiniteSet(P) /\ Values(Lead(t, n), P) /\ Values(Raise(t, n), P)
           /\ SumFunctionOnSet(Lead(t, n), P) \in Int /\ SumFunctionOnSet(Raise(t, n), P) \in Int
<1>1. ASSUME NEW w \in Process PROVE Lead(t, n)[w] \in Int /\ Raise(t, n)[w] \in Int
  <2>1. LeadRate(t, n, w) \in Int /\ RaiseRate(t, n, w) \in Int
    BY MoneyFigures DEF LeadRate, RaiseRate, HackSecurity, GrowSecurity, WeakenPower
  <2>2. w.threads \in Int
    BY DEF Process
  <2>3. \A x, y \in Int : x * y \in Int
    OBVIOUS
  <2> QED BY <2>1, <2>2, <2>3 DEF Lead, Raise
<1>2. IsFiniteSet(P) /\ Values(Lead(t, n), P) /\ Values(Raise(t, n), P)
  BY <1>1, CrewValues DEF Values
<1> QED BY <1>2, SumType

LEMMA WholeBalanced ==
    ASSUME NEW b \in Planned, NEW B, Whole(b, B)
    PROVE  Balanced(B)
<1> DEFINE ops == BatchOps(b)
           T == WeakenTime - 1 + b.index * BatchWindow
           w1 == CompensatingThreads(HackThreads, HackSecurity)
           w2 == CompensatingThreads(GrowThreads, GrowSecurity)
<1>1. /\ T \in Nat /\ ops[1].type = "hack" /\ LandsIn(ops[1]) = T
      /\ ops[2].type = "weaken" /\ LandsIn(ops[2]) = T + 1
      /\ ops[3].type = "grow" /\ LandsIn(ops[3]) = T + 2
      /\ ops[4].type = "weaken" /\ LandsIn(ops[4]) = T + 3
      /\ \A k \in 1..4 : ops[k].target = b.target /\ ops[k].tag = b.tag
      /\ b.tag \in Batch
  BY LandingOrder DEF Planned
<1>2. /\ w1 \in Nat /\ HackSecurity * HackThreads <= WeakenPower * w1
      /\ w2 \in Nat /\ GrowSecurity * GrowThreads <= WeakenPower * w2
      /\ HackThreads \in Nat /\ GrowThreads \in Nat /\ Kept \in Nat /\ Back \in Nat
      /\ Kept * HackThreads <= Back * GrowThreads
  BY WeakenThreads, MoneyFigures
<1> HIDE DEF T, w1, w2, ops
<1>3. \A k \in 1..4 : \A w \in Spots(ops[k], Server) :
         /\ w \in Process /\ w.type = ops[k].type /\ w.left = LandsIn(ops[k])
         /\ w.target = b.target /\ w.tag \in Batch
  BY <1>1 DEF Spots, LandsIn
<1>4. 1 \in 1..4 /\ 2 \in 1..4 /\ 3 \in 1..4 /\ 4 \in 1..4
  OBVIOUS
<1>5. ASSUME NEW t \in Target, NEW n \in Nat PROVE SumFunctionOnSet(Lead(t, n), B) <= 0
  <2> DEFINE f == Lead(t, n)
             c1 == IF t = b.target /\ T >= n THEN Kept ELSE 0
             c3 == IF t = b.target /\ T >= n THEN -Back ELSE 0
  <2>1. \A w \in Spots(ops[1], Server) : f[w] = c1 * w.threads
    BY <1>1, <1>3, <1>4 DEF Lead, LeadRate
  <2>2. \A w \in Spots(ops[2], Server) : f[w] = 0 * w.threads
    BY <1>1, <1>3, <1>4 DEF Lead, LeadRate
  <2>3. \A w \in Spots(ops[3], Server) : f[w] = c3 * w.threads
    BY <1>1, <1>3, <1>4 DEF Lead, LeadRate
  <2>4. \A w \in Spots(ops[4], Server) : f[w] = 0 * w.threads
    BY <1>1, <1>3, <1>4 DEF Lead, LeadRate
  <2>5. c1 \in Int /\ c3 \in Int /\ 0 \in Int
    BY <1>2
  <2> HIDE DEF f, c1, c3
  <2>6. SumFunctionOnSet(f, B) = c1 * HackThreads + 0 * w1 + (c3 * GrowThreads + 0 * w2)
    <3>1. /\ Rates(f, ops[1], c1) /\ Rates(f, ops[2], 0)
          /\ Rates(f, ops[3], c3) /\ Rates(f, ops[4], 0)
      BY <2>1, <2>2, <2>3, <2>4, <2>5 DEF Rates
    <3>2. RatesOf(f, b, c1, 0, c3, 0)
      BY <3>1 DEF RatesOf, ops
    <3>3. SumFunctionOnSet(f, B)
            = c1 * HackThreads + 0 * CompensatingThreads(HackThreads, HackSecurity)
              + (c3 * GrowThreads + 0 * CompensatingThreads(GrowThreads, GrowSecurity))
      BY <3>2, WholeSum
    <3> QED BY <3>3 DEF w1, w2
  <2>7. c1 * HackThreads + c3 * GrowThreads <= 0
    <3>1. \A x, y \in Int : (-x) * y = -(x * y) /\ 0 * x + 0 * y = 0 /\ x * y \in Int
      OBVIOUS
    <3>2. (c1 = Kept /\ c3 = -Back) \/ (c1 = 0 /\ c3 = 0)
      BY DEF c1, c3
    <3>3. CASE c1 = Kept /\ c3 = -Back
      <4>1. c3 * GrowThreads = -(Back * GrowThreads)
        BY <1>2, <3>1, <3>3
      <4>2. Kept * HackThreads \in Int /\ Back * GrowThreads \in Int
        BY <1>2, <3>1
      <4> QED BY <1>2, <3>3, <4>1, <4>2
    <3>4. CASE c1 = 0 /\ c3 = 0
      BY <1>2, <3>1, <3>4
    <3> QED BY <3>2, <3>3, <3>4
  <2>8. 0 * w1 = 0 /\ 0 * w2 = 0 /\ c1 * HackThreads \in Int /\ c3 * GrowThreads \in Int
    BY <1>2, <2>5
  <2> QED BY <2>6, <2>7, <2>8 DEF f
<1>6. ASSUME NEW t \in Target, NEW n \in Nat PROVE SumFunctionOnSet(Raise(t, n), B) <= 0
  <2> DEFINE f == Raise(t, n)
             c1 == IF t = b.target /\ T >= n THEN HackSecurity ELSE 0
             c2 == IF t = b.target /\ T >= n THEN -WeakenPower ELSE 0
             c3 == IF t = b.target /\ T + 2 >= n THEN GrowSecurity ELSE 0
             c4 == IF t = b.target /\ T + 2 >= n THEN -WeakenPower ELSE 0
  <2>1. \A w \in Spots(ops[1], Server) : f[w] = c1 * w.threads
    BY <1>1, <1>3, <1>4 DEF Raise, RaiseRate
  <2>2. \A w \in Spots(ops[2], Server) : f[w] = c2 * w.threads
    BY <1>1, <1>3, <1>4 DEF Raise, RaiseRate
  <2>3. \A w \in Spots(ops[3], Server) : f[w] = c3 * w.threads
    BY <1>1, <1>3, <1>4 DEF Raise, RaiseRate
  <2>4. \A w \in Spots(ops[4], Server) : f[w] = c4 * w.threads
    BY <1>1, <1>3, <1>4 DEF Raise, RaiseRate
  <2>5. c1 \in Int /\ c2 \in Int /\ c3 \in Int /\ c4 \in Int
    BY DEF HackSecurity, GrowSecurity, WeakenPower
  <2>6. /\ (c1 = 1 /\ c2 = -25) \/ (c1 = 0 /\ c2 = 0)
        /\ (c3 = 2 /\ c4 = -25) \/ (c3 = 0 /\ c4 = 0)
    BY DEF HackSecurity, GrowSecurity, WeakenPower
  <2> HIDE DEF f, c1, c2, c3, c4
  <2>7. SumFunctionOnSet(f, B) = c1 * HackThreads + c2 * w1 + (c3 * GrowThreads + c4 * w2)
    <3>1. /\ Rates(f, ops[1], c1) /\ Rates(f, ops[2], c2)
          /\ Rates(f, ops[3], c3) /\ Rates(f, ops[4], c4)
      BY <2>1, <2>2, <2>3, <2>4, <2>5 DEF Rates
    <3>2. RatesOf(f, b, c1, c2, c3, c4)
      BY <3>1 DEF RatesOf, ops
    <3>3. SumFunctionOnSet(f, B)
            = c1 * HackThreads + c2 * CompensatingThreads(HackThreads, HackSecurity)
              + (c3 * GrowThreads + c4 * CompensatingThreads(GrowThreads, GrowSecurity))
      BY <3>2, WholeSum
    <3> QED BY <3>3 DEF w1, w2
  <2>8. /\ 1 * HackThreads <= 25 * w1 /\ 2 * GrowThreads <= 25 * w2
    BY <1>2 DEF HackSecurity, GrowSecurity, WeakenPower
  <2> QED BY <1>2, <2>6, <2>7, <2>8 DEF f
<1> QED BY <1>5, <1>6 DEF Balanced

LEMMA BalancedUnion ==
    ASSUME NEW P \in Crew, NEW Q \in Crew, P \cap Q = {}, Balanced(P), Balanced(Q)
    PROVE  Balanced(P \cup Q)
<1>1. ASSUME NEW t \in Target, NEW n \in Nat
      PROVE  /\ SumFunctionOnSet(Lead(t, n), P \cup Q) <= 0
             /\ SumFunctionOnSet(Raise(t, n), P \cup Q) <= 0
  <2> DEFINE f == Lead(t, n)
             g == Raise(t, n)
  <2>1. /\ IsFiniteSet(P) /\ Values(f, P) /\ Values(g, P)
        /\ SumFunctionOnSet(f, P) \in Int /\ SumFunctionOnSet(g, P) \in Int
    BY WeightValues
  <2>2. /\ IsFiniteSet(Q) /\ Values(f, Q) /\ Values(g, Q)
        /\ SumFunctionOnSet(f, Q) \in Int /\ SumFunctionOnSet(g, Q) \in Int
    BY WeightValues
  <2>3. /\ SumFunctionOnSet(f, P) <= 0 /\ SumFunctionOnSet(g, P) <= 0
        /\ SumFunctionOnSet(f, Q) <= 0 /\ SumFunctionOnSet(g, Q) <= 0
    BY DEF Balanced
  <2> HIDE DEF f, g
  <2>4. /\ SumFunctionOnSet(f, P \cup Q) = SumFunctionOnSet(f, P) + SumFunctionOnSet(f, Q)
        /\ SumFunctionOnSet(g, P \cup Q) = SumFunctionOnSet(g, P) + SumFunctionOnSet(g, Q)
    BY <2>1, <2>2, SumUnion
  <2> QED BY <2>1, <2>2, <2>3, <2>4 DEF f, g
<1> QED BY <1>1 DEF Balanced

\* Prep workers weigh nothing, nor do those of targets that are left out.
LEMMA BalancedOthers ==
    ASSUME NEW P \in Crew, NEW Q \in SUBSET P, Balanced(P), NEW X,
           \A w \in P \ Q : w.tag \notin Batch \/ w.target \in X,
           \A w \in Q : w.tag \in Batch => w.target \notin X
    PROVE  Balanced(Q)
<1>1. ASSUME NEW t \in Target, NEW n \in Nat
      PROVE  /\ SumFunctionOnSet(Lead(t, n), Q) <= 0
             /\ SumFunctionOnSet(Raise(t, n), Q) <= 0
  <2> DEFINE f == Lead(t, n)
             g == Raise(t, n)
             S == IF t \in X THEN Q ELSE P \ Q
  <2>1. /\ IsFiniteSet(P) /\ Values(f, P) /\ Values(g, P)
        /\ SumFunctionOnSet(f, P) <= 0 /\ SumFunctionOnSet(g, P) <= 0
    BY WeightValues DEF Balanced
  <2>2. S \in SUBSET P /\ S \in Crew /\ S \subseteq Process
    <3>1. S \in SUBSET P
      OBVIOUS
    <3> HIDE DEF S
    <3> QED BY <3>1, CrewValues
  <2>3. \A w \in S : w.tag \notin Batch \/ w.target # t
    BY <2>2 DEF Process
  <2>4. \A w \in S : f[w] = 0 /\ g[w] = 0
    <3>1. \A x \in Nat : 0 * x = 0
      OBVIOUS
    <3> HIDE DEF S
    <3> QED BY <2>2, <2>3, <3>1 DEF Lead, LeadRate, Raise, RaiseRate, Process
  <2>5. IsFiniteSet(S) /\ Values(f, S) /\ Values(g, S)
    <3> HIDE DEF S
    <3> QED BY <2>2, WeightValues
  <2>6. SumFunctionOnSet(f, S) = 0 /\ SumFunctionOnSet(g, S) = 0
    <3> HIDE DEF f, g, S
    <3> QED BY <2>4, <2>5, SumZero
  <2>7. CASE t \in X
    BY <2>6, <2>7
  <2>8. CASE t \notin X
    <3>1. S = P \ Q
      BY <2>8
    <3>2. /\ SumFunctionOnSet(f, Q) \in Int /\ SumFunctionOnSet(g, Q) \in Int
      <4>1. Q \in Crew
        BY CrewValues
      <4> QED BY <4>1, WeightValues
    <3> HIDE DEF f, g, S
    <3>3. /\ SumFunctionOnSet(f, P) = SumFunctionOnSet(f, Q) + SumFunctionOnSet(f, S)
          /\ SumFunctionOnSet(g, P) = SumFunctionOnSet(g, Q) + SumFunctionOnSet(g, S)
      BY <2>1, <3>1, SumSplit
    <3>4. SumFunctionOnSet(f, Q) <= 0 /\ SumFunctionOnSet(g, Q) <= 0
      BY <2>1, <2>6, <3>2, <3>3
    <3> QED BY <3>4 DEF f, g
  <2> QED BY <2>7, <2>8
<1> QED BY <1>1 DEF Balanced

---------------------------------------------------------------------------
(* The work of a cycle *)

PrepOp == {op \in Op : op.type # "hack" /\ op.tag \notin Batch}
PrepOnly(P) == \A w \in P : w.type # "hack" /\ w.tag \notin Batch

LEMMA AllocatePrepOK ==
    ASSUME NEW a \in Alloc, a.placed = {}, NEW free \in [Server -> Nat], Within(a, free),
           NEW slots, Slotted(slots), NEW ops \in Seq(PrepOp), NEW share \in Int
    PROVE  LET r == AllocatePrep(slots, a, ops, share)
           IN  r \in Alloc /\ Within(r, free) /\ PrepOnly(r.placed)
<1> DEFINE n == Len(ops)
           X == [alloc : Alloc, budget : Int]
           least == Min({RamCost[type] : type \in DOMAIN RamCost})
           Most(was, op) == AtMost(was.budget \div RamCost[op.type], op.threads)
           Now(was, op) == Place(slots, was.alloc, op, Most(was, op))
           Allocate(was, op) ==
               IF was.budget < least THEN was
               ELSE [alloc |-> Now(was, op),
                     budget |-> was.budget - (Most(was, op) - Now(was, op).left) * RamCost[op.type]]
           base == [alloc |-> a, budget |-> share]
           Good == {x \in X : Within(x.alloc, free) /\ PrepOnly(x.alloc.placed)}
           J == [k \in 0..n |-> Good]
           F == [p \in (1..n) \X X |-> Allocate(p[2], ops[p[1]])]
           Unfold(g) == [k \in 0..n |-> IF k = 0 THEN base ELSE Allocate(g[k - 1], ops[k])]
           after == CHOOSE g : g = Unfold(g)
<1>0. n \in Nat /\ \A k \in 1..n : ops[k] \in PrepOp
  BY LenProperties, ElementOfSeq
<1>1. AllocatePrep(slots, a, ops, share) = after[n].alloc
  BY DEF AllocatePrep
<1> HIDE DEF n
<1>2. \A k \in 1..n : k \in 0..n /\ k - 1 \in 0..n
  BY <1>0
<1>3. J \in [0..n -> SUBSET X]
  OBVIOUS
<1>4. base \in J[0]
  <2>1. 0 \in 0..n
    BY <1>0
  <2> QED BY <2>1 DEF PrepOnly
<1>5. least \in Nat
  <2> DEFINE costs == {RamCost[type] : type \in DOMAIN RamCost}
  <2>1. costs \in SUBSET Nat /\ costs # {}
    BY Figures DEF Kind
  <2> HIDE DEF costs
  <2>2. Min(costs) \in Nat
    BY <2>1, MinNat
  <2> QED BY <2>2 DEF costs
<1> HIDE DEF least
<1>6. ASSUME NEW x \in Good, NEW op \in PrepOp PROVE Allocate(x, op) \in Good
  <2> DEFINE most == Most(x, op)
             now == Now(x, op)
  <2>1. /\ x.alloc \in Alloc /\ x.budget \in Int /\ op \in Op /\ op.threads \in Nat
        /\ RamCost[op.type] \in {170, 175} /\ Within(x.alloc, free) /\ PrepOnly(x.alloc.placed)
        /\ op.type # "hack" /\ op.tag \notin Batch
    BY Figures DEF PrepOp, Op
  <2>2. CASE x.budget < least
    BY <2>2
  <2>3. CASE ~(x.budget < least)
    <3>1. most \in Nat
      <4>1. x.budget \in Nat
        BY <1>5, <2>1, <2>3
      <4>2. \A m \in Nat : m \div 170 \in Nat /\ m \div 175 \in Nat
        OBVIOUS
      <4>3. x.budget \div RamCost[op.type] \in Nat
        BY <2>1, <4>1, <4>2
      <4> QED BY <2>1, <4>3 DEF AtMost
    <3>2. now = Place(slots, x.alloc, op, most)
      OBVIOUS
    <3>3. Allocate(x, op) = [alloc |-> now,
                             budget |-> x.budget - (most - now.left) * RamCost[op.type]]
      BY <2>3
    <3> HIDE DEF most, now
    <3>4. /\ now \in Alloc /\ Within(now, free)
          /\ Adds(now, x.alloc, op, most - now.left)
      BY <2>1, <3>1, <3>2, PlaceOK
    <3>5. PrepOnly(now.placed)
      BY <2>1, <3>4 DEF PrepOnly, Adds, Spots
    <3>6. x.budget - (most - now.left) * RamCost[op.type] \in Int
      <4>1. now.left \in Nat
        BY <3>4 DEF Alloc
      <4> QED BY <2>1, <3>1, <4>1
    <3> QED BY <3>3, <3>4, <3>5, <3>6
  <2> QED BY <2>2, <2>3
<1> HIDE DEF Allocate, Good, base
<1>7. \A k \in 1..n, x \in X : F[<<k, x>>] = Allocate(x, ops[k])
  OBVIOUS
<1>8. \A k \in 0..n : J[k] = Good
  OBVIOUS
<1>9. Good \subseteq X
  BY DEF Good
<1> HIDE DEF J
<1>10. PICK g \in [0..n -> X] : RunOf(g, F, J, base, n)
  <2>1. Leads(F, J, n)
    <3> HIDE DEF F, X
    <3>1. ASSUME NEW k \in 1..n, NEW x \in J[k - 1] PROVE F[<<k, x>>] \in J[k]
      <4>1. x \in Good /\ x \in X /\ ops[k] \in PrepOp /\ J[k] = Good
        BY <1>0, <1>2, <1>8, <1>9
      <4>2. F[<<k, x>>] = Allocate(x, ops[k])
        BY <1>7, <4>1
      <4> QED BY <1>6, <4>1, <4>2
    <3> QED BY <3>1 DEF Leads
  <2> HIDE DEF F, X
  <2> QED BY <1>0, <1>3, <1>4, <2>1, RunExists, Zenon
<1>11. g = Unfold(g)
  <2>1. ASSUME NEW k \in 1..n PROVE k # 0 /\ k \in 0..n /\ g[k] = Allocate(g[k - 1], ops[k])
    <3>1. g[k - 1] \in X /\ g[k] = F[<<k, g[k - 1]>>]
      BY <1>2, <1>10 DEF RunOf
    <3> HIDE DEF F, X
    <3> QED BY <1>0, <1>2, <1>7, <3>1
  <2>2. \A k \in 0..n : k = 0 \/ k \in 1..n
    BY <1>0
  <2> HIDE DEF F
  <2> QED BY <1>10, <2>1, <2>2 DEF RunOf
<1>12. after = Unfold(after)
  BY <1>11
<1> HIDE DEF after, F
<1>13. \A k \in 0..n : after[k] \in J[k]
  <2>1. after[0] = base
    BY <1>0, <1>12
  <2>2. \A k \in 1..n : after[k] = Allocate(after[k - 1], ops[k])
    BY <1>0, <1>12
  <2>3. after[0] \in J[0] /\ \A k \in 1..n : after[k - 1] \in J[k - 1] => after[k] \in J[k]
    <3>1. ASSUME NEW k \in 1..n, after[k - 1] \in J[k - 1] PROVE after[k] \in J[k]
      <4>1. after[k - 1] \in Good /\ ops[k] \in PrepOp /\ J[k] = Good
        BY <1>0, <1>2, <1>8, <3>1
      <4>2. Allocate(after[k - 1], ops[k]) \in Good
        BY <1>6, <4>1
      <4> QED BY <2>2, <4>1, <4>2
    <3> QED BY <1>4, <2>1, <3>1
  <2> QED BY <1>0, <2>3, RunStays, Zenon
<1>14. after[n] \in Good
  <2>1. n \in 0..n
    BY <1>0
  <2> QED BY <1>8, <1>13, <2>1
<1> QED BY <1>1, <1>14 DEF Good

\* The plan of a cycle: batches with tags of their own.
Plan == [prep : Seq(PrepOp), batches : Seq(Planned)]
Distinct(batches) ==
    \A i, j \in DOMAIN batches : batches[i].tag = batches[j].tag => i = j

\* What the first k batches of a plan may have become.
Begun(batches, k, P) ==
    /\ \A w \in P : w.tag \in Batch => \E j \in 1..k : w.tag = batches[j].tag
    /\ \A w \in P : w.type = "hack" => w.tag \in Batch
    /\ \A j \in 1..k : LET B == {w \in P : w.tag = batches[j].tag}
                       IN  B = {} \/ Whole(batches[j], B)

LEMMA BegunNext ==
    ASSUME NEW batches \in Seq(Planned), Distinct(batches), NEW k \in 1..Len(batches),
           NEW P \in Crew, Begun(batches, k - 1, P), Balanced(P), NEW B \in Crew,
           Whole(batches[k], B)
    PROVE  Begun(batches, k, P \cup B) /\ Balanced(P \cup B)
<1> DEFINE n == Len(batches)
<1>1. /\ n \in Nat /\ \A j \in 1..n : batches[j] \in Planned
      /\ \A i, j \in 1..n : batches[i].tag = batches[j].tag => i = j
  BY LenProperties, ElementOfSeq DEF Distinct
<1>2. k \in 1..n
  OBVIOUS
<1> HIDE DEF n
<1>3. /\ 1..k = (1..(k - 1)) \cup {k} /\ \A j \in 1..(k - 1) : j \in 1..n /\ j # k
  BY <1>1, <1>2
<1>4. \A w \in B : w.tag = batches[k].tag /\ w.tag \in Batch
  <2>1. \A j \in 1..4 : BatchOps(batches[k])[j].tag = batches[k].tag
    BY <1>1, <1>2, LandingOrder
  <2>2. batches[k].tag \in Batch
    BY <1>1, <1>2 DEF Planned
  <2> QED BY <2>1, <2>2 DEF Whole, Fills, Spots
<1>5. ASSUME NEW w \in P PROVE w.tag # batches[k].tag
  <2>1. CASE w.tag \in Batch
    <3>1. PICK j \in 1..(k - 1) : w.tag = batches[j].tag
      BY <2>1 DEF Begun
    <3> QED BY <1>1, <1>2, <1>3, <3>1
  <2>2. CASE w.tag \notin Batch
    BY <1>1, <1>2, <2>2 DEF Planned
  <2> QED BY <2>1, <2>2
<1>6. P \cap B = {}
  BY <1>4, <1>5
<1>7. Balanced(P \cup B)
  BY <1>1, <1>2, <1>6, BalancedUnion, WholeBalanced
<1> DEFINE Q == P \cup B
<1>8. \A w \in Q : w.tag \in Batch => \E j \in 1..k : w.tag = batches[j].tag
  BY <1>3, <1>4 DEF Begun
<1>9. \A w \in Q : w.type = "hack" => w.tag \in Batch
  BY <1>4 DEF Begun
<1>10. ASSUME NEW j \in 1..k
       PROVE  LET C == {w \in Q : w.tag = batches[j].tag} IN C = {} \/ Whole(batches[j], C)
  <2>1. CASE j = k
    <3>1. {w \in Q : w.tag = batches[k].tag} = B
      BY <1>4, <1>5
    <3> QED BY <2>1, <3>1
  <2>2. CASE j # k
    <3>1. j \in 1..(k - 1) /\ batches[j].tag # batches[k].tag
      BY <1>1, <1>2, <1>3, <2>2
    <3>2. {w \in Q : w.tag = batches[j].tag} = {w \in P : w.tag = batches[j].tag}
      BY <1>4, <3>1
    <3> QED BY <3>1, <3>2 DEF Begun
  <2> QED BY <2>1, <2>2
<1>11. Begun(batches, k, Q)
  <2> HIDE DEF Q
  <2> QED BY <1>8, <1>9, <1>10 DEF Begun
<1> QED BY <1>7, <1>11

FreeRam(slots) == [s \in Server |-> IF s \in ToSet(slots) THEN AvailableRam(s) ELSE 0]

LEMMA ServerFinite == IsFiniteSet(Server)
<1> DEFINE f == [i \in DOMAIN Servers |-> Servers[i]]
<1>1. DOMAIN Servers = 1..Len(Servers) /\ Len(Servers) \in Nat
  BY ServersAssumption, LenProperties
<1>2. IsFiniteSet(DOMAIN Servers)
  BY <1>1, FS_Interval
<1>3. f \in Surjection(DOMAIN Servers, Server)
  BY DEF Surjection, Server, ToSet
<1> HIDE DEF f
<1> QED BY <1>2, <1>3, FS_Surjection

\* What a cycle places fits the free RAM, and batches enter whole.
LEMMA AllocateServersOK ==
    ASSUME NEW slots, Slotted(slots), FreeRam(slots) \in [Server -> Nat],
           NEW plan \in Plan, Distinct(plan.batches)
    PROVE  LET P == AllocateServersToBatchOps(slots, plan)
           IN  /\ P \in Crew /\ \A s \in Server : UsedRam(P, s) <= FreeRam(slots)[s]
               /\ Begun(plan.batches, Len(plan.batches), P) /\ Balanced(P)
<1> DEFINE batches == plan.batches
           n == Len(batches)
           free == FreeRam(slots)
           total == SumFunctionOnSet(free, Server)
           share == IF plan.batches = <<>> THEN total ELSE total \div 2
           a == [free |-> free, placed |-> {}, left |-> 0]
           base == AllocatePrep(slots, a, plan.prep, share)
           J == [k \in 0..n |-> {x \in Alloc : /\ Within(x, free) /\ Begun(batches, k, x.placed)
                                               /\ Balanced(x.placed)}]
           F == [p \in (1..n) \X Alloc |-> AllocateBatch(slots, p[2], batches[p[1]])]
           Unfold(g) == [k \in 0..n |-> IF k = 0 THEN base
                                        ELSE AllocateBatch(slots, g[k - 1], batches[k])]
           after == CHOOSE g : g = Unfold(g)
<1>0. /\ batches \in Seq(Planned) /\ n \in Nat /\ \A k \in 1..n : batches[k] \in Planned
      /\ plan.prep \in Seq(PrepOp)
  BY LenProperties, ElementOfSeq DEF Plan
<1>1. AllocateServersToBatchOps(slots, plan) = after[n].placed
  BY DEF AllocateServersToBatchOps, FreeRam
<1>2. share \in Int
  <2>1. IsFiniteSet(Server) /\ Values(free, Server)
    <3> QED BY ServerFinite DEF Values
  <2>2. total \in Int
    <3> HIDE DEF free
    <3> QED BY <2>1, SumType
  <2> HIDE DEF total
  <2> QED BY <2>2
<1> HIDE DEF share, free
<1>3. base \in Alloc /\ Within(base, free) /\ PrepOnly(base.placed)
  <2>1. {} \in Crew /\ \A s \in Server : UsedRam({}, s) = 0
    <3>1. {} \in Crew
      BY FS_EmptySet DEF Crew
    <3>2. \A s \in Server : {w \in {} : w.server = s} = {}
      OBVIOUS
    <3> QED BY <3>1, <3>2, UsedRamIs, SumEmpty
  <2>2. a \in Alloc /\ Within(a, free) /\ a.placed = {}
    BY <2>1 DEF Alloc, Within, free
  <2> HIDE DEF a
  <2> QED BY <1>0, <1>2, <2>2, AllocatePrepOK DEF free
<1> HIDE DEF n, batches, base
<1>4. \A k \in 1..n : k \in 0..n /\ k - 1 \in 0..n
  BY <1>0
<1>5. J \in [0..n -> SUBSET Alloc]
  OBVIOUS
<1>6. base \in J[0]
  <2>1. Begun(batches, 0, base.placed)
    BY <1>3 DEF PrepOnly, Begun
  <2>2. base.placed \in Crew
    BY <1>3 DEF Alloc
  <2>3. {} \in Crew /\ {} \in SUBSET base.placed
    BY FS_EmptySet DEF Crew
  <2>4. Balanced(base.placed)
    <3>1. ASSUME NEW t \in Target, NEW m \in Nat
          PROVE  /\ SumFunctionOnSet(Lead(t, m), base.placed) <= 0
                 /\ SumFunctionOnSet(Raise(t, m), base.placed) <= 0
      <4>1. \A w \in base.placed : Lead(t, m)[w] = 0 /\ Raise(t, m)[w] = 0
        <5>1. \A x \in Nat : 0 * x = 0
          OBVIOUS
        <5>2. \A w \in base.placed : w \in Process /\ w.tag \notin Batch
          BY <1>3, <2>2 DEF PrepOnly, Crew
        <5> QED BY <5>1, <5>2 DEF Lead, LeadRate, Raise, RaiseRate, Process
      <4>2. /\ IsFiniteSet(base.placed) /\ Values(Lead(t, m), base.placed)
            /\ Values(Raise(t, m), base.placed)
        BY <2>2, WeightValues
      <4>3. /\ SumFunctionOnSet(Lead(t, m), base.placed) = 0
            /\ SumFunctionOnSet(Raise(t, m), base.placed) = 0
        BY <4>1, <4>2, SumZero
      <4> QED BY <4>3
    <3> QED BY <3>1 DEF Balanced
  <2>5. 0 \in 0..n
    BY <1>0
  <2> QED BY <1>3, <2>1, <2>4, <2>5
<1>7. ASSUME NEW k \in 1..n, NEW x \in J[k - 1]
      PROVE  AllocateBatch(slots, x, batches[k]) \in J[k]
  <2> DEFINE r == AllocateBatch(slots, x, batches[k])
  <2>1. /\ k \in 0..n /\ x \in Alloc /\ Within(x, free) /\ Begun(batches, k - 1, x.placed)
        /\ Balanced(x.placed) /\ batches[k] \in Planned /\ x.placed \in Crew
    BY <1>0, <1>4 DEF Alloc
  <2>2. /\ r \in Alloc /\ Within(r, free)
        /\ r = x \/ \E B \in Crew : Whole(batches[k], B) /\ r.placed = x.placed \cup B
    BY <2>1, AllocateBatchOK DEF free
  <2>3. k \in 1..Len(batches) /\ Distinct(batches)
    BY DEF n, batches
  <2> HIDE DEF r
  <2>4. Begun(batches, k, r.placed) /\ Balanced(r.placed)
    <3>1. CASE r = x
      <4>1. Begun(batches, k, x.placed)
        <5>1. /\ 1..k = (1..(k - 1)) \cup {k} /\ \A j \in 1..(k - 1) : j \in 1..n /\ j # k
          BY <1>0
        <5>2. \A w \in x.placed : w.tag # batches[k].tag
          <6>1. \A i, j \in 1..n : batches[i].tag = batches[j].tag => i = j
            BY <1>0, <2>3, LenProperties DEF Distinct, n
          <6>2. batches[k].tag \in Batch
            BY <2>1 DEF Planned
          <6> QED BY <2>1, <5>1, <6>1, <6>2 DEF Begun
        <5>3. {w \in x.placed : w.tag = batches[k].tag} = {}
          BY <5>2
        <5> QED BY <2>1, <5>1, <5>3 DEF Begun
      <4> QED BY <2>1, <3>1, <4>1
    <3>2. CASE r # x
      <4>1. PICK B \in Crew : Whole(batches[k], B) /\ r.placed = x.placed \cup B
        BY <2>2, <3>2
      <4>2. Begun(batches, k, x.placed \cup B) /\ Balanced(x.placed \cup B)
        BY <1>0, <2>1, <2>3, <4>1, BegunNext
      <4> QED BY <4>1, <4>2
    <3> QED BY <3>1, <3>2
  <2>5. r \in J[k]
    BY <2>1, <2>2, <2>4
  <2> QED BY <2>5 DEF r
<1> HIDE DEF J
<1>8. \A k \in 1..n, x \in Alloc : F[<<k, x>>] = AllocateBatch(slots, x, batches[k])
  OBVIOUS
<1>9. \A k \in 1..n : \A x \in J[k - 1] : x \in Alloc
  BY <1>4, <1>5
<1>10. PICK g \in [0..n -> Alloc] : RunOf(g, F, J, base, n)
  <2>1. Leads(F, J, n)
    <3> HIDE DEF F
    <3> QED BY <1>7, <1>8, <1>9 DEF Leads
  <2> HIDE DEF F
  <2> QED BY <1>0, <1>5, <1>6, <2>1, RunExists, Zenon
<1>11. g = Unfold(g)
  <2>1. ASSUME NEW k \in 1..n
        PROVE  k # 0 /\ k \in 0..n /\ g[k] = AllocateBatch(slots, g[k - 1], batches[k])
    <3>1. g[k - 1] \in Alloc /\ g[k] = F[<<k, g[k - 1]>>]
      BY <1>4, <1>10 DEF RunOf
    <3> HIDE DEF F
    <3> QED BY <1>0, <1>4, <1>8, <3>1
  <2>2. \A k \in 0..n : k = 0 \/ k \in 1..n
    BY <1>0
  <2> HIDE DEF F
  <2> QED BY <1>10, <2>1, <2>2 DEF RunOf
<1>12. after = Unfold(after)
  BY <1>11
<1> HIDE DEF after, F
<1>13. \A k \in 0..n : after[k] \in J[k]
  <2>1. after[0] = base
    BY <1>0, <1>12
  <2>2. \A k \in 1..n : after[k] = AllocateBatch(slots, after[k - 1], batches[k])
    BY <1>0, <1>12
  <2>3. after[0] \in J[0] /\ \A k \in 1..n : after[k - 1] \in J[k - 1] => after[k] \in J[k]
    BY <1>6, <1>7, <2>1, <2>2
  <2> QED BY <1>0, <2>3, RunStays, Zenon
<1> DEFINE r == after[n]
<1>14. r \in Alloc /\ Within(r, free) /\ Begun(batches, n, r.placed) /\ Balanced(r.placed)
  <2>1. n \in 0..n
    BY <1>0
  <2> QED BY <1>13, <2>1 DEF J
<1>15. ASSUME NEW s \in Server PROVE UsedRam(r.placed, s) <= free[s]
  <2>1. /\ r.free[s] \in Nat /\ free[s] \in Nat /\ r.placed \in Crew
        /\ r.free[s] + UsedRam(r.placed, s) <= free[s]
    BY <1>14 DEF Alloc, Within, free
  <2>2. UsedRam(r.placed, s) \in Nat
    BY <2>1, UsedRamIs
  <2> HIDE DEF r
  <2> QED BY <2>1, <2>2
<1>16. r.placed \in Crew
  BY <1>14 DEF Alloc
<1> QED BY <1>1, <1>14, <1>15, <1>16 DEF n, batches, free

---------------------------------------------------------------------------
(* A cycle *)

TypeInv ==
    /\ phase \in [Target -> {"prep", "batch"}] /\ workers \in Crew
    /\ deficit \in [Target -> Nat] /\ security \in [Target -> Nat]
    /\ killed \in Nat

LEMMA FreeRamOK ==
    ASSUME TypeInv, NEW slots \in SlotOrders
    PROVE  /\ Slotted(slots) /\ FreeRam(slots) \in [Server -> Nat]
           /\ \A s \in Server :
                 /\ MaxRam[s] \in Nat /\ Reserved(s) \in Nat
                 /\ FreeRam(slots)[s] \in {0, MaxRam[s] - UsedRam(workers, s) - Reserved(s)}
<1> DEFINE S == UsableServers \ ShareServers
           m == Cardinality(S)
<1>1. S \subseteq Server /\ IsFiniteSet(S) /\ m \in Nat
  <2>1. S \subseteq Server
    BY DEF UsableServers
  <2> HIDE DEF S
  <2> QED BY <2>1, ServerFinite, FS_Subset, FS_CardinalityType
<1>2. slots \in [1..m -> S] /\ \A i, j \in 1..m : slots[i] = slots[j] => i = j
  BY DEF SlotOrders, SetToSeqs
<1>3. \A s \in S : AvailableRam(s) > 0
  BY DEF UsableServers
<1>4. ToSet(slots) \subseteq S
  <2> HIDE DEF S, m
  <2> QED BY <1>2 DEF ToSet
<1> HIDE DEF S, m
<1>5. Slotted(slots)
  <2>1. slots \in [1..m -> Server] /\ DOMAIN slots = 1..m
    BY <1>1, <1>2
  <2>2. slots \in Seq(Server)
    BY <1>1, <2>1, FunctionIsSeq
  <2> QED BY <1>2, <2>1, <2>2 DEF Slotted
<1>6. ASSUME NEW s \in Server
      PROVE  /\ MaxRam[s] \in Nat /\ Reserved(s) \in Nat
             /\ FreeRam(slots)[s] \in Nat
             /\ FreeRam(slots)[s] \in {0, MaxRam[s] - UsedRam(workers, s) - Reserved(s)}
  <2>1. MaxRam[s] \in Nat /\ Reserved(s) \in Nat /\ UsedRam(workers, s) \in Nat
    BY ServersAssumption, UsedRamIs DEF Reserved, TypeInv
  <2>2. FreeRam(slots)[s] = IF s \in ToSet(slots) THEN AvailableRam(s) ELSE 0
    BY DEF FreeRam
  <2>3. CASE s \in ToSet(slots)
    <3>1. AvailableRam(s) > 0
      BY <1>3, <1>4, <2>3
    <3> QED BY <2>1, <2>2, <2>3, <3>1 DEF AvailableRam
  <2>4. CASE s \notin ToSet(slots)
    BY <2>1, <2>2, <2>4
  <2> QED BY <2>1, <2>3, <2>4
<1>7. FreeRam(slots) \in [Server -> Nat]
  BY <1>6 DEF FreeRam
<1> QED BY <1>5, <1>6, <1>7

\* So many tags, each but once, and a plan that uses no others.
Tags(fresh, m) ==
    fresh \in [1..m -> Batch] /\ \A i, j \in 1..m : fresh[i] = fresh[j] => i = j
Uses(plan, fresh, m) ==
    \A k \in 1..Len(plan.batches) : \E i \in 1..m : plan.batches[k].tag = fresh[i]

LEMMA Quotient ==
    ASSUME NEW a \in Nat, NEW b \in Nat \ {0}
    PROVE  a \div b \in Nat /\ b * (a \div b) <= a
OBVIOUS

\* What is planned for a target: batches only if it is prepped, each at a place of its
\* own in the pipeline behind those that run.
Running(ws, t) == Cardinality(RunningBatches(ws, t))
Launches(batches, ws) ==
    /\ \A k \in 1..Len(batches) :
          /\ IsTargetPrepped(batches[k].target)
          /\ batches[k].index \in Running(ws, batches[k].target) .. (BatchCap - 1)
    /\ \A j, k \in 1..Len(batches) :
          batches[j].target = batches[k].target /\ batches[j].index = batches[k].index => j = k
Slot == [target : Target, index : Nat]

LEMMA RunningNat ==
    ASSUME NEW ws, NEW t
    PROVE  IsFiniteSet(RunningBatches(ws, t)) /\ Running(ws, t) \in Nat
<1>1. RunningBatches(ws, t) \subseteq Batch
  BY DEF RunningBatches
<1> QED BY <1>1, BatchAssumption, FS_Subset, FS_CardinalityType DEF Running

LEMMA BatchesOfOK ==
    ASSUME NEW ws, NEW phases, NEW t \in Target
    PROVE  LET q == BatchesOf(phases, ws, t)
           IN  q \in Seq(Slot) /\ Launches(q, ws) /\ \A k \in 1..Len(q) : q[k].target = t
<1> DEFINE active == Running(ws, t)
           room == AtLeast(0, BatchCap - active)
           q == [k \in 1..room |-> [target |-> t, index |-> active + k - 1]]
           none == <<>>
<1>1. active \in Nat /\ BatchCap \in Nat
  BY RunningNat, MoneyFigures
<1>2. \/ BatchesOf(phases, ws, t) = q /\ IsTargetPrepped(t)
      \/ BatchesOf(phases, ws, t) = none
  BY DEF BatchesOf, Running
<1>3. CASE BatchesOf(phases, ws, t) = none
  <2>1. none \in Seq(Slot) /\ Len(none) = 0
    BY EmptySeq
  <2> HIDE DEF none
  <2>2. Launches(none, ws)
    BY <2>1 DEF Launches
  <2> QED BY <1>3, <2>1, <2>2
<1>4. CASE BatchesOf(phases, ws, t) = q /\ IsTargetPrepped(t)
  <2> HIDE DEF active
  <2>1. room \in Nat /\ \A k \in 1..room : active + k - 1 \in active .. (BatchCap - 1)
    BY <1>1 DEF AtLeast
  <2> HIDE DEF room
  <2>2. /\ q \in [1..room -> Slot] /\ DOMAIN q = 1..room
        /\ \A k \in 1..room : q[k].target = t /\ q[k].index = active + k - 1
    BY <1>1, <2>1 DEF Slot
  <2> HIDE DEF q
  <2>3. q \in Seq(Slot)
    BY <2>1, <2>2, FunctionIsSeq
  <2>4. Len(q) = room
    BY <2>1, <2>2, <2>3, LenProperties
  <2>5. \A j, k \in 1..room : q[j].index = q[k].index => j = k
    BY <1>1, <2>1, <2>2
  <2>6. Launches(q, ws)
    BY <1>4, <2>1, <2>2, <2>4, <2>5 DEF Launches, active
  <2> QED BY <1>4, <2>2, <2>3, <2>4, <2>6
<1> QED BY <1>2, <1>3, <1>4

\* What is planned for different targets goes together.
LEMMA LaunchesUnion ==
    ASSUME NEW ws, NEW x \in Seq(Slot), NEW y \in Seq(Slot), Launches(x, ws), Launches(y, ws),
           \A j \in 1..Len(x), k \in 1..Len(y) : x[j].target # y[k].target
    PROVE  LET z == x \o y
           IN  /\ z \in Seq(Slot) /\ Launches(z, ws)
               /\ \A k \in 1..Len(z) : \/ \E j \in 1..Len(x) : z[k] = x[j]
                                       \/ \E j \in 1..Len(y) : z[k] = y[j]
<1> DEFINE z == x \o y
           m == Len(x)
           n == Len(y)
<1>1. /\ z \in Seq(Slot) /\ Len(z) = m + n /\ m \in Nat /\ n \in Nat
      /\ \A k \in 1..(m + n) : z[k] = IF k <= m THEN x[k] ELSE y[k - m]
  BY ConcatProperties, LenProperties
<1> HIDE DEF z, m, n
<1>2. ASSUME NEW k \in 1..(m + n)
      PROVE  \/ k \in 1..m /\ z[k] = x[k]
             \/ k > m /\ k - m \in 1..n /\ z[k] = y[k - m]
  BY <1>1
<1>3. /\ \A k \in 1..m : /\ IsTargetPrepped(x[k].target)
                         /\ x[k].index \in Running(ws, x[k].target) .. (BatchCap - 1)
      /\ \A j, k \in 1..m : x[j].target = x[k].target /\ x[j].index = x[k].index => j = k
  BY DEF Launches, m
<1>4. /\ \A k \in 1..n : /\ IsTargetPrepped(y[k].target)
                         /\ y[k].index \in Running(ws, y[k].target) .. (BatchCap - 1)
      /\ \A j, k \in 1..n : y[j].target = y[k].target /\ y[j].index = y[k].index => j = k
  BY DEF Launches, n
<1>5. \A j \in 1..m, k \in 1..n : x[j].target # y[k].target
  BY DEF m, n
<1>6. \A k \in 1..(m + n) : /\ IsTargetPrepped(z[k].target)
                           /\ z[k].index \in Running(ws, z[k].target) .. (BatchCap - 1)
  BY <1>2, <1>3, <1>4
<1>7. ASSUME NEW j \in 1..(m + n), NEW k \in 1..(m + n),
             z[j].target = z[k].target, z[j].index = z[k].index
      PROVE  j = k
  <2>1. CASE j \in 1..m /\ z[j] = x[j] /\ k \in 1..m /\ z[k] = x[k]
    BY <1>3, <1>7, <2>1
  <2>2. CASE j - m \in 1..n /\ z[j] = y[j - m] /\ k - m \in 1..n /\ z[k] = y[k - m]
    <3>1. j - m = k - m
      BY <1>4, <1>7, <2>2
    <3> QED BY <1>1, <3>1
  <2>3. CASE \/ j \in 1..m /\ z[j] = x[j] /\ k - m \in 1..n /\ z[k] = y[k - m]
             \/ k \in 1..m /\ z[k] = x[k] /\ j - m \in 1..n /\ z[j] = y[j - m]
    BY <1>5, <1>7, <2>3
  <2> QED BY <1>2, <2>1, <2>2, <2>3
<1>8. Launches(z, ws)
  <2>1. \A j, k \in 1..(m + n) :
           z[j].target = z[k].target /\ z[j].index = z[k].index => j = k
    BY <1>7
  <2> QED BY <1>1, <1>6, <2>1 DEF Launches
<1>9. \A k \in 1..Len(z) : \/ \E j \in 1..Len(x) : z[k] = x[j]
                          \/ \E j \in 1..Len(y) : z[k] = y[j]
  BY <1>1, <1>2 DEF m, n
<1> QED BY <1>1, <1>8, <1>9 DEF z

LEMMA SlotsOK ==
    ASSUME NEW ws, NEW phases
    PROVE  LET q == FlattenSeq([i \in DOMAIN Targets |-> BatchesOf(phases, ws, Targets[i])])
           IN  q \in Seq(Slot) /\ Launches(q, ws)
<1> DEFINE n == Len(Targets)
           qs == [i \in DOMAIN Targets |-> BatchesOf(phases, ws, Targets[i])]
           From(x, i) == \A k \in 1..Len(x) : \E j \in 1..i : x[k].target = Targets[j]
           J == [i \in 0..n |-> {x \in Seq(Slot) : Launches(x, ws) /\ From(x, i)}]
           none == <<>>
<1>1. /\ n \in Nat /\ DOMAIN Targets = 1..n /\ \A i \in 1..n : Targets[i] \in Target
      /\ \A i, j \in 1..n : Targets[i] = Targets[j] => i = j
  BY TargetsAssumption, LenProperties, ElementOfSeq
<1> HIDE DEF n
<1>2. ASSUME NEW i \in 1..n
      PROVE  /\ qs[i] \in Seq(Slot) /\ Launches(qs[i], ws)
             /\ \A k \in 1..Len(qs[i]) : qs[i][k].target = Targets[i]
  BY <1>1, BatchesOfOK
<1>3. qs \in Seq(Seq(Slot)) /\ Len(qs) = n
  <2>1. qs \in [1..n -> Seq(Slot)] /\ DOMAIN qs = 1..n
    BY <1>1, <1>2
  <2> HIDE DEF qs
  <2>2. qs \in Seq(Seq(Slot))
    BY <1>1, <2>1, FunctionIsSeq
  <2> QED BY <1>1, <2>1, <2>2, LenProperties
<1> HIDE DEF qs
<1> HIDE DEF From
<1>4. \A i \in 0..n : \A x : x \in J[i] <=> x \in Seq(Slot) /\ Launches(x, ws) /\ From(x, i)
  OBVIOUS
<1>5. J \in [0..n -> SUBSET Seq(Slot)]
  OBVIOUS
<1>6. \A i \in 1..n : i \in 0..n /\ i - 1 \in 0..n /\ 1..i = (1..(i - 1)) \cup {i}
                     /\ \A j \in 1..(i - 1) : j \in 1..n /\ j # i
  BY <1>1
<1>7. 0 \in 0..n /\ n \in 0..n
  BY <1>1
<1> HIDE DEF J
<1>8. none \in J[0]
  <2>1. none \in Seq(Slot) /\ Len(none) = 0
    BY EmptySeq
  <2> HIDE DEF none
  <2>2. \A k \in 1..Len(none) : FALSE
    BY <2>1
  <2>3. Launches(none, ws) /\ From(none, 0)
    BY <2>2 DEF Launches, From
  <2> QED BY <1>4, <1>7, <2>1, <2>3
<1>9. ASSUME NEW i \in 1..n, NEW x \in J[i - 1] PROVE x \o qs[i] \in J[i]
  <2> DEFINE y == qs[i]
             z == x \o y
  <2>1. x \in Seq(Slot) /\ Launches(x, ws) /\ From(x, i - 1)
    BY <1>4, <1>6
  <2>2. \A j \in 1..Len(x), k \in 1..Len(y) : x[j].target # y[k].target
    BY <1>1, <1>2, <1>6, <2>1 DEF From
  <2>3. /\ z \in Seq(Slot) /\ Launches(z, ws)
        /\ \A k \in 1..Len(z) : \/ \E j \in 1..Len(x) : z[k] = x[j]
                                \/ \E j \in 1..Len(y) : z[k] = y[j]
    BY <1>2, <2>1, <2>2, LaunchesUnion
  <2> HIDE DEF z
  <2>4. ASSUME NEW k \in 1..Len(z) PROVE \E j \in 1..i : z[k].target = Targets[j]
    <3>1. CASE \E j \in 1..Len(x) : z[k] = x[j]
      <4>1. PICK j \in 1..(i - 1) : z[k].target = Targets[j]
        BY <2>1, <3>1 DEF From
      <4> QED BY <1>6, <4>1
    <3>2. CASE \E j \in 1..Len(y) : z[k] = y[j]
      <4>1. z[k].target = Targets[i] /\ i \in 1..i
        BY <1>2, <1>6, <3>2
      <4> QED BY <4>1
    <3> QED BY <2>3, <3>1, <3>2
  <2>5. From(z, i)
    BY <2>4 DEF From
  <2>6. z \in J[i]
    BY <1>4, <1>6, <2>3, <2>5
  <2> QED BY <2>6 DEF z
<1>10. FlattenSeq(qs) \in J[n]
  <2>1. <<>> \in J[0] /\ \A i \in 1..n : \A x \in J[i - 1] : x \o qs[i] \in J[i]
    BY <1>8, <1>9
  <2> QED BY <1>3, <1>5, <2>1, FlattenLeads
<1> QED BY <1>4, <1>7, <1>10 DEF qs

LEMMA PlanOK ==
    ASSUME TypeInv, NEW ws \in Crew, NEW phases, NEW m \in Nat, NEW fresh, Tags(fresh, m),
           NEW plan, plan = PlanBatchCycle(phases, ws, fresh), Len(plan.batches) <= m
    PROVE  /\ plan \in Plan /\ Distinct(plan.batches) /\ Uses(plan, fresh, m)
           /\ Launches(plan.batches, ws)
<1> DEFINE n == Len(Targets)
           qs == [i \in DOMAIN Targets |-> BatchesOf(phases, ws, Targets[i])]
           ps == [i \in DOMAIN Targets |-> PrepOf(phases, ws, Targets[i])]
           batches == FlattenSeq(qs)
           prep == FlattenSeq(ps)
           planned == [i \in DOMAIN batches |->
                         [target |-> batches[i].target, index |-> batches[i].index,
                          tag |-> fresh[i]]]
<1>1. n \in Nat /\ DOMAIN Targets = 1..n /\ \A i \in 1..n : Targets[i] \in Target
  BY TargetsAssumption, LenProperties, ElementOfSeq
<1>2. batches \in Seq(Slot) /\ Launches(batches, ws)
  BY SlotsOK
<1>3. ASSUME NEW t \in Target PROVE PrepOf(phases, ws, t) \in Seq(PrepOp)
  <2> DEFINE weaken == IF security[t] > PrepTolerance
                       THEN CeilDiv(security[t], WeakenPower) ELSE 0
             grow == IF deficit[t] > MoneyTolerance THEN CeilDiv(deficit[t], GrowPower) ELSE 0
             compensation == CeilDiv(grow * GrowSecurity, WeakenPower)
  <2>1. deficit[t] \in Nat /\ security[t] \in Nat
    BY DEF TypeInv
  <2>2. \A x \in Nat, n1 \in Nat \ {0} : CeilDiv(x, n1) \in Nat
    <3>1. \A x \in Nat, n1 \in Nat \ {0} : x + n1 - 1 \in Nat
      OBVIOUS
    <3>2. \A x \in Nat, n1 \in Nat \ {0} : x \div n1 \in Nat
      BY Quotient
    <3> QED BY <3>1, <3>2 DEF CeilDiv
  <2>3. GrowPower \in Nat \ {0} /\ WeakenPower \in Nat \ {0}
    BY MoneyAssumption DEF WeakenPower
  <2>4. weaken \in Nat /\ grow \in Nat
    BY <2>1, <2>2, <2>3
  <2> HIDE DEF weaken, grow
  <2>5. grow * GrowSecurity \in Nat
    BY <2>4 DEF GrowSecurity
  <2>6. compensation \in Nat
    BY <2>2, <2>3, <2>5
  <2> HIDE DEF compensation
  <2>7. PrepOps(t) = <<Operation("weaken", t, weaken, 0, "prep"),
                       Operation("grow", t, grow, 0, "prep"),
                       Operation("weaken", t, compensation, 0, "prep-cw")>>
    BY DEF PrepOps, weaken, grow, compensation
  <2>8. /\ Operation("weaken", t, weaken, 0, "prep") \in PrepOp
        /\ Operation("grow", t, grow, 0, "prep") \in PrepOp
        /\ Operation("weaken", t, compensation, 0, "prep-cw") \in PrepOp
    BY <2>4, <2>6, BatchAssumption DEF Operation, PrepOp, Op, Kind, Tag
  <2>9. PrepOps(t) \in Seq(PrepOp)
    <3>1. \A x, y, z \in PrepOp : <<x, y, z>> \in Seq(PrepOp)
      OBVIOUS
    <3> QED BY <2>7, <2>8, <3>1
  <2> QED BY <2>9, EmptySeq DEF PrepOf
<1>4. prep \in Seq(PrepOp)
  <2>1. ps \in [1..n -> Seq(PrepOp)]
    BY <1>1, <1>3
  <2>2. ps \in Seq(Seq(PrepOp))
    <3> HIDE DEF ps
    <3> QED BY <1>1, <2>1, FunctionIsSeq
  <2> HIDE DEF ps
  <2> QED BY <2>2, Flattened
<1>5. PlanBatchCycle(phases, ws, fresh) = [prep |-> prep, batches |-> planned]
  BY DEF PlanBatchCycle
<1> HIDE DEF batches, prep
<1> DEFINE l == Len(batches)
<1>6. /\ l \in Nat /\ DOMAIN batches = 1..l /\ DOMAIN planned = 1..l
      /\ \A i \in 1..l : batches[i] \in Slot
  BY <1>2, LenProperties, ElementOfSeq
<1>7. Len(planned) = l
  <2> HIDE DEF planned, l
  <2> QED BY <1>6
<1>8. l <= m
  BY <1>5, <1>7
<1> HIDE DEF l
<1>9. \A i \in 1..l : /\ i \in 1..m /\ planned[i] \in Planned /\ planned[i].tag = fresh[i]
  <2>1. \A i \in 1..l : i \in 1..m
    BY <1>6, <1>8
  <2> QED BY <1>6, <2>1 DEF Planned, Tags, Slot
<1> HIDE DEF planned
<1>10. planned \in Seq(Planned)
  <2>1. planned \in [1..l -> Planned]
    <3>1. planned = [i \in 1..l |-> planned[i]]
      BY <1>6 DEF planned
    <3> QED BY <1>9, <3>1
  <2> QED BY <1>6, <2>1, FunctionIsSeq
<1>11. Distinct(planned)
  BY <1>6, <1>9 DEF Distinct, Tags
<1>12. \A k \in 1..l : \E i \in 1..m : planned[k].tag = fresh[i]
  BY <1>9
<1>13. Launches(planned, ws)
  <2>1. \A i \in 1..l : planned[i].target = batches[i].target
                       /\ planned[i].index = batches[i].index
    BY <1>6 DEF planned
  <2> QED BY <1>2, <1>7, <2>1 DEF Launches, l
<1> QED BY <1>4, <1>5, <1>7, <1>10, <1>11, <1>12, <1>13 DEF Plan, Uses

\* Batches are started for prepped targets only, and no more than a pipeline holds.
Launched(P, ws) ==
    \A t \in Target : RunningBatches(P, t) # {} =>
        IsTargetPrepped(t) /\ Running(P, t) + Running(ws, t) <= BatchCap

LEMMA LaunchedOK ==
    ASSUME NEW batches \in Seq(Planned), NEW ws, Launches(batches, ws),
           NEW P \in Crew, Begun(batches, Len(batches), P)
    PROVE  Launched(P, ws)
<1> SUFFICES ASSUME NEW t \in Target, RunningBatches(P, t) # {}
             PROVE  IsTargetPrepped(t) /\ Running(P, t) + Running(ws, t) <= BatchCap
  BY DEF Launched
<1> DEFINE n == Len(batches)
           B == RunningBatches(P, t)
           low == Running(ws, t)
           at == [b \in B |-> CHOOSE k \in 1..n : batches[k].tag = b /\ batches[k].target = t]
           f == [b \in B |-> batches[at[b]].index]
<1>1. /\ n \in Nat /\ low \in Nat /\ BatchCap \in Nat /\ IsFiniteSet(B) /\ Cardinality(B) \in Nat
      /\ \A k \in 1..n : batches[k] \in Planned
  BY LenProperties, ElementOfSeq, RunningNat, MoneyFigures DEF Running
<1>2. ASSUME NEW b \in B PROVE \E k \in 1..n : batches[k].tag = b /\ batches[k].target = t
  <2>1. PICK w \in P : w.target = t /\ w.tag = b /\ b \in Batch
    BY DEF RunningBatches, WorkersOf
  <2>2. PICK k \in 1..n : w.tag = batches[k].tag
    BY <2>1 DEF Begun
  <2>3. Whole(batches[k], {v \in P : v.tag = batches[k].tag})
    BY <2>2 DEF Begun
  <2>4. \A j \in 1..4 : BatchOps(batches[k])[j].target = batches[k].target
    BY <1>1, LandingOrder
  <2>5. w.target = batches[k].target
    BY <2>2, <2>3, <2>4 DEF Whole, Fills, Spots
  <2> QED BY <2>1, <2>2, <2>5
<1>3. \A b \in B : at[b] \in 1..n /\ batches[at[b]].tag = b /\ batches[at[b]].target = t
  BY <1>2
<1> HIDE DEF at, n
<1>4. /\ \A k \in 1..n : /\ IsTargetPrepped(batches[k].target)
                         /\ batches[k].index \in Running(ws, batches[k].target) .. (BatchCap - 1)
      /\ \A j, k \in 1..n : batches[j].target = batches[k].target
                            /\ batches[j].index = batches[k].index => j = k
  BY DEF Launches, n
<1>5. f \in [B -> low .. (BatchCap - 1)]
  BY <1>3, <1>4
<1>6. \A b, c \in B : f[b] = f[c] => b = c
  BY <1>3, <1>4
<1>7. IsTargetPrepped(t) /\ low <= BatchCap - 1
  <2>1. PICK b \in B : TRUE
    OBVIOUS
  <2>2. f[b] \in low .. (BatchCap - 1) /\ IsTargetPrepped(t)
    BY <1>3, <1>4, <1>5, <2>1
  <2> HIDE DEF low, f
  <2> QED BY <1>1, <2>2
<1> HIDE DEF f, B, low
<1>8. f \in Injection(B, low .. (BatchCap - 1))
  BY <1>5, <1>6 DEF Injection, IsInjective
<1>9. low \in Int /\ BatchCap - 1 \in Int
  BY <1>1
<1>10. /\ IsFiniteSet(low .. (BatchCap - 1))
       /\ Cardinality(low .. (BatchCap - 1)) = (BatchCap - 1) - low + 1
  BY <1>7, <1>9, FS_Interval
<1>11. Cardinality(B) <= Cardinality(low .. (BatchCap - 1))
  BY <1>8, <1>10, FS_Injection
<1>12. Cardinality(B) + low <= BatchCap
  BY <1>1, <1>10, <1>11
<1> QED BY <1>7, <1>12 DEF Running, B, low

\* What a cycle does: the workers of targets R are gone, the workers P are new.
Remaining(R) == {w \in workers : w.target \notin R}
Cycled(phases, slots, R, P) ==
    /\ workers' = Remaining(R) \cup P
    /\ \A w \in P, v \in Remaining(R) : w.tag \in Batch => v.tag # w.tag
    /\ \A s \in Server : UsedRam(P, s) <= FreeRam(slots)[s]
    /\ Balanced(P) /\ \A w \in P : w.type = "hack" => w.tag \in Batch
    /\ \A w \in P : w.tag \in Batch => \E b \in Planned : Whole(b, {v \in P : v.tag = w.tag})
    /\ Launched(P, Remaining(R))
    /\ phase' \in [Target -> {"prep", "batch"}]
    /\ \A t \in Target : phase'[t] = "batch" => \/ IsTargetPrepped(t)
                                                \/ phases[t] = "batch" /\ t \notin R
    /\ deficit' = deficit /\ security' = security

LEMMA CycleOK ==
    ASSUME TypeInv, NEW phases \in [Target -> {"prep", "batch"}], NEW map, Cycle(phases, map)
    PROVE  \E slots \in SlotOrders, R \in SUBSET Target, P \in Crew : Cycled(phases, slots, R, P)
<1> DEFINE judged == Judge(phases, map)
           R == Recovering(judged)
           survivors == Survivors(judged)
           kept == StillDue(judged, map)
           advanced == Advance(Recover(judged), survivors)
           unused == Batch \ (DOMAIN kept \cup {w.tag : w \in survivors})
           fresh == SetToSeq(unused)
           m == Cardinality(unused)
           plan == PlanBatchCycle(advanced, survivors, fresh)
<1>1. R \in SUBSET Target /\ survivors = Remaining(R)
  BY DEF Recovering, Survivors, Remaining
<1>2. survivors \in Crew
  BY CrewValues DEF Survivors, TypeInv
<1>3. /\ m \in Nat /\ fresh \in [1..m -> unused]
      /\ \A i, j \in 1..m : fresh[i] = fresh[j] => i = j
  <2>1. IsFiniteSet(unused)
    BY BatchAssumption, FS_Subset
  <2> HIDE DEF unused
  <2> QED BY <2>1, SetAsSequence
<1>4. \A t \in Target : /\ advanced[t] \in {"prep", "batch"}
                        /\ advanced[t] = "batch" => \/ IsTargetPrepped(t)
                                                    \/ phases[t] = "batch" /\ t \notin R
  BY DEF Advance, Recover, Judge, Recovering
<1>5. advanced \in [Target -> {"prep", "batch"}]
  <2>1. advanced = [t \in Target |-> advanced[t]]
    BY DEF Advance
  <2> HIDE DEF advanced
  <2> QED BY <1>4, <2>1
<1>6. PICK slots \in SlotOrders :
          /\ Len(plan.batches) <= m
          /\ phase' = advanced /\ deficit' = deficit /\ security' = security
          /\ workers' = survivors \cup AllocateServersToBatchOps(slots, plan)
  BY DEF Cycle, ExecuteBatchOps
<1> HIDE DEF advanced, survivors, R
<1>7. unused \subseteq Batch /\ \A b \in unused : \A v \in survivors : v.tag # b
  OBVIOUS
<1> HIDE DEF unused, fresh, m
<1>8. /\ plan \in Plan /\ Distinct(plan.batches)
      /\ Uses(plan, fresh, m) /\ Launches(plan.batches, survivors)
  <2>1. Tags(fresh, m)
    BY <1>3, <1>7 DEF Tags
  <2> QED BY <1>2, <1>3, <1>6, <2>1, PlanOK
<1> DEFINE n == Len(plan.batches)
           P == AllocateServersToBatchOps(slots, plan)
<1>9. \A k \in 1..n : plan.batches[k].tag \in unused
  BY <1>3, <1>8 DEF Uses
<1>10. \A k \in 1..n : plan.batches[k] \in Planned
  <2>1. plan.batches \in Seq(Planned)
    BY <1>8 DEF Plan
  <2> HIDE DEF plan
  <2> QED BY <2>1, LenProperties, ElementOfSeq
<1> HIDE DEF plan
<1>11. Slotted(slots) /\ FreeRam(slots) \in [Server -> Nat]
  BY FreeRamOK
<1>12. /\ P \in Crew /\ \A s \in Server : UsedRam(P, s) <= FreeRam(slots)[s]
       /\ Begun(plan.batches, n, P) /\ Balanced(P)
  BY <1>8, <1>11, AllocateServersOK
<1> HIDE DEF P, n
<1>13. ASSUME NEW w \in P, w.tag \in Batch
       PROVE  w.tag \in unused /\ \E b \in Planned : Whole(b, {v \in P : v.tag = w.tag})
  <2>1. PICK k \in 1..n : w.tag = plan.batches[k].tag
    BY <1>12, <1>13 DEF Begun
  <2>2. Whole(plan.batches[k], {v \in P : v.tag = w.tag})
    BY <1>12, <2>1 DEF Begun
  <2> QED BY <1>9, <1>10, <2>1, <2>2
<1>14. \A w \in P : w.type = "hack" => w.tag \in Batch
  BY <1>12 DEF Begun
<1>15. Launched(P, Remaining(R))
  <2>1. plan.batches \in Seq(Planned)
    BY <1>8 DEF Plan
  <2> QED BY <1>1, <1>8, <1>12, <2>1, LaunchedOK DEF n
<1>16. Cycled(phases, slots, R, P)
  BY <1>1, <1>4, <1>5, <1>6, <1>7, <1>12, <1>13, <1>14, <1>15 DEF Cycled, P
<1> QED BY <1>1, <1>12, <1>16

---------------------------------------------------------------------------
(* Types and room *)

Aged(w) == [w EXCEPT !.left = @ - 1]
AgedWorkers == {Aged(w) : w \in workers}

\* Hacks belong to batches, of which those still to land have no more threads than one
\* batch has, and a pipeline holds no more batches than its cap.
HacksTagged == \A w \in workers : w.type = "hack" => w.tag \in Batch
HacksOf(P, b) == {w \in P : w.tag = b /\ w.type = "hack"}
Bounded(P) ==
    /\ \A b \in Batch : SumFunctionOnSet(ThreadCount, HacksOf(P, b)) <= HackThreads
    /\ \A t \in Target : Running(P, t) <= BatchCap

LEMMA HacksSum ==
    ASSUME NEW P \in Crew, NEW b
    PROVE  /\ HacksOf(P, b) \in SUBSET P /\ HacksOf(P, b) \in Crew
           /\ IsFiniteSet(HacksOf(P, b)) /\ Values(ThreadCount, HacksOf(P, b))
           /\ \A w \in HacksOf(P, b) : ThreadCount[w] \in Nat /\ ThreadCount[w] >= 0
           /\ SumFunctionOnSet(ThreadCount, HacksOf(P, b)) \in Int
<1>1. HacksOf(P, b) \in SUBSET P
  BY DEF HacksOf
<1>2. HacksOf(P, b) \in Crew
  BY <1>1, CrewValues
<1>3. /\ IsFiniteSet(HacksOf(P, b)) /\ Values(ThreadCount, HacksOf(P, b))
      /\ \A w \in HacksOf(P, b) : ThreadCount[w] \in Nat /\ ThreadCount[w] >= 0
  BY <1>2, CrewValues
<1> QED BY <1>1, <1>2, <1>3, SumType

\* Workers that end leave no more than there were.
LEMMA BoundedPart ==
    ASSUME NEW P \in Crew, NEW Q \in SUBSET P, Bounded(P)
    PROVE  Bounded(Q)
<1>1. Q \in Crew
  BY CrewValues
<1>2. ASSUME NEW b \in Batch PROVE SumFunctionOnSet(ThreadCount, HacksOf(Q, b)) <= HackThreads
  <2>1. HacksOf(Q, b) \in SUBSET HacksOf(P, b)
    BY DEF HacksOf
  <2>2. SumFunctionOnSet(ThreadCount, HacksOf(Q, b)) <= SumFunctionOnSet(ThreadCount, HacksOf(P, b))
    BY <2>1, HacksSum, SumPart
  <2>3. /\ SumFunctionOnSet(ThreadCount, HacksOf(Q, b)) \in Int
        /\ SumFunctionOnSet(ThreadCount, HacksOf(P, b)) \in Int
    BY <1>1, HacksSum
  <2> QED BY <2>2, <2>3, MoneyFigures DEF Bounded
<1>3. ASSUME NEW t \in Target PROVE Running(Q, t) <= BatchCap
  <2>1. RunningBatches(Q, t) \subseteq RunningBatches(P, t)
    BY DEF RunningBatches, WorkersOf
  <2>2. Running(Q, t) <= Running(P, t)
    BY <2>1, RunningNat, FS_Subset DEF Running
  <2> QED BY <2>2, RunningNat, MoneyFigures DEF Bounded
<1> QED BY <1>2, <1>3 DEF Bounded

\* A worker of a batch's hack takes its part of what the batch takes.
LEMMA TheftOK ==
    ASSUME NEW P \in Crew, Bounded(P), NEW w \in P, w.type = "hack", w.tag \in Batch
    PROVE  Theft(w) \in Nat /\ HackThreads * Theft(w) <= Taken * w.threads
<1> DEFINE all == HacksOf(P, w.tag)
           rest == all \ {w}
<1>1. /\ IsFiniteSet(all) /\ Values(ThreadCount, all) /\ w \in all
      /\ SumFunctionOnSet(ThreadCount, all) <= HackThreads
      /\ SumFunctionOnSet(ThreadCount, all) \in Int
      /\ \A v \in all : ThreadCount[v] \in Nat /\ ThreadCount[v] >= 0
  <2>1. w \in all
    BY DEF HacksOf
  <2> QED BY <2>1, HacksSum DEF Bounded
<1>2. w.threads \in Nat /\ ThreadCount[w] = w.threads
  BY CrewValues DEF ThreadCount, Process
<1> HIDE DEF all
<1>3. IsFiniteSet(rest) /\ Values(ThreadCount, rest) /\ \A v \in rest : ThreadCount[v] >= 0
  <2>1. rest \in SUBSET all
    OBVIOUS
  <2> QED BY <1>1, <2>1, FS_Subset DEF Values
<1>4. SumFunctionOnSet(ThreadCount, rest) \in Int /\ SumFunctionOnSet(ThreadCount, rest) >= 0
  BY <1>3, SumType, SumNat
<1>5. SumFunctionOnSet(ThreadCount, all) = ThreadCount[w] + SumFunctionOnSet(ThreadCount, rest)
  BY <1>1, SumStep
<1> HIDE DEF rest
<1>6. w.threads \in 0 .. HackThreads
  BY <1>1, <1>2, <1>4, <1>5, MoneyFigures
<1>7. /\ Stolen[w.threads] \in Nat
      /\ HackThreads * Stolen[w.threads] <= w.threads * Stolen[HackThreads]
  BY <1>6, MoneyAssumption
<1>8. w.threads * Taken = Taken * w.threads
  BY <1>2, MoneyFigures
<1> QED BY <1>7, <1>8 DEF Theft, Taken

\* A worker that is a unit older differs from it in what is left only.
LEMMA AgedOK ==
    ASSUME NEW w \in Process, w.left > 0
    PROVE  /\ Aged(w) \in Process /\ Aged(w).left = w.left - 1
           /\ Aged(w).type = w.type /\ Aged(w).target = w.target /\ Aged(w).tag = w.tag
           /\ Aged(w).server = w.server /\ Aged(w).threads = w.threads
           /\ \A v \in Process : v.left > 0 /\ Aged(v) = Aged(w) => v = w
BY DEF Process, Aged

\* Sums over workers after a unit of time.
LEMMA AgedSum ==
    ASSUME NEW P \in Crew, \A w \in P : w.left > 0, NEW f, Values(f, P), NEW h,
           \A w \in P : h[Aged(w)] = f[w]
    PROVE  LET Q == {Aged(w) : w \in P}
           IN  Q \in Crew /\ Values(h, Q) /\ SumFunctionOnSet(h, Q) = SumFunctionOnSet(f, P)
<1> DEFINE m == [w \in P |-> Aged(w)]
           Q == {m[w] : w \in P}
<1>1. IsFiniteSet(P) /\ P \subseteq Process
  BY CrewValues
<1>2. /\ \A w \in P : m[w] = Aged(w) /\ Aged(w) \in Process
      /\ \A v, w \in P : Aged(v) = Aged(w) => v = w
  BY <1>1, AgedOK
<1>3. Q = {Aged(w) : w \in P} /\ Q \subseteq Process
  BY <1>2
<1>4. Renames(m, P, f, h)
  BY <1>2 DEF Renames
<1> HIDE DEF m
<1>5. IsFiniteSet(Q) /\ Values(h, Q) /\ SumFunctionOnSet(h, Q) = SumFunctionOnSet(f, P)
  BY <1>1, <1>4, SumImage
<1> QED BY <1>3, <1>5 DEF Crew

LEMMA TypeStart == Init => TypeInv
<1> SUFFICES ASSUME Init PROVE TypeInv
  OBVIOUS
<1>1. deficit \in [Target -> Nat] /\ security \in [Target -> Nat]
  BY LimitsAssumption DEF Init
<1>2. workers \in Crew
  BY FS_EmptySet DEF Init, Crew
<1> QED BY <1>1, <1>2 DEF Init, TypeInv

LEMMA TypeNext ==
    ASSUME TypeInv, HacksTagged, Bounded(workers), [Next]_vars
    PROVE  TypeInv'
<1>1. ASSUME NEW phases \in [Target -> {"prep", "batch"}], NEW map, Cycle(phases, map),
             killed' = killed
      PROVE  TypeInv'
  <2>1. PICK slots \in SlotOrders, R \in SUBSET Target, P \in Crew : Cycled(phases, slots, R, P)
    BY <1>1, CycleOK
  <2>2. Remaining(R) \in Crew
    BY CrewValues DEF TypeInv, Remaining
  <2>3. workers' \in Crew
    <3>1. Remaining(R) \cup P \in Crew
      BY <2>2, FS_Union DEF Crew
    <3> QED BY <2>1, <3>1 DEF Cycled
  <2> QED BY <1>1, <2>1, <2>3 DEF TypeInv, Cycled
<1>2. CASE Wake
  <2>1. phase \in [Target -> {"prep", "batch"}] /\ Cycle(phase, due) /\ killed' = killed
    BY <1>2 DEF Wake, TypeInv, faults
  <2> QED BY <1>1, <2>1
<1>3. CASE Start
  <2> DEFINE phases == [t \in Target |-> IF IsTargetPrepped(t) THEN "batch" ELSE "prep"]
  <2>1. phases \in [Target -> {"prep", "batch"}] /\ killed' = killed
        /\ Cycle(phases, ReconstructBatchState)
    BY <1>3 DEF Start, faults
  <2> HIDE DEF phases
  <2> QED BY <1>1, <2>1
<1>4. CASE Stop
  BY <1>4 DEF Stop, TypeInv
<1>5. CASE Elapse
  <2>1. workers' = {Aged(w) : w \in workers} /\ \A w \in workers : w.left > 0
    BY <1>5 DEF Elapse, Aged
  <2>2. workers' \in Crew
    <3>1. workers \in Crew /\ workers \subseteq Process /\ Values(ThreadCount, workers)
      BY CrewValues DEF TypeInv
    <3>2. \A w \in workers : ThreadCount[Aged(w)] = ThreadCount[w]
      BY <2>1, <3>1, AgedOK DEF ThreadCount
    <3> QED BY <2>1, <3>1, <3>2, AgedSum
  <2> QED BY <1>5, <2>2 DEF Elapse, TypeInv
<1>6. ASSUME NEW w \in workers, Land(w) PROVE TypeInv'
  <2> DEFINE d == deficit[w.target]
             s == security[w.target]
             grown == AtMost(d, GrowPower * w.threads)
  <2>1. /\ w \in Process /\ w.threads \in Nat /\ w.target \in Target
        /\ d \in Nat /\ s \in Nat
    BY DEF TypeInv, Crew, Process
  <2>2. workers' \in Crew
    BY <1>6, CrewValues DEF Land, TypeInv
  <2>3. \A n \in Nat : AtMost(MaxDeficit, n) \in Nat /\ AtMost(MaxSecurity, n) \in Nat
    BY LimitsAssumption DEF AtMost
  <2>4. w.type = "hack" => Theft(w) \in Nat
    BY TheftOK DEF TypeInv, HacksTagged
  <2>5. grown \in Nat /\ d - grown \in Nat /\ grown \div GrowPower \in Nat
    <3>1. GrowPower * w.threads \in Nat
      <4>1. \A m, n \in Nat : m * n \in Nat
        OBVIOUS
      <4> QED BY <2>1, <4>1, MoneyFigures
    <3>2. grown \in Nat /\ d - grown \in Nat
      <4> HIDE DEF d
      <4> QED BY <2>1, <3>1 DEF AtMost
    <3> HIDE DEF grown
    <3> QED BY <3>2, MoneyAssumption, Quotient
  <2>6. deficit' \in [Target -> Nat] /\ security' \in [Target -> Nat]
    <3>1. /\ w.type = "hack" => AtMost(MaxDeficit, d + Theft(w)) \in Nat
          /\ AtMost(MaxSecurity, s + HackSecurity * w.threads) \in Nat
          /\ AtMost(MaxSecurity, s + GrowSecurity * (grown \div GrowPower)) \in Nat
          /\ AtLeast(0, s - WeakenPower * w.threads) \in Nat
      <4>1. w.type = "hack" => d + Theft(w) \in Nat
        BY <2>1, <2>4
      <4>2. /\ s + HackSecurity * w.threads \in Nat
            /\ s + GrowSecurity * (grown \div GrowPower) \in Nat
            /\ s - WeakenPower * w.threads \in Int
        <5> HIDE DEF grown, s
        <5> QED BY <2>1, <2>5 DEF HackSecurity, GrowSecurity, WeakenPower
      <4>3. AtLeast(0, s - WeakenPower * w.threads) \in Nat
        BY <4>2 DEF AtLeast
      <4> QED BY <2>3, <4>1, <4>2, <4>3
    <3>2. CASE w.type = "hack"
      BY <1>6, <3>1, <3>2 DEF Land, TypeInv
    <3>3. CASE w.type = "grow"
      <4>1. /\ deficit' = [deficit EXCEPT ![w.target] = @ - grown]
            /\ security' = [security EXCEPT ![w.target] =
                              AtMost(MaxSecurity, @ + GrowSecurity * (grown \div GrowPower))]
        BY <1>6, <3>3 DEF Land
      <4> HIDE DEF grown
      <4> QED BY <2>5, <3>1, <4>1 DEF TypeInv
    <3>4. CASE w.type = "weaken"
      BY <1>6, <3>1, <3>4 DEF Land, TypeInv
    <3> QED BY <1>6, <3>2, <3>3, <3>4 DEF Land
  <2> QED BY <1>6, <2>2, <2>6 DEF Land, TypeInv
<1>7. ASSUME NEW w \in workers, KillWorker(w) PROVE TypeInv'
  <2>1. workers' \in Crew
    BY <1>7, CrewValues DEF KillWorker, TypeInv
  <2> QED BY <1>7, <2>1 DEF KillWorker, TypeInv
<1>8. CASE UNCHANGED vars
  BY <1>8 DEF vars, TypeInv
<1> QED BY <1>2, <1>3, <1>4, <1>5, <1>6, <1>7, <1>8 DEF Next

\* No host is overcommitted: the workers of a cycle fit beside those that were there
\* when it read the free RAM (HostsHaveRoom).
LEMMA RoomNext == TypeInv /\ HostsHaveRoom /\ [Next]_vars => HostsHaveRoom'
<1> SUFFICES ASSUME TypeInv, HostsHaveRoom, [Next]_vars PROVE HostsHaveRoom'
  OBVIOUS
<1>0. workers \in Crew
  BY DEF TypeInv
<1>1. ASSUME NEW phases \in [Target -> {"prep", "batch"}], NEW map, Cycle(phases, map)
      PROVE  HostsHaveRoom'
  <2>1. PICK slots \in SlotOrders, R \in SUBSET Target, P \in Crew : Cycled(phases, slots, R, P)
    BY <1>1, CycleOK
  <2>2. ASSUME NEW s \in Server
        PROVE  UsedRam(Remaining(R) \cup P, s) <= AtLeast(0, MaxRam[s] - Reserved(s))
    <3>1. Remaining(R) \in SUBSET workers /\ Remaining(R) \in Crew
      BY <1>0, CrewValues DEF Remaining
    <3>2. /\ UsedRam(Remaining(R), s) \in Nat /\ UsedRam(P, s) \in Nat
          /\ UsedRam(workers, s) \in Nat /\ UsedRam(Remaining(R) \cup P, s) \in Nat
      <4>1. Remaining(R) \cup P \in Crew
        BY <3>1, UsedRamOfUnion
      <4>2. \A Q \in Crew : UsedRam(Q, s) \in Nat
        BY UsedRamIs
      <4> QED BY <1>0, <3>1, <4>1, <4>2
    <3>3. UsedRam(Remaining(R), s) <= UsedRam(workers, s)
      BY <1>0, <3>1, UsedRamOfPart
    <3>4. UsedRam(Remaining(R) \cup P, s) <= UsedRam(Remaining(R), s) + UsedRam(P, s)
      BY <3>1, UsedRamOfUnion
    <3>5. UsedRam(P, s) <= FreeRam(slots)[s]
      BY <2>1 DEF Cycled
    <3>6. /\ MaxRam[s] \in Nat /\ Reserved(s) \in Nat
          /\ FreeRam(slots)[s] \in {0, MaxRam[s] - UsedRam(workers, s) - Reserved(s)}
      BY FreeRamOK
    <3>7. UsedRam(workers, s) <= AtLeast(0, MaxRam[s] - Reserved(s))
      BY DEF HostsHaveRoom
    <3>8. AtLeast(0, MaxRam[s] - Reserved(s)) >= MaxRam[s] - Reserved(s)
          /\ AtLeast(0, MaxRam[s] - Reserved(s)) \in Nat
      BY <3>6 DEF AtLeast
    <3> QED BY <3>2, <3>3, <3>4, <3>5, <3>6, <3>7, <3>8
  <2> QED BY <2>1, <2>2 DEF HostsHaveRoom, Cycled
<1>2. ASSUME workers' \in SUBSET workers PROVE HostsHaveRoom'
  <2>1. ASSUME NEW s \in Server, NEW Q \in SUBSET workers
        PROVE  UsedRam(Q, s) <= AtLeast(0, MaxRam[s] - Reserved(s))
    <3>1. UsedRam(Q, s) <= UsedRam(workers, s)
      BY <1>0, UsedRamOfPart
    <3>2. UsedRam(workers, s) <= AtLeast(0, MaxRam[s] - Reserved(s))
      BY DEF HostsHaveRoom
    <3>3. /\ UsedRam(Q, s) \in Nat /\ UsedRam(workers, s) \in Nat
          /\ AtLeast(0, MaxRam[s] - Reserved(s)) \in Int
      <4>1. Q \in Crew /\ \A U \in Crew : UsedRam(U, s) \in Nat
        BY <1>0, CrewValues, UsedRamIs
      <4>2. MaxRam[s] - Reserved(s) \in Int
        BY ServersAssumption DEF Reserved
      <4> QED BY <1>0, <4>1, <4>2 DEF AtLeast
    <3> QED BY <3>1, <3>2, <3>3
  <2> QED BY <1>2, <2>1 DEF HostsHaveRoom
<1>3. CASE Wake
  <2>1. phase \in [Target -> {"prep", "batch"}] /\ Cycle(phase, due)
    BY <1>3 DEF Wake, TypeInv
  <2> QED BY <1>1, <2>1
<1>4. CASE Start
  <2> DEFINE phases == [t \in Target |-> IF IsTargetPrepped(t) THEN "batch" ELSE "prep"]
  <2>1. phases \in [Target -> {"prep", "batch"}] /\ Cycle(phases, ReconstructBatchState)
    BY <1>4 DEF Start
  <2> HIDE DEF phases
  <2> QED BY <1>1, <2>1
<1>5. CASE Elapse
  <2>1. workers' = {Aged(w) : w \in workers} /\ \A w \in workers : w.left > 0
    BY <1>5 DEF Elapse, Aged
  <2>2. ASSUME NEW s \in Server
        PROVE  UsedRam({Aged(w) : w \in workers}, s) = UsedRam(workers, s)
    <3> DEFINE here == {w \in workers : w.server = s}
               Q == {Aged(w) : w \in workers}
    <3>1. here \in Crew /\ UsedRam(workers, s) = SumFunctionOnSet(RamUse, here)
      BY <1>0, UsedRamIs
    <3>2. \A w \in workers : /\ w \in Process /\ RamUse[Aged(w)] = RamUse[w]
                             /\ Aged(w).server = w.server
      BY <1>0, <2>1, AgedOK, CrewValues DEF RamUse
    <3>3. Q \in Crew
      <4>1. Values(RamUse, workers)
        BY <1>0, CrewValues
      <4> QED BY <1>0, <2>1, <3>2, <4>1, AgedSum
    <3>4. {v \in Q : v.server = s} = {Aged(w) : w \in here}
      BY <3>2
    <3>5. SumFunctionOnSet(RamUse, {Aged(w) : w \in here}) = SumFunctionOnSet(RamUse, here)
      <4>1. Values(RamUse, here) /\ \A w \in here : w.left > 0 /\ RamUse[Aged(w)] = RamUse[w]
        BY <2>1, <3>1, <3>2, CrewValues
      <4> HIDE DEF here
      <4> QED BY <3>1, <4>1, AgedSum
    <3> HIDE DEF Q, here
    <3>6. UsedRam(Q, s) = SumFunctionOnSet(RamUse, {v \in Q : v.server = s})
      BY <3>3, UsedRamIs
    <3> QED BY <3>1, <3>4, <3>5, <3>6 DEF Q
  <2> QED BY <2>1, <2>2 DEF HostsHaveRoom
<1>6. CASE Stop
  BY <1>2, <1>6 DEF Stop
<1>7. ASSUME NEW w \in workers, Land(w) PROVE HostsHaveRoom'
  BY <1>2, <1>7 DEF Land
<1>8. ASSUME NEW w \in workers, KillWorker(w) PROVE HostsHaveRoom'
  BY <1>2, <1>8 DEF KillWorker
<1>9. CASE UNCHANGED vars
  BY <1>2, <1>9 DEF vars
<1> QED BY <1>3, <1>4, <1>5, <1>6, <1>7, <1>8, <1>9 DEF Next

---------------------------------------------------------------------------
(* Batches are whole *)

LEMMA ThreadsIs ==
    ASSUME NEW P \in Crew
    PROVE  ThreadsOf(P) = SumFunctionOnSet(ThreadCount, P)
<1> DEFINE f == [w \in P |-> w.threads]
<1>1. IsFiniteSet(P) /\ Values(ThreadCount, P) /\ P \subseteq Process
  BY CrewValues
<1>2. \A w \in P : ThreadCount[w] = f[w]
  BY <1>1 DEF ThreadCount
<1> HIDE DEF f
<1>3. SumFunctionOnSet(ThreadCount, P) = SumFunctionOnSet(f, P)
  BY <1>1, <1>2, SumSame
<1> QED BY <1>3 DEF ThreadsOf, f

LEMMA WholeThreads ==
    ASSUME NEW b \in Planned, NEW B, Whole(b, B)
    PROVE  /\ ThreadsOf({w \in B : w.type = "hack"}) = HackThreads
           /\ ThreadsOf({w \in B : w.type = "grow"}) = GrowThreads
           /\ ThreadsOf({w \in B : w.type = "weaken"})
                = CompensatingThreads(HackThreads, HackSecurity)
                  + CompensatingThreads(GrowThreads, GrowSecurity)
<1> DEFINE ops == BatchOps(b)
           w1 == CompensatingThreads(HackThreads, HackSecurity)
           w2 == CompensatingThreads(GrowThreads, GrowSecurity)
           T == WeakenTime - 1 + b.index * BatchWindow
<1>1. /\ T \in Nat /\ ops[1].type = "hack" /\ ops[2].type = "weaken"
      /\ ops[3].type = "grow" /\ ops[4].type = "weaken"
      /\ LandsIn(ops[2]) = T + 1 /\ LandsIn(ops[4]) = T + 3
      /\ ops[1].threads = HackThreads /\ ops[2].threads = w1
      /\ ops[3].threads = GrowThreads /\ ops[4].threads = w2
  BY LandingOrder
<1> HIDE DEF T, ops, w1, w2
<1>2. PICK V1 \in Crew, V2 \in Crew, V3 \in Crew, V4 \in Crew :
          /\ B = V1 \cup V2 \cup V3 \cup V4
          /\ Fills(V1, ops[1]) /\ Fills(V2, ops[2]) /\ Fills(V3, ops[3]) /\ Fills(V4, ops[4])
  BY DEF Whole, ops
<1>3. /\ \A w \in V1 : w.type = "hack"
      /\ \A w \in V2 : w.type = "weaken" /\ w.left = LandsIn(ops[2])
      /\ \A w \in V3 : w.type = "grow"
      /\ \A w \in V4 : w.type = "weaken" /\ w.left = LandsIn(ops[4])
  BY <1>1, <1>2 DEF Fills, Spots, LandsIn
<1>4. /\ {w \in B : w.type = "hack"} = V1 /\ {w \in B : w.type = "grow"} = V3
      /\ {w \in B : w.type = "weaken"} = V2 \cup V4 /\ V2 \cap V4 = {}
  <2>1. LandsIn(ops[2]) # LandsIn(ops[4])
    BY <1>1
  <2> QED BY <1>2, <1>3, <2>1
<1>5. ThreadsOf(V1) = HackThreads /\ ThreadsOf(V3) = GrowThreads
  BY <1>1, <1>2, ThreadsIs DEF Fills
<1>6. ThreadsOf(V2 \cup V4) = w1 + w2
  <2>1. V2 \cup V4 \in Crew
    BY <1>2, FS_Union DEF Crew
  <2>2. ThreadsOf(V2 \cup V4) = SumFunctionOnSet(ThreadCount, V2 \cup V4)
    BY <2>1, ThreadsIs
  <2>3. /\ IsFiniteSet(V2) /\ Values(ThreadCount, V2)
        /\ IsFiniteSet(V4) /\ Values(ThreadCount, V4)
    BY <1>2, CrewValues
  <2>4. SumFunctionOnSet(ThreadCount, V2) = w1 /\ SumFunctionOnSet(ThreadCount, V4) = w2
    BY <1>1, <1>2 DEF Fills
  <2> QED BY <1>4, <2>2, <2>3, <2>4, SumUnion
<1> QED BY <1>4, <1>5, <1>6 DEF w1, w2

WholeAction ==
    \A t \in Target : \A b \in RunningBatches(workers', t) :
        b \notin RunningBatches(workers, t)
          => LET Threads(type) == ThreadsOf({w \in workers' : w.tag = b /\ w.type = type})
             IN  /\ Threads("hack") = HackThreads
                 /\ Threads("grow") = GrowThreads
                 /\ Threads("weaken") = CompensatingThreads(HackThreads, HackSecurity)
                                      + CompensatingThreads(GrowThreads, GrowSecurity)

LEMMA WholeNext == TypeInv /\ [Next]_vars => WholeAction
<1> SUFFICES ASSUME TypeInv, [Next]_vars PROVE WholeAction
  OBVIOUS
<1>0. workers \in Crew /\ workers \subseteq Process
  BY CrewValues DEF TypeInv
<1>1. ASSUME NEW phases \in [Target -> {"prep", "batch"}], NEW map, Cycle(phases, map)
      PROVE  WholeAction
  <2>1. PICK slots \in SlotOrders, R \in SUBSET Target, P \in Crew : Cycled(phases, slots, R, P)
    BY <1>1, CycleOK
  <2>2. ASSUME NEW t \in Target, NEW b \in RunningBatches(workers', t),
               b \notin RunningBatches(workers, t)
        PROVE  /\ ThreadsOf({w \in workers' : w.tag = b /\ w.type = "hack"}) = HackThreads
               /\ ThreadsOf({w \in workers' : w.tag = b /\ w.type = "grow"}) = GrowThreads
               /\ ThreadsOf({w \in workers' : w.tag = b /\ w.type = "weaken"})
                    = CompensatingThreads(HackThreads, HackSecurity)
                      + CompensatingThreads(GrowThreads, GrowSecurity)
    <3>1. PICK w \in workers' : w.target = t /\ w.tag = b /\ b \in Batch
      BY <2>2 DEF RunningBatches, WorkersOf
    <3>2. w \in P
      <4>1. w \notin workers
        BY <2>2, <3>1 DEF RunningBatches, WorkersOf
      <4> QED BY <2>1, <3>1, <4>1 DEF Cycled, Remaining
    <3> DEFINE B == {v \in P : v.tag = b}
    <3>3. PICK q \in Planned : Whole(q, B)
      BY <2>1, <3>1, <3>2 DEF Cycled
    <3>4. \A v \in workers' : v.tag = b <=> v \in B
      BY <2>1, <3>1, <3>2 DEF Cycled
    <3> HIDE DEF B
    <3>5. \A type \in Kind : {v \in workers' : v.tag = b /\ v.type = type}
                               = {v \in B : v.type = type}
      <4>1. B \subseteq workers'
        BY <2>1 DEF B, Cycled
      <4> QED BY <3>4, <4>1
    <3>6. "hack" \in Kind /\ "grow" \in Kind /\ "weaken" \in Kind
      BY DEF Kind
    <3>7. /\ {v \in workers' : v.tag = b /\ v.type = "hack"} = {v \in B : v.type = "hack"}
          /\ {v \in workers' : v.tag = b /\ v.type = "grow"} = {v \in B : v.type = "grow"}
          /\ {v \in workers' : v.tag = b /\ v.type = "weaken"} = {v \in B : v.type = "weaken"}
      BY <3>5, <3>6
    <3> QED BY <3>3, <3>7, WholeThreads
  <2> QED BY <2>2 DEF WholeAction
<1>2. ASSUME \A w \in workers' : \E v \in workers : w.tag = v.tag /\ w.target = v.target
      PROVE  WholeAction
  BY <1>2 DEF WholeAction, RunningBatches, WorkersOf
<1>3. CASE Wake
  <2>1. phase \in [Target -> {"prep", "batch"}] /\ Cycle(phase, due)
    BY <1>3 DEF Wake, TypeInv
  <2> QED BY <1>1, <2>1
<1>4. CASE Start
  <2> DEFINE phases == [t \in Target |-> IF IsTargetPrepped(t) THEN "batch" ELSE "prep"]
  <2>1. phases \in [Target -> {"prep", "batch"}] /\ Cycle(phases, ReconstructBatchState)
    BY <1>4 DEF Start
  <2> HIDE DEF phases
  <2> QED BY <1>1, <2>1
<1>5. CASE Stop
  BY <1>2, <1>5 DEF Stop
<1>6. CASE Elapse
  <2>1. workers' = {Aged(w) : w \in workers} /\ \A w \in workers : w.left > 0
    BY <1>6 DEF Elapse, Aged
  <2>2. \A w \in workers : Aged(w).tag = w.tag /\ Aged(w).target = w.target
    BY <1>0, <2>1, AgedOK
  <2> QED BY <1>2, <2>1, <2>2
<1>7. ASSUME NEW w \in workers, Land(w) PROVE WholeAction
  BY <1>2, <1>7 DEF Land
<1>8. ASSUME NEW w \in workers, KillWorker(w) PROVE WholeAction
  BY <1>2, <1>8 DEF KillWorker
<1>9. CASE UNCHANGED vars
  BY <1>2, <1>9 DEF vars
<1> QED BY <1>3, <1>4, <1>5, <1>6, <1>7, <1>8, <1>9 DEF Next

\* A batch of a cycle has the threads of one batch, and fits its target's pipeline.
LEMMA CycleBounded ==
    ASSUME TypeInv, Bounded(workers), NEW phases, NEW slots,
           NEW R \in SUBSET Target, NEW P \in Crew, Cycled(phases, slots, R, P)
    PROVE  Bounded(workers')
<1> DEFINE S == Remaining(R)
<1>1. S \in SUBSET workers /\ workers' = S \cup P
  BY DEF Cycled, Remaining
<1>2. workers \in Crew /\ S \in Crew /\ Bounded(S)
  BY <1>1, CrewValues, BoundedPart DEF TypeInv
<1>3. /\ \A w \in P, v \in S : w.tag \in Batch => v.tag # w.tag
      /\ \A w \in P : w.tag \in Batch => \E b \in Planned : Whole(b, {v \in P : v.tag = w.tag})
      /\ Launched(P, S)
  BY DEF Cycled
<1> HIDE DEF S
<1>4. ASSUME NEW b \in Batch
      PROVE  SumFunctionOnSet(ThreadCount, HacksOf(S \cup P, b)) <= HackThreads
  <2>1. CASE \E w \in P : w.tag = b
    <3> DEFINE B == {v \in P : v.tag = b}
    <3>1. PICK q \in Planned : Whole(q, B)
      BY <1>3, <2>1
    <3>2. HacksOf(S \cup P, b) = {v \in B : v.type = "hack"}
      BY <1>3, <2>1 DEF HacksOf
    <3>3. {v \in B : v.type = "hack"} \in Crew
      BY CrewValues
    <3> HIDE DEF B
    <3>4. SumFunctionOnSet(ThreadCount, {v \in B : v.type = "hack"}) = HackThreads
      BY <3>1, <3>3, ThreadsIs, WholeThreads
    <3>5. SumFunctionOnSet(ThreadCount, HacksOf(S \cup P, b)) = HackThreads
      BY <3>2, <3>4, Zenon
    <3>6. HackThreads \in Nat
      BY MoneyFigures
    <3> QED BY <3>5, <3>6
  <2>2. CASE ~\E w \in P : w.tag = b
    <3>1. HacksOf(S \cup P, b) = HacksOf(S, b)
      BY <2>2 DEF HacksOf
    <3> QED BY <1>2, <3>1 DEF Bounded
  <2> QED BY <2>1, <2>2
<1>5. ASSUME NEW t \in Target PROVE Running(S \cup P, t) <= BatchCap
  <2> DEFINE X == RunningBatches(S, t)
             Y == RunningBatches(P, t)
  <2>1. RunningBatches(S \cup P, t) = X \cup Y
    BY DEF RunningBatches, WorkersOf
  <2>2. IsFiniteSet(X) /\ Cardinality(X) \in Nat /\ IsFiniteSet(Y) /\ Cardinality(Y) \in Nat
    BY RunningNat DEF Running
  <2>3. Cardinality(X) <= BatchCap
    BY <1>2 DEF Bounded, Running
  <2>4. Y # {} => Cardinality(Y) + Cardinality(X) <= BatchCap
    BY <1>3 DEF Launched, Running
  <2> HIDE DEF X, Y
  <2>5. CASE Y = {}
    <3>1. X \cup Y = X
      BY <2>5
    <3> QED BY <2>1, <2>3, <3>1 DEF Running
  <2>6. CASE Y # {}
    <3>1. /\ Cardinality(X \cup Y) = Cardinality(X) + Cardinality(Y) - Cardinality(X \cap Y)
      BY <2>2, FS_Union
    <3>2. Cardinality(X \cap Y) \in Nat
      BY <2>2, FS_Intersection, FS_CardinalityType
    <3>3. Cardinality(X \cup Y) <= BatchCap
      BY <2>2, <2>4, <2>6, <3>1, <3>2, MoneyFigures
    <3> QED BY <2>1, <3>3 DEF Running
  <2> QED BY <2>5, <2>6
<1> QED BY <1>1, <1>4, <1>5 DEF Bounded

LEMMA BoundedNext ==
    ASSUME TypeInv, Bounded(workers), [Next]_vars
    PROVE  Bounded(workers')
<1>0. workers \in Crew /\ workers \subseteq Process
  BY CrewValues DEF TypeInv
<1>1. ASSUME NEW phases \in [Target -> {"prep", "batch"}], NEW map, Cycle(phases, map)
      PROVE  Bounded(workers')
  <2>1. PICK slots \in SlotOrders, R \in SUBSET Target, P \in Crew : Cycled(phases, slots, R, P)
    BY <1>1, CycleOK
  <2> QED BY <2>1, CycleBounded
<1>2. ASSUME workers' \in SUBSET workers PROVE Bounded(workers')
  BY <1>0, <1>2, BoundedPart
<1>3. CASE Wake
  <2>1. phase \in [Target -> {"prep", "batch"}] /\ Cycle(phase, due)
    BY <1>3 DEF Wake, TypeInv
  <2> QED BY <1>1, <2>1
<1>4. CASE Start
  <2> DEFINE phases == [t \in Target |-> IF IsTargetPrepped(t) THEN "batch" ELSE "prep"]
  <2>1. phases \in [Target -> {"prep", "batch"}] /\ Cycle(phases, ReconstructBatchState)
    BY <1>4 DEF Start
  <2> HIDE DEF phases
  <2> QED BY <1>1, <2>1
<1>5. CASE Elapse
  <2> DEFINE Q == {Aged(w) : w \in workers}
  <2>1. workers' = Q /\ \A w \in workers : w.left > 0
    BY <1>5 DEF Elapse, Aged
  <2>2. \A w \in workers : /\ Aged(w).tag = w.tag /\ Aged(w).target = w.target
                           /\ Aged(w).type = w.type /\ ThreadCount[Aged(w)] = ThreadCount[w]
    BY <1>0, <2>1, AgedOK DEF ThreadCount
  <2>3. ASSUME NEW b \in Batch
        PROVE  SumFunctionOnSet(ThreadCount, HacksOf(Q, b)) <= HackThreads
    <3> DEFINE old == HacksOf(workers, b)
    <3>1. HacksOf(Q, b) = {Aged(w) : w \in old}
      BY <2>2 DEF HacksOf
    <3>2. /\ old \in Crew /\ \A w \in old : w.left > 0 /\ ThreadCount[Aged(w)] = ThreadCount[w]
          /\ Values(ThreadCount, old)
      <4>1. old \in Crew /\ old \in SUBSET workers /\ Values(ThreadCount, old)
        BY <1>0, HacksSum
      <4> HIDE DEF old
      <4> QED BY <2>1, <2>2, <4>1
    <3>3. SumFunctionOnSet(ThreadCount, old) <= HackThreads
      BY DEF Bounded
    <3> HIDE DEF old, Q
    <3>4. SumFunctionOnSet(ThreadCount, {Aged(w) : w \in old}) = SumFunctionOnSet(ThreadCount, old)
      BY <3>2, AgedSum
    <3> QED BY <3>1, <3>3, <3>4
  <2>4. \A t \in Target : RunningBatches(Q, t) = RunningBatches(workers, t)
    BY <2>2 DEF RunningBatches, WorkersOf
  <2> HIDE DEF Q
  <2> QED BY <2>1, <2>3, <2>4 DEF Bounded, Running
<1>6. CASE Stop
  BY <1>2, <1>6 DEF Stop
<1>7. ASSUME NEW w \in workers, Land(w) PROVE Bounded(workers')
  BY <1>2, <1>7 DEF Land
<1>8. ASSUME NEW w \in workers, KillWorker(w) PROVE Bounded(workers')
  BY <1>2, <1>8 DEF KillWorker
<1>9. CASE UNCHANGED vars
  BY <1>2, <1>9 DEF vars
<1> QED BY <1>3, <1>4, <1>5, <1>6, <1>7, <1>8, <1>9 DEF Next

---------------------------------------------------------------------------
(* Thefts are covered *)

\* What the workers of a target's batches, whenever they land, take less what they
\* restore, and what they raise the security by less what they take off it.
MoneyRate(t, w) ==
    IF w.target # t \/ w.tag \notin Batch THEN 0
    ELSE IF w.type = "hack" THEN Taken
    ELSE IF w.type = "grow" THEN -Back
    ELSE 0
Money(t) == [w \in Process |-> MoneyRate(t, w) * w.threads]
RiseRate(t, w) ==
    IF w.target # t \/ w.tag \notin Batch THEN 0
    ELSE IF w.type = "hack" THEN HackSecurity
    ELSE IF w.type = "grow" THEN GrowSecurity
    ELSE IF w.type = "weaken" THEN -WeakenPower
    ELSE 0
Rise(t) == [w \in Process |-> RiseRate(t, w) * w.threads]

\* What a target lacks beyond the residue, or is too high by, when all of them have
\* landed.
Owed(t) == HackThreads * deficit[t] + SumFunctionOnSet(Money(t), workers) - HackThreads * Residue
Excess(t) == security[t] + SumFunctionOnSet(Rise(t), workers) - PrepTolerance

\* Grows bring the money back, and what grows raise weakens take off again.
Fair(o, e) == o <= 0 /\ Back * e + GrowSecurity * o <= 0
Covered(t) == phase[t] = "batch" => Fair(Owed(t), Excess(t))

BatchInv ==
    /\ TypeInv /\ HostsHaveRoom /\ HacksTagged /\ Bounded(workers)
    /\ killed = 0 => Balanced(workers) /\ \A t \in Target : Covered(t)

\* The threads of a target's hacks.
HackCount(t) ==
    [w \in Process |-> IF w.target = t /\ w.tag \in Batch /\ w.type = "hack"
                       THEN w.threads ELSE 0]

LEMMA Rates2 ==
    ASSUME NEW t, NEW w \in Process
    PROVE  /\ w.threads \in Nat /\ w.left \in Nat /\ w.type \in Kind
           /\ Money(t)[w] = MoneyRate(t, w) * w.threads /\ Money(t)[w] \in Int
           /\ Rise(t)[w] = RiseRate(t, w) * w.threads /\ Rise(t)[w] \in Int
           /\ HackCount(t)[w] \in Nat
           /\ Money(t)[w] <= Lead(t, 0)[w] + Leak * HackCount(t)[w]
           /\ Rise(t)[w] <= Raise(t, 0)[w]
<1>1. w.threads \in Nat /\ w.left \in Nat /\ w.type \in Kind
  BY DEF Process
<1>2. /\ Money(t)[w] = MoneyRate(t, w) * w.threads /\ Rise(t)[w] = RiseRate(t, w) * w.threads
      /\ Lead(t, 0)[w] = LeadRate(t, 0, w) * w.threads
      /\ Raise(t, 0)[w] = RaiseRate(t, 0, w) * w.threads
  BY DEF Money, Rise, Lead, Raise
<1>3. /\ MoneyRate(t, w) \in Int /\ RiseRate(t, w) \in Int
      /\ LeadRate(t, 0, w) \in Int /\ RaiseRate(t, 0, w) \in Int
      /\ RiseRate(t, w) <= RaiseRate(t, 0, w)
  BY <1>1, MoneyFigures
     DEF MoneyRate, RiseRate, LeadRate, RaiseRate, HackSecurity, GrowSecurity, WeakenPower
<1>4. \A x, y \in Int, n \in Nat : /\ x * n \in Int /\ y * n \in Int
                                   /\ x <= y => x * n <= y * n
  OBVIOUS
<1>5. HackCount(t)[w] \in Nat
  BY <1>1 DEF HackCount
<1>6. Money(t)[w] <= Lead(t, 0)[w] + Leak * HackCount(t)[w]
  <2>1. Lead(t, 0)[w] \in Int /\ Leak \in Nat /\ Leak * w.threads \in Int /\ Leak * 0 = 0
    BY <1>1, <1>2, <1>3, <1>4, MoneyFigures
  <2>2. CASE w.target = t /\ w.tag \in Batch /\ w.type = "hack"
    <3>1. MoneyRate(t, w) = Kept + Leak /\ LeadRate(t, 0, w) = Kept /\ HackCount(t)[w] = w.threads
      BY <1>1, <2>2, MoneyFigures DEF MoneyRate, LeadRate, HackCount
    <3>2. \A x, y, n \in Nat : (x + y) * n = x * n + y * n
      OBVIOUS
    <3>3. Money(t)[w] = Kept * w.threads + Leak * w.threads
      BY <1>1, <1>2, <3>1, <3>2, MoneyFigures
    <3> QED BY <1>2, <2>1, <3>1, <3>3
  <2>3. CASE ~(w.target = t /\ w.tag \in Batch /\ w.type = "hack")
    <3>1. MoneyRate(t, w) <= LeadRate(t, 0, w) /\ HackCount(t)[w] = 0
      BY <1>1, <2>3, MoneyFigures DEF MoneyRate, LeadRate, HackCount
    <3>2. Money(t)[w] <= Lead(t, 0)[w] /\ Money(t)[w] \in Int
      BY <1>1, <1>2, <1>3, <1>4, <3>1
    <3> QED BY <2>1, <3>1, <3>2
  <2> QED BY <2>2, <2>3
<1> QED BY <1>1, <1>2, <1>3, <1>4, <1>5, <1>6

\* The hacks of a pipeline have no more threads than so many batches.
LEMMA HackCountBound ==
    ASSUME NEW P \in Crew, Bounded(P), NEW t \in Target
    PROVE  /\ Values(HackCount(t), P) /\ SumFunctionOnSet(HackCount(t), P) \in Int
           /\ SumFunctionOnSet(HackCount(t), P) <= HackThreads * BatchCap
<1> DEFINE f == HackCount(t)
           S == {w \in P : w.target = t /\ w.tag \in Batch /\ w.type = "hack"}
           T == RunningBatches(P, t)
           key == [w \in P |-> w.tag]
<1>1. IsFiniteSet(P) /\ P \subseteq Process /\ Values(f, P) /\ SumFunctionOnSet(f, P) \in Int
  <2>1. IsFiniteSet(P) /\ P \subseteq Process
    BY CrewValues
  <2>2. Values(f, P)
    BY <2>1, Rates2 DEF Values
  <2> QED BY <2>1, <2>2, SumType
<1>2. S \in SUBSET P /\ S \in Crew /\ IsFiniteSet(S) /\ Values(ThreadCount, S)
  <2>1. S \in SUBSET P
    OBVIOUS
  <2> HIDE DEF S
  <2>2. S \in Crew
    BY <2>1, CrewValues
  <2> QED BY <2>1, <2>2, CrewValues
<1>3. \A w \in S : ThreadCount[w] = f[w]
  BY <1>1 DEF ThreadCount, HackCount
<1>4. \A w \in P \ S : f[w] = 0
  BY <1>1 DEF HackCount
<1>5. SumFunctionOnSet(f, P) = SumFunctionOnSet(ThreadCount, S)
  <2> HIDE DEF f, S
  <2>1. SumFunctionOnSet(ThreadCount, S) = SumFunctionOnSet(f, S)
    BY <1>2, <1>3, SumSame
  <2>2. SumFunctionOnSet(f, P) = SumFunctionOnSet(f, S) + SumFunctionOnSet(f, P \ S)
    BY <1>1, <1>2, SumSplit
  <2>3. SumFunctionOnSet(f, P \ S) = 0
    <3>1. IsFiniteSet(P \ S) /\ Values(f, P \ S)
      BY <1>1, FS_Subset DEF Values
    <3> QED BY <1>4, <3>1, SumZero
  <2>4. SumFunctionOnSet(ThreadCount, S) \in Int
    BY <1>2, SumType
  <2> QED BY <2>1, <2>2, <2>3, <2>4
<1>6. IsFiniteSet(T) /\ \A w \in S : key[w] \in T
  BY RunningNat DEF RunningBatches, WorkersOf
<1>7. ASSUME NEW b \in T
      PROVE  SumFunctionOnSet(ThreadCount, {w \in S : key[w] = b}) <= HackThreads
  <2> DEFINE mine == {w \in S : key[w] = b}
             all == HacksOf(P, b)
  <2>1. mine \in SUBSET all /\ mine \in SUBSET P
    BY DEF HacksOf
  <2>2. b \in Batch
    BY DEF RunningBatches
  <2>3. /\ IsFiniteSet(all) /\ Values(ThreadCount, all) /\ \A w \in all : ThreadCount[w] >= 0
        /\ SumFunctionOnSet(ThreadCount, all) \in Int
        /\ SumFunctionOnSet(ThreadCount, all) <= HackThreads
    BY <2>2, HacksSum DEF Bounded
  <2> HIDE DEF mine, all
  <2>4. SumFunctionOnSet(ThreadCount, mine) <= SumFunctionOnSet(ThreadCount, all)
    BY <2>1, <2>3, SumPart
  <2>5. SumFunctionOnSet(ThreadCount, mine) \in Int
    <3>1. IsFiniteSet(mine) /\ Values(ThreadCount, mine)
      BY <2>1, <2>3, FS_Subset DEF Values
    <3> QED BY <3>1, SumType
  <2>6. SumFunctionOnSet(ThreadCount, mine) <= HackThreads
    BY <2>3, <2>4, <2>5, MoneyFigures
  <2> QED BY <2>6 DEF mine
<1> HIDE DEF S, T, key, f
<1>8. SumFunctionOnSet(ThreadCount, S) <= HackThreads * Cardinality(T)
  <2>1. HackThreads \in Nat
    BY MoneyFigures
  <2> QED BY <1>2, <1>6, <1>7, <2>1, SumByGroup
<1>9. HackThreads * Cardinality(T) <= HackThreads * BatchCap
  <2>1. Cardinality(T) \in Nat /\ Cardinality(T) <= BatchCap
    BY RunningNat DEF Bounded, Running, T
  <2>2. \A x, y, h \in Nat : x <= y => h * x <= h * y
    OBVIOUS
  <2> QED BY <2>1, <2>2, MoneyFigures
<1>10. HackThreads * Cardinality(T) \in Int /\ HackThreads * BatchCap \in Int
  <2>1. Cardinality(T) \in Nat
    BY RunningNat DEF Running, T
  <2>2. \A x, y \in Nat : x * y \in Int
    OBVIOUS
  <2> QED BY <2>1, <2>2, MoneyFigures
<1>11. SumFunctionOnSet(f, P) <= HackThreads * BatchCap
  BY <1>1, <1>5, <1>8, <1>9, <1>10
<1> QED BY <1>1, <1>11 DEF f

\* What all hacks of a pipeline take and do not bring back.
Leaked == HackThreads * (BatchCap * Leak)

LEMMA CoverValues ==
    ASSUME NEW t, NEW P \in Crew
    PROVE  /\ IsFiniteSet(P) /\ Values(Money(t), P) /\ Values(Rise(t), P)
           /\ SumFunctionOnSet(Money(t), P) \in Int /\ SumFunctionOnSet(Rise(t), P) \in Int
           /\ t \in Target /\ Balanced(P) /\ Bounded(P)
                => /\ SumFunctionOnSet(Money(t), P) <= Leaked
                   /\ SumFunctionOnSet(Rise(t), P) <= 0
<1>1. IsFiniteSet(P) /\ P \subseteq Process
  BY CrewValues
<1>2. Values(Money(t), P) /\ Values(Rise(t), P)
  BY <1>1, Rates2 DEF Values
<1>3. /\ Values(Lead(t, 0), P) /\ Values(Raise(t, 0), P)
      /\ SumFunctionOnSet(Lead(t, 0), P) \in Int /\ SumFunctionOnSet(Raise(t, 0), P) \in Int
  BY WeightValues
<1>4. SumFunctionOnSet(Money(t), P) \in Int /\ SumFunctionOnSet(Rise(t), P) \in Int
  BY <1>1, <1>2, SumType
<1>5. SumFunctionOnSet(Rise(t), P) <= SumFunctionOnSet(Raise(t, 0), P)
  <2>1. \A w \in P : Rise(t)[w] <= Raise(t, 0)[w]
    BY <1>1, Rates2
  <2> QED BY <1>1, <1>2, <1>3, <2>1, SumMono
<1>6. ASSUME t \in Target, Balanced(P), Bounded(P)
      PROVE  SumFunctionOnSet(Money(t), P) <= Leaked /\ SumFunctionOnSet(Rise(t), P) <= 0
  <2>1. SumFunctionOnSet(Lead(t, 0), P) <= 0 /\ SumFunctionOnSet(Raise(t, 0), P) <= 0
    BY <1>6 DEF Balanced
  <2> DEFINE f == Lead(t, 0)
             g == HackCount(t)
             leak == Leak
             k == [w \in P |-> leak * g[w]]
             h == [w \in P |-> f[w] + k[w]]
             m == Money(t)
             A == SumFunctionOnSet(f, P)
             C == SumFunctionOnSet(g, P)
  <2>2. Values(g, P) /\ C \in Int /\ C <= HackThreads * BatchCap
    BY <1>6, HackCountBound
  <2>3. \A w \in P : m[w] <= h[w]
    <3>1. \A w \in P : m[w] <= f[w] + leak * g[w]
      BY <1>1, Rates2
    <3> HIDE DEF f, g, m, leak
    <3> QED BY <3>1
  <2>4. /\ Values(f, P) /\ Values(m, P) /\ leak \in Int /\ A \in Int /\ A <= 0
        /\ \A w \in P : k[w] = leak * g[w]
        /\ \A w \in P : h[w] = f[w] + k[w]
    BY <1>2, <1>3, <2>1, MoneyFigures
  <2> HIDE DEF f, g, h, m, k, leak
  <2>5. Values(h, P) /\ SumFunctionOnSet(h, P) = A + leak * C
    <3>1. Values(k, P) /\ SumFunctionOnSet(k, P) = leak * SumFunctionOnSet(g, P)
      BY <1>1, <2>2, <2>4, SumTimes
    <3>2. /\ Values(h, P)
          /\ SumFunctionOnSet(h, P) = SumFunctionOnSet(f, P) + SumFunctionOnSet(k, P)
      BY <1>1, <2>4, <3>1, SumPlus
    <3> QED BY <3>1, <3>2
  <2>6. SumFunctionOnSet(m, P) <= SumFunctionOnSet(h, P)
    BY <1>1, <2>3, <2>4, <2>5, SumMono
  <2> HIDE DEF A, C
  <2>7. Leak * C <= Leaked /\ Leak * C \in Int /\ Leaked \in Int
    <3>1. HackThreads * BatchCap \in Int /\ Leak * (HackThreads * BatchCap) = Leaked
          /\ Leaked \in Int
      BY MoneyFigures DEF Leaked
    <3>2. \A x, y \in Int, n \in Nat : x <= y => n * x <= n * y
      OBVIOUS
    <3>3. Leak * C <= Leak * (HackThreads * BatchCap)
      BY <2>2, <3>1, <3>2, MoneyFigures
    <3>4. Leak * C \in Int
      BY <2>2, MoneyFigures
    <3> QED BY <3>1, <3>3, <3>4
  <2>8. SumFunctionOnSet(m, P) <= Leaked
    <3>1. SumFunctionOnSet(m, P) \in Int
      BY <1>4 DEF m
    <3> QED BY <2>4, <2>5, <2>6, <2>7, <3>1 DEF leak
  <2> QED BY <1>3, <1>4, <1>5, <2>1, <2>8 DEF m
<1> QED BY <1>1, <1>2, <1>4, <1>6

LEMMA LeakedBound ==
    /\ Leaked \in Int /\ HackThreads * MoneyTolerance \in Nat
    /\ HackThreads * Residue = HackThreads * MoneyTolerance + Leaked
    /\ Leaked <= HackThreads * Residue
<1>1. \A a, b, c \in Nat : a * (b + c) = a * b + a * c /\ a * b \in Nat /\ a * c \in Nat
  OBVIOUS
<1>2. Leaked \in Nat /\ HackThreads * MoneyTolerance \in Nat
      /\ HackThreads * Residue = HackThreads * MoneyTolerance + Leaked
  BY <1>1, MoneyFigures DEF Leaked
<1> QED BY <1>2

LEMMA Product ==
    ASSUME NEW a \in Nat, NEW x \in Int, NEW y \in Int
    PROVE  /\ a * x \in Int /\ a * y \in Int
           /\ a * (x + y) = a * x + a * y /\ a * (x - y) = a * x - a * y
           /\ x <= y => a * x <= a * y
           /\ a > 0 /\ a * x <= a * y => x <= y
OBVIOUS

\* Covered targets have what TheftsCovered says on its way.
LEMMA CoveredOK ==
    ASSUME TypeInv, NEW t \in Target, phase[t] = "batch", Covered(t)
    PROVE  /\ deficit[t] <= Residue + GrowPower * Pending(t, "grow")
           /\ GrowPower * security[t]
                <= GrowPower * (PrepTolerance + WeakenPower * Pending(t, "weaken"))
                   + GrowSecurity * Residue
<1> DEFINE Awaits(type) == [w \in Process |-> IF w.target = t /\ w.type = type
                                              THEN w.threads ELSE 0]
           M == SumFunctionOnSet(Money(t), workers)
           U == SumFunctionOnSet(Rise(t), workers)
           d == deficit[t]
           s == security[t]
           G == Pending(t, "grow")
           W == Pending(t, "weaken")
           H == HackThreads
           B == Back
           R == Residue
           p == GrowPower
<1>1. /\ workers \in Crew /\ workers \subseteq Process /\ IsFiniteSet(workers)
      /\ d \in Nat /\ s \in Nat /\ H \in Nat /\ H > 0 /\ R \in Nat /\ p \in Nat
      /\ B \in Nat /\ B = H * p
      /\ M \in Int /\ U \in Int /\ Values(Money(t), workers) /\ Values(Rise(t), workers)
  BY CrewValues, CoverValues, MoneyFigures DEF TypeInv, Back
<1>2. ASSUME NEW type \in Kind
      PROVE  /\ Values(Awaits(type), workers) /\ Pending(t, type) \in Int
             /\ SumFunctionOnSet(Awaits(type), workers) = Pending(t, type)
  <2> DEFINE mine == {w \in WorkersOf(workers, t) : w.type = type}
             f == Awaits(type)
  <2>1. mine \in SUBSET workers /\ mine \in Crew /\ IsFiniteSet(mine)
        /\ Values(ThreadCount, mine)
    <3>1. mine \in SUBSET workers
      BY DEF WorkersOf
    <3> HIDE DEF mine
    <3>2. mine \in Crew
      BY <1>1, <3>1, CrewValues
    <3> QED BY <3>1, <3>2, CrewValues
  <2>2. Values(f, workers)
    BY <1>1, Rates2 DEF Values
  <2>3. /\ \A w \in mine : ThreadCount[w] = f[w]
        /\ \A w \in workers \ mine : f[w] = 0
    BY <1>1 DEF ThreadCount, WorkersOf
  <2>4. Pending(t, type) = SumFunctionOnSet(ThreadCount, mine)
        /\ SumFunctionOnSet(ThreadCount, mine) \in Int
    BY <2>1, ThreadsIs, SumType DEF Pending
  <2> HIDE DEF mine, f
  <2>5. SumFunctionOnSet(ThreadCount, mine) = SumFunctionOnSet(f, mine)
    BY <2>1, <2>3, SumSame
  <2>6. SumFunctionOnSet(f, workers) = SumFunctionOnSet(f, mine) + SumFunctionOnSet(f, workers \ mine)
    BY <1>1, <2>1, <2>2, SumSplit
  <2>7. SumFunctionOnSet(f, workers \ mine) = 0
    <3>1. IsFiniteSet(workers \ mine) /\ Values(f, workers \ mine)
      BY <1>1, <2>2, FS_Subset DEF Values
    <3> QED BY <2>3, <3>1, SumZero
  <2>8. SumFunctionOnSet(f, workers) = Pending(t, type)
    BY <2>4, <2>5, <2>6, <2>7
  <2> QED BY <2>2, <2>4, <2>8 DEF f
<1>3. "grow" \in Kind /\ "weaken" \in Kind
  BY DEF Kind
<1>4. /\ G \in Int /\ Values(Awaits("grow"), workers)
      /\ SumFunctionOnSet(Awaits("grow"), workers) = G
  BY <1>2, <1>3
<1>5. /\ W \in Int /\ Values(Awaits("weaken"), workers)
      /\ SumFunctionOnSet(Awaits("weaken"), workers) = W
  BY <1>2, <1>3
<1>6. H * d + M - H * R <= 0 /\ B * (s + U - PrepTolerance) + 2 * (H * d + M - H * R) <= 0
  BY DEF Covered, Fair, Owed, Excess, GrowSecurity
<1>7. -(B * G) <= M
  <2> DEFINE f == [w \in Process |-> (-B) * Awaits("grow")[w]]
  <2>1. ASSUME NEW w \in workers PROVE f[w] = (-B) * Awaits("grow")[w] /\ f[w] <= Money(t)[w]
    <3>1. f[w] = (-B) * Awaits("grow")[w]
      BY <1>1
    <3>2. /\ w.threads \in Nat /\ Money(t)[w] = MoneyRate(t, w) * w.threads
          /\ w \in Process /\ Taken \in Nat
      BY <1>1, Rates2, MoneyFigures
    <3>3. Awaits("grow")[w] = IF w.target = t /\ w.type = "grow" THEN w.threads ELSE 0
      BY <3>2
    <3>4. \A x, n \in Nat : (-x) * 0 = 0 /\ 0 * n = 0 /\ x * n >= 0 /\ (-x) * n <= 0 /\ (-x) * n <= 0 * n
      OBVIOUS
    <3>5. f[w] <= Money(t)[w]
      BY <1>1, <3>1, <3>2, <3>3, <3>4 DEF MoneyRate
    <3> QED BY <3>1, <3>5
  <2>2. -B \in Int
    BY <1>1
  <2> DEFINE c == -B
             a == Awaits("grow")
  <2>3. Values(f, workers) /\ SumFunctionOnSet(f, workers) = c * G
    <3>1. c \in Int /\ \A w \in workers : f[w] = c * a[w]
      BY <2>1, <2>2
    <3>2. Values(a, workers) /\ SumFunctionOnSet(a, workers) = G
      BY <1>4
    <3> HIDE DEF c, a, f, G, B
    <3> QED BY <1>1, <3>1, <3>2, SumTimes
  <2> HIDE DEF f, Awaits
  <2>4. SumFunctionOnSet(f, workers) <= M
    BY <1>1, <2>1, <2>3, SumMono
  <2>5. (-B) * G = -(B * G)
    BY <1>1, <1>4
  <2> QED BY <2>3, <2>4, <2>5
<1>8. -((25 * B) * W) <= B * U + 2 * M
  <2> DEFINE h == [w \in Process |-> B * Rise(t)[w] + 2 * Money(t)[w]]
             f == [w \in Process |-> (-(25 * B)) * Awaits("weaken")[w]]
  <2>1. \A w \in workers : /\ h[w] = B * Rise(t)[w] + 2 * Money(t)[w]
                           /\ f[w] = (-(25 * B)) * Awaits("weaken")[w]
    BY <1>1
  <2>2. ASSUME NEW w \in workers PROVE f[w] <= h[w]
    <3>1. /\ w.threads \in Nat /\ Money(t)[w] = MoneyRate(t, w) * w.threads
          /\ Rise(t)[w] = RiseRate(t, w) * w.threads /\ w.type \in Kind
          /\ w \in Process /\ Taken \in Nat
      BY <1>1, Rates2, MoneyFigures
    <3>2. Awaits("weaken")[w] = IF w.target = t /\ w.type = "weaken" THEN w.threads ELSE 0
      BY <3>1
    <3> DEFINE x == w.threads
               g == Taken
    <3>3. /\ B * (1 * x) + 2 * (g * x) >= 0 /\ B * (2 * x) + 2 * ((-B) * x) = 0
          /\ B * ((-25) * x) + 2 * (0 * x) = (-(25 * B)) * x
          /\ B * (0 * x) + 2 * (0 * x) = 0 /\ (-(25 * B)) * x <= 0 /\ (-(25 * B)) * 0 = 0
      <4> HIDE DEF x, g
      <4>0. x \in Nat /\ g \in Nat /\ B \in Nat
        BY <1>1, <3>1 DEF x, g
      <4>1. \A a, b \in Nat : a * b \in Nat
        OBVIOUS
      <4>2. B * (1 * x) \in Nat /\ 2 * (g * x) \in Nat
        BY <4>0, <4>1
      <4>3. B * (2 * x) + 2 * ((-B) * x) = 0 /\ B * ((-25) * x) + 2 * (0 * x) = (-(25 * B)) * x
        BY <4>0
      <4>4. (-(25 * B)) * x <= 0 /\ (-(25 * B)) * 0 = 0 /\ B * (0 * x) + 2 * (0 * x) = 0
        BY <4>0
      <4> QED BY <4>2, <4>3, <4>4
    <3>4. CASE w.target # t \/ w.tag \notin Batch
      <4>1. h[w] = B * (0 * x) + 2 * (0 * x)
        BY <2>1, <3>1, <3>4 DEF MoneyRate, RiseRate
      <4>2. f[w] = (-(25 * B)) * x \/ f[w] = (-(25 * B)) * 0
        BY <2>1, <3>2
      <4> HIDE DEF h, f, x, g, Awaits
      <4> QED BY <3>3, <4>1, <4>2
    <3>5. CASE w.target = t /\ w.tag \in Batch /\ w.type = "hack"
      <4>1. h[w] = B * (1 * x) + 2 * (g * x)
        BY <2>1, <3>1, <3>5 DEF MoneyRate, RiseRate, HackSecurity
      <4>2. f[w] = (-(25 * B)) * 0
        BY <2>1, <3>2, <3>5
      <4> HIDE DEF h, f, x, g, Awaits
      <4> QED BY <3>3, <4>1, <4>2
    <3>6. CASE w.target = t /\ w.tag \in Batch /\ w.type = "grow"
      <4>1. h[w] = B * (2 * x) + 2 * ((-B) * x)
        BY <2>1, <3>1, <3>6 DEF MoneyRate, RiseRate, GrowSecurity
      <4>2. f[w] = (-(25 * B)) * 0
        BY <2>1, <3>2, <3>6
      <4> HIDE DEF h, f, x, g, Awaits
      <4> QED BY <3>3, <4>1, <4>2
    <3>7. CASE w.target = t /\ w.tag \in Batch /\ w.type = "weaken"
      <4>1. h[w] = B * ((-25) * x) + 2 * (0 * x)
        BY <2>1, <3>1, <3>7 DEF MoneyRate, RiseRate, WeakenPower
      <4>2. f[w] = (-(25 * B)) * x
        BY <2>1, <3>2, <3>7
      <4>3. f[w] = h[w] /\ (-(25 * B)) * x \in Int
        BY <1>1, <3>1, <3>3, <4>1, <4>2
      <4> HIDE DEF h, f, x, g, Awaits
      <4> QED BY <4>2, <4>3
    <3> QED BY <3>1, <3>4, <3>5, <3>6, <3>7 DEF Kind
  <2>3. -(25 * B) \in Int /\ 2 \in Int /\ B \in Int
    BY <1>1
  <2> HIDE DEF f, h, Awaits
  <2> DEFINE c == -(25 * B)
             a == Awaits("weaken")
  <2>4. Values(f, workers) /\ SumFunctionOnSet(f, workers) = c * W
    <3>1. c \in Int /\ \A w \in workers : f[w] = c * a[w]
      BY <2>1, <2>3
    <3>2. Values(a, workers) /\ SumFunctionOnSet(a, workers) = W
      BY <1>5
    <3> HIDE DEF c, a, W, B
    <3> QED BY <1>1, <3>1, <3>2, SumTimes
  <2>5. Values(h, workers) /\ SumFunctionOnSet(h, workers) = B * U + 2 * M
    BY <1>1, <2>1, <2>3, SumLinear
  <2>6. SumFunctionOnSet(f, workers) <= SumFunctionOnSet(h, workers)
    BY <1>1, <2>2, <2>4, <2>5, SumMono
  <2>7. (-(25 * B)) * W = -((25 * B) * W)
    BY <1>1, <1>5
  <2> QED BY <2>4, <2>5, <2>6, <2>7
<1> HIDE DEF M, U, d, s, G, W, H, B, R, p
<1>9. d <= R + p * G
  <2>1. p * G \in Int /\ B * G = H * (p * G)
    BY <1>1, <1>4
  <2>2. H * (R + p * G) = H * R + H * (p * G) /\ H * d \in Int /\ H * R \in Int
        /\ H * (p * G) \in Int
    BY <1>1, <2>1, Product
  <2>3. H * d <= H * (R + p * G) /\ R + p * G \in Int
    BY <1>1, <1>6, <1>7, <2>1, <2>2
  <2> QED BY <1>1, <2>3, Product
<1>10. p * s <= p * (PrepTolerance + 25 * W) + 2 * R
  <2> DEFINE tol == PrepTolerance
             k == tol + 25 * W
  <2>1. k \in Int /\ tol \in Nat
    BY <1>5 DEF PrepTolerance
  <2>2. B * (s + U - tol) = B * s + B * U - B * tol
        /\ B * s \in Int /\ B * U \in Int /\ B * tol \in Int
    <3>1. B * ((s + U) - tol) = B * (s + U) - B * tol
          /\ B * (s + U) = B * s + B * U
      BY <1>1, <2>1, Product
    <3> QED BY <1>1, <2>1, <3>1, Product
  <2>3. B * k = B * tol + (25 * B) * W /\ (25 * B) * W \in Int /\ B * k \in Int
    <3>1. B * (tol + 25 * W) = B * tol + B * (25 * W)
      BY <1>1, <1>5, <2>1, Product
    <3>2. B * (25 * W) = (25 * B) * W /\ (25 * B) * W \in Int
      BY <1>1, <1>5
    <3> QED BY <1>1, <2>1, <3>1, <3>2, Product
  <2>4. H * d >= 0 /\ H * d \in Int /\ H * R \in Int
    <3>1. \A m, n \in Nat : m * n \in Nat
      OBVIOUS
    <3> QED BY <1>1, <3>1
  <2> HIDE DEF k, tol
  <2>5. B * s <= B * k + 2 * (H * R)
    BY <1>1, <1>6, <1>8, <2>2, <2>3, <2>4 DEF tol
  <2>6. B * s = H * (p * s) /\ B * k = H * (p * k) /\ p * s \in Int /\ p * k \in Int
    BY <1>1, <2>1
  <2>7. H * (p * k + 2 * R) = H * (p * k) + 2 * (H * R) /\ p * k + 2 * R \in Int
    <3>1. 2 * R \in Int /\ H * (2 * R) = 2 * (H * R)
      BY <1>1
    <3>2. H * (p * k + 2 * R) = H * (p * k) + H * (2 * R)
      BY <1>1, <2>6, <3>1, Product
    <3> QED BY <2>6, <3>1, <3>2
  <2>8. H * (p * s) <= H * (p * k + 2 * R)
    BY <2>5, <2>6, <2>7
  <2>9. p * s <= p * k + 2 * R
    BY <1>1, <2>6, <2>7, <2>8, Product
  <2> QED BY <2>9 DEF k, tol
<1> QED BY <1>9, <1>10 DEF d, s, G, W, R, p, WeakenPower, GrowSecurity

\* Owing and exceeding no more than before is no worse than before.
LEMMA Shift ==
    ASSUME NEW h \in Nat, NEW o \in Int, NEW e \in Int, NEW o2 \in Int, NEW e2 \in Int,
           o <= 0, h * e + 2 * o <= 0, o2 <= o, e2 <= e
    PROVE  o2 <= 0 /\ h * e2 + 2 * o2 <= 0
<1>1. h * e2 <= h * e /\ h * e \in Int /\ h * e2 \in Int
  BY Product
<1> QED BY <1>1

\* A grow of a batch has x threads, that restore money as q whole ones would at least.
LEMMA GrowArithmetic ==
    ASSUME NEW h \in Nat, NEW x \in Nat, NEW q \in Nat, NEW back \in Int, h * q <= back,
           NEW o \in Int, NEW e \in Int, NEW o2 \in Int, NEW e2 \in Int,
           o2 = o - back + h * x, e2 <= e - 2 * x + 2 * q, h * e + 2 * o <= 0
    PROVE  h * e2 + 2 * o2 <= 0
<1> DEFINE k == e - 2 * x + 2 * q
<1>1. k \in Int /\ 2 * x \in Int /\ 2 * q \in Int /\ e - 2 * x \in Int
  OBVIOUS
<1>2. h * e2 <= h * k
  <2>1. e2 <= k
    OBVIOUS
  <2> HIDE DEF k
  <2> QED BY <1>1, <2>1, Product
<1>3. h * k = h * e - 2 * (h * x) + 2 * (h * q)
  <2>1. h * (e - 2 * x + 2 * q) = h * (e - 2 * x) + h * (2 * q)
    BY <1>1, Product
  <2>2. h * (e - 2 * x) = h * e - h * (2 * x)
    BY <1>1, Product
  <2>3. h * (2 * x) = 2 * (h * x) /\ h * (2 * q) = 2 * (h * q)
    OBVIOUS
  <2> QED BY <2>1, <2>2, <2>3
<1>4. h * e \in Int /\ h * e2 \in Int /\ h * x \in Int /\ h * q \in Int
  OBVIOUS
<1> QED BY <1>2, <1>3, <1>4

LEMMA LandBalanced ==
    ASSUME TypeInv, Balanced(workers), NEW w \in workers, w.left = 0
    PROVE  Balanced(workers \ {w})
<1> DEFINE rest == workers \ {w}
<1>1. workers \in Crew /\ rest \in Crew /\ w \in Process /\ w.threads \in Nat
  BY CrewValues DEF TypeInv, Crew, Process
<1>2. ASSUME NEW t \in Target, NEW n \in Nat
      PROVE  /\ SumFunctionOnSet(Lead(t, n), rest) <= 0
             /\ SumFunctionOnSet(Raise(t, n), rest) <= 0
  <2> DEFINE f == Lead(t, n)
             g == Raise(t, n)
  <2>1. f[w] >= 0 /\ g[w] >= 0 /\ f[w] \in Int /\ g[w] \in Int
    <3>1. f[w] = LeadRate(t, n, w) * w.threads /\ g[w] = RaiseRate(t, n, w) * w.threads
      BY <1>1 DEF Lead, Raise
    <3>2. LeadRate(t, n, w) \in Nat /\ RaiseRate(t, n, w) \in Nat
      BY MoneyFigures DEF LeadRate, RaiseRate, HackSecurity, GrowSecurity
    <3>3. \A x, y \in Nat : x * y \in Nat
      OBVIOUS
    <3> HIDE DEF f, g
    <3> QED BY <1>1, <3>1, <3>2, <3>3
  <2>2. /\ IsFiniteSet(workers) /\ Values(f, workers) /\ Values(g, workers)
        /\ SumFunctionOnSet(f, workers) <= 0 /\ SumFunctionOnSet(g, workers) <= 0
    BY <1>1, WeightValues DEF Balanced
  <2>3. SumFunctionOnSet(f, rest) \in Int /\ SumFunctionOnSet(g, rest) \in Int
    BY <1>1, WeightValues
  <2> HIDE DEF f, g
  <2>4. /\ SumFunctionOnSet(f, workers) = f[w] + SumFunctionOnSet(f, rest)
        /\ SumFunctionOnSet(g, workers) = g[w] + SumFunctionOnSet(g, rest)
    BY <2>2, SumStep
  <2>5. SumFunctionOnSet(f, rest) <= 0 /\ SumFunctionOnSet(g, rest) <= 0
    BY <2>1, <2>2, <2>3, <2>4
  <2> QED BY <2>5 DEF f, g
<1> QED BY <1>2 DEF Balanced

\* An operation that takes effect leaves its target covered: a hack takes what it was
\* counted for, a grow or a weaken that finds less than it could restore leaves the
\* rest to nobody.
LEMMA LandCovers ==
    ASSUME TypeInv, HacksTagged, Bounded(workers), Balanced(workers),
           NEW w \in workers, Land(w), NEW t \in Target, phase[t] = "batch", Covered(t)
    PROVE  Fair(HackThreads * deficit'[t] + SumFunctionOnSet(Money(t), workers')
                  - HackThreads * Residue,
                security'[t] + SumFunctionOnSet(Rise(t), workers') - PrepTolerance)
<1> DEFINE H == HackThreads
           h == Back
           p == GrowPower
           R == H * Residue
           rest == workers \ {w}
           M == SumFunctionOnSet(Money(t), workers)
           U == SumFunctionOnSet(Rise(t), workers)
           M2 == SumFunctionOnSet(Money(t), rest)
           U2 == SumFunctionOnSet(Rise(t), rest)
           x == w.threads
           d == deficit[t]
           s == security[t]
           d2 == deficit'[t]
           s2 == security'[t]
           tol == PrepTolerance
           o == H * d + M - R
           e == s + U - tol
           o2 == H * d2 + M2 - R
           e2 == s2 + U2 - tol
<1>1. workers' = rest /\ w.left = 0
  BY DEF Land
<1>2. /\ workers \in Crew /\ rest \in Crew /\ w \in Process /\ x \in Nat /\ w.type \in Kind
      /\ w.target \in Target /\ d \in Nat /\ s \in Nat /\ tol \in Nat
      /\ H \in Nat /\ h \in Nat /\ p \in Nat /\ p > 0 /\ h = H * p /\ R \in Nat
      /\ Taken \in Nat /\ Taken * x \in Nat /\ h * x \in Nat
  <2>1. \A m, n \in Nat : m * n \in Nat
    OBVIOUS
  <2>2. workers \in Crew /\ rest \in Crew /\ w \in Process /\ x \in Nat
    BY CrewValues DEF TypeInv, Crew, Process
  <2>3. w.type \in Kind /\ w.target \in Target /\ d \in Nat /\ s \in Nat /\ tol \in Nat
    BY <2>2 DEF TypeInv, Process, PrepTolerance
  <2>4. /\ H \in Nat /\ h \in Nat /\ p \in Nat /\ p > 0 /\ h = H * p /\ R \in Nat
        /\ Taken \in Nat
    BY <2>1, MoneyFigures DEF Back
  <2>5. Taken * x \in Nat /\ h * x \in Nat
    <3> HIDE DEF x, h
    <3> QED BY <2>1, <2>2, <2>4
  <2> QED BY <2>2, <2>3, <2>4, <2>5
<1>3. /\ Money(t)[w] = MoneyRate(t, w) * x /\ Money(t)[w] \in Int
      /\ Rise(t)[w] = RiseRate(t, w) * x /\ Rise(t)[w] \in Int
  BY <1>2, Rates2
<1>4. /\ M = Money(t)[w] + M2 /\ U = Rise(t)[w] + U2
      /\ M \in Int /\ U \in Int /\ M2 \in Int /\ U2 \in Int
  <2>1. /\ IsFiniteSet(workers) /\ Values(Money(t), workers) /\ Values(Rise(t), workers)
        /\ M \in Int /\ U \in Int
    BY <1>2, CoverValues
  <2>2. M2 \in Int /\ U2 \in Int
    BY <1>2, CoverValues
  <2> QED BY <2>1, <2>2, SumStep
<1>5. M2 <= R /\ U2 <= 0
  <2>1. Balanced(rest) /\ Bounded(rest)
    BY <1>1, <1>2, LandBalanced, BoundedPart
  <2>2. M2 <= Leaked /\ U2 <= 0
    BY <1>2, <2>1, CoverValues
  <2>3. Leaked \in Int /\ Leaked <= R
    BY LeakedBound
  <2> QED BY <1>2, <1>4, <2>2, <2>3
<1>6. o <= 0 /\ h * e + 2 * o <= 0
  BY DEF Covered, Fair, Owed, Excess, GrowSecurity
<1>7. o \in Int /\ e \in Int /\ H * d \in Int
  BY <1>2, <1>4
<1> SUFFICES o2 <= 0 /\ h * e2 + 2 * o2 <= 0
  BY <1>1 DEF Fair, GrowSecurity
<1> HIDE DEF M, U, M2, U2, H, h, p, R, rest
<1>8. CASE w.target # t
  <2>1. d2 = d /\ s2 = s
    BY <1>2, <1>8 DEF Land, TypeInv
  <2>2. M2 = M /\ U2 = U
    <3>1. Money(t)[w] = 0 /\ Rise(t)[w] = 0
      BY <1>2, <1>3, <1>8 DEF MoneyRate, RiseRate
    <3> QED BY <1>4, <3>1
  <2> QED BY <1>6, <2>1, <2>2
<1>9. CASE w.target = t /\ w.type = "hack"
  <2>0. Theft(w) \in Nat /\ H * Theft(w) <= Taken * x /\ H * Theft(w) \in Int
    <3>1. w.tag \in Batch
      BY <1>9 DEF HacksTagged
    <3>2. Theft(w) \in Nat /\ H * Theft(w) <= Taken * x
      BY <1>2, <1>9, <3>1, TheftOK DEF H
    <3> QED BY <1>2, <3>2
  <2>1. M = Taken * x + M2 /\ U = x + U2
    <3>1. w.tag \in Batch
      BY <1>9 DEF HacksTagged
    <3>2. Money(t)[w] = Taken * x /\ Rise(t)[w] = 1 * x
      BY <1>3, <1>9, <3>1 DEF MoneyRate, RiseRate, HackSecurity
    <3> QED BY <1>2, <1>4, <3>2
  <2>2. d2 \in Nat /\ s2 \in Nat /\ H * d2 <= H * d + Taken * x /\ H * d2 \in Int /\ s2 <= s + x
    <3>1. CASE deficit' = deficit /\ security' = security
      BY <1>2, <1>7, <3>1
    <3>2. CASE /\ deficit' = [deficit EXCEPT ![t] = AtMost(MaxDeficit, @ + Theft(w))]
               /\ security' = [security EXCEPT ![t] = AtMost(MaxSecurity, @ + HackSecurity * x)]
      <4>1. d2 = AtMost(MaxDeficit, d + Theft(w)) /\ s2 = AtMost(MaxSecurity, s + HackSecurity * x)
        BY <3>2 DEF TypeInv
      <4>2. d2 \in Nat /\ s2 \in Nat /\ d2 <= d + Theft(w) /\ s2 <= s + x
        BY <1>2, <2>0, <4>1, LimitsAssumption DEF AtMost, HackSecurity
      <4>3. H * d2 <= H * (d + Theft(w)) /\ H * (d + Theft(w)) = H * d + H * Theft(w)
            /\ H * d2 \in Int
        BY <1>2, <2>0, <4>2, Product
      <4> QED BY <1>2, <1>7, <2>0, <4>2, <4>3
    <3> QED BY <1>9, <3>1, <3>2 DEF Land
  <2>3. o2 <= o /\ e2 <= e /\ o2 \in Int /\ e2 \in Int
    <3> HIDE DEF d, s, d2, s2, x, tol
    <3> QED BY <1>2, <1>4, <1>7, <2>1, <2>2
  <2> HIDE DEF o, e, o2, e2
  <2> QED BY <1>2, <1>6, <1>7, <2>3, Shift
<1>10. CASE w.target = t /\ w.type = "grow"
  <2> DEFINE y == AtMost(d, GrowPower * x)
             q == y \div GrowPower
  <2>1. /\ y \in Nat /\ y <= p * x /\ y <= d /\ (y = p * x \/ y = d)
        /\ q \in Nat /\ p * q <= y
    <3>1. p * x \in Nat
      <4>1. \A m, n \in Nat : m * n \in Nat
        OBVIOUS
      <4> QED BY <1>2, <4>1
    <3>2. y = AtMost(d, p * x) /\ q = y \div p
      BY DEF p
    <3> HIDE DEF y, q
    <3>3. y \in Nat /\ y <= p * x /\ y <= d /\ (y = p * x \/ y = d)
      BY <1>2, <3>1, <3>2 DEF AtMost
    <3>4. q \in Nat /\ p * q <= y
      <4>1. y \in Nat /\ p \in Nat \ {0}
        BY <1>2, <3>3
      <4>2. y \div p \in Nat /\ p * (y \div p) <= y
        BY <4>1, Quotient, Zenon
      <4> QED BY <3>2, <4>2
    <3> QED BY <3>3, <3>4
  <2>2. d2 = d - y /\ s2 = AtMost(MaxSecurity, s + GrowSecurity * q)
    BY <1>2, <1>10 DEF Land, TypeInv
  <2>3. d2 \in Nat /\ s2 \in Nat /\ s2 <= s + 2 * q
    <3> HIDE DEF y, q
    <3> QED BY <1>2, <2>1, <2>2, LimitsAssumption DEF AtMost, GrowSecurity
  <2> HIDE DEF y, q, d, s, d2, s2, x, tol
  <2>4. /\ H * d2 = H * d - H * y /\ H * d \in Int /\ H * y \in Int /\ H * d2 \in Int
        /\ h * q <= H * y /\ (y = p * x => H * y = h * x)
    <3>1. H * (d - y) = H * d - H * y /\ H * d \in Int /\ H * y \in Int
      <4>1. H \in Nat /\ d \in Int /\ y \in Int
        BY <1>2, <2>1
      <4> QED BY <4>1, Product, Zenon
    <3>2. H * (p * q) <= H * y
      <4>1. H \in Nat /\ p * q \in Int /\ y \in Int /\ p * q <= y
        BY <1>2, <2>1
      <4> QED BY <4>1, Product, Zenon
    <3>3. \A k \in Nat : H * (p * k) = (H * p) * k
      BY <1>2
    <3>4. H * (p * q) = h * q /\ H * (p * x) = h * x
      BY <1>2, <2>1, <3>3
    <3> QED BY <2>2, <3>1, <3>2, <3>4
  <2>5. CASE w.tag \in Batch
    <3>1. M = M2 - h * x /\ U = 2 * x + U2
      <4>1. Money(t)[w] = (-h) * x /\ Rise(t)[w] = 2 * x
        BY <1>3, <1>10, <2>5 DEF MoneyRate, RiseRate, GrowSecurity, h
      <4>2. (-h) * x = -(h * x)
        BY <1>2
      <4> QED BY <1>2, <1>4, <4>1, <4>2
    <3>2. o2 <= 0
      <4>1. CASE y = p * x
        BY <1>2, <1>4, <1>6, <2>4, <3>1, <4>1
      <4>2. CASE y = d
        BY <1>2, <1>4, <1>5, <2>4, <4>2
      <4> QED BY <2>1, <4>1, <4>2
    <3>3. /\ e2 <= e - 2 * x + 2 * q /\ e2 \in Int
          /\ o2 = o - H * y + h * x /\ o2 \in Int
      BY <1>2, <1>4, <2>1, <2>3, <2>4, <3>1
    <3> HIDE DEF o, e, o2, e2
    <3>4. h * e2 + 2 * o2 <= 0
      <4> DEFINE back == H * y
      <4>1. /\ h \in Nat /\ x \in Nat /\ q \in Nat /\ back \in Int /\ h * q <= back
            /\ o \in Int /\ e \in Int /\ o2 \in Int /\ e2 \in Int /\ h * e + 2 * o <= 0
            /\ e2 <= e - 2 * x + 2 * q /\ o2 = o - back + h * x
        BY <1>2, <1>6, <1>7, <2>1, <2>4, <3>3
      <4> HIDE DEF back
      <4> QED BY <4>1, GrowArithmetic
    <3> QED BY <3>2, <3>4
  <2>6. CASE w.tag \notin Batch
    <3>1. M2 = M /\ U2 = U
      <4>1. Money(t)[w] = 0 /\ Rise(t)[w] = 0
        BY <1>2, <1>3, <2>6 DEF MoneyRate, RiseRate
      <4> QED BY <1>4, <4>1
    <3>2. o2 = o - H * y /\ o2 \in Int /\ o2 <= 0
      <4>1. H * y >= 0
        <5>1. \A m, n \in Nat : m * n >= 0
          OBVIOUS
        <5> QED BY <1>2, <2>1, <5>1
      <4>2. /\ H * d2 = H * d - H * y /\ H * d \in Int /\ H * d2 \in Int /\ H * y \in Int
            /\ M2 = M /\ M \in Int /\ R \in Int /\ o <= 0
        BY <1>2, <1>4, <1>6, <2>4, <3>1
      <4> QED BY <4>1, <4>2
    <3>3. e2 <= e + 2 * q /\ e2 \in Int
      BY <1>2, <1>4, <2>1, <2>3, <3>1
    <3> HIDE DEF o, e, o2, e2
    <3>4. h * e2 <= h * e + 2 * (h * q) /\ h * e2 \in Int /\ h * e \in Int /\ h * q \in Int
      <4>1. e + 2 * q \in Int /\ 2 * q \in Int
        BY <1>7, <2>1
      <4>2. h * e2 <= h * (e + 2 * q) /\ h * (e + 2 * q) = h * e + h * (2 * q)
            /\ h * e2 \in Int /\ h * e \in Int
        BY <1>2, <1>7, <3>3, <4>1, Product
      <4>3. h * (2 * q) = 2 * (h * q) /\ h * q \in Int
        BY <1>2, <2>1
      <4> QED BY <4>2, <4>3
    <3> QED BY <1>6, <1>7, <2>4, <3>2, <3>4
  <2> QED BY <2>5, <2>6
<1>11. CASE w.target = t /\ w.type = "weaken"
  <2>1. d2 = d /\ s2 = AtLeast(0, s - WeakenPower * x)
    BY <1>2, <1>11 DEF Land, TypeInv
  <2>2. M2 = M /\ (U2 = U + 25 * x \/ U2 = U)
    <3>1. Money(t)[w] = 0 /\ (Rise(t)[w] = (-25) * x \/ Rise(t)[w] = 0)
      BY <1>2, <1>3, <1>11 DEF MoneyRate, RiseRate, WeakenPower
    <3>2. M = Money(t)[w] + M2 /\ U = Rise(t)[w] + U2 /\ M2 \in Int /\ U2 \in Int /\ x \in Nat
      BY <1>2, <1>4
    <3> QED BY <3>1, <3>2
  <2>3. s2 \in Nat /\ (s2 = s - 25 * x \/ (s2 = 0 /\ s - 25 * x < 0))
    BY <1>2, <2>1 DEF AtLeast, WeakenPower
  <2>4. o2 = o
    BY <2>1, <2>2
  <2> HIDE DEF d, s, d2, s2, x, tol, o, o2
  <2>5. CASE s2 = s - 25 * x
    <3>1. e2 <= e /\ e2 \in Int
      BY <1>2, <1>4, <2>2, <2>5
    <3> HIDE DEF e, e2
    <3> QED BY <1>2, <1>6, <1>7, <2>4, <3>1, Shift
  <2>6. CASE s2 = 0
    <3>1. e2 <= 0 /\ e2 \in Int
      BY <1>2, <1>4, <1>5, <2>6
    <3>2. h * e2 <= 0 /\ h * e2 \in Int
      <4> HIDE DEF e2
      <4>1. h * e2 <= H * 0 /\ H * 0 = 0 /\ h * e2 \in Int
        BY <1>2, <3>1, Product
      <4> QED BY <4>1
    <3> HIDE DEF e2
    <3> QED BY <1>6, <1>7, <2>4, <3>2
  <2> QED BY <2>3, <2>5, <2>6
<1> QED BY <1>2, <1>8, <1>9, <1>10, <1>11 DEF Kind

\* A cycle takes whole batches in, and leaves what it keeps of a target as it was.
LEMMA CycleCovers ==
    ASSUME TypeInv, Bounded(workers), Balanced(workers), NEW phases, NEW slots,
           NEW R \in SUBSET Target, NEW P \in Crew, Cycled(phases, slots, R, P),
           \A t \in Target : phases[t] = "batch" => IsTargetPrepped(t) \/ phase[t] = "batch",
           \A t \in Target : Covered(t)
    PROVE  Balanced(workers') /\ \A t \in Target : Covered(t)'
<1> DEFINE S == Remaining(R)
           Q == P \ S
<1>1. /\ workers \in Crew /\ S \in SUBSET workers /\ S \in Crew /\ Q \in SUBSET P /\ Q \in Crew
      /\ workers' = S \cup Q /\ S \cap Q = {}
  <2>1. S \in SUBSET workers
    BY DEF Remaining
  <2>2. workers' = S \cup P
    BY DEF Cycled
  <2> HIDE DEF S
  <2> QED BY <2>1, <2>2, CrewValues DEF TypeInv
<1>2. Balanced(S)
  <2>1. /\ \A w \in workers \ S : w.tag \notin Batch \/ w.target \in R
        /\ \A w \in S : w.tag \in Batch => w.target \notin R
    BY DEF Remaining
  <2> HIDE DEF S
  <2> QED BY <1>1, <2>1, BalancedOthers
<1>3. Balanced(Q)
  <2>1. \A w \in P \ Q : w.tag \notin Batch
    BY DEF Cycled
  <2>2. /\ \A w \in P \ Q : w.tag \notin Batch \/ w.target \in {}
        /\ \A w \in Q : w.tag \in Batch => w.target \notin {}
    BY <2>1
  <2>3. Balanced(P)
    BY DEF Cycled
  <2> HIDE DEF Q
  <2> QED BY <1>1, <2>2, <2>3, BalancedOthers
<1>4. Balanced(S \cup Q)
  BY <1>1, <1>2, <1>3, BalancedUnion
<1>5. S \cup Q \in Crew /\ Bounded(S \cup Q)
  <2>1. Bounded(workers')
    BY CycleBounded
  <2>2. S \cup Q \in Crew
    BY <1>1, FS_Union DEF Crew
  <2> HIDE DEF S, Q
  <2> QED BY <1>1, <2>1, <2>2
<1>6. /\ deficit' = deficit /\ security' = security
      /\ \A t \in Target : phase'[t] = "batch" => \/ IsTargetPrepped(t)
                                                  \/ phase[t] = "batch" /\ t \notin R
  BY DEF Cycled
<1>7. ASSUME NEW t \in Target, phase'[t] = "batch"
      PROVE  Fair(HackThreads * deficit[t] + SumFunctionOnSet(Money(t), S \cup Q)
                    - HackThreads * Residue,
                  security[t] + SumFunctionOnSet(Rise(t), S \cup Q) - PrepTolerance)
  <2> DEFINE H == HackThreads
             h == Back
             M2 == SumFunctionOnSet(Money(t), S \cup Q)
             U2 == SumFunctionOnSet(Rise(t), S \cup Q)
             d == deficit[t]
             s == security[t]
             owes == H * Residue
             o2 == H * d + M2 - owes
             e2 == s + U2 - PrepTolerance
  <2>1. /\ M2 \in Int /\ U2 \in Int /\ M2 <= Leaked /\ U2 <= 0
        /\ d \in Nat /\ s \in Nat /\ H \in Nat /\ H * d \in Int /\ PrepTolerance \in Nat
        /\ owes \in Int /\ h \in Nat
    <3>1. M2 \in Int /\ U2 \in Int /\ M2 <= Leaked /\ U2 <= 0
      BY <1>4, <1>5, CoverValues
    <3>2. \A m, n \in Nat : m * n \in Nat
      OBVIOUS
    <3> QED BY <3>1, <3>2, MoneyFigures DEF TypeInv, PrepTolerance
  <2>2. CASE IsTargetPrepped(t)
    <3>1. d <= MoneyTolerance /\ s <= PrepTolerance
      BY <2>2 DEF IsTargetPrepped
    <3>2. H * d <= H * MoneyTolerance
      BY <2>1, <3>1, MoneyFigures, Product
    <3>3. Leaked \in Int /\ H * MoneyTolerance \in Nat /\ owes = H * MoneyTolerance + Leaked
      BY LeakedBound
    <3> HIDE DEF M2, U2, d, s, H, h, owes
    <3>4. o2 <= 0 /\ e2 <= 0 /\ o2 \in Int /\ e2 \in Int
      <4>1. o2 <= 0 /\ o2 \in Int
        BY <2>1, <3>2, <3>3
      <4> QED BY <2>1, <3>1, <4>1
    <3> HIDE DEF o2, e2
    <3>5. h * e2 <= 0 /\ h * e2 \in Int
      <4>1. h * e2 <= h * 0 /\ h * 0 = 0 /\ h * e2 \in Int
        BY <2>1, <3>4, Product
      <4> QED BY <4>1
    <3>6. o2 <= 0 /\ h * e2 + 2 * o2 <= 0
      BY <3>4, <3>5
    <3> QED BY <3>6 DEF o2, e2, M2, U2, d, s, H, h, owes, GrowSecurity, Fair
  <2>3. CASE ~IsTargetPrepped(t)
    <3>0. phase[t] = "batch" /\ t \notin R
      BY <1>6, <1>7, <2>3
    <3> DEFINE M == SumFunctionOnSet(Money(t), workers)
               U == SumFunctionOnSet(Rise(t), workers)
               o == H * d + M - owes
               e == s + U - PrepTolerance
    <3>1. M2 = M /\ U2 = U /\ M \in Int /\ U \in Int
      <4> DEFINE f == Money(t)
                 g == Rise(t)
                 gone == workers \ S
      <4>1. gone \in SUBSET workers /\ gone \in Crew /\ workers \subseteq Process
        <5>1. gone \in SUBSET workers
          OBVIOUS
        <5> HIDE DEF gone
        <5> QED BY <1>1, <5>1, CrewValues
      <4>2. \A w \in gone : f[w] = 0 /\ g[w] = 0
        <5>1. \A w \in gone : w.target # t /\ w \in Process
          BY <3>0, <4>1 DEF Remaining
        <5>2. \A n \in Nat : 0 * n = 0
          OBVIOUS
        <5> QED BY <5>1, <5>2, Rates2 DEF MoneyRate, RiseRate
      <4>3. /\ IsFiniteSet(workers) /\ Values(f, workers) /\ Values(g, workers)
            /\ M \in Int /\ U \in Int
        BY <1>1, CoverValues
      <4>4. IsFiniteSet(gone) /\ Values(f, gone) /\ Values(g, gone)
        BY <4>1, CoverValues
      <4>5. /\ IsFiniteSet(S) /\ Values(f, S) /\ Values(g, S)
            /\ SumFunctionOnSet(f, S) \in Int /\ SumFunctionOnSet(g, S) \in Int
        BY <1>1, CoverValues
      <4>6. /\ IsFiniteSet(Q) /\ Values(f, Q) /\ Values(g, Q)
            /\ \A w \in Q : f[w] = 0 /\ g[w] = 0
        <5>1. IsFiniteSet(Q) /\ Values(f, Q) /\ Values(g, Q)
          BY <1>1, CoverValues
        <5>2. RunningBatches(P, t) = {}
          BY <2>3 DEF Cycled, Launched
        <5>3. \A w \in Q : w \in Process /\ (w.target # t \/ w.tag \notin Batch)
          BY <1>1, <5>2, CrewValues DEF RunningBatches, WorkersOf
        <5>4. \A n \in Nat : 0 * n = 0
          OBVIOUS
        <5>5. \A w \in Q : f[w] = 0 /\ g[w] = 0
          BY <5>3, <5>4, Rates2 DEF MoneyRate, RiseRate
        <5> QED BY <5>1, <5>5
      <4>7. S \in SUBSET workers /\ S \cap Q = {} /\ gone = workers \ S
        BY <1>1
      <4> HIDE DEF f, g, gone, S, Q
      <4>8. /\ SumFunctionOnSet(f, gone) = 0 /\ SumFunctionOnSet(g, gone) = 0
            /\ SumFunctionOnSet(f, Q) = 0 /\ SumFunctionOnSet(g, Q) = 0
        BY <4>2, <4>4, <4>6, SumZero
      <4>9. /\ SumFunctionOnSet(f, workers) = SumFunctionOnSet(f, S) + SumFunctionOnSet(f, gone)
            /\ SumFunctionOnSet(g, workers) = SumFunctionOnSet(g, S) + SumFunctionOnSet(g, gone)
        BY <4>3, <4>7, SumSplit
      <4>10. /\ SumFunctionOnSet(f, S \cup Q) = SumFunctionOnSet(f, S) + SumFunctionOnSet(f, Q)
             /\ SumFunctionOnSet(g, S \cup Q) = SumFunctionOnSet(g, S) + SumFunctionOnSet(g, Q)
        BY <4>5, <4>6, <4>7, SumUnion
      <4> QED BY <4>3, <4>5, <4>8, <4>9, <4>10 DEF f, g
    <3>2. Fair(o, e)
      BY <3>0 DEF Covered, Owed, Excess
    <3> HIDE DEF M, U, M2, U2
    <3> QED BY <3>1, <3>2 DEF M2, U2
  <2> QED BY <1>6, <1>7, <2>2, <2>3
<1>8. \A t \in Target : Covered(t)'
  <2> HIDE DEF S, Q
  <2> QED BY <1>1, <1>6, <1>7 DEF Covered, Owed, Excess
<1> QED BY <1>1, <1>4, <1>8

\* Time that passes changes no sum: all are still to land, in the same order.
LEMMA ElapseCovers ==
    ASSUME TypeInv, Elapse, Balanced(workers), \A t \in Target : Covered(t)
    PROVE  Balanced(workers') /\ \A t \in Target : Covered(t)'
<1> DEFINE Q == {Aged(w) : w \in workers}
<1>1. workers' = Q /\ \A w \in workers : w.left > 0
  BY DEF Elapse, Aged
<1>2. workers \in Crew /\ \A w \in workers : w \in Process
  BY CrewValues DEF TypeInv
<1>3. \A w \in workers : /\ Aged(w) \in Process /\ Aged(w).left = w.left - 1 /\ w.left \in Nat
                         /\ Aged(w).type = w.type /\ Aged(w).target = w.target
                         /\ Aged(w).tag = w.tag /\ Aged(w).threads = w.threads
  BY <1>1, <1>2, AgedOK DEF Process
<1>4. ASSUME NEW t \in Target, NEW n \in Nat
      PROVE  /\ SumFunctionOnSet(Lead(t, n), Q) <= 0
             /\ SumFunctionOnSet(Raise(t, n), Q) <= 0
  <2> DEFINE f == Lead(t, n + 1)
             g == Raise(t, n + 1)
             f2 == Lead(t, n)
             g2 == Raise(t, n)
  <2>1. n + 1 \in Nat
    OBVIOUS
  <2>2. /\ \A w \in workers : LeadRate(t, n, Aged(w)) = LeadRate(t, n + 1, w)
        /\ \A w \in workers : RaiseRate(t, n, Aged(w)) = RaiseRate(t, n + 1, w)
    BY <1>3 DEF LeadRate, RaiseRate
  <2>3. \A w \in workers : f2[Aged(w)] = f[w] /\ g2[Aged(w)] = g[w]
    BY <1>2, <1>3, <2>2 DEF Lead, Raise
  <2>4. /\ Values(f, workers) /\ Values(g, workers)
        /\ SumFunctionOnSet(f, workers) <= 0 /\ SumFunctionOnSet(g, workers) <= 0
    BY <1>2, <2>1, WeightValues DEF Balanced
  <2> HIDE DEF f, g, f2, g2
  <2>5. SumFunctionOnSet(f2, Q) = SumFunctionOnSet(f, workers)
    BY <1>1, <1>2, <2>3, <2>4, AgedSum
  <2>6. SumFunctionOnSet(g2, Q) = SumFunctionOnSet(g, workers)
    BY <1>1, <1>2, <2>3, <2>4, AgedSum
  <2> QED BY <2>4, <2>5, <2>6 DEF f2, g2
<1>5. ASSUME NEW t \in Target
      PROVE  /\ SumFunctionOnSet(Money(t), Q) = SumFunctionOnSet(Money(t), workers)
             /\ SumFunctionOnSet(Rise(t), Q) = SumFunctionOnSet(Rise(t), workers)
  <2> DEFINE f == Money(t)
             g == Rise(t)
  <2>1. \A w \in workers : f[Aged(w)] = f[w] /\ g[Aged(w)] = g[w]
    BY <1>2, <1>3 DEF Money, MoneyRate, Rise, RiseRate
  <2>2. Values(f, workers) /\ Values(g, workers)
    BY <1>2, CoverValues
  <2> HIDE DEF f, g
  <2>3. SumFunctionOnSet(f, Q) = SumFunctionOnSet(f, workers)
    BY <1>1, <1>2, <2>1, <2>2, AgedSum
  <2>4. SumFunctionOnSet(g, Q) = SumFunctionOnSet(g, workers)
    BY <1>1, <1>2, <2>1, <2>2, AgedSum
  <2> QED BY <2>3, <2>4 DEF f, g
<1>6. phase' = phase /\ deficit' = deficit /\ security' = security
  BY DEF Elapse
<1> HIDE DEF Q
<1>7. Balanced(Q)
  BY <1>4 DEF Balanced
<1>8. \A t \in Target : Covered(t)'
  BY <1>1, <1>5, <1>6 DEF Covered, Owed, Excess
<1> QED BY <1>1, <1>7, <1>8

---------------------------------------------------------------------------
(* The invariant *)

LEMMA BatchStart == Init => BatchInv
<1> SUFFICES ASSUME Init PROVE BatchInv
  OBVIOUS
<1>1. TypeInv /\ workers = {} /\ {} \in Crew
  BY TypeStart, FS_EmptySet DEF Init, Crew
<1>2. HostsHaveRoom
  <2>1. ASSUME NEW s \in Server PROVE UsedRam(workers, s) <= AtLeast(0, MaxRam[s] - Reserved(s))
    <3>1. UsedRam({}, s) = 0
      <4>1. {w \in {} : w.server = s} = {}
        OBVIOUS
      <4> QED BY <1>1, <4>1, UsedRamIs, SumEmpty
    <3>2. MaxRam[s] - Reserved(s) \in Int
      BY ServersAssumption DEF Reserved
    <3> QED BY <1>1, <3>1, <3>2 DEF AtLeast
  <2> QED BY <2>1 DEF HostsHaveRoom
<1>3. Balanced(workers)
  BY <1>1, SumEmpty DEF Balanced
<1>4. \A t \in Target : phase[t] = "prep"
  BY DEF Init
<1>5. Bounded(workers)
  <2>1. \A b \in Batch : HacksOf({}, b) = {}
    BY DEF HacksOf
  <2>2. \A t \in Target : Running({}, t) = 0
    <3>1. \A t \in Target : RunningBatches({}, t) = {}
      BY DEF RunningBatches, WorkersOf
    <3> QED BY <3>1, FS_EmptySet DEF Running
  <2>3. \A b \in Batch : SumFunctionOnSet(ThreadCount, HacksOf({}, b)) = 0
    BY <2>1, SumEmpty
  <2> QED BY <1>1, <2>2, <2>3, MoneyFigures DEF Bounded
<1> QED BY <1>1, <1>2, <1>3, <1>4, <1>5 DEF BatchInv, HacksTagged, Covered

LEMMA TagsNext == TypeInv /\ HacksTagged /\ [Next]_vars => HacksTagged'
<1> SUFFICES ASSUME TypeInv, HacksTagged, [Next]_vars PROVE HacksTagged'
  OBVIOUS
<1>1. ASSUME NEW phases \in [Target -> {"prep", "batch"}], NEW map, Cycle(phases, map)
      PROVE  HacksTagged'
  <2>1. PICK slots \in SlotOrders, R \in SUBSET Target, P \in Crew : Cycled(phases, slots, R, P)
    BY <1>1, CycleOK
  <2> QED BY <2>1 DEF Cycled, HacksTagged, Remaining
<1>2. ASSUME \A w \in workers' : \E v \in workers : w.type = v.type /\ w.tag = v.tag
      PROVE  HacksTagged'
  BY <1>2 DEF HacksTagged
<1>3. CASE Wake
  <2>1. phase \in [Target -> {"prep", "batch"}] /\ Cycle(phase, due)
    BY <1>3 DEF Wake, TypeInv
  <2> QED BY <1>1, <2>1
<1>4. CASE Start
  <2> DEFINE phases == [t \in Target |-> IF IsTargetPrepped(t) THEN "batch" ELSE "prep"]
  <2>1. phases \in [Target -> {"prep", "batch"}] /\ Cycle(phases, ReconstructBatchState)
    BY <1>4 DEF Start
  <2> HIDE DEF phases
  <2> QED BY <1>1, <2>1
<1>5. CASE Stop
  BY <1>2, <1>5 DEF Stop
<1>6. CASE Elapse
  <2>1. workers' = {Aged(w) : w \in workers} /\ \A w \in workers : w.left > 0
    BY <1>6 DEF Elapse, Aged
  <2>2. \A w \in workers : Aged(w).tag = w.tag /\ Aged(w).type = w.type
    BY <2>1, AgedOK, CrewValues DEF TypeInv
  <2> QED BY <1>2, <2>1, <2>2
<1>7. ASSUME NEW w \in workers, Land(w) PROVE HacksTagged'
  BY <1>2, <1>7 DEF Land
<1>8. ASSUME NEW w \in workers, KillWorker(w) PROVE HacksTagged'
  BY <1>2, <1>8 DEF KillWorker
<1>9. CASE UNCHANGED vars
  BY <1>2, <1>9 DEF vars
<1> QED BY <1>3, <1>4, <1>5, <1>6, <1>7, <1>8, <1>9 DEF Next

\* As long as nobody kills a worker, batches stay balanced and targets covered.
LEMMA CoversNext ==
    ASSUME TypeInv, HacksTagged, Bounded(workers), Balanced(workers),
           \A t \in Target : Covered(t), [Next]_vars, killed = 0, killed' = 0
    PROVE  Balanced(workers') /\ \A t \in Target : Covered(t)'
<1>1. ASSUME NEW phases \in [Target -> {"prep", "batch"}], NEW map, Cycle(phases, map),
             \A t \in Target : phases[t] = "batch" => IsTargetPrepped(t) \/ phase[t] = "batch"
      PROVE  Balanced(workers') /\ \A t \in Target : Covered(t)'
  <2>1. PICK slots \in SlotOrders, R \in SUBSET Target, P \in Crew : Cycled(phases, slots, R, P)
    BY <1>1, CycleOK
  <2> QED BY <1>1, <2>1, CycleCovers
<1>2. CASE Wake
  <2>1. phase \in [Target -> {"prep", "batch"}] /\ Cycle(phase, due)
    BY <1>2 DEF Wake, TypeInv
  <2> QED BY <1>1, <2>1
<1>3. CASE Start
  <2> DEFINE phases == [t \in Target |-> IF IsTargetPrepped(t) THEN "batch" ELSE "prep"]
  <2>1. /\ phases \in [Target -> {"prep", "batch"}] /\ Cycle(phases, ReconstructBatchState)
        /\ \A t \in Target : phases[t] = "batch" => IsTargetPrepped(t)
    BY <1>3 DEF Start
  <2> HIDE DEF phases
  <2> QED BY <1>1, <2>1
<1>4. CASE Stop
  <2>1. workers' = workers /\ \A t \in Target : phase'[t] = "prep"
    BY <1>4 DEF Stop
  <2> QED BY <2>1 DEF Covered, Balanced
<1>5. CASE Elapse
  BY <1>5, ElapseCovers
<1>6. ASSUME NEW w \in workers, Land(w)
      PROVE  Balanced(workers') /\ \A t \in Target : Covered(t)'
  <2>1. workers' = workers \ {w} /\ w.left = 0 /\ phase' = phase
    BY <1>6 DEF Land
  <2>2. Balanced(workers')
    BY <2>1, LandBalanced
  <2>3. ASSUME NEW t \in Target, phase[t] = "batch"
        PROVE  Fair(HackThreads * deficit'[t] + SumFunctionOnSet(Money(t), workers')
                      - HackThreads * Residue,
                    security'[t] + SumFunctionOnSet(Rise(t), workers') - PrepTolerance)
    BY <1>6, <2>3, LandCovers
  <2>4. \A t \in Target : Covered(t)'
    BY <2>1, <2>3 DEF Covered, Owed, Excess
  <2> QED BY <2>2, <2>4
<1>7. ASSUME NEW w \in workers, KillWorker(w) PROVE FALSE
  BY <1>7 DEF KillWorker
<1>8. CASE UNCHANGED vars
  BY <1>8 DEF vars, Covered, Owed, Excess, Balanced
<1> QED BY <1>2, <1>3, <1>4, <1>5, <1>6, <1>7, <1>8 DEF Next

LEMMA BatchStep == BatchInv /\ [Next]_vars => BatchInv'
<1> SUFFICES ASSUME BatchInv, [Next]_vars PROVE BatchInv'
  OBVIOUS
<1>1. TypeInv /\ HostsHaveRoom /\ HacksTagged /\ Bounded(workers)
  BY DEF BatchInv
<1>2. TypeInv' /\ HostsHaveRoom' /\ HacksTagged'
  <2>1. TypeInv'
    BY <1>1, TypeNext
  <2> QED BY <1>1, <2>1, RoomNext, TagsNext
<1>3. killed' = 0 => killed = 0
  <2>1. killed \in Nat /\ (killed' = killed \/ killed' = killed + 1)
    BY <1>1 DEF TypeInv, Next, Wake, Start, Stop, Elapse, Land, KillWorker, vars, faults
  <2> QED BY <2>1
<1>4. ASSUME killed' = 0 PROVE Balanced(workers') /\ \A t \in Target : Covered(t)'
  <2>1. Balanced(workers) /\ \A t \in Target : Covered(t)
    BY <1>3, <1>4 DEF BatchInv
  <2> QED BY <1>1, <1>3, <1>4, <2>1, CoversNext
<1>5. (Balanced(workers)' <=> Balanced(workers')) /\ (Bounded(workers)' <=> Bounded(workers'))
  BY DEF Balanced, Bounded, Running, RunningBatches, WorkersOf, HacksOf
<1>6. Bounded(workers')
  BY <1>1, BoundedNext
<1> QED BY <1>2, <1>4, <1>5, <1>6 DEF BatchInv

\* The inductive invariant: types, room on the hosts, the bounds of batches and
\* pipelines, and while no worker has been killed, sums over the workers still to land
\* that bound what targets lack.
THEOREM BatchInvAlways == Spec => []BatchInv
BY BatchStart, BatchStep, PTL DEF Spec

\* What a target lacks is restored by workers still to land, but for the tolerance and
\* what a pipeline of batches takes more than it restores (TheftsCovered): the order
\* that CalculateBatchDelays gives the operations keeps this for all times, thread
\* counts, thefts and powers of a grow thread, across restarts, prep work and grows that
\* find less to restore, and since only prepped targets get batches what is not
\* restored does not add up.
THEOREM TheftsAlwaysCovered == Spec => []TheftsCovered
<1>1. BatchInv => TheftsCovered
  BY CoveredOK DEF BatchInv, TheftsCovered
<1> QED BY <1>1, BatchInvAlways, PTL

\* No host is overcommitted and exec refuses no worker (HostsHaveRoom), however many
\* hosts there are and however prep work, batches and batches taken back share them.
THEOREM HostsAlwaysHaveRoom == Spec => []HostsHaveRoom
<1>1. BatchInv => HostsHaveRoom
  BY DEF BatchInv
<1> QED BY <1>1, BatchInvAlways, PTL

\* A batch is started with all threads of its four operations or not at all
\* (WholeBatches): allocateBatch takes back what it placed of one that does not fit.
THEOREM BatchesAreWhole == Spec => WholeBatches
<1>1. BatchInv /\ [Next]_vars => [WholeAction]_vars
  BY WholeNext DEF BatchInv
<1> QED BY <1>1, BatchInvAlways, PTL DEF Spec, WholeBatches, WholeAction
=============================================================================
