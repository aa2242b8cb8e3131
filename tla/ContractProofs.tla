--------------------------- MODULE ContractProofs ---------------------------
(***************************************************************************)
(* What TLAPS proves of Contracts, for any files, hosts, types, problems   *)
(* and verdicts: which tries the daemon may spend on a contract, and what  *)
(* its published list says, whatever attempts are forced meanwhile.        *)
(***************************************************************************)
EXTENDS Contracts, FoldTheorems, SequenceTheorems

---------------------------------------------------------------------------
(* What a cycle works on *)

Kind == Type \cup {"unborn", "gone"}
Data == {0} \cup UNION {Problems(t) \cup Standing(t) : t \in Type}
Slip == (Type \X Nat \X Data \X BOOLEAN) \cup {Unborn, Gone}
Result == [file : File, type : Kind, success : BOOLEAN]
Count == [scan : Nat, forced : Nat]
Reason == {"previously failed", "no solver", "low tries", "solver error"}
Store == [shelf : [File -> Slip], attempted : SUBSET File, recent : Seq(Result),
          pending : SUBSET (File \X Reason), spent : [File -> Count]]
Nothing == [scan |-> 0, forced |-> 0]

LEMMA Slips ==
    /\ Unborn \in Slip /\ Gone \in Slip
    /\ TriesOf(Gone) = 0 /\ Verdict(Gone) = FALSE /\ TriesOf(Unborn) = 0
    /\ \A t \in Type : \A d \in Problems(t) \cup Standing(t) : Contract(t, d) \in Slip
    /\ \A c \in Slip : /\ TypeOf(c) \in Kind /\ TriesOf(c) \in Nat /\ DataOf(c) \in Data
                       /\ Verdict(c) \in BOOLEAN /\ TypeOf(Unborn) = "unborn"
                       /\ (TypeOf(c) = "unborn" => c = Unborn)
                       /\ (TriesOf(c) > 0 => TypeOf(c) \in Type)
<1>1. ASSUME NEW t \in Type, NEW d \in Problems(t) \cup Standing(t)
      PROVE  Contract(t, d) \in Slip
  <2>1. d \in Data /\ FirstTries \in Nat /\ Accepted(t, d) \in BOOLEAN
    BY ContractsAssumption, TypesAssumption DEF Data
  <2> QED BY <2>1 DEF Contract, Slip
<1>2. ASSUME NEW c \in Slip
      PROVE  /\ TypeOf(c) \in Kind /\ TriesOf(c) \in Nat /\ DataOf(c) \in Data
             /\ Verdict(c) \in BOOLEAN /\ TypeOf(Unborn) = "unborn"
             /\ (TypeOf(c) = "unborn" => c = Unborn)
             /\ (TriesOf(c) > 0 => TypeOf(c) \in Type)
  <2>1. CASE c \in Type \X Nat \X Data \X BOOLEAN
    BY <2>1, TypesAssumption DEF Unborn, Kind, Data, TriesOf, Verdict, TypeOf, DataOf
  <2>2. CASE c \in {Unborn, Gone}
    <3>1. /\ TypeOf(Unborn) = "unborn" /\ TypeOf(Gone) = "gone" /\ "unborn" # "gone"
          /\ Verdict(Unborn) \in BOOLEAN /\ Verdict(Gone) \in BOOLEAN
      BY DEF Unborn, Gone, TypeOf, Verdict
    <3>2. /\ TypeOf(Unborn) \in Kind /\ TypeOf(Gone) \in Kind
          /\ TriesOf(Unborn) = 0 /\ TriesOf(Gone) = 0 /\ DataOf(Unborn) = 0 /\ DataOf(Gone) = 0
      BY DEF Unborn, Gone, TypeOf, TriesOf, DataOf, Kind
    <3>3. 0 \in Data /\ 0 \in Nat /\ ~(0 > 0)
      BY DEF Data
    <3> QED BY <2>2, <3>1, <3>2, <3>3, Zenon
  <2> QED BY <2>1, <2>2 DEF Slip
<1> QED BY <1>1, <1>2 DEF Unborn, Gone, Slip, TriesOf, Verdict

\* What the daemon has just submitted comes first, and the list stays a list.
LEMMA NewestOK ==
    ASSUME NEW q \in Seq(Result)
    PROVE  Newest(q) \in Seq(Result)
<1>1. CASE Len(q) <= MaxRecent
  BY <1>1 DEF Newest
<1>2. CASE ~(Len(q) <= MaxRecent)
  <2>1. Len(q) \in Nat /\ MaxRecent \in Nat \ {0} /\ MaxRecent <= Len(q)
    BY <1>2, LenProperties, ContractsAssumption
  <2>2. \A i \in 1..MaxRecent : q[i] \in Result
    BY <2>1, ElementOfSeq
  <2>3. SubSeq(q, 1, MaxRecent) \in Seq(Result)
    BY <2>1, <2>2, SubSeqProperties
  <2> QED BY <1>2, <2>3 DEF Newest
<1> QED BY <1>1, <1>2

\* An answer is counted, remembered, and costs a try or takes the contract away.
LEMMA SubmitOK ==
    ASSUME NEW st \in Store, NEW f \in File, NEW how \in {"scan", "forced"},
           TriesOf(st.shelf[f]) > 0
    PROVE  LET r == Submit(st, f, how)
           IN  /\ r \in Store /\ r.attempted = st.attempted \cup {f}
               /\ r.pending = st.pending
               /\ \A g \in File : g # f => r.shelf[g] = st.shelf[g] /\ r.spent[g] = st.spent[g]
               /\ \/ how = "scan" /\ r.spent[f].scan = st.spent[f].scan + 1
                     /\ r.spent[f].forced = st.spent[f].forced
                  \/ how = "forced" /\ r.spent[f].scan = st.spent[f].scan
                     /\ r.spent[f].forced = st.spent[f].forced + 1
               /\ TriesOf(r.shelf[f]) <= TriesOf(st.shelf[f])
               /\ ~Verdict(r.shelf[f]) \/ Verdict(st.shelf[f])
               /\ ~Verdict(st.shelf[f]) => TriesOf(r.shelf[f]) = TriesOf(st.shelf[f]) - 1
<1> DEFINE c == st.shelf[f]
           left == IF Verdict(c) \/ TriesOf(c) = 1 THEN Gone
                   ELSE <<TypeOf(c), TriesOf(c) - 1, DataOf(c), Verdict(c)>>
           result == [file |-> f, type |-> TypeOf(c), success |-> Verdict(c)]
           list == Newest(<<result>> \o st.recent)
           shelf2 == [st.shelf EXCEPT ![f] = left]
           count == [st.spent[f] EXCEPT ![how] = @ + 1]
           spent2 == [st.spent EXCEPT ![f] = count]
           r == [shelf |-> shelf2, attempted |-> st.attempted \cup {f}, recent |-> list,
                 pending |-> st.pending, spent |-> spent2]
<1>1. /\ st.shelf \in [File -> Slip] /\ st.attempted \in SUBSET File /\ st.recent \in Seq(Result)
      /\ st.pending \in SUBSET (File \X Reason) /\ st.spent \in [File -> Count] /\ c \in Slip
      /\ st.spent[f] \in Count
  BY DEF Store
<1>2. /\ TypeOf(c) \in Kind /\ TriesOf(c) \in Nat /\ DataOf(c) \in Data
      /\ Verdict(c) \in BOOLEAN /\ TriesOf(c) > 0 /\ TypeOf(c) \in Type
  BY <1>1, Slips
<1>3. /\ left \in Slip /\ TriesOf(left) <= TriesOf(c) /\ (~Verdict(left) \/ Verdict(c))
      /\ (~Verdict(c) => TriesOf(left) = TriesOf(c) - 1)
  <2>1. CASE Verdict(c)
    BY <1>2, <2>1, Slips
  <2>2. CASE ~Verdict(c) /\ TriesOf(c) = 1
    BY <1>2, <2>2, Slips
  <2>3. CASE ~Verdict(c) /\ TriesOf(c) # 1
    <3> HIDE DEF c
    <3>1. left = <<TypeOf(c), TriesOf(c) - 1, DataOf(c), Verdict(c)>> /\ TriesOf(c) - 1 \in Nat
      BY <1>2, <2>3
    <3>2. TriesOf(left) = TriesOf(c) - 1 /\ Verdict(left) = Verdict(c)
      BY <3>1 DEF TriesOf, Verdict
    <3>3. left \in Slip
      BY <1>2, <3>1 DEF Slip
    <3> QED BY <1>2, <2>3, <3>1, <3>2, <3>3
  <2> QED BY <2>1, <2>2, <2>3
<1>4. list \in Seq(Result)
  <2>1. result \in Result
    BY <1>2 DEF Result
  <2> HIDE DEF result
  <2>2. <<result>> \in Seq(Result)
    BY <2>1
  <2> QED BY <1>1, <2>2, NewestOK, ConcatProperties
<1>5. /\ count \in Count
      /\ \/ how = "scan" /\ count.scan = st.spent[f].scan + 1 /\ count.forced = st.spent[f].forced
         \/ how = "forced" /\ count.scan = st.spent[f].scan /\ count.forced = st.spent[f].forced + 1
  <2> DEFINE k == st.spent[f]
  <2>1. k \in Count /\ count = [k EXCEPT ![how] = k[how] + 1]
    BY <1>1
  <2> HIDE DEF k, count
  <2>2. CASE how = "scan"
    <3>1. count = [k EXCEPT !.scan = k.scan + 1]
      BY <2>1, <2>2
    <3> QED BY <2>1, <2>2, <3>1 DEF Count, k
  <2>3. CASE how = "forced"
    <3>1. count = [k EXCEPT !.forced = k.forced + 1]
      BY <2>1, <2>3
    <3> QED BY <2>1, <2>3, <3>1 DEF Count, k
  <2> QED BY <2>2, <2>3
<1> HIDE DEF left, list, count, result
<1>6. shelf2 \in [File -> Slip] /\ spent2 \in [File -> Count]
  BY <1>1, <1>3, <1>5
<1>7. Submit(st, f, how) = r
  <2>1. Submit(st, f, how) = [st EXCEPT !.shelf[f] = left, !.attempted = @ \cup {f},
                                        !.recent = list, !.spent[f][how] = @ + 1]
    BY DEF Submit, left, list, result
  <2> QED BY <2>1 DEF Store, count
<1>8. r \in Store
  <2> HIDE DEF shelf2, spent2
  <2> QED BY <1>1, <1>4, <1>6 DEF Store
<1>9. /\ shelf2[f] = left /\ spent2[f] = count
      /\ \A g \in File : g # f => shelf2[g] = st.shelf[g] /\ spent2[g] = st.spent[g]
  BY <1>1
<1> HIDE DEF shelf2, spent2
<1> QED BY <1>3, <1>5, <1>7, <1>8, <1>9

---------------------------------------------------------------------------
(* A scan, a forced attempt *)

\* What a cycle knows of a file: is it answered, how often so far, the tries that are
\* left, the verdict.
Scans(st, f) == st.spent[f].scan
Forces(st, f) == st.spent[f].forced
Left(st, f) == TriesOf(st.shelf[f])
Right(st, f) == Verdict(st.shelf[f])
Tried(st, f) == f \in st.attempted

\* What any number of submissions may do to each file between two states of a cycle:
\* a scan's answer goes to a file that was never answered, a submission is remembered,
\* and a refused one leaves enough tries unless it was forced.
Later(s, r) ==
    \A f \in File :
        /\ Scans(r, f) >= Scans(s, f) /\ Forces(r, f) >= Forces(s, f)
        /\ Tried(s, f) => Tried(r, f) /\ Scans(r, f) = Scans(s, f)
        /\ ~Tried(r, f) => Scans(r, f) = Scans(s, f) /\ Forces(r, f) = Forces(s, f)
        /\ Left(r, f) <= Left(s, f)
        /\ Right(r, f) => Right(s, f)
        /\ \/ Right(s, f) \/ Forces(r, f) > Forces(s, f)
           \/ Left(r, f) = Left(s, f) \/ Left(r, f) >= MinTries - 1
Answered(s, r, f) == Scans(r, f) > Scans(s, f) \/ Forces(r, f) > Forces(s, f)

LEMMA StoreParts ==
    ASSUME NEW st \in Store, NEW f \in File
    PROVE  /\ Scans(st, f) \in Nat /\ Forces(st, f) \in Nat /\ Left(st, f) \in Nat
           /\ Right(st, f) \in BOOLEAN /\ Tried(st, f) \in BOOLEAN
<1>1. st.shelf[f] \in Slip /\ st.spent[f] \in Count
  BY DEF Store
<1>2. Left(st, f) \in Nat /\ Right(st, f) \in BOOLEAN
  BY <1>1, Slips DEF Left, Right
<1> QED BY <1>1, <1>2 DEF Count, Scans, Forces, Tried

LEMMA LaterSelf ==
    ASSUME NEW st \in Store
    PROVE  Later(st, st)
BY StoreParts DEF Later

LEMMA LaterChains ==
    ASSUME NEW a \in Store, NEW b \in Store, NEW c \in Store, Later(a, b), Later(b, c)
    PROVE  Later(a, c) /\ \A f \in File : Answered(a, b, f) \/ Answered(b, c, f) => Answered(a, c, f)
BY StoreParts, ContractsAssumption DEF Later, Answered

\* What does not touch files, tries and counts is no step.
LEMMA LaterSame ==
    ASSUME NEW st \in Store, NEW r, r.shelf = st.shelf, r.spent = st.spent, r.attempted = st.attempted
    PROVE  Later(st, r)
<1>1. \A f \in File : /\ Scans(r, f) = Scans(st, f) /\ Forces(r, f) = Forces(st, f)
                      /\ Left(r, f) = Left(st, f) /\ Right(r, f) = Right(st, f)
                      /\ Tried(r, f) = Tried(st, f)
  BY DEF Scans, Forces, Left, Right, Tried
<1> QED BY <1>1, StoreParts DEF Later

\* One submission, of either kind.
LEMMA SubmitLater ==
    ASSUME NEW st \in Store, NEW f \in File, NEW how \in {"scan", "forced"}, Left(st, f) > 0,
           how = "scan" => ~Tried(st, f) /\ Left(st, f) >= MinTries
    PROVE  LET r == Submit(st, f, how)
           IN  Later(st, r) /\ Answered(st, r, f)
<1> DEFINE r == Submit(st, f, how)
<1>1. /\ r \in Store /\ r.attempted = st.attempted \cup {f}
      /\ \A g \in File : g # f => r.shelf[g] = st.shelf[g] /\ r.spent[g] = st.spent[g]
      /\ \/ how = "scan" /\ r.spent[f].scan = st.spent[f].scan + 1
            /\ r.spent[f].forced = st.spent[f].forced
         \/ how = "forced" /\ r.spent[f].scan = st.spent[f].scan
            /\ r.spent[f].forced = st.spent[f].forced + 1
      /\ TriesOf(r.shelf[f]) <= TriesOf(st.shelf[f])
      /\ ~Verdict(r.shelf[f]) \/ Verdict(st.shelf[f])
      /\ ~Verdict(st.shelf[f]) => TriesOf(r.shelf[f]) = TriesOf(st.shelf[f]) - 1
  <2>1. TriesOf(st.shelf[f]) > 0
    BY DEF Left
  <2> QED BY <2>1, SubmitOK
<1> HIDE DEF r
<1>2. \/ how = "scan" /\ Scans(r, f) = Scans(st, f) + 1 /\ Forces(r, f) = Forces(st, f)
      \/ how = "forced" /\ Scans(r, f) = Scans(st, f) /\ Forces(r, f) = Forces(st, f) + 1
  BY <1>1 DEF Scans, Forces
<1>3. /\ Tried(r, f) /\ Left(r, f) <= Left(st, f) /\ (Right(r, f) => Right(st, f))
      /\ ~Right(st, f) => Left(r, f) = Left(st, f) - 1
  BY <1>1 DEF Tried, Left, Right
<1>4. ASSUME NEW g \in File, g # f
      PROVE  /\ Scans(r, g) = Scans(st, g) /\ Forces(r, g) = Forces(st, g)
             /\ Left(r, g) = Left(st, g) /\ Right(r, g) = Right(st, g)
             /\ Tried(r, g) = Tried(st, g)
  BY <1>1, <1>4 DEF Scans, Forces, Left, Right, Tried
<1>5. Answered(st, r, f)
  BY <1>2, StoreParts DEF Answered
<1>6. Later(st, r)
  BY <1>1, <1>2, <1>3, <1>4, StoreParts, ContractsAssumption DEF Later
<1> QED BY <1>5, <1>6 DEF r

\* Files that a step leaves as they are.
Spared(st, r, f) == /\ Left(r, f) = Left(st, f)
                    /\ Scans(r, f) = Scans(st, f) /\ Forces(r, f) = Forces(st, f)

\* A scanned file is answered or listed; nothing else changes.
LEMMA ScanOK ==
    ASSUME NEW st \in Store, NEW f \in File
    PROVE  LET r == Scan(st, f)
           IN  /\ r \in Store /\ Later(st, r)
               /\ \A g \in File : g # f => Spared(st, r, g)
               /\ \/ Answered(st, r, f) /\ r.pending = st.pending
                  \/ /\ Spared(st, r, f)
                     /\ \E reason \in Reason : r.pending = st.pending \cup {<<f, reason>>}
<1>1. CASE Skip(st, f) = ""
  <2> DEFINE r == Submit(st, f, "scan")
  <2>1. ~Tried(st, f) /\ ~(Left(st, f) < MinTries)
    <3>1. "" # "previously failed" /\ "" # "no solver" /\ "" # "low tries"
      OBVIOUS
    <3> QED BY <1>1, <3>1 DEF Skip, Tried, Left
  <2>2. Left(st, f) > 0 /\ Left(st, f) >= MinTries
    BY <2>1, StoreParts, ContractsAssumption
  <2>3. Scan(st, f) = r
    BY <1>1 DEF Scan
  <2>4. /\ r \in Store /\ r.pending = st.pending
        /\ \A g \in File : g # f => r.shelf[g] = st.shelf[g] /\ r.spent[g] = st.spent[g]
    BY <2>2, SubmitOK DEF Left
  <2>5. Later(st, r) /\ Answered(st, r, f)
    BY <2>1, <2>2, SubmitLater
  <2>6. \A g \in File : g # f => Spared(st, r, g)
    <3> HIDE DEF r
    <3> QED BY <2>4 DEF Spared, Left, Scans, Forces
  <2> HIDE DEF r
  <2> QED BY <2>3, <2>4, <2>5, <2>6
<1>2. CASE Skip(st, f) # ""
  <2> DEFINE r == [st EXCEPT !.pending = @ \cup {<<f, Skip(st, f)>>}]
  <2>1. Scan(st, f) = r
    BY <1>2 DEF Scan
  <2>2. Skip(st, f) \in Reason
    BY <1>2 DEF Skip, Reason
  <2>3. /\ r \in Store /\ r.shelf = st.shelf /\ r.spent = st.spent /\ r.attempted = st.attempted
        /\ r.pending = st.pending \cup {<<f, Skip(st, f)>>}
    BY <2>2 DEF Store
  <2> HIDE DEF r
  <2>4. Later(st, r) /\ \A g \in File : Spared(st, r, g)
    BY <2>3, LaterSame DEF Spared, Left, Scans, Forces
  <2> QED BY <2>1, <2>2, <2>3, <2>4
<1> QED BY <1>1, <1>2

\* A forced attempt that is made takes its file off the list.
LEMMA ForcedOK ==
    ASSUME NEW st \in Store, NEW f \in File
    PROVE  LET r == ForcedAttempt(st, f)
           IN  /\ r \in Store /\ Later(st, r)
               /\ \/ r = st
                  \/ /\ Answered(st, r, f) /\ \A g \in File : g # f => Spared(st, r, g)
                     /\ r.pending = {p \in st.pending : p[1] # f}
<1> DEFINE made == On(st.shelf, f) /\ Known(TypeOf(st.shelf[f])) /\ TypeOf(st.shelf[f]) \notin Throwing
<1>1. CASE ~made
  BY <1>1, LaterSelf DEF ForcedAttempt
<1>2. CASE made
  <2> DEFINE done == Submit(st, f, "forced")
             r == [done EXCEPT !.pending = {p \in @ : p[1] # f}]
  <2>1. ForcedAttempt(st, f) = r
    BY <1>2 DEF ForcedAttempt
  <2>2. Left(st, f) > 0
    BY <1>2 DEF On, Left
  <2>3. /\ done \in Store /\ done.pending = st.pending
        /\ \A g \in File : g # f => done.shelf[g] = st.shelf[g] /\ done.spent[g] = st.spent[g]
    BY <2>2, SubmitOK DEF Left
  <2>4. Later(st, done) /\ Answered(st, done, f)
    BY <2>2, SubmitLater
  <2> HIDE DEF done
  <2>5. /\ r \in Store /\ r.shelf = done.shelf /\ r.spent = done.spent
        /\ r.attempted = done.attempted /\ r.pending = {p \in st.pending : p[1] # f}
    BY <2>3 DEF Store
  <2> HIDE DEF r
  <2>6. Later(st, r) /\ Answered(st, r, f)
    <3>1. Later(done, r)
      BY <2>3, <2>5, LaterSame
    <3> QED BY <2>3, <2>4, <2>5, <3>1, LaterChains
  <2>7. \A g \in File : g # f => Spared(st, r, g)
    BY <2>3, <2>5 DEF Spared, Left, Scans, Forces
  <2> QED BY <2>1, <2>5, <2>6, <2>7
<1> QED BY <1>1, <1>2

---------------------------------------------------------------------------
(* All scans, all forced attempts *)

\* The daemon's loops are runs of their bodies.
LEMMA ScanRuns ==
    ASSUME NEW start \in Store, NEW n \in Nat, NEW files \in [1..n -> File], Len(files) = n
    PROVE  \E g : /\ g[0] = start /\ \A k \in 0..n : g[k] \in Store
                  /\ \A k \in 1..n : g[k] = Scan(g[k - 1], files[k])
                  /\ ScanAll(start, files) = g[n]
<1> DEFINE F == [p \in (1..n) \X Store |-> Scan(p[2], files[p[1]])]
           Unfold(h) == [k \in 0..n |-> IF k = 0 THEN start ELSE Scan(h[k - 1], files[k])]
           after == CHOOSE h : h = Unfold(h)
<1>1. ScanAll(start, files) = after[n]
  BY DEF ScanAll
<1>2. F \in [(1..n) \X Store -> Store]
  <2>1. ASSUME NEW p \in (1..n) \X Store PROVE Scan(p[2], files[p[1]]) \in Store
    <3>1. p[2] \in Store /\ files[p[1]] \in File
      OBVIOUS
    <3> HIDE DEF Unfold
    <3> QED BY <3>1, ScanOK
  <2> QED BY <2>1
<1>3. \A k \in 1..n, x \in Store : F[<<k, x>>] = Scan(x, files[k])
  OBVIOUS
<1> HIDE DEF F
<1>4. PICK g \in [0..n -> Store] : Iterates(g, F, start, n)
  BY <1>2, Recursion, Zenon
<1>5. \A k \in 1..n : k # 0 /\ k - 1 \in 0..n /\ k \in 0..n
  OBVIOUS
<1>6. g[0] = start /\ \A k \in 1..n : g[k] = Scan(g[k - 1], files[k])
  <2>1. \A k \in 1..n : g[k - 1] \in Store
    BY <1>5
  <2> QED BY <1>3, <1>4, <2>1 DEF Iterates
<1>7. g = Unfold(g)
  <2>1. \A k \in 0..n : k = 0 \/ k \in 1..n
    OBVIOUS
  <2> QED BY <1>5, <1>6, <2>1
<1>8. after = Unfold(after)
  BY <1>7
<1> HIDE DEF after
<1>9. after[0] = start /\ \A k \in 1..n : after[k] = Scan(after[k - 1], files[k])
  <2>1. 0 \in 0..n
    OBVIOUS
  <2> QED BY <1>5, <1>8, <2>1
<1>10. \A k \in 0..n : after[k] \in Store
  <2> DEFINE J == [k \in 0..n |-> Store]
  <2>1. \A k \in 0..n : J[k] = Store
    OBVIOUS
  <2> HIDE DEF J
  <2>2. 0 \in 0..n
    OBVIOUS
  <2>3. after[0] \in J[0]
    BY <1>9, <2>1, <2>2
  <2>4. \A k \in 1..n : after[k - 1] \in J[k - 1] => after[k] \in J[k]
    BY <1>5, <1>9, <2>1, ScanOK
  <2>5. \A k \in 0..n : after[k] \in J[k]
    BY <2>3, <2>4, RunStays, Zenon
  <2> QED BY <2>1, <2>5
<1> QED BY <1>1, <1>9, <1>10

LEMMA ForceRuns ==
    ASSUME NEW start \in Store, NEW n \in Nat, NEW asked \in [1..n -> File], Len(asked) = n
    PROVE  \E g : /\ g[0] = start /\ \A k \in 0..n : g[k] \in Store
                  /\ \A k \in 1..n : g[k] = ForcedAttempt(g[k - 1], asked[k])
                  /\ ForceAll(start, asked) = g[n]
<1> DEFINE F == [p \in (1..n) \X Store |-> ForcedAttempt(p[2], asked[p[1]])]
           Unfold(h) == [k \in 0..n |-> IF k = 0 THEN start ELSE ForcedAttempt(h[k - 1], asked[k])]
           after == CHOOSE h : h = Unfold(h)
<1>1. ForceAll(start, asked) = after[n]
  BY DEF ForceAll
<1>2. F \in [(1..n) \X Store -> Store]
  <2>1. ASSUME NEW p \in (1..n) \X Store PROVE ForcedAttempt(p[2], asked[p[1]]) \in Store
    <3>1. p[2] \in Store /\ asked[p[1]] \in File
      OBVIOUS
    <3> HIDE DEF Unfold
    <3> QED BY <3>1, ForcedOK
  <2> QED BY <2>1
<1>3. \A k \in 1..n, x \in Store : F[<<k, x>>] = ForcedAttempt(x, asked[k])
  OBVIOUS
<1> HIDE DEF F
<1>4. PICK g \in [0..n -> Store] : Iterates(g, F, start, n)
  BY <1>2, Recursion, Zenon
<1>5. \A k \in 1..n : k # 0 /\ k - 1 \in 0..n /\ k \in 0..n
  OBVIOUS
<1>6. g[0] = start /\ \A k \in 1..n : g[k] = ForcedAttempt(g[k - 1], asked[k])
  <2>1. \A k \in 1..n : g[k - 1] \in Store
    BY <1>5
  <2> QED BY <1>3, <1>4, <2>1 DEF Iterates
<1>7. g = Unfold(g)
  <2>1. \A k \in 0..n : k = 0 \/ k \in 1..n
    OBVIOUS
  <2> QED BY <1>5, <1>6, <2>1
<1>8. after = Unfold(after)
  BY <1>7
<1> HIDE DEF after
<1>9. after[0] = start /\ \A k \in 1..n : after[k] = ForcedAttempt(after[k - 1], asked[k])
  <2>1. 0 \in 0..n
    OBVIOUS
  <2> QED BY <1>5, <1>8, <2>1
<1>10. \A k \in 0..n : after[k] \in Store
  <2> DEFINE J == [k \in 0..n |-> Store]
  <2>1. \A k \in 0..n : J[k] = Store
    OBVIOUS
  <2> HIDE DEF J
  <2>2. 0 \in 0..n
    OBVIOUS
  <2>3. after[0] \in J[0]
    BY <1>9, <2>1, <2>2
  <2>4. \A k \in 1..n : after[k - 1] \in J[k - 1] => after[k] \in J[k]
    BY <1>5, <1>9, <2>1, ForcedOK
  <2>5. \A k \in 0..n : after[k] \in J[k]
    BY <2>3, <2>4, RunStays, Zenon
  <2> QED BY <2>1, <2>5
<1> QED BY <1>1, <1>9, <1>10

\* After k of the scans: a file seen is answered or listed, a listed one is as it was,
\* and so is a file still to come.
ScannedTo(start, files, n, k, st) ==
    /\ Later(start, st)
    /\ \A p \in st.pending : Spared(start, st, p[1]) /\ \E j \in 1..k : p[1] = files[j]
    /\ \A j \in 1..k : Answered(start, st, files[j]) \/ \E p \in st.pending : p[1] = files[j]
    /\ \A j \in 1..n : j > k => Spared(start, st, files[j])

LEMMA ScanStep ==
    ASSUME NEW start \in Store, NEW n \in Nat, NEW files \in [1..n -> File],
           \A i, j \in 1..n : files[i] = files[j] => i = j,
           NEW k \in 1..n, NEW st \in Store, ScannedTo(start, files, n, k - 1, st)
    PROVE  ScannedTo(start, files, n, k, Scan(st, files[k]))
<1> DEFINE f == files[k]
           r == Scan(st, f)
<1>1. f \in File /\ k \in Nat /\ \A j \in 1..(k - 1) : j \in 1..n /\ j \in 1..k /\ files[j] \in File /\ files[j] # f
  OBVIOUS
<1>2. /\ r \in Store /\ Later(st, r)
      /\ \A g \in File : g # f => Spared(st, r, g)
      /\ \/ Answered(st, r, f) /\ r.pending = st.pending
         \/ /\ Spared(st, r, f)
            /\ \E reason \in Reason : r.pending = st.pending \cup {<<f, reason>>}
  BY <1>1, ScanOK
<1> HIDE DEF r
<1>3. /\ Later(start, st)
      /\ \A p \in st.pending : Spared(start, st, p[1]) /\ \E j \in 1..(k - 1) : p[1] = files[j]
      /\ \A j \in 1..(k - 1) : Answered(start, st, files[j]) \/ \E p \in st.pending : p[1] = files[j]
      /\ \A j \in 1..n : j > k - 1 => Spared(start, st, files[j])
  BY DEF ScannedTo
<1>4. Spared(start, st, f)
  BY <1>3
<1>5. /\ Later(start, r)
      /\ \A g \in File : Answered(start, st, g) \/ Answered(st, r, g) => Answered(start, r, g)
  BY <1>2, <1>3, LaterChains
<1>6. \A g \in File : Spared(start, st, g) /\ Spared(st, r, g) => Spared(start, r, g)
  BY DEF Spared
<1>7. \A p \in st.pending : Spared(start, r, p[1]) /\ \E j \in 1..k : p[1] = files[j]
  <2> SUFFICES ASSUME NEW p \in st.pending
               PROVE  Spared(start, r, p[1]) /\ \E j \in 1..k : p[1] = files[j]
    OBVIOUS
  <2>1. PICK j \in 1..(k - 1) : p[1] = files[j]
    BY <1>3
  <2>2. p[1] \in File /\ p[1] # f /\ j \in 1..k
    BY <1>1, <2>1
  <2> QED BY <1>2, <1>3, <1>6, <2>1, <2>2
<1>8. \A p \in r.pending : Spared(start, r, p[1]) /\ \E j \in 1..k : p[1] = files[j]
  <2>1. CASE r.pending = st.pending
    BY <1>7, <2>1
  <2>2. CASE Spared(st, r, f) /\ \E reason \in Reason : r.pending = st.pending \cup {<<f, reason>>}
    <3>1. PICK reason \in Reason : r.pending = st.pending \cup {<<f, reason>>}
      BY <2>2
    <3>2. Spared(start, r, f) /\ k \in 1..k
      BY <1>1, <1>4, <1>6, <2>2
    <3>3. \A p \in r.pending : p \in st.pending \/ p[1] = f
      BY <3>1
    <3> QED BY <1>7, <3>2, <3>3
  <2> QED BY <1>2, <2>1, <2>2
<1>9. Answered(start, r, f) \/ \E p \in r.pending : p[1] = f
  <2>1. CASE Answered(st, r, f)
    BY <1>1, <1>5, <2>1
  <2>2. ASSUME NEW reason \in Reason, r.pending = st.pending \cup {<<f, reason>>}
        PROVE  \E p \in r.pending : p[1] = f
    <3>1. <<f, reason>> \in r.pending /\ <<f, reason>>[1] = f
      BY <2>2
    <3> QED BY <3>1
  <2> QED BY <1>2, <2>1, <2>2
<1>10. st.pending \subseteq r.pending
  BY <1>2
<1>11. \A j \in 1..k : Answered(start, r, files[j]) \/ \E p \in r.pending : p[1] = files[j]
  <2>1. \A j \in 1..k : j = k \/ j \in 1..(k - 1)
    OBVIOUS
  <2>2. \A j \in 1..(k - 1) : Answered(start, r, files[j]) \/ \E p \in r.pending : p[1] = files[j]
    BY <1>1, <1>3, <1>5, <1>10
  <2> QED BY <1>9, <2>1, <2>2
<1>12. \A j \in 1..n : j > k => Spared(start, r, files[j])
  <2>1. \A j \in 1..n : j > k => j > k - 1 /\ files[j] \in File /\ files[j] # f
    OBVIOUS
  <2> QED BY <1>2, <1>3, <1>6, <2>1
<1> QED BY <1>5, <1>8, <1>11, <1>12 DEF ScannedTo, r

\* The scans and attempts of a cycle: what is listed is there to be solved, and every
\* file found is answered or listed.
Covers(start, found, st) ==
    /\ Later(start, st)
    /\ \A p \in st.pending : Left(st, p[1]) > 0
    /\ \A f \in found : Answered(start, st, f) \/ \E p \in st.pending : p[1] = f

LEMMA ForceStep ==
    ASSUME NEW start \in Store, NEW found \in SUBSET File, NEW f \in File,
           NEW st \in Store, Covers(start, found, st)
    PROVE  Covers(start, found, ForcedAttempt(st, f))
<1> DEFINE r == ForcedAttempt(st, f)
<1>1. /\ r \in Store /\ Later(st, r)
      /\ \/ r = st
         \/ /\ Answered(st, r, f) /\ \A g \in File : g # f => Spared(st, r, g)
            /\ r.pending = {p \in st.pending : p[1] # f}
  BY ForcedOK
<1>2. CASE r = st
  BY <1>2
<1>3. CASE /\ Answered(st, r, f) /\ \A g \in File : g # f => Spared(st, r, g)
           /\ r.pending = {p \in st.pending : p[1] # f}
  <2> HIDE DEF r
  <2>1. /\ Later(start, r)
        /\ \A g \in File : Answered(start, st, g) \/ Answered(st, r, g) => Answered(start, r, g)
    BY <1>1, LaterChains DEF Covers
  <2>2. \A p \in r.pending : p[1] \in File /\ p[1] # f /\ p \in st.pending
    BY <1>3 DEF Store
  <2>3. \A p \in r.pending : Left(r, p[1]) > 0
    BY <1>3, <2>2 DEF Spared, Covers
  <2>4. ASSUME NEW g \in found
        PROVE  Answered(start, r, g) \/ \E p \in r.pending : p[1] = g
    <3>1. CASE g = f \/ Answered(start, st, g)
      BY <1>3, <2>1, <3>1
    <3>2. CASE g # f /\ \E p \in st.pending : p[1] = g
      BY <1>3, <3>2
    <3> QED BY <3>1, <3>2 DEF Covers
  <2> QED BY <2>1, <2>3, <2>4 DEF Covers, r
<1> QED BY <1>1, <1>2, <1>3

LEMMA ScanCovers ==
    ASSUME NEW start \in Store, start.pending = {}, NEW found \in SUBSET File,
           \A f \in found : Left(start, f) > 0
    PROVE  LET st == ScanAll(start, SetToSeq(found))
           IN  st \in Store /\ Covers(start, found, st)
<1> DEFINE n == Cardinality(found)
           files == SetToSeq(found)
           J == [k \in 0..n |-> {x \in Store : ScannedTo(start, files, n, k, x)}]
<1>1. /\ n \in Nat /\ files \in [1..n -> found]
      /\ \A i, j \in 1..n : files[i] = files[j] => i = j
      /\ \A f \in found : \E j \in 1..n : files[j] = f
  <2>1. IsFiniteSet(found)
    BY FilesAssumption, FS_Subset
  <2> QED BY <2>1, SetAsSequence
<1> HIDE DEF n, files
<1>2. files \in [1..n -> File] /\ Len(files) = n
  <2>1. files \in Seq(found) /\ DOMAIN files = 1..n
    BY <1>1, FunctionIsSeq
  <2>2. Len(files) \in Nat /\ DOMAIN files = 1..Len(files)
    BY <2>1, LenProperties
  <2> QED BY <1>1, <2>1, <2>2
<1>3. \A k \in 0..n : J[k] = {x \in Store : ScannedTo(start, files, n, k, x)}
  OBVIOUS
<1> HIDE DEF J
<1>4. PICK g : /\ g[0] = start /\ \A k \in 0..n : g[k] \in Store
               /\ \A k \in 1..n : g[k] = Scan(g[k - 1], files[k])
               /\ ScanAll(start, files) = g[n]
  <2>1. n \in Nat /\ files \in [1..n -> File] /\ Len(files) = n
    BY <1>1, <1>2
  <2> QED BY <2>1, ScanRuns
<1>5. 0 \in 0..n /\ n \in 0..n /\ \A k \in 1..n : k - 1 \in 0..n /\ k \in 0..n
  BY <1>1
<1>6. g[0] \in J[0]
  <2>1. \A j \in 1..0 : FALSE
    OBVIOUS
  <2>2. Later(start, start)
    BY LaterSelf
  <2>3. \A j \in 1..n : Spared(start, start, files[j])
    BY DEF Spared
  <2> QED BY <1>3, <1>4, <1>5, <2>1, <2>2, <2>3 DEF ScannedTo
<1>7. \A k \in 1..n : g[k - 1] \in J[k - 1] => g[k] \in J[k]
  <2> SUFFICES ASSUME NEW k \in 1..n, g[k - 1] \in J[k - 1] PROVE g[k] \in J[k]
    OBVIOUS
  <2>1. g[k - 1] \in Store /\ ScannedTo(start, files, n, k - 1, g[k - 1])
    BY <1>3, <1>5
  <2>2. ScannedTo(start, files, n, k, Scan(g[k - 1], files[k]))
    BY <1>1, <1>2, <2>1, ScanStep
  <2> QED BY <1>3, <1>4, <1>5, <2>2
<1>8. \A k \in 0..n : g[k] \in J[k]
  BY <1>1, <1>6, <1>7, RunStays, Zenon
<1>9. g[n] \in Store /\ ScannedTo(start, files, n, n, g[n])
  BY <1>3, <1>5, <1>8
<1>10. Covers(start, found, g[n])
  <2>1. \A p \in g[n].pending : Left(g[n], p[1]) > 0
    <3> SUFFICES ASSUME NEW p \in g[n].pending PROVE Left(g[n], p[1]) > 0
      OBVIOUS
    <3>1. Spared(start, g[n], p[1]) /\ p[1] \in found
      BY <1>1, <1>9 DEF ScannedTo
    <3> QED BY <3>1 DEF Spared
  <2> QED BY <1>1, <1>9, <2>1 DEF ScannedTo, Covers
<1> QED BY <1>4, <1>9, <1>10 DEF files

LEMMA ForceCovers ==
    ASSUME NEW start \in Store, NEW found \in SUBSET File, NEW asked \in Seq(File),
           NEW st \in Store, Covers(start, found, st)
    PROVE  LET r == ForceAll(st, asked)
           IN  r \in Store /\ Covers(start, found, r)
<1> DEFINE n == Len(asked)
           J == [k \in 0..n |-> {x \in Store : Covers(start, found, x)}]
<1>1. n \in Nat /\ asked \in [1..n -> File]
  BY LenProperties, ElementOfSeq
<1> HIDE DEF n
<1>2. PICK g : /\ g[0] = st /\ \A k \in 0..n : g[k] \in Store
               /\ \A k \in 1..n : g[k] = ForcedAttempt(g[k - 1], asked[k])
               /\ ForceAll(st, asked) = g[n]
  <2>1. Len(asked) = n
    BY DEF n
  <2> QED BY <1>1, <2>1, ForceRuns, Zenon
<1>3. \A k \in 0..n : J[k] = {x \in Store : Covers(start, found, x)}
  OBVIOUS
<1> HIDE DEF J
<1>4. 0 \in 0..n /\ n \in 0..n /\ \A k \in 1..n : k - 1 \in 0..n /\ k \in 0..n
  BY <1>1
<1>5. g[0] \in J[0]
  BY <1>2, <1>3, <1>4
<1>6. \A k \in 1..n : g[k - 1] \in J[k - 1] => g[k] \in J[k]
  BY <1>1, <1>2, <1>3, <1>4, ForceStep
<1>7. \A k \in 0..n : g[k] \in J[k]
  BY <1>1, <1>5, <1>6, RunStays, Zenon
<1> QED BY <1>2, <1>3, <1>4, <1>7

---------------------------------------------------------------------------
(* The daemon's state *)

TypeInv ==
    /\ shelf \in [File -> Slip] /\ control \in Seq(File)
    /\ attempted \in SUBSET File /\ recent \in Seq(Result)
    /\ pending \in SUBSET (File \X Reason) /\ spent \in [File -> Count]

\* The daemon remembers every contract it has answered since it started.
Remembered == \A f \in File : f \notin attempted => spent[f] = Nothing

ContractInv == TypeInv /\ Remembered

\* What a cycle starts from, and what it finds.
Before == [shelf |-> shelf, attempted |-> attempted, recent |-> recent, pending |-> {}, spent |-> spent]
Found == {f \in File : On(shelf, f) /\ HostOf[f] \in Servers}

\* A cycle, as far as the properties see it.
LEMMA CycleOK ==
    ASSUME TypeInv, Cycle
    PROVE  /\ TypeInv'
           /\ \A f \in File :
                /\ f \in attempted => f \in attempted' /\ spent'[f].scan = spent[f].scan
                /\ f \notin attempted' => /\ spent'[f].scan = spent[f].scan
                                          /\ spent'[f].forced = spent[f].forced
                /\ TriesOf(shelf'[f]) <= TriesOf(shelf[f])
                /\ \/ Verdict(shelf[f]) \/ spent'[f].forced > spent[f].forced
                   \/ TriesOf(shelf'[f]) = TriesOf(shelf[f]) \/ TriesOf(shelf'[f]) >= MinTries - 1
                /\ f \in Found /\ spent'[f] = spent[f] => \E p \in pending' : p[1] = f
           /\ \A p \in pending' : TriesOf(shelf'[p[1]]) > 0
<1> DEFINE st == ScanAll(Before, SetToSeq(Found))
           r == ForceAll(st, control)
<1>1. Before \in Store /\ Before.pending = {}
  <2>1. {} \in SUBSET (File \X Reason)
    OBVIOUS
  <2> QED BY <2>1 DEF Before, Store, TypeInv
<1>2. Found \in SUBSET File /\ \A f \in Found : Left(Before, f) > 0
  BY DEF Found, Before, Left, On
<1>3. st \in Store /\ Covers(Before, Found, st)
  BY <1>1, <1>2, ScanCovers
<1> HIDE DEF st
<1>4. r \in Store /\ Covers(Before, Found, r)
  BY <1>1, <1>2, <1>3, ForceCovers DEF TypeInv
<1>5. /\ control' = <<>> /\ shelf' = r.shelf /\ attempted' = r.attempted
      /\ recent' = r.recent /\ pending' = r.pending /\ spent' = r.spent
  BY DEF Cycle, r, st, Found, Before
<1> HIDE DEF r
<1>6. TypeInv'
  BY <1>4, <1>5 DEF TypeInv, Store
<1>7. \A f \in File :
        /\ Scans(Before, f) = spent[f].scan /\ Forces(Before, f) = spent[f].forced
        /\ Left(Before, f) = TriesOf(shelf[f]) /\ Right(Before, f) = Verdict(shelf[f])
        /\ Tried(Before, f) = (f \in attempted)
        /\ Scans(r, f) = spent'[f].scan /\ Forces(r, f) = spent'[f].forced
        /\ Left(r, f) = TriesOf(shelf'[f]) /\ Tried(r, f) = (f \in attempted')
  BY <1>5 DEF Before, Scans, Forces, Left, Right, Tried
<1>8. \A f \in File : /\ Scans(r, f) \in Nat /\ Forces(r, f) \in Nat
                      /\ Scans(Before, f) \in Nat /\ Forces(Before, f) \in Nat
  BY <1>1, <1>4, StoreParts
<1>9. ASSUME NEW f \in Found, spent'[f] = spent[f]
      PROVE  \E p \in pending' : p[1] = f
  <2>1. f \in File /\ ~Answered(Before, r, f)
    BY <1>2, <1>7, <1>8, <1>9 DEF Answered
  <2> QED BY <1>4, <1>5, <2>1 DEF Covers
<1>10. \A p \in pending' : TriesOf(shelf'[p[1]]) > 0
  BY <1>4, <1>5 DEF Covers, Left
<1> QED BY <1>4, <1>6, <1>7, <1>9, <1>10 DEF Covers, Later

\* Every other step leaves counts and memory alone, or clears both.
LEMMA OtherSteps ==
    ASSUME TypeInv, [Next]_vars, ~Cycle
    PROVE  /\ TypeInv' /\ parity' = parity
           /\ \A f \in File : TriesOf(shelf[f]) > 0 => shelf'[f] = shelf[f]
           /\ \/ attempted' = attempted /\ spent' = spent
              \/ attempted' = {} /\ spent' = [f \in File |-> Nothing]
<1>1. CASE Restart
  <2>1. <<>> \in Seq(Result) /\ [f \in File |-> Nothing] \in [File -> Count]
    BY DEF Count, Nothing
  <2> QED BY <1>1, <2>1 DEF Restart, TypeInv, Nothing
<1>2. CASE NukePublishes
  BY <1>2 DEF NukePublishes, TypeInv
<1>3. ASSUME NEW f \in File, Appear(f)
      PROVE  /\ TypeInv' /\ parity' = parity
             /\ \A g \in File : TriesOf(shelf[g]) > 0 => shelf'[g] = shelf[g]
             /\ attempted' = attempted /\ spent' = spent
  <2>1. PICK t \in Type : \E d \in Problems(t) : shelf' = [shelf EXCEPT ![f] = Contract(t, d)]
    BY <1>3 DEF Appear
  <2>2. PICK d \in Problems(t) : shelf' = [shelf EXCEPT ![f] = Contract(t, d)]
    BY <2>1
  <2>3. Contract(t, d) \in Slip
    BY Slips
  <2>4. shelf' \in [File -> Slip] /\ \A g \in File : g # f => shelf'[g] = shelf[g]
    BY <2>2, <2>3 DEF TypeInv
  <2>5. TriesOf(shelf[f]) = 0
    <3>1. shelf[f] \in Slip /\ TypeOf(shelf[f]) = "unborn"
      BY <1>3 DEF Appear, TypeInv
    <3>2. shelf[f] = Unborn
      BY <3>1, Slips
    <3> QED BY <3>2, Slips
  <2>6. \A g \in File : TriesOf(shelf[g]) > 0 => shelf'[g] = shelf[g]
    <3>1. ~(0 > 0)
      OBVIOUS
    <3> QED BY <2>4, <2>5, <3>1
  <2> QED BY <1>3, <2>4, <2>6 DEF Appear, TypeInv
<1>4. ASSUME NEW f \in File, AskForced(f)
      PROVE  /\ TypeInv' /\ parity' = parity /\ shelf' = shelf
             /\ attempted' = attempted /\ spent' = spent
  <2>1. control' \in Seq(File)
    BY <1>4, AppendProperties DEF AskForced, TypeInv
  <2> QED BY <1>4, <2>1 DEF AskForced, TypeInv
<1>5. CASE UNCHANGED vars
  BY <1>5 DEF vars, TypeInv
<1> QED BY <1>1, <1>2, <1>3, <1>4, <1>5 DEF Next

LEMMA InitOK ==
    ASSUME Init
    PROVE  ContractInv
<1>1. shelf \in [File -> Slip]
  <2>1. CASE shelf = [f \in File |-> Unborn]
    BY <2>1, Slips
  <2>2. ASSUME NEW t \in Type, NEW d \in Standing(t), NEW f \in File,
               shelf = [g \in File |-> IF g = f THEN Contract(t, d) ELSE Gone]
        PROVE  shelf \in [File -> Slip]
    <3>1. Contract(t, d) \in Slip /\ Gone \in Slip
      BY Slips
    <3> QED BY <2>2, <3>1
  <2> QED BY <2>1, <2>2 DEF Init
<1>2. <<>> \in Seq(File) /\ <<>> \in Seq(Result) /\ [f \in File |-> Nothing] \in [File -> Count]
  BY DEF Count, Nothing
<1> QED BY <1>1, <1>2 DEF Init, ContractInv, TypeInv, Remembered, Nothing

LEMMA StepOK ==
    ASSUME ContractInv, [Next]_vars
    PROVE  ContractInv'
<1>1. CASE Cycle
  <2>1. /\ TypeInv'
        /\ \A f \in File :
             /\ f \in attempted => f \in attempted'
             /\ f \notin attempted' => /\ spent'[f].scan = spent[f].scan
                                       /\ spent'[f].forced = spent[f].forced
    BY <1>1, CycleOK DEF ContractInv
  <2>2. ASSUME NEW f \in File, f \notin attempted' PROVE spent'[f] = Nothing
    <3>1. spent[f] = Nothing
      BY <2>1, <2>2 DEF ContractInv, Remembered
    <3>2. spent'[f].scan = 0 /\ spent'[f].forced = 0 /\ spent'[f] \in Count
      BY <2>1, <2>2, <3>1 DEF Nothing, TypeInv
    <3> QED BY <3>2 DEF Nothing, Count
  <2> QED BY <2>1, <2>2 DEF ContractInv, Remembered
<1>2. CASE ~Cycle
  <2>1. /\ TypeInv'
        /\ \/ attempted' = attempted /\ spent' = spent
           \/ attempted' = {} /\ spent' = [f \in File |-> Nothing]
    BY <1>2, OtherSteps DEF ContractInv
  <2> QED BY <2>1 DEF ContractInv, Remembered
<1> QED BY <1>1, <1>2

---------------------------------------------------------------------------
(* The theorems *)

\* The daemon remembers every contract it has answered since it started, whoever asked
\* for the answer (attemptedKeys, contracts.ts:38-41).
THEOREM ContractInvAlways == Spec => []ContractInv
<1>1. Init => ContractInv
  BY InitOK
<1>2. ContractInv /\ [Next]_vars => ContractInv'
  BY StepOK
<1> QED BY <1>1, <1>2, PTL DEF Spec

\* A scan never answers a contract that this daemon has answered before.
THEOREM ScansNeverRepeat == Spec => ScanRepeatsNothing
<1>1. ContractInv /\ [Next]_vars =>
        [\A f \in File : spent'[f].scan > spent[f].scan => spent[f] = [scan |-> 0, forced |-> 0]]_vars
  <2> SUFFICES ASSUME ContractInv, [Next]_vars, NEW f \in File, spent'[f].scan > spent[f].scan
               PROVE  spent[f] = Nothing
    BY DEF Nothing
  <2>0. spent[f] \in Count /\ spent[f].scan \in Nat
    BY DEF ContractInv, TypeInv, Count
  <2>1. CASE Cycle
    <3>1. f \in attempted => spent'[f].scan = spent[f].scan
      BY <2>1, CycleOK DEF ContractInv
    <3>2. f \notin attempted
      BY <2>0, <3>1
    <3> QED BY <3>2 DEF ContractInv, Remembered
  <2>2. CASE ~Cycle
    <3>1. spent' = spent \/ spent' = [g \in File |-> Nothing]
      BY <2>2, OtherSteps DEF ContractInv
    <3> QED BY <2>0, <3>1 DEF Nothing
  <2> QED BY <2>1, <2>2
<1> QED BY <1>1, ContractInvAlways, PTL DEF Spec, ScanRepeatsNothing

\* Scans alone leave minTries - 1 tries of every contract they get wrong.
THEOREM ScansLeaveTries == Spec => LastTriesKept
<1>1. ContractInv /\ [Next]_vars =>
        [\A f \in File :
            On(shelf, f) /\ ~Verdict(shelf[f]) /\ TriesOf(shelf'[f]) < TriesOf(shelf[f])
              => TriesOf(shelf'[f]) >= MinTries - 1 \/ spent'[f].forced > spent[f].forced]_vars
  <2> SUFFICES ASSUME ContractInv, [Next]_vars, NEW f \in File, On(shelf, f), ~Verdict(shelf[f]),
                      TriesOf(shelf'[f]) < TriesOf(shelf[f])
               PROVE  TriesOf(shelf'[f]) >= MinTries - 1 \/ spent'[f].forced > spent[f].forced
    OBVIOUS
  <2>0. TriesOf(shelf[f]) \in Nat
    BY Slips DEF ContractInv, TypeInv
  <2>1. CASE Cycle
    <3>1. \/ Verdict(shelf[f]) \/ spent'[f].forced > spent[f].forced
          \/ TriesOf(shelf'[f]) = TriesOf(shelf[f]) \/ TriesOf(shelf'[f]) >= MinTries - 1
      BY <2>1, CycleOK DEF ContractInv
    <3> QED BY <2>0, <3>1
  <2>2. CASE ~Cycle
    <3>1. shelf'[f] = shelf[f]
      BY <2>2, OtherSteps DEF ContractInv, On
    <3> QED BY <2>0, <3>1
  <2> QED BY <2>1, <2>2
<1> QED BY <1>1, ContractInvAlways, PTL DEF Spec, LastTriesKept

\* What a cycle publishes: nothing that is gone, and everything on the scanned servers
\* that it has not just answered.
THEOREM ListAlwaysCurrent == Spec => ListIsCurrent
<1>1. ContractInv /\ [Next]_vars =>
        [Published =>
           /\ \A p \in pending' : On(shelf', p[1])
           /\ \A f \in File : On(shelf', f) /\ HostOf[f] \in Servers /\ spent'[f] = spent[f]
                              => \E p \in pending' : p[1] = f]_vars
  <2> SUFFICES ASSUME ContractInv, [Next]_vars, Published
               PROVE  /\ \A p \in pending' : On(shelf', p[1])
                      /\ \A f \in File : On(shelf', f) /\ HostOf[f] \in Servers /\ spent'[f] = spent[f]
                                         => \E p \in pending' : p[1] = f
    OBVIOUS
  <2>1. Cycle
    BY OtherSteps DEF ContractInv, Published
  <2>2. /\ TypeInv' /\ \A p \in pending' : TriesOf(shelf'[p[1]]) > 0
        /\ \A f \in File : /\ TriesOf(shelf'[f]) <= TriesOf(shelf[f])
                           /\ f \in Found /\ spent'[f] = spent[f] => \E p \in pending' : p[1] = f
    BY <2>1, CycleOK DEF ContractInv
  <2>3. \A f \in File : TriesOf(shelf[f]) \in Nat /\ TriesOf(shelf'[f]) \in Nat
    BY <2>2, Slips DEF ContractInv, TypeInv
  <2>4. ASSUME NEW f \in File, On(shelf', f), HostOf[f] \in Servers, spent'[f] = spent[f]
        PROVE  \E p \in pending' : p[1] = f
    <3>1. TriesOf(shelf[f]) > 0
      BY <2>2, <2>3, <2>4 DEF On
    <3>2. f \in Found
      BY <2>4, <3>1 DEF Found, On
    <3> QED BY <2>2, <2>4, <3>2
  <2> QED BY <2>2, <2>4 DEF On
<1> QED BY <1>1, ContractInvAlways, PTL DEF Spec, ListIsCurrent
=============================================================================
