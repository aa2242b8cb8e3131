------------------------------ MODULE Crack ------------------------------
(***************************************************************************)
(* How an agent cracks one neighbour: driveSolver of workers/dnet-agent.ts *)
(* with the solvers of lib/darknet/solvers.  The solver is a pure function *)
(* of its state and of the feedback on the last attempt; the agent asks    *)
(* the server, sends an attempt again when the request timed out, and      *)
(* reads the verdict's details from the server's log, where its own line   *)
(* can be missing or lie below those of other agents.                      *)
(*                                                                         *)
(* A character is a number from 1 to the size of the alphabet, a password  *)
(* or an attempt a sequence of numbers: of characters, of digits, or the   *)
(* one number (or the place in the dictionary) it stands for.  A neighbour *)
(* (job) has a model, a password, an alphabet, a difficulty, a salt for    *)
(* what else it shows, hb when the agent may call heartbleed on it, and    *)
(* the number of the agent's log lines it loses.  The solvers              *)
(* KingOfTheHill (an optimum of a sum of exponentials) and MathML (an      *)
(* arithmetic expression) are left out.                                    *)
(***************************************************************************)
EXTENDS Integers, Sequences, SequencesExt, FiniteSets, FiniteSetsExt, Bitwise

CONSTANTS
  Jobs,         \* the neighbours: what they are, see MCCrack
  MaxAttempts,  \* policy.maxAttempts
  Moduli,       \* the moduli BigMo%od asks for
  SmallPrimes, LargePrimes

ASSUME BoundsAssumption ==
  MaxAttempts \in Nat \ {0}

VARIABLES
  job,          \* the neighbour being cracked
  st,           \* the solver's state
  feedback,     \* the feedback on the last refused attempt
  attempt,      \* the attempt that is under way
  attempts,     \* refused attempts
  timeouts,     \* consecutiveTimeouts
  phase,        \* "ask", "sent", or how the call ended
  lost,         \* log lines lost so far
  unlucky       \* a sniffed capture was of no new use

vars == <<job, st, feedback, attempt, attempts, timeouts, phase, lost, unlucky>>

CodeTimeouts == 5   \* MAX_CONSECUTIVE_TIMEOUTS
Never == 1000000    \* Infinity, above every response time

Blank == [tried |-> <<>>, heard |-> FALSE, data |-> <<>>, index |-> -1, elapsed |-> 0]

\* What a solver answers: no further attempt, or an attempt and its new state.
GiveUp == [quit |-> TRUE]
Try(a, s) == [quit |-> FALSE, attempt |-> a, st |-> s]

Size(j) == Len(j.pw)
Fill(n, c) == [i \in 1..n |-> c]

-----------------------------------------------------------------------------
(* The dictionaries: the words are tried in their order.                   *)

Dictionary == [ZeroLogon |-> 1, FreshInstall |-> 4, Laika |-> 4, EuroZone |-> 27, TopPass |-> 93]

NextWord(j, s) ==
  IF s.index > Dictionary[j.model] THEN GiveUp
  ELSE Try(<<s.index>>, [index |-> s.index + 1])

(* The decoders: one attempt, read off what the server shows.              *)

FromDigits(digits, base) == FoldLeft(LAMBDA n, d : n * base + d, 0, digits)

LastToken(hint) == <<Last(hint)>>
StripFiller(data) == SelectSeq(data, LAMBDA c : c \in 0..9)
DecodeBinary(groups) == [i \in DOMAIN groups |-> FromDigits(groups[i], 2)]
DecodeXor(encrypted, masks) ==
  [i \in DOMAIN encrypted |->
     IF i \in DOMAIN masks THEN encrypted[i] ^^ FromDigits(masks[i], 2) ELSE encrypted[i]]
\* Whole numbers only: neither digits behind the point nor a base that is no integer.
ParseBaseN(base, digits) == <<FromDigits(digits, base)>>

RECURSIVE Strip(_, _)
Strip(n, p) == IF n % p = 0 THEN Strip(n \div p, p) ELSE n
LargestPrimeFactor(n) == <<FoldLeft(Strip, n, SmallPrimes)>>

\* From the right: a letter smaller than its right neighbour is subtracted.
RomanNumeralDecoder(letters) ==
  FoldLeft(+, 0, [i \in DOMAIN letters |->
                    IF i < Len(letters) /\ letters[i] < letters[i + 1]
                    THEN -letters[i] ELSE letters[i]])

NextDecoded(s, fb) == IF fb # Blank THEN GiveUp ELSE Try(s.answer, s)

-----------------------------------------------------------------------------
(* Bisection: BellaCuore's range form and AccountsManager.                 *)

Too(word, fb) == fb.data = <<word>>
Low == 1
High == 2

\* An attempt that is too high or too low cuts the range at itself.
Bisect(s, fb) ==
  [s EXCEPT !.hi = IF Too(High, fb) THEN fb.tried[1] - 1 ELSE @,
            !.lo = IF Too(Low, fb) THEN fb.tried[1] + 1 ELSE @]

Middle(s) == IF s.lo > s.hi THEN GiveUp ELSE Try(<<(s.lo + s.hi) \div 2>>, s)

NextBellaCuore(s, fb) ==
  CASE fb = Blank -> Middle(s)
    [] fb # Blank /\ ~fb.heard -> GiveUp
    [] OTHER -> Middle(Bisect(s, fb))

NextAccountsManager(s, fb) ==
  CASE fb = Blank -> Middle(s)
    [] fb # Blank /\ ~fb.heard -> Try(<<s.count>>, [s EXCEPT !.count = @ + 1])
    [] OTHER -> Middle(Bisect(s, fb))

-----------------------------------------------------------------------------
(* NIL: each position is answered for itself, all are asked at once.       *)

Locked(s, fb) ==
  [i \in DOMAIN s.resolved |->
     IF s.resolved[i] = 0 /\ fb.data[i] = 1 THEN s.cand ELSE s.resolved[i]]

ProbeAll(s) ==
  Try([i \in DOMAIN s.resolved |-> IF s.resolved[i] = 0 THEN s.cand ELSE s.resolved[i]], s)

NextNil(j, s, fb) ==
  LET resolved == Locked(s, fb) IN
  CASE fb = Blank -> ProbeAll(s)
    [] fb # Blank /\ ~fb.heard -> GiveUp
    [] fb.heard /\ 0 \notin ToSet(resolved) -> Try(resolved, [s EXCEPT !.resolved = resolved])
    [] fb.heard /\ 0 \in ToSet(resolved) /\ s.cand = j.alpha -> GiveUp
    [] OTHER -> ProbeAll([resolved |-> resolved, cand |-> s.cand + 1])

-----------------------------------------------------------------------------
(* RateMyPix and DeepGreen: only the number of right positions is told.    *)
(* Every character is counted first, then placed one position at a time on *)
(* a background of a character that does not occur.                        *)

NoProbe == [kind |-> "none", char |-> 0, pos |-> 0]

Counted(seen) == FoldLeft(LAMBDA n, p : n + p[2], 0, seen)
CountOf(seen, k) == IF k <= Len(seen) THEN seen[k][2] ELSE 0

AfterScan(j, s, n) ==
  LET seen == IF n > 0 THEN Append(s.seen, <<s.probe.char, n>>) ELSE s.seen
      filler == IF n = 0 /\ s.filler = 0 THEN s.probe.char ELSE s.filler
      t == [s EXCEPT !.seen = seen, !.filler = filler]
  IN  IF Counted(seen) >= Size(j) /\ filler # 0
      THEN [t EXCEPT !.phase = "place", !.cand = 1, !.left = CountOf(seen, 1), !.pos = 1]
      ELSE [t EXCEPT !.scan = @ + 1]

AfterPlace(s, n) ==
  LET left == IF n > 0 THEN s.left - 1 ELSE s.left
      t == [s EXCEPT !.placed[s.probe.pos] = IF n > 0 THEN s.probe.char ELSE @]
  IN  IF left > 0 THEN [t EXCEPT !.left = left, !.pos = s.probe.pos + 1]
      ELSE [t EXCEPT !.cand = @ + 1, !.left = CountOf(s.seen, s.cand + 1), !.pos = 1]

NextPlace(s) ==
  LET free == {p \in s.pos..Len(s.placed) : s.placed[p] = 0} IN
  IF 0 \notin ToSet(s.placed) THEN Try(s.placed, s)
  ELSE IF free = {} \/ s.cand > Len(s.seen) THEN GiveUp
  ELSE LET pos == Min(free)
           char == s.seen[s.cand][1]
       IN  Try([i \in DOMAIN s.placed |-> IF i = pos THEN char ELSE s.filler],
               [s EXCEPT !.pos = pos, !.probe = [kind |-> "place", char |-> char, pos |-> pos]])

NextScan(j, s) ==
  IF s.scan > j.alpha THEN GiveUp
  ELSE Try(Fill(Size(j), s.scan), [s EXCEPT !.probe = [kind |-> "scan", char |-> s.scan, pos |-> 0]])

\* One call, given the number of right positions of the last attempt.
ScanThenPlace(j, s, fb, n) ==
  LET t == CASE s.probe.kind = "scan" -> AfterScan(j, s, n)
             [] s.probe.kind = "place" -> AfterPlace(s, n)
             [] OTHER -> s
  IN  CASE fb # Blank /\ ~fb.heard -> GiveUp
        [] t.phase = "scan" -> NextScan(j, t)
        [] OTHER -> NextPlace(t)

\* "peppers/length" and "exact,misplaced": the number before the separator.
NextRateMyPix(j, s, fb) == ScanThenPlace(j, s, fb, IF fb.heard THEN fb.data[1] ELSE 0)
NextDeepGreen(j, s, fb) == ScanThenPlace(j, s, fb, IF fb.heard THEN fb.data[1] ELSE 0)

-----------------------------------------------------------------------------
(* 2G_cellular: one position after the other, by the index the log names,  *)
(* or else by the response time, which rises by one step per right         *)
(* character over a base nobody knows.                                     *)

TimingStepMargin == 25

FreshPosition(known) ==
  [known |-> known, cand |-> 1, low |-> Never, best |-> 0, high |-> -1]

\* The response times of this position with one more in them.
Timed(s, fb) ==
  LET char == fb.tried[Len(s.known) + 1] IN
  [s EXCEPT !.low = IF fb.elapsed < @ THEN fb.elapsed ELSE @,
            !.best = IF fb.elapsed > s.high THEN char ELSE @,
            !.high = IF fb.elapsed > @ THEN fb.elapsed ELSE @]

ByIndex(j, s, fb) ==
  LET right == Min({fb.index, Size(j)}) IN
  IF right > Len(s.known) THEN FreshPosition(SubSeq(fb.tried, 1, right))
  ELSE [s EXCEPT !.cand = @ + 1]

ByTime(j, s, fb) ==
  LET t == Timed(s, fb)
      step == t.high - t.low
  IN  IF step >= TimingStepMargin \/ (s.cand = j.alpha /\ step > 0)
      THEN FreshPosition(Append(s.known, t.best))
      ELSE [t EXCEPT !.cand = @ + 1]

NextCellular(j, s, fb) ==
  LET t == CASE fb = Blank -> s
             [] fb # Blank /\ fb.index >= 0 -> ByIndex(j, s, fb)
             [] OTHER -> ByTime(j, s, fb)
  IN  IF t.cand > j.alpha \/ Len(t.known) >= Size(j) THEN GiveUp
      ELSE Try(t.known \o <<t.cand>> \o Fill(Size(j) - Len(t.known) - 1, 1), t)

-----------------------------------------------------------------------------
(* Factori-Os: "does the attempt divide the password" for the powers of    *)
(* every small prime, then for the large ones.                             *)

Divides(fb) == fb.data = <<1>>

Submit(s) == Try(<<s.product>>, [s EXCEPT !.phase = "submit"])

ProbeLarge(s, i) ==
  IF i > Len(LargePrimes) THEN Submit(s)
  ELSE Try(<<LargePrimes[i]>>, [s EXCEPT !.phase = "large", !.index = i])

ProbeSmall(j, s, i) ==
  IF i <= Len(SmallPrimes)
  THEN Try(<<SmallPrimes[i]>>, [s EXCEPT !.index = i, !.exponent = 1])
  ELSE IF j.difficulty > 12 THEN ProbeLarge(s, 1) ELSE Submit(s)

AfterSmall(j, s, fb) ==
  LET p == SmallPrimes[s.index] IN
  IF Divides(fb)
  THEN Try(<<p ^ (s.exponent + 1)>>, [s EXCEPT !.product = @ * p, !.exponent = @ + 1])
  ELSE ProbeSmall(j, s, s.index + 1)

AfterLarge(j, s, fb) ==
  LET p == LargePrimes[s.index]
      t == IF Divides(fb) THEN [s EXCEPT !.product = @ * p] ELSE s
  IN  IF Divides(fb) /\ s.phase = "large" /\ j.difficulty > 24
      THEN Try(<<p * p>>, [t EXCEPT !.phase = "largeRetest"])
      ELSE ProbeLarge(t, s.index + 1)

NextFactori(j, s, fb) ==
  CASE fb = Blank -> Try(<<SmallPrimes[1]>>, s)
    [] fb # Blank /\ (~fb.heard \/ s.phase = "submit") -> GiveUp
    [] fb.heard /\ s.phase = "small" -> AfterSmall(j, s, fb)
    [] OTHER -> AfterLarge(j, s, fb)

-----------------------------------------------------------------------------
(* BigMo%od: residues for coprime moduli, put together by the Chinese      *)
(* remainder theorem.                                                      *)

ModInverse(a, m) == CHOOSE x \in 0..(m - 1) : ((a % m) * x) % m = 1 % m

CrtCombine(x, y) ==
  LET t == (((y.r - x.r) % y.m) * ModInverse(x.m, y.m)) % y.m
  IN  [m |-> x.m * y.m, r |-> (x.r + x.m * t) % (x.m * y.m)]

NextBigMood(s, fb) ==
  LET residues == Append(s.residues, [m |-> Moduli[s.index], r |-> fb.data[1]])
      t == [index |-> s.index + 1, residues |-> residues]
  IN  CASE fb = Blank -> Try(<<Moduli[1]>>, s)
        [] fb # Blank /\ (~fb.heard \/ s.index > Len(Moduli)) -> GiveUp
        [] fb.heard /\ s.index < Len(Moduli) -> Try(<<Moduli[s.index + 1]>>, t)
        [] OTHER -> Try(<<FoldLeft(CrtCombine, Head(residues), Tail(residues)).r>>, t)

-----------------------------------------------------------------------------
(* PHP 5.4: the digits are known, their order is not.  Short passwords are *)
(* enumerated; of longer ones the server tells the root mean square of the *)
(* differences, printed with three decimals, and two probes of a position  *)
(* with 0 and 9 give its digit.  Here the deviation is counted in          *)
(* thousandths, and sums of squares in millionths.                         *)

Permutations0(digits) ==
  {f \in [DOMAIN digits -> ToSet(digits)] :
     /\ \A d \in ToSet(digits) : Cardinality({i \in DOMAIN f : f[i] = d})
                               = Cardinality({i \in DOMAIN f : digits[i] = d})
     /\ Len(digits) = 1 \/ f[1] # 0}

UniquePermutations(digits) ==
  SortSeq(FoldSet(LAMBDA f, s : Append(s, f), <<>>, Permutations0(digits)),
          LAMBDA f, g : FromDigits(f, 10) < FromDigits(g, 10))

SumSquares(j, fb) == fb.data[1] * fb.data[1] * Size(j)

Rounded(n, d) == (2 * n + d) \div (2 * d)

\* a^2 - (9 - a)^2 = 18 a - 81
DigitOf(sumZero, sumNine) ==
  Max({0, Min({9, Rounded(sumZero - sumNine + 81000000, 18000000)})})

ProbeDigit(s, digits, pos) ==
  LET cand == [digits EXCEPT ![pos] = 0] IN
  Try(cand, [s EXCEPT !.cand = cand, !.pos = pos, !.sub = "a"])

AfterNine(j, s, fb) ==
  LET digits == [s.cand EXCEPT ![s.pos] = DigitOf(s.sumA, SumSquares(j, fb))] IN
  IF s.pos < Size(j) THEN ProbeDigit(s, digits, s.pos + 1)
  ELSE Try(digits, [s EXCEPT !.cand = digits, !.done = TRUE])

NextPositional(j, s, fb) ==
  CASE fb = Blank -> ProbeDigit(s, s.cand, 1)
    [] fb # Blank /\ (~fb.heard \/ s.done) -> GiveUp
    [] fb.heard /\ s.sub = "a" ->
         LET cand == [s.cand EXCEPT ![s.pos] = 9] IN
         Try(cand, [s EXCEPT !.cand = cand, !.sub = "b", !.sumA = SumSquares(j, fb)])
    [] OTHER -> AfterNine(j, s, fb)

NextEnumerated(s) ==
  IF s.index > Len(s.queue) THEN GiveUp
  ELSE Try(s.queue[s.index], [s EXCEPT !.index = @ + 1])

NextPhp(j, s, fb) == IF Size(j) < 5 THEN NextEnumerated(s) ELSE NextPositional(j, s, fb)

-----------------------------------------------------------------------------
(* OpenWebAccessPoint: every refusal logs a capture of the network's       *)
(* traffic, with the password beside the host's name, or, on a difficult   *)
(* server, bare in noise: then the captures' substrings are intersected.   *)

SubstringsOfLength(s, n) == {SubSeq(s, i, i + n - 1) : i \in 1..(Len(s) - n + 1)}

\* What stands between the host's name and the next space.
Sniffed(capture) == Tail(capture)
Named(capture) == capture # <<>> /\ Head(capture) = 0

NextNamed(s, fb) ==
  IF Named(fb.data) THEN Try(Sniffed(fb.data), [s EXCEPT !.submitted = TRUE])
  ELSE Try(<<1>>, s)

NextBare(j, s, fb) ==
  LET found == SubstringsOfLength(fb.data, Size(j))
      cands == IF s.captured THEN s.candidates \cap found ELSE found
      t == [s EXCEPT !.captured = TRUE, !.candidates = cands]
  IN  IF Cardinality(cands) = 1
      THEN Try(CHOOSE c \in cands : TRUE, [t EXCEPT !.submitted = TRUE])
      ELSE Try(<<1>>, t)

NextAccessPoint(j, s, fb) ==
  CASE fb = Blank -> Try(<<1>>, s)
    [] fb # Blank /\ (~fb.heard \/ s.submitted) -> GiveUp
    [] fb.heard /\ ~s.submitted /\ j.difficulty > 16 -> NextBare(j, s, fb)
    [] OTHER -> NextNamed(s, fb)

-----------------------------------------------------------------------------
(* The game, as far as the solvers rely on it: what a server shows, when   *)
(* it lets an attempt in, and what it logs of a refused one.               *)

RECURSIVE Digits(_, _)
Digits(n, base) == IF n < base THEN <<n>> ELSE Append(Digits(n \div base, base), n % base)

Bits(n) == LET b == Digits(n, 2) IN Fill(8 - Len(b), 0) \o b

RomanParts == << <<1000>>, <<100, 1000>>, <<500>>, <<100, 500>>, <<100>>, <<10, 100>>, <<50>>,
                 <<10, 50>>, <<10>>, <<1, 10>>, <<5>>, <<1, 5>>, <<1>> >>
PartValue(part) == IF Len(part) = 1 THEN part[1] ELSE part[2] - part[1]

RECURSIVE RomanFrom(_, _)
RomanFrom(n, k) ==
  IF n = 0 THEN <<>>
  ELSE IF PartValue(RomanParts[k]) <= n
  THEN RomanParts[k] \o RomanFrom(n - PartValue(RomanParts[k]), k)
  ELSE RomanFrom(n, k + 1)
Roman(n) == RomanFrom(n, 1)

Mask(j, i) == (j.salt * i) % 256
WithFiller(digits) == FoldLeft(LAMBDA s, d : s \o <<10 + d, d>>, <<>>, digits)

Accepts(j, a) ==
  IF j.model = "ProverFlo"
  THEN Len(a) = 2 * Size(j) /\ SubSeq(a, 1, Size(j)) = SubSeq(a, Size(j) + 1, Len(a))
  ELSE a = j.pw

Right(j, a) == {i \in 1..Min({Len(a), Size(j)}) : a[i] = j.pw[i]}
Shared(j, a) == Max({k \in 0..Min({Len(a), Size(j)}) : 1..k \subseteq Right(j, a)})
Value(j) == j.pw[1]

\* Thousandths of the root mean square difference, rounded.
Deviation(j, a) ==
  LET s == FoldLeft(+, 0, [i \in 1..Size(j) |-> (a[i] - j.pw[i]) * (a[i] - j.pw[i])])
      down == CHOOSE r \in 0..9000 : /\ r * r * Size(j) <= 1000000 * s
                                     /\ (r + 1) * (r + 1) * Size(j) > 1000000 * s
  IN  IF (down * down + down) * Size(j) + Size(j) \div 4 < 1000000 * s THEN down + 1 ELSE down

Compared(j, a) == IF a[1] > Value(j) THEN <<High>> ELSE <<Low>>
Sorted(digits) == SortSeq(digits, <)

\* Three captures that have nothing but the password in common.
Captures(j) ==
  IF j.difficulty > 16
  THEN {Fill(k, 10 * k) \o j.pw \o Fill(3 - k, 10 * k + 1) : k \in 0..2}
  ELSE {<<0>> \o j.pw, <<>>}

Data(j, a) ==
  CASE j.model \in {"BellaCuore", "AccountsManager"} -> {Compared(j, a)}
    [] j.model = "Nil" -> {[i \in 1..Size(j) |-> IF i \in Right(j, a) THEN 1 ELSE 0]}
    [] j.model \in {"RateMyPix", "DeepGreen"} -> {<<Cardinality(Right(j, a))>>}
    [] j.model = "Factori" -> {IF Value(j) % a[1] = 0 THEN <<1>> ELSE <<0>>}
    [] j.model = "BigMood" -> {<<(Value(j) % a[1]) % (((a[1] - 1) % 32) + 1)>>}
    [] j.model = "Php" /\ Size(j) >= 5 -> {<<Deviation(j, a)>>}
    [] j.model = "AccessPoint" -> Captures(j)
    [] OTHER -> {<<>>}

\* The lines a refused attempt may leave in the log.
Lines(j, a) ==
  {[tried |-> a, heard |-> TRUE, data |-> d, elapsed |-> 0,
    index |-> IF j.model = "Cellular" THEN Shared(j, a) ELSE -1] : d \in Data(j, a)}

Elapsed(j, a) ==
  IF j.model = "Cellular" THEN {50 * Shared(j, a) + d : d \in {0, j.salt}} ELSE {0}

-----------------------------------------------------------------------------
(* The solvers of index.ts.                                                *)

Answer(j) ==
  CASE j.model = "DeskMemo" -> LastToken(<<j.salt, j.salt, Value(j)>>)
    [] j.model = "CloudBlare" -> StripFiller(WithFiller(j.pw))
    [] j.model = "Binary" -> DecodeBinary([i \in DOMAIN j.pw |-> Bits(j.pw[i])])
    [] j.model = "OrdoXenos" -> DecodeXor([i \in DOMAIN j.pw |-> j.pw[i] ^^ Mask(j, i)],
                                          [i \in DOMAIN j.pw |-> Bits(Mask(j, i))])
    [] j.model = "OctantVoxel" -> ParseBaseN(j.salt, Digits(Value(j), j.salt))
    [] j.model = "PrimeTime" -> LargestPrimeFactor(Value(j) * j.salt)
    [] j.model = "ProverFlo" -> Fill(2 * Size(j), 1)
    [] j.model = "BellaCuore" -> <<RomanNumeralDecoder(Roman(Value(j)))>>

Decoders == {"DeskMemo", "CloudBlare", "Binary", "OrdoXenos", "OctantVoxel", "PrimeTime", "ProverFlo"}

\* The solvers the agent never calls heartbleed for.
Blind == DOMAIN Dictionary \union Decoders

DecodesOnce(j) == j.model \in Decoders \/ (j.model = "BellaCuore" /\ j.difficulty < 8)

StartBellaCuore(j) ==
  [lo |-> RomanNumeralDecoder(Roman(Max({0, Value(j) - j.salt}))),
   hi |-> RomanNumeralDecoder(Roman(Value(j) + j.alpha))]
StartAccountsManager(j) == [lo |-> 0, hi |-> Max({0, 10 ^ Len(Digits(Value(j), 10)) - 1}), count |-> 0]
StartNil(j) == [resolved |-> Fill(Size(j), 0), cand |-> 1]
StartScan(j) ==
  [phase |-> "scan", scan |-> 1, seen |-> <<>>, filler |-> 0, placed |-> Fill(Size(j), 0),
   cand |-> 0, left |-> 0, pos |-> 1, probe |-> NoProbe]
StartFactori == [product |-> 1, phase |-> "small", index |-> 1, exponent |-> 1]
StartPhp(j) ==
  IF Size(j) < 5 THEN [queue |-> UniquePermutations(Sorted(j.pw)), index |-> 1]
  ELSE [cand |-> Sorted(j.pw), pos |-> 1, sub |-> "a", sumA |-> 0, done |-> FALSE]
StartAccessPoint == [captured |-> FALSE, candidates |-> {}, submitted |-> FALSE]

SolverStart(j) ==
  CASE j.model \in DOMAIN Dictionary -> [index |-> 1]
    [] DecodesOnce(j) -> [answer |-> Answer(j)]
    [] j.model = "BellaCuore" /\ ~DecodesOnce(j) -> StartBellaCuore(j)
    [] j.model = "AccountsManager" -> StartAccountsManager(j)
    [] j.model = "Nil" -> StartNil(j)
    [] j.model \in {"RateMyPix", "DeepGreen"} -> StartScan(j)
    [] j.model = "Cellular" -> FreshPosition(<<>>)
    [] j.model = "Factori" -> StartFactori
    [] j.model = "BigMood" -> [index |-> 1, residues |-> <<>>]
    [] j.model = "Php" -> StartPhp(j)
    [] j.model = "AccessPoint" -> StartAccessPoint

SolverNext(j, s, fb) ==
  CASE j.model \in DOMAIN Dictionary -> NextWord(j, s)
    [] DecodesOnce(j) -> NextDecoded(s, fb)
    [] j.model = "BellaCuore" /\ ~DecodesOnce(j) -> NextBellaCuore(s, fb)
    [] j.model = "AccountsManager" -> NextAccountsManager(s, fb)
    [] j.model = "Nil" -> NextNil(j, s, fb)
    [] j.model = "RateMyPix" -> NextRateMyPix(j, s, fb)
    [] j.model = "DeepGreen" -> NextDeepGreen(j, s, fb)
    [] j.model = "Cellular" -> NextCellular(j, s, fb)
    [] j.model = "Factori" -> NextFactori(j, s, fb)
    [] j.model = "BigMood" -> NextBigMood(s, fb)
    [] j.model = "Php" -> NextPhp(j, s, fb)
    [] j.model = "AccessPoint" -> NextAccessPoint(j, s, fb)

-----------------------------------------------------------------------------
(* The agent.                                                              *)

ModelMinAttempts == [Factori |-> 130, Cellular |-> 512, RateMyPix |-> 220, DeepGreen |-> 220]

\* Faulty variant: the cap of the configuration for every model.
Cap_PolicyOnly(j) == MaxAttempts

Cap(j) ==
  IF j.model \in DOMAIN ModelMinAttempts
  THEN Max({MaxAttempts, ModelMinAttempts[j.model]}) ELSE MaxAttempts

ChooseAttempt(j, s, fb, n) == IF n >= Cap(j) THEN GiveUp ELSE SolverNext(j, s, fb)

\* Faulty variant: the newest line, whoever's attempt it tells of.
FindFeedbackLine_Newest(lines, a) == IF lines = <<>> THEN Blank ELSE Head(lines)

\* The newest line that tells of the attempt just made.
FindFeedbackLine(lines, a) ==
  LET own == SelectSeq(lines, LAMBDA l : l.tried = a) IN
  IF own = <<>> THEN Blank ELSE Head(own)

\* The first attempt of another agent at the same server, which may stand
\* above this agent's own line; the own line may have left the ten newest.
Foreign(j) == SolverNext(j, SolverStart(j), Blank).attempt
Logs(j, a) ==
  LET own == {<<l>> : l \in Lines(j, a)} \union (IF lost < j.losses THEN {<<>>} ELSE {})
      others == {<<>>} \union (IF Accepts(j, Foreign(j)) THEN {} ELSE {<<l>> : l \in Lines(j, Foreign(j))})
  IN  {others_ \o own_ : others_ \in others, own_ \in own}

Init ==
  /\ \E m \in DOMAIN Jobs : job \in Jobs[m]
  /\ st = SolverStart(job)
  /\ feedback = Blank
  /\ attempt = <<>>
  /\ attempts = 0
  /\ timeouts = 0
  /\ phase = "ask"
  /\ lost = 0
  /\ unlucky = FALSE

\* The top of the loop: the solver names an attempt, or the call ends.
Choose ==
  /\ phase = "ask"
  /\ LET d == ChooseAttempt(job, st, feedback, attempts) IN
     IF d.quit THEN phase' = "gaveUp" /\ UNCHANGED <<st, attempt>>
     ELSE phase' = "sent" /\ st' = d.st /\ attempt' = d.attempt
  /\ UNCHANGED <<job, feedback, attempts, timeouts, lost, unlucky>>

Succeed ==
  /\ phase = "sent" /\ Accepts(job, attempt)
  /\ phase' = "cracked"
  /\ UNCHANGED <<job, st, feedback, attempt, attempts, timeouts, lost, unlucky>>

\* 503 and 351: the neighbour is gone, or no longer beside this agent.
Vanish ==
  /\ phase = "sent"
  /\ phase' = "left"
  /\ UNCHANGED <<job, st, feedback, attempt, attempts, timeouts, lost, unlucky>>

\* The request timed out before the password was looked at: the same attempt
\* is sent again, a few times.
TimeOut ==
  /\ phase = "sent"
  /\ timeouts' = timeouts + 1
  /\ phase' = IF timeouts' > CodeTimeouts THEN "left" ELSE "sent"
  /\ UNCHANGED <<job, st, feedback, attempt, attempts, lost, unlucky>>

\* Faulty variant: a refused attempt is not counted.
Refused_NotCounted(fb) ==
  /\ phase = "sent" /\ ~Accepts(job, attempt)
  /\ feedback' = fb
  /\ timeouts' = 0
  /\ phase' = "ask"
  /\ UNCHANGED <<job, st, attempt, attempts>>

\* The attempt was refused.
Refused(fb) ==
  /\ phase = "sent" /\ ~Accepts(job, attempt)
  /\ feedback' = fb
  /\ attempts' = attempts + 1
  /\ timeouts' = 0
  /\ phase' = "ask"
  /\ UNCHANGED <<job, st, attempt>>

Synthetic(t) == [Blank EXCEPT !.tried = attempt, !.elapsed = t]

RefuseUnheard ==
  /\ job.model \in Blind \/ ~job.hb
  /\ \E t \in Elapsed(job, attempt) : Refused(Synthetic(t))
  /\ UNCHANGED <<lost, unlucky>>

Heartbleed ==
  /\ job.model \notin Blind /\ job.hb
  /\ phase = "sent" /\ ~Accepts(job, attempt)
  /\ \E logs \in Logs(job, attempt), t \in Elapsed(job, attempt) :
       LET line == FindFeedbackLine(logs, attempt) IN
       /\ Refused(IF line = Blank THEN Synthetic(t) ELSE [line EXCEPT !.elapsed = t])
       /\ lost' = IF logs = <<>> \/ Last(logs).tried # attempt THEN lost + 1 ELSE lost
       /\ unlucky' = (unlucky \/ (job.model = "AccessPoint" /\ line.data \in {<<>>, feedback.data}))

Next == Choose \/ Succeed \/ Vanish \/ TimeOut \/ RefuseUnheard \/ Heartbleed

Ended == phase \in {"cracked", "gaveUp", "left"}

\* The agent's loop goes on until it returns (weak fairness of Next, which is
\* enabled until then and always changes the state).
Spec == Init /\ [][Next]_vars /\ (<>[]Ended \/ []<><<TRUE>>_vars)

-----------------------------------------------------------------------------
(* Properties.                                                             *)

\* No solver ever rules the password out.  Whatever times out, is lost from
\* the log or is logged beside it by other agents: the range still holds the
\* password, characters in place are right and passed ones wrong, a prefix
\* is one, a product divides it, residues and digits are its own, the
\* captures' common parts include it.
KnowledgeSound ==
  LET pw == job.pw IN
  CASE job.model \in DOMAIN Dictionary ->
         phase = "ask" => st.index <= pw[1]
    [] DecodesOnce(job) -> Accepts(job, st.answer)
    [] job.model \in {"BellaCuore", "AccountsManager"} /\ ~DecodesOnce(job) ->
         pw[1] \in st.lo..st.hi
    [] job.model = "Nil" ->
         \A i \in DOMAIN pw : IF st.resolved[i] = 0 THEN pw[i] >= st.cand ELSE pw[i] = st.resolved[i]
    [] job.model \in {"RateMyPix", "DeepGreen"} ->
         /\ \A k \in DOMAIN st.seen :
              st.seen[k][2] = Cardinality({i \in DOMAIN pw : pw[i] = st.seen[k][1]})
         /\ st.filler \notin ToSet(pw)
         /\ \A i \in DOMAIN pw : st.placed[i] \in {0, pw[i]}
         /\ st.phase = "place" =>
              \A i \in 1..(st.pos - 1) : st.placed[i] = 0 => pw[i] # st.seen[st.cand][1]
    [] job.model = "Cellular" -> st.known = SubSeq(pw, 1, Len(st.known))
    [] job.model = "Factori" -> pw[1] % st.product = 0
    [] job.model = "BigMood" ->
         \A k \in DOMAIN st.residues : pw[1] % st.residues[k].m = st.residues[k].r
    [] job.model = "Php" /\ Len(pw) >= 5 ->
         \A i \in 1..(st.pos - 1) : st.cand[i] = pw[i]
    [] job.model = "Php" /\ Len(pw) < 5 ->
         \A i \in 1..(st.index - (IF phase = "ask" THEN 1 ELSE 2)) : st.queue[i] # pw
    [] OTHER -> st.captured => pw \in st.candidates

\* Without heartbleed only these can do it: the blind ones, the response
\* times, short permutations, and counting.  docs/systems/darknet.md:125 says that
\* counting works without heartbleed; it ends at the cap, for which
\* MODEL_MIN_ATTEMPTS has no floor, short of the larger numbers of the model.
NeedsHeartbleed(j) ==
  \/ j.model \in {"Nil", "RateMyPix", "DeepGreen", "Factori", "BigMood", "AccessPoint"}
  \/ j.model = "BellaCuore" /\ j.difficulty >= 8
  \/ j.model = "AccountsManager" /\ Value(j) >= MaxAttempts - 1
  \/ j.model = "Php" /\ Size(j) >= 5

\* An agent that gives a neighbour up within its attempts was hindered: it
\* had no heartbleed where the model needs it, its own line was lost, or it
\* sniffed twice the same.  So the caps are large enough for the longest
\* passwords a solver that has what it needs can meet, and each solver covers its
\* whole space.
CracksUnlessHindered ==
  phase = "gaveUp" => \/ ~job.hb /\ NeedsHeartbleed(job)
                      \/ lost > 0
                      \/ unlucky

\* Every call ends, also when requests keep timing out or captures never
\* tell: the daemon's poll behind it is not held up by one neighbour.
CrackEnds == <>Ended
=============================================================================
