---------------------------- MODULE ContractRules ----------------------------
(***************************************************************************)
(* External: what the game accepts as an answer to a coding contract.  The *)
(* rule of each type is stated by definition (a maximum over all choices,  *)
(* the set of all solutions, the word with the right parities), never by   *)
(* the method a solver uses.  `data` is what the contract shows; where the *)
(* game keeps the answer to itself the data carry it as `hidden`.          *)
(***************************************************************************)
EXTENDS Integers, Sequences, FiniteSets, SequencesExt

SumSeq(s) == FoldLeft(+, 0, s)
\* The elements of s at the positions in S, in order.
Pick(s, S) == FoldLeftDomain(LAMBDA acc, i : IF i \in S THEN Append(acc, s[i]) ELSE acc, <<>>, s)
IsPrime(n) == n > 1 /\ \A d \in 2 .. n - 1 : n % d # 0
NumberOf(digits) == FoldLeft(LAMBDA n, d : 10 * n + d, 0, digits)

RECURSIVE BestProfit(_, _), Parts(_, _), Routes(_, _, _), Descend(_, _, _), Peel(_),
          LzCost(_, _, _), LzEncodings(_, _, _)

\* At most k trades, each bought before it is sold, one after the other.
BestProfit(k, prices) ==
  IF k = 0 \/ Len(prices) < 2 THEN 0
  ELSE Max({0} \cup {prices[ij[2]] - prices[ij[1]] + BestProfit(k - 1, SubSeq(prices, ij[2], Len(prices)))
                     : ij \in {x \in (1 .. Len(prices)) \X (1 .. Len(prices)) : x[1] < x[2]}})

\* The positions reached from the first in at most k jumps.
Jumped(arr, k) ==
  LET reach[n \in 0 .. k] ==
        IF n = 0 THEN {1}
        ELSE reach[n - 1] \cup {j \in DOMAIN arr : \E i \in reach[n - 1] : i < j /\ j <= i + arr[i]}
  IN  reach[k]
CanJump(arr) == Len(arr) \in Jumped(arr, Len(arr))

\* Two lists of intervals cover the same points (halves tell touching from adjacent).
Covers(intervals, x) == \E i \in DOMAIN intervals : 2 * intervals[i][1] <= x /\ x <= 2 * intervals[i][2]

\* The ways to write n with parts from `coins`, the largest part first.
Parts(n, coins) ==
  IF n = 0 THEN 1
  ELSE MapThenSumSet(LAMBDA c : Parts(n - c, {d \in coins : d <= c}), {c \in coins : c <= n})

\* The ways to walk right and down to <<r, c>> over free cells.
Routes(grid, r, c) ==
  IF grid[r][c] = 1 THEN 0
  ELSE IF r = 1 /\ c = 1 THEN 1
  ELSE (IF r > 1 THEN Routes(grid, r - 1, c) ELSE 0) + (IF c > 1 THEN Routes(grid, r, c - 1) ELSE 0)

\* The least sum of a way down the triangle from <<r, c>>.
Descend(tri, r, c) ==
  tri[r][c] + (IF r = Len(tri) THEN 0 ELSE Min({Descend(tri, r + 1, c), Descend(tri, r + 1, c + 1)}))

\* The first row, then what is left of the matrix turned a quarter to the left.
Peel(m) ==
  IF m = <<>> THEN <<>>
  ELSE LET rest == Tail(m)  width == Len(Head(m))
       IN  Head(m) \o Peel(IF rest = <<>> THEN <<>>
                           ELSE [c \in 1 .. width |-> [r \in DOMAIN rest |-> rest[r][width + 1 - c]]])

\* Run-length codes: pairs of a count from 1 to 9 and a character.
RleDecode(code) ==
  FlattenSeq([k \in 1 .. Len(code) \div 2 |-> [i \in 1 .. code[2 * k - 1] |-> code[2 * k]]])
RunStarts(s) == {i \in DOMAIN s : i = 1 \/ s[i - 1] # s[i]}
RunLength(s, i) == Cardinality({j \in i .. Len(s) : \A k \in i .. j : s[k] = s[i]})
RleLength(s) == 2 * MapThenSumSet(LAMBDA i : (RunLength(s, i) + 8) \div 9, RunStarts(s))

\* The offsets at which a back-reference for the characters after the first i could point.
Sources(s, i, len) == {o \in 1 .. Min({9, i}) : \A j \in 1 .. len : s[i + j] = s[i + j - o]}
ChunkLengths(s, i) == 1 .. Min({9, Len(s) - i})

\* The shortest way to encode what follows the first i characters, next chunk a literal or not.
LzCost(s, i, literal) ==
  LET Lit  == {1 + len + LzCost(s, i + len, FALSE) : len \in ChunkLengths(s, i)}
      Back == {2 + LzCost(s, i + len, TRUE) : len \in {l \in ChunkLengths(s, i) : Sources(s, i, l) # {}}}
      Plus1(S) == {n + 1 : n \in S}
  IN  IF i = Len(s) THEN 0
      ELSE Min(IF literal THEN Lit \cup Plus1(Back) ELSE Back \cup Plus1(Lit))

\* Every encoding of what follows the first i characters without needless empty chunks.
LzEncodings(s, i, literal) ==
  LET Lit  == UNION {{<<len>> \o SubSeq(s, i + 1, i + len) \o e : e \in LzEncodings(s, i + len, FALSE)}
                     : len \in ChunkLengths(s, i)}
      Back == UNION {{<<len, o>> \o e : o \in Sources(s, i, len), e \in LzEncodings(s, i + len, TRUE)}
                     : len \in ChunkLengths(s, i)}
      Empty(S) == {<<0>> \o e : e \in S}
  IN  IF i = Len(s) THEN {<<>>}
      ELSE IF literal THEN Lit \cup Empty(Back) ELSE Back \cup Empty(Lit)

\* Hamming words, from position 0: the value's bits off the powers of two, every group even, all even.
TwoPowers == {1, 2, 4, 8, 16, 32}
BitsOf(v) == LET n == CHOOSE k \in 1 .. 12 : v < 2 ^ k /\ (k = 1 \/ v >= 2 ^ (k - 1))
             IN  [i \in 1 .. n |-> (v \div 2 ^ (n - i)) % 2]
IsCodeword(word, v) ==
  LET last  == Len(word) - 1
      free  == {i + 1 : i \in (1 .. last) \ TwoPowers}
      Even(S) == Cardinality({i \in S : word[i + 1] = 1}) % 2 = 0
  IN  /\ Pick(word, free) = BitsOf(v)
      /\ last \notin TwoPowers
      /\ Even(0 .. last)
      /\ \A p \in TwoPowers : Even({i \in 1 .. last : (i \div p) % 2 = 1})

\* The four numbers a string of digits may be cut into.
IpAddresses(s) ==
  LET Cut(l, k) == LET start == SumSeq(SubSeq(l, 1, k - 1)) IN SubSeq(s, start + 1, start + l[k])
      Octet(d)  == NumberOf(d) <= 255 /\ (Len(d) > 1 => d[1] # 0)
  IN  {[k \in 1 .. 4 |-> Cut(l, k)] :
         l \in {x \in [1 .. 4 -> 1 .. 3] : SumSeq(x) = Len(s) /\ \A k \in 1 .. 4 : Octet(Cut(x, k))}}

\* Balanced strings left by the removal of the fewest parentheses.
Balanced(s) ==
  LET Opens(n, ch) == Cardinality({i \in 1 .. n : s[i] = ch})
  IN  /\ Opens(Len(s), "(") = Opens(Len(s), ")")
      /\ \A n \in DOMAIN s : Opens(n, "(") >= Opens(n, ")")
Sanitized(s) ==
  LET parens == {i \in DOMAIN s : s[i] \in {"(", ")"}}
      Keep(D) == Pick(s, (DOMAIN s) \ D)
      good    == {D \in SUBSET parens : Balanced(Keep(D))}
  IN  {Keep(D) : D \in {x \in good : \A y \in good : Cardinality(x) <= Cardinality(y)}}

\* An expression is a sequence of <<operator, digits>>; * binds tighter than + and -.
ValueOf(e) ==
  LET terms == {i \in DOMAIN e : e[i][1] # "*"}
      Term(i) == LET last == Max({j \in i .. Len(e) : \A k \in i + 1 .. j : e[k][1] = "*"})
                 IN  FoldLeft(LAMBDA p, k : p * NumberOf(e[k][2]),
                              IF e[i][1] = "-" THEN -1 ELSE 1, [k \in 1 .. last - i + 1 |-> i + k - 1])
  IN  MapThenSumSet(Term, terms)
AllExpressions(digits) ==
  LET n == Len(digits)
      Of(ops) == LET starts == Pick([i \in 1 .. n |-> i], {1} \cup {i \in 2 .. n : ops[i] # ""})
                     End(k) == IF k = Len(starts) THEN n ELSE starts[k + 1] - 1
                 IN  [k \in DOMAIN starts |-> <<IF k = 1 THEN "" ELSE ops[starts[k]],
                                                SubSeq(digits, starts[k], End(k))>>]
  IN  {e \in {Of(ops) : ops \in [2 .. n -> {"", "+", "-", "*"}]} :
         \A k \in DOMAIN e : Len(e[k][2]) > 1 => e[k][2][1] # 0}

\* The cells a path of "U", "D", "L", "R" visits, and those reached in at most k steps.
Walk(path) ==
  LET at[i \in 0 .. Len(path)] ==
        IF i = 0 THEN <<1, 1>>
        ELSE CASE path[i] = "U" -> <<at[i - 1][1] - 1, at[i - 1][2]>>
               [] path[i] = "D" -> <<at[i - 1][1] + 1, at[i - 1][2]>>
               [] path[i] = "L" -> <<at[i - 1][1], at[i - 1][2] - 1>>
               [] path[i] = "R" -> <<at[i - 1][1], at[i - 1][2] + 1>>
  IN  at
Free(grid) == {rc \in (DOMAIN grid) \X (DOMAIN grid[1]) : grid[rc[1]][rc[2]] = 0}
Within(grid, k) ==
  LET Near(a, b) == (a[1] - b[1]) * (a[1] - b[1]) + (a[2] - b[2]) * (a[2] - b[2]) = 1
      reach[n \in 0 .. k] ==
        IF n = 0 THEN {<<1, 1>>} \cap Free(grid)
        ELSE reach[n - 1] \cup {b \in Free(grid) : \E a \in reach[n - 1] : Near(a, b)}
  IN  reach[k]
IsShortestPath(grid, path) ==
  LET goal == <<Len(grid), Len(grid[1])>>
  IN  IF path = <<>> THEN goal \notin Within(grid, Cardinality(Free(grid)))
      ELSE /\ \A i \in 0 .. Len(path) : Walk(path)[i] \in Free(grid)
           /\ Walk(path)[Len(path)] = goal
           /\ goal \notin Within(grid, Len(path) - 1)

IsColoring(n, edges, colors) == \A e \in edges : colors[e[1]] # colors[e[2]]

RectArea(r) == (r[3] - r[1] + 1) * (r[4] - r[2] + 1)
ZeroRects(grid) ==
  {r \in (DOMAIN grid) \X (DOMAIN grid[1]) \X (DOMAIN grid) \X (DOMAIN grid[1]) :
     /\ r[1] <= r[3] /\ r[2] <= r[4]
     /\ \A x \in r[1] .. r[3], y \in r[2] .. r[4] : grid[x][y] = 0}
-----------------------------------------------------------------------------
\* The game's verdict on an answer to a contract of a type.
Accepts(type, d, a) ==
  CASE type = "Find Largest Prime Factor" -> a = Max({p \in 2 .. d : IsPrime(p) /\ d % p = 0})
    [] type = "Subarray with Maximum Sum" ->
         a = Max({SumSeq(SubSeq(d, ij[1], ij[2])) : ij \in {x \in (DOMAIN d) \X (DOMAIN d) : x[1] <= x[2]}})
    [] type = "Total Ways to Sum" -> a = Parts(d, 1 .. d - 1)
    [] type = "Total Ways to Sum II" -> a = Parts(d[1], ToSet(d[2]))
    [] type = "Array Jumping Game" -> a = IF CanJump(d) THEN 1 ELSE 0
    [] type = "Array Jumping Game II" ->
         a = IF CanJump(d) THEN Min({k \in 0 .. Len(d) : Len(d) \in Jumped(d, k)}) ELSE 0
    [] type = "Merge Overlapping Intervals" ->
         /\ \A i \in 1 .. Len(a) - 1 : a[i][2] < a[i + 1][1]
         /\ \A x \in 0 .. 20 : Covers(a, x) <=> Covers(d, x)
    [] type = "Minimum Path Sum in a Triangle" -> a = Descend(d, 1, 1)
    [] type = "Algorithmic Stock Trader I" -> a = BestProfit(1, d)
    [] type = "Algorithmic Stock Trader II" -> a = BestProfit(Len(d), d)
    [] type = "Algorithmic Stock Trader III" -> a = BestProfit(2, d)
    [] type = "Algorithmic Stock Trader IV" -> a = BestProfit(d[1], d[2])
    [] type = "Unique Paths in a Grid I" ->
         a = Routes([r \in 1 .. d[1] |-> [c \in 1 .. d[2] |-> 0]], d[1], d[2])
    [] type = "Unique Paths in a Grid II" -> a = Routes(d, Len(d), Len(d[1]))
    [] type = "Square Root" -> \* the nearest integer
         (a > 0 => (2 * a - 1) * (2 * a - 1) <= 4 * d) /\ 4 * d <= (2 * a + 1) * (2 * a + 1)
    [] type = "Total Number of Primes" -> a = Cardinality({p \in d[1] .. d[2] : IsPrime(p)})
    [] type = "Spiralize Matrix" -> a = Peel(d)
    [] type = "Compression I: RLE Compression" -> RleDecode(a) = d /\ Len(a) = RleLength(d)
    [] type = "Compression II: LZ Decompression" -> a = d.hidden
    [] type = "Compression III: LZ Compression" ->
         Len(a) = LzCost(d, 0, TRUE) /\ a \in LzEncodings(d, 0, TRUE)
    [] type = "HammingCodes: Integer to Encoded Binary" -> IsCodeword(a, d)
    [] type = "HammingCodes: Encoded Binary to Integer" -> a = d.hidden
    [] type = "Encryption I: Caesar Cipher" ->
         \A i \in DOMAIN d[1] : IF d[1][i] < 0 THEN a[i] = d[1][i] ELSE (a[i] + d[2]) % 26 = d[1][i]
    [] type = "Encryption II: Vigenere Cipher" ->
         \A i \in DOMAIN d[1] : \E k \in DOMAIN d[2] :
            (i - k) % Len(d[2]) = 0 /\ (d[1][i] + d[2][k]) % 26 = a[i]
    [] type = "Generate IP Addresses" -> a = IpAddresses(d)
    [] type = "Sanitize Parentheses in Expression" -> a = Sanitized(d)
    [] type = "Find All Valid Math Expressions" ->
         a = {e \in AllExpressions(d[1]) : ValueOf(e) = d[2]}
    [] type = "Shortest Path in a Grid" -> IsShortestPath(d, a)
    [] type = "Proper 2-Coloring of a Graph" ->
         IF \E c \in [1 .. d[1] -> {0, 1}] : IsColoring(d[1], d[2], c)
         THEN a # <<>> /\ IsColoring(d[1], d[2], a) ELSE a = <<>>
    [] type = "Largest Rectangle in a Matrix" ->
         a \in ZeroRects(d) /\ \A r \in ZeroRects(d) : RectArea(r) <= RectArea(a)
    [] OTHER -> FALSE
=============================================================================
