--------------------------- MODULE ContractSolvers ---------------------------
(***************************************************************************)
(* The solvers of src/src/lib/contracts/solvers, one operator per exported *)
(* function, as they compute: the same sweep, table or search, with the    *)
(* loops written as folds and recursion.  Sequences are 1-based where the  *)
(* code's arrays are 0-based; a character is a number (a digit is itself,  *)
(* a letter is greater than 9), so that a string is a sequence of numbers. *)
(* What the game accepts as an answer is stated, independently of how it   *)
(* is found, in ContractRules.                                             *)
(***************************************************************************)
EXTENDS Integers, Sequences, FiniteSets, SequencesExt

\* Larger than any value the sweeps meet (Infinity in the code).
Infinity == 10000

Greater(a, b) == IF a >= b THEN a ELSE b
Lesser(a, b)  == IF a <= b THEN a ELSE b

\* <<a, a + 1, .., b>>
Upto(a, b) == [k \in 1 .. Greater(0, b - a + 1) |-> a + k - 1]

\* The number a sequence of digits spells (Number of a substring).
Number(digits) == FoldLeft(LAMBDA n, d : 10 * n + d, 0, digits)

Powers == {2 ^ k : k \in 0 .. 12}
-----------------------------------------------------------------------------
(* Sweeps over an array. *)

SubarrayMaxSum(arr) ==
  LET Sweep(acc, x) == LET cur == Greater(x, acc[1] + x)
                       IN  <<cur, Greater(acc[2], cur)>>
  IN  FoldLeft(Sweep, <<0, -Infinity>>, arr)[2]

StockTraderI(prices) ==
  LET Sweep(acc, p) == LET low == Lesser(acc[1], p)
                       IN  <<low, Greater(acc[2], p - low)>>
  IN  FoldLeft(Sweep, <<Infinity, 0>>, prices)[2]

StockTraderII(prices) ==
  LET Delta(sum, i) == IF i > 1 /\ prices[i] > prices[i - 1]
                       THEN sum + prices[i] - prices[i - 1] ELSE sum
  IN  FoldLeftDomain(Delta, 0, prices)

\* The table of at most k trades; within one price buy[t] reads the sell[t - 1] just updated.
TradeTable(k, prices) ==
  LET Trade(price, a, t) ==
        LET b == Greater(a.buy[t], a.sell[t - 1] - price)
        IN  [a EXCEPT !.buy[t] = b, !.sell[t] = Greater(a.sell[t], b + price)]
      Day(a, price) == FoldLeft(LAMBDA x, t : Trade(price, x, t), a, Upto(1, k))
  IN  FoldLeft(Day, [buy |-> [t \in 1 .. k |-> -Infinity], sell |-> [t \in 0 .. k |-> 0]], prices)

\* A variant with a shortcut taken one price too early.
StockTraderK_EarlyShortcut(k, prices) ==
  IF k >= (Len(prices) \div 2) - 1 THEN StockTraderII(prices)
  ELSE TradeTable(k, prices).sell[k]

StockTraderK(k, prices) ==
  IF Len(prices) < 2 THEN 0
  ELSE IF k >= Len(prices) \div 2 THEN StockTraderII(prices)
  ELSE TradeTable(k, prices).sell[k]

StockTraderIII(prices) == StockTraderK(2, prices)

ArrayJumpingGame(arr) ==
  LET reach[i \in 0 .. Len(arr)] ==     \* after i iterations
        IF i = 0 THEN 0
        ELSE IF i - 1 > reach[i - 1] THEN reach[i - 1]
        ELSE Greater(reach[i - 1], i - 1 + arr[i])
  IN  IF \E i \in 1 .. Len(arr) : i - 1 <= reach[i - 1] /\ reach[i] >= Len(arr) - 1 THEN 1 ELSE 0

ArrayJumpingGameII(arr) ==
  LET n == Len(arr)
      Step(a, i) ==
        LET far == Greater(a.far, i - 1 + arr[i])
        IN  IF a.done THEN a
            ELSE IF i - 1 = a.end
            THEN [jumps |-> a.jumps + 1, end |-> far, far |-> far, done |-> far >= n - 1]
            ELSE [a EXCEPT !.far = far]
      last == FoldLeft(Step, [jumps |-> 0, end |-> 0, far |-> 0, done |-> FALSE], Upto(1, n - 1))
  IN  IF last.done THEN last.jumps ELSE 0

MergeOverlappingIntervals(intervals) ==
  LET Merge(m, iv) == IF m # <<>> /\ iv[1] <= Last(m)[2]
                      THEN [m EXCEPT ![Len(m)][2] = Greater(@, iv[2])]
                      ELSE Append(m, iv)
  IN  FoldLeft(Merge, <<>>, SortSeq(intervals, LAMBDA a, b : a[1] < b[1]))

MinPathSumTriangle(triangle) ==
  LET Fold(dp, row) == [col \in 1 .. Len(row) |-> row[col] + Lesser(dp[col], dp[col + 1])]
  IN  FoldLeft(Fold, Last(triangle), Reverse(Front(triangle)))[1]
-----------------------------------------------------------------------------
(* Counting. *)

\* One coin added to the table; dp[j - coin] is already the new value.
AddCoin(dp, coin) ==
  LET new[j \in DOMAIN dp] == dp[j] + (IF j >= coin THEN new[j - coin] ELSE 0) IN new

TotalWaysToSumII(target, coins) ==
  FoldLeft(AddCoin, [j \in 0 .. target |-> IF j = 0 THEN 1 ELSE 0], coins)[target]

TotalWaysToSum(n) == TotalWaysToSumII(n, Upto(1, n - 1))

UniquePathsI(rows, cols) ==
  FoldLeft(LAMBDA result, i : (result * (rows + cols - 2 - i)) \div (i + 1), 1,
           Upto(0, Lesser(rows, cols) - 2))

UniquePathsII(grid) ==
  LET Row(dp, row) ==
        LET new[c \in DOMAIN row] ==
              IF row[c] = 1 THEN 0 ELSE dp[c] + (IF c > 1 THEN new[c - 1] ELSE 0)
        IN  new
      first == [c \in DOMAIN grid[1] |-> IF c = 1 /\ grid[1][1] # 1 THEN 1 ELSE 0]
  IN  Last(FoldLeft(Row, first, grid))

RECURSIVE LargestFactor(_, _), Strip(_, _)
Strip(val, factor) == IF val % factor = 0 THEN Strip(val \div factor, factor) ELSE val
LargestFactor(val, factor) ==
  IF factor * factor > val THEN IF val > 1 THEN val ELSE factor - 1
  ELSE LargestFactor(Strip(val, factor), factor + 1)
FindLargestPrimeFactor(n) == LargestFactor(n, 2)

\* Sieve the primes up to the root of high, then mark their multiples in the segment.
TotalPrimesInRange(from, high) ==
  LET low   == Greater(2, from)
      limit == CHOOSE r \in 0 .. high : r * r <= high /\ (r + 1) * (r + 1) > high
      Mark(marked, i) == IF i \in marked THEN marked
                         ELSE marked \cup {j \in i * i .. limit : j % i = 0}
      small == (2 .. limit) \ FoldLeft(Mark, {}, Upto(2, limit))
      Start(p) == Greater(p * p, ((low + p - 1) \div p) * p)
      composite == {m \in low .. high : \E p \in small : m >= Start(p) /\ (m - Start(p)) % p = 0}
  IN  IF high < low THEN 0 ELSE Cardinality((low .. high) \ composite)

RECURSIVE Newton(_, _)
Newton(big, x) == LET y == (x + big \div x) \div 2 IN IF y < x THEN Newton(big, y) ELSE x
SquareRoot(n) ==
  IF n = 0 THEN 0
  ELSE LET x == Newton(n, n) IN IF n - x * x > x THEN x + 1 ELSE x
-----------------------------------------------------------------------------
(* Codes. *)

RECURSIVE Chunks(_, _), RleCompress(_), Unpack(_, _, _)
Chunks(count, ch) == IF count > 9 THEN <<9, ch>> \o Chunks(count - 9, ch) ELSE <<count, ch>>
RleCompress(s) ==
  IF s = <<>> THEN <<>>
  ELSE LET count == CHOOSE k \in 1 .. Len(s) : /\ \A i \in 1 .. k : s[i] = s[1]
                                               /\ k < Len(s) => s[k + 1] # s[1]
       IN  Chunks(count, s[1]) \o RleCompress(SubSeq(s, count + 1, Len(s)))

\* The rest of an encoding, its next chunk a literal or not, after `out`.
Unpack(s, isLiteral, out) ==
  IF s = <<>> THEN out
  ELSE LET len == s[1]
           Copy(o, j) == Append(o, o[Len(o) - s[2] + 1])
       IN  IF len = 0 THEN Unpack(Tail(s), ~isLiteral, out)
           ELSE IF isLiteral
           THEN Unpack(SubSeq(s, len + 2, Len(s)), FALSE, out \o SubSeq(s, 2, len + 1))
           ELSE Unpack(SubSeq(s, 3, Len(s)), TRUE, FoldLeft(Copy, out, Upto(1, len)))
LzDecompress(s) == Unpack(s, TRUE, <<>>)

\* dp[i] holds the shortest codes of the first i characters: next chunk literal, next chunk a
\* back-reference.  A chunk of length 0 switches between the two.
Shorter(old, new) == IF Len(new) < Len(old) THEN new ELSE old

Switch_OneWay(codes) == <<codes[1], Shorter(codes[2], Append(codes[1], 0))>>

Switch(codes) ==
  LET back == Shorter(codes[2], Append(codes[1], 0))
  IN  <<Shorter(codes[1], Append(back, 0)), back>>

Expand(s, dp, i) ==
  LET here == Switch(dp[i])
      Offsets(len) == {o \in 1 .. Lesser(9, i) :
                         \A j \in 0 .. len - 1 : s[i + j + 1] = s[i - o + (j % o) + 1]}
      Reached(j) == LET len == j - i
                    IN  <<IF Offsets(len) = {} THEN dp[j][1]
                          ELSE Shorter(dp[j][1], here[2] \o <<len, Min(Offsets(len))>>),
                          Shorter(dp[j][2], here[1] \o <<len>> \o SubSeq(s, i + 1, j))>>
  IN  [j \in DOMAIN dp |-> IF j = i THEN here
                           ELSE IF j > i /\ j - i <= 9 THEN Reached(j) ELSE dp[j]]

LzCompress(s) ==
  LET unset == [k \in 1 .. 10 * Len(s) + 10 |-> 0]
      dp0   == [i \in 0 .. Len(s) |-> <<IF i = 0 THEN <<>> ELSE unset, unset>>]
      dp    == FoldLeft(LAMBDA d, i : Expand(s, d, i), dp0, Upto(0, Len(s)))
  IN  Shorter(dp[Len(s)][2], dp[Len(s)][1])

RECURSIVE Binary(_)
Binary(v) == IF v < 2 THEN <<v>> ELSE Append(Binary(v \div 2), v % 2)

\* The group of parity bit p: the positions whose number has that bit.
Group(p, last) == {i \in 1 .. last : (i \div p) % 2 = 1}
Parity(word, positions) == Cardinality({i \in positions : word[i] = 1}) % 2

\* The block ends right after the last data bit; position 0 is the parity of all the others.
HammingEncode(value) ==
  LET data    == Binary(value)
      Rank(i) == Cardinality((1 .. i) \ Powers)
      last    == CHOOSE i \in 1 .. 40 : Rank(i) = Len(data) /\ i \notin Powers
      raw     == [i \in 0 .. last |-> IF i = 0 \/ i \in Powers THEN 0 ELSE data[Rank(i)]]
      enc     == [i \in 1 .. last |-> IF i \in Powers THEN Parity(raw, Group(i, last)) ELSE raw[i]]
  IN  <<Parity(enc, 1 .. last)>> \o enc

HammingDecode(encoded) ==
  LET last  == Len(encoded) - 1
      bits  == [i \in 0 .. last |-> encoded[i + 1]]
      wrong == {p \in Powers : p <= last /\ Parity(bits, Group(p, last)) = 1}
      error == FoldSet(+, 0, wrong)
      fixed == IF error > 0 /\ error <= last THEN [bits EXCEPT ![error] = 1 - @] ELSE bits
  IN  FoldLeft(LAMBDA n, i : IF i \in Powers THEN n ELSE 2 * n + fixed[i], 0, Upto(1, last))

\* Letters are 0 .. 25 here and -1 is a character that is not one.
CaesarCipher(plaintext, shift) ==
  [i \in DOMAIN plaintext |->
     IF plaintext[i] < 0 THEN plaintext[i] ELSE ((plaintext[i] - (shift % 26)) + 26) % 26]

VigenereCipher(plaintext, keyword) ==
  [i \in DOMAIN plaintext |-> (plaintext[i] + keyword[((i - 1) % Len(keyword)) + 1]) % 26]
-----------------------------------------------------------------------------
(* Searches.  A list of answers whose order the game ignores is a set. *)

RECURSIVE Octets(_, _), Removals(_), Expressions(_, _, _, _), Bfs(_, _, _), Paint(_, _, _)

\* The lengths tried before the loop breaks on a leading zero or on a number above 255.
SegmentLengths(s) ==
  {len \in 1 .. Lesser(3, Len(s)) :
     \A l \in 1 .. len : (l > 1 => s[1] # 0) /\ Number(SubSeq(s, 1, l)) <= 255}
Octets(s, parts) ==
  IF parts = 0 THEN IF s = <<>> THEN {<<>>} ELSE {}
  ELSE UNION {{<<SubSeq(s, 1, len)>> \o rest : rest \in Octets(SubSeq(s, len + 1, Len(s)), parts - 1)}
              : len \in SegmentLengths(s)}
GenerateIPAddresses(s) == Octets(s, 4)

IsValidParens_TotalOnly(s) ==
  Cardinality({i \in DOMAIN s : s[i] = "("}) = Cardinality({i \in DOMAIN s : s[i] = ")"})

IsValidParens(s) ==
  LET count[i \in 0 .. Len(s)] ==
        IF i = 0 THEN 0
        ELSE count[i - 1] + (CASE s[i] = "(" -> 1 [] s[i] = ")" -> -1 [] OTHER -> 0)
  IN  count[Len(s)] = 0 /\ \A i \in 0 .. Len(s) : count[i] >= 0

\* One level of the search: every string of it with one more parenthesis removed.
Removals(queue) ==
  IF \E s \in queue : IsValidParens(s) THEN {s \in queue : IsValidParens(s)}
  ELSE Removals(UNION {{RemoveAt(s, i) : i \in {j \in DOMAIN s : s[j] \in {"(", ")"}}} : s \in queue})
SanitizeParentheses(s) == Removals({s})

\* An expression is a sequence of signed numbers <<operator, digits>>, the first with "".
Expressions(digits, target, value, lastTerm) ==
  IF digits = <<>> THEN IF value = target THEN {<<>>} ELSE {}
  ELSE LET Tails(len, op, v, last) ==
             {<<<<op, SubSeq(digits, 1, len)>>>> \o rest :
                 rest \in Expressions(SubSeq(digits, len + 1, Len(digits)), target, v, last)}
           lens == {len \in 1 .. Len(digits) : len > 1 => digits[1] # 0}
           Num(len) == Number(SubSeq(digits, 1, len))
       IN  UNION {     Tails(len, "+", value + Num(len), Num(len))
                  \cup Tails(len, "-", value - Num(len), -Num(len))
                  \cup Tails(len, "*", value - lastTerm + lastTerm * Num(len), lastTerm * Num(len))
                  : len \in lens}
FindAllValidMathExpressions(digits, target) ==
  UNION {{<<<<"", SubSeq(digits, 1, len)>>>> \o rest :
             rest \in Expressions(SubSeq(digits, len + 1, Len(digits)), target,
                                  Number(SubSeq(digits, 1, len)), Number(SubSeq(digits, 1, len)))}
          : len \in {l \in 1 .. Len(digits) : l > 1 => digits[1] # 0}}

Moves == <<[dr |-> -1, dc |-> 0, dir |-> "U"], [dr |-> 1, dc |-> 0, dir |-> "D"],
           [dr |-> 0, dc |-> -1, dir |-> "L"], [dr |-> 0, dc |-> 1, dir |-> "R"]>>

\* Breadth first: the queue holds cells with the path to them.
Bfs(grid, queue, visited) ==
  LET cell == Head(queue)
      Visit(acc, m) ==
        LET r == cell.r + m.dr  c == cell.c + m.dc
        IN  IF r \in DOMAIN grid /\ c \in DOMAIN grid[1] /\ <<r, c>> \notin acc[2] /\ grid[r][c] = 0
            THEN <<Append(acc[1], [r |-> r, c |-> c, path |-> Append(cell.path, m.dir)]),
                   acc[2] \cup {<<r, c>>}>>
            ELSE acc
      next == FoldLeft(Visit, <<Tail(queue), visited>>, Moves)
  IN  IF queue = <<>> THEN <<>>
      ELSE IF cell.r = Len(grid) /\ cell.c = Len(grid[1]) THEN cell.path
      ELSE Bfs(grid, next[1], next[2])
ShortestPathInGrid(grid) ==
  IF grid[1][1] = 1 \/ Last(Last(grid)) = 1 THEN <<>>
  ELSE Bfs(grid, <<[r |-> 1, c |-> 1, path |-> <<>>]>>, {<<1, 1>>})

\* Colours spread from the queue; an edge between equal colours ends the search without one.
\* The first node of each component gets 0, so the order of the queue does not matter.
Paint(adj, queue, colors) ==
  LET uncolored == {v \in DOMAIN adj : colors[v] = -1}
      node == IF queue # {} THEN CHOOSE v \in queue : TRUE ELSE Min(uncolored)
      base == IF queue # {} THEN colors ELSE [colors EXCEPT ![node] = 0]
      fresh == {v \in adj[node] : base[v] = -1}
  IN  IF queue = {} /\ uncolored = {} THEN colors
      ELSE IF \E v \in adj[node] : base[v] = base[node] THEN <<>>
      ELSE Paint(adj, (queue \ {node}) \cup fresh,
                 [v \in DOMAIN base |-> IF v \in fresh THEN 1 - base[node] ELSE base[v]])
Proper2Coloring(n, edges) ==
  LET adj == [u \in 1 .. n |-> {v \in 1 .. n : <<u, v>> \in edges \/ <<v, u>> \in edges}]
  IN  Paint(adj, {}, [v \in 1 .. n |-> -1])

RECURSIVE Spiral(_, _, _, _, _)
Spiral(m, top, bottom, left, right) ==
  LET Row(r, a, b) == [k \in DOMAIN Upto(a, b) |-> m[r][Upto(a, b)[k]]]
      Col(c, a, b) == [k \in DOMAIN Upto(a, b) |-> m[Upto(a, b)[k]][c]]
      low  == IF top + 1 <= bottom THEN bottom - 1 ELSE bottom
      back == IF top + 1 <= bottom THEN Reverse(Row(bottom, left, right - 1)) ELSE <<>>
      up   == IF left <= right - 1 THEN Reverse(Col(left, top + 1, low)) ELSE <<>>
      far  == IF left <= right - 1 THEN left + 1 ELSE left
  IN  IF top > bottom \/ left > right THEN <<>>
      ELSE Row(top, left, right) \o Col(right, top + 1, bottom) \o back \o up
           \o Spiral(m, top + 1, low, far, right - 1)
SpiralizeMatrix(matrix) == Spiral(matrix, 1, Len(matrix), 1, Len(matrix[1]))

\* For each cell the run of zeros above it, widened while the neighbours are as tall; the first
\* widest wins.  The answer is <<r1, c1, r2, c2>>.
LargestRectangle(grid) ==
  LET cells == (DOMAIN grid) \X (DOMAIN grid[1])
      height[rc \in (0 .. Len(grid)) \X (DOMAIN grid[1])] ==
        IF rc[1] = 0 \/ (rc \in cells /\ grid[rc[1]][rc[2]] # 0) THEN 0
        ELSE height[<<rc[1] - 1, rc[2]>>] + 1
      h     == [rc \in cells |-> height[rc]]
      Tall(rc, c) == \A k \in Lesser(c, rc[2]) .. Greater(c, rc[2]) : h[<<rc[1], k>>] >= h[rc]
      Left(rc)    == Min({c \in DOMAIN grid[1] : Tall(rc, c)})
      Right(rc)   == Max({c \in DOMAIN grid[1] : Tall(rc, c)})
      area  == [rc \in cells |-> (Right(rc) - Left(rc) + 1) * h[rc]]
      Before(a, b) == a[1] < b[1] \/ (a[1] = b[1] /\ a[2] <= b[2])
      best  == CHOOSE rc \in cells : /\ \A x \in cells : area[x] <= area[rc]
                                     /\ \A x \in cells : area[x] = area[rc] => Before(rc, x)
  IN  IF area[best] = 0 THEN <<1, 1, 1, 1>>
      ELSE <<best[1] - h[best] + 1, Left(best), best[1], Right(best)>>
=============================================================================
