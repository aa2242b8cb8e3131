----------------------------- MODULE MCContracts -----------------------------
(* Instances of Contracts for TLC. *)
EXTENDS Contracts, ContractRegistry, TLC

CONSTANTS f1, f2

Hosts == (f1 :> "home" @@ f2 :> "far")
Types == RightSolvers \cup {"Revised", "Baffling", "Novel"}
WithSolver == Types \ {"Novel"}

Grids(r, c) == [1 .. r -> [1 .. c -> {0, 1}]]
Triangles == {<<<<a>>, <<b, c>>, <<d, e, g>>>> : a \in {1}, b, c, d, e, g \in 0 .. 2}
Intervals == {iv \in (0 .. 3) \X (1 .. 5) : iv[1] < iv[2]}
Words(n) == UNION {[1 .. k -> {10, 11}] : k \in 0 .. n}
\* Lists of `lengths` with elements from S, the shortest included.
Lists(lengths, S) == UNION {[1 .. n -> S] : n \in lengths}
Edges(n) == {e \in (1 .. n) \X (1 .. n) : e[1] < e[2]}

\* Every encoding the rules allow of a few words, with the word it hides.
Encoded == UNION {{[shown |-> e, hidden |-> w] : e \in Rules!LzEncodings(w, 0, TRUE)} : w \in Words(4)}

\* A correct Hamming word of v with at most one bit flipped (0: none).
HammingWords(v) ==
  LET n == CHOOSE k \in 4 .. 12 : /\ k - 1 \notin Powers
                                  /\ Cardinality((1 .. k - 1) \ Powers) = Len(Rules!BitsOf(v))
      right == CHOOSE w \in [1 .. n -> {0, 1}] : Rules!IsCodeword(w, v)
  IN  {[shown |-> IF k = 0 THEN right ELSE [right EXCEPT ![k] = 1 - @], hidden |-> v] : k \in 0 .. n}

MCProblems(t) == CASE t \in {"Revised", "Baffling", "Novel"} -> {0}
                   [] t = "Square Root" -> {10}
                   [] OTHER -> {}

MCStanding(t) ==
  CASE t = "Find Largest Prime Factor" -> 2 .. 60
    [] t = "Square Root" -> 0 .. 120
    [] t = "Total Ways to Sum" -> 2 .. 9
    [] t = "Total Ways to Sum II" -> (1 .. 9) \X {<<1, 2>>, <<2, 3>>, <<3, 5>>, <<1, 3, 4>>, <<2, 5, 6>>}
    [] t = "Unique Paths in a Grid I" -> (1 .. 5) \X (1 .. 5)
    [] t = "Total Number of Primes" -> {<<a, b>> : a \in 0 .. 12, b \in {12, 25, 30, 49}}
    [] t = "Subarray with Maximum Sum" -> Lists(1 .. 4, -2 .. 2)
    [] t \in {"Array Jumping Game", "Array Jumping Game II"} -> Lists(1 .. 4, 0 .. 3)
    [] t \in {"Algorithmic Stock Trader I", "Algorithmic Stock Trader II"} -> Lists(0 .. 4, 0 .. 3)
    [] t = "Algorithmic Stock Trader III" -> Lists({0, 1, 2, 6}, {0, 2, 3})
    [] t = "Algorithmic Stock Trader IV" -> {1, 3} \X Lists({0, 1, 2, 5}, 0 .. 2)
    [] t = "Merge Overlapping Intervals" -> Lists(0 .. 3, Intervals)
    [] t = "Minimum Path Sum in a Triangle" -> Triangles \cup {<<<<a>>>> : a \in 0 .. 2}
    [] t \in {"Unique Paths in a Grid II", "Shortest Path in a Grid"} ->
         {g \in Grids(3, 3) \cup Grids(1, 3) \cup Grids(3, 1) : g[1][1] = 0 /\ Last(Last(g)) = 0}
    [] t = "Largest Rectangle in a Matrix" -> {g \in Grids(1, 1) \cup Grids(2, 3) \cup Grids(3, 2) \cup Grids(3, 3) :
                                                 Cardinality({rc \in (1 .. Len(g)) \X (1 .. Len(g[1])) :
                                                                g[rc[1]][rc[2]] = 0}) \in {1, 4, 5, 6}}
    [] t = "Spiralize Matrix" ->
         {[r \in 1 .. d[1] |-> [c \in 1 .. d[2] |-> 10 * r + c]] : d \in (1 .. 4) \X (1 .. 4)}
    [] t = "Compression I: RLE Compression" ->
         Words(4) \cup {[i \in 1 .. n |-> IF i <= n - k THEN 10 ELSE 11] : n \in 8 .. 20, k \in 0 .. 1}
    [] t = "Compression II: LZ Decompression" -> Encoded
    [] t = "Compression III: LZ Compression" -> Words(6) \cup {[i \in 1 .. 11 |-> 9 + i]}
    [] t = "HammingCodes: Integer to Encoded Binary" -> 1 .. 40
    [] t = "HammingCodes: Encoded Binary to Integer" -> UNION {HammingWords(v) : v \in {1, 2, 5, 9, 12, 20, 40}}
    [] t = "Encryption I: Caesar Cipher" -> [1 .. 2 -> {-1, 0, 12, 25}] \X {1, 25, 26, 27}
    [] t = "Encryption II: Vigenere Cipher" -> [1 .. 3 -> {0, 25}] \X [1 .. 2 -> {0, 1, 25}]
    [] t = "Generate IP Addresses" -> UNION {[1 .. n -> {0, 2, 6}] : n \in 4 .. 5} \cup [1 .. 6 -> {0, 2}]
    [] t = "Sanitize Parentheses in Expression" -> Lists(0 .. 5, {"(", ")", "a"})
    [] t = "Find All Valid Math Expressions" -> Lists(1 .. 3, 0 .. 3) \X {-3, 0, 1, 6}
    [] t = "Proper 2-Coloring of a Graph" -> ({1} \X {{}}) \cup ({4} \X SUBSET Edges(4))
    [] OTHER -> {}
=============================================================================
