--------------------------- MODULE ContractRegistry ---------------------------
(***************************************************************************)
(* The registry of solvers (src/src/lib/contracts/index.ts) and the judge  *)
(* of their answers.  "Revised" stands for a type whose rule the game has  *)
(* changed under its solver, "Baffling" for one whose solver throws;       *)
(* "Novel" has none.                                                       *)
(***************************************************************************)
EXTENDS ContractSolvers

Rules == INSTANCE ContractRules

Answer(type, d) ==
  CASE type = "Find Largest Prime Factor" -> FindLargestPrimeFactor(d)
    [] type = "Subarray with Maximum Sum" -> SubarrayMaxSum(d)
    [] type = "Total Ways to Sum" -> TotalWaysToSum(d)
    [] type = "Total Ways to Sum II" -> TotalWaysToSumII(d[1], d[2])
    [] type = "Array Jumping Game" -> ArrayJumpingGame(d)
    [] type = "Array Jumping Game II" -> ArrayJumpingGameII(d)
    [] type = "Generate IP Addresses" -> GenerateIPAddresses(d)
    [] type = "Merge Overlapping Intervals" -> MergeOverlappingIntervals(d)
    [] type = "Compression I: RLE Compression" -> RleCompress(d)
    [] type = "HammingCodes: Integer to Encoded Binary" -> HammingEncode(d)
    [] type = "HammingCodes: Encoded Binary to Integer" -> HammingDecode(d.shown)
    [] type = "Spiralize Matrix" -> SpiralizeMatrix(d)
    [] type = "Unique Paths in a Grid I" -> UniquePathsI(d[1], d[2])
    [] type = "Unique Paths in a Grid II" -> UniquePathsII(d)
    [] type = "Minimum Path Sum in a Triangle" -> MinPathSumTriangle(d)
    [] type = "Algorithmic Stock Trader I" -> StockTraderI(d)
    [] type = "Algorithmic Stock Trader II" -> StockTraderII(d)
    [] type = "Algorithmic Stock Trader III" -> StockTraderIII(d)
    [] type = "Algorithmic Stock Trader IV" -> StockTraderK(d[1], d[2])
    [] type = "Sanitize Parentheses in Expression" -> SanitizeParentheses(d)
    [] type = "Find All Valid Math Expressions" -> FindAllValidMathExpressions(d[1], d[2])
    [] type = "Shortest Path in a Grid" -> ShortestPathInGrid(d)
    [] type = "Proper 2-Coloring of a Graph" -> Proper2Coloring(d[1], d[2])
    [] type = "Compression II: LZ Decompression" -> LzDecompress(d.shown)
    [] type = "Compression III: LZ Compression" -> LzCompress(d)
    [] type = "Encryption I: Caesar Cipher" -> CaesarCipher(d[1], d[2])
    [] type = "Encryption II: Vigenere Cipher" -> VigenereCipher(d[1], d[2])
    [] type = "Square Root" -> SquareRoot(d)
    [] type = "Total Number of Primes" -> TotalPrimesInRange(d[1], d[2])
    [] type = "Largest Rectangle in a Matrix" -> LargestRectangle(d)
    [] OTHER -> "an answer to the old rule"

\* The game's verdict on the solver's answer.
Judged(type, d) == Rules!Accepts(type, d, Answer(type, d))

\* The types whose solver should be right.
Sweeps == {"Subarray with Maximum Sum", "Total Ways to Sum", "Total Ways to Sum II",
  "Array Jumping Game", "Array Jumping Game II", "Merge Overlapping Intervals",
  "Minimum Path Sum in a Triangle", "Algorithmic Stock Trader I", "Algorithmic Stock Trader II",
  "Algorithmic Stock Trader III", "Algorithmic Stock Trader IV", "Unique Paths in a Grid I",
  "Unique Paths in a Grid II", "Find Largest Prime Factor", "Total Number of Primes", "Square Root"}
Codes == {"Compression I: RLE Compression", "Compression II: LZ Decompression",
  "Compression III: LZ Compression", "HammingCodes: Integer to Encoded Binary",
  "HammingCodes: Encoded Binary to Integer", "Encryption I: Caesar Cipher",
  "Encryption II: Vigenere Cipher"}
Searches == {"Generate IP Addresses", "Sanitize Parentheses in Expression",
  "Find All Valid Math Expressions", "Shortest Path in a Grid", "Proper 2-Coloring of a Graph",
  "Spiralize Matrix", "Largest Rectangle in a Matrix"}
RightSolvers == Sweeps \cup Codes \cup Searches
===============================================================================
