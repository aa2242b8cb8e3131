SPECIFICATION Spec
CONSTANTS
  Jobs <- MCJobs
  MaxAttempts = 120
  Moduli <- MCModuli
  SmallPrimes <- MCSmallPrimes
  LargePrimes <- MCLargePrimes
INVARIANTS KnowledgeSound CracksUnlessHindered
PROPERTIES CrackEnds
CHECK_DEADLOCK FALSE
