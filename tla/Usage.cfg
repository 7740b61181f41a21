SPECIFICATION Spec
CONSTANTS
  MaxCpus = 2
  MaxTicks = 2
  Word = 64
  Bdevs <- MCBdevs
  Swaps <- MCSwaps
  Pages = 3
  MaxMoves = 2
  PAGE_KB = 4
  Uint = 8
INVARIANTS
  SharesAddUp
  SampleBounds
  MemErrorBounded
