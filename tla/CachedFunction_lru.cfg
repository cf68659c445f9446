SPECIFICATION Spec
CONSTANTS
  p1 = p1  p2 = p2  p3 = p3
  h0 = h0  h1 = h1  h2 = h2  h3 = h3
  Points <- ThreePoints
  Hash = {h0, h1, h2, h3}
  HashOf <- Exactly
  ZeroHash = h0
  Blank = Blank
  None = None
  Outputs <- TwoOutputs
  Size = 2
  DerivativeSize = 1
  Queries <- AskValue
  MaxVersion = 0
INVARIANT RecentlyUsedIsCached
CHECK_DEADLOCK FALSE
