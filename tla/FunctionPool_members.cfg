SPECIFICATION PoolSpec
CONSTANTS
  p1 = p1  p2 = p2
  h0 = h0  h1 = h1  h2 = h2
  position = position  distance = distance
  Points <- TwoPoints
  Hash = {h0, h1, h2}
  HashOf <- Exactly
  ZeroHash = h0
  Blank = Blank
  Functions <- TwoFunctions
  OutputsOf <- Outs
  Callback = callback
  EngineKinds = {FALSE, TRUE}
  CachedMembers = {position}
  DirectCalls = {position, callback}
  CacheSizes = {1, 2}
  JacobianSize = 1
  Nowhere = Nowhere
INVARIANTS AnswersAreOfTheArgument OutputsArePacked
CHECK_DEADLOCK FALSE
