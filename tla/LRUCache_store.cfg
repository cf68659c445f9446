SPECIFICATION Spec
CONSTANTS
  k1 = k1  k2 = k2  k3 = k3  k4 = k4
  h0 = h0  h2 = h2  h3 = h3
  Keys <- FourKeys
  Values = {v1, v2}
  Hash = {h0, h2, h3}
  HashOf <- PaddingAndCollidingHash
  ZeroHash = h0
  Blank = Blank
  Miss = Miss
  Sizes = {0, 1, 2, 3}
INVARIANTS TypeOK Consistent NoUndefinedBehaviour
PROPERTY ImplementsLRUStore
CHECK_DEADLOCK FALSE
