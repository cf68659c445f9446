SPECIFICATION Spec
CONSTANTS
  Families <- MCFamilies
  Levels <- MCLevels
  Bounds <- MCBounds
  Scalars <- MCScalars
  MaxBuilt = 2
INVARIANTS
  TypeOK
  JacobiansFollowValues
  
  
  LinearTypesAreAffine
CHECK_DEADLOCK FALSE
