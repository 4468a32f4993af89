SPECIFICATION MCSpec
CONSTANTS
  s1 = s1
  s2 = s2
  admin = admin
  b1 = b1
  c1 = c1
  c2 = c2
  k1 = k1
  k2 = k2
  d1 = d1
  Servers = {s1, s2}
  Embedded = {s2}
  Boundaries = {b1, admin}
  Admin = admin
  Commands = {c1, c2}
  Target <- MCTarget
  Histories <- MCHistories
  MaxFaults = 2
  Creators = {k1, k2}
  Droppers = {d1}
  Spellings <- MCSpellings
  Indexed = b1
  MaxIndexFaults = 1
INVARIANTS
  OneEventOfEachKind
  ActivationIsTerminal
  ContextAgreesWithCatalog
  ExposedOnlyWhenReady
  EveryBoundaryIsCounted
  NothingForgotten
  ListedIndexIsUsable
SYMMETRY CommandSymmetry
CHECK_DEADLOCK FALSE
