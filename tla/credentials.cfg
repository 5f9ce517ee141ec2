SPECIFICATION FairSpec
CONSTANTS
  t1 = t1
  t2 = t2
  t3 = t3
  k1 = k1
  k2 = k2
  TargetNames = {t1, t2, t3}
  Keys = {k1, k2}
  Contents <- MCContents
  Secrets <- MCSecrets
  Layouts <- MCLayouts
  MaxChanges = 2
  Nil = Nil
CHECK_DEADLOCK FALSE
PROPERTIES
  StartsWithItsOwn
  EmptyNeedsRival
  StartsInTheEnd
