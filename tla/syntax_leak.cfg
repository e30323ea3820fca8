CONSTANTS
  k1 = k1
  k2 = k2
  k3 = k3
  good = good
  bad1 = bad1
  bad2 = bad2
  Keys <- MCKeys
  Sqls <- MCSqls
  Broken <- MCBroken
  Unreadable = Unreadable
  NotJson = NotJson
  NotObject = NotObject
  Old = Old
  Truncated = Truncated
  Documents <- MCSectionFiles
SPECIFICATION Spec
CHECK_DEADLOCK FALSE
INVARIANT FreesUsedMemory
