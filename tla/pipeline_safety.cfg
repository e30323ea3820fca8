CONSTANTS
  m1 = m1
  m2 = m2
  good = good
  bad = bad
  Msgs <- MCMsgs
  Sqls <- MCSqls
  Broken <- MCBroken
  Names = {n1, n2}
  Sections <- MCSections
  NoSql = NoSql
  Missing = Missing
  Corrupt = Corrupt
VIEW View
SPECIFICATION Spec
INVARIANTS
  TypeOK
  CorrectSqlParses
  FixedSqlParses
  OutputsAreDisjoint
  NoMessageIsDropped
  HintsAreCurrent
