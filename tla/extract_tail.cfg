CONSTANTS
  k1 = k1
  k1b = k1b
  k2 = k2
  k3 = k3
  m1 = m1
  m2 = m2
  m3 = m3
  Keys <- MCKeys
  MsgIds <- MCMsgIds
  Strip <- MCStrip
  NoSql = NoSql
  Corrupt = Corrupt
  Inputs <- MCInputs
  Sqls = {s1}
  Threshold = 2
SPECIFICATION Spec
PROPERTY CompletedRunSavesAnswers
