CONSTANTS
  d1 = d1
  d2 = d2
  i1 = i1
  i2 = i2
  Dirs <- MCDirs
  Ids <- MCIds
  Archives <- MCArchives
  NoMail = NoMail
  Missing = Missing
  Truncated = Truncated
SPECIFICATION MailsSpec
INVARIANTS
  MailsTypeOK
  NoQuestionIsLost
