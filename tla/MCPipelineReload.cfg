SPECIFICATION Spec
CONSTANTS
  MaxTokens = 2
  MaxRuns = 2
  MaxLinks = 2
  MaxRebuilds = 0
  MaxReloads = 1
  IdSpace <- MCIdSpace
  NoShard = NoShard
  Vocabulary = 0
  Values <- MCValues
  Exp <- MCExp
INVARIANT LateRepliesDropped
CHECK_DEADLOCK FALSE
