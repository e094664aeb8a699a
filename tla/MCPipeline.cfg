SPECIFICATION Spec
CONSTANTS
  MaxTokens = 3
  MaxRuns = 3
  MaxLinks = 2
  MaxRebuilds = 0
  MaxReloads = 0
  IdSpace <- MCIdSpace
  NoShard = NoShard
  Vocabulary = 4
  Values <- MCValues
  Exp <- MCExp
INVARIANT TypeOK
INVARIANT OneStepWaiting
INVARIANT AnswersTheirStep
INVARIANT ContextIsThisRun
INVARIANT DrawsInProportion
PROPERTY StreamSpec
CHECK_DEADLOCK FALSE
