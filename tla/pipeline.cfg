\* One job, two sweepers, locks that outlive their tasks.
SPECIFICATION Spec
CONSTANTS
  j1 = j1
  j2 = j2
  n1 = n1
  n2 = n2
  s1 = s1
  s2 = s2
  NoJob = NoJob
  Jobs = {j1}
  Callback = {}
  BadOpts = {}
  TimeoutTerminal = {}
  Slots = {n1, n2}
  Sweepers = {s1, s2}
  ConvertRetries = 1
  WebhookRetries = 0
  MaxRetry <- MCMaxRetry
  MaxRecoveries = 1
  MaxFaults = 2
  LockMayLapse = FALSE
SYMMETRY Symmetry
INVARIANTS
  TypeOK
  OneLiveTask
  DoneHasOutput
  NoWorkAfterDone
  RecoveryBudget
  HonestCount
  ExhaustIsEarned
  OneSweepPerSession
PROPERTIES
  FinalStatusIsFinal
  ImplementsLifecycle
