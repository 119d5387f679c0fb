\* Unique locks whose TTL runs out under a waiting or running task.
SPECIFICATION Spec
CONSTANTS
  j1 = j1
  j2 = j2
  n1 = n1
  n2 = n2
  s1 = s1
  s2 = s2
  NoJob = NoJob
  Jobs = {j1}
  Callback = {}
  BadOpts = {}
  TimeoutTerminal = {j1}
  Slots = {n1, n2}
  Sweepers = {s1, s2}
  ConvertRetries = 1
  WebhookRetries = 0
  MaxRetry <- MCMaxRetry
  MaxRecoveries = 1
  MaxFaults = 1
  LockMayLapse = TRUE
SYMMETRY Symmetry
INVARIANTS
  DoneHasOutput
  RecoveryBudget
PROPERTIES
  FinalStatusIsFinal
  ImplementsLifecycle
