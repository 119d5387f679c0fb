\* One document job with a callback, a retried delivery, one fault, under fairness.
SPECIFICATION FairSpec
CONSTANTS
  j1 = j1
  j2 = j2
  n1 = n1
  n2 = n2
  s1 = s1
  s2 = s2
  NoJob = NoJob
  Jobs = {j1}
  Callback = {j1}
  BadOpts = {}
  TimeoutTerminal = {j1}
  Slots = {n1}
  Sweepers = {s1}
  ConvertRetries = 0
  WebhookRetries = 1
  MaxRetry <- MCMaxRetry
  MaxRecoveries = 0
  MaxFaults = 1
  LockMayLapse = FALSE
INVARIANTS
  VerdictIsTrue
  FaultlessVerdicts
PROPERTIES
  NoSilentDrop
  EventuallyAttempted
