\* One job under fairness, one recovery, two faults.
SPECIFICATION FairSpec
CONSTANTS
  j1 = j1
  j2 = j2
  n1 = n1
  n2 = n2
  s1 = s1
  s2 = s2
  NoJob = NoJob
  Jobs = {j1}
  Callback = {}
  BadOpts = {}
  TimeoutTerminal = {}
  Slots = {n1}
  Sweepers = {s1}
  ConvertRetries = 0
  WebhookRetries = 0
  MaxRetry <- MCMaxRetry
  MaxRecoveries = 1
  MaxFaults = 2
  LockMayLapse = FALSE
PROPERTY
  SettlesEveryJob
