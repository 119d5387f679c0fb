\* One page, one job, the keys of two clients, two polls in flight, one fault.
SPECIFICATION FairSpec
CONSTANTS
  j1 = j1
  c1 = c1
  c2 = c2
  k1 = k1
  k2 = k2
  padded = padded
  photo = photo
  webp = webp
  heic = heic
  EmptyField = EmptyField
  NoKey = NoKey
  NoFile = NoFile
  NoJob = NoJob
  Idle = Idle
  NoFetch = NoFetch
  NoReply = NoReply
  NoBody = NoBody
  NoError = NoError
  Jobs = {j1}
  Clients = {c1, c2}
  Keys = {k1, k2}
  Owner <- MCOwner
  Files = {photo}
  Targets = {webp, heic}
  DefaultTarget = webp
  Convertible <- MCConvertible
  RawKeys = {EmptyField, k1, k2, padded}
  Trim <- MCTrim
  Fetches = {1, 2}
  MaxFaults = 1
INVARIANTS
  TypeOK
  ShowsLatestJob
  ShownVerdictIsTrue
  LivePollsAreCurrent
PROPERTIES
  VerdictStays
  ReloadKeepsKey
  SubmitReturns
  VerdictReachesPage
