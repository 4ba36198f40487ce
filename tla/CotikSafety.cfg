SPECIFICATION Spec
ACTION_CONSTRAINT Scenarios
CONSTANTS
  i1 = i1  i2 = i2  i3 = i3  o1 = o1  o2 = o2  t1 = t1  t2 = t2
  a1 = a1  a2 = a2  daemon = daemon  cli = cli  v0 = v0  v1 = v1
  Worker = {daemon, cli}
  Stager = {dashboard}
  Intent = {i1, i2, i3}
  Order = {o1, o2}
  Tracking = {t1, t2, byHand}
  Account = {a1, a2}
  Version = {v0, v1}
  OrderOf <- OrdersOf
  TrackingOf <- TrackingsOf
  SourceOf <- ReplayOfFirst
  VersionOf <- DaemonAndCli
  OldVersion = v0
  ForeignTracking = byHand
  Scopes <- AllRows
  MaxAttempts = 2
  MaxFaults = 1
  NoIntent = NoIntent  NoAccount = NoAccount  NoTracking = NoTracking
  NoVersion = NoVersion  NoWorker = NoWorker
INVARIANTS
  Ledger
  AbortedWasNeverSent
  SentOnFreshEvidence
  RearmedForDeployment
  ConfirmedWasHeld
  ReplayedOnlyIfHeld
PROPERTIES
  SentOnceAndSettled
  ImplementsContract
