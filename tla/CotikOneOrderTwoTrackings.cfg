SPECIFICATION Spec
CONSTANTS
  i1 = i1  i2 = i2  o1 = o1  o2 = o2  t1 = t1  t2 = t2
  daemon = daemon  v0 = v0  v1 = v1
  Worker = {daemon}
  Stager = {dashboard}
  Intent = {i1, i2}
  Order = {o1}
  Tracking = {t1, t2, byHand}
  Account = {a1}
  Version = {v0, v1}
  OrderOf <- SameOrder
  TrackingOf <- DistinctTrackings
  SourceOf <- NoSource
  VersionOf <- DaemonAndCli
  OldVersion = v0
  ForeignTracking = byHand
  Scopes <- AllIntents
  MaxAttempts = 1
  MaxFaults = 0
  NoIntent = NoIntent  NoAccount = NoAccount  NoTracking = NoTracking
  NoVersion = NoVersion  NoWorker = NoWorker
INVARIANTS
  ConfirmedWasHeld
