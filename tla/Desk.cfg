SPECIFICATION MCSpec
ACTION_CONSTRAINT Scenarios
CONSTANTS
  w1 = w1  w2 = w2  cli = cli  q1 = q1  b1 = b1  b2 = b2  x1 = x1  m1 = m1  m2 = m2
  p1 = p1  p2 = p2  t1 = t1  t2 = t2  f1 = f1  f2 = f2  k1 = k1  k2 = k2
  o1 = o1  o2 = o2  r1 = r1  r2 = r2
  Inherit = Inherit  None = None  Unknown = Unknown
  Scale = 6  Unit = 30  Policy <- CoarsePolicy
  Reviewer = {w1, w2}  Analyst = {w1, w2}  Shop = {p1, p2}  Request = {q1}
  DecisionId = {b1, b2}  ExecutionId = {x1}  Model = {m1, m2}
  MaxVersion = 1  MaxRevision = 1  MaxReviews = 2  MaxDesk = 3
SYMMETRY Names
INVARIANTS
  ReviewsAgree
  AiUsedFrozenTask
  DryRunsAreCurrent
  LatestKnownDecides
  RulesAreConsistent
  AdviceIsCautious
  ControlRowIsTrue
  LinkProvesIdentity
  NothingSkipped
  DoneIsCurrent
  ProjectionWasObserved
  SyncRepairs
CHECK_DEADLOCK FALSE
