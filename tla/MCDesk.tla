------------------------------- MODULE MCDesk -------------------------------
(***************************************************************************)
(* Instances of what is decided about shops and written for people, for    *)
(* TLC, one per scenario:                                                  *)
(*   reviews   DecisionCases: two reviewers of one request of one shop, a  *)
(*             sync and a new AI task between their reads;                 *)
(*   strangers DecisionCases: two reviewers, one request id for two shops; *)
(*   analysts  DecisionCases: a review and two analysts;                   *)
(*   evidence  ReviewEvidence: one reviewer, three syncs, two instants;    *)
(*   policy    RiskPolicy: two revisions, thresholds over a scale of 2;    *)
(*   health    ShopHealth: four orders and two settlements of some kinds;  *)
(*   control   RiskControl: two evaluators, orders that change twice;      *)
(*   profiles  ProfileVerification: two verifications, profiles and ids;   *)
(*   mails     GmailSync: two cycles over four mails of one order;         *)
(*   tab       TrackingSheet: one run, two rows of one order;              *)
(*   sources   CotikSources: two processes over two accounts, no fault;    *)
(*   alone     CotikSources: one process, one fault.                       *)
(***************************************************************************)
EXTENDS DecisionCases, HealthScore, Integers, TLC

CONSTANTS w1, w2, cli, q1, b1, b2, x1, m1, m2, p1, p2, t1, t2, f1, f2, k1, k2, o1,
          r1, r2, o2, Inherit

VARIABLES          \* of ReviewEvidence
  instant, rows, ordersRun, collected, financeRun, provenRun, captures, assessing,
  decided, updates

VARIABLES          \* of RiskPolicy
  revisions, now, resolving, outcome

VARIABLES          \* of ShopHealth
  sold, settled

VARIABLES          \* of RiskControl
  clock, orders, lock, evaluating, row, actions, known, streak

VARIABLES          \* of ProfileVerification
  profiles, shops, verifying

VARIABLES          \* of GmailSync
  mail, gone, file, cells, running, cycles, handled, missed

VARIABLES          \* of TrackingSheet
  sheet, result, intent, tracking, armed, acts, pc, kind, view, groups, group, writes,
  since

VARIABLES          \* of CotikSources
  status, lastSeen, discovery, checkpoint, obs, winner, version, itemsOf, display,
  time, syncing, todo, cur, began, answer, from, page, pages, passed, left, newest,
  pick, alone, syncs, faults

VARIABLE scenario

In(name) == scenario = name

-----------------------------------------------------------------------------
(* DecisionCases, which this module extends; its constants are the cfg's.   *)

\* Who moves in the scenarios: in reviews nobody at a desk, and one shop alone; in
\* strangers nobody at a desk, and no sync; in analysts one review of one shop, which
\* asks the task of one environment.  In sources and alone one process at a time
\* discovers, one account a time; in evidence the statements end in one order but for
\* the two of the finance runs, with syncs between any two, until the first case.  In
\* mails the second mail alone is deleted, between two cycles.
OneShop == \A r \in Reviewer : review'[r] # Idle => review'[r].shop = p1

Discovering == {"discoveries", "discover", "health"}

NoCycle == \A r \in DOMAIN running : running[r].step = "idle"

InTurn(held) ==
  \A r \in DOMAIN held :
    held[r].step = "load" =>
      LET unread == held[r].unread
      IN  /\ "previous" \in unread => "facts" \in unread
          /\ "facts" \in unread => "orders" \in unread
          /\ "orders" \in unread => {"latest", "proven"} \subseteq unread

Scenarios ==
  /\ scenario \in {"reviews", "strangers"} => desk' = desk
  /\ scenario \in {"reviews", "analysts"} => OneShop /\ stored'[p2] = 0
  /\ scenario \in {"strangers", "analysts"} => stored' = stored
  /\ In("analysts") =>
       revision' = revision /\ environment' = environment /\ reviews' <= 1
  /\ In("sources") \/ In("alone") =>
       /\ Cardinality({p \in DOMAIN syncing : syncing'[p] \in Discovering}) <= 1
       /\ \A p \in DOMAIN syncing :
            syncing'[p] \in Discovering => Cardinality(todo'[p]) <= 1
  /\ In("mails") => gone' = gone \/ (gone' = {2} /\ NoCycle)
  /\ In("evidence") =>
       /\ InTurn(assessing')
       /\ assessing[cli].step # "refused"
       /\ decided # <<>> => updates' = updates /\ collected' = collected

-----------------------------------------------------------------------------
(* ReviewEvidence, RiskPolicy and RiskControl.                              *)

\* Thresholds: the amounts to stop and to resume at, the rates, the fewest orders.
T(stopValue, resumeValue, stopRate, resumeRate, minimum) ==
  [stopValue |-> stopValue, resumeValue |-> resumeValue, stopRate |-> stopRate,
   resumeRate |-> resumeRate, minimum |-> minimum, stableCycles |-> 1]

GlobalThresholds == {T(2, 1, 1, 2, 0), T(1, 1, 1, 1, 0), T(2, 2, 2, 2, 2)}
ShopOverrides ==
  {T(Inherit, 2, Inherit, Inherit, Inherit), T(1, Inherit, Inherit, Inherit, Inherit),
   T(Inherit, Inherit, 2, Inherit, Inherit), T(Inherit, Inherit, Inherit, 1, 2),
   T(2, 2, Inherit, Inherit, Inherit)}
Published == T(2, 1, 1, 2, 0)
ReviewFacts ==
  [waiting : 0..2, moving : 0..1, unknown : {0, 1}, foreign : {0}, value : {0, 1}]
PolicyEvidence ==
  [complete : {"YES"}, reconciled : {"YES"}, proven : {TRUE}, age : {"FRESH"},
   amount : {-1, 2}]

Rules == INSTANCE RiskPolicy WITH
  Thresholds <- GlobalThresholds, Overrides <- ShopOverrides,
  INITIAL_GLOBAL <- Published, Facts <- ReviewFacts, Evidence <- PolicyEvidence,
  MaxRevisions <- 2, MaxClock <- 1, Scale <- 2, review <- resolving

Assessment == INSTANCE ReviewEvidence WITH
  Reviewer <- {cli}, Order <- {o1}, Kind <- {[status |-> "waiting", usd |-> TRUE]},
  Amount <- {1, 2}, Policy <- T(2, 2, 1, 1, 0), Window <- 0, MaxClock <- 1,
  MaxSyncs <- 3, MaxCases <- 1, Scale <- 2,
  clock <- instant, review <- assessing, cases <- decided, syncs <- updates

evidenceVars ==
  <<instant, rows, ordersRun, collected, financeRun, provenRun, captures, assessing,
    decided, updates>>

policyVars == <<revisions, now, resolving, outcome>>

\* The constants of HealthScore, which this module extends, are the cfg's.
\* Thresholds over a scale of 6; the weights and the scores of SCORE_POLICY_V1.
PerComponent(delivery, cancellation, refund, onHoldOrder, onHoldMoney, settlement) ==
  [deliveryRate |-> delivery, cancellationRate |-> cancellation, refundRate |-> refund,
   onHoldOrderRate |-> onHoldOrder, onHoldMoneyRate |-> onHoldMoney,
   settlementRate |-> settlement]

CoarsePolicy ==
  [weight |-> PerComponent(25, 20, 20, 15, 10, 10),
   good |-> PerComponent(6, 1, 1, 1, 1, 6), critical |-> PerComponent(3, 3, 3, 4, 4, 3),
   minimumReliableOrders |-> 2, minimumScaleOrders |-> 3, scaleMinimumScore |-> 8500,
   continueMinimumScore |-> 7000, pauseBelowScore |-> 4000,
   scaleMinimumConfidence |-> 9000, scaleMinimumGrowth |-> 0,
   scaleMinimumSettlementRate |-> 5, badTrendDelta |-> 2]

Sold(p, s, own, refund, eligible) ==
  [period |-> p, status |-> s, own |-> own, total |-> 1, refund |-> refund,
   eligible |-> eligible]
\* Some of the kinds of orders the schema admits: of the current period clean,
\* refunded and cancelled ones, whatever is known of them.
SoldKinds ==
  {Sold("current", "DELIVERED", TRUE, 0, TRUE), Sold("current", "DELIVERED", FALSE, Unknown, TRUE),
   Sold("current", "DELIVERED", TRUE, 1, TRUE), Sold("current", "IN_TRANSIT", TRUE, 0, TRUE),
   Sold("current", "CANCELED", TRUE, 0, FALSE), Sold("current", "CANCELED", TRUE, 0, Unknown),
   Sold("current", "CANCELED", TRUE, 1, FALSE),
   Sold("previous", "DELIVERED", TRUE, 0, TRUE), Sold("previous", "CANCELED", TRUE, 0, FALSE)}

Settled(o, state, expected, eligible, amount) ==
  [period |-> "current", order |-> o, state |-> state, own |-> TRUE,
   expected |-> expected, eligible |-> eligible, settled |-> amount]
SettledKinds ==
  {Settled(o1, "ON_HOLD", 1, Unknown, Unknown), Settled(o1, "SETTLED", 1, 1, 1),
   Settled(o2, "SETTLED", 2, 2, 2), Settled(Unknown, "ELIGIBLE", 1, 1, 0)}

Reports == INSTANCE ShopHealth WITH
  OrderKind <- SoldKinds, SettlementKind <- SettledKinds, MaxOrders <- 4,
  MaxSettlements <- 2,
  orders <- sold, settlements <- settled

healthVars == <<sold, settled>>

\* Unshipped orders below and at the value to stop at.
ControlFacts ==
  {[waiting |-> 0, moving |-> 1, unknown |-> 0, foreign |-> 0, value |-> v] : v \in {0, 2}}

Control == INSTANCE RiskControl WITH
  Evaluator <- {w1, w2}, Facts <- ControlFacts,
  Policy <- [T(2, 1, 1, 1, 0) EXCEPT !.stableCycles = 2],
  MaxClock <- 2, MaxVersion <- 2, MaxActions <- 1, Scale <- 2,
  now <- clock, pc <- evaluating

controlVars == <<clock, orders, lock, evaluating, row, actions, known, streak>>

-----------------------------------------------------------------------------
(* ProfileVerification, GmailSync and TrackingSheet.                        *)

Profiles == INSTANCE ProfileVerification WITH
  Verifier <- {w1, w2}, Profile <- {f1, f2}, TikTok <- {k1, k2},
  Failure <- {"LOGIN_REQUIRED"}, pc <- verifying

profilesVars == <<profiles, shops, verifying>>

Mails == INSTANCE GmailSync WITH
  Run <- {w1, w2}, Order <- {o1}, OrderOf <- [m \in 1..4 |-> o1],
  TrackingOf <- [m \in 1..4 |-> IF m = 1 THEN t1 ELSE None],
  Batch <- 2, Buffer <- 1, Discovery <- 3, Window <- 1, MaxMail <- 4, MaxCycles <- 2,
  MaxGone <- 1, sheet <- cells, pc <- running

mailsVars == <<mail, gone, file, cells, running, cycles, handled, missed>>

\* A row of the tab with a tracking number; or still without one.
Full(t) == [dated |-> TRUE, order |-> o1, shop |-> p1, shein |-> "SHEIN",
            tracking |-> t, note |-> "note"]

Tab == INSTANCE TrackingSheet WITH
  Caller <- {cli}, Row <- {r1, r2}, Cell <- {Full(t1), Full(t2), Full(None)},
  Proven <- {p1}, MaxActs <- 1, todo <- groups, cur <- group

tabVars ==
  <<sheet, result, intent, tracking, armed, acts, pc, kind, view, groups, group, writes,
    since>>

-----------------------------------------------------------------------------
(* CotikSources.                                                            *)

Sources == INSTANCE CotikSources WITH
  Proc <- {w1, w2}, Account <- {1, 2}, Order <- {o1}, Linked <- {1}, Odd <- {},
  PageSize <- 1, Overlap <- 1, MaxPages <- 1, MaxClock <- 2, MaxSyncs <- 2,
  MaxFaults <- 0, shown <- display, clock <- time, pc <- syncing, since <- from

Alone == INSTANCE CotikSources WITH
  Proc <- {cli}, Account <- {1, 2}, Order <- {o1}, Linked <- {1}, Odd <- {},
  PageSize <- 1, Overlap <- 1, MaxPages <- 2, MaxClock <- 2, MaxSyncs <- 2,
  MaxFaults <- 1, shown <- display, clock <- time, pc <- syncing, since <- from

sourcesVars ==
  <<status, lastSeen, discovery, checkpoint, obs, winner, version, itemsOf, display,
    time, syncing, todo, cur, began, answer, from, page, pages, passed, left, newest,
    pick, alone, syncs, faults>>

-----------------------------------------------------------------------------
(* The scenarios: DecisionCases stays in its initial state in those of the  *)
(* other modules, which are absent from the rest, their variables None.     *)

NoEvidence ==
  /\ instant = None /\ rows = None /\ ordersRun = None /\ collected = None
  /\ financeRun = None /\ provenRun = None /\ captures = None /\ assessing = None
  /\ decided = None /\ updates = None

NoPolicy ==
  /\ revisions = None /\ now = None /\ resolving = None /\ outcome = None

NoHealth == sold = None /\ settled = None

NoControl ==
  /\ clock = None /\ orders = None /\ lock = None /\ evaluating = None /\ row = None
  /\ actions = None /\ known = None /\ streak = None

NoProfiles ==
  /\ profiles = None /\ shops = None /\ verifying = None

NoMails ==
  /\ mail = None /\ gone = None /\ file = None /\ cells = None /\ running = None
  /\ cycles = None /\ handled = None /\ missed = None

NoTab ==
  /\ sheet = None /\ result = None /\ intent = None /\ tracking = None
  /\ armed = None /\ acts = None /\ pc = None /\ kind = None /\ view = None
  /\ groups = None /\ group = None /\ writes = None /\ since = None

NoSources ==
  /\ status = None /\ lastSeen = None /\ discovery = None /\ checkpoint = None
  /\ obs = None /\ winner = None /\ version = None /\ itemsOf = None
  /\ display = None /\ time = None /\ syncing = None /\ todo = None /\ cur = None
  /\ began = None /\ answer = None /\ from = None /\ page = None /\ pages = None
  /\ passed = None /\ left = None /\ newest = None /\ pick = None /\ alone = None
  /\ syncs = None /\ faults = None

MCInit ==
  /\ scenario \in {"reviews", "strangers", "analysts", "evidence", "policy", "health",
                   "control", "profiles", "mails", "tab", "sources", "alone"}
  /\ Init
  /\ scenario \notin {"reviews", "strangers"} => environment = [r \in Reviewer |-> m1]
  /\ IF In("evidence") THEN Assessment!Init ELSE NoEvidence
  /\ IF In("policy") THEN Rules!Init ELSE NoPolicy
  /\ IF In("health") THEN Reports!Init ELSE NoHealth
  /\ IF In("control") THEN Control!Init ELSE NoControl
  /\ IF In("profiles") THEN Profiles!Init ELSE NoProfiles
  /\ IF In("mails") THEN Mails!Init ELSE NoMails
  /\ IF In("tab") THEN Tab!Init ELSE NoTab
  /\ CASE In("sources") -> Sources!Init
       [] In("alone") -> Alone!Init
       [] OTHER -> NoSources

MCNext ==
  /\ UNCHANGED scenario
  /\ \/ /\ scenario \in {"reviews", "strangers", "analysts"} /\ Next
        /\ UNCHANGED <<evidenceVars, policyVars, healthVars, controlVars, profilesVars, mailsVars,
                       tabVars, sourcesVars>>
     \/ /\ In("evidence") /\ Assessment!Next
        /\ UNCHANGED <<vars, policyVars, healthVars, controlVars, profilesVars, mailsVars, tabVars,
                       sourcesVars>>
     \/ /\ In("policy") /\ Rules!Next
        /\ UNCHANGED <<vars, evidenceVars, healthVars, controlVars, profilesVars, mailsVars,
                       tabVars, sourcesVars>>
     \/ /\ In("health") /\ Reports!Next
        /\ UNCHANGED <<vars, evidenceVars, policyVars, controlVars, profilesVars, mailsVars,
                       tabVars, sourcesVars>>
     \/ /\ In("control") /\ Control!Next
        /\ UNCHANGED <<vars, evidenceVars, policyVars, healthVars, profilesVars, mailsVars, tabVars,
                       sourcesVars>>
     \/ /\ In("profiles") /\ Profiles!Next
        /\ UNCHANGED <<vars, evidenceVars, policyVars, healthVars, controlVars, mailsVars, tabVars,
                       sourcesVars>>
     \/ /\ In("mails") /\ Mails!Next
        /\ UNCHANGED <<vars, evidenceVars, policyVars, healthVars, controlVars, profilesVars,
                       tabVars, sourcesVars>>
     \/ /\ In("tab") /\ Tab!Next
        /\ UNCHANGED <<vars, evidenceVars, policyVars, healthVars, controlVars, profilesVars,
                       mailsVars, sourcesVars>>
     \/ /\ \/ In("sources") /\ Sources!Next
           \/ In("alone") /\ Alone!Next
        /\ UNCHANGED <<vars, evidenceVars, policyVars, healthVars, controlVars, profilesVars,
                       mailsVars, tabVars>>

allVars ==
  <<vars, evidenceVars, policyVars, healthVars, controlVars, profilesVars, mailsVars,
    tabVars, sourcesVars, scenario>>
MCSpec == MCInit /\ [][MCNext]_allVars

\* Two reviewers, evaluators, verifiers, cycles or processes differ in nothing
\* but their names, nor do two TikTok ids.
Names == Permutations({w1, w2}) \cup Permutations({k1, k2})

-----------------------------------------------------------------------------
(* ReviewsAgree, AiUsedFrozenTask and DryRunsAreCurrent are DecisionCases'   *)
(* own. The others, in the scenarios they are about:                        *)

\* What a review decides is about the latest On Hold amount known (persisted.ts,
\* target-rule.ts).
LatestKnownDecides == In("evidence") => Assessment!LatestKnownDecides

\* No review says stop and resume at once, and the two rules agree on the delivery
\* rate (risk-control.ts, target-rule.ts).
RulesAreConsistent ==
  In("policy") => Rules!StopIsNeverResume /\ Rules!RulesAgreeOnDelivery

\* What a report recommends of a shop errs on the side of caution (calculate.ts,
\* evaluate.ts).
AdviceIsCautious == In("health") => Reports!AdviceIsCautious

\* The stored evaluation is of facts no older than its instant, and counts the
\* safe evaluations there were (sync/src/index.ts, queries/risk-control.ts).
ControlRowIsTrue ==
  In("control") => Control!StampBoundsFacts /\ Control!CyclesCounted

\* A linked profile is READY, with the identity of its shop (profile-verification.ts).
LinkProvesIdentity == In("profiles") => Profiles!LinkProvesIdentity

\* No mail is passed over for good (sync-shein-sheets.mts).
NothingSkipped == In("mails") => Mails!NothingSkipped

\* "Done" is about the number COTIK holds (cotik-tracking-workflow.ts).
DoneIsCurrent == In("tab") => Tab!DoneIsCurrent

\* The row of an order shows a version its winner was observed with
\* (cotik-observations.ts).
ProjectionWasObserved ==
  /\ In("sources") => Sources!ProjectionWasObserved
  /\ In("alone") => Alone!ProjectionWasObserved

\* An undisturbed sync projects what its orders' winners observed
\* (cotik-multi-account-sync.ts).
SyncRepairs ==
  /\ In("sources") => Sources!SyncRepairs
  /\ In("alone") => Alone!SyncRepairs
=============================================================================
