----------------------------- MODULE MCTimeouts -----------------------------
(***************************************************************************)
(* Liveness instances for TLC, one per scenario: what ends by itself       *)
(* because a lease, a schedule or a deadline runs out.                     *)
(*   settings  RefreshController: one worker, a retry that comes later,    *)
(*             one change of settings, one fault;                          *)
(*   passes    RefreshController: two workers on one run, one fault, no    *)
(*             change of settings, a clock that stops earlier;             *)
(*   finance   SellerFinance: three rows on pages of one, two of them of   *)
(*             equal amount and one that cancels either;                   *)
(*   ai        AiCall: two models, a body of one piece at most;            *)
(*   tracking  CotikTracking: one intent, two attempts, one daemon, one    *)
(*             crash.                                                      *)
(***************************************************************************)
EXTENDS RefreshController, TLC

CONSTANTS w1, w2, s1, c1, r1, r2, r3, A, m1, m2, n1, n2, None, Bad, i1, o1, t1, byHand,
          a1, daemon, dashboard, v0, v1

VARIABLES          \* of SellerFinance
  held, changes, stat, list, finance, waited, steps, left, taken, total, pages, batch

VARIABLES          \* of AiCall
  client, input, asking, model, timer, body, failures, answer, verdict

VARIABLES          \* of CotikTracking
  intents, attempts, account, outcome, armed, deployment, evidence, usable, call,
  cycleLock, posts, tracking, crashes, cycle, todo, kept, later, readBack, route, seen,
  conf, unconf, fail, everHeld, fresh, armedUnder

VARIABLE scenario

FromMidnight == [c \in Checkpoint |-> 0]
Offsets == {<<0, 2>>, <<1, 0>>, <<0>>}     \* offsets keep the caller's order
LastTick == IF scenario = "passes" THEN 2 ELSE Horizon

Finance == INSTANCE SellerFinance WITH
  pc <- finance, rows <- taken, Row <- {r1, r2, r3},
  Amount <- r1 :> 1 @@ r2 :> 1 @@ r3 :> -1, Reason <- [r \in {r1, r2, r3} |-> A],
  PageSize <- 1, Budget <- 2, Natural <- 1, MaxSteps <- 1, MaxPages <- 4, MaxChanges <- 1

Ai == INSTANCE AiCall WITH
  Model <- {m1, m2}, Name <- {n1, n2}, Verified <- m1 :> {n1} @@ m2 :> {n2},
  Budget <- 1, MaxBody <- 1, step <- asking, left <- timer, result <- verdict

Tracking == INSTANCE CotikTracking WITH
  Worker <- {daemon}, Stager <- {dashboard}, Intent <- {i1}, Order <- {o1},
  Tracking <- {t1, byHand}, Account <- {a1}, Version <- {v0, v1},
  OrderOf <- i1 :> o1, TrackingOf <- i1 :> t1, SourceOf <- i1 :> None,
  VersionOf <- daemon :> v1, OldVersion <- v0, ForeignTracking <- byHand,
  Scopes <- {{i1}}, MaxAttempts <- 2, MaxFaults <- 1,
  NoIntent <- None, NoAccount <- None, NoTracking <- None, NoVersion <- None,
  NoWorker <- None,
  status <- intents, lock <- cycleLock, verdict <- posts, faults <- crashes,
  pc <- cycle, cur <- readBack, held <- everHeld

financeVars ==
  <<held, changes, stat, list, finance, waited, steps, left, taken, total, pages, batch>>
aiVars == <<client, input, asking, model, timer, body, failures, answer, verdict>>
trackingVars ==
  <<intents, attempts, account, outcome, armed, deployment, evidence, usable, call,
    cycleLock, posts, tracking, crashes, cycle, todo, kept, later, readBack, route, seen,
    conf, unconf, fail, everHeld, fresh, armedUnder>>

\* The modules of the other scenarios stand in a state of theirs.
NoFinance == held = {} /\ Finance!Init
NoAi ==
  /\ client = Ai!Refusing("CONFIG_MISSING")
  /\ input = [valid |-> TRUE, complete |-> TRUE, freshness |-> "FRESH", onHold |-> FALSE]
  /\ Ai!Init
NoTracking == armed = FALSE /\ Tracking!Init

MCInit ==
  \/ scenario = "settings" /\ Init /\ policy = <<0, 2>> /\ NoFinance /\ NoAi /\ NoTracking
  \/ scenario = "passes" /\ Init /\ policy = <<0>> /\ NoFinance /\ NoAi /\ NoTracking
  \/ scenario = "finance" /\ Init /\ policy = <<0>> /\ Finance!Init /\ NoAi /\ NoTracking
  \/ scenario = "ai" /\ Init /\ policy = <<0>> /\ NoFinance /\ Ai!Init /\ NoTracking
  \/ scenario = "tracking" /\ Init /\ policy = <<0>> /\ NoFinance /\ NoAi /\ Tracking!Init

\* The step of RefreshController in the bounds of its scenario.
Bounded(step) ==
  \/ scenario = "settings" /\ step /\ pc'[w2] = "idle" /\ Len(policy') = 2
  \/ scenario = "passes" /\ step /\ edits' = 0 /\ faults' <= 1 /\ time' <= LastTick

\* Of CotikTracking, steps without an effect are left out: staging that changes no
\* row, and what becomes of the account when no IN_PROGRESS row names it.  The one
\* fault is a crash while the row is IN_PROGRESS.
StepsThatMatter ==
  LET inProgress == intents[i1] = "IN_PROGRESS" IN
  /\ call[dashboard].at = "idle" /\ call'[dashboard].at # "idle" => intents[i1] = "ABSENT"
  /\ usable' # usable => inProgress
  /\ crashes' # crashes => inProgress /\ intents' = intents /\ cycle'[daemon] = "idle"

\* A step of a scenario leaves the other modules' variables alone.
InRefresh  == UNCHANGED <<financeVars, aiVars, trackingVars, scenario>>
InFinance  == scenario = "finance" /\ UNCHANGED <<vars, aiVars, trackingVars, scenario>>
InAi       == scenario = "ai" /\ UNCHANGED <<vars, financeVars, trackingVars, scenario>>
InTracking == scenario = "tracking" /\ UNCHANGED <<vars, financeVars, aiVars, scenario>>

MCNext ==
  \/ Bounded(Next) /\ InRefresh
  \/ InFinance /\ Finance!Next
  \/ InAi /\ Ai!Next
  \/ InTracking /\ Tracking!Next /\ StepsThatMatter

allVars == <<vars, financeVars, aiVars, trackingVars, scenario>>

\* The fairness of each module, in its scenarios: a step of another scenario is
\* never enabled.  Weak fairness will do for StartCycle: no other worker holds its lock.
Fairness ==
  /\ WF_allVars(\/ Bounded(Tick) /\ InRefresh
                \/ InFinance /\ Finance!Tick
                \/ InAi /\ Ai!Tick)
  /\ WF_allVars(\/ Bounded(pc[w1] \notin Awaiting /\ WorkerStep(w1)) /\ InRefresh
                \/ InFinance /\ Finance!Own
                \/ InAi /\ Ai!Own
                \/ InTracking /\ (Tracking!StartCycle(daemon) \/ Tracking!CycleStep(daemon)))
  /\ WF_allVars(Bounded(pc[w2] \notin Awaiting /\ WorkerStep(w2)) /\ InRefresh)
  /\ \A w \in Worker : WF_allVars(Bounded(HeartbeatCommits(w)) /\ InRefresh)
  /\ SF_allVars(InTracking /\ Tracking!RecoverReadback(daemon, i1))

MCSpec == MCInit /\ [][MCNext]_allVars /\ Fairness

-----------------------------------------------------------------------------
(* RetryOnSchedule is RefreshController's own. The others, in the scenarios *)
(* they are about:                                                          *)

\* A reconciled batch of settlements is whole while the source stands still
\* (finance-pagination.ts, finance-reconciliation.ts).
ReconciledIsWhole == scenario = "finance" => Finance!ReconciledIsWhole

\* A verdict of the AI is what a model that was allowed, asked and verified
\* answered about input that may be judged (client.ts, nine-router-provider.ts).
VerdictIsEarned == scenario = "ai" => Ai!VerdictIsEarned

\* The cycle of a business date is settled, whoever crashes or hangs in between,
\* holding the claim or the profile, as long as the passes of one worker go on;
\* but for a shop that turns ineligible (refresh-controller.ts).
EarlyClaim(r) == status[r] = "RUNNING" /\ claimedAt[r] <= LastTick - Lease


\* The reading of a page that never answers ends by its one deadline
\* (browser-source.ts), and so does the asking of an AI that never does, model
\* after model (nine-router-provider.ts).
ReadingEnds ==
  /\ (scenario = "finance") ~> (finance \in {"done", "failed"})
  /\ (scenario = "ai") ~> (asking = "done")

\* A POST that landed but was not confirmed is recovered by a later cycle, unless a
\* person has to act first (cotik-cycle.ts); in the other scenarios none is sent.
LandedIsRecovered == Tracking!LandedIsRecovered
=============================================================================
