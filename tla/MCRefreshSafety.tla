-------------------------- MODULE MCRefreshSafety --------------------------
(***************************************************************************)
(* Safety instances of RefreshController, and of what an operator does     *)
(* beside it on the dashboard, for TLC, one per scenario:                  *)
(*   overlap  two workers over the run of one checkpoint, leases that run  *)
(*            out under them, crashes, lost sessions, failed statements;   *)
(*   shared   two checkpoints of one shop, whose runs share its profile:   *)
(*            workers that are started when the second is due, no faults   *)
(*            and no heartbeats;                                           *)
(*   update   DashboardOperations: an Update Data beside a COTIK sync and  *)
(*            the syncs of other processes, and a client that goes away;   *)
(*   queue    DashboardOperations: two of the former beside the latter;    *)
(*   launch   DashboardOperations: an Update Data and two openings of      *)
(*            profiles that need AdsPower, which may quit.                 *)
(***************************************************************************)
EXTENDS RefreshController, TLC

CONSTANTS w1, w2, s1, c1, c2, u1, u2, b1, p1, p2, None

VARIABLES          \* of DashboardOperations
  syncRunning, syncWaiters, call, gone, inFlight, app, open, inventory, request,
  ready, orders, finance, syncs, flips

VARIABLE scenario

SecondTime == 5
Times == c1 :> 0 @@ c2 :> SecondTime
Offsets == {<<0, 1>>, <<0, 0>>}

\* Workers differ in nothing but their names.
Workers == Permutations({w1, w2})

Operations == INSTANCE DashboardOperations WITH
  Update <- {u1, u2}, Batch <- {b1}, Open <- {p1, p2}, Shop <- {s1},
  MaxSyncs <- 3, MaxFlips <- 1, eligible <- ready

operationsVars ==
  <<syncRunning, syncWaiters, call, gone, inFlight, app, open, inventory, request,
    ready, orders, finance, syncs, flips>>

Refresh == {"overlap", "shared"}
Calls == [update |-> {u1, b1}, queue |-> {u1, u2, b1}, launch |-> {u1, p1, p2}]

\* The module of the other scenarios stands in a state of its own.
NoCalls == Operations!Init /\ app = "down" /\ ready = {}

MCInit ==
  /\ Init
  /\ \/ scenario = "overlap" /\ policy = <<0, 1>> /\ NoCalls
     \/ scenario = "shared" /\ policy = <<0, 0>> /\ NoCalls
     \/ scenario \in DOMAIN Calls /\ policy = <<0, 0>> /\ Operations!Init

\* The step in the bounds of its scenario.
RefreshBounds ==
  /\ scenario \in Refresh
  /\ scenario = "overlap" => time' < SecondTime
  /\ scenario = "shared" =>
       /\ \A w \in Worker : pc'[w] = "idle" \/ time' >= SecondTime
       /\ faults' = 0
       /\ beat' = beat

OperationsBounds ==
  /\ \A c \in Operations!Call : c \in Calls[scenario] \/ call'[c] = Operations!Idle
  /\ scenario = "queue" => syncs' <= 2 /\ flips' = 0
  /\ scenario = "launch" => syncs' = 0

\* Every call of a scenario was answered: a state to stop in.  In any other
\* state of its scenarios something can still be done.
Answered ==
  /\ scenario \in DOMAIN Calls
  /\ \A c \in Calls[scenario] : call[c].step = "done"
  /\ UNCHANGED <<vars, operationsVars>>

MCNext ==
  /\ UNCHANGED scenario
  /\ \/ Next /\ RefreshBounds /\ UNCHANGED operationsVars
     \/ /\ scenario \in DOMAIN Calls
        /\ Operations!Next /\ OperationsBounds
        /\ UNCHANGED vars
     \/ Answered

MCSpec == MCInit /\ [][MCNext]_<<vars, operationsVars, scenario>>

-----------------------------------------------------------------------------
(* RowsAgree, ProfileExclusive, LostClaimIsPowerless and ImplementsContract *)
(* are RefreshController's own. The others, in the scenarios they are about: *)

\* Update and batch operations, and launches of AdsPower, run one at a time
\* (dashboard-operations.ts, application-launch.ts).
OneAtATime == scenario \in DOMAIN Calls => Operations!OneAtATime

\* What an Update Data answers is what it did (dashboard-operations.ts).
AnswersAreTrue == scenario \in DOMAIN Calls => Operations!AnswersAreTrue
=============================================================================
