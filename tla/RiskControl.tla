---------------------------- MODULE RiskControl ----------------------------
(***************************************************************************)
(* The stored risk evaluation of one shop (packages/sync/src/index.ts,     *)
(* packages/db/src/queries/risk-control.ts): workers and command lines     *)
(* evaluate the shop's orders after a sync, each in one transaction under  *)
(* the shop's advisory lock, while orders keep changing and what the       *)
(* holiday mode was observed to be is recorded without the lock.           *)
(*                                                                         *)
(* The instant of an evaluation is taken by the caller before it waits for *)
(* the lock, so evaluations may be saved in another order than their       *)
(* instants have.  Each statement of the transaction reads what is         *)
(* committed when it runs.                                                 *)
(***************************************************************************)
EXTENDS RiskRules

CONSTANTS
    Evaluator,   \* processes that evaluate the shop
    Facts,       \* what the persisted orders may come to: see RiskRules
    Policy,      \* RISK_CONTROL_POLICY_V1
    MaxClock,    \* bound: last instant
    MaxVersion,  \* bound: changes of the orders
    MaxActions,  \* bound: holiday-mode actions and observations
    None         \* no row, no instant, no process

Instant == 0 .. MaxClock
Observed == {"ON", "OFF", "UNKNOWN"}

VARIABLES
    now,      \* the clock
    orders,   \* the facts of the persisted orders and their version
    lock,     \* the process in the transaction that holds the shop's lock
    pc,       \* what each evaluator has done and read
    row,      \* risk_control_states, None before the first evaluation
    actions,  \* holiday-mode actions and observations recorded
    known,    \* history: the version of the orders when each instant began
    streak    \* history: safe evaluations stored since the last other one

vars == <<now, orders, lock, pc, row, actions, known, streak>>

Init ==
    /\ now = 0
    /\ \E f \in Facts : orders = [facts |-> f, version |-> 0]
    /\ lock = None
    /\ pc = [e \in Evaluator |-> [step |-> "idle"]]
    /\ row = None
    /\ actions = 0
    /\ known = [t \in Instant |-> 0]
    /\ streak = 0

----------------------------------------------------------------------------
(* An evaluation: evaluateAndStoreRiskControl                              *)

\* evaluatedAt is a default argument: the caller's clock.
Call(e) ==
    /\ pc[e].step = "idle"
    /\ pc' = [pc EXCEPT ![e] = [step |-> "lock", at |-> now]]
    /\ UNCHANGED <<now, orders, lock, row, actions, known, streak>>

\* pg_advisory_xact_lock waits for the transaction that holds it.
LockIsFree == lock = None

Lock(e) ==
    /\ pc[e].step = "lock" /\ LockIsFree
    /\ lock' = e
    /\ pc' = [pc EXCEPT ![e] = [step |-> "facts", at |-> pc[e].at]]
    /\ UNCHANGED <<now, orders, row, actions, known, streak>>

\* The two reads of one Promise.all on the transaction's connection: two
\* statements, one after the other.
ReadFacts(e) ==
    /\ pc[e].step = "facts"
    /\ pc' = [pc EXCEPT ![e] = [step |-> "previous", at |-> pc[e].at, orders |-> orders]]
    /\ UNCHANGED <<now, orders, lock, row, actions, known, streak>>

Decide(e) ==
    /\ pc[e].step = "previous"
    /\ pc' = [pc EXCEPT ![e] =
                 [step |-> "save", at |-> pc[e].at, version |-> pc[e].orders.version,
                  decision |-> RiskDecision(pc[e].orders.facts, Policy,
                                            IF row = None THEN "UNKNOWN" ELSE row.observed,
                                            IF row = None THEN 0 ELSE row.cycles)]]
    /\ UNCHANGED <<now, orders, lock, row, actions, known, streak>>

SavedAt(e) == now  \* mutant
EvaluatedAt(e) == pc[e].at

\* An upsert that a row with the same or a later instant ignores; the
\* evaluation still returns its own decision.
Save(e) ==
    /\ pc[e].step = "save"
    /\ LET decision == pc[e].decision
           safe == decision.cycles > 0
       IN  IF row = None
           THEN /\ row' = [evaluatedAt |-> EvaluatedAt(e), version |-> pc[e].version,
                           desired |-> decision.desired, cycles |-> decision.cycles,
                           observed |-> "UNKNOWN", observedAt |-> None,
                           owned |-> FALSE, actionAt |-> None]
                /\ streak' = IF safe THEN 1 ELSE 0
           ELSE IF row.evaluatedAt < EvaluatedAt(e)
           THEN /\ row' = [row EXCEPT !.evaluatedAt = EvaluatedAt(e),
                                      !.version = pc[e].version,
                                      !.desired = decision.desired,
                                      !.cycles = decision.cycles]
                /\ streak' = IF safe THEN streak + 1 ELSE 0
           ELSE UNCHANGED <<row, streak>>
    /\ lock' = None
    /\ pc' = [pc EXCEPT ![e] = [step |-> "idle"]]
    /\ UNCHANGED <<now, orders, actions, known>>

\* The process dies: PostgreSQL rolls the transaction back.
Crash(e) ==
    /\ pc[e].step # "idle"
    /\ lock' = IF lock = e THEN None ELSE lock
    /\ pc' = [pc EXCEPT ![e] = [step |-> "idle"]]
    /\ UNCHANGED <<now, orders, row, actions, known, streak>>

----------------------------------------------------------------------------
(* Holiday mode                                                            *)

Before(recorded, at) == recorded # None => recorded < at

\* Observing the mode on never claims ownership, observing it off drops it.
recordHolidayModeObservation(mode, at) ==
    /\ row # None /\ actions < MaxActions /\ Before(row.observedAt, at)
    /\ row' = [row EXCEPT !.observed = mode, !.observedAt = at,
                          !.owned = @ /\ mode # "OFF"]
    /\ actions' = actions + 1
    /\ UNCHANGED <<now, orders, lock, pc, known, streak>>

\* The row's check lets the automation own only a mode that is on.
recordRiskControlAction(mode, owned, at) ==
    /\ row # None /\ actions < MaxActions
    /\ Before(row.actionAt, at)
    /\ Before(row.observedAt, at + 1)
    /\ owned => mode = "ON"
    /\ row' = [row EXCEPT !.observed = mode, !.observedAt = at,
                          !.actionAt = at, !.owned = owned]
    /\ actions' = actions + 1
    /\ UNCHANGED <<now, orders, lock, pc, known, streak>>

----------------------------------------------------------------------------
(* Orders are synced, time passes                                          *)

OrdersChange(f) ==
    /\ orders.version < MaxVersion /\ f # orders.facts
    /\ orders' = [facts |-> f, version |-> orders.version + 1]
    /\ UNCHANGED <<now, lock, pc, row, actions, known, streak>>

Tick ==
    /\ now < MaxClock
    /\ now' = now + 1
    /\ known' = [known EXCEPT ![now + 1] = orders.version]
    /\ UNCHANGED <<orders, lock, pc, row, actions, streak>>

Next ==
    \/ \E e \in Evaluator :
          Call(e) \/ Lock(e) \/ ReadFacts(e) \/ Decide(e) \/ Save(e) \/ Crash(e)
    \/ \E mode \in Observed, at \in 0 .. now : recordHolidayModeObservation(mode, at)
    \/ \E mode \in Observed, owned \in BOOLEAN, at \in 0 .. now :
          recordRiskControlAction(mode, owned, at)
    \/ \E f \in Facts : OrdersChange(f)
    \/ Tick

Spec == Init /\ [][Next]_vars

----------------------------------------------------------------------------
(* Properties                                                              *)

\* The types of the variables.
TypeOK ==
    /\ now \in Instant
    /\ orders \in [facts : Facts, version : 0 .. MaxVersion]
    /\ lock \in Evaluator \cup {None}
    /\ \A e \in Evaluator : pc[e].step \in {"idle", "lock", "facts", "previous", "save"}
    /\ row # None =>
          /\ row.evaluatedAt \in Instant
          /\ row.desired \in {"HOLIDAY_MODE_ON", "HOLIDAY_MODE_OFF", "INSUFFICIENT_DATA"}
          /\ row.cycles \in 0 .. MaxClock + 1
          /\ row.observed \in Observed
          /\ {row.observedAt, row.actionAt} \subseteq Instant \cup {None}
          /\ row.owned => row.observed = "ON"

\* An evaluation never claims to be more recent than it is: the stored one
\* was made from orders at least as new as those of the instant it is stamped
\* with, whoever waited for whom and whatever was synced meanwhile.
StampBoundsFacts == row # None => row.version >= known[row.evaluatedAt]

\* The safe cycles that end a holiday are counted once each: the counter is
\* the number of stored evaluations in a row that found the shop safe.  Two
\* evaluations that overlap never count from the same one.
CyclesCounted == row # None => row.cycles = streak
=============================================================================
