-------------------------- MODULE MCCotikTracking --------------------------
(***************************************************************************)
(* Instances of CotikTracking for TLC: up to two intents, a daemon of a    *)
(* new deployment v1 beside a CLI run, and a database last reset under v0. *)
(***************************************************************************)
EXTENDS CotikTracking

CONSTANTS i1, i2, o1, o2, t1, t2, daemon, v0, v1

\* Every intent of an order of its own.
DistinctOrders == [i \in Intent |-> IF i = i1 THEN o1 ELSE o2]
DistinctTrackings == [i \in Intent |-> IF i = i1 THEN t1 ELSE t2]

\* One order for all intents.
SameOrder == [i \in Intent |-> o1]

NoSource == [i \in Intent |-> NoIntent]

DaemonAndCli == [w \in Worker |-> IF w = daemon THEN v1 ELSE NoVersion]

\* The worker lists everything.
AllIntents == {Intent}
=============================================================================
