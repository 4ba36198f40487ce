------------------------ MODULE MCRefreshController ------------------------
(***************************************************************************)
(* The instance of RefreshController in which a worker dies: one worker,   *)
(* one checkpoint of one shop, a tick of 45 seconds (a lease is two).      *)
(***************************************************************************)
EXTENDS RefreshController

CONSTANT c1

Single == {<<0>>}

FromMidnight == [c \in Checkpoint |-> 0]
=============================================================================
