-------------------------- MODULE MCCotikIngestion --------------------------
(* Orders of one COTIK shop, for the runs that show what becomes of a       *)
(* committed checkpoint, and what the overlap of two windows leaves out.    *)
EXTENDS CotikIngestion

CONSTANT p1

AllAtHome == [o \in Order |-> p1]

\* The account syncs alone, of a binding nobody touches; orders are updated before a
\* run and between its pages.
AccountSyncs ==
  /\ \A c \in Caller : asked'[c] = "account" /\ pc'[c] # "relist"
  /\ binding' # binding => \E c \in Caller : pc[c] = "save"
  /\ updated' # updated => \A c \in Caller : pc[c] \in {"idle", "fetch"}
=============================================================================
