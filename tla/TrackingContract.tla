-------------------------- MODULE TrackingContract --------------------------
(***************************************************************************)
(* What the COTIK tracking pipeline promises for each post intent          *)
(* (cotik_post_intents), with no word on cycles, locks, batches or         *)
(* settings: tries are reserved one at a time, each is sent at most once   *)
(* and not beside one still open, a row is CONFIRMED only when COTIK has   *)
(* held its tracking number, offered again only when COTIK refused the     *)
(* order, and ABORTED only when the last try was not sent.                 *)
(***************************************************************************)
EXTENDS Naturals

CONSTANTS
  Intent,       \* rows that may come to exist
  Order,
  OrderOf,      \* [Intent -> Order]: COTIK answers a request order by order
  MaxAttempts   \* tries an intent may use

VARIABLES
  status,   \* status[i]: as in the row, "ABSENT" before it exists
  tries,    \* tries[i]: how many were reserved
  sent,     \* sent[i]: the tries COTIK was sent
  open,     \* open[i]: those it may still apply or refuse
  refused,  \* refused[i]: those it refused
  landed    \* the intents whose tracking number COTIK ever held

vars == <<status, tries, sent, open, refused, landed>>
wire == <<sent, open, refused, landed>>

Init ==
  /\ status = [i \in Intent |-> "ABSENT"]
  /\ tries = [i \in Intent |-> 0]
  /\ sent = [i \in Intent |-> {}]
  /\ open = [i \in Intent |-> {}]
  /\ refused = [i \in Intent |-> {}]
  /\ landed = {}

Becomes(i, s) == status' = [status EXCEPT ![i] = s]

Stage(i) ==
  /\ status[i] = "ABSENT"
  /\ Becomes(i, "PENDING")
  /\ UNCHANGED <<tries, wire>>

\* A batch is reserved as one: every row of it uses one try.
Reserve(S) ==
  /\ S # {}
  /\ \A i \in S : status[i] = "PENDING" /\ tries[i] < MaxAttempts
  /\ status' = [i \in Intent |-> IF i \in S THEN "IN_PROGRESS" ELSE status[i]]
  /\ tries' = [i \in Intent |-> IF i \in S THEN tries[i] + 1 ELSE tries[i]]
  /\ UNCHANGED wire

\* Try n[i] of each i in S goes out in one request: reserved, never sent
\* before, no other try open unless the number landed, and never a last try
\* that the row gave up as ABORTED.
Post(S, n) ==
  /\ S # {}
  /\ \A i \in S : /\ n[i] \in 1..tries[i] \ sent[i]
                  /\ \/ \A m \in open[i] : m > n[i]
                     \/ i \in landed
                  /\ status[i] = "ABORTED" => n[i] < tries[i]
  /\ sent' = [i \in Intent |-> IF i \in S THEN sent[i] \cup {n[i]} ELSE sent[i]]
  /\ open' = [i \in Intent |-> IF i \in S THEN open[i] \cup {n[i]} ELSE open[i]]
  /\ UNCHANGED <<status, tries, refused, landed>>

Land(i, n) ==
  /\ n \in open[i]
  /\ open' = [open EXCEPT ![i] = @ \ {n}]
  /\ \E S \in SUBSET Intent : landed' = landed \cup S \cup {i}
  /\ UNCHANGED <<status, tries, sent, refused>>

Refuse(i, n) ==
  /\ n \in open[i]
  /\ open' = [open EXCEPT ![i] = @ \ {n}]
  /\ refused' = [refused EXCEPT ![i] = @ \cup {n}]
  /\ UNCHANGED <<status, tries, sent, landed>>

\* Somebody else gives the order that tracking number.
Appear(S) ==
  /\ landed' = landed \cup S
  /\ UNCHANGED <<status, tries, sent, open, refused>>

Confirm(i) ==
  /\ status[i] \in {"PENDING", "IN_PROGRESS", "ABORTED"}
  /\ tries[i] > 0
  /\ i \in landed
  /\ Becomes(i, "CONFIRMED")
  /\ UNCHANGED <<tries, wire>>

\* COTIK has answered the last try, and refused the order: that try, or one of
\* another row of the order that went out in the same request.
Retry(i) ==
  /\ status[i] = "IN_PROGRESS"
  /\ tries[i] \in sent[i] \ open[i]
  /\ \E j \in Intent : OrderOf[j] = OrderOf[i] /\ refused[j] # {}
  /\ Becomes(i, "PENDING")
  /\ UNCHANGED <<tries, wire>>

\* A row whose number landed may be confirmed, and reopened by an operator,
\* while a cycle that overlaps still has its last try in hand; what becomes of
\* that try is then recorded for the reopened row.
Reopened(i) == status[i] = "PENDING" /\ i \in landed

\* A reopened row whose last try is uncertain goes back to waiting.
Keep(i) ==
  /\ \/ status[i] = "PENDING"
     \/ status[i] = "ABORTED" /\ i \in landed
  /\ tries[i] > 0
  /\ Becomes(i, "IN_PROGRESS")
  /\ UNCHANGED <<tries, wire>>

Abort(i) ==
  /\ status[i] = "IN_PROGRESS" \/ Reopened(i)
  /\ tries[i] \notin sent[i]
  /\ Becomes(i, "ABORTED")
  /\ UNCHANGED <<tries, wire>>

GiveUp(i) ==
  /\ status[i] = "IN_PROGRESS"
  /\ tries[i] = MaxAttempts
  /\ Becomes(i, "FAILED")
  /\ UNCHANGED <<tries, wire>>

\* An operator reopens a closed row that has tries left.
Reopen(i) ==
  /\ status[i] \in {"CONFIRMED", "FAILED", "ABORTED"}
  /\ tries[i] < MaxAttempts
  /\ Becomes(i, "PENDING")
  /\ UNCHANGED <<tries, wire>>

Next ==
  \/ \E i \in Intent : \/ Stage(i) \/ Confirm(i) \/ Retry(i) \/ Keep(i)
                       \/ Abort(i) \/ GiveUp(i) \/ Reopen(i)
  \/ \E S \in SUBSET Intent : Reserve(S) \/ Appear(S)
  \/ \E S \in SUBSET Intent, n \in [Intent -> 1..MaxAttempts] : Post(S, n)
  \/ \E i \in Intent, n \in 1..MaxAttempts : Land(i, n) \/ Refuse(i, n)

Spec == Init /\ [][Next]_vars
=============================================================================
