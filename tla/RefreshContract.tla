-------------------------- MODULE RefreshContract --------------------------
(***************************************************************************)
(* What the refresh controller promises for the cycle of a checkpoint run: *)
(* a budget fixed when the cycle opens, attempts begun one at a time and   *)
(* within it, the browser work of an attempt done at most once and only    *)
(* after the attempt is on record, success only for the attempt whose      *)
(* browser work succeeded, and nothing after success or exhaustion.        *)
(***************************************************************************)
EXTENDS Naturals, Sequences

CONSTANT Run

VARIABLES
  phase,    \* phase[r]: "none", "open", "succeeded" or "exhausted"
  budget,   \* budget[r]: the attempts the cycle may use
  log,      \* log[r]: the statuses of its attempts, in order
  worked    \* worked[r]: the attempts whose browser work succeeded

vars == <<phase, budget, log, worked>>

Init ==
  /\ phase = [r \in Run |-> "none"]
  /\ budget = [r \in Run |-> 0]
  /\ log = [r \in Run |-> <<>>]
  /\ worked = [r \in Run |-> {}]

Last(r) == Len(log[r])
Working(r) == log[r] # <<>> /\ log[r][Last(r)] = "RUNNING"
Closes(r, outcome) == log'[r] = [log[r] EXCEPT ![Last(r)] = outcome]

Same(f, r) == f'[r] = f[r]
Stays(r) == Same(phase, r) /\ Same(budget, r) /\ Same(log, r) /\ Same(worked, r)

Opens(r) ==
  /\ phase[r] = "none" /\ phase'[r] = "open"
  /\ budget'[r] > 0
  /\ Same(log, r) /\ Same(worked, r)

Begins(r) ==
  /\ phase[r] = "open" /\ ~Working(r) /\ Last(r) < budget[r]
  /\ log'[r] = Append(log[r], "RUNNING")
  /\ Same(phase, r) /\ Same(budget, r) /\ Same(worked, r)

\* The browser work of an attempt may outlive it.
Works(r) ==
  /\ \E n \in 1..Last(r) \ worked[r] : worked'[r] = worked[r] \cup {n}
  /\ Same(phase, r) /\ Same(budget, r) /\ Same(log, r)

Fails(r) ==
  /\ phase[r] = "open" /\ Working(r)
  /\ Closes(r, "FAILED")
  /\ \/ phase'[r] = "open" /\ Last(r) < budget[r]
     \/ phase'[r] = "exhausted"
  /\ Same(budget, r) /\ Same(worked, r)

Succeeds(r) ==
  /\ phase[r] = "open" /\ Working(r) /\ Last(r) \in worked[r]
  /\ Closes(r, "SUCCEEDED")
  /\ phase'[r] = "succeeded"
  /\ Same(budget, r) /\ Same(worked, r)

\* The business date ended or the checkpoint was disabled.
GivesUp(r) ==
  /\ phase[r] = "open" /\ ~Working(r)
  /\ phase'[r] = "exhausted"
  /\ Same(budget, r) /\ Same(log, r) /\ Same(worked, r)

\* One transaction may move several cycles.
Next ==
  \A r \in Run : \/ Stays(r) \/ Opens(r) \/ Begins(r) \/ Works(r)
                 \/ Fails(r) \/ Succeeds(r) \/ GivesUp(r)

Spec == Init /\ [][Next]_vars
=============================================================================
