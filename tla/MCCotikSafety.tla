--------------------------- MODULE MCCotikSafety ---------------------------
(***************************************************************************)
(* Safety instances of CotikTracking for TLC. A behaviour begins with the  *)
(* intent i1 and the CLI run, and goes on as one of four:                  *)
(*   overlap  a daemon of a new deployment v1 beside the CLI run, crashes  *)
(*            and lost lock sessions, i1 alone;                            *)
(*   batch    i1 and i2 of two orders that the CLI run posts together;     *)
(*   replay   i1 and the replay row i3 of it, same order and number, that  *)
(*            the CLI run posts together;                                  *)
(*   moved    i1 alone, found in account a2 instead of a1 and staged again *)
(*            while the CLI run posts it.                                  *)
(* Once it is one of the four, nobody types into COTIK any longer; but in  *)
(* overlap the switches stay as they are, in batch the evidence of i2      *)
(* alone changes.                                                          *)
(***************************************************************************)
EXTENDS CotikTracking, TLC

CONSTANTS i1, i2, i3, o1, o2, t1, t2, a1, a2, daemon, cli, v0, v1

OrdersOf == i1 :> o1 @@ i2 :> o2 @@ i3 :> o1
TrackingsOf == i1 :> t1 @@ i2 :> t2 @@ i3 :> t1
ReplayOfFirst == i1 :> NoIntent @@ i2 :> NoIntent @@ i3 :> i1
DaemonAndCli == daemon :> v1 @@ cli :> NoVersion

\* A listing returns all the rows it finds.
AllRows == {{i1, i2, i3}}

Staged == {i \in Intent : status[i] # "ABSENT"}

\* A daemon that has run leaves its deployment in the settings row.
Overlap == faults > 0 \/ deployment = v1 \/ pc[daemon] # "idle"
Batch == i2 \in Staged
Replay == i3 \in Staged

Moved == \/ a2 \in {evidence[i1], account[i1]}
         \/ \E s \in Stager : call[s].account = a2
         \/ \E w \in Worker : route[w][i1] = a2

\* Absent rows are staged while no cycle runs, at one go, but for a moved one;
\* accounts stay usable and nobody waits for ever: MCTimeouts has these.
Calm ==
  /\ usable' = usable
  /\ \A w \in Worker : pc'[w] # "hung"
  /\ \A s \in Stager :
       /\ call[s].at # "idle" /\ ~Moved => call'[s] # call[s]
       /\ call[s].at = "idle" /\ call'[s].at = "insert" =>
            LET i == call'[s].intent IN
            \/ status[i] = "ABSENT" /\ \A w \in Worker : pc[w] = "idle"
            \/ Unattempted(i) /\ account[i] # evidence[i]

\* The step goes on as at most one of the four.
Scenarios ==
  /\ \A i \in Intent : evidence'[i] # evidence[i] =>
       (i = i1 /\ ~Batch) \/ (i = i2 /\ Batch)
  /\ evidence'[i2] # a2 /\ evidence'[i3] # a2
  /\ Calm
  /\ Staged' \in {{}, {i1}, {i1, i2}, {i1, i3}}
  /\ Overlap' \/ Moved' => Staged' \subseteq {i1}
  /\ ~(Overlap' /\ Moved')
  /\ Batch \/ Replay \/ Moved => armed' = armed
  /\ tracking'[o1] # tracking[o1] =>
       tracking'[o1] = t1 \/ ~(Overlap \/ Batch \/ Replay \/ Moved)
  /\ tracking'[o2] # tracking[o2] => tracking'[o2] = t2 /\ Batch
=============================================================================
