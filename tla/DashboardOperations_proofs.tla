--------------------- MODULE DashboardOperations_proofs ---------------------
(***************************************************************************)
(* Theorems about DashboardOperations, for every number of calls, shops    *)
(* and syncs: the operations of the dashboard run one at a time, so do the *)
(* launches of AdsPower, and what an Update Data answers is what it did.   *)
(*                                                                         *)
(* QueueInv says who runs and who waits, LaunchInv whose attempt to launch *)
(* is under way, and TruthInv what an update knows at each of its steps of *)
(* the runs it caused, which later syncs of other processes may exceed but *)
(* never take back.                                                        *)
(***************************************************************************)
EXTENDS DashboardOperations, TLAPS

\* A call is of one kind, and None is not a call.
CallConstants ==
  /\ Update \cap Batch = {} /\ Update \cap Open = {} /\ Batch \cap Open = {}
  /\ None \notin Call

Before == {"queued", "list", "listing", "links", "eligible", "ensure", "probe", "poll",
           "joined", "open", "health", "refused", "orders"}
UpdateStep == Before \cup {"finance", "risk", "judge", "done"}
BatchStep == {"queued", "cotik", "done"}
OpenStep == {"ensure", "probe", "poll", "joined", "list", "listing", "open", "refused", "done"}
StepsOf(c) == IF c \in Update THEN UpdateStep ELSE IF c \in Batch THEN BatchStep ELSE OpenStep

State == {"ERROR", "OPEN", "CLOSED"}
Evidence == [orders : Nat, finance : Nat, complete : BOOLEAN]
Answer == {"NONE", "ERROR", "OPEN", "HUMAN_ACTION_REQUIRED", "PARTIAL", "SUCCESS", "DONE"}

Locals(c) ==
  [step : StepsOf(c), shop : IF c \in Batch THEN {None} ELSE Shop, left : Seq(Shop),
   state : State, orders : Nat, finance : Nat, evidence : Evidence \cup {None},
   answer : Answer \cup {None}]

Typed(c) == call[c] = Idle \/ call[c] \in Locals(c)

Types ==
  /\ syncRunning \in BOOLEAN
  /\ syncWaiters \in Seq(Update \cup Batch)
  /\ DOMAIN call = Call
  /\ \A c \in Call : Typed(c)
  /\ inFlight \in Call \cup {None}
  /\ inventory \in [Shop -> State] \cup {None}
  /\ orders \in [Shop -> [run : Nat, complete : BOOLEAN, official : BOOLEAN]]
  /\ finance \in [Shop -> Nat]
  /\ syncs \in Nat

\* A waiter waits once, and does not run.
QueueInv ==
  /\ \A c, d \in Call : Working(c) /\ Working(d) => c = d
  /\ syncRunning <=> \E c \in Call : Working(c)
  /\ \A c \in Call : At(c, "queued") <=> \E i \in DOMAIN syncWaiters : syncWaiters[i] = c
  /\ \A i, j \in DOMAIN syncWaiters : syncWaiters[i] = syncWaiters[j] => i = j
  /\ syncWaiters # <<>> => syncRunning

\* The attempt under way is that of the one call that launches.
LaunchInv ==
  /\ \A c \in Call : Launching(c) <=> inFlight = c
  /\ \A c \in Call : At(c, "joined") => inFlight # None

\* No run is newer than the last sync.
RunsInv == \A s \in Shop : orders[s].run <= syncs /\ finance[s] <= syncs

\* An update knows of the run of orders it caused from "finance" on, of that of
\* finance from "risk" on, and has seen evidence at "judge".
TruthOf(c) ==
  LET r == call[c] IN
  /\ r.step \in Before => r.orders = 0
  /\ r.step = "finance" =>
       r.orders # 0 /\ r.orders <= syncs /\ r.orders <= orders[r.shop].run
  /\ r.step = "risk" =>
       /\ r.orders # 0 /\ r.finance > r.orders
       /\ r.orders <= orders[r.shop].run /\ r.finance <= finance[r.shop]
  /\ r.step = "judge" =>
       /\ r.orders # 0 /\ r.finance > r.orders
       /\ r.evidence \in Evidence
       /\ r.evidence.orders >= r.orders /\ r.evidence.finance >= r.finance
  /\ r.step = "done" =>
       /\ r.answer = "SUCCESS" =>
            /\ r.orders # 0 /\ r.finance > r.orders
            /\ r.evidence.complete
            /\ r.evidence.orders >= r.orders /\ r.evidence.finance >= r.finance
       /\ r.answer = "ERROR" => r.orders = 0

TruthInv == \A c \in Update : TruthOf(c)

IInv == Types /\ QueueInv /\ LaunchInv /\ RunsInv /\ TruthInv

-----------------------------------------------------------------------------
(* What a step does to the locals of a call.                               *)

\* A waiter is woken.
Woken(d) == At(d, "queued") /\ call'[d] = [call[d] EXCEPT !.step = Entry(d)]

Others(c) == \A d \in Call \ {c} : call'[d] = call[d] \/ Woken(d)

LEMMA Kinds ==
  ASSUME CallConstants, NEW c \in Call
  PROVE  /\ c \in Update => StepsOf(c) = UpdateStep /\ c \notin Batch /\ c \notin Open
         /\ c \in Batch => StepsOf(c) = BatchStep /\ c \notin Update /\ c \notin Open
         /\ c \in Open => StepsOf(c) = OpenStep /\ c \notin Update /\ c \notin Batch
         /\ c # None
BY DEF CallConstants, StepsOf, Call

\* A call that was made has locals, of its kind.
LEMMA Made ==
  ASSUME Types, NEW c \in Call, call[c].step # "idle"
  PROVE  call[c] \in Locals(c)
BY DEF Types, Typed, Idle

\* A change of step alone, and the end of a call.
LEMMA Stepped ==
  ASSUME Types, NEW c \in Call, call[c].step # "idle", NEW s \in StepsOf(c)
  PROVE  LET r == [call[c] EXCEPT !.step = s] IN
         /\ r \in Locals(c) /\ r.step = s
         /\ r.shop = call[c].shop /\ r.orders = call[c].orders
         /\ r.finance = call[c].finance /\ r.evidence = call[c].evidence
         /\ r.answer = call[c].answer /\ r.left = call[c].left
BY Made DEF Locals

LEMMA Ended ==
  ASSUME Types, NEW c \in Call, call[c].step # "idle", NEW a \in Answer
  PROVE  LET r == [call[c] EXCEPT !.step = "done", !.answer = a] IN
         /\ r \in Locals(c) /\ r.step = "done" /\ r.answer = a
         /\ r.shop = call[c].shop /\ r.orders = call[c].orders
         /\ r.finance = call[c].finance /\ r.evidence = call[c].evidence
<1>1. call[c] \in Locals(c)
  BY Made
<1>2. "done" \in StepsOf(c)
  BY DEF StepsOf, UpdateStep, BatchStep, OpenStep
<1> QED BY <1>1, <1>2 DEF Locals

LEMMA WokenTyped ==
  ASSUME CallConstants, Types, NEW d \in Call, Woken(d)
  PROVE  /\ call'[d] \in Locals(d)
         /\ call'[d].step \in {"list", "cotik"}
         /\ d \in Update => call'[d].step = "list" /\ call'[d].orders = call[d].orders
         /\ Working(d)' /\ ~ Working(d)
         /\ d \in Update \cup Batch
<1>1. call[d].step = "queued" /\ call[d] \in Locals(d)
  BY Made DEF Woken, At
<1>2. d \in Update \cup Batch
  BY <1>1 DEF Locals, StepsOf, OpenStep
<1>3. Entry(d) \in StepsOf(d)
  BY <1>2, Kinds DEF Entry, UpdateStep, BatchStep, Before, Call
<1>4. call'[d] \in Locals(d) /\ call'[d].step = Entry(d) /\ call'[d].orders = call[d].orders
  BY <1>1, <1>3, Stepped DEF Woken
<1> QED BY <1>1, <1>2, <1>4, Kinds DEF Entry, Working

-----------------------------------------------------------------------------
(* The queue.                                                              *)

\* A step that neither enters nor leaves.
QueueLocal ==
  /\ UNCHANGED queue
  /\ \A d \in Call : (Working(d)' <=> Working(d)) /\ (At(d, "queued")' <=> At(d, "queued"))

LEMMA QueueStays == QueueInv /\ QueueLocal => QueueInv'
BY DEF QueueInv, QueueLocal, queue

LEMMA Entered ==
  ASSUME CallConstants, Types, QueueInv, NEW c \in Update \cup Batch, NEW r,
         r \in [step : {"list"}, shop : IF c \in Batch THEN {None} ELSE Shop,
                left : Seq(Shop), state : State, orders : Nat, finance : Nat,
                evidence : Evidence \cup {None}, answer : Answer \cup {None}],
         r.orders = 0,
         Enter(c, r)
  PROVE  /\ QueueInv'
         /\ call'[c] \in Locals(c) /\ call'[c].orders = 0
         /\ call'[c].step \in {"queued", "list", "cotik"}
         /\ \A d \in Call \ {c} : call'[d] = call[d]
         /\ DOMAIN call' = Call
         /\ syncRunning' \in BOOLEAN /\ syncWaiters' \in Seq(Update \cup Batch)
<1>1. call[c].step = "idle" /\ c \in Call /\ DOMAIN call = Call
  BY DEF Enter, At, Types, Call
<1>2. PICK s \in {"queued", Entry(c)} : call' = [call EXCEPT ![c] = [r EXCEPT !.step = s]]
  BY DEF Enter
<1>3. s \in StepsOf(c) /\ s \in {"queued", "list", "cotik"}
  BY <1>1, Kinds DEF Entry, UpdateStep, BatchStep, Before
<1>4. call'[c] \in Locals(c) /\ call'[c].orders = 0 /\ call'[c].step = s
  BY <1>1, <1>2, <1>3 DEF Locals
<1>5. \A d \in Call \ {c} : call'[d] = call[d]
  BY <1>1, <1>2
<1>6. \A d \in Call \ {c} : (Working(d)' <=> Working(d))
                            /\ (At(d, "queued")' <=> At(d, "queued"))
  BY <1>5 DEF Working, At
<1>7. ~ Working(c) /\ ~ At(c, "queued")
  BY <1>1 DEF Working, At
<1>8. CASE syncRunning
  <2>1. /\ call'[c].step = "queued" /\ syncRunning' = TRUE
        /\ syncWaiters' = Append(syncWaiters, c)
    <3>1. call' = [call EXCEPT ![c] = [r EXCEPT !.step = "queued"]]
      BY <1>8 DEF Enter
    <3> QED BY <1>1, <1>8, <3>1 DEF Enter
  <2>2. ~ Working(c)' /\ At(c, "queued")'
    BY <2>1 DEF Working, At
  <2>3. /\ Len(syncWaiters') = Len(syncWaiters) + 1
        /\ syncWaiters'[Len(syncWaiters) + 1] = c
        /\ \A i \in DOMAIN syncWaiters : syncWaiters'[i] = syncWaiters[i]
        /\ DOMAIN syncWaiters' = DOMAIN syncWaiters \cup {Len(syncWaiters) + 1}
        /\ syncWaiters' \in Seq(Update \cup Batch)
        /\ Len(syncWaiters) + 1 \notin DOMAIN syncWaiters
    BY <2>1 DEF Types
  <2>4. \A d \in Call : At(d, "queued")' <=> \E i \in DOMAIN syncWaiters' : syncWaiters'[i] = d
    BY <1>1, <1>6, <2>2, <2>3 DEF QueueInv
  <2>5. \A i \in DOMAIN syncWaiters : syncWaiters[i] # c
    BY <1>1, <1>7 DEF QueueInv
  <2>6. \A i, j \in DOMAIN syncWaiters' : syncWaiters'[i] = syncWaiters'[j] => i = j
    BY <2>3, <2>5 DEF QueueInv
  <2>7. \A d, e \in Call : Working(d)' /\ Working(e)' => d = e
    BY <1>6, <2>2 DEF QueueInv
  <2>8. \E d \in Call : Working(d)'
    BY <1>6, <1>7, <1>8 DEF QueueInv
  <2>9. QueueInv'
    BY <2>1, <2>4, <2>6, <2>7, <2>8 DEF QueueInv
  <2> QED BY <1>1, <1>2, <1>3, <1>4, <1>5, <2>1, <2>3, <2>9
<1>9. CASE ~ syncRunning
  <2>1. /\ call'[c].step = Entry(c) /\ syncRunning' = TRUE
        /\ syncWaiters' = syncWaiters
    <3>1. call' = [call EXCEPT ![c] = [r EXCEPT !.step = Entry(c)]]
      BY <1>9 DEF Enter
    <3> QED BY <1>1, <1>9, <3>1 DEF Enter
  <2>2. Working(c)' /\ ~ At(c, "queued")'
    BY <2>1 DEF Working, At, Entry
  <2>3. \A d \in Call : At(d, "queued")' <=> At(d, "queued")
    BY <1>6, <1>7, <2>2
  <2>4. \A d \in Call : ~ Working(d)
    BY <1>9 DEF QueueInv
  <2>5. \A d \in Call : Working(d)' => d = c
    BY <1>6, <2>4
  <2>6. QueueInv'
    BY <1>1, <2>1, <2>2, <2>3, <2>5 DEF QueueInv
  <2>7. syncRunning' \in BOOLEAN /\ syncWaiters' \in Seq(Update \cup Batch)
    BY <2>1 DEF Types
  <2> QED BY <1>1, <1>2, <1>3, <1>4, <1>5, <2>6, <2>7
<1> QED BY <1>8, <1>9

LEMMA Left ==
  ASSUME CallConstants, Types, QueueInv, NEW c \in Update \cup Batch, Working(c),
         NEW a \in Answer, Leave(c, a)
  PROVE  /\ QueueInv'
         /\ call'[c] = [call[c] EXCEPT !.step = "done", !.answer = a]
         /\ Others(c)
         /\ DOMAIN call' = Call
         /\ syncRunning' \in BOOLEAN /\ syncWaiters' \in Seq(Update \cup Batch)
<1> DEFINE ended == [call EXCEPT ![c].step = "done", ![c].answer = a]
<1>1. c \in Call /\ DOMAIN call = Call /\ call[c].step # "idle" /\ ~ At(c, "queued")
  BY DEF Types, Call, Working, At
<1>2. ended[c] = [call[c] EXCEPT !.step = "done", !.answer = a]
      /\ \A d \in Call \ {c} : ended[d] = call[d]
  BY <1>1
<1>3. ended[c].step = "done"
  <2>1. [call[c] EXCEPT !.step = "done", !.answer = a].step = "done"
    BY <1>1, Ended
  <2> QED BY <1>2, <2>1
<1>4. CASE syncWaiters = <<>>
  <2>1. call' = ended /\ syncRunning' = FALSE /\ syncWaiters' = syncWaiters
    BY <1>4 DEF Leave
  <2>2. ~ Working(c)' /\ ~ At(c, "queued")'
    BY <1>3, <2>1 DEF Working, At
  <2>3. \A d \in Call \ {c} : call'[d] = call[d]
    BY <1>2, <2>1
  <2>4. \A d \in Call \ {c} : (Working(d)' <=> Working(d))
                              /\ (At(d, "queued")' <=> At(d, "queued"))
    BY <2>3 DEF Working, At
  <2>5. \A d \in Call : ~ Working(d)'
    BY <1>1, <2>2, <2>4 DEF QueueInv
  <2>6. QueueInv'
    BY <1>1, <1>4, <2>1, <2>2, <2>4, <2>5 DEF QueueInv
  <2>7. DOMAIN call' = Call
    BY <1>1, <2>1
  <2> QED BY <1>2, <2>1, <2>3, <2>6, <2>7 DEF Others, Types
<1>5. CASE syncWaiters # <<>>
  <2>0. PICK next \in Update \cup Batch : next = Head(syncWaiters)
    BY <1>5 DEF Types
  <2>1. /\ call' = [ended EXCEPT ![next].step = Entry(next)]
        /\ syncRunning' = syncRunning /\ syncWaiters' = Tail(syncWaiters)
    BY <1>5, <2>0 DEF Leave
  <2>2. 1 \in DOMAIN syncWaiters /\ next = syncWaiters[1]
    BY <1>5, <2>0 DEF Types
  <2>3. next \in Call /\ At(next, "queued") /\ next # c
    BY <1>1, <2>2 DEF QueueInv, Call
  <2>4. /\ call'[c] = ended[c]
        /\ call'[next] = [call[next] EXCEPT !.step = Entry(next)]
        /\ \A d \in Call \ {c, next} : call'[d] = call[d]
    <3>1. DOMAIN ended = Call
      BY <1>1
    <3> HIDE DEF ended
    <3> QED BY <1>1, <1>2, <2>1, <2>3, <3>1
  <2>5. Woken(next)
    BY <2>3, <2>4 DEF Woken
  <2>6. Working(next)' /\ ~ Working(next) /\ call'[next].step \in {"list", "cotik"}
    BY <2>3, <2>5, WokenTyped
  <2>7. ~ Working(c)' /\ ~ At(c, "queued")' /\ ~ At(next, "queued")'
    BY <1>3, <2>4, <2>6 DEF Working, At
  <2>8. \A d \in Call \ {c, next} : (Working(d)' <=> Working(d))
                                    /\ (At(d, "queued")' <=> At(d, "queued"))
    BY <2>4 DEF Working, At
  <2>9. \A d \in Call : Working(d)' => d = next
    BY <1>1, <2>7, <2>8 DEF QueueInv
  <2>10. /\ syncWaiters' \in Seq(Update \cup Batch)
         /\ DOMAIN syncWaiters' = 1..(Len(syncWaiters) - 1)
         /\ DOMAIN syncWaiters = 1..Len(syncWaiters) /\ Len(syncWaiters) \in Nat
         /\ \A i \in DOMAIN syncWaiters' : syncWaiters'[i] = syncWaiters[i + 1]
    BY <1>5, <2>1 DEF Types
  <2>11. \A i, j \in DOMAIN syncWaiters' : syncWaiters'[i] = syncWaiters'[j] => i = j
    <3> SUFFICES ASSUME NEW i \in DOMAIN syncWaiters', NEW j \in DOMAIN syncWaiters',
                        syncWaiters'[i] = syncWaiters'[j]
                 PROVE  i = j
      OBVIOUS
    <3>1. i + 1 \in DOMAIN syncWaiters /\ j + 1 \in DOMAIN syncWaiters
      BY <2>10
    <3>2. i + 1 = j + 1
      BY <2>10, <3>1 DEF QueueInv
    <3> QED BY <2>10, <3>2
  <2>12. ASSUME NEW d \in Call
         PROVE  At(d, "queued")' <=> \E i \in DOMAIN syncWaiters' : syncWaiters'[i] = d
    <3>1. ASSUME NEW i \in DOMAIN syncWaiters', syncWaiters'[i] = d PROVE At(d, "queued")'
      <4>1. i + 1 \in DOMAIN syncWaiters /\ syncWaiters[i + 1] = d /\ i + 1 # 1
        BY <2>10, <3>1
      <4>2. At(d, "queued") /\ d # next
        BY <2>2, <4>1 DEF QueueInv
      <4> QED BY <1>1, <2>8, <4>2
    <3>2. ASSUME At(d, "queued")' PROVE \E i \in DOMAIN syncWaiters' : syncWaiters'[i] = d
      <4>1. d # c /\ d # next /\ At(d, "queued")
        BY <2>7, <2>8, <3>2
      <4>2. PICK j \in DOMAIN syncWaiters : syncWaiters[j] = d
        BY <4>1 DEF QueueInv
      <4>3. j # 1 /\ j \in 1..Len(syncWaiters)
        BY <2>2, <2>10, <4>1, <4>2
      <4>4. j - 1 \in DOMAIN syncWaiters' /\ (j - 1) + 1 = j
        BY <2>10, <4>3
      <4>5. syncWaiters'[j - 1] = d
        BY <2>10, <4>2, <4>4
      <4> QED BY <4>4, <4>5
    <3> QED BY <3>1, <3>2
  <2>13. syncRunning
    BY <1>5 DEF QueueInv
  <2>14. QueueInv'
    BY <2>1, <2>3, <2>6, <2>9, <2>11, <2>12, <2>13 DEF QueueInv
  <2>15. DOMAIN call' = Call
    BY <1>1, <2>1
  <2>16. Others(c)
    BY <2>4, <2>5 DEF Others
  <2> QED BY <1>2, <2>1, <2>4, <2>10, <2>13, <2>14, <2>15, <2>16
<1> QED BY <1>4, <1>5

-----------------------------------------------------------------------------
(* A step of one call.                                                     *)

\* What is stored only becomes newer.
Grows ==
  /\ syncs <= syncs'
  /\ \A s \in Shop : orders[s].run <= orders'[s].run /\ finance[s] <= finance'[s]

Tables ==
  /\ inventory' \in [Shop -> State] \cup {None}
  /\ orders' \in [Shop -> [run : Nat, complete : BOOLEAN, official : BOOLEAN]]
  /\ finance' \in [Shop -> Nat]
  /\ syncs' \in Nat
  /\ RunsInv'
  /\ Grows

LEMMA TablesSame ==
  ASSUME Types, RunsInv, UNCHANGED <<inventory, orders, finance, syncs>>
  PROVE  Tables
BY DEF Types, Tables, RunsInv, Grows

\* An update that steps on before its first sync, or is not touched.
LEMMA TruthStays ==
  ASSUME CallConstants, Types, RunsInv, Tables, NEW c \in Update, TruthOf(c),
         \/ call'[c] = call[c]
         \/ /\ call'[c].step \in Before /\ call[c].step \in Before
            /\ call'[c].orders = call[c].orders
  PROVE  TruthOf(c)'
<1>1. c \in Call
  BY DEF Call
<1>2. CASE call'[c] = call[c]
  <2>1. CASE call[c].step = "idle"
    BY <1>2, <2>1 DEF TruthOf, Before
  <2>2. CASE call[c].step # "idle"
    <3>1. call[c] \in Locals(c)
      BY <1>1, <2>2, Made
    <3>2. call[c].shop \in Shop /\ call[c].orders \in Nat /\ call[c].finance \in Nat
      BY <1>1, <3>1, Kinds DEF Locals
    <3>3. /\ orders[call[c].shop].run <= orders'[call[c].shop].run
          /\ finance[call[c].shop] <= finance'[call[c].shop]
          /\ orders[call[c].shop].run \in Nat /\ orders'[call[c].shop].run \in Nat
          /\ finance[call[c].shop] \in Nat /\ finance'[call[c].shop] \in Nat
          /\ syncs \in Nat /\ syncs' \in Nat /\ syncs <= syncs'
      BY <3>2 DEF Tables, Grows, Types
    <3>4. CASE call[c].step = "finance"
      BY <1>2, <3>2, <3>3, <3>4 DEF TruthOf, Before
    <3>5. CASE call[c].step = "risk"
      BY <1>2, <3>2, <3>3, <3>5 DEF TruthOf, Before
    <3>6. CASE call[c].step \notin {"finance", "risk"}
      BY <1>2, <3>6 DEF TruthOf
    <3> QED BY <3>4, <3>5, <3>6
  <2> QED BY <2>1, <2>2
<1>3. CASE /\ call'[c].step \in Before /\ call[c].step \in Before
           /\ call'[c].orders = call[c].orders
  BY <1>3 DEF TruthOf, Before
<1> QED BY <1>2, <1>3

LEMMA Alone ==
  ASSUME CallConstants, IInv, NEW c \in Call, Others(c), DOMAIN call' = Call,
         call'[c] \in Locals(c), syncRunning' \in BOOLEAN,
         syncWaiters' \in Seq(Update \cup Batch), QueueInv', inFlight' = inFlight, Tables,
         call[c].step \notin {"probe", "poll", "joined"},
         call'[c].step \notin {"probe", "poll", "joined"},
         c \in Update => TruthOf(c)'
  PROVE  IInv'
<1>1. ASSUME NEW d \in Call, d # c
      PROVE  /\ call'[d] = call[d] \/ Woken(d)
             /\ Typed(d)'
             /\ Launching(d)' <=> Launching(d)
             /\ At(d, "joined")' <=> At(d, "joined")
  <2>1. call'[d] = call[d] \/ Woken(d)
    BY <1>1 DEF Others
  <2>2. CASE call'[d] = call[d]
    <3>1. Typed(d)' <=> Typed(d)
      BY <2>2 DEF Typed, Locals
    <3> QED BY <2>1, <2>2, <3>1 DEF IInv, Types, Launching, At
  <2>3. CASE Woken(d)
    <3>1. call'[d] \in Locals(d) /\ call'[d].step \in {"list", "cotik"}
      BY <2>3, WokenTyped DEF IInv
    <3>2. call[d].step = "queued"
      BY <2>3 DEF Woken, At
    <3>3. Typed(d)'
      BY <3>1 DEF Typed, Locals
    <3> QED BY <2>1, <3>1, <3>2, <3>3 DEF Launching, At
  <2> QED BY <2>1, <2>2, <2>3
<1>2. Typed(c)'
  BY DEF Typed, Locals
<1>3. Types'
  <2>1. \A d \in Call : Typed(d)'
    BY <1>1, <1>2
  <2> QED BY <2>1 DEF IInv, Types, Tables
<1>4. ~ Launching(c) /\ ~ At(c, "joined") /\ ~ Launching(c)' /\ ~ At(c, "joined")'
  BY DEF Launching, At
<1>5. LaunchInv'
  BY <1>1, <1>4 DEF IInv, LaunchInv
<1>6. ASSUME NEW d \in Update PROVE TruthOf(d)'
  <2>1. CASE d = c
    BY <2>1
  <2>2. CASE d # c
    <3>1. d \in Call
      BY DEF Call
    <3>2. call'[d] = call[d] \/ Woken(d)
      BY <1>1, <2>2, <3>1
    <3>3. Woken(d) => /\ call'[d].step \in Before /\ call[d].step \in Before
                      /\ call'[d].orders = call[d].orders
      BY <3>1, WokenTyped DEF IInv, Woken, At, Before
    <3>4. TruthOf(d)
      BY DEF IInv, TruthInv
    <3> QED BY <3>2, <3>3, <3>4, TruthStays DEF IInv
  <2> QED BY <2>1, <2>2
<1> QED BY <1>3, <1>5, <1>6 DEF IInv, TruthInv, Tables

\* A call changes its step, and does not end.
LEMMA Advances ==
  ASSUME CallConstants, IInv, NEW c \in Call, NEW s \in StepsOf(c),
         call' = [call EXCEPT ![c].step = s],
         call[c].step \notin {"idle", "queued", "done", "probe", "poll", "joined"},
         s \notin {"queued", "done", "probe", "poll", "joined"},
         c \in Update => call[c].step \in Before /\ s \in Before,
         UNCHANGED <<queue, inFlight>>, Tables
  PROVE  IInv'
<1>1. DOMAIN call = Call /\ DOMAIN call' = Call
  BY DEF IInv, Types
<1>2. call'[c] = [call[c] EXCEPT !.step = s] /\ \A d \in Call \ {c} : call'[d] = call[d]
  BY <1>1
<1>3. call'[c] \in Locals(c) /\ call'[c].step = s /\ call'[c].orders = call[c].orders
  <2>1. LET r == [call[c] EXCEPT !.step = s] IN
          r \in Locals(c) /\ r.step = s /\ r.orders = call[c].orders
    BY Stepped DEF IInv
  <2> QED BY <1>2, <2>1
<1>4. Others(c)
  BY <1>2 DEF Others
<1>5. QueueLocal
  <2>1. (Working(c)' <=> Working(c)) /\ (At(c, "queued")' <=> At(c, "queued"))
    <3>1. "idle" \notin StepsOf(c)
      BY DEF StepsOf, UpdateStep, BatchStep, OpenStep, Before
    <3> QED BY <1>3, <3>1 DEF Working, At
  <2>2. \A d \in Call \ {c} : (Working(d)' <=> Working(d))
                              /\ (At(d, "queued")' <=> At(d, "queued"))
    BY <1>2 DEF Working, At
  <2> QED BY <2>1, <2>2 DEF QueueLocal
<1>6. QueueInv'
  BY <1>5, QueueStays DEF IInv
<1>7. c \in Update => TruthOf(c)'
  BY <1>3, TruthStays DEF IInv, TruthInv
<1> QED BY <1>1, <1>3, <1>4, <1>6, <1>7, Alone DEF IInv, Types, queue

\* What a call that ends may answer.
MayAnswer(c, a) ==
  c \in Update =>
    /\ a = "SUCCESS" => call[c].step = "judge" /\ call[c].evidence.complete
    /\ a = "ERROR" => call[c].orders = 0

LEMMA Leaves ==
  ASSUME CallConstants, IInv, NEW c \in Update \cup Batch,
         call[c].step \notin {"idle", "queued", "done", "probe", "poll", "joined"},
         NEW a \in Answer, Leave(c, a), MayAnswer(c, a), inFlight' = inFlight, Tables
  PROVE  IInv'
<1>1. c \in Call /\ Working(c) /\ Types /\ QueueInv
  BY DEF Working, Call, IInv
<1>2. /\ QueueInv'
      /\ call'[c] = [call[c] EXCEPT !.step = "done", !.answer = a]
      /\ Others(c)
      /\ DOMAIN call' = Call
      /\ syncRunning' \in BOOLEAN /\ syncWaiters' \in Seq(Update \cup Batch)
  BY <1>1, Left
<1>3. /\ call'[c] \in Locals(c) /\ call'[c].step = "done" /\ call'[c].answer = a
      /\ call'[c].orders = call[c].orders
      /\ call'[c].finance = call[c].finance /\ call'[c].evidence = call[c].evidence
  <2>1. LET r == [call[c] EXCEPT !.step = "done", !.answer = a] IN
          /\ r \in Locals(c) /\ r.step = "done" /\ r.answer = a
          /\ r.orders = call[c].orders
          /\ r.finance = call[c].finance /\ r.evidence = call[c].evidence
    BY ZenonT(40), <1>1, Ended
  <2> QED BY <1>2, <2>1
<1>4. c \in Update => TruthOf(c)'
  BY <1>3 DEF MayAnswer, TruthOf, IInv, TruthInv, Before
<1> QED BY <1>1, <1>2, <1>3, <1>4, Alone

LEMMA Ends ==
  ASSUME CallConstants, IInv, NEW c \in Update \cup Open,
         call[c].step \notin {"idle", "queued", "done", "probe", "poll", "joined"},
         NEW a \in Answer, End(c, a), MayAnswer(c, a), inFlight' = inFlight, Tables
  PROVE  IInv'
<1>1. c \in Call /\ Types /\ DOMAIN call = Call
  BY DEF Call, IInv, Types
<1>2. CASE c \in Open
  <2>1. call' = [call EXCEPT ![c].step = "done", ![c].answer = a] /\ UNCHANGED queue
    BY <1>2 DEF End
  <2>2. /\ call'[c] = [call[c] EXCEPT !.step = "done", !.answer = a]
        /\ \A d \in Call \ {c} : call'[d] = call[d]
        /\ DOMAIN call' = Call
    BY <1>1, <2>1
  <2>3. call'[c] \in Locals(c) /\ call'[c].step = "done"
    <3>1. LET r == [call[c] EXCEPT !.step = "done", !.answer = a] IN
            r \in Locals(c) /\ r.step = "done"
      BY <1>1, Ended
    <3> QED BY <2>2, <3>1
  <2>4. c \notin Update /\ c \notin Batch
    BY <1>1, <1>2, Kinds
  <2>5. QueueLocal
    <3>1. ~ Working(c) /\ ~ Working(c)' /\ ~ At(c, "queued") /\ ~ At(c, "queued")'
      BY <2>3, <2>4 DEF Working, At
    <3>2. \A d \in Call \ {c} : (Working(d)' <=> Working(d))
                                /\ (At(d, "queued")' <=> At(d, "queued"))
      BY <2>2 DEF Working, At
    <3> QED BY <2>1, <3>1, <3>2 DEF QueueLocal
  <2>6. QueueInv'
    BY <2>5, QueueStays DEF IInv
  <2>7. Others(c)
    BY <2>2 DEF Others
  <2> QED BY <1>1, <2>1, <2>2, <2>3, <2>4, <2>6, <2>7, Alone DEF Types, queue
<1>3. CASE c \notin Open
  <2>1. c \in Update
    BY <1>3
  <2>2. PICK b \in {"NONE", a} : Leave(c, b)
    BY <1>3 DEF End
  <2>3. b \in Answer /\ MayAnswer(c, b)
    BY <2>2 DEF Answer, MayAnswer
  <2> QED BY <2>1, <2>2, <2>3, Leaves
<1> QED BY <1>2, <1>3

\* An event is sent: the call goes on, or leaves if its client has gone.
LEMMA Emits ==
  ASSUME CallConstants, IInv, NEW c \in Update, NEW s \in Before,
         call[c].step \in Before,
         call[c].step \notin {"queued", "probe", "poll", "joined"},
         s \notin {"queued", "probe", "poll", "joined"},
         Emit(c, s), inFlight' = inFlight, Tables
  PROVE  IInv'
<1>1. c \in Call /\ s \in StepsOf(c)
  BY Kinds DEF Call, UpdateStep
<1>2. CASE c \in gone
  <2>1. Leave(c, "NONE") /\ "NONE" \in Answer /\ MayAnswer(c, "NONE")
    BY <1>2 DEF Emit, Answer, MayAnswer
  <2>2. call[c].step \notin {"idle", "queued", "done", "probe", "poll", "joined"}
    BY DEF Before
  <2> QED BY <2>1, <2>2, Leaves
<1>3. CASE c \notin gone
  <2>1. call' = [call EXCEPT ![c].step = s] /\ UNCHANGED queue
    BY <1>3 DEF Emit
  <2>2. call[c].step \notin {"idle", "queued", "done", "probe", "poll", "joined"}
        /\ s \notin {"queued", "done", "probe", "poll", "joined"}
    BY DEF Before
  <2>3. UNCHANGED <<queue, inFlight>>
    BY <2>1
  <2> QED BY <1>1, <2>1, <2>2, <2>3, Advances
<1> QED BY <1>2, <1>3

-----------------------------------------------------------------------------
(* The steps of calls on their way, several of which one listing or one     *)
(* launch may move at once.                                                *)

OnTheWay == {"list", "listing", "links", "ensure", "probe", "poll", "joined", "open", "refused"}

Moved(d) ==
  /\ call[d].step \in OnTheWay
  /\ call'[d] \in Locals(d) /\ call'[d].step \in OnTheWay
  /\ call'[d].orders = call[d].orders

LEMMA Marches ==
  ASSUME CallConstants, IInv, \A d \in Call : call'[d] = call[d] \/ Moved(d),
         DOMAIN call' = Call, UNCHANGED queue, inFlight' \in Call \cup {None},
         LaunchInv', Tables
  PROVE  IInv'
<1>1. \A d \in Call : Typed(d)'
  <2> SUFFICES ASSUME NEW d \in Call PROVE Typed(d)'
    OBVIOUS
  <2>1. CASE call'[d] = call[d]
    <3>1. Typed(d)' <=> Typed(d)
      BY <2>1 DEF Typed, Locals
    <3> QED BY <3>1 DEF IInv, Types
  <2>2. CASE Moved(d)
    BY <2>2 DEF Typed, Moved, Locals
  <2> QED BY <2>1, <2>2
<1>2. Types'
  BY <1>1 DEF IInv, Types, Tables, queue
<1>3. QueueLocal
  BY DEF QueueLocal, Moved, OnTheWay, Working, At
<1>4. QueueInv'
  BY <1>3, QueueStays DEF IInv
<1>5. TruthInv'
  <2> SUFFICES ASSUME NEW d \in Update PROVE TruthOf(d)'
    BY DEF TruthInv
  <2>1. call'[d] = call[d]
        \/ (call'[d].step \in Before /\ call[d].step \in Before
            /\ call'[d].orders = call[d].orders)
    BY DEF Call, Moved, OnTheWay, Before
  <2> QED BY <2>1, TruthStays DEF IInv, TruthInv
<1> QED BY <1>2, <1>4, <1>5 DEF IInv, Tables

\* A call on its way steps on.
LEMMA MovedStep ==
  ASSUME CallConstants, IInv, NEW d \in Update \cup Open, NEW s \in OnTheWay \ {"links"},
         call[d].step \in OnTheWay, call'[d] = [call[d] EXCEPT !.step = s]
  PROVE  Moved(d) /\ call'[d].step = s
<1>1. d \in Call /\ s \in StepsOf(d) /\ call[d].step # "idle"
  BY Kinds DEF Call, OnTheWay, UpdateStep, OpenStep, Before
<1>2. LET r == [call[d] EXCEPT !.step = s] IN
        r \in Locals(d) /\ r.step = s /\ r.orders = call[d].orders
  BY <1>1, Stepped DEF IInv
<1> QED BY <1>2 DEF Moved, OnTheWay

\* A call takes the state of its profile from a listing.
LEMMA MovedNamed ==
  ASSUME CallConstants, IInv, NEW d \in Update \cup Open, NEW view \in [Shop -> State],
         call[d].step \in OnTheWay, call'[d] = Named(view, d)
  PROVE  Moved(d) /\ call'[d].step \in {"links", "open"}
<1>1. d \in Call /\ d \notin Batch /\ call[d].step # "idle"
  BY Kinds DEF Call, OnTheWay
<1>2. call[d] \in Locals(d) /\ call[d].shop \in Shop /\ view[call[d].shop] \in State
  <2>1. call[d] \in Locals(d)
    BY <1>1, Made DEF IInv
  <2> QED BY <1>1, <2>1 DEF Locals
<1> DEFINE s == IF d \in Open THEN "open" ELSE "links"
<1>3. s \in StepsOf(d) /\ s \in OnTheWay /\ s \in {"links", "open"}
  BY <1>1, Kinds DEF OnTheWay, UpdateStep, OpenStep, Before
<1>4. call'[d] = [call[d] EXCEPT !.state = view[call[d].shop], !.step = s]
  BY DEF Named
<1> HIDE DEF s
<1>5. call'[d] \in Locals(d) /\ call'[d].step = s /\ call'[d].orders = call[d].orders
  BY <1>2, <1>3, <1>4 DEF Locals
<1> QED BY <1>3, <1>5 DEF Moved

\* Whoever is on the way is no COTIK sync.
LEMMA WayOf ==
  ASSUME CallConstants, IInv, NEW d \in Call, call[d].step \in OnTheWay
  PROVE  d \in Update \cup Open
<1>1. call[d] \in Locals(d)
  BY Made DEF IInv, OnTheWay
<1>2. d \notin Batch
  BY <1>1, Kinds DEF Locals, BatchStep, OnTheWay
<1> QED BY <1>2 DEF Call

LEMMA LaunchStays ==
  ASSUME LaunchInv, UNCHANGED inFlight,
         \A d \in Call :
            \/ call'[d] = call[d]
            \/ /\ call[d].step \notin {"probe", "poll", "joined"}
               /\ call'[d].step \notin {"probe", "poll", "joined"}
  PROVE  LaunchInv'
BY DEF LaunchInv, Launching, At

LEMMA ListingSteps ==
  ASSUME CallConstants, IInv,
         \/ \E c \in Update \cup Open : ListProfiles(c)
         \/ \E known \in BOOLEAN : ProfilesListed(known)
         \/ ListingFails
  PROVE  IInv'
<1>0. DOMAIN call = Call
  BY DEF IInv, Types
<1>1. ASSUME NEW c \in Update \cup Open, ListProfiles(c) PROVE IInv'
  <2>1. c \in Call /\ call[c].step = "list" /\ UNCHANGED <<queue, inFlight>> /\ Tables
    BY <1>1, TablesSame DEF ListProfiles, At, Call, database, IInv
  <2>2. DOMAIN call' = Call /\ \A d \in Call \ {c} : call'[d] = call[d]
    BY <1>0, <1>1 DEF ListProfiles
  <2>3. Moved(c) /\ call'[c].step \notin {"probe", "poll", "joined"}
    <3>1. CASE inventory # None
      <4>1. inventory \in [Shop -> State] /\ call'[c] = Named(inventory, c)
        BY <1>0, <1>1, <2>1, <3>1 DEF ListProfiles, IInv, Types
      <4> QED BY <2>1, <4>1, MovedNamed DEF OnTheWay
    <3>2. CASE inventory = None
      <4>1. call'[c] = [call[c] EXCEPT !.step = "listing"]
        BY <1>0, <1>1, <2>1, <3>2 DEF ListProfiles
      <4>2. "listing" \in OnTheWay \ {"links"} /\ call[c].step \in OnTheWay
        BY <2>1 DEF OnTheWay
      <4>3. Moved(c) /\ call'[c].step = "listing"
        BY <4>1, <4>2, MovedStep
      <4> QED BY <4>3
    <3> QED BY <3>1, <3>2
  <2>4. LaunchInv'
    BY <2>1, <2>2, <2>3, LaunchStays DEF IInv
  <2>5. inFlight' \in Call \cup {None}
    BY <2>1 DEF IInv, Types
  <2> QED BY <2>1, <2>2, <2>3, <2>4, <2>5, Marches
<1>2. ASSUME UNCHANGED <<queue, inFlight>>, Tables, DOMAIN call' = Call,
             \A d \in Call :
               \/ call'[d] = call[d]
               \/ /\ Moved(d) /\ call[d].step = "listing"
                  /\ call'[d].step \notin {"probe", "poll", "joined"}
      PROVE  IInv'
  <2>1. LaunchInv'
    BY <1>2, LaunchStays DEF IInv
  <2>2. inFlight' \in Call \cup {None}
    BY <1>2 DEF IInv, Types
  <2> QED BY <1>2, <2>1, <2>2, Marches
<1>3. ASSUME NEW known \in BOOLEAN, ProfilesListed(known) PROVE IInv'
  <2>1. PICK view \in [Shop -> State] :
          /\ inventory' = view
          /\ call' = [c \in Call |-> IF At(c, "listing") THEN Named(view, c) ELSE call[c]]
    <3>1. [s \in Shop |-> IF ~ known THEN "ERROR"
                          ELSE IF s \in open THEN "OPEN" ELSE "CLOSED"] \in [Shop -> State]
      BY DEF State
    <3> QED BY <1>3, <3>1 DEF ProfilesListed
  <2>2. UNCHANGED <<queue, inFlight, orders, finance, syncs>>
    BY <1>3 DEF ProfilesListed, database
  <2>3. Tables
    BY <2>1, <2>2 DEF IInv, Types, Tables, RunsInv, Grows
  <2>4. ASSUME NEW d \in Call, At(d, "listing")
        PROVE  Moved(d) /\ call[d].step = "listing"
               /\ call'[d].step \notin {"probe", "poll", "joined"}
    <3>1. d \in Update \cup Open /\ call[d].step \in OnTheWay /\ call'[d] = Named(view, d)
      BY <2>1, <2>4, WayOf DEF At, OnTheWay
    <3> QED BY <2>4, <3>1, MovedNamed DEF At
  <2>5. \A d \in Call : ~ At(d, "listing") => call'[d] = call[d]
    BY <2>1
  <2>6. DOMAIN call' = Call
    BY <2>1
  <2> QED BY <1>2, <2>2, <2>3, <2>4, <2>5, <2>6
<1>4. CASE ListingFails
  <2>1. /\ call' = [c \in Call |-> IF At(c, "listing")
                                   THEN [call[c] EXCEPT !.step = "refused"] ELSE call[c]]
        /\ UNCHANGED <<queue, inFlight, inventory, orders, finance, syncs>>
    BY <1>4 DEF ListingFails, database
  <2>2. Tables
    BY <2>1, TablesSame DEF IInv
  <2>3. ASSUME NEW d \in Call, At(d, "listing")
        PROVE  Moved(d) /\ call[d].step = "listing"
               /\ call'[d].step \notin {"probe", "poll", "joined"}
    <3>1. call'[d] = [call[d] EXCEPT !.step = "refused"] /\ call[d].step = "listing"
      BY <2>1, <2>3 DEF At
    <3>2. d \in Update \cup Open
      BY <3>1, WayOf DEF OnTheWay
    <3>3. Moved(d) /\ call'[d].step = "refused"
      BY <3>1, <3>2, MovedStep DEF OnTheWay
    <3> QED BY <3>1, <3>3
  <2>4. DOMAIN call' = Call /\ \A d \in Call : ~ At(d, "listing") => call'[d] = call[d]
    BY <2>1
  <2> QED BY <1>2, <2>1, <2>2, <2>3, <2>4
<1> QED BY <1>1, <1>3, <1>4

LEMMA LaunchSteps ==
  ASSUME CallConstants, IInv, NEW c \in Update \cup Open,
         EnsureReady(c) \/ Ready(c) \/ Launch(c) \/ NotReady(c)
  PROVE  IInv'
<1>1. c \in Call /\ UNCHANGED queue /\ Tables /\ DOMAIN call = Call
  <2>1. UNCHANGED <<queue, inventory, orders, finance, syncs>>
    BY DEF EnsureReady, Ready, Launch, NotReady, database
  <2> QED BY <2>1, TablesSame DEF Call, IInv, Types
<1>2. c # None
  BY <1>1, Kinds
<1>3. CASE EnsureReady(c)
  <2>1. PICK s \in {"joined", "probe"} :
          /\ call' = [call EXCEPT ![c].step = s]
          /\ s = "joined" => inFlight # None /\ inFlight' = inFlight
          /\ s = "probe" => inFlight = None /\ inFlight' = c
    BY <1>3 DEF EnsureReady
  <2>2. /\ call[c].step = "ensure" /\ call'[c] = [call[c] EXCEPT !.step = s]
        /\ DOMAIN call' = Call /\ \A d \in Call \ {c} : call'[d] = call[d]
    BY <1>1, <1>3, <2>1 DEF EnsureReady, At
  <2>3. Moved(c) /\ call'[c].step = s
    BY <2>2, MovedStep DEF OnTheWay
  <2>4. LaunchInv'
    <3>1. CASE s = "joined"
      BY <1>1, <2>1, <2>2, <2>3, <3>1 DEF IInv, LaunchInv, Launching, At
    <3>2. CASE s = "probe"
      BY <1>1, <1>2, <2>1, <2>2, <2>3, <3>2, Kinds DEF IInv, LaunchInv, Launching, At
    <3> QED BY <3>1, <3>2
  <2>5. inFlight' \in Call \cup {None}
    BY <1>1, <2>1 DEF IInv, Types
  <2> QED BY <1>1, <2>2, <2>3, <2>4, <2>5, Marches
<1>4. CASE Launch(c)
  <2>1. /\ call[c].step = "probe" /\ call'[c] = [call[c] EXCEPT !.step = "poll"]
        /\ DOMAIN call' = Call /\ \A d \in Call \ {c} : call'[d] = call[d]
        /\ inFlight' = inFlight
    BY <1>1, <1>4 DEF Launch, At
  <2>2. Moved(c) /\ call'[c].step = "poll"
    BY <2>1, MovedStep DEF OnTheWay
  <2>3. LaunchInv'
    BY <1>1, <2>1, <2>2 DEF IInv, LaunchInv, Launching, At
  <2>4. inFlight' \in Call \cup {None}
    BY <2>1 DEF IInv, Types
  <2> QED BY <1>1, <2>1, <2>2, <2>3, <2>4, Marches
<1>5. CASE Ready(c) \/ NotReady(c)
  <2>1. Launching(c) /\ inFlight = c /\ inFlight' = None
    BY <1>1, <1>5 DEF Ready, NotReady, Launching, IInv, LaunchInv
  <2>2. ASSUME NEW d \in Call
        PROVE  IF d = c \/ At(d, "joined")
               THEN \E s \in {"list", "open", "refused"} :
                      call'[d] = [call[d] EXCEPT !.step = s]
               ELSE call'[d] = call[d]
    BY <1>5, <2>1 DEF Ready, NotReady
  <2>3. DOMAIN call' = Call
    BY <1>5 DEF Ready, NotReady
  <2>4. ASSUME NEW d \in Call, d = c \/ At(d, "joined")
        PROVE  Moved(d) /\ call'[d].step \in {"list", "open", "refused"}
    <3>1. call[d].step \in OnTheWay
      BY <2>1, <2>4 DEF Launching, At, OnTheWay
    <3>2. d \in Update \cup Open
      BY <3>1, WayOf
    <3>3. PICK s \in {"list", "open", "refused"} : call'[d] = [call[d] EXCEPT !.step = s]
      BY <2>2, <2>4
    <3>4. Moved(d) /\ call'[d].step = s
      BY <3>1, <3>2, <3>3, MovedStep DEF OnTheWay
    <3> QED BY <3>4
  <2>5. \A d \in Call : ~ (d = c \/ At(d, "joined")) => call'[d] = call[d]
    BY <2>2
  <2>6. ASSUME NEW d \in Call PROVE ~ Launching(d)' /\ ~ At(d, "joined")'
    <3>1. CASE d = c \/ At(d, "joined")
      BY <2>4, <3>1 DEF Launching, At
    <3>2. CASE ~ (d = c \/ At(d, "joined"))
      <4>1. ~ Launching(d)
        BY <2>1, <3>2 DEF IInv, LaunchInv
      <4> QED BY <2>5, <3>2, <4>1 DEF Launching, At
    <3> QED BY <3>1, <3>2
  <2>7. LaunchInv'
    BY <2>1, <2>6, Kinds DEF LaunchInv
  <2> QED BY <1>1, <2>1, <2>3, <2>4, <2>5, <2>7, Marches
<1> QED BY <1>3, <1>4, <1>5

-----------------------------------------------------------------------------
(* Calls begin.                                                            *)

LEMMA BeganIsOne ==
  ASSUME NEW s, NEW left \in Seq(Shop)
  PROVE  /\ Began(s, left) \in [step : {"list"}, shop : {s}, left : Seq(Shop), state : State,
                                orders : {0}, finance : {0}, evidence : {None}, answer : {None}]
BY DEF Began, State

LEMMA Begins ==
  ASSUME CallConstants, IInv,
         \/ \E c \in Update, s \in Shop : UpdateData(c, s)
         \/ \E c \in Batch :
              \E shops \in {<<s>> : s \in Shop} \cup {<<s, t>> : s, t \in Shop} :
                 SyncSelected(c, shops)
         \/ \E c \in Open, s \in Shop : OpenProfile(c, s)
  PROVE  IInv'
<1>1. ASSUME UNCHANGED <<adsPower, database>> PROVE Tables /\ inFlight' = inFlight
  BY <1>1, TablesSame DEF adsPower, database, IInv
<1>2. ASSUME NEW c \in Update \cup Batch, NEW r, Enter(c, r), r.orders = 0,
             r \in [step : {"list"}, shop : IF c \in Batch THEN {None} ELSE Shop,
                    left : Seq(Shop), state : State, orders : Nat, finance : Nat,
                    evidence : Evidence \cup {None}, answer : Answer \cup {None}]
      PROVE  IInv'
  <2>1. Tables /\ inFlight' = inFlight
    BY <1>1, <1>2 DEF Enter
  <2>2. /\ QueueInv'
        /\ call'[c] \in Locals(c) /\ call'[c].orders = 0
        /\ call'[c].step \in {"queued", "list", "cotik"}
        /\ \A d \in Call \ {c} : call'[d] = call[d]
        /\ DOMAIN call' = Call
        /\ syncRunning' \in BOOLEAN /\ syncWaiters' \in Seq(Update \cup Batch)
    BY <1>2, Entered DEF IInv
  <2>3. c \in Call /\ call[c].step = "idle"
    BY <1>2 DEF Enter, At, Call
  <2>4. c \in Update => TruthOf(c)'
    <3>1. c \in Update => call'[c].step \in Before
      BY <2>2, <2>3, Kinds DEF Locals, UpdateStep, Before
    <3> QED BY <2>2, <3>1 DEF TruthOf, Before
  <2>5. Others(c)
    BY <2>2 DEF Others
  <2> QED BY <2>1, <2>2, <2>3, <2>4, <2>5, Alone
<1>3. ASSUME NEW c \in Update, NEW s \in Shop, UpdateData(c, s) PROVE IInv'
  <2>1. c \notin Batch
    BY Kinds DEF Call
  <2>2. <<>> \in Seq(Shop)
    OBVIOUS
  <2>3. Began(s, <<>>) \in [step : {"list"}, shop : {s}, left : Seq(Shop), state : State,
                            orders : {0}, finance : {0}, evidence : {None}, answer : {None}]
    BY <2>2, BeganIsOne
  <2> DEFINE r == Began(s, <<>>)
  <2>4. Enter(c, r)
    BY <1>3 DEF UpdateData
  <2> HIDE DEF r
  <2>5. r.orders = 0 /\ r \in [step : {"list"}, shop : Shop, left : Seq(Shop), state : State,
                    orders : Nat, finance : Nat,
                    evidence : Evidence \cup {None}, answer : Answer \cup {None}]
    BY <2>3 DEF r
  <2> QED BY <1>2, <2>1, <2>4, <2>5
<1>4. ASSUME NEW c \in Batch,
             NEW shops \in {<<s>> : s \in Shop} \cup {<<s, t>> : s, t \in Shop},
             SyncSelected(c, shops)
      PROVE  IInv'
  <2>1. shops \in Seq(Shop)
    <3>1. CASE \E s \in Shop : shops = <<s>>
      BY <3>1
    <3>2. CASE \E s, t \in Shop : shops = <<s, t>>
      BY <3>2
    <3> QED BY <3>1, <3>2
  <2>2. Began(None, shops) \in
          [step : {"list"}, shop : {None}, left : Seq(Shop), state : State,
           orders : {0}, finance : {0}, evidence : {None}, answer : {None}]
    BY <2>1, BeganIsOne
  <2> DEFINE r == Began(None, shops)
  <2>3. Enter(c, r)
    BY <1>4 DEF SyncSelected
  <2> HIDE DEF r
  <2>4. r.orders = 0 /\ r \in [step : {"list"}, shop : {None}, left : Seq(Shop), state : State,
                    orders : Nat, finance : Nat,
                    evidence : Evidence \cup {None}, answer : Answer \cup {None}]
    BY <2>2 DEF r
  <2> QED BY <1>2, <2>3, <2>4
<1>5. ASSUME NEW c \in Open, NEW s \in Shop, OpenProfile(c, s) PROVE IInv'
  <2>1. Tables /\ inFlight' = inFlight /\ UNCHANGED queue
    BY <1>1, <1>5 DEF OpenProfile
  <2>2. c \in Call /\ c \notin Update /\ c \notin Batch /\ call[c].step = "idle"
    BY <1>5, Kinds DEF OpenProfile, At, Call
  <2>3. <<>> \in Seq(Shop)
    OBVIOUS
  <2>4. Began(s, <<>>) \in [step : {"list"}, shop : {s}, left : Seq(Shop), state : State,
                            orders : {0}, finance : {0}, evidence : {None}, answer : {None}]
    BY <2>3, BeganIsOne
  <2>5. /\ call'[c] = [Began(s, <<>>) EXCEPT !.step = "ensure"]
        /\ DOMAIN call' = Call
        /\ \A d \in Call \ {c} : call'[d] = call[d]
    BY <1>5, <2>2 DEF OpenProfile, IInv, Types
  <2>6. "ensure" \in StepsOf(c)
    BY <2>2, Kinds DEF OpenStep
  <2>7. call'[c] \in Locals(c) /\ call'[c].step = "ensure"
    BY <2>2, <2>4, <2>5, <2>6 DEF Locals
  <2>8. QueueLocal
    BY <2>1, <2>2, <2>5, <2>7 DEF QueueLocal, Working, At
  <2>9. QueueInv'
    BY <2>8, QueueStays DEF IInv
  <2>10. Others(c)
    BY <2>5 DEF Others
  <2>11. syncRunning' \in BOOLEAN /\ syncWaiters' \in Seq(Update \cup Batch)
    BY <2>1 DEF IInv, Types, queue
  <2> QED BY <2>1, <2>2, <2>5, <2>7, <2>9, <2>10, <2>11, Alone
<1> QED BY <1>3, <1>4, <1>5

-----------------------------------------------------------------------------
(* The steps of an update.                                                 *)

LEMMA PlainSteps ==
  ASSUME CallConstants, IInv,
         \/ \E c \in Update : FindShop(c) \/ CheckEligible(c) \/ CheckHealth(c) \/ SyncFails(c)
         \/ \E c \in Update \cup Open : Refused(c) \/ OpenReady(c)
  PROVE  IInv'
<1> DEFINE Apart == {"idle", "queued", "done", "probe", "poll", "joined"}
<1>1. Tables /\ inFlight' = inFlight
  <2>1. UNCHANGED <<inFlight, inventory, orders, finance, syncs>>
    BY DEF FindShop, CheckEligible, CheckHealth, SyncFails, Refused, OpenReady, adsPower,
           database
  <2> QED BY <2>1, TablesSame DEF IInv
<1>2. ASSUME NEW c \in Update, call[c].step \in Before PROVE call[c].orders = 0
  BY <1>2 DEF IInv, TruthInv, TruthOf
<1>3. ASSUME NEW c \in Update \cup Open, call[c].step \in Before, call[c].step \notin Apart,
             NEW a \in {"ERROR", "HUMAN_ACTION_REQUIRED", "OPEN"}, End(c, a)
      PROVE  IInv'
  <2>1. a \in Answer /\ MayAnswer(c, a)
    BY <1>2, <1>3 DEF Answer, MayAnswer
  <2> QED BY <1>1, <1>3, <2>1, Ends
<1>4. ASSUME NEW c \in Update, FindShop(c) PROVE IInv'
  <2>1. call[c].step = "links" /\ c \in Call
    BY <1>4 DEF FindShop, At, Call
  <2>2. CASE call' = [call EXCEPT ![c].step = "eligible"] /\ UNCHANGED queue
    <3>1. "eligible" \in StepsOf(c)
      BY <2>1, Kinds DEF UpdateStep, Before
    <3> QED BY <1>1, <2>1, <2>2, <3>1, Advances DEF Before
  <2>3. CASE End(c, "ERROR")
    BY <1>3, <2>1, <2>3 DEF Before
  <2> QED BY <1>4, <2>2, <2>3 DEF FindShop
<1>5. ASSUME NEW c \in Update, CheckEligible(c) PROVE IInv'
  <2>1. call[c].step = "eligible" /\ c \in Call
    BY <1>5 DEF CheckEligible, At, Call
  <2>2. CASE call' = [call EXCEPT ![c].step = "open"] /\ UNCHANGED queue
    <3>1. "open" \in StepsOf(c)
      BY <2>1, Kinds DEF UpdateStep, Before
    <3> QED BY <1>1, <2>1, <2>2, <3>1, Advances DEF Before
  <2>3. CASE Emit(c, "ensure")
    BY <1>1, <2>1, <2>3, Emits DEF Before
  <2>4. CASE End(c, "ERROR")
    BY <1>3, <2>1, <2>4 DEF Before
  <2> QED BY <1>5, <2>2, <2>3, <2>4 DEF CheckEligible
<1>6. ASSUME NEW c \in Update, CheckHealth(c) PROVE IInv'
  <2>1. call[c].step = "health"
    BY <1>6 DEF CheckHealth, At
  <2>2. CASE Emit(c, "orders")
    BY <1>1, <2>1, <2>2, Emits DEF Before
  <2>3. CASE \E answer \in {"ERROR", "HUMAN_ACTION_REQUIRED"} : End(c, answer)
    BY <1>3, <2>1, <2>3 DEF Before
  <2> QED BY <1>6, <2>2, <2>3 DEF CheckHealth
<1>7. ASSUME NEW c \in Update, SyncFails(c) PROVE IInv'
  <2>1. call[c].step \in {"orders", "finance"}
    BY <1>7 DEF SyncFails
  <2>2. PICK a \in {Failed(c), "HUMAN_ACTION_REQUIRED"} : End(c, a)
    BY <1>7 DEF SyncFails
  <2>3. a \in Answer /\ MayAnswer(c, a)
    BY <2>2 DEF Failed, Answer, MayAnswer
  <2> QED BY <1>1, <2>1, <2>2, <2>3, Ends
<1>8. ASSUME NEW c \in Update \cup Open, Refused(c) PROVE IInv'
  BY <1>3, <1>8 DEF Refused, At, Before
<1>9. ASSUME NEW c \in Update \cup Open, OpenReady(c) PROVE IInv'
  <2>1. call[c].step = "open"
    BY <1>9 DEF OpenReady, At
  <2>2. CASE c \notin Open /\ Emit(c, "health")
    BY <1>1, <2>1, <2>2, Emits DEF Before
  <2>3. CASE \E a \in {"OPEN", "ERROR"} : End(c, a)
    BY <1>3, <2>1, <2>3 DEF Before
  <2> QED BY <1>9, <2>2, <2>3 DEF OpenReady
<1> QED BY <1>4, <1>5, <1>6, <1>7, <1>8, <1>9

LEMMA OrdersStored ==
  ASSUME Types, RunsInv, NEW s \in Shop, NEW complete \in BOOLEAN, StoreOrders(s, complete),
         syncs' = syncs + 1, UNCHANGED <<inventory, finance>>
  PROVE  Tables /\ orders'[s].run = syncs + 1
<1> DEFINE row == [run |-> syncs + 1, complete |-> complete,
                   official |-> IF complete THEN TRUE ELSE orders[s].official]
<1>1. row \in [run : Nat, complete : BOOLEAN, official : BOOLEAN] /\ row.run = syncs + 1
  <2>1. syncs + 1 \in Nat /\ orders[s].official \in BOOLEAN
    BY DEF Types
  <2> QED BY <2>1
<1>2. orders' = [orders EXCEPT ![s] = row]
  BY DEF StoreOrders
<1> HIDE DEF row
<1>3. orders'[s] = row /\ \A t \in Shop \ {s} : orders'[t] = orders[t]
  BY <1>2 DEF Types
<1>4. syncs \in Nat /\ \A t \in Shop : orders[t].run \in Nat /\ finance[t] \in Nat
  BY DEF Types
<1>5. RunsInv' /\ Grows
  <2>1. \A t \in Shop : orders'[t].run = orders[t].run \/ orders'[t].run = syncs + 1
    BY <1>1, <1>3
  <2> QED BY <1>4, <2>1 DEF RunsInv, Grows
<1> QED BY <1>1, <1>2, <1>3, <1>5 DEF Tables, Types

LEMMA FinanceStored ==
  ASSUME Types, RunsInv, NEW s \in Shop, NEW complete \in BOOLEAN, StoreFinance(s, complete),
         syncs' = syncs + 1, UNCHANGED <<inventory, orders>>
  PROVE  Tables /\ (complete => finance'[s] = syncs + 1)
<1>1. finance' \in [Shop -> Nat] /\ (complete => finance'[s] = syncs + 1)
      /\ \A t \in Shop : finance'[t] = finance[t] \/ finance'[t] = syncs + 1
  BY DEF StoreFinance, Types
<1>2. syncs \in Nat /\ \A t \in Shop : orders[t].run \in Nat /\ finance[t] \in Nat
  BY DEF Types
<1>3. RunsInv' /\ Grows
  BY <1>1, <1>2 DEF RunsInv, Grows
<1> QED BY <1>1, <1>3 DEF Tables, Types

\* An update steps on knowing more.
LEMMA Learns ==
  ASSUME CallConstants, IInv, NEW c \in Update,
         call[c].step \in {"orders", "finance", "risk"}, NEW r \in Locals(c),
         r.step \in {"finance", "risk", "judge"}, call' = [call EXCEPT ![c] = r],
         UNCHANGED <<queue, inFlight>>, Tables, TruthOf(c)'
  PROVE  IInv'
<1>1. c \in Call /\ DOMAIN call = Call
  BY DEF Call, IInv, Types
<1>2. /\ call'[c] = r /\ DOMAIN call' = Call
      /\ \A d \in Call \ {c} : call'[d] = call[d]
  BY <1>1
<1>3. QueueLocal
  BY <1>2 DEF QueueLocal, Working, At
<1>4. QueueInv'
  BY <1>3, QueueStays DEF IInv
<1>5. Others(c)
  BY <1>2 DEF Others
<1>6. syncRunning' \in BOOLEAN /\ syncWaiters' \in Seq(Update \cup Batch)
  BY DEF IInv, Types, queue
<1> QED BY <1>1, <1>2, <1>4, <1>5, <1>6, Alone

LEMMA SyncSteps ==
  ASSUME CallConstants, IInv, NEW c \in Update,
         \/ \E complete \in BOOLEAN : SyncOrders(c, complete) \/ SyncFinance(c, complete)
         \/ EvaluateRisk(c) \/ Judge(c)
  PROVE  IInv'
<1> DEFINE Apart == {"idle", "queued", "done", "probe", "poll", "joined"}
<1>1. c \in Call /\ StepsOf(c) = UpdateStep /\ DOMAIN call = Call /\ Types /\ RunsInv
  BY Kinds DEF Call, IInv, Types
<1>2. ASSUME call[c].step \in {"orders", "finance", "risk", "judge"}
      PROVE  call[c] \in Locals(c) /\ call[c].shop \in Shop /\ call[c].orders \in Nat
             /\ call[c].finance \in Nat /\ TruthOf(c)
  <2>1. call[c] \in Locals(c)
    BY <1>1, <1>2, Made
  <2> QED BY <1>1, <2>1, Kinds DEF Locals, IInv, TruthInv
<1>3. ASSUME NEW a \in {"NONE", "PARTIAL"}, call[c].step \notin Apart,
             End(c, a) \/ Leave(c, a), Tables, inFlight' = inFlight
      PROVE  IInv'
  <2>1. a \in Answer /\ MayAnswer(c, a)
    BY <1>3 DEF Answer, MayAnswer
  <2> QED BY <1>3, <2>1, Ends, Leaves
<1>4. ASSUME NEW complete \in BOOLEAN, SyncOrders(c, complete) PROVE IInv'
  <2>1. /\ call[c].step = "orders" /\ StoreOrders(call[c].shop, complete)
        /\ syncs' = syncs + 1
        /\ UNCHANGED <<inFlight, inventory, finance>>
    BY <1>4 DEF SyncOrders, At, adsPower
  <2>2. Tables /\ orders'[call[c].shop].run = syncs + 1
    BY <1>1, <1>2, <2>1, OrdersStored
  <2>3. CASE End(c, "PARTIAL") \/ Leave(c, "NONE")
    BY <1>3, <2>1, <2>2, <2>3
  <2>4. CASE call' = [call EXCEPT ![c].step = "finance", ![c].orders = syncs + 1]
             /\ UNCHANGED queue
    <3> DEFINE r == [call[c] EXCEPT !.step = "finance", !.orders = syncs + 1]
    <3>1. call' = [call EXCEPT ![c] = r]
      BY <1>1, <2>4
    <3>0. call[c] \in Locals(c) /\ "finance" \in StepsOf(c) /\ syncs + 1 \in Nat
      BY <1>1, <1>2, <2>1 DEF UpdateStep, Types
    <3>2. /\ r \in Locals(c) /\ r.step = "finance" /\ r.orders = syncs + 1
          /\ r.shop = call[c].shop
      BY <3>0 DEF Locals
    <3> HIDE DEF r
    <3>3. call'[c] = r
      BY <1>1, <3>1
    <3>4. TruthOf(c)'
      BY <1>1, <2>1, <2>2, <3>2, <3>3 DEF TruthOf, Before, Types
    <3> QED BY <2>1, <2>2, <2>4, <3>1, <3>2, <3>4, Learns
  <2> QED BY <1>4, <2>3, <2>4 DEF SyncOrders
<1>5. ASSUME NEW complete \in BOOLEAN, SyncFinance(c, complete) PROVE IInv'
  <2>1. /\ call[c].step = "finance" /\ StoreFinance(call[c].shop, complete)
        /\ syncs' = syncs + 1
        /\ UNCHANGED <<inFlight, inventory, orders>>
    BY <1>5 DEF SyncFinance, At, adsPower
  <2>2. Tables /\ (complete => finance'[call[c].shop] = syncs + 1)
    BY <1>1, <1>2, <2>1, FinanceStored
  <2>3. CASE End(c, "PARTIAL") \/ Leave(c, "NONE")
    BY <1>3, <2>1, <2>2, <2>3
  <2>4. CASE /\ complete
             /\ call' = [call EXCEPT ![c].step = "risk", ![c].finance = syncs + 1]
             /\ UNCHANGED queue
    <3> DEFINE r == [call[c] EXCEPT !.step = "risk", !.finance = syncs + 1]
    <3>1. call' = [call EXCEPT ![c] = r]
      BY <1>1, <2>4
    <3>0. call[c] \in Locals(c) /\ "risk" \in StepsOf(c) /\ syncs + 1 \in Nat
      BY <1>1, <1>2, <2>1 DEF UpdateStep, Types
    <3>2. /\ r \in Locals(c) /\ r.step = "risk" /\ r.finance = syncs + 1
          /\ r.shop = call[c].shop /\ r.orders = call[c].orders
      BY <3>0 DEF Locals
    <3> HIDE DEF r
    <3>3. call'[c] = r
      BY <1>1, <3>1
    <3>4. call[c].orders # 0 /\ call[c].orders <= syncs /\ call[c].orders \in Nat
          /\ call[c].orders <= orders[call[c].shop].run
      BY <1>2, <2>1 DEF TruthOf
    <3>5. TruthOf(c)'
      BY <1>1, <2>1, <2>2, <2>4, <3>2, <3>3, <3>4 DEF TruthOf, Before, Types
    <3> QED BY <2>1, <2>2, <2>4, <3>1, <3>2, <3>5, Learns
  <2> QED BY <1>5, <2>3, <2>4 DEF SyncFinance
<1>6. CASE EvaluateRisk(c)
  <2>1. call[c].step = "risk" /\ Tables /\ inFlight' = inFlight
        /\ UNCHANGED <<orders, finance>>
    BY <1>1, <1>6, TablesSame DEF EvaluateRisk, At, adsPower, database
  <2>2. CASE End(c, "PARTIAL")
    BY <1>3, <2>1, <2>2
  <2>3. CASE /\ call' = [call EXCEPT ![c].step = "judge",
                                     ![c].evidence = Coverage(call[c].shop)]
             /\ UNCHANGED queue
    <3> DEFINE e == Coverage(call[c].shop)
               r == [call[c] EXCEPT !.step = "judge", !.evidence = e]
    <3>1. call' = [call EXCEPT ![c] = r]
      BY <1>1, <2>3
    <3>2. /\ e \in Evidence /\ e.orders = orders[call[c].shop].run
          /\ e.finance = finance[call[c].shop]
      BY <1>1, <1>2, <2>1 DEF Coverage, Evidence, Types
    <3> HIDE DEF e
    <3>3. /\ r \in Locals(c) /\ r.step = "judge" /\ r.evidence = e
          /\ r.orders = call[c].orders /\ r.finance = call[c].finance
      BY <1>1, <1>2, <2>1, <3>2 DEF Locals, UpdateStep
    <3> HIDE DEF r
    <3>4. call'[c] = r
      BY <1>1, <3>1
    <3>5. TruthOf(c)'
      BY <1>2, <2>1, <3>2, <3>3, <3>4 DEF TruthOf, Before
    <3> QED BY <2>1, <2>3, <3>1, <3>3, <3>5, Learns
  <2> QED BY <1>6, <2>2, <2>3 DEF EvaluateRisk
<1>7. CASE Judge(c)
  <2>1. call[c].step = "judge" /\ Tables /\ inFlight' = inFlight
    BY <1>1, <1>7, TablesSame DEF Judge, At, adsPower, database
  <2>2. CASE End(c, "PARTIAL")
    BY <1>3, <2>1, <2>2
  <2>3. CASE call[c].evidence.complete /\ End(c, "SUCCESS")
    <3>1. "SUCCESS" \in Answer /\ MayAnswer(c, "SUCCESS")
      BY <2>1, <2>3 DEF Answer, MayAnswer
    <3> QED BY <2>1, <2>3, <3>1, Ends
  <2> QED BY <1>7, <2>2, <2>3 DEF Judge
<1> QED BY <1>4, <1>5, <1>6, <1>7

-----------------------------------------------------------------------------
(* COTIK syncs, and what others do.                                        *)

\* COTIK's rows take an order run's rows back, not the run.
LEMMA CotikStored ==
  ASSUME Types, RunsInv, NEW s \in Shop,
         orders' = [orders EXCEPT ![s].official = FALSE],
         UNCHANGED <<inventory, finance, syncs>>
  PROVE  Tables
<1>1. /\ orders' \in [Shop -> [run : Nat, complete : BOOLEAN, official : BOOLEAN]]
      /\ \A t \in Shop : orders'[t].run = orders[t].run
  BY DEF Types
<1>2. \A t \in Shop : orders[t].run \in Nat /\ finance[t] \in Nat
  BY DEF Types
<1> QED BY <1>1, <1>2 DEF Tables, RunsInv, Grows, Types

LEMMA BatchSteps ==
  ASSUME CallConstants, IInv, NEW c \in Batch, SkipShop(c) \/ SyncCotik(c) \/ EndBatch(c)
  PROVE  IInv'
<1>1. /\ c \in Call /\ DOMAIN call = Call /\ Types /\ RunsInv
      /\ call[c].step = "cotik" /\ c \notin Update /\ c \notin Open /\ c \in Batch
      /\ inFlight' = inFlight
  BY Kinds DEF Call, IInv, Types, SkipShop, SyncCotik, EndBatch, At, adsPower
<1>2. call[c] \in Locals(c) /\ call[c].left \in Seq(Shop)
  <2>1. call[c] \in Locals(c)
    BY <1>1, Made
  <2> QED BY <2>1 DEF Locals
<1>3. CASE EndBatch(c)
  <2>1. Tables /\ Leave(c, "DONE") /\ "DONE" \in Answer /\ MayAnswer(c, "DONE")
    BY <1>1, <1>3, TablesSame DEF EndBatch, adsPower, database, Answer, MayAnswer
  <2> QED BY <1>1, <2>1, Leaves
<1>4. CASE SkipShop(c) \/ SyncCotik(c)
  <2>1. /\ call[c].left # <<>> /\ UNCHANGED queue
        /\ call' = [call EXCEPT ![c].left = Tail(call[c].left)]
    BY <1>1, <1>4 DEF SkipShop, SyncCotik
  <2>2. Head(call[c].left) \in Shop /\ Tail(call[c].left) \in Seq(Shop)
    BY <1>2, <2>1
  <2>3. Tables
    <3>1. CASE SkipShop(c)
      BY <1>1, <3>1, TablesSame DEF SkipShop, adsPower, database
    <3>2. CASE SyncCotik(c)
      <4>1. orders' = [orders EXCEPT ![Head(call[c].left)].official = FALSE]
            /\ UNCHANGED <<inventory, finance, syncs>>
        BY <3>2 DEF SyncCotik, adsPower
      <4> QED BY <1>1, <2>2, <4>1, CotikStored
    <3> QED BY <1>4, <3>1, <3>2
  <2>4. /\ call'[c] = [call[c] EXCEPT !.left = Tail(call[c].left)]
        /\ DOMAIN call' = Call
        /\ \A d \in Call \ {c} : call'[d] = call[d]
    BY <1>1, <2>1
  <2>5. call'[c] \in Locals(c) /\ call'[c].step = "cotik"
    BY <1>1, <1>2, <2>2, <2>4 DEF Locals
  <2>6. QueueLocal
    BY <1>1, <2>1, <2>4, <2>5 DEF QueueLocal, Working, At
  <2>7. QueueInv'
    BY <2>6, QueueStays DEF IInv
  <2>8. Others(c)
    BY <2>4 DEF Others
  <2>9. syncRunning' \in BOOLEAN /\ syncWaiters' \in Seq(Update \cup Batch)
    BY <1>1, <2>1 DEF Types, queue
  <2> QED BY <1>1, <2>3, <2>4, <2>5, <2>7, <2>8, <2>9, Alone
<1> QED BY <1>3, <1>4

LEMMA OtherSteps ==
  ASSUME CallConstants, IInv,
         \/ \E c \in Update : Disconnect(c)
         \/ \E s \in Shop :
              \/ \E complete \in BOOLEAN : OtherSync(s, complete)
              \/ OtherCotik(s) \/ CloseProfile(s) \/ EligibilityChanges(s)
         \/ InventoryExpires \/ AppAnswers \/ AppQuits \/ UNCHANGED vars
  PROVE  IInv'
<1>1. ASSUME UNCHANGED <<queue, call, inFlight>>, Tables PROVE IInv'
  <2>1. \A d \in Call : call'[d] = call[d]
    BY <1>1
  <2>2. DOMAIN call' = Call /\ inFlight' \in Call \cup {None}
    BY <1>1 DEF IInv, Types
  <2>3. LaunchInv'
    BY <1>1 DEF IInv, LaunchInv, Launching, At
  <2> QED BY <1>1, <2>1, <2>2, <2>3, Marches
<1>2. UNCHANGED <<queue, call, inFlight>>
  BY DEF Disconnect, OtherSync, OtherCotik, CloseProfile, EligibilityChanges,
         InventoryExpires, AppAnswers, AppQuits, vars, adsPower
<1>3. Tables
  <2>1. ASSUME NEW s \in Shop, NEW complete \in BOOLEAN, OtherSync(s, complete) PROVE Tables
    <3>1. syncs' = syncs + 1 /\ UNCHANGED inventory
      BY <2>1 DEF OtherSync, adsPower
    <3>2. \/ StoreOrders(s, complete) /\ UNCHANGED finance
          \/ StoreFinance(s, TRUE) /\ UNCHANGED orders
      BY <2>1 DEF OtherSync
    <3> QED BY <3>1, <3>2, OrdersStored, FinanceStored DEF IInv
  <2>2. ASSUME NEW s \in Shop, OtherCotik(s) PROVE Tables
    BY <2>2, CotikStored DEF OtherCotik, adsPower, IInv
  <2>3. CASE InventoryExpires
    BY <2>3 DEF InventoryExpires, IInv, Types, Tables, RunsInv, Grows, database
  <2>4. CASE \/ \E c \in Update : Disconnect(c)
             \/ \E s \in Shop : CloseProfile(s) \/ EligibilityChanges(s)
             \/ AppAnswers \/ AppQuits \/ UNCHANGED vars
    BY <2>4, TablesSame DEF Disconnect, CloseProfile, EligibilityChanges, AppAnswers,
         AppQuits, vars, adsPower, database, IInv
  <2> QED BY <2>1, <2>2, <2>3, <2>4
<1> QED BY <1>1, <1>2, <1>3

-----------------------------------------------------------------------------
(* The invariant.                                                          *)

LEMMA IInvInit == ASSUME CallConstants, Init PROVE IInv
<1>1. \A c \in Call : call[c] = Idle /\ call[c].step = "idle"
  BY DEF Init, Idle
<1>2. Types
  <2>1. \A c \in Call : Typed(c)
    BY <1>1 DEF Typed
  <2>2. syncWaiters \in Seq(Update \cup Batch) /\ DOMAIN call = Call
    BY DEF Init
  <2>3. orders \in [Shop -> [run : Nat, complete : BOOLEAN, official : BOOLEAN]]
        /\ finance \in [Shop -> Nat]
    BY DEF Init
  <2> QED BY <2>1, <2>2, <2>3 DEF Init, Types
<1>3. QueueInv
  BY <1>1 DEF Init, QueueInv, Working, At
<1>4. LaunchInv
  BY <1>1 DEF Init, LaunchInv, Launching, At, CallConstants
<1>5. RunsInv
  BY DEF Init, RunsInv
<1>6. TruthInv
  BY <1>1 DEF TruthInv, TruthOf, Before, Call
<1> QED BY <1>2, <1>3, <1>4, <1>5, <1>6 DEF IInv

LEMMA IInvNext == ASSUME CallConstants, IInv, [Next]_vars PROVE IInv'
BY Begins, ListingSteps, LaunchSteps, PlainSteps, SyncSteps, BatchSteps, OtherSteps DEF Next

\* The dashboard runs one of its update and batch operations at a time, whoever of
\* them throws or loses its client, and everyone it makes wait waits in the queue behind
\* one that runs; AdsPower is launched by one attempt at a time, and nobody waits
\* for one that has ended (serializeSync, createAdsPowerApplicationLauncher).
THEOREM OneAtATimeCorrect == CallConstants => (Spec => []OneAtATime)
<1> SUFFICES ASSUME CallConstants PROVE Spec => []OneAtATime
  OBVIOUS
<1>1. Init => IInv
  BY IInvInit
<1>2. IInv /\ [Next]_vars => IInv'
  BY IInvNext
<1>3. IInv => OneAtATime
  <2> SUFFICES ASSUME IInv PROVE OneAtATime
    OBVIOUS
  <2>1. \A c, d \in Call : Launching(c) /\ Launching(d) => c = d
    BY DEF IInv, LaunchInv
  <2>2. ASSUME NEW c \in Call, At(c, "joined") PROVE inFlight # None /\ Launching(inFlight)
    <3>1. inFlight # None /\ inFlight \in Call
      BY <2>2 DEF IInv, LaunchInv, Types
    <3> QED BY <3>1 DEF IInv, LaunchInv
  <2> QED BY <2>1, <2>2 DEF IInv, QueueInv, OneAtATime
<1> QED BY <1>1, <1>2, <1>3, PTL DEF Spec

\* An Update Data answers SUCCESS only if both its syncs were complete and the
\* review after them saw runs no older than its own, complete and of Seller Center's
\* rows alone; it answers ERROR only if it had completed no sync. Other processes
\* sync the same shop meanwhile (updateData).
THEOREM AnswersCorrect == CallConstants => (Spec => []AnswersAreTrue)
<1> SUFFICES ASSUME CallConstants PROVE Spec => []AnswersAreTrue
  OBVIOUS
<1>1. Init => IInv
  BY IInvInit
<1>2. IInv /\ [Next]_vars => IInv'
  BY IInvNext
<1>3. IInv => AnswersAreTrue
  BY DEF IInv, TruthInv, TruthOf, AnswersAreTrue, At
<1> QED BY <1>1, <1>2, <1>3, PTL DEF Spec
=============================================================================
