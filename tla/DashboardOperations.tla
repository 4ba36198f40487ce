------------------------ MODULE DashboardOperations ------------------------
(***************************************************************************)
(* What the dashboard's server does for an operator: Update Data of a shop *)
(* through its AdsPower profile, COTIK syncs of chosen shops, opening a    *)
(* profile (apps/dashboard/lib/server/operations/dashboard-operations.ts,  *)
(* runtime.ts, app/api/update-data/handler.ts), with the launcher of the   *)
(* AdsPower application (application-launch.ts) and the inventory of its   *)
(* profiles (packages/seller-center/src/adspower/client.ts).               *)
(*                                                                         *)
(* One Node process serves all calls.  Calls that sync pass one at a time  *)
(* through serializeSync; the others do not.  A call enters in a macrotask *)
(* of its own, so the end of an operation and the resumption of the waiter *)
(* it wakes are one action: no call enters between their microtasks.       *)
(* Other processes sync the same shops, under the shop's advisory lock.    *)
(***************************************************************************)
EXTENDS Naturals, Sequences, FiniteSets

CONSTANTS
    Update,      \* calls of updateData
    Batch,       \* calls of syncSelected
    Open,        \* calls of openProfile and verifyProfile
    Shop,        \* shops, each with the AdsPower profile linked to it
    MaxSyncs,    \* bound: syncs that ended
    MaxFlips,    \* bound: what people do to AdsPower and to eligibility
    None

VARIABLES
    syncRunning, syncWaiters,
    call,        \* the locals of a call
    gone,        \* the clients that closed the page of their Update Data
    inFlight,    \* the call whose attempt to launch AdsPower is under way, or None
    app,         \* the AdsPower application
    open,        \* shops whose profile is open in AdsPower
    inventory,   \* profiles last listed, while the listing is fresh
    request,     \* whether a listing is under way
    eligible,    \* shops whose profile is READY and ELIGIBLE
    orders,      \* per shop: the latest run of orders, and whose rows the orders are
    finance,     \* per shop: the latest complete and reconciled finance run
    syncs, flips

queue == <<syncRunning, syncWaiters>>
adsPower == <<inFlight, app, open, inventory, request>>
database == <<eligible, orders, finance, syncs>>
vars == <<queue, call, gone, adsPower, database, flips>>

Call == Update \cup Batch \cup Open
Idle == [step |-> "idle"]
Began(s, left) ==
    [step |-> "list", shop |-> s, left |-> left, state |-> "ERROR", orders |-> 0,
     finance |-> 0, evidence |-> None, answer |-> None]

Init ==
    /\ syncRunning = FALSE /\ syncWaiters = <<>>
    /\ call = [c \in Call |-> Idle]
    /\ gone = {}
    /\ inFlight = None /\ app \in {"down", "up"} /\ open = {}
    /\ inventory = None /\ request = FALSE
    /\ eligible \in SUBSET Shop
    /\ orders = [s \in Shop |-> [run |-> 0, complete |-> FALSE, official |-> FALSE]]
    /\ finance = [s \in Shop |-> 0]
    /\ syncs = 0 /\ flips = 0

At(c, step) == call[c].step = step

----------------------------------------------------------------------------
(* serializeSync                                                           *)

\* The first step of a serialized operation.
Entry(c) == IF c \in Batch THEN "cotik" ELSE "list"

\* A call enters: it runs, or waits behind the operation that does.
Enter(c, locals) ==
    /\ At(c, "idle")
    /\ syncRunning' = TRUE
    /\ IF syncRunning
       THEN /\ call' = [call EXCEPT ![c] = [locals EXCEPT !.step = "queued"]]
            /\ syncWaiters' = Append(syncWaiters, c)
       ELSE /\ call' = [call EXCEPT ![c] = [locals EXCEPT !.step = Entry(c)]]
            /\ UNCHANGED syncWaiters
    /\ UNCHANGED <<gone, adsPower, database, flips>>

\* An operation ends, by return or by throw: the first waiter goes on.
Leave(c, answer) ==
    LET ended == [call EXCEPT ![c].step = "done", ![c].answer = answer]
    IN  IF syncWaiters = <<>>
        THEN /\ call' = ended /\ syncRunning' = FALSE
             /\ UNCHANGED syncWaiters
        ELSE LET next == Head(syncWaiters)
             IN  /\ call' = [ended EXCEPT ![next].step = Entry(next)]
                 /\ syncWaiters' = Tail(syncWaiters)
                 /\ UNCHANGED syncRunning

UpdateData(c, s) == Enter(c, Began(s, <<>>))
SyncSelected(c, shops) == Enter(c, Began(None, shops))

\* openProfile and verifyProfile pass by the queue, and wait for AdsPower first.
\* (The branch of syncSelected without COTIK, which none of the program's adapters
\* takes, is left out.)
OpenProfile(c, s) ==
    /\ At(c, "idle")
    /\ call' = [call EXCEPT ![c] = [Began(s, <<>>) EXCEPT !.step = "ensure"]]
    /\ UNCHANGED <<queue, gone, adsPower, database, flips>>

\* Events are sent as they come; the first one a client that has gone does not
\* take throws, and ends its update there (handler.ts, send).
Emit(c, step) ==
    IF c \in gone THEN Leave(c, "NONE")
    ELSE call' = [call EXCEPT ![c].step = step] /\ UNCHANGED queue

Disconnect(c) ==
    /\ c \in Update \ gone /\ ~ At(c, "idle") /\ ~ At(c, "done") /\ flips < MaxFlips
    /\ gone' = gone \cup {c}
    /\ flips' = flips + 1
    /\ UNCHANGED <<queue, call, adsPower, database>>

\* A call ends with its answer: an update in the queue, an opening beside it.
End(c, answer) ==
    IF c \in Open
    THEN call' = [call EXCEPT ![c].step = "done", ![c].answer = answer] /\ UNCHANGED queue
    ELSE Leave(c, IF c \in gone THEN "NONE" ELSE answer)

----------------------------------------------------------------------------
(* The inventory of profiles: one listing at a time, kept for two seconds. *)

Named(view, c) == [call[c] EXCEPT !.state = view[call[c].shop],
                                  !.step = IF c \in Open THEN "open" ELSE "links"]

\* A fresh inventory answers; else the call joins the listing under way, or
\* begins one.
ListProfiles(c) ==
    /\ At(c, "list")
    /\ IF inventory # None
       THEN call' = [call EXCEPT ![c] = Named(inventory, c)] /\ UNCHANGED request
       ELSE call' = [call EXCEPT ![c].step = "listing"] /\ request' = TRUE
    /\ UNCHANGED <<queue, gone, inFlight, app, open, inventory, database, flips>>

\* The active profiles are read last; without them every state is ERROR.
ProfilesListed(known) ==
    LET view == [s \in Shop |-> IF ~ known THEN "ERROR"
                                ELSE IF s \in open THEN "OPEN" ELSE "CLOSED"]
    IN  /\ request /\ app = "up"
        /\ inventory' = view
        /\ request' = FALSE
        /\ call' = [c \in Call |-> IF At(c, "listing") THEN Named(view, c) ELSE call[c]]
        /\ UNCHANGED <<queue, gone, inFlight, app, open, database, flips>>

\* The listing fails, for all the calls that wait for it.
ListingFails ==
    /\ request
    /\ request' = FALSE
    /\ call' = [c \in Call |-> IF At(c, "listing") THEN [call[c] EXCEPT !.step = "refused"]
                                                  ELSE call[c]]
    /\ UNCHANGED <<queue, gone, inFlight, app, open, inventory, database, flips>>

InventoryExpires ==
    /\ inventory # None
    /\ inventory' = None
    /\ UNCHANGED <<queue, call, gone, inFlight, app, open, request, database, flips>>

----------------------------------------------------------------------------
(* The launcher of AdsPower: callers share the attempt under way.          *)

EnsureReadyAlone(c) ==  \* mutant
    /\ At(c, "ensure")
    /\ call' = [call EXCEPT ![c].step = "probe"]
    /\ inFlight' = c
    /\ UNCHANGED <<queue, gone, app, open, inventory, request, database, flips>>

EnsureReady(c) ==
    /\ At(c, "ensure")
    /\ IF inFlight # None
       THEN call' = [call EXCEPT ![c].step = "joined"] /\ UNCHANGED inFlight
       ELSE call' = [call EXCEPT ![c].step = "probe"] /\ inFlight' = c
    /\ UNCHANGED <<queue, gone, app, open, inventory, request, database, flips>>

\* The application answers the probe in time.
Ready(c) ==
    /\ call[c].step \in {"probe", "poll"} /\ app = "up"
    /\ call' = [d \in Call |->
          IF d = c \/ (At(d, "joined") /\ inFlight = c)
          THEN [call[d] EXCEPT !.step = IF d \in Open THEN "list" ELSE "open"]
          ELSE call[d]]
    /\ inFlight' = None
    /\ UNCHANGED <<queue, gone, app, open, inventory, request, database, flips>>

\* It does not answer the first probe: it is launched, and asked again.
Launch(c) ==
    /\ At(c, "probe")
    /\ app' = IF app = "down" THEN "starting" ELSE app
    /\ call' = [call EXCEPT ![c].step = "poll"]
    /\ UNCHANGED <<queue, gone, inFlight, open, inventory, request, database, flips>>

\* No executable, no launch, or no answer by the deadline: those who joined see
\* the same failure.
NotReady(c) ==
    /\ call[c].step \in {"probe", "poll"}
    /\ call' = [d \in Call |-> IF d = c \/ (At(d, "joined") /\ inFlight = c)
                             THEN [call[d] EXCEPT !.step = "refused"] ELSE call[d]]
    /\ inFlight' = None
    /\ UNCHANGED <<queue, gone, app, open, inventory, request, database, flips>>

\* A call whose listing or launch failed goes on.
Refused(c) ==
    /\ At(c, "refused")
    /\ End(c, "ERROR")
    /\ UNCHANGED <<gone, adsPower, database, flips>>

----------------------------------------------------------------------------
(* updateData                                                              *)

\* The profile is listed and linked.
FindShop(c) ==
    /\ At(c, "links")
    /\ \/ call' = [call EXCEPT ![c].step = "eligible"] /\ UNCHANGED queue
       \/ End(c, "ERROR")
    /\ UNCHANGED <<gone, adsPower, database, flips>>

CheckEligible(c) ==
    /\ At(c, "eligible")
    /\ IF call[c].shop \in eligible
       THEN IF call[c].state = "OPEN"
            THEN call' = [call EXCEPT ![c].step = "open"] /\ UNCHANGED queue
            ELSE Emit(c, "ensure")
       ELSE End(c, "ERROR")
    /\ UNCHANGED <<gone, adsPower, database, flips>>

\* openReady, and the check of its browser connection.
OpenReady(c) ==
    /\ At(c, "open")
    /\ \/ /\ app = "up"
          /\ open' = open \cup {call[c].shop}
          /\ IF c \in Open THEN End(c, "OPEN") ELSE Emit(c, "health")
       \/ End(c, "ERROR") /\ UNCHANGED open
    /\ UNCHANGED <<gone, inFlight, app, inventory, request, database, flips>>

CheckHealth(c) ==
    /\ At(c, "health")
    /\ \/ Emit(c, "orders")
       \/ \E answer \in {"ERROR", "HUMAN_ACTION_REQUIRED"} : End(c, answer)
    /\ UNCHANGED <<gone, adsPower, database, flips>>

FailedPlainly(c) == "ERROR"  \* mutant

\* What an update answers when a stage fails: ERROR only if nothing was synced.
Failed(c) == IF call[c].orders = 0 THEN "ERROR" ELSE "PARTIAL"

\* runSync throws, or the shop's lock is held elsewhere.
SyncFails(c) ==
    /\ call[c].step \in {"orders", "finance"}
    /\ \E answer \in {Failed(c), "HUMAN_ACTION_REQUIRED"} : End(c, answer)
    /\ UNCHANGED <<gone, adsPower, database, flips>>

\* A sync stored what it read: as a run of its kind, complete or not.
StoreOrders(s, complete) ==
    orders' = [orders EXCEPT ![s] =
        [run |-> syncs + 1, complete |-> complete,
         official |-> IF complete THEN TRUE ELSE orders[s].official]]
StoreFinance(s, complete) ==
    finance' = IF complete THEN [finance EXCEPT ![s] = syncs + 1] ELSE finance

SyncOrders(c, complete) ==
    /\ At(c, "orders") /\ syncs < MaxSyncs
    /\ StoreOrders(call[c].shop, complete)
    /\ syncs' = syncs + 1
    /\ IF ~ complete THEN End(c, "PARTIAL")
       ELSE IF c \in gone THEN Leave(c, "NONE")
       ELSE /\ call' = [call EXCEPT ![c].step = "finance", ![c].orders = syncs + 1]
            /\ UNCHANGED queue
    /\ UNCHANGED <<gone, adsPower, eligible, finance, flips>>

SyncFinance(c, complete) ==
    /\ At(c, "finance") /\ syncs < MaxSyncs
    /\ StoreFinance(call[c].shop, complete)
    /\ syncs' = syncs + 1
    /\ IF ~ complete THEN End(c, "PARTIAL")
       ELSE IF c \in gone THEN Leave(c, "NONE")
       ELSE /\ call' = [call EXCEPT ![c].step = "risk", ![c].finance = syncs + 1]
            /\ UNCHANGED queue
    /\ UNCHANGED <<gone, adsPower, eligible, orders, flips>>

\* evaluateRisk: a review of the shop reads what is stored (ReviewEvidence),
\* and its coverage is what decides.
Coverage(s) == [orders |-> orders[s].run, finance |-> finance[s],
                complete |-> orders[s].complete /\ orders[s].official /\ finance[s] # 0]

EvaluateRisk(c) ==
    /\ At(c, "risk")
    /\ \/ /\ call' = [call EXCEPT ![c].step = "judge",
                                  ![c].evidence = Coverage(call[c].shop)]
          /\ UNCHANGED queue
       \/ End(c, "PARTIAL")
    /\ UNCHANGED <<gone, adsPower, database, flips>>

\* Whether the evidence is fresh is a matter of its timestamps.
Judge(c) ==
    /\ At(c, "judge")
    /\ \/ call[c].evidence.complete /\ End(c, "SUCCESS")
       \/ End(c, "PARTIAL")
    /\ UNCHANGED <<gone, adsPower, database, flips>>

----------------------------------------------------------------------------
(* syncSelected: the chosen shops one after the other, by COTIK.           *)

SkipShop(c) ==
    /\ At(c, "cotik") /\ call[c].left # <<>>
    /\ call' = [call EXCEPT ![c].left = Tail(@)]
    /\ UNCHANGED <<queue, gone, adsPower, database, flips>>

\* COTIK's rows are not Seller Center's.
SyncCotik(c) ==
    /\ At(c, "cotik") /\ call[c].left # <<>>
    /\ orders' = [orders EXCEPT ![Head(call[c].left)].official = FALSE]
    /\ call' = [call EXCEPT ![c].left = Tail(@)]
    /\ UNCHANGED <<queue, gone, adsPower, eligible, finance, syncs, flips>>

EndBatch(c) ==
    /\ At(c, "cotik") /\ call[c].left = <<>>
    /\ Leave(c, "DONE")
    /\ UNCHANGED <<gone, adsPower, database, flips>>

----------------------------------------------------------------------------
(* What others do                                                          *)

\* The worker, or a command, syncs a shop no update of this process holds.
Unlocked(s) == \A c \in Update : call[c].step \in {"orders", "finance"} => call[c].shop # s

OtherSync(s, complete) ==
    /\ syncs < MaxSyncs /\ Unlocked(s)
    /\ \/ StoreOrders(s, complete) /\ UNCHANGED finance
       \/ complete /\ StoreFinance(s, TRUE) /\ UNCHANGED orders
    /\ syncs' = syncs + 1
    /\ UNCHANGED <<queue, call, gone, adsPower, eligible, flips>>

OtherCotik(s) ==
    /\ Unlocked(s) /\ flips < MaxFlips
    /\ orders' = [orders EXCEPT ![s].official = FALSE]
    /\ flips' = flips + 1
    /\ UNCHANGED <<queue, call, gone, adsPower, eligible, finance, syncs>>

AppAnswers ==
    /\ app = "starting" /\ app' = "up"
    /\ UNCHANGED <<queue, call, gone, inFlight, open, inventory, request, database, flips>>

AppQuits ==
    /\ app # "down" /\ flips < MaxFlips
    /\ app' = "down" /\ open' = {}
    /\ flips' = flips + 1
    /\ UNCHANGED <<queue, call, gone, inFlight, inventory, request, database>>

CloseProfile(s) ==
    /\ s \in open /\ flips < MaxFlips
    /\ open' = open \ {s}
    /\ flips' = flips + 1
    /\ UNCHANGED <<queue, call, gone, inFlight, app, inventory, request, database>>

EligibilityChanges(s) ==
    /\ flips < MaxFlips
    /\ eligible' = IF s \in eligible THEN eligible \ {s} ELSE eligible \cup {s}
    /\ flips' = flips + 1
    /\ UNCHANGED <<queue, call, gone, adsPower, orders, finance, syncs>>

Next ==
    \/ \E c \in Update :
          \/ \E s \in Shop : UpdateData(c, s)
          \/ Disconnect(c) \/ FindShop(c) \/ CheckEligible(c) \/ CheckHealth(c)
          \/ SyncFails(c) \/ EvaluateRisk(c) \/ Judge(c)
          \/ \E complete \in BOOLEAN : SyncOrders(c, complete) \/ SyncFinance(c, complete)
    \/ \E c \in Batch :
          \/ \E shops \in {<<s>> : s \in Shop} \cup {<<s, t>> : s, t \in Shop} :
                SyncSelected(c, shops)
          \/ SkipShop(c) \/ SyncCotik(c) \/ EndBatch(c)
    \/ \E c \in Open, s \in Shop : OpenProfile(c, s)
    \/ \E c \in Update \cup Open :
          \/ ListProfiles(c) \/ EnsureReady(c) \/ Ready(c) \/ Launch(c) \/ NotReady(c)
          \/ Refused(c) \/ OpenReady(c)
    \/ \E known \in BOOLEAN : ProfilesListed(known)
    \/ \E s \in Shop :
          \/ \E complete \in BOOLEAN : OtherSync(s, complete)
          \/ OtherCotik(s) \/ CloseProfile(s) \/ EligibilityChanges(s)
    \/ ListingFails \/ InventoryExpires \/ AppAnswers \/ AppQuits

Spec == Init /\ [][Next]_vars

----------------------------------------------------------------------------
(* Properties                                                              *)

Working(c) == c \in Update \cup Batch /\ call[c].step \notin {"idle", "queued", "done"}
Launching(c) == call[c].step \in {"probe", "poll"}

\* The update and batch operations of one process run one at a time ("one global
\* guard"), also when one of them throws or its client goes away, and no call is
\* left waiting behind nothing (serializeSync, dashboard-operations.ts); the route
\* that syncs one shop's COTIK orders is not one of them.  AdsPower
\* is launched by one attempt at a time, which all callers share, and nobody waits
\* for an attempt that has ended (createAdsPowerApplicationLauncher).
OneAtATime ==
    /\ \A c, d \in Call : Working(c) /\ Working(d) => c = d
    /\ syncRunning <=> \E c \in Call : Working(c)
    /\ \A c \in Call : At(c, "queued") <=> \E i \in DOMAIN syncWaiters : syncWaiters[i] = c
    /\ syncWaiters # <<>> => syncRunning
    /\ \A c, d \in Call : Launching(c) /\ Launching(d) => c = d
    /\ \A c \in Call : At(c, "joined") => inFlight # None /\ Launching(inFlight)

\* An update answers SUCCESS only if its own syncs of orders and of finance were
\* complete and the review that followed saw runs at least as new, of Seller
\* Center's rows alone; it answers ERROR only if no sync of it was complete, so
\* that what was refreshed is never hidden from the operator (updateData).
AnswersAreTrue ==
    \A c \in Update : At(c, "done") =>
        /\ call[c].answer = "SUCCESS" =>
              /\ call[c].orders # 0 /\ call[c].finance > call[c].orders
              /\ call[c].evidence.complete
              /\ call[c].evidence.orders >= call[c].orders
              /\ call[c].evidence.finance >= call[c].finance
        /\ call[c].answer = "ERROR" => call[c].orders = 0
=============================================================================
