---------------------------- MODULE CotikSources ----------------------------
(***************************************************************************)
(* COTIK's several accounts as sources of one shop: discovery links each   *)
(* account to the shop, the order sync records what every account shows of *)
(* an order, and one row per order is projected from the account that was  *)
(* seen last.  Neither sync takes a lock: the worker's cycle and the CLI   *)
(* may run them at once, while an operator disables accounts.              *)
(*                                                                         *)
(* An observation is identified by the order's update time; ids compare    *)
(* as numbers.                                                             *)
(***************************************************************************)
EXTENDS Integers, FiniteSets, Functions

CONSTANTS
  Proc,           \* processes: the worker, the CLI
  Account,        \* numbers, in the order of their ids
  Order,
  Linked,         \* accounts an earlier discovery linked to the shop
  Odd,            \* orders whose record does not parse
  PageSize,
  Overlap,        \* DEFAULT_OVERLAP_MS, in ticks
  MaxPages,       \* the safety bound of pages per sync
  MaxClock,       \* bound on the clock
  MaxSyncs,       \* bound on syncs started
  MaxFaults,      \* bound on crashes, failures and disabled accounts
  None

Instant == 0..MaxClock
\* UNHEALTHY: a status discovery tries again; LOST: expired, blocked, unpaid.
Status == {"ACTIVE", "UNHEALTHY", "LOST", "DISABLED"}
Discovery == {"ABSENT", "DISCOVERED", "DISCONNECTED", "ERROR"}

VARIABLES
  status, lastSeen,             \* cotik_accounts; instant 0 is null
  discovery, checkpoint,        \* cotik_account_shops: one link per account
  obs,                          \* cotik_order_observations, 0 if absent
  winner, version, itemsOf,     \* cotik_orders and the source of its items
  shown, clock,                 \* COTIK: what an account shows of an order
  pc, todo, cur, began, answer, since, page, pages, passed, left, newest, pick,
  alone,                        \* history: nothing disturbed the sync so far
  syncs, faults

accounts == <<status, lastSeen>>
links == <<discovery, checkpoint>>
rows == <<winner, version, itemsOf>>
external == <<shown, clock>>
reading == <<since, page, pages, passed, left, newest, pick>>
locals == <<todo, cur, began, answer, reading, alone>>
bounds == <<syncs, faults>>
vars == <<accounts, links, obs, rows, external, pc, locals, bounds>>

Nothing == [o \in {} |-> 0]

TypeOK ==
  /\ status \in [Account -> Status]
  /\ lastSeen \in [Account -> Instant]
  /\ discovery \in [Account -> Discovery]
  /\ checkpoint \in [Account -> Instant]
  /\ obs \in [Account -> [Order -> Instant]]
  /\ winner \in [Order -> Account \cup {None}]
  /\ itemsOf \in [Order -> Account \cup {None}]
  /\ version \in [Order -> Instant]
  /\ shown \in [Account -> [Order -> Instant]]
  /\ pc \in [Proc -> {"idle", "discoveries", "discover", "health",
                      "orders", "shop", "fetch", "record", "seen", "pick",
                      "commit", "save"}]
  /\ \A p \in Proc : passed[p] \cup left[p] \cup DOMAIN page[p] \subseteq Order

Init ==
  /\ status = [a \in Account |-> "ACTIVE"]
  /\ lastSeen = [a \in Account |-> IF a \in Linked THEN 1 ELSE 0]
  /\ discovery = [a \in Account |-> IF a \in Linked THEN "DISCOVERED" ELSE "ABSENT"]
  /\ checkpoint = [a \in Account |-> 0]
  /\ obs = [a \in Account |-> [o \in Order |-> 0]]
  /\ winner = [o \in Order |-> None]
  /\ version = [o \in Order |-> 0]
  /\ itemsOf = [o \in Order |-> None]
  /\ shown = [a \in Account |-> [o \in Order |-> 0]]
  /\ clock = 1
  /\ pc = [p \in Proc |-> "idle"]
  /\ todo = [p \in Proc |-> {}]
  /\ cur = [p \in Proc |-> None]
  /\ began = [p \in Proc |-> 0]
  /\ answer = [p \in Proc |-> "none"]
  /\ since = [p \in Proc |-> 0]
  /\ page = [p \in Proc |-> Nothing]
  /\ pages = [p \in Proc |-> 0]
  /\ passed = [p \in Proc |-> {}]
  /\ left = [p \in Proc |-> {}]
  /\ newest = [p \in Proc |-> 0]
  /\ pick = [p \in Proc |-> None]
  /\ alone = [p \in Proc |-> FALSE]
  /\ syncs = 0
  /\ faults = 0

Goto(p, label) == pc' = [pc EXCEPT ![p] = label]

\* The end of an account's turn, whatever came of it.
Turn(p, label) ==
  /\ Goto(p, label)
  /\ cur' = [cur EXCEPT ![p] = None]
  /\ answer' = [answer EXCEPT ![p] = "none"]
  /\ since' = [since EXCEPT ![p] = 0]
  /\ page' = [page EXCEPT ![p] = Nothing]
  /\ pages' = [pages EXCEPT ![p] = 0]
  /\ passed' = [passed EXCEPT ![p] = {}]
  /\ left' = [left EXCEPT ![p] = {}]
  /\ newest' = [newest EXCEPT ![p] = 0]
  /\ pick' = [pick EXCEPT ![p] = None]

\* A sync runs over the accounts it lists, or over the one it was asked for.
Start(p, label, listed) ==
  /\ pc[p] = "idle"
  /\ syncs < MaxSyncs
  /\ syncs' = syncs + 1
  /\ \E A \in {listed} \cup {{a} : a \in listed} : todo' = [todo EXCEPT ![p] = A]
  /\ began' = [began EXCEPT ![p] = clock]
  /\ alone' = [q \in Proc |-> q = p /\ \A r \in Proc : pc[r] = "idle"]
  /\ Goto(p, label)
  /\ UNCHANGED <<accounts, links, obs, rows, external, cur, answer, reading, faults>>

NextAccount(p, label, first) ==
  /\ pc[p] = label
  /\ \E a \in todo[p] : /\ cur' = [cur EXCEPT ![p] = a]
                        /\ todo' = [todo EXCEPT ![p] = @ \ {a}]
  /\ Goto(p, first)
  /\ UNCHANGED <<accounts, links, obs, rows, external, began, answer, reading, alone,
                 bounds>>

Finish(p) ==
  /\ pc[p] \in {"discoveries", "orders"}
  /\ todo[p] = {}
  /\ Goto(p, "idle")
  /\ began' = [began EXCEPT ![p] = 0]
  /\ alone' = [alone EXCEPT ![p] = FALSE]
  /\ UNCHANGED <<accounts, links, obs, rows, external, todo, cur, answer, reading, bounds>>

-----------------------------------------------------------------------------
(* runCotikDiscoverySync.                                                   *)

StartDiscovery(p) ==
  Start(p, "discoveries", {a \in Account : status[a] \in {"ACTIVE", "UNHEALTHY"}})

\* COTIK lists the shop, or does not, or its list is short or does not classify;
\* a failed request names what is wrong with the account and touches no link.  A
\* link found again starts without a checkpoint.
DiscoverAccountShops(p) ==
  LET a == cur[p]
  IN /\ pc[p] = "discover"
     /\ \/ /\ answer' = [answer EXCEPT ![p] = "listed"]
           /\ discovery' = [discovery EXCEPT ![a] = "DISCOVERED"]
           /\ checkpoint' = [checkpoint EXCEPT ![a] = 0]
        \/ /\ \E x \in {"missing", "insufficient"} :
                /\ answer' = [answer EXCEPT ![p] = x]
                /\ discovery' = [discovery EXCEPT ![a] =
                     IF @ = "ABSENT" THEN @
                     ELSE IF x = "missing" THEN "DISCONNECTED" ELSE "ERROR"]
           /\ UNCHANGED checkpoint
        \/ /\ \E x \in {"UNHEALTHY", "LOST"} : answer' = [answer EXCEPT ![p] = x]
           /\ UNCHANGED links
     /\ Goto(p, "health")
     /\ UNCHANGED <<accounts, obs, rows, external, todo, cur, began, reading, alone, bounds>>

\* A complete discovery dates the account by the start of the run.
WriteHealth(p) ==
  LET a == cur[p]
  IN /\ pc[p] = "health"
     /\ \/ /\ answer[p] \in {"listed", "missing"}
           /\ status' = [status EXCEPT ![a] = "ACTIVE"]
           /\ lastSeen' = [lastSeen EXCEPT ![a] = began[p]]
        \/ /\ answer[p] \notin {"listed", "missing"}
           /\ status' = [status EXCEPT ![a] =
                           IF answer[p] = "LOST" THEN "LOST" ELSE "UNHEALTHY"]
           /\ UNCHANGED lastSeen
     /\ Turn(p, "discoveries")
     /\ UNCHANGED <<links, obs, rows, external, todo, began, alone, bounds>>

-----------------------------------------------------------------------------
(* runCotikMultiAccountOrdersSync.                                          *)

StartOrders(p) == Start(p, "orders", {a \in Account : status[a] = "ACTIVE"})

MaxOf(a, b) == IF a > b THEN a ELSE b

\* The window of an incremental sync, or of one that reconciles two months.
PickShop(p) ==
  LET a == cur[p]
      from == IF checkpoint[a] # 0 THEN checkpoint[a] ELSE began[p]
  IN /\ pc[p] = "shop"
     /\ \/ /\ discovery[a] = "DISCOVERED"
           /\ \E t \in {MaxOf(0, from - Overlap), 0} :
                since' = [since EXCEPT ![p] = t]
           /\ Goto(p, "fetch")
           /\ UNCHANGED <<cur, answer, page, pages, passed, left, newest, pick>>
        \/ discovery[a] # "DISCOVERED" /\ Turn(p, "orders")
     /\ UNCHANGED <<accounts, links, obs, rows, external, todo, began, alone, bounds>>

Listed(p) == {o \in Order : shown[cur[p]][o] # 0 /\ shown[cur[p]][o] >= since[p]}

\* The next page: orders not on an earlier one, those that do not parse dropped
\* (fetchCotikOrdersPage).  None left ends the reading.
FetchPage(p) ==
  /\ pc[p] = "fetch"
  /\ LET list == Listed(p) \ passed[p]
     IN \E S \in SUBSET list :
          /\ Cardinality(S) = PageSize \/ (S = list /\ Cardinality(S) < PageSize)
          /\ page' = [page EXCEPT ![p] = [o \in S \ Odd |-> shown[cur[p]][o]]]
          /\ left' = [left EXCEPT ![p] = S \ Odd]
          /\ passed' = [passed EXCEPT ![p] = @ \cup S]
          /\ Goto(p, IF S \subseteq Odd THEN "save" ELSE "record")
  /\ pages' = [pages EXCEPT ![p] = @ + 1]
  /\ UNCHANGED <<accounts, links, obs, rows, external, todo, cur, began, answer, since,
                 newest, pick, alone, bounds>>

Overwrites(a, o, v) == TRUE                                              \* mutant

\* An older record never overwrites what the account showed before.
Advances(a, o, v) == v >= obs[a][o]

RecordObservation(p) ==
  /\ pc[p] = "record"
  /\ \E o \in left[p] :
       /\ obs' = [obs EXCEPT ![cur[p]][o] =
                    IF Advances(cur[p], o, page[p][o]) THEN page[p][o] ELSE @]
       /\ left' = [left EXCEPT ![p] = IF @ = {o} THEN DOMAIN page[p] ELSE @ \ {o}]
       /\ Goto(p, IF left[p] = {o} THEN "seen" ELSE "record")
  /\ UNCHANGED <<accounts, links, rows, external, todo, cur, began, answer, since, page,
                 pages, passed, newest, pick, alone, bounds>>

MarkSeen(p) ==
  /\ pc[p] = "seen"
  /\ status' = [status EXCEPT ![cur[p]] = "ACTIVE"]
  /\ lastSeen' = [lastSeen EXCEPT ![cur[p]] = clock]
  /\ Goto(p, "pick")
  /\ UNCHANGED <<links, obs, rows, external, locals, bounds>>

Eligible(a) == /\ status[a] = "ACTIVE"
               /\ discovery[a] = "DISCOVERED"
               /\ lastSeen[a] # 0

\* Of the usable accounts that observed the order the last one seen, then the
\* first by id.
Wins(a, o) ==
  LET C == {b \in Account : Eligible(b) /\ obs[b][o] # 0}
  IN a \in C /\ \A b \in C : lastSeen[b] < lastSeen[a]
                             \/ (lastSeen[b] = lastSeen[a] /\ a <= b)

OwnRecord(p, a, o) == page[p][o]                                         \* mutant

Projected(p, a, o) == obs[a][o]

\* An order of the page without a winner is passed over.
Skipped(p, o) ==
  /\ left' = [left EXCEPT ![p] = @ \ {o}]
  /\ newest' = [newest EXCEPT ![p] = MaxOf(@, page[p][o])]

LastPage(p) ==
  Cardinality(DOMAIN page[p]) < PageSize \/ pages[p] >= MaxPages

AfterOrder(p, o) ==
  IF left[p] # {o} THEN "pick" ELSE IF LastPage(p) THEN "save" ELSE "fetch"

\* Read in a statement of its own, before the transaction that projects it.
PickWinner(p) ==
  /\ pc[p] = "pick"
  /\ \E o \in left[p] :
       \/ \E a \in Account :
            /\ Wins(a, o)
            /\ pick' = [pick EXCEPT ![p] = [order |-> o, by |-> a, at |-> Projected(p, a, o)]]
            /\ Goto(p, "commit")
            /\ UNCHANGED <<left, newest>>
       \/ /\ \A a \in Account : ~Wins(a, o)
          /\ Skipped(p, o)
          /\ Goto(p, AfterOrder(p, o))
          /\ UNCHANGED pick
  /\ UNCHANGED <<accounts, links, obs, rows, external, todo, cur, began, answer, since, page,
                 pages, passed, alone, bounds>>

\* Items are those of the sync's own account, stored only if it won.
ProjectWinningOrder(p) ==
  LET w == pick[p]
  IN /\ pc[p] = "commit"
     /\ winner' = [winner EXCEPT ![w.order] = w.by]
     /\ version' = [version EXCEPT ![w.order] = w.at]
     /\ itemsOf' = [itemsOf EXCEPT ![w.order] = IF w.by = cur[p] THEN w.by ELSE @]
     /\ Skipped(p, w.order)
     /\ pick' = [pick EXCEPT ![p] = None]
     /\ Goto(p, AfterOrder(p, w.order))
     /\ UNCHANGED <<accounts, links, obs, external, todo, cur, began, answer, since,
                    page, pages, passed, alone, bounds>>

\* The newest update time read, whatever the pages left out.
UpdateCheckpoint(p) ==
  /\ pc[p] = "save"
  /\ checkpoint' = [checkpoint EXCEPT ![cur[p]] = IF newest[p] > 0 THEN newest[p] ELSE @]
  /\ Turn(p, "orders")
  /\ UNCHANGED <<accounts, discovery, obs, rows, external, todo, began, alone, bounds>>

-----------------------------------------------------------------------------
(* What happens beside it.                                                  *)

Fault == faults < MaxFaults /\ faults' = faults + 1 /\ UNCHANGED syncs

\* A request or statement of a shop's turn fails; COTIK may say "not found".
ShopFails(p) ==
  /\ Fault
  /\ pc[p] \in {"fetch", "record", "seen", "pick", "commit", "save"}
  /\ \/ UNCHANGED discovery
     \/ pc[p] = "fetch" /\ discovery' = [discovery EXCEPT ![cur[p]] = "DISCONNECTED"]
  /\ Turn(p, "orders")
  /\ UNCHANGED <<accounts, checkpoint, obs, rows, external, todo, began, alone>>

\* The token or the links of an account cannot be read.
AccountFails(p) ==
  /\ Fault
  /\ pc[p] = "shop"
  /\ status' = [status EXCEPT ![cur[p]] = "UNHEALTHY"]
  /\ Turn(p, "orders")
  /\ UNCHANGED <<lastSeen, links, obs, rows, external, todo, began, alone>>

Crash(p) ==
  /\ Fault
  /\ pc[p] # "idle"
  /\ Turn(p, "idle")
  /\ todo' = [todo EXCEPT ![p] = {}]
  /\ began' = [began EXCEPT ![p] = 0]
  /\ alone' = [alone EXCEPT ![p] = FALSE]
  /\ UNCHANGED <<accounts, links, obs, rows, external>>

DisableAccount(a) ==
  /\ Fault
  /\ status[a] # "DISABLED"
  /\ status' = [status EXCEPT ![a] = "DISABLED"]
  /\ alone' = [p \in Proc |-> FALSE]
  /\ UNCHANGED <<lastSeen, links, obs, rows, external, pc, todo, cur, began, answer, reading>>

OrderShown(a, o) ==
  /\ shown[a][o] < clock
  /\ shown' = [shown EXCEPT ![a][o] = clock]
  /\ UNCHANGED <<accounts, links, obs, rows, clock, pc, locals, bounds>>

Tick ==
  /\ clock < MaxClock
  /\ clock' = clock + 1
  /\ UNCHANGED <<accounts, links, obs, rows, shown, pc, locals, bounds>>

Sync(p) ==
  \/ StartDiscovery(p) \/ NextAccount(p, "discoveries", "discover")
  \/ DiscoverAccountShops(p) \/ WriteHealth(p)
  \/ StartOrders(p) \/ NextAccount(p, "orders", "shop")
  \/ PickShop(p) \/ FetchPage(p) \/ RecordObservation(p) \/ MarkSeen(p)
  \/ PickWinner(p) \/ ProjectWinningOrder(p) \/ UpdateCheckpoint(p) \/ Finish(p)

Next ==
  \/ \E p \in Proc : Sync(p) \/ ShopFails(p) \/ AccountFails(p) \/ Crash(p)
  \/ \E a \in Account : DisableAccount(a)
  \/ \E a \in Account, o \in Order : OrderShown(a, o)
  \/ Tick

Spec == Init /\ [][Next]_vars

-----------------------------------------------------------------------------
\* The row of an order never shows a version its winner has not observed, nor one
\* newer than the winner's stored observation: a sync that holds an old page and
\* records it late must not take the observation back behind the row
\* (the condition of recordCotikOrderObservation's upsert).
ProjectionWasObserved ==
  \A o \in Order : winner[o] # None => version[o] \in 1..obs[winner[o]][o]

\* A sync that nothing disturbed leaves every order it read projected from its
\* winner's stored observation, whatever races, failures and discoveries there
\* were before it: the observation is stored and its account dated before the
\* winner is picked, and what is projected is the winner's observation.
SyncRepairs ==
  \A p \in Proc : (pc[p] = "save" /\ alone[p]) =>
    \A o \in passed[p] \ Odd :
      winner[o] # None /\ version[o] = obs[winner[o]][o]

\* An operator's word stands: "it never retries DISABLED/BLOCKED/token-expired
\* accounts automatically", so no sync makes a disabled account active again.
DisabledStaysDisabled ==
  [][\A a \in Account : status[a] = "DISABLED" => status'[a] = "DISABLED"]_vars
=============================================================================
