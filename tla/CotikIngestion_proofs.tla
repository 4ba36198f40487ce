------------------------ MODULE CotikIngestion_proofs ------------------------
(***************************************************************************)
(* The checkpoint of a COTIK binding never passes an order that is not     *)
(* stored, for every number of callers, orders, shops, pages and faults.   *)
(*                                                                         *)
(* A run lists an order when it was last updated in the run's window. While*)
(* the run reads, an order may join an open window and leave a closed one, *)
(* or join a closed one when COTIK's clock is behind: such a run is marked *)
(* and proves nothing of its orders. In every other run a list as long as  *)
(* the first one IS the first one, whatever happened to its orders and in  *)
(* whatever order its pages came.  ListOK names that list: as many distinct*)
(* orders delivered as it has members are all of them.  What is dated      *)
(* before the next window is settled, for the overlap is no shorter than   *)
(* COTIK's clock may be behind.                                            *)
(***************************************************************************)
EXTENDS CotikIngestion, FiniteSetTheorems, TLAPS

\* COTIK lists finitely many orders, None is neither a number nor a shop, and the
\* overlap is no shorter than COTIK's clock may be off.
SyncConstants ==
  /\ OverlapCoversSkew
  /\ IsFiniteSet(Order)
  /\ Home \in [Order -> CotikShop]
  /\ CotikShop # {}
  /\ MaxClock \in Nat
  /\ None \notin Nat \cup CotikShop

Time == Nat \cup {None}
BindingOf == [shop : CotikShop, enabled : BOOLEAN, checkpoint : Time,
              from : CotikShop \cup {None}]
PageOf == UNION {[S -> Nat] : S \in SUBSET Order}
Reading == {"fetch", "persist", "check", "save"}
Label == {"idle", "lock", "relist", "binding", "unlock", "writeBack"} \cup Reading

Types ==
  /\ binding \in BindingOf
  /\ row \in [Order -> Nat]
  /\ updated \in [Order -> Nat]
  /\ clock \in Nat \ {0}
  /\ pc \in [Caller -> Label]
  /\ found \in [Caller -> BindingOf]
  /\ bound \in [Caller -> CotikShop]
  /\ since \in [Caller -> Time]
  /\ origin \in [Caller -> CotikShop \cup {None}]
  /\ start \in [Caller -> Nat]
  /\ expected \in [Caller -> Time]
  /\ seen \in [Caller -> SUBSET Order]
  /\ page \in [Caller -> PageOf]

\* What is stored of shop p's orders last updated before t is what COTIK has.
StoredBefore(p, t) ==
  \A o \in Order : Home[o] = p /\ updated[o] < t => row[o] = updated[o]

\* No order is dated before t from now on: COTIK's clock is behind by Skew at most.
Settled(t) == t = 0 \/ t + Overlap <= clock

\* A checkpoint covers the shop it was read from, up to the next window.
Covered(b) ==
  b.checkpoint # None =>
    b.checkpoint <= clock /\ StoredBefore(b.from, Since(b.checkpoint))

\* Nothing read or stored is later than what COTIK has.
Past ==
  \A o \in Order :
    /\ row[o] <= updated[o]
    /\ \A c \in Caller : o \in DOMAIN page[c] => page[c][o] <= updated[o]

\* The next window, if this run commits its start.
NextWindow(c) == Since(start[c])

\* The orders the window of c held from its start on and still holds, of those that the
\* next window leaves out.
Early(c) ==
  {o \in Order :
     /\ Home[o] = bound[c]
     /\ updated[o] # 0
     /\ updated[o] < NextWindow(c)
     /\ since[c] = None \/ since[c] <= updated[o]}

\* L is the list the run of c reads: as long as COTIK said, with all that was
\* delivered and all the run must read.
ListOf(c, L) ==
  /\ Cardinality(L) = expected[c]
  /\ Delivered(c) \subseteq L
  /\ Early(c) \subseteq L
  /\ since[c] = None => L \subseteq Listed(c)
  /\ since[c] # None => Listed(c) \subseteq L

ListOK(c) ==
  IF expected[c] = None
  THEN Delivered(c) = {} /\ pc[c] = "fetch"
  ELSE origin[c] # None => \E L \in SUBSET Order : ListOf(c, L)

\* What a run read of an order is what COTIK has of it, or was changed since.
RunOK(c) ==
  /\ start[c] <= clock
  /\ since[c] # None => Settled(since[c]) /\ StoredBefore(origin[c], since[c])
  /\ ListOK(c)
  /\ \A o \in seen[c] : updated[o] < NextWindow(c) => row[o] = updated[o]
  /\ \A o \in DOMAIN page[c] : updated[o] < NextWindow(c) =>
       /\ page[c][o] = updated[o]
       /\ pc[c] = "check" => row[o] = updated[o]
  /\ pc[c] \in {"fetch", "save"} => DOMAIN page[c] = {}
  /\ pc[c] = "save" => Complete(c)

\* Nothing is left of a run that ended.
Clean(c) == pc[c] \notin Reading \cup {"unlock"} => expected[c] = None /\ Delivered(c) = {}

Bindings == Covered(binding) /\ \A c \in Caller : Covered(found[c])
Runs == \A c \in Caller : Clean(c) /\ (pc[c] \in Reading => RunOK(c))

IInv == Types /\ Past /\ Bindings /\ Runs

-----------------------------------------------------------------------------
(* Types.                                                                  *)

LEMMA NothingIsAPage == Nothing \in PageOf /\ DOMAIN Nothing = {}
<1>1. Nothing \in [{} -> Nat]
  BY DEF Nothing
<1> QED BY <1>1 DEF PageOf, Nothing

LEMMA PageFields ==
  ASSUME Types, NEW c \in Caller
  PROVE  /\ DOMAIN page[c] \subseteq Order
         /\ \A o \in DOMAIN page[c] : page[c][o] \in Nat
<1>1. PICK S \in SUBSET Order : page[c] \in [S -> Nat]
  BY DEF Types, PageOf
<1> QED BY <1>1

\* A page of a set of orders, as COTIK has them.
LEMMA PageRead ==
  ASSUME Types, NEW S \in SUBSET Order
  PROVE  [o \in S |-> updated[o]] \in PageOf
<1>1. [o \in S |-> updated[o]] \in [S -> Nat]
  BY DEF Types
<1> QED BY <1>1 DEF PageOf

LEMMA FirstBindingIsOne == \A p \in CotikShop : FirstBinding(p) \in BindingOf
BY DEF FirstBinding, BindingOf, Time

LEMMA AnyShopIsOne ==
  ASSUME SyncConstants
  PROVE  AnyShop \in CotikShop /\ FirstBinding(AnyShop) \in BindingOf
BY FirstBindingIsOne DEF SyncConstants, AnyShop

\* The window after a checkpoint begins no later, by the overlap if at all.
LEMMA SinceIs ==
  ASSUME SyncConstants, NEW t \in Nat
  PROVE  /\ Since(t) \in Nat /\ Since(t) <= t
         /\ Since(t) = 0 \/ Since(t) + Overlap <= t
BY DEF Since, SyncConstants, OverlapCoversSkew

\* What every call that ends leaves behind.
LEMMA ResetTypes ==
  ASSUME SyncConstants, Types, NEW c \in Caller, Reset(c)
  PROVE  /\ bound' \in [Caller -> CotikShop]
         /\ since' \in [Caller -> Time]
         /\ origin' \in [Caller -> CotikShop \cup {None}]
         /\ start' \in [Caller -> Nat]
         /\ expected' \in [Caller -> Time]
         /\ seen' \in [Caller -> SUBSET Order]
         /\ page' \in [Caller -> PageOf]
<1>1. page' \in [Caller -> PageOf]
  BY NothingIsAPage DEF Reset, Types
<1> QED BY <1>1, AnyShopIsOne DEF Reset, Types, Time

LEMMA TypesInit == ASSUME SyncConstants, Init PROVE Types
<1>1. page \in [Caller -> PageOf]
  BY NothingIsAPage DEF Init
<1> QED BY <1>1, AnyShopIsOne DEF Init, Types, Label, Time, Reading

LEMMA TypesNext ==
  ASSUME SyncConstants, Types, [Next]_vars
  PROVE  Types'
<1> USE DEF Types, Label, Reading, Goto
<1>1. ASSUME NEW c \in Caller, Call(c) \/ TryLock(c) \/ SaveCheckpoint(c)
      PROVE  Types'
  <2>1. CASE Call(c)
    BY <2>1 DEF Call
  <2>2. CASE TryLock(c)
    BY <2>2 DEF TryLock, locals
  <2>3. CASE SaveCheckpoint(c)
    <3>1. binding' \in BindingOf
      BY ZenonT(40), <2>3 DEF SaveCheckpoint, CheckpointOf, BindingOf, Time
    <3> QED BY <2>3, <3>1 DEF SaveCheckpoint, locals
  <2> QED BY <1>1, <2>1, <2>2, <2>3
<1>2. ASSUME NEW c \in Caller, FindEnabledBinding(c)
      PROVE  Types'
  <2>1. binding.checkpoint \in Time /\ binding.from \in CotikShop \cup {None}
         /\ binding.shop \in CotikShop
    BY DEF BindingOf
  <2>2. Since(binding.checkpoint) \in Time
    <3>1. CASE binding.checkpoint = None
      BY <3>1 DEF Since, Time
    <3>2. CASE binding.checkpoint \in Nat
      BY <3>2, SinceIs DEF Time
    <3> QED BY <2>1, <3>1, <3>2 DEF Time
  <2> QED BY <1>2, <2>1, <2>2 DEF FindEnabledBinding
<1>3. ASSUME NEW c \in Caller, FetchPage(c)
      PROVE  Types'
  <2> DEFINE total == Cardinality(Listed(c))
  <2>1. Listed(c) \in SUBSET Order /\ total \in Nat
    <3>1. Listed(c) \subseteq Order
      BY DEF Listed
    <3> QED BY <3>1, FS_Subset, FS_CardinalityType DEF SyncConstants
  <2>2. expected' \in [Caller -> Time]
    BY <1>3, <2>1 DEF FetchPage, Time
  <2>3. page' \in [Caller -> PageOf]
    <3>1. page' = page \/ \E S \in SUBSET Listed(c) :
                page' = [page EXCEPT ![c] = [o \in S |-> updated[o]]]
      BY <1>3 DEF FetchPage
    <3>2. ASSUME NEW S \in SUBSET Listed(c) PROVE [o \in S |-> updated[o]] \in PageOf
      BY <2>1, PageRead
    <3> QED BY <3>1, <3>2
  <2>4. pc' \in [Caller -> Label]
    BY <1>3 DEF FetchPage
  <2> QED BY <1>3, <2>2, <2>3, <2>4 DEF FetchPage
<1>4. ASSUME NEW c \in Caller, PersistOrders(c)
      PROVE  Types'
  <2>1. row' \in [Order -> Nat]
    BY <1>4, PageFields DEF PersistOrders
  <2> QED BY <1>4, <2>1 DEF PersistOrders, locals
<1>5. ASSUME NEW c \in Caller, CheckPage(c)
      PROVE  Types'
  <2>1. Delivered(c) \in SUBSET Order
    BY PageFields DEF Delivered
  <2>2. page' \in [Caller -> PageOf]
    BY <1>5, NothingIsAPage DEF CheckPage
  <2> QED BY <1>5, <2>1, <2>2 DEF CheckPage
<1>6. ASSUME NEW c \in Caller, Unlock(c) \/ WriteBack(c) \/ Relist(c) \/ Crash(c)
      PROVE  Types'
  <2>1. Reset(c)
    BY <1>6 DEF Unlock, WriteBack, Relist, Crash
  <2>2. found' \in [Caller -> BindingOf]
    BY <1>6, AnyShopIsOne DEF Unlock, WriteBack, Relist, Crash, Forget
  <2>3. binding' \in BindingOf
    <3>1. CASE UNCHANGED binding
      BY <3>1
    <3>2. CASE WriteBack(c)
      <4>1. PICK p \in CotikShop : binding' = [found[c] EXCEPT !.enabled = TRUE, !.shop = p]
        BY <3>2 DEF WriteBack
      <4>2. found[c] \in BindingOf
        OBVIOUS
      <4> QED BY <4>1, <4>2 DEF BindingOf
    <3>3. CASE Relist(c)
      <4>1. PICK p \in CotikShop :
              binding' = [found[c] EXCEPT !.shop = p] \/ binding' = FirstBinding(p)
        BY <3>3 DEF Relist
      <4>2. found[c] \in BindingOf
        OBVIOUS
      <4>3. [found[c] EXCEPT !.shop = p] \in BindingOf
        BY <4>2 DEF BindingOf
      <4> QED BY <4>1, <4>3, FirstBindingIsOne
    <3> QED BY <1>6, <3>1, <3>2, <3>3 DEF Unlock, Crash
  <2>4. pc' \in [Caller -> Label] /\ UNCHANGED <<row, updated, clock>>
    BY <1>6 DEF Unlock, WriteBack, Relist, Crash
  <2> QED BY <2>1, <2>2, <2>3, <2>4, ResetTypes
<1>7. ASSUME NEW c \in Caller, Throws(c) \/ LoseLockSession(c)
      PROVE  Types'
  BY <1>7 DEF Throws, LoseLockSession, locals
<1>8. CASE (\E p \in CotikShop : Bind(p)) \/ Unbind
  <2>1. binding' \in BindingOf
    <3>1. CASE \E p \in CotikShop : Bind(p)
      BY <3>1, FirstBindingIsOne DEF Bind
    <3>2. CASE Unbind
      BY <3>2 DEF Unbind, BindingOf
    <3> QED BY <1>8, <3>1, <3>2
  <2> QED BY <1>8, <2>1 DEF Bind, Unbind, locals
<1>9. CASE (\E o \in Order : OrderUpdated(o)) \/ Tick
  <2>1. CASE Tick
    BY <2>1 DEF Tick, locals
  <2>2. ASSUME NEW o \in Order, OrderUpdated(o) PROVE Types'
    <3>1. PICK date \in (updated[o] + 1)..MaxClock :
            /\ updated' = [updated EXCEPT ![o] = date]
            /\ origin' = [c \in Caller |-> IF Enters(c, o, date) THEN None ELSE origin[c]]
      BY <2>2 DEF OrderUpdated
    <3>2. date \in Nat
      BY DEF SyncConstants
    <3>3. updated' \in [Order -> Nat] /\ origin' \in [Caller -> CotikShop \cup {None}]
      BY <3>1, <3>2
    <3> QED BY <2>2, <3>3 DEF OrderUpdated
  <2> QED BY <1>9, <2>1, <2>2
<1>10. CASE UNCHANGED vars
  BY <1>10 DEF vars, locals
<1> QED BY <1>1, <1>2, <1>3, <1>4, <1>5, <1>6, <1>7, <1>8, <1>9, <1>10 DEF Next, Step

-----------------------------------------------------------------------------
(* What every step leaves true of stored orders.                           *)

\* Time goes on, an update is dated later than the one before and at most Skew behind the
\* clock, and what was stored as COTIK had it stays so until COTIK changes it.
Later ==
  /\ clock <= clock'
  /\ \A o \in Order :
       /\ \/ updated'[o] = updated[o]
          \/ updated[o] < updated'[o] /\ clock <= updated'[o] + Skew
       /\ row[o] = updated[o] /\ updated'[o] = updated[o] => row'[o] = updated[o]

LEMMA StepIsLater ==
  ASSUME SyncConstants, Types, Past, [Next]_vars
  PROVE  Later
<1>1. ASSUME UNCHANGED <<row, updated, clock>> PROVE Later
  BY <1>1 DEF Later, Types
<1>2. ASSUME NEW c \in Caller, PersistOrders(c) PROVE Later
  <2>1. ASSUME NEW o \in Order, row[o] = updated[o] PROVE row'[o] = updated[o]
    <3>1. CASE o \in DOMAIN page[c] /\ page[c][o] >= row[o]
      <4>1. page[c][o] <= updated[o] /\ page[c][o] \in Nat /\ row[o] \in Nat
        BY <3>1, PageFields DEF Past, Types
      <4>2. page[c][o] = row[o]
        BY <2>1, <3>1, <4>1
      <4>3. row'[o] = row[o]
        BY <1>2, <4>2 DEF PersistOrders
      <4> QED BY <2>1, <4>3
    <3>2. CASE ~ (o \in DOMAIN page[c] /\ page[c][o] >= row[o])
      BY <1>2, <2>1, <3>2 DEF PersistOrders
    <3> QED BY <3>1, <3>2
  <2> QED BY <1>2, <2>1 DEF Later, PersistOrders, Types
<1>3. CASE (\E o \in Order : OrderUpdated(o)) \/ Tick
  <2>1. CASE Tick
    BY <2>1 DEF Tick, Later, Types
  <2>2. ASSUME NEW p \in Order, OrderUpdated(p) PROVE Later
    <3>1. PICK date \in (updated[p] + 1)..MaxClock :
            /\ clock <= date + Skew /\ updated' = [updated EXCEPT ![p] = date]
            /\ UNCHANGED <<row, clock>>
      BY <2>2 DEF OrderUpdated
    <3>2. updated[p] < date
      BY DEF Types, SyncConstants
    <3> QED BY <3>1, <3>2 DEF Later, Types
  <2> QED BY <1>3, <2>1, <2>2
<1>4. CASE (\E p \in CotikShop : Bind(p)) \/ Unbind \/ UNCHANGED vars
  BY <1>1, <1>4 DEF Bind, Unbind, vars
<1>5. ASSUME NEW c \in Caller, Step(c), ~ PersistOrders(c) PROVE Later
  <2>1. UNCHANGED <<row, updated, clock>>
    BY <1>5 DEF Step, Call, TryLock, FindEnabledBinding, FetchPage, CheckPage,
                SaveCheckpoint, Unlock, WriteBack, Relist
  <2> QED BY <1>1, <2>1
<1>6. ASSUME NEW c \in Caller, Throws(c) \/ Crash(c) \/ LoseLockSession(c) PROVE Later
  BY <1>1, <1>6 DEF Throws, Crash, LoseLockSession
<1> QED BY <1>2, <1>3, <1>4, <1>5, <1>6 DEF Next

\* An order dated before a settled moment was so before.
LEMMA SettledStays ==
  ASSUME SyncConstants, Types, Types', Later, NEW t \in Nat, Settled(t),
         NEW o \in Order, updated'[o] < t
  PROVE  updated'[o] = updated[o]
BY DEF Settled, Later, Types, SyncConstants, OverlapCoversSkew

LEMMA StillSettled ==
  ASSUME SyncConstants, Types, Types', Later, NEW t \in Nat, Settled(t)
  PROVE  Settled(t)'
BY DEF Settled, Later, Types, SyncConstants, OverlapCoversSkew

LEMMA SinceSettles ==
  ASSUME SyncConstants, Types, NEW t \in Nat, t <= clock
  PROVE  Since(t) \in Nat /\ Settled(Since(t))
BY SinceIs DEF Settled, Types, SyncConstants, OverlapCoversSkew

\* What was stored before a settled moment stays stored.
LEMMA StoredStays ==
  ASSUME SyncConstants, Types, Types', Later, NEW p, NEW t \in Nat, Settled(t), StoredBefore(p, t)
  PROVE  \A o \in Order : Home[o] = p /\ updated'[o] < t => row'[o] = updated'[o]
<1> SUFFICES ASSUME NEW o \in Order, Home[o] = p, updated'[o] < t
             PROVE  row'[o] = updated'[o]
  OBVIOUS
<1>1. updated'[o] = updated[o]
  BY SettledStays
<1> QED BY <1>1 DEF Later, StoredBefore

CoveredNext(b) ==
  b.checkpoint # None =>
    /\ b.checkpoint <= clock'
    /\ \A o \in Order : Home[o] = b.from /\ updated'[o] < Since(b.checkpoint)
                          => row'[o] = updated'[o]

LEMMA CoveredStays ==
  ASSUME SyncConstants, Types, Types', Later, NEW b \in BindingOf, Covered(b)
  PROVE  CoveredNext(b)
<1>1. CASE b.checkpoint = None
  BY <1>1 DEF CoveredNext
<1>2. CASE b.checkpoint # None
  <2>1. /\ b.checkpoint \in Nat /\ b.checkpoint <= clock
        /\ StoredBefore(b.from, Since(b.checkpoint))
    BY <1>2 DEF BindingOf, Time, Covered
  <2>2. b.checkpoint <= clock'
    BY <2>1 DEF Later, Types
  <2>3. Since(b.checkpoint) \in Nat /\ Settled(Since(b.checkpoint))
    BY <2>1, SinceSettles
  <2>4. \A o \in Order : Home[o] = b.from /\ updated'[o] < Since(b.checkpoint)
                            => row'[o] = updated'[o]
    BY <2>1, <2>3, StoredStays
  <2> QED BY <2>2, <2>4 DEF CoveredNext
<1> QED BY <1>1, <1>2

LEMMA PastNext ==
  ASSUME SyncConstants, Types, Types', Past, Later, [Next]_vars
  PROVE  Past'
<1>1. ASSUME NEW o \in Order PROVE updated'[o] >= updated[o]
  BY DEF Later, Types
<1>2. ASSUME NEW o \in Order PROVE row'[o] <= updated'[o]
  <2>1. CASE UNCHANGED row
    BY <1>1, <2>1 DEF Past, Types
  <2>2. ASSUME NEW c \in Caller, PersistOrders(c) PROVE row'[o] <= updated'[o]
    <3>1. CASE o \in DOMAIN page[c]
      <4>1. page[c][o] <= updated[o] /\ row[o] <= updated[o]
        BY <3>1 DEF Past
      <4>2. row'[o] = page[c][o] \/ row'[o] = row[o]
        BY <2>2 DEF PersistOrders
      <4> QED BY <2>2, <4>1, <4>2 DEF PersistOrders
    <3>2. CASE o \notin DOMAIN page[c]
      BY <2>2, <3>2 DEF Past, PersistOrders
    <3> QED BY <3>1, <3>2
  <2>3. UNCHANGED row \/ (\E c \in Caller : PersistOrders(c))
    BY DEF Next, Step, Call, TryLock, FindEnabledBinding, FetchPage, CheckPage,
           SaveCheckpoint, Unlock, WriteBack, Relist, Throws, Crash, LoseLockSession,
           Bind, Unbind, Tick, OrderUpdated, vars
  <2> QED BY <2>1, <2>2, <2>3
<1>3. ASSUME NEW o \in Order, NEW d \in Caller, o \in DOMAIN page'[d]
      PROVE  page'[d][o] <= updated'[o]
  <2>1. CASE page'[d] = page[d]
    <3>1. page[d][o] <= updated[o] /\ page[d][o] \in Nat
      BY <1>3, <2>1, PageFields DEF Past
    <3> QED BY <1>1, <2>1, <3>1 DEF Types
  <2>2. CASE DOMAIN page'[d] = {}
    BY <1>3, <2>2
  <2>3. ASSUME NEW S \in SUBSET Order, page'[d] = [q \in S |-> updated[q]]
        PROVE  page'[d][o] <= updated'[o]
    <3>1. o \in S
      BY <1>3, <2>3
    <3>2. page'[d][o] = updated[o]
      BY <2>3, <3>1
    <3> QED BY <1>1, <3>2 DEF Types
  <2>4. \/ page'[d] = page[d]
        \/ DOMAIN page'[d] = {}
        \/ \E S \in SUBSET Order : page'[d] = [q \in S |-> updated[q]]
    <3>1. ASSUME NEW c \in Caller, FetchPage(c)
          PROVE  page'[d] = page[d]
                 \/ \E S \in SUBSET Order : page'[d] = [q \in S |-> updated[q]]
      <4>1. page' = page \/ \E S \in SUBSET Listed(c) :
                page' = [page EXCEPT ![c] = [q \in S |-> updated[q]]]
        BY <3>1 DEF FetchPage
      <4>2. Listed(c) \subseteq Order
        BY DEF Listed
      <4> QED BY <4>1, <4>2 DEF Types
    <3>2. ASSUME NEW c \in Caller,
                 CheckPage(c) \/ Unlock(c) \/ WriteBack(c) \/ Relist(c) \/ Crash(c)
          PROVE  page'[d] = page[d] \/ DOMAIN page'[d] = {}
      <4>1. page' = [page EXCEPT ![c] = Nothing]
        BY <3>2 DEF CheckPage, Unlock, WriteBack, Relist, Crash, Reset
      <4> QED BY <4>1, NothingIsAPage DEF Types
    <3>3. \/ UNCHANGED page
          \/ \E c \in Caller : FetchPage(c) \/ CheckPage(c) \/ Unlock(c) \/ WriteBack(c)
                               \/ Relist(c) \/ Crash(c)
      BY DEF Next, Step, Call, TryLock, FindEnabledBinding, PersistOrders,
             SaveCheckpoint, Throws, LoseLockSession, Bind, Unbind, Tick, OrderUpdated,
             vars, locals
    <3> QED BY <3>1, <3>2, <3>3
  <2> QED BY <2>1, <2>2, <2>3, <2>4
<1> QED BY <1>1, <1>2, <1>3 DEF Past

-----------------------------------------------------------------------------
(* A run that another process, an operator or COTIK steps beside.          *)

\* Nothing changes for the run, but that it is marked when an order joins its window.
SameRun(c) ==
  /\ pc'[c] = pc[c]
  /\ bound'[c] = bound[c] /\ since'[c] = since[c] /\ start'[c] = start[c]
  /\ expected'[c] = expected[c] /\ seen'[c] = seen[c] /\ page'[c] = page[c]
  /\ \/ origin'[c] = None
     \/ /\ origin'[c] = origin[c]
        /\ expected[c] # None /\ since[c] # None => Listed(c)' \subseteq Listed(c)

LEMMA ListStays ==
  ASSUME SyncConstants, Types, Types', Later, NEW c \in Caller, SameRun(c),
         start[c] <= clock, ListOK(c)
  PROVE  ListOK(c)'
<1>1. CASE expected[c] = None
  BY <1>1 DEF ListOK, SameRun, Delivered
<1>2. CASE expected[c] # None /\ origin'[c] = None
  BY <1>2 DEF ListOK, SameRun
<1>3. CASE expected[c] # None /\ origin'[c] # None
  <2>1. PICK L \in SUBSET Order : ListOf(c, L)
    BY <1>3 DEF ListOK, SameRun
  <2>2. Delivered(c)' = Delivered(c)
    BY DEF Delivered, SameRun
  <2>3. NextWindow(c)' = NextWindow(c) /\ NextWindow(c) \in Nat /\ Settled(NextWindow(c))
    BY SinceSettles DEF NextWindow, SameRun, Types, Since
  <2>4. Early(c)' \subseteq Early(c)
    <3>1. ASSUME NEW o \in Order, updated'[o] < NextWindow(c) PROVE updated'[o] = updated[o]
      BY <2>3, <3>1, SettledStays
    <3> QED BY <2>3, <3>1 DEF Early, SameRun
  <2>5. since[c] = None => Listed(c) \subseteq Listed(c)'
    <3>1. \A o \in Order : updated[o] # 0 => updated'[o] # 0
      BY DEF Later, Types
    <3> QED BY <3>1 DEF Listed, Lists, SameRun
  <2>6. since[c] # None => Listed(c)' \subseteq Listed(c)
    BY <1>3 DEF SameRun
  <2>7. ListOf(c, L)'
    BY <2>1, <2>2, <2>4, <2>5, <2>6 DEF ListOf, SameRun
  <2> QED BY <1>3, <2>7 DEF ListOK, SameRun
<1> QED BY <1>1, <1>2, <1>3

LEMMA RunStays ==
  ASSUME SyncConstants, Types, Types', Past, Later, NEW c \in Caller, SameRun(c), RunOK(c)
  PROVE  RunOK(c)'
<1> USE DEF SameRun
<1>1. start'[c] <= clock'
  BY DEF RunOK, Later, Types
<1>2. since'[c] # None => Settled(since[c])' /\ StoredBefore(origin[c], since[c])'
  <2>1. CASE since[c] = None
    BY <2>1
  <2>2. CASE since[c] # None
    <3>1. since[c] \in Nat /\ Settled(since[c]) /\ StoredBefore(origin[c], since[c])
      BY <2>2 DEF RunOK, Types, Time
    <3>2. \A o \in Order : Home[o] = origin[c] /\ updated'[o] < since[c]
                             => row'[o] = updated'[o]
      BY <3>1, StoredStays
    <3>3. Settled(since[c])'
      <4> PICK t : t = since[c]
        OBVIOUS
      <4>1. Settled(t)'
        BY <3>1, StillSettled
      <4> QED BY <4>1 DEF Settled
    <3>4. \A o \in Order : Home[o] # None
      BY DEF SyncConstants
    <3> QED BY <3>2, <3>3, <3>4 DEF StoredBefore
  <2> QED BY <2>1, <2>2
<1>3. ListOK(c)'
  BY ListStays DEF RunOK
<1>4. NextWindow(c)' = NextWindow(c) /\ NextWindow(c) \in Nat /\ Settled(NextWindow(c))
  BY SinceSettles DEF NextWindow, Types, Since, RunOK
<1>5. ASSUME NEW o \in Order, updated'[o] < NextWindow(c)
      PROVE  /\ updated'[o] = updated[o] /\ updated[o] < NextWindow(c)
             /\ row[o] = updated[o] => row'[o] = updated'[o]
  <2>1. updated'[o] = updated[o]
    BY <1>4, <1>5, SettledStays
  <2> QED BY <1>5, <2>1 DEF Later
<1>6. /\ \A o \in seen'[c] : updated'[o] < NextWindow(c)' => row'[o] = updated'[o]
      /\ \A o \in DOMAIN page'[c] : updated'[o] < NextWindow(c)' =>
           page'[c][o] = updated'[o] /\ (pc'[c] = "check" => row'[o] = updated'[o])
  <2>1. DOMAIN page[c] \subseteq Order /\ seen[c] \subseteq Order
    BY PageFields DEF Types
  <2> QED BY <1>4, <1>5, <2>1 DEF RunOK
<1>7. Complete(c)' = Complete(c)
  BY DEF Complete, Delivered
<1> QED BY <1>1, <1>2, <1>3, <1>6, <1>7 DEF RunOK

-----------------------------------------------------------------------------
(* The steps of a run.                                                     *)

LEMMA RunStarts ==
  ASSUME SyncConstants, Types, Types', Past, Bindings, Runs,
         NEW c \in Caller, FindEnabledBinding(c), pc'[c] \in Reading
  PROVE  RunOK(c)'
<1>1. /\ pc[c] = "binding" /\ pc'[c] = "fetch"
      /\ since'[c] = Since(binding.checkpoint)
      /\ origin'[c] = IF binding.checkpoint = None THEN binding.shop ELSE binding.from
      /\ start'[c] = clock
      /\ expected'[c] = expected[c] /\ seen' = seen /\ page' = page
      /\ row' = row /\ updated' = updated /\ clock' = clock
  BY DEF FindEnabledBinding, Goto, Reading, Types
<1>2. expected'[c] = None /\ Delivered(c)' = {}
  BY <1>1 DEF Runs, Clean, Reading, Delivered
<1>3. since'[c] # None => Settled(since[c])' /\ StoredBefore(origin[c], since[c])'
  <2>1. CASE binding.checkpoint = None
    BY <1>1, <2>1 DEF Since
  <2>2. CASE binding.checkpoint # None
    <3>1. binding.checkpoint \in Nat /\ binding.checkpoint <= clock
          /\ StoredBefore(binding.from, Since(binding.checkpoint))
      BY <2>2 DEF Bindings, Covered, Types, BindingOf, Time
    <3>2. Settled(Since(binding.checkpoint))
      BY <3>1, SinceSettles
    <3>3. Settled(since[c])'
      BY <1>1, <3>2 DEF Settled
    <3>4. StoredBefore(origin[c], since[c])'
      BY <1>1, <2>2, <3>1 DEF StoredBefore
    <3> QED BY <3>3, <3>4
  <2> QED BY <2>1, <2>2
<1>4. ListOK(c)'
  BY <1>1, <1>2 DEF ListOK
<1>5. seen'[c] = {} /\ DOMAIN page'[c] = {}
  BY <1>2 DEF Delivered
<1>6. start'[c] <= clock'
  BY <1>1 DEF Types
<1> QED BY <1>1, <1>3, <1>4, <1>5, <1>6 DEF RunOK

LEMMA RunFetches ==
  ASSUME SyncConstants, Types, Types', Past, Later, Runs,
         NEW c \in Caller, FetchPage(c), pc'[c] \in Reading
  PROVE  RunOK(c)'
<1> DEFINE list == Listed(c)
           total == Cardinality(list)
<1>1. /\ pc[c] = "fetch" /\ SameTotal(c, total) /\ pc'[c] = "persist"
      /\ expected'[c] = IF expected[c] = None THEN total ELSE expected[c]
      /\ UNCHANGED <<row, updated, clock, bound, since, origin, start, seen>>
  BY DEF FetchPage, Goto, Reading, Types
<1>2. PICK S \in SUBSET list : page' = [page EXCEPT ![c] = [o \in S |-> updated[o]]]
  BY <1>1 DEF FetchPage
<1>3. page'[c] = [o \in S |-> updated[o]] /\ DOMAIN page'[c] = S
  BY <1>2 DEF Types
<1>4. RunOK(c) /\ DOMAIN page[c] = {}
  BY <1>1 DEF Runs, RunOK, Reading
<1>5. list \in SUBSET Order /\ IsFiniteSet(list) /\ total \in Nat
  <2>1. list \subseteq Order
    BY DEF Listed
  <2> QED BY <2>1, FS_Subset, FS_CardinalityType DEF SyncConstants
<1>6. expected'[c] = total /\ total # None
  BY <1>1, <1>5 DEF SameTotal, SyncConstants
<1>7. Listed(c)' = list /\ Early(c)' = Early(c) /\ Early(c) \subseteq list
  <2>1. Listed(c)' = list /\ Early(c)' = Early(c)
    BY <1>1 DEF Listed, Lists, Early, NextWindow
  <2>2. NextWindow(c) \in Nat /\ NextWindow(c) <= start[c] /\ start[c] \in Nat
    BY SinceIs DEF NextWindow, Types
  <2>3. ASSUME NEW o \in Early(c) PROVE o \in list
    <3>1. /\ o \in Order /\ Home[o] = bound[c] /\ updated[o] # 0
          /\ updated[o] < NextWindow(c) /\ (since[c] = None \/ since[c] <= updated[o])
      BY DEF Early
    <3>2. updated[o] \in Nat /\ (since[c] = None \/ since[c] \in Nat)
      BY <3>1 DEF Types, Time
    <3>3. since[c] = None \/ updated[o] \in since[c]..start[c]
      BY <2>2, <3>1, <3>2
    <3> QED BY <3>1, <3>3 DEF Listed, Lists
  <2> QED BY <2>1, <2>3
<1>8. origin[c] # None => seen[c] \subseteq list
  <2>1. CASE expected[c] = None
    BY <1>4, <2>1 DEF RunOK, ListOK, Delivered
  <2>2. CASE expected[c] # None /\ origin[c] # None
    <3>1. PICK L \in SUBSET Order : ListOf(c, L)
      BY <1>4, <2>2 DEF RunOK, ListOK
    <3>2. Cardinality(L) = total
      BY <1>1, <2>2, <3>1 DEF ListOf, SameTotal
    <3>3. IsFiniteSet(L)
      BY FS_Subset DEF SyncConstants
    <3>4. L \subseteq list \/ list \subseteq L
      BY <3>1 DEF ListOf
    <3>5. L = list
      BY <1>5, <3>2, <3>3, <3>4, FS_Subset
    <3> QED BY <3>1, <3>5 DEF ListOf, Delivered
  <2> QED BY <2>1, <2>2
<1>9. origin[c] # None => ListOf(c, list)'
  <2> SUFFICES ASSUME origin[c] # None PROVE ListOf(c, list)'
    OBVIOUS
  <2>1. Delivered(c)' \subseteq list
    BY <1>1, <1>3, <1>8 DEF Delivered
  <2>2. Cardinality(list)' = expected'[c]
    BY <1>6, <1>7
  <2>3. Early(c)' \subseteq list' /\ list' = list
    BY <1>7
  <2> QED BY <2>1, <2>2, <2>3 DEF ListOf
<1>10. ListOK(c)'
  <2>1. list' = list /\ list \in SUBSET Order /\ origin'[c] = origin[c]
    BY <1>1, <1>5, <1>7
  <2> QED BY <1>6, <1>9, <2>1 DEF ListOK
<1>11. \A o \in DOMAIN page'[c] : page'[c][o] = updated'[o]
  BY <1>1, <1>3
<1>12. since'[c] # None => Settled(since[c])' /\ StoredBefore(origin[c], since[c])'
  BY <1>1, <1>4 DEF RunOK, StoredBefore, Settled
<1>13. \A o \in seen'[c] : updated'[o] < NextWindow(c)' => row'[o] = updated'[o]
  BY <1>1, <1>4 DEF RunOK, NextWindow
<1>14. start'[c] <= clock' /\ pc'[c] = "persist"
  BY <1>1, <1>4 DEF RunOK
<1> QED BY <1>10, <1>11, <1>12, <1>13, <1>14 DEF RunOK

LEMMA RunPersists ==
  ASSUME SyncConstants, Types, Types', Past, Later, Runs,
         NEW c \in Caller, PersistOrders(c)
  PROVE  RunOK(c)'
<1>1. /\ pc[c] = "persist" /\ pc'[c] = "check"
      /\ UNCHANGED <<updated, clock, bound, since, origin, start, expected, seen, page>>
  BY DEF PersistOrders, Goto, Types, locals
<1>2. RunOK(c)
  BY <1>1 DEF Runs, Reading
<1>3. since'[c] # None => Settled(since[c])' /\ StoredBefore(origin[c], since[c])'
  <2>1. CASE since[c] = None
    BY <1>1, <2>1
  <2>2. CASE since[c] # None
    <3>1. since[c] \in Nat /\ Settled(since[c]) /\ StoredBefore(origin[c], since[c])
      BY <1>2, <2>2 DEF RunOK, Types, Time
    <3>2. \A o \in Order : Home[o] = origin[c] /\ updated'[o] < since[c]
                             => row'[o] = updated'[o]
      BY <3>1, StoredStays
    <3> QED BY <1>1, <3>1, <3>2 DEF StoredBefore, Settled
  <2> QED BY <2>1, <2>2
<1>4. ListOK(c)'
  <2>1. Listed(c)' = Listed(c) /\ Early(c)' = Early(c) /\ Delivered(c)' = Delivered(c)
    BY <1>1 DEF Listed, Lists, Early, Delivered, NextWindow
  <2>2. CASE expected[c] = None \/ origin[c] = None
    BY <1>1, <1>2, <2>2 DEF RunOK, ListOK
  <2>3. CASE expected[c] # None /\ origin[c] # None
    <3>1. PICK L \in SUBSET Order : ListOf(c, L)
      BY <1>2, <2>3 DEF RunOK, ListOK
    <3>2. ListOf(c, L)'
      BY <1>1, <2>1, <3>1 DEF ListOf
    <3> QED BY <1>1, <2>3, <3>2 DEF ListOK
  <2> QED BY <2>2, <2>3
<1>5. ASSUME NEW o \in seen[c], updated[o] < NextWindow(c) PROVE row'[o] = updated[o]
  BY <1>1, <1>2, <1>5 DEF RunOK, Later, Types
<1>6. ASSUME NEW o \in DOMAIN page[c], updated[o] < NextWindow(c)
      PROVE  page[c][o] = updated[o] /\ row'[o] = updated[o]
  <2>1. o \in Order /\ page[c][o] = updated[o]
    BY <1>2, <1>6, PageFields DEF RunOK
  <2>2. row[o] <= updated[o]
    BY <2>1 DEF Past
  <2>3. CASE o \in seen[c]
    BY <1>5, <1>6, <2>1, <2>3
  <2>4. CASE o \notin seen[c]
    <3>1. page[c][o] >= row[o]
      BY <2>1, <2>2 DEF Types
    <3> QED BY <1>6, <2>1, <2>4, <3>1 DEF PersistOrders
  <2> QED BY <2>1, <2>3, <2>4
<1>7. start'[c] <= clock' /\ NextWindow(c)' = NextWindow(c)
  BY <1>1, <1>2 DEF RunOK, NextWindow
<1> QED BY <1>1, <1>3, <1>4, <1>5, <1>6, <1>7 DEF RunOK

LEMMA RunChecks ==
  ASSUME SyncConstants, Types, Types', Past, Runs,
         NEW c \in Caller, CheckPage(c), pc'[c] \in Reading
  PROVE  RunOK(c)'
<1>1. /\ pc[c] = "check" /\ pc'[c] \in {"fetch", "save"}
      /\ pc'[c] = "save" => Complete(c)
      /\ seen'[c] = Delivered(c)
      /\ page'[c] = Nothing
      /\ UNCHANGED <<row, updated, clock, bound, since, origin, start, expected>>
  BY DEF CheckPage, Goto, Reading, Types
<1>2. RunOK(c)
  BY <1>1 DEF Runs, Reading
<1>3. DOMAIN page'[c] = {} /\ Delivered(c)' = Delivered(c)
  BY <1>1, NothingIsAPage DEF Delivered
<1>4. since'[c] # None => Settled(since[c])' /\ StoredBefore(origin[c], since[c])'
  BY <1>1, <1>2 DEF RunOK, StoredBefore, Settled
<1>5. ListOK(c)'
  <2>1. Listed(c)' = Listed(c) /\ Early(c)' = Early(c)
    BY <1>1 DEF Listed, Lists, Early, NextWindow
  <2>2. expected'[c] # None /\ expected[c] # None /\ origin'[c] = origin[c]
    BY <1>1, <1>2 DEF RunOK, ListOK
  <2>3. CASE origin[c] = None
    BY <2>2, <2>3 DEF ListOK
  <2>4. CASE origin[c] # None
    <3>1. PICK L \in SUBSET Order : ListOf(c, L)
      BY <1>2, <2>2, <2>4 DEF RunOK, ListOK
    <3>2. ListOf(c, L)'
      BY <1>1, <1>3, <2>1, <3>1 DEF ListOf
    <3> QED BY <2>2, <3>2 DEF ListOK
  <2> QED BY <2>3, <2>4
<1>6. \A o \in seen'[c] : updated'[o] < NextWindow(c)' => row'[o] = updated'[o]
  BY <1>1, <1>2 DEF RunOK, Delivered, NextWindow
<1>7. pc'[c] = "save" => Complete(c)'
  BY <1>1, <1>3 DEF Complete
<1>8. start'[c] <= clock'
  BY <1>1, <1>2 DEF RunOK
<1> QED BY <1>1, <1>3, <1>4, <1>5, <1>6, <1>7, <1>8 DEF RunOK

\* A run that reached its end stored all orders of its shop that the next window leaves out.
LEMMA RunCovers ==
  ASSUME SyncConstants, Types, Past, NEW c \in Caller, pc[c] = "save", RunOK(c),
         origin[c] = bound[c]
  PROVE  StoredBefore(bound[c], NextWindow(c))
<1>1. PICK L \in SUBSET Order : ListOf(c, L) /\ expected[c] # None
  <2>1. origin[c] # None
    BY DEF Types, SyncConstants
  <2> QED BY <2>1 DEF RunOK, ListOK
<1>2. Delivered(c) = seen[c] /\ Cardinality(seen[c]) = expected[c]
  BY DEF RunOK, Delivered, Complete
<1>3. IsFiniteSet(L)
  BY FS_Subset DEF SyncConstants
<1>4. seen[c] = L
  <2>1. seen[c] \subseteq L /\ Cardinality(seen[c]) = Cardinality(L)
    BY <1>1, <1>2 DEF ListOf
  <2> QED BY <1>3, <2>1, FS_Subset
<1> SUFFICES ASSUME NEW o \in Order, Home[o] = bound[c], updated[o] < NextWindow(c)
             PROVE  row[o] = updated[o]
  BY DEF StoredBefore
<1>5. CASE updated[o] = 0
  BY <1>5 DEF Past, Types
<1>6. CASE since[c] # None /\ updated[o] < since[c]
  BY <1>6 DEF RunOK, StoredBefore
<1>7. CASE updated[o] # 0 /\ (since[c] = None \/ since[c] <= updated[o])
  <2>1. o \in seen[c]
    BY <1>1, <1>4, <1>7 DEF ListOf, Early
  <2> QED BY <2>1 DEF RunOK
<1>8. since[c] = None \/ since[c] \in Nat
  BY DEF Types, Time
<1> QED BY <1>5, <1>6, <1>7, <1>8 DEF Types

-----------------------------------------------------------------------------
(* The invariant.                                                          *)

LEMMA BindingsNext ==
  ASSUME SyncConstants, Types, Types', Past, Later, Bindings, Runs, [Next]_vars
  PROVE  Bindings'
<1>1. CoveredNext(binding) /\ \A d \in Caller : CoveredNext(found[d])
  BY CoveredStays DEF Bindings, Types
<1>2. \A p \in CotikShop : CoveredNext(FirstBinding(p))
  BY DEF CoveredNext, FirstBinding
<1>3. CoveredNext(FirstBinding(AnyShop))
  BY <1>2, AnyShopIsOne
<1>4. ASSUME NEW b, b.checkpoint = binding'.checkpoint, b.from = binding'.from, CoveredNext(b)
      PROVE  Covered(binding)'
  BY <1>4 DEF Covered, CoveredNext, StoredBefore
<1>5. Covered(binding)'
  <2>1. CASE UNCHANGED binding
    BY <1>1, <1>4, <2>1
  <2>2. ASSUME NEW c \in Caller, SaveCheckpoint(c), ~ UNCHANGED binding
        PROVE  Covered(binding)'
    <3>1. /\ pc[c] = "save" /\ RunOK(c)
          /\ binding'.checkpoint = start[c]
          /\ binding'.from = IF origin[c] = bound[c] THEN bound[c] ELSE None
          /\ UNCHANGED <<row, updated, clock>>
      <4>1. pc[c] = "save" /\ UNCHANGED <<row, updated, clock>>
            /\ binding' = [binding EXCEPT !.checkpoint = start[c],
                             !.from = IF origin[c] = bound[c] THEN bound[c] ELSE None]
        BY <2>2 DEF SaveCheckpoint, CheckpointOf
      <4>2. binding \in BindingOf
        BY DEF Types
      <4> QED BY <4>1, <4>2 DEF Runs, Reading, BindingOf
    <3>2. CASE origin[c] = bound[c]
      <4>1. StoredBefore(bound[c], Since(start[c]))
        BY <3>1, <3>2, RunCovers DEF NextWindow
      <4> QED BY <3>1, <3>2, <4>1 DEF Covered, StoredBefore, RunOK
    <3>3. CASE origin[c] # bound[c]
      BY <3>1, <3>3 DEF Covered, StoredBefore, RunOK, SyncConstants
    <3> QED BY <3>2, <3>3
  <2>3. ASSUME NEW c \in Caller, WriteBack(c) PROVE Covered(binding)'
    <3>1. PICK p \in CotikShop : binding' = [found[c] EXCEPT !.enabled = TRUE, !.shop = p]
      BY <2>3 DEF WriteBack
    <3>2. binding'.checkpoint = found[c].checkpoint /\ binding'.from = found[c].from
      BY <3>1 DEF Types, BindingOf
    <3> QED BY <1>1, <1>4, <3>2
  <2>4. ASSUME NEW c \in Caller, Relist(c) PROVE Covered(binding)'
    <3>1. PICK p \in CotikShop :
            binding' = [found[c] EXCEPT !.shop = p] \/ binding' = FirstBinding(p)
      BY <2>4 DEF Relist
    <3>2. CASE binding' = [found[c] EXCEPT !.shop = p]
      <4>1. binding'.checkpoint = found[c].checkpoint /\ binding'.from = found[c].from
        BY <3>2 DEF Types, BindingOf
      <4> QED BY <1>1, <1>4, <4>1
    <3> QED BY <1>2, <1>4, <3>1, <3>2
  <2>5. CASE \E p \in CotikShop : Bind(p)
    BY <1>2, <1>4, <2>5 DEF Bind
  <2>6. CASE Unbind
    <3>1. binding'.checkpoint = binding.checkpoint /\ binding'.from = binding.from
      BY <2>6 DEF Unbind, Types, BindingOf
    <3> QED BY <1>1, <1>4, <3>1
  <2>7. \/ UNCHANGED binding \/ (\E p \in CotikShop : Bind(p)) \/ Unbind
        \/ \E c \in Caller : SaveCheckpoint(c) \/ WriteBack(c) \/ Relist(c)
    BY DEF Next, Step, Call, TryLock, FindEnabledBinding, FetchPage, PersistOrders, CheckPage,
           Unlock, Throws, Crash, LoseLockSession, Tick, OrderUpdated, vars
  <2> QED BY <2>1, <2>2, <2>3, <2>4, <2>5, <2>6, <2>7
<1>6. ASSUME NEW d \in Caller PROVE Covered(found[d])'
  <2>1. ASSUME NEW b, found'[d] = b, CoveredNext(b) PROVE Covered(found[d])'
    BY <2>1 DEF Covered, CoveredNext, StoredBefore
  <2>2. ASSUME NEW c \in Caller, Call(c) PROVE found'[d] = found[d] \/ found'[d] = binding
    BY <2>2 DEF Call, Types
  <2>3. ASSUME NEW c \in Caller, Unlock(c) \/ WriteBack(c) \/ Relist(c) \/ Crash(c)
        PROVE  found'[d] = found[d] \/ found'[d] = FirstBinding(AnyShop)
    BY <2>3 DEF Unlock, WriteBack, Relist, Crash, Forget, Types
  <2>4. UNCHANGED found
        \/ \E c \in Caller : Call(c) \/ Unlock(c) \/ WriteBack(c) \/ Relist(c) \/ Crash(c)
    BY DEF Next, Step, TryLock, FindEnabledBinding, FetchPage, PersistOrders, CheckPage,
           SaveCheckpoint, Throws, LoseLockSession, Bind, Unbind, Tick, OrderUpdated,
           vars, locals
  <2>5. found'[d] = found[d] \/ found'[d] = binding \/ found'[d] = FirstBinding(AnyShop)
    BY <2>2, <2>3, <2>4
  <2> QED BY <1>1, <1>3, <2>1, <2>5
<1> QED BY <1>5, <1>6 DEF Bindings

LEMMA RunsNext ==
  ASSUME SyncConstants, Types, Types', Past, Later, Bindings, Runs, [Next]_vars
  PROVE  Runs'
<1> SUFFICES ASSUME NEW d \in Caller
             PROVE  Clean(d)' /\ (pc'[d] \in Reading => RunOK(d)')
  BY DEF Runs
<1>1. CASE SameRun(d)
  <2>1. Clean(d)'
    BY <1>1 DEF SameRun, Runs, Clean, Delivered
  <2> QED BY <1>1, <2>1, RunStays DEF SameRun, Runs
<1>2. ASSUME pc'[d] \notin Reading, expected'[d] = expected[d],
             seen'[d] = seen[d], page'[d] = page[d],
             pc[d] \in Reading \cup {"unlock"} => pc'[d] = "unlock"
      PROVE  Clean(d)' /\ (pc'[d] \in Reading => RunOK(d)')
  BY <1>2 DEF Runs, Clean, Delivered
<1>3. CASE Call(d) \/ TryLock(d)
  <2>1. pc[d] \in {"idle", "lock"} /\ pc'[d] \in {"lock", "relist", "binding", "unlock"}
    BY <1>3 DEF Call, TryLock, Goto, Types
  <2>2. expected'[d] = expected[d] /\ seen'[d] = seen[d] /\ page'[d] = page[d]
    BY <1>3 DEF Call, TryLock, locals
  <2> QED BY <1>2, <2>1, <2>2 DEF Reading
<1>4. CASE FindEnabledBinding(d)
  <2>1. pc'[d] \in {"fetch", "unlock"}
    BY <1>4 DEF FindEnabledBinding, Goto, Types
  <2>2. Clean(d)'
    BY <2>1 DEF Clean, Reading
  <2> QED BY <1>4, <2>2, RunStarts
<1>5. CASE FetchPage(d)
  <2>1. pc'[d] \in {"persist", "unlock"}
    BY <1>5 DEF FetchPage, Goto, Types
  <2>2. Clean(d)'
    BY <2>1 DEF Clean, Reading
  <2> QED BY <1>5, <2>2, RunFetches
<1>6. CASE PersistOrders(d)
  <2>1. Clean(d)'
    BY <1>6 DEF PersistOrders, Goto, Types, Clean, Reading
  <2> QED BY <1>6, <2>1, RunPersists
<1>7. CASE CheckPage(d)
  <2>1. pc'[d] \in {"fetch", "save", "unlock"}
    BY <1>7 DEF CheckPage, Goto, Types
  <2>2. Clean(d)'
    BY <2>1 DEF Clean, Reading
  <2> QED BY <1>7, <2>2, RunChecks
<1>8. CASE SaveCheckpoint(d) \/ Throws(d)
  <2>1. pc'[d] = "unlock"
    BY <1>8 DEF SaveCheckpoint, Throws, Goto, Types
  <2> QED BY <2>1 DEF Clean, Reading
<1>9. CASE Unlock(d) \/ WriteBack(d) \/ Relist(d) \/ Crash(d)
  <2>1. pc'[d] \in {"idle", "writeBack"}
    BY <1>9 DEF Unlock, WriteBack, Relist, Crash, Goto, Types
  <2>2. Reset(d)
    BY <1>9 DEF Unlock, WriteBack, Relist, Crash
  <2>3. expected'[d] = None /\ Delivered(d)' = {}
    BY <2>2, NothingIsAPage DEF Reset, Types, Delivered
  <2> QED BY <2>1, <2>3 DEF Clean, Reading
<1>10. ASSUME NEW c \in Caller, c # d, Step(c) \/ Throws(c) \/ Crash(c)
       PROVE  SameRun(d)
  <2> SUFFICES /\ pc'[d] = pc[d]
               /\ bound'[d] = bound[d] /\ since'[d] = since[d] /\ start'[d] = start[d]
               /\ expected'[d] = expected[d] /\ seen'[d] = seen[d] /\ page'[d] = page[d]
               /\ origin'[d] = origin[d] /\ updated' = updated
    BY DEF SameRun, Listed, Lists
  <2>1. CASE Call(c) \/ TryLock(c) \/ FindEnabledBinding(c)
    BY <1>10, <2>1 DEF Goto, Types, Call, TryLock, FindEnabledBinding, locals
  <2>2. CASE FetchPage(c)
    BY <1>10, <2>2 DEF Goto, Types, FetchPage
  <2>3. CASE PersistOrders(c) \/ CheckPage(c) \/ SaveCheckpoint(c) \/ Throws(c)
    BY <1>10, <2>3 DEF Goto, Types, PersistOrders, CheckPage, SaveCheckpoint,
                       Throws, locals
  <2>4. CASE Unlock(c) \/ WriteBack(c) \/ Relist(c) \/ Crash(c)
    <3>1. Reset(c) /\ pc'[d] = pc[d] /\ updated' = updated
      BY <1>10, <2>4 DEF Unlock, WriteBack, Relist, Crash, Goto, Types
    <3> QED BY <1>10, <3>1 DEF Types, Reset
  <2> QED BY <1>10, <2>1, <2>2, <2>3, <2>4 DEF Step
<1>11. ASSUME \/ \E c \in Caller : LoseLockSession(c)
              \/ \E p \in CotikShop : Bind(p)
              \/ Unbind
              \/ Tick
              \/ UNCHANGED vars
       PROVE  SameRun(d)
  BY <1>11 DEF SameRun, Listed, Lists, LoseLockSession, Bind, Unbind, Tick, vars, locals
<1>12. ASSUME NEW o \in Order, OrderUpdated(o) PROVE SameRun(d)
  <2>1. PICK date :
          /\ updated' = [updated EXCEPT ![o] = date]
          /\ origin' = [c \in Caller |-> IF Enters(c, o, date) THEN None ELSE origin[c]]
    BY <1>12 DEF OrderUpdated
  <2>2. /\ pc' = pc /\ bound' = bound /\ since' = since /\ start' = start
        /\ expected' = expected /\ seen' = seen /\ page' = page
    BY <1>12 DEF OrderUpdated
  <2>3. CASE Enters(d, o, date)
    BY <2>1, <2>2, <2>3 DEF SameRun
  <2>4. CASE ~ Enters(d, o, date)
    <3>1. origin'[d] = origin[d]
      BY <2>1, <2>4
    <3>2. ASSUME expected[d] # None, since[d] # None, NEW p \in Listed(d)' PROVE p \in Listed(d)
      <4>1. p \in Order /\ Lists(d, p, updated'[p])
        BY <2>2 DEF Listed, Lists
      <4>2. CASE p = o
        BY <2>1, <2>4, <3>2, <4>1, <4>2 DEF Enters, Listed, Types
      <4>3. CASE p # o
        BY <2>1, <4>1, <4>3 DEF Listed, Types
      <4> QED BY <4>2, <4>3
    <3> QED BY <2>2, <3>1, <3>2 DEF SameRun
  <2> QED BY <2>3, <2>4
<1> QED BY <1>1, <1>3, <1>4, <1>5, <1>6, <1>7, <1>8, <1>9, <1>10, <1>11, <1>12 DEF Next, Step

LEMMA IInvInit == ASSUME SyncConstants, Init PROVE IInv
<1>1. Types
  BY TypesInit
<1>2. \A c \in Caller : DOMAIN page[c] = {}
  BY NothingIsAPage DEF Init
<1>3. Past
  BY <1>2 DEF Init, Past
<1>4. Bindings
  BY DEF Init, Bindings, Covered, FirstBinding
<1>5. Runs
  BY <1>2 DEF Init, Runs, Clean, Delivered, Reading
<1> QED BY <1>1, <1>3, <1>4, <1>5 DEF IInv

LEMMA IInvNext == ASSUME SyncConstants, IInv, [Next]_vars PROVE IInv'
<1>1. Types'
  BY TypesNext DEF IInv
<1>2. Later
  BY StepIsLater DEF IInv
<1>3. Past'
  BY <1>1, <1>2, PastNext DEF IInv
<1>4. Bindings'
  BY <1>1, <1>2, BindingsNext DEF IInv
<1>5. Runs'
  BY <1>1, <1>2, RunsNext DEF IInv
<1> QED BY <1>1, <1>3, <1>4, <1>5 DEF IInv

\* Every order of the bound COTIK shop dated before the next window is stored as COTIK
\* has it, so that the window leaves nothing out, with COTIK's clock ahead or behind by as
\* much as the overlap, and for every checkpoint whose runs no order joined between their
\* pages: ingestCotikOrders commits the start of the run once as many distinct orders were
\* stored as the list had, and neither a failed run, a crash, a lost lock session nor a
\* caller that writes an older binding back undoes it.
THEOREM CheckpointIsCovered == SyncConstants => (Spec => []CheckpointCovers)
<1> SUFFICES ASSUME SyncConstants PROVE Spec => []CheckpointCovers
  OBVIOUS
<1>1. Init => IInv
  BY IInvInit
<1>2. IInv /\ [Next]_vars => IInv'
  BY IInvNext
<1>3. IInv => CheckpointCovers
  BY DEF IInv, Bindings, Covered, StoredBefore, CheckpointCovers
<1> QED BY <1>1, <1>2, <1>3, PTL DEF Spec
=============================================================================
