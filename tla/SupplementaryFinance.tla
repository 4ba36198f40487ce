------------------------ MODULE SupplementaryFinance ------------------------
(***************************************************************************)
(* The statements and payouts COTIK lists of a shop for the last three     *)
(* days (runCotikSupplementaryFinanceSync, ingestCotikSupplementaryFinance)*)
(* are read page by page under the lock of the shop, statements first, and *)
(* every page is stored at once.  COTIK answers with any page of its       *)
(* present list, which changes between the pages.                          *)
(***************************************************************************)
EXTENDS Integers, FiniteSets

CONSTANTS
  Caller,         \* processes: routes of the dashboard, operations of its server
  Statement, Payment,
  PageSize,
  MaxRuns,        \* bound on runs that read something
  MaxChanges,     \* bound on changes at COTIK
  MaxFaults,      \* bound on crashes, lost lock sessions and errors
  NoCaller, None

VARIABLES
  able,           \* the COTIK binding is enabled and has the capability
  listed,         \* COTIK: the records in the window
  content,        \* COTIK: of each record, a version and the hash of it
  changes,        \* how often the list, and a record, changed
  stored,         \* the rows, None where there is none
  runs,           \* runs begun; also the clock, two never begin at once
  lock,           \* the session lock of the shop
  pc, kind, end, expected, seen, page,
  result,         \* of the last call: None if it threw
  asOf, apart,    \* history: list and contents at the start, no other run since
  faults

source == <<listed, content, changes>>
locals == <<kind, end, expected, seen, page, result, asOf, apart>>
vars == <<able, source, stored, runs, lock, pc, locals, faults>>

Record == Statement \cup Payment
Of(k) == IF k = "statements" THEN Statement ELSE Payment
Nothing == [r \in {} |-> 0]

Init ==
  /\ able \in BOOLEAN
  /\ listed \in SUBSET Record
  /\ content = [r \in Record |-> [version |-> 0, hash |-> 0]]
  /\ changes = [list |-> 0, record |-> 0]
  /\ stored = [r \in Record |-> None]
  /\ runs = 0
  /\ lock = NoCaller
  /\ pc = [c \in Caller |-> "idle"]
  /\ kind = [c \in Caller |-> "statements"]
  /\ end = [c \in Caller |-> 0]
  /\ expected = [c \in Caller |-> None]
  /\ seen = [c \in Caller |-> {}]
  /\ page = [c \in Caller |-> Nothing]
  /\ result = [c \in Caller |-> None]
  /\ asOf = [c \in Caller |-> [list |-> 0, content |-> content]]
  /\ apart = [c \in Caller |-> FALSE]
  /\ faults = 0

Goto(c, label) == pc' = [pc EXCEPT ![c] = label]
Working(c) == pc[c] \in {"fetch", "persist"}

-----------------------------------------------------------------------------

\* withShopAdvisoryLock: a busy lock skips the call.
Call(c) ==
  /\ pc[c] = "idle"
  /\ IF lock = NoCaller
     THEN lock' = c /\ Goto(c, "binding") /\ result' = [result EXCEPT ![c] = None]
     ELSE result' = [result EXCEPT ![c] = "SKIPPED"] /\ UNCHANGED <<lock, pc>>
  /\ UNCHANGED <<able, source, stored, runs, kind, end, expected, seen, page, asOf,
                 apart, faults>>

Released(c) == lock' = IF lock = c THEN NoCaller ELSE lock

\* The call ends, with a result or by throwing.
EndCall(c, answer) ==
  /\ result' = [result EXCEPT ![c] = answer]
  /\ Goto(c, "idle")
  /\ Released(c)
  /\ kind' = [kind EXCEPT ![c] = "statements"]
  /\ expected' = [expected EXCEPT ![c] = None]
  /\ seen' = [seen EXCEPT ![c] = {}]
  /\ page' = [page EXCEPT ![c] = Nothing]

\* The window ends when the binding was found able.
FindEnabledBinding(c) ==
  /\ pc[c] = "binding"
  /\ IF able
     THEN /\ runs < MaxRuns
          /\ runs' = runs + 1
          /\ end' = [end EXCEPT ![c] = runs + 1]
          /\ asOf' = [asOf EXCEPT ![c] = [list |-> changes.list, content |-> content]]
          /\ apart' = [d \in Caller |-> IF d = c THEN ~ \E x \in Caller : Working(x)
                                                 ELSE apart[d] /\ ~ Working(d)]
          /\ Goto(c, "fetch")
          /\ UNCHANGED <<lock, kind, expected, seen, page, result>>
     ELSE EndCall(c, "SKIPPED") /\ UNCHANGED <<runs, end, asOf, apart>>
  /\ UNCHANGED <<able, source, stored, faults>>

\* A total other than the first page's ends the run.
FetchPage(c) ==
  /\ pc[c] = "fetch"
  /\ LET list == listed \cap Of(kind[c])
         total == Cardinality(list)
     IN IF expected[c] \notin {None, total}
        THEN EndCall(c, None)
        ELSE /\ \E S \in SUBSET list :
                  /\ Cardinality(S) <= PageSize
                  /\ page' = [page EXCEPT ![c] = [r \in S |-> content[r]]]
             /\ expected' = [expected EXCEPT ![c] = total]
             /\ Goto(c, "persist")
             /\ UNCHANGED <<lock, kind, seen, result>>
  /\ UNCHANGED <<able, source, stored, runs, end, asOf, apart, faults>>

Unique(c) == DOMAIN page[c] \ seen[c]
Persisted(c) == Cardinality(seen[c] \cup DOMAIN page[c])

\* A row is overwritten by a later observation, or by one of another hash.
Overwrites(old, new) ==
  old = None \/ old.at < new.at \/ old.hash # new.hash

Upserted(c) ==
  [r \in Record |->
     IF r \in Unique(c)
     THEN LET new == [version |-> page[c][r].version, hash |-> page[c][r].hash,
                      at |-> end[c]]
          IN  IF Overwrites(stored[r], new) THEN new ELSE stored[r]
     ELSE stored[r]]

NoProgress(c) == Unique(c) = {} /\ Persisted(c) < expected[c]
LastPage(c) == Cardinality(DOMAIN page[c]) < PageSize \/ Persisted(c) >= expected[c]

AllDelivered(c) == Persisted(c) = expected[c]

\* One transaction of the unseen records of the page; then on to the next page,
\* from statements to payments, to the end, or to an error.
PersistPage(c) ==
  /\ pc[c] = "persist"
  /\ stored' = Upserted(c)
  /\ IF NoProgress(c) \/ (LastPage(c) /\ ~ AllDelivered(c)) THEN EndCall(c, None)
     ELSE IF LastPage(c) /\ kind[c] = "payments" THEN EndCall(c, "SUCCEEDED")
     ELSE /\ Goto(c, "fetch")
          /\ page' = [page EXCEPT ![c] = Nothing]
          /\ IF LastPage(c)
             THEN /\ kind' = [kind EXCEPT ![c] = "payments"]
                  /\ expected' = [expected EXCEPT ![c] = None]
                  /\ seen' = [seen EXCEPT ![c] = {}]
             ELSE /\ seen' = [seen EXCEPT ![c] = @ \cup DOMAIN page[c]]
                  /\ UNCHANGED <<kind, expected>>
          /\ UNCHANGED <<lock, result>>
  /\ UNCHANGED <<able, source, runs, end, asOf, apart, faults>>

\* A request or statement fails, a page is too long, a record is of another shop.
Throws(c) ==
  /\ faults < MaxFaults
  /\ faults' = faults + 1
  /\ pc[c] # "idle"
  /\ EndCall(c, None)
  /\ UNCHANGED <<able, source, stored, runs, end, asOf, apart>>

\* The reserved connection dies with its lock, the run goes on.
LoseLockSession(c) ==
  /\ faults < MaxFaults
  /\ faults' = faults + 1
  /\ lock = c
  /\ lock' = NoCaller
  /\ UNCHANGED <<able, source, stored, runs, pc, locals>>

-----------------------------------------------------------------------------
(* What happens beside it.                                                  *)

BindingChanges ==
  /\ able' = ~able
  /\ UNCHANGED <<source, stored, runs, lock, pc, locals, faults>>

Change(what) ==
  /\ changes.list + changes.record < MaxChanges
  /\ changes' = [changes EXCEPT ![what] = @ + 1]
  /\ UNCHANGED <<able, stored, runs, lock, pc, locals, faults>>

ListChanges ==
  /\ \E L \in SUBSET Record : L # listed /\ listed' = L
  /\ Change("list")
  /\ UNCHANGED content

\* The hash is of the ids and the status: amounts change without it.
RecordChanges(r) ==
  /\ \E h \in {content[r].hash, content[r].hash + 1} :
       content' = [content EXCEPT ![r] = [version |-> @.version + 1, hash |-> h]]
  /\ Change("record")
  /\ UNCHANGED listed

Next ==
  \/ \E c \in Caller :
       \/ Call(c) \/ FindEnabledBinding(c) \/ FetchPage(c) \/ PersistPage(c)
       \/ Throws(c) \/ LoseLockSession(c)
  \/ BindingChanges \/ ListChanges
  \/ \E r \in Record : RecordChanges(r)

Spec == Init /\ [][Next]_vars

-----------------------------------------------------------------------------
\* A run that SUCCEEDED, apart from any other, stored all there is: unless the list
\* changed meanwhile, every statement and payout listed is stored as it was when the
\* run began or later, whatever pages COTIK answered with (the totals and duplicates
\* of paginate, the condition of the upserts).
SucceededStoredAll ==
  \A c \in Caller :
    (result[c] = "SUCCEEDED" /\ apart[c] /\ asOf[c].list = changes.list)
      => \A r \in listed :
           stored[r] # None /\ stored[r].version >= asOf[c].content[r].version
=============================================================================
