-------------------------- MODULE Listings_proofs --------------------------
(***************************************************************************)
(* What is read page by page and then called complete is all there is, for *)
(* every number of records, pages, callers and faults:                     *)
(*   - a run of SupplementaryFinance that SUCCEEDED apart from any other   *)
(*     stored every record of a list that did not change;                  *)
(*   - the orders SellerOrders yields are the whole of such a list;        *)
(*   - the rows of CotikSources were observed, and a sync left alone       *)
(*     projects all it read;                                               *)
(*   - no mail GmailSync lists is skipped.                                 *)
(* The first two argue from numbers: what was read is a part of a finite   *)
(* list and has as many members. The first also has to show that what it   *)
(* stored is not older than its beginning, although rows are overwritten   *)
(* by later runs and, after a lost lock, by runs beside it.                *)
(*                                                                         *)
(* Each part is proved alone, about its own specification.  Constants and  *)
(* variables of the same name are declared once.                           *)
(***************************************************************************)
EXTENDS SupplementaryFinance, FiniteSetTheorems, WellFoundedInduction, NaturalsInduction, TLAPS

Version == [version : Nat, hash : Nat]
Row == [version : Nat, hash : Nat, at : Nat]
PageOf == UNION {[S -> Version] : S \in SUBSET Record}

\* A shop has finitely many records, and no row can be taken for none.
FinanceConstants == IsFiniteSet(Record) /\ None \notin Row \cup {"SUCCEEDED"}

Types ==
  /\ listed \subseteq Record
  /\ content \in [Record -> Version]
  /\ changes \in [list : Nat, record : Nat]
  /\ stored \in [Record -> Row \cup {None}]
  /\ runs \in Nat
  /\ pc \in [Caller -> {"idle", "binding", "fetch", "persist"}]
  /\ kind \in [Caller -> {"statements", "payments"}]
  /\ end \in [Caller -> Nat]
  /\ expected \in [Caller -> Nat \cup {None}]
  /\ seen \in [Caller -> SUBSET Record]
  /\ page \in [Caller -> PageOf]
  /\ result \in [Caller -> {None, "SKIPPED", "SUCCEEDED"}]
  /\ asOf \in [Caller -> [list : Nat, content : [Record -> Version]]]
  /\ apart \in [Caller -> BOOLEAN]

\* What a caller knows of no run of its own.
Clean ==
  \A c \in Caller :
    /\ ~ Working(c) => seen[c] = {} /\ kind[c] = "statements" /\ expected[c] = None
    /\ pc[c] # "persist" => DOMAIN page[c] = {}
    /\ pc[c] # "idle" => result[c] # "SUCCEEDED"

\* Nothing is later than the present.
Past ==
  /\ \A c \in Caller :
       /\ end[c] <= runs
       /\ asOf[c].list <= changes.list
       /\ \A r \in Record : asOf[c].content[r].version <= content[r].version
  /\ \A r \in Record : stored[r] # None => stored[r].at <= runs

\* What a run that began with that of c, or later, read or stored, is as it was
\* when the run of c began, or later.
Fresh ==
  \A c \in Caller :
    /\ \A r \in Record : stored[r] # None /\ stored[r].at >= end[c]
         => stored[r].version >= asOf[c].content[r].version
    /\ \A d \in Caller : end[d] >= end[c] =>
         \A r \in DOMAIN page[d] : page[d][r].version >= asOf[c].content[r].version

\* A run apart from any other has ended before another works.
Alone ==
  \A c, d \in Caller :
    apart[c] /\ d # c /\ Working(d) => ~ Working(c) /\ end[d] > end[c]

Same(c) == asOf[c].list = changes.list

\* While the list stays, a run reads no more than the list of its kind.
Reading ==
  \A c \in Caller : Working(c) /\ Same(c) =>
    LET list == listed \cap Of(kind[c]) IN
    /\ seen[c] \cup DOMAIN page[c] \subseteq list
    /\ expected[c] \in {None, Cardinality(list)}
    /\ pc[c] = "persist" => expected[c] = Cardinality(list)

\* The row of r was written by the run of c, or by one that began later.
Held(c, r) == stored[r] # None /\ stored[r].at >= end[c]

Written ==
  \A c \in Caller : apart[c] /\ Same(c) =>
    /\ Working(c) => \A r \in seen[c] : Held(c, r)
    /\ Working(c) /\ kind[c] = "payments" => \A r \in listed \cap Statement : Held(c, r)
    /\ result[c] = "SUCCEEDED" => \A r \in listed : Held(c, r)

IInv == Types /\ Clean /\ Past /\ Fresh /\ Alone /\ Reading /\ Written

-----------------------------------------------------------------------------
(* Types.                                                                  *)

LEMMA NothingIsAPage == Nothing \in PageOf /\ DOMAIN Nothing = {}
<1>1. Nothing \in [{} -> Version]
  BY DEF Nothing
<1> QED BY <1>1 DEF PageOf, Nothing

LEMMA PageFields ==
  ASSUME Types, NEW c \in Caller
  PROVE  /\ DOMAIN page[c] \subseteq Record
         /\ \A r \in DOMAIN page[c] : page[c][r] \in Version
<1>1. page[c] \in PageOf
  BY DEF Types
<1>2. PICK S \in SUBSET Record : page[c] \in [S -> Version]
  BY <1>1 DEF PageOf
<1> QED BY <1>2

\* What a call that ends leaves of its locals.
LEMMA CallEnds ==
  ASSUME Types, NEW c \in Caller, NEW answer \in {None, "SKIPPED", "SUCCEEDED"},
         EndCall(c, answer)
  PROVE  /\ pc' = [pc EXCEPT ![c] = "idle"]
         /\ pc' \in [Caller -> {"idle", "binding", "fetch", "persist"}]
         /\ kind' \in [Caller -> {"statements", "payments"}]
         /\ expected' \in [Caller -> Nat \cup {None}]
         /\ seen' \in [Caller -> SUBSET Record]
         /\ page' \in [Caller -> PageOf]
         /\ result' \in [Caller -> {None, "SKIPPED", "SUCCEEDED"}]
<1>1. page' = [page EXCEPT ![c] = Nothing]
  BY DEF EndCall
<1>2. page' \in [Caller -> PageOf]
  BY <1>1, NothingIsAPage DEF Types
<1> QED BY <1>2 DEF EndCall, Goto, Types

LEMMA ListCounts ==
  ASSUME FinanceConstants, Types, NEW c \in Caller
  PROVE  /\ IsFiniteSet(listed \cap Of(kind[c]))
         /\ Cardinality(listed \cap Of(kind[c])) \in Nat
<1>1. listed \cap Of(kind[c]) \subseteq Record /\ IsFiniteSet(Record)
  BY DEF FinanceConstants, Types
<1>2. IsFiniteSet(listed \cap Of(kind[c]))
  BY <1>1, FS_Subset
<1> QED BY <1>2, FS_CardinalityType

LEMMA PageRead ==
  ASSUME Types, NEW c \in Caller, NEW S \in SUBSET (listed \cap Of(kind[c]))
  PROVE  [r \in S |-> content[r]] \in PageOf
<1>1. S \in SUBSET Record
  BY DEF Types
<1>2. [r \in S |-> content[r]] \in [S -> Version]
  BY <1>1 DEF Types
<1> QED BY <1>1, <1>2 DEF PageOf

\* The row after the batch, of a record in the page and of any other.
LEMMA RowAfter ==
  ASSUME Types, NEW c \in Caller, NEW r \in Record, stored' = Upserted(c)
  PROVE  /\ stored' \in [Record -> Row \cup {None}]
         /\ \/ stored'[r] = stored[r]
            \/ /\ r \in DOMAIN page[c]
               /\ stored'[r] = [version |-> page[c][r].version, hash |-> page[c][r].hash,
                                at |-> end[c]]
         /\ r \in Unique(c) => \/ /\ stored'[r] # None => stored'[r].at = end[c]
                                  /\ stored'[r] \in Row
                               \/ /\ stored'[r] = stored[r] /\ stored[r] # None
                                  /\ stored[r].at >= end[c]
<1> DEFINE new(s) == [version |-> page[c][s].version, hash |-> page[c][s].hash,
                      at |-> end[c]]
           after(s) == IF s \in Unique(c)
                       THEN IF Overwrites(stored[s], new(s)) THEN new(s) ELSE stored[s]
                       ELSE stored[s]
<1>1. stored' = [s \in Record |-> after(s)]
  BY DEF Upserted
<1>2. ASSUME NEW s \in DOMAIN page[c] PROVE s \in Record /\ new(s) \in Row
  BY <1>2, PageFields DEF Types, Version, Row
<1>3. \A s \in Record : after(s) \in Row \cup {None}
  <2> SUFFICES ASSUME NEW s \in Record PROVE after(s) \in Row \cup {None}
    OBVIOUS
  <2>1. stored[s] \in Row \cup {None}
    BY DEF Types
  <2>2. s \in Unique(c) => new(s) \in Row
    BY <1>2 DEF Unique
  <2> HIDE DEF new
  <2> QED BY <2>1, <2>2
<1>4. stored' \in [Record -> Row \cup {None}]
  <2> HIDE DEF after
  <2> QED BY <1>1, <1>3
<1>5. stored'[r] = after(r)
  BY <1>1
<1>6. stored[r] \in Row \cup {None} /\ end[c] \in Nat
  BY DEF Types
<1>7. CASE r \notin Unique(c)
  BY <1>4, <1>5, <1>7
<1>8. CASE r \in Unique(c) /\ Overwrites(stored[r], new(r))
  <2>1. stored'[r] = new(r) /\ r \in DOMAIN page[c]
    BY <1>5, <1>8 DEF Unique
  <2> QED BY <1>2, <1>4, <2>1
<1>9. CASE r \in Unique(c) /\ ~ Overwrites(stored[r], new(r))
  <2>1. stored'[r] = stored[r]
    BY <1>5, <1>9
  <2>2. stored[r] # None /\ ~ (stored[r].at < end[c])
    BY <1>9 DEF Overwrites
  <2>3. stored[r].at \in Nat
    BY <1>6, <2>2 DEF Row
  <2> QED BY <1>4, <1>6, <2>1, <2>2, <2>3
<1> QED BY <1>7, <1>8, <1>9

LEMMA TypesStep ==
  ASSUME FinanceConstants, Types, [Next]_vars
  PROVE  Types'
<1> USE DEF Types
<1>1. ASSUME NEW c \in Caller, Call(c) PROVE Types'
  BY <1>1 DEF Call, Goto, source
<1>2. ASSUME NEW c \in Caller, FindEnabledBinding(c) PROVE Types'
  <2>1. UNCHANGED <<able, listed, content, changes, stored, faults>>
    BY <1>2 DEF FindEnabledBinding, source
  <2>2. CASE able
    <3>1. /\ runs' = runs + 1 /\ end' = [end EXCEPT ![c] = runs + 1]
          /\ asOf' = [asOf EXCEPT ![c] = [list |-> changes.list, content |-> content]]
          /\ pc' = [pc EXCEPT ![c] = "fetch"]
          /\ UNCHANGED <<kind, expected, seen, page, result>>
      BY <1>2, <2>2 DEF FindEnabledBinding, Goto
    <3>2. apart' = [d \in Caller |-> IF d = c THEN ~ \E x \in Caller : Working(x)
                                               ELSE apart[d] /\ ~ Working(d)]
      BY <1>2, <2>2 DEF FindEnabledBinding
    <3>3. apart' \in [Caller -> BOOLEAN]
      BY <3>2
    <3>4. asOf' \in [Caller -> [list : Nat, content : [Record -> Version]]]
      BY <3>1
    <3>5. runs' \in Nat /\ end' \in [Caller -> Nat]
      BY <3>1
    <3>6. pc' \in [Caller -> {"idle", "binding", "fetch", "persist"}]
      BY <3>1
    <3> QED BY <2>1, <3>1, <3>3, <3>4, <3>5, <3>6
  <2>3. CASE ~able
    <3>1. EndCall(c, "SKIPPED") /\ UNCHANGED <<runs, end, asOf, apart>>
      BY <1>2, <2>3 DEF FindEnabledBinding
    <3> QED BY <2>1, <3>1, CallEnds
  <2> QED BY <2>2, <2>3
<1>3. ASSUME NEW c \in Caller, FetchPage(c) PROVE Types'
  <2> DEFINE list == listed \cap Of(kind[c])
  <2>1. UNCHANGED <<able, listed, content, changes, stored, runs, end, asOf, apart, faults>>
    BY <1>3 DEF FetchPage, source
  <2>2. CASE EndCall(c, None)
    BY <2>1, <2>2, CallEnds
  <2>3. CASE ~ EndCall(c, None)
    <3>1. PICK S \in SUBSET list : page' = [page EXCEPT ![c] = [r \in S |-> content[r]]]
      BY <1>3, <2>3 DEF FetchPage
    <3>2. /\ expected' = [expected EXCEPT ![c] = Cardinality(list)]
          /\ pc' = [pc EXCEPT ![c] = "persist"] /\ UNCHANGED <<kind, seen, result>>
      BY <1>3, <2>3 DEF FetchPage, Goto
    <3>3. page' \in [Caller -> PageOf]
      BY <3>1, PageRead
    <3>4. expected' \in [Caller -> Nat \cup {None}]
      BY <3>2, ListCounts
    <3> QED BY <2>1, <3>2, <3>3, <3>4
  <2> QED BY <2>2, <2>3
<1>4. ASSUME NEW c \in Caller, PersistPage(c) PROVE Types'
  <2>1. UNCHANGED <<able, listed, content, changes, runs, end, asOf, apart, faults>>
        /\ stored' = Upserted(c)
    BY <1>4 DEF PersistPage, source
  <2>2. stored' \in [Record -> Row \cup {None}]
    <3>1. CASE Record = {}
      BY <2>1, <3>1 DEF Upserted
    <3>2. CASE \E r : r \in Record
      BY <2>1, <3>2, RowAfter
    <3> QED BY <3>1, <3>2
  <2>3. CASE EndCall(c, None) \/ EndCall(c, "SUCCEEDED")
    BY <2>1, <2>2, <2>3, CallEnds
  <2>4. CASE ~ (EndCall(c, None) \/ EndCall(c, "SUCCEEDED"))
    <3>1. /\ pc' = [pc EXCEPT ![c] = "fetch"] /\ UNCHANGED result
          /\ page' = [page EXCEPT ![c] = Nothing]
      BY <1>4, <2>4 DEF PersistPage, Goto
    <3>2. \/ /\ kind' = [kind EXCEPT ![c] = "payments"]
             /\ expected' = [expected EXCEPT ![c] = None]
             /\ seen' = [seen EXCEPT ![c] = {}]
          \/ /\ seen' = [seen EXCEPT ![c] = @ \cup DOMAIN page[c]]
             /\ UNCHANGED <<kind, expected>>
      BY <1>4, <2>4 DEF PersistPage
    <3>3. page' \in [Caller -> PageOf]
      BY <3>1, NothingIsAPage
    <3>4. DOMAIN page[c] \subseteq Record
      BY PageFields
    <3>5. seen' \in [Caller -> SUBSET Record]
      <4>1. seen[c] \cup DOMAIN page[c] \in SUBSET Record
        BY <3>4
      <4> QED BY ZenonT(40), <3>2, <4>1
    <3> QED BY <2>1, <2>2, <3>1, <3>2, <3>3, <3>5
  <2> QED BY <2>3, <2>4
<1>5. ASSUME NEW c \in Caller, Throws(c) PROVE Types'
  BY <1>5, CallEnds DEF Throws, source
<1>6. ASSUME NEW c \in Caller, LoseLockSession(c) PROVE Types'
  BY <1>6 DEF LoseLockSession, source, locals
<1>7. CASE BindingChanges
  BY <1>7 DEF BindingChanges, source, locals
<1>8. CASE ListChanges
  BY <1>8 DEF ListChanges, Change, locals
<1>9. ASSUME NEW r \in Record, RecordChanges(r) PROVE Types'
  <2>1. content[r] \in Version /\ content[r].hash \in Nat /\ content[r].version \in Nat
    BY DEF Version
  <2>2. PICK h \in {content[r].hash, content[r].hash + 1} :
          content' = [content EXCEPT ![r] = [version |-> @.version + 1, hash |-> h]]
    BY <1>9 DEF RecordChanges
  <2>3. content' \in [Record -> Version]
    BY <2>1, <2>2 DEF Version
  <2> QED BY <1>9, <2>3 DEF RecordChanges, Change, locals
<1>10. CASE UNCHANGED vars
  BY <1>10 DEF vars, source, locals
<1> QED BY <1>1, <1>2, <1>3, <1>4, <1>5, <1>6, <1>7, <1>8, <1>9, <1>10 DEF Next

-----------------------------------------------------------------------------
(* What the callers know, and how old it is.                               *)

LEMMA CleanEnds ==
  ASSUME Types, Clean, NEW c \in Caller, NEW answer, EndCall(c, answer)
  PROVE  Clean'
<1> SUFFICES ASSUME NEW d \in Caller
             PROVE  /\ ~ Working(d)' => /\ seen'[d] = {} /\ kind'[d] = "statements"
                                        /\ expected'[d] = None
                    /\ pc'[d] # "persist" => DOMAIN page'[d] = {}
                    /\ pc'[d] # "idle" => result'[d] # "SUCCEEDED"
  BY DEF Clean
<1>1. CASE d = c
  BY <1>1, NothingIsAPage DEF EndCall, Goto, Types
<1>2. CASE d # c
  BY <1>2 DEF EndCall, Goto, Types, Clean, Working
<1> QED BY <1>1, <1>2

LEMMA CleanStep ==
  ASSUME FinanceConstants, Types, Clean, [Next]_vars
  PROVE  Clean'
<1> SUFFICES ASSUME ~ \E c \in Caller : \E answer : EndCall(c, answer)
             PROVE  Clean'
  BY CleanEnds
<1>1. ASSUME NEW c \in Caller, Call(c) PROVE Clean'
  BY SMTT(30), <1>1 DEF Call, Goto, Clean, Types, FinanceConstants, Working
<1>2. ASSUME NEW c \in Caller, FindEnabledBinding(c) PROVE Clean'
  <2>1. ~ EndCall(c, "SKIPPED")
    BY <1>2
  <2>2. /\ pc' = [pc EXCEPT ![c] = "fetch"] /\ pc[c] = "binding"
        /\ UNCHANGED <<kind, expected, seen, page, result>>
    BY <1>2, <2>1 DEF FindEnabledBinding, Goto
  <2> QED BY <2>2 DEF Clean, Types, Working
<1>3. ASSUME NEW c \in Caller, FetchPage(c) PROVE Clean'
  <2>1. /\ UNCHANGED <<kind, seen, result>>
        /\ pc' = [pc EXCEPT ![c] = "persist"] /\ pc[c] = "fetch"
        /\ \A d \in Caller \ {c} : expected'[d] = expected[d] /\ page'[d] = page[d]
    BY <1>3 DEF FetchPage, Goto, Types
  <2> QED BY <2>1 DEF Clean, Types, Working
<1>4. ASSUME NEW c \in Caller, PersistPage(c) PROVE Clean'
  <2>1. /\ UNCHANGED result
        /\ pc' = [pc EXCEPT ![c] = "fetch"] /\ pc[c] = "persist"
        /\ page' = [page EXCEPT ![c] = Nothing]
        /\ \A d \in Caller \ {c} : /\ expected'[d] = expected[d] /\ seen'[d] = seen[d]
                                   /\ kind'[d] = kind[d]
    BY <1>4 DEF PersistPage, Goto, Types
  <2> QED BY <2>1, NothingIsAPage DEF Clean, Types, Working
<1>5. ASSUME NEW c \in Caller, Throws(c) PROVE Clean'
  BY <1>5 DEF Throws
<1>6. ASSUME UNCHANGED <<pc, locals>> PROVE Clean'
  BY <1>6 DEF Clean, locals, Working
<1>7. ASSUME NEW c \in Caller, LoseLockSession(c) PROVE UNCHANGED <<pc, locals>>
  BY <1>7 DEF LoseLockSession
<1>8. BindingChanges \/ ListChanges \/ (\E r \in Record : RecordChanges(r))
      \/ UNCHANGED vars => UNCHANGED <<pc, locals>>
  BY DEF BindingChanges, ListChanges, RecordChanges, Change, vars
<1> QED BY <1>1, <1>2, <1>3, <1>4, <1>5, <1>6, <1>7, <1>8 DEF Next

\* The steps that neither begin a run nor write a row leave the times alone.
LEMMA OtherSteps ==
  ASSUME [Next]_vars
  PROVE  \/ \E c \in Caller : FindEnabledBinding(c) /\ able
         \/ \E c \in Caller : PersistPage(c)
         \/ \E c \in Caller : FetchPage(c)
         \/ /\ UNCHANGED <<stored, runs, end, asOf, apart>>
            /\ UNCHANGED page \/ \E c \in Caller : page' = [page EXCEPT ![c] = Nothing]
<1>1. ASSUME NEW c \in Caller,
             Call(c) \/ (FindEnabledBinding(c) /\ ~able) \/ Throws(c) \/ LoseLockSession(c)
      PROVE  /\ UNCHANGED <<stored, runs, end, asOf, apart>>
             /\ UNCHANGED page \/ page' = [page EXCEPT ![c] = Nothing]
  BY <1>1 DEF Call, FindEnabledBinding, Throws, LoseLockSession, EndCall, locals
<1>2. ASSUME BindingChanges \/ ListChanges \/ (\E r \in Record : RecordChanges(r))
             \/ UNCHANGED vars
      PROVE  UNCHANGED <<stored, runs, end, asOf, apart, page>>
  BY <1>2 DEF BindingChanges, ListChanges, RecordChanges, Change, vars, locals
<1> QED BY <1>1, <1>2 DEF Next

\* The versions of a record, and the changes of the list, are only ever added to.
LEMMA SourceGrows ==
  ASSUME Types, [Next]_vars
  PROVE  /\ changes.list <= changes'.list
         /\ \A r \in Record : content[r].version <= content'[r].version
<1>1. changes.list \in Nat /\ \A r \in Record : content[r].version \in Nat
  BY DEF Types, Version
<1>2. CASE UNCHANGED source
  BY <1>1, <1>2 DEF source
<1>3. CASE ListChanges
  <2>1. changes' = [changes EXCEPT !["list"] = @ + 1] /\ UNCHANGED content
    BY <1>3 DEF ListChanges, Change
  <2> QED BY <1>1, <2>1 DEF Types
<1>4. ASSUME NEW r \in Record, RecordChanges(r)
      PROVE  /\ changes.list <= changes'.list
             /\ \A s \in Record : content[s].version <= content'[s].version
  <2>1. changes' = [changes EXCEPT !["record"] = @ + 1]
    BY <1>4 DEF RecordChanges, Change
  <2>2. PICK h : content' = [content EXCEPT ![r] = [version |-> @.version + 1, hash |-> h]]
    BY <1>4 DEF RecordChanges
  <2> QED BY <1>1, <2>1, <2>2 DEF Types
<1>5. ASSUME NEW c \in Caller,
             Call(c) \/ FindEnabledBinding(c) \/ FetchPage(c) \/ PersistPage(c)
             \/ Throws(c) \/ LoseLockSession(c)
      PROVE  UNCHANGED source
  BY <1>5 DEF Call, FindEnabledBinding, FetchPage, PersistPage, Throws, LoseLockSession
<1>6. BindingChanges \/ UNCHANGED vars => UNCHANGED source
  BY DEF BindingChanges, vars
<1> QED BY <1>2, <1>3, <1>4, <1>5, <1>6 DEF Next

\* A run begins: its window ends later than that of any other, and it has read nothing.
LEMMA RunBegins ==
  ASSUME Types, NEW c \in Caller, FindEnabledBinding(c), able
  PROVE  /\ runs' = runs + 1 /\ end'[c] = runs + 1
         /\ asOf'[c] = [list |-> changes.list, content |-> content]
         /\ \A d \in Caller \ {c} : end'[d] = end[d] /\ asOf'[d] = asOf[d]
         /\ apart' = [d \in Caller |-> IF d = c THEN ~ \E x \in Caller : Working(x)
                                                ELSE apart[d] /\ ~ Working(d)]
         /\ pc[c] = "binding" /\ pc' = [pc EXCEPT ![c] = "fetch"]
         /\ UNCHANGED <<source, stored, kind, expected, seen, page, result>>
BY DEF FindEnabledBinding, Goto, Types

LEMMA PastStep ==
  ASSUME Types, Types', Past, [Next]_vars
  PROVE  Past'
<1>1. /\ changes.list \in Nat /\ changes'.list \in Nat /\ changes.list <= changes'.list
      /\ \A r \in Record : /\ content[r].version \in Nat /\ content'[r].version \in Nat
                          /\ content[r].version <= content'[r].version
  BY SourceGrows DEF Types, Version
<1>2. \A c \in Caller : /\ end[c] \in Nat /\ asOf[c].list \in Nat
                       /\ \A r \in Record : asOf[c].content[r].version \in Nat
  BY DEF Types, Version
<1>3. \A r \in Record : stored[r] # None => stored[r].at \in Nat
  BY DEF Types, Row
<1>4. runs \in Nat
  BY DEF Types
<1>5. CASE UNCHANGED <<runs, end, asOf, stored>>
  BY <1>1, <1>2, <1>5 DEF Past
<1>6. ASSUME NEW c \in Caller, FindEnabledBinding(c), able PROVE Past'
  <2>1. UNCHANGED <<source, stored>> /\ runs' = runs + 1
    BY <1>6, RunBegins
  <2>2. ASSUME NEW d \in Caller
        PROVE  /\ end'[d] <= runs' /\ asOf'[d].list <= changes'.list
               /\ \A r \in Record : asOf'[d].content[r].version <= content'[r].version
    <3>1. CASE d = c
      <4>1. end'[d] = runs + 1 /\ asOf'[d] = [list |-> changes.list, content |-> content]
        BY <1>6, <3>1, RunBegins
      <4> QED BY <1>1, <1>4, <2>1, <4>1
    <3>2. CASE d # c
      <4>1. end'[d] = end[d] /\ asOf'[d] = asOf[d]
        BY <1>6, <3>2, RunBegins
      <4> QED BY <1>1, <1>2, <1>4, <2>1, <4>1 DEF Past, source
    <3> QED BY <3>1, <3>2
  <2> QED BY <1>3, <1>4, <2>1, <2>2 DEF Past
<1>7. ASSUME NEW c \in Caller, PersistPage(c) PROVE Past'
  <2>1. UNCHANGED <<runs, end, asOf, content, changes>> /\ stored' = Upserted(c)
    BY <1>7 DEF PersistPage, source
  <2>2. ASSUME NEW r \in Record, stored'[r] # None PROVE stored'[r].at <= runs
    <3>1. CASE stored'[r] = stored[r]
      BY <2>2, <3>1 DEF Past
    <3>2. CASE stored'[r] # stored[r]
      <4>1. stored'[r] = [version |-> page[c][r].version, hash |-> page[c][r].hash,
                          at |-> end[c]]
        BY <2>1, <3>2, RowAfter
      <4>2. stored'[r].at = end[c]
        BY <4>1
      <4> QED BY <4>2 DEF Past
    <3> QED BY <3>1, <3>2
  <2> QED BY <2>1, <2>2 DEF Past
<1>8. \A c \in Caller : FetchPage(c) => UNCHANGED <<runs, end, asOf, stored>>
  BY DEF FetchPage
<1> QED BY <1>5, <1>6, <1>7, <1>8, OtherSteps

LEMMA FreshStep ==
  ASSUME Types, Types', Clean, Past, Fresh, [Next]_vars
  PROVE  Fresh'
<1>1. ASSUME NEW c \in Caller, NEW d \in Caller, NEW r \in DOMAIN page[d]
      PROVE  /\ r \in Record /\ page[d][r].version \in Nat
             /\ end[c] \in Nat /\ end[d] \in Nat
             /\ asOf[c].content[r].version \in Nat
  BY PageFields DEF Types, Version
<1>2. CASE /\ UNCHANGED <<stored, runs, end, asOf, apart>>
           /\ UNCHANGED page \/ \E c \in Caller : page' = [page EXCEPT ![c] = Nothing]
  <2>1. \A d \in Caller : page'[d] = page[d] \/ DOMAIN page'[d] = {}
    BY <1>2, NothingIsAPage DEF Types
  <2> QED BY <1>2, <2>1 DEF Fresh
<1>3. ASSUME NEW b \in Caller, FindEnabledBinding(b), able PROVE Fresh'
  <2>1. /\ DOMAIN page[b] = {} /\ UNCHANGED <<stored, page>>
        /\ \A d \in Caller \ {b} : end'[d] = end[d] /\ asOf'[d] = asOf[d]
        /\ end'[b] = runs + 1
    BY <1>3, RunBegins DEF Clean
  <2> SUFFICES ASSUME NEW c \in Caller
      PROVE  /\ \A r \in Record : stored[r] # None /\ stored[r].at >= end'[c]
                  => stored[r].version >= asOf'[c].content[r].version
             /\ \A d \in Caller : end'[d] >= end'[c] =>
                  \A r \in DOMAIN page[d] :
                     page[d][r].version >= asOf'[c].content[r].version
    BY <2>1 DEF Fresh
  <2>2. runs \in Nat /\ \A d \in Caller : end[d] \in Nat /\ end[d] <= runs
    BY DEF Types, Past
  <2>3. CASE c = b
    <3>1. \A r \in Record : stored[r] # None => stored[r].at \in Nat /\ stored[r].at <= runs
      BY DEF Types, Row, Past
    <3>2. \A d \in Caller : end'[d] >= end'[c] => d = b
      BY <2>1, <2>2, <2>3
    <3> QED BY <2>1, <2>2, <2>3, <3>1, <3>2
  <2>4. CASE c # b
    <3>1. \A d \in Caller : d = b \/ end'[d] = end[d]
      BY <2>1
    <3> QED BY <2>1, <2>4, <3>1 DEF Fresh
  <2> QED BY <2>3, <2>4
<1>4. ASSUME NEW b \in Caller, PersistPage(b) PROVE Fresh'
  <2>1. UNCHANGED <<end, asOf>> /\ stored' = Upserted(b)
    BY <1>4 DEF PersistPage
  <2>2. page' = [page EXCEPT ![b] = Nothing]
    BY <1>4 DEF PersistPage, EndCall
  <2>3. \A d \in Caller : page'[d] = page[d] \/ DOMAIN page'[d] = {}
    BY <2>2, NothingIsAPage DEF Types
  <2>4. ASSUME NEW c \in Caller, NEW r \in Record, stored'[r] # None,
               stored'[r].at >= end[c]
        PROVE  stored'[r].version >= asOf[c].content[r].version
    <3>1. CASE stored'[r] = stored[r]
      BY <2>4, <3>1 DEF Fresh
    <3>2. CASE stored'[r] # stored[r]
      <4>1. r \in DOMAIN page[b]
            /\ stored'[r] = [version |-> page[b][r].version, hash |-> page[b][r].hash,
                             at |-> end[b]]
        BY <2>1, <3>2, RowAfter
      <4> QED BY <2>4, <4>1 DEF Fresh
    <3> QED BY <3>1, <3>2
  <2> QED BY <2>1, <2>3, <2>4 DEF Fresh
<1>5. ASSUME NEW b \in Caller, FetchPage(b) PROVE Fresh'
  <2>1. UNCHANGED <<stored, end, asOf>>
    BY <1>5 DEF FetchPage
  <2>2. \/ page' = [page EXCEPT ![b] = Nothing]
        \/ \E S \in SUBSET (listed \cap Of(kind[b])) :
              page' = [page EXCEPT ![b] = [r \in S |-> content[r]]]
    BY <1>5 DEF FetchPage, EndCall
  <2>3. \A d \in Caller : \/ page'[d] = page[d]
                         \/ \A r \in DOMAIN page'[d] : r \in Record /\ page'[d][r] = content[r]
    BY <2>2, NothingIsAPage DEF Types
  <2>4. ASSUME NEW c \in Caller, NEW r \in Record
        PROVE  content[r].version >= asOf[c].content[r].version
    BY DEF Past, Types, Version
  <2> QED BY <2>1, <2>3, <2>4 DEF Fresh
<1> QED BY <1>2, <1>3, <1>4, <1>5, OtherSteps

-----------------------------------------------------------------------------
(* Runs apart from others, and what they read and wrote.                   *)

\* No step but the beginning of a run makes a caller work.
LEMMA NoneStarts ==
  ASSUME Types, [Next]_vars, ~ \E c \in Caller : FindEnabledBinding(c) /\ able
  PROVE  \A d \in Caller : Working(d)' => Working(d)
<1>1. ASSUME NEW c \in Caller, NEW l \in {"idle", "binding"},
             pc' = [pc EXCEPT ![c] = l]
      PROVE  \A d \in Caller : Working(d)' => Working(d)
  BY <1>1 DEF Types, Working
<1>2. ASSUME NEW c \in Caller, pc[c] \in {"fetch", "persist"}, NEW l,
             pc' = [pc EXCEPT ![c] = l]
      PROVE  \A d \in Caller : Working(d)' => Working(d)
  BY <1>2 DEF Types, Working
<1>3. CASE UNCHANGED pc
  BY <1>3 DEF Working
<1>4. ASSUME NEW c \in Caller, Call(c) \/ (FindEnabledBinding(c) /\ ~able) \/ Throws(c)
      PROVE  UNCHANGED pc \/ \E l \in {"idle", "binding"} : pc' = [pc EXCEPT ![c] = l]
  BY <1>4 DEF Call, FindEnabledBinding, Throws, EndCall, Goto
<1>5. ASSUME NEW c \in Caller, FetchPage(c) \/ PersistPage(c)
      PROVE  pc[c] \in {"fetch", "persist"} /\ \E l : pc' = [pc EXCEPT ![c] = l]
  BY <1>5 DEF FetchPage, PersistPage, EndCall, Goto
<1>6. ASSUME \/ \E c \in Caller : LoseLockSession(c)
             \/ BindingChanges \/ ListChanges \/ (\E r \in Record : RecordChanges(r))
             \/ UNCHANGED vars
      PROVE  UNCHANGED pc
  BY <1>6 DEF LoseLockSession, BindingChanges, ListChanges, RecordChanges, Change, vars
<1> QED BY <1>1, <1>2, <1>3, <1>4, <1>5, <1>6 DEF Next

LEMMA AloneStep ==
  ASSUME Types, Past, Alone, [Next]_vars
  PROVE  Alone'
<1>1. CASE ~ \E c \in Caller : FindEnabledBinding(c) /\ able
  <2>1. UNCHANGED <<end, apart>>
    BY <1>1, OtherSteps DEF FetchPage, PersistPage
  <2> QED BY <1>1, <2>1, NoneStarts DEF Alone
<1>2. ASSUME NEW b \in Caller, FindEnabledBinding(b), able PROVE Alone'
  <2>1. /\ end'[b] = runs + 1 /\ \A d \in Caller \ {b} : end'[d] = end[d]
        /\ \A d \in Caller \ {b} : Working(d)' <=> Working(d)
    BY <1>2, RunBegins DEF Types, Working
  <2>0. apart' = [d \in Caller |-> IF d = b THEN ~ \E x \in Caller : Working(x)
                                            ELSE apart[d] /\ ~ Working(d)]
    BY <1>2, RunBegins
  <2>9. /\ apart'[b] = (~ \E x \in Caller : Working(x))
        /\ \A d \in Caller \ {b} : apart'[d] = (apart[d] /\ ~ Working(d))
    BY <2>0
  <2> SUFFICES ASSUME NEW c \in Caller, NEW d \in Caller, apart'[c], d # c, Working(d)'
               PROVE  ~ Working(c)' /\ end'[d] > end'[c]
    BY DEF Alone
  <2>2. c # b
    BY <2>1, <2>9
  <2>3. CASE d = b
    <3>1. end[c] <= runs /\ end[c] \in Nat /\ runs \in Nat
      BY DEF Past, Types
    <3>2. ~ Working(c)'
      BY <2>1, <2>2, <2>9
    <3>3. end'[d] = runs + 1 /\ end'[c] = end[c]
      BY <2>1, <2>2, <2>3
    <3> QED BY <3>1, <3>2, <3>3
  <2>4. CASE d # b
    BY <2>1, <2>2, <2>4, <2>9 DEF Alone
  <2> QED BY <2>3, <2>4
<1> QED BY <1>1, <1>2

LEMMA ReadingStep ==
  ASSUME FinanceConstants, Types, Types', Clean, Past, Reading, [Next]_vars
  PROVE  Reading'
<1> DEFINE Reads(c) ==
      Working(c) /\ Same(c) =>
        /\ seen[c] \cup DOMAIN page[c] \subseteq listed \cap Of(kind[c])
        /\ expected[c] \in {None, Cardinality(listed \cap Of(kind[c]))}
        /\ pc[c] = "persist" => expected[c] = Cardinality(listed \cap Of(kind[c]))
<1>1. Reading <=> \A c \in Caller : Reads(c)
  BY DEF Reading
<1>2. Reading' <=> \A c \in Caller : Reads(c)'
  BY DEF Reading
<1> SUFFICES ASSUME NEW c \in Caller PROVE Reads(c)'
  BY <1>2
<1>3. Reads(c)
  BY <1>1
<1>4. CASE UNCHANGED <<listed, changes>>
           /\ asOf'[c] = asOf[c] /\ kind'[c] = kind[c] /\ expected'[c] = expected[c]
           /\ seen'[c] = seen[c] /\ page'[c] = page[c] /\ pc'[c] = pc[c]
  BY <1>3, <1>4 DEF Working, Same
<1>5. CASE pc'[c] \in {"idle", "binding"}
  BY <1>5 DEF Working
<1>6. CASE ListChanges
  <2>1. changes'.list = changes.list + 1 /\ UNCHANGED asOf
    BY <1>6 DEF ListChanges, Change, locals, Types
  <2>2. asOf[c].list <= changes.list /\ asOf[c].list \in Nat /\ changes.list \in Nat
    BY DEF Past, Types
  <2> QED BY <2>1, <2>2 DEF Same
<1>7. ASSUME NEW r \in Record, RecordChanges(r) PROVE Reads(c)'
  <2>1. changes'.list = changes.list /\ UNCHANGED <<listed, pc, locals>>
    BY <1>7 DEF RecordChanges, Change, Types
  <2> QED BY <1>3, <2>1 DEF Working, Same, locals
<1>8. CASE FindEnabledBinding(c) /\ able
  <2>1. /\ seen'[c] = {} /\ DOMAIN page'[c] = {} /\ expected'[c] = None
        /\ pc'[c] = "fetch"
    BY <1>8, RunBegins DEF Clean, Working, Types
  <2> QED BY <2>1
<1>9. CASE FetchPage(c) /\ ~ EndCall(c, None)
  <2> DEFINE list == listed \cap Of(kind[c])
  <2>1. PICK S \in SUBSET list : page' = [page EXCEPT ![c] = [r \in S |-> content[r]]]
    BY <1>9 DEF FetchPage
  <2>2. /\ expected'[c] = Cardinality(list) /\ pc'[c] = "persist" /\ pc[c] = "fetch"
        /\ UNCHANGED <<source, kind, seen, asOf>>
    BY <1>9 DEF FetchPage, Goto, Types
  <2>3. DOMAIN page'[c] = S
    BY <2>1 DEF Types
  <2> QED BY <1>3, <2>2, <2>3 DEF Working, Same, source
<1>10. CASE PersistPage(c) /\ ~ EndCall(c, None) /\ ~ EndCall(c, "SUCCEEDED")
  <2>1. /\ DOMAIN page'[c] = {} /\ pc'[c] = "fetch" /\ pc[c] = "persist"
        /\ UNCHANGED <<source, asOf>>
    BY <1>10, NothingIsAPage DEF PersistPage, Goto, Types
  <2>2. \/ seen'[c] = {} /\ expected'[c] = None
        \/ /\ seen'[c] = seen[c] \cup DOMAIN page[c]
           /\ expected'[c] = expected[c] /\ kind'[c] = kind[c]
    BY <1>10 DEF PersistPage, Types
  <2> QED BY <1>3, <2>1, <2>2 DEF Working, Same, source
<1>11. ASSUME NEW b \in Caller, b # c,
              Call(b) \/ FindEnabledBinding(b) \/ FetchPage(b) \/ PersistPage(b)
              \/ Throws(b)
       PROVE  UNCHANGED <<listed, changes>>
              /\ asOf'[c] = asOf[c] /\ kind'[c] = kind[c] /\ expected'[c] = expected[c]
              /\ seen'[c] = seen[c] /\ page'[c] = page[c] /\ pc'[c] = pc[c]
  BY <1>11 DEF Call, FindEnabledBinding, FetchPage, PersistPage, Throws, EndCall, Goto,
               source, Types
<1>12. CASE Call(c)
  BY <1>12, <1>4, <1>5 DEF Call, Goto, source, Types
<1>13. CASE (FindEnabledBinding(c) /\ ~able) \/ Throws(c) \/ EndCall(c, None)
            \/ EndCall(c, "SUCCEEDED")
  <2>1. pc'[c] = "idle"
    BY <1>13 DEF FindEnabledBinding, Throws, EndCall, Goto, Types
  <2> QED BY <1>5, <2>1
<1>14. CASE \/ \E b \in Caller : LoseLockSession(b)
            \/ BindingChanges \/ UNCHANGED vars
  BY <1>14, <1>4 DEF LoseLockSession, BindingChanges, vars, locals, source
<1> HIDE DEF Reads
<1> QED BY <1>4, <1>6, <1>7, <1>8, <1>9, <1>10, <1>11, <1>12, <1>13, <1>14 DEF Next

\* What a run wrote stays written by it, or by a run that began later.
LEMMA HeldStays ==
  ASSUME FinanceConstants, Types, Types', Alone, NEW c \in Caller, NEW d \in Caller,
         NEW r \in Record, PersistPage(d), apart[c], Held(c, r)
  PROVE  Held(c, r)'
<1>1. UNCHANGED end /\ stored' = Upserted(d)
  BY DEF PersistPage
<1>2. end[c] \in Nat /\ end[d] \in Nat
  BY DEF Types
<1>3. end[d] >= end[c]
  <2>1. CASE d = c
    BY <1>2, <2>1
  <2>2. CASE d # c
    <3>1. Working(d)
      BY DEF PersistPage, Working
    <3> QED BY <1>2, <2>2, <3>1 DEF Alone
  <2> QED BY <2>1, <2>2
<1>4. CASE stored'[r] = stored[r]
  BY <1>1, <1>4 DEF Held
<1>5. CASE stored'[r] # stored[r]
  <2>1. stored'[r] = [version |-> page[d][r].version, hash |-> page[d][r].hash,
                      at |-> end[d]]
        /\ r \in DOMAIN page[d]
    BY <1>1, <1>5, RowAfter
  <2>2. stored'[r].at = end[d]
    BY <2>1
  <2>3. stored'[r] \in Row
    BY <2>1, <1>2, PageFields DEF Row, Version
  <2>4. stored'[r] # None
    BY <2>3 DEF FinanceConstants
  <2> QED BY <1>1, <1>3, <2>2, <2>4 DEF Held
<1> QED BY <1>4, <1>5

\* After its page every record of the page is written.
LEMMA PageHeld ==
  ASSUME FinanceConstants, Types, NEW c \in Caller, NEW r \in Unique(c), PersistPage(c)
  PROVE  Held(c, r)'
<1>1. r \in Record
  BY PageFields DEF Unique
<1>2. UNCHANGED end /\ stored' = Upserted(c)
  BY DEF PersistPage
<1>3. end[c] \in Nat
  BY DEF Types
<1>4. CASE (stored'[r] # None => stored'[r].at = end[c]) /\ stored'[r] \in Row
  BY <1>2, <1>3, <1>4 DEF Held, FinanceConstants
<1>5. CASE stored'[r] = stored[r] /\ stored[r] # None /\ stored[r].at >= end[c]
  BY <1>2, <1>5 DEF Held
<1> QED BY <1>1, <1>2, <1>4, <1>5, RowAfter

\* A page after which all is delivered completes the list of its kind.
LEMMA ListDone ==
  ASSUME FinanceConstants, Types, Reading, NEW c \in Caller, Same(c), pc[c] = "persist",
         AllDelivered(c)
  PROVE  listed \cap Of(kind[c]) = seen[c] \cup DOMAIN page[c]
<1> DEFINE list == listed \cap Of(kind[c])
           got == seen[c] \cup DOMAIN page[c]
<1>1. got \subseteq list /\ expected[c] = Cardinality(list)
  BY DEF Reading, Working
<1>2. Cardinality(got) = Cardinality(list)
  BY <1>1 DEF AllDelivered, Persisted
<1>3. IsFiniteSet(list)
  BY ListCounts
<1> HIDE DEF list, got
<1>4. got = list
  BY <1>1, <1>2, <1>3, FS_Subset
<1> QED BY <1>4 DEF list, got

LEMMA CallSucceeds ==
  ASSUME FinanceConstants, Types, NEW c \in Caller, PersistPage(c),
         EndCall(c, "SUCCEEDED"), ~ EndCall(c, None)
  PROVE  LastPage(c) /\ AllDelivered(c) /\ kind[c] = "payments"
<1>1. pc'[c] = "idle"
  BY DEF EndCall, Goto, Types
<1> QED BY <1>1 DEF PersistPage, Goto, Types

LEMMA WrittenStep ==
  ASSUME FinanceConstants, Types, Types', Clean, Past, Alone, Reading, Written, [Next]_vars
  PROVE  Written'
<1> SUFFICES ASSUME NEW c \in Caller, apart'[c], Same(c)'
             PROVE  /\ Working(c)' => \A r \in seen'[c] : Held(c, r)'
                    /\ Working(c)' /\ kind'[c] = "payments"
                         => \A r \in listed' \cap Statement : Held(c, r)'
                    /\ result'[c] = "SUCCEEDED" => \A r \in listed' : Held(c, r)'
  BY DEF Written
<1> DEFINE Wrote ==
      /\ Working(c) => \A r \in seen[c] : Held(c, r)
      /\ Working(c) /\ kind[c] = "payments" => \A r \in listed \cap Statement : Held(c, r)
      /\ result[c] = "SUCCEEDED" => \A r \in listed : Held(c, r)
<1>1. apart[c] /\ Same(c) => Wrote
  BY DEF Written
<1>2. CASE /\ UNCHANGED <<stored, listed>> /\ Same(c) /\ apart[c] /\ end'[c] = end[c]
           /\ kind'[c] = kind[c] /\ seen'[c] = seen[c]
           /\ Working(c)' => Working(c)
           /\ result'[c] = "SUCCEEDED" => result[c] = "SUCCEEDED"
  BY <1>1, <1>2 DEF Held
<1>3. CASE /\ UNCHANGED <<stored, source, end, asOf, apart>>
           /\ kind'[c] = kind[c] /\ seen'[c] = seen[c] /\ pc'[c] = pc[c]
           /\ result'[c] = result[c]
  BY <1>2, <1>3 DEF Same, source, Working
<1>4. CASE ListChanges
  <2>1. changes'.list = changes.list + 1 /\ UNCHANGED asOf
    BY <1>4 DEF ListChanges, Change, locals, Types
  <2>2. asOf[c].list <= changes.list /\ asOf[c].list \in Nat /\ changes.list \in Nat
    BY DEF Past, Types
  <2> QED BY <2>1, <2>2 DEF Same
<1>5. ASSUME NEW r \in Record, RecordChanges(r)
      PROVE  /\ UNCHANGED <<stored, listed, kind, seen, result, end>> /\ Same(c) /\ apart[c]
             /\ Working(c)' => Working(c)
  <2>1. changes'.list = changes.list /\ UNCHANGED <<stored, listed, pc, locals>>
    BY <1>5 DEF RecordChanges, Change, Types
  <2> QED BY <2>1 DEF Same, locals, Working
<1>6. CASE FindEnabledBinding(c) /\ able
  <2>1. seen'[c] = {} /\ kind'[c] = "statements" /\ result'[c] # "SUCCEEDED"
    BY <1>6, RunBegins DEF Clean, Working
  <2> QED BY <2>1
<1>7. ASSUME NEW b \in Caller, b # c, FindEnabledBinding(b), able
      PROVE  /\ UNCHANGED <<stored, listed, kind, seen, result>> /\ Same(c) /\ apart[c]
             /\ end'[c] = end[c]
             /\ Working(c)' => Working(c)
  <2>1. /\ UNCHANGED <<source, stored, kind, seen, result>>
        /\ end'[c] = end[c] /\ asOf'[c] = asOf[c]
        /\ apart' = [d \in Caller |-> IF d = b THEN ~ \E x \in Caller : Working(x)
                                              ELSE apart[d] /\ ~ Working(d)]
        /\ pc' = [pc EXCEPT ![b] = "fetch"]
    BY <1>7, RunBegins
  <2>2. apart[c]
    BY <1>7, <2>1
  <2> QED BY <1>7, <2>1, <2>2 DEF Same, Working, source, Types
<1>8. CASE FetchPage(c)
  <2>1. UNCHANGED <<stored, source, end, asOf, apart>> /\ pc[c] = "fetch"
    BY <1>8 DEF FetchPage
  <2>2. Same(c) /\ apart[c] /\ UNCHANGED listed
    BY <2>1 DEF Same, source
  <2>3. CASE EndCall(c, None)
    <3>1. ~ Working(c)' /\ result'[c] # "SUCCEEDED"
      BY <2>3 DEF EndCall, Goto, Working, Types, FinanceConstants
    <3> QED BY <3>1
  <2>4. CASE ~ EndCall(c, None)
    <3>1. UNCHANGED <<kind, seen, result>>
      BY <1>8, <2>4 DEF FetchPage
    <3> QED BY <1>2, <2>1, <2>2, <3>1 DEF Working
  <2> QED BY <2>3, <2>4
<1>9. CASE PersistPage(c)
  <2>1. /\ UNCHANGED <<source, end, asOf, apart>> /\ pc[c] = "persist"
    BY <1>9 DEF PersistPage
  <2>2. Same(c) /\ apart[c] /\ UNCHANGED listed /\ Working(c) /\ Wrote
    BY <1>1, <2>1 DEF Same, source, Working
  <2>3. \A r \in seen[c] \cup DOMAIN page[c] : Held(c, r)'
    <3>1. \A r \in seen[c] : r \in Record /\ Held(c, r)
      BY <2>2 DEF Types
    <3>2. \A r \in seen[c] : Held(c, r)'
      BY <1>9, <2>2, <3>1, HeldStays
    <3>3. \A r \in DOMAIN page[c] \ seen[c] : Held(c, r)'
      BY <1>9, PageHeld DEF Unique
    <3> QED BY <3>2, <3>3
  <2>4. kind[c] = "payments" => \A r \in listed \cap Statement : Held(c, r)'
    <3>1. \A r \in listed : r \in Record
      BY DEF Types
    <3> QED BY <1>9, <2>2, <3>1, HeldStays
  <2>5. LastPage(c) /\ AllDelivered(c) =>
          \A r \in listed \cap Of(kind[c]) : Held(c, r)'
    BY <2>1, <2>2, <2>3, ListDone
  <2>6. CASE EndCall(c, None)
    <3>1. ~ Working(c)' /\ result'[c] # "SUCCEEDED"
      BY <2>6 DEF EndCall, Goto, Working, Types, FinanceConstants
    <3> QED BY <3>1
  <2>7. CASE EndCall(c, "SUCCEEDED") /\ ~ EndCall(c, None)
    <3>1. LastPage(c) /\ AllDelivered(c) /\ kind[c] = "payments"
      BY <1>9, <2>7, CallSucceeds
    <3>2. ~ Working(c)'
      BY <2>7 DEF EndCall, Goto, Working, Types
    <3>3. \A r \in listed : r \in Statement \/ r \in Of(kind[c])
      BY <3>1 DEF Types, Record, Of
    <3> QED BY <2>2, <2>4, <2>5, <3>1, <3>2, <3>3
  <2>8. CASE ~ EndCall(c, None) /\ ~ EndCall(c, "SUCCEEDED")
    <3>1. UNCHANGED result /\ result[c] # "SUCCEEDED"
      BY <1>9, <2>1, <2>8 DEF PersistPage, Clean
    <3>2. CASE LastPage(c)
      <4>1. /\ AllDelivered(c) /\ kind[c] = "statements" /\ seen'[c] = {}
        BY <1>9, <2>8, <3>2 DEF PersistPage, Types
      <4> QED BY <2>2, <2>5, <3>1, <3>2, <4>1 DEF Of
    <3>3. CASE ~ LastPage(c)
      <4>1. seen'[c] = seen[c] \cup DOMAIN page[c] /\ kind'[c] = kind[c]
        BY <1>9, <2>8, <3>3 DEF PersistPage, Types
      <4> QED BY <2>2, <2>3, <2>4, <3>1, <4>1
    <3> QED BY <3>2, <3>3
  <2> QED BY <2>6, <2>7, <2>8
<1>10. ASSUME NEW b \in Caller, b # c, PersistPage(b)
       PROVE  /\ Working(c)' => \A r \in seen'[c] : Held(c, r)'
              /\ Working(c)' /\ kind'[c] = "payments"
                   => \A r \in listed' \cap Statement : Held(c, r)'
              /\ result'[c] = "SUCCEEDED" => \A r \in listed' : Held(c, r)'
  <2>1. /\ UNCHANGED <<source, end, asOf, apart>>
        /\ seen'[c] = seen[c] /\ kind'[c] = kind[c] /\ result'[c] = result[c]
        /\ pc'[c] = pc[c]
    BY <1>10 DEF PersistPage, EndCall, Goto, Types
  <2>2. Same(c) /\ apart[c] /\ UNCHANGED listed /\ Wrote /\ (Working(c)' <=> Working(c))
    BY <1>1, <2>1 DEF Same, source, Working
  <2>3. \A r \in Record : Held(c, r) => Held(c, r)'
    BY <1>10, <2>2, HeldStays
  <2>4. seen[c] \subseteq Record /\ listed \subseteq Record
    BY DEF Types
  <2> QED BY <2>1, <2>2, <2>3, <2>4
<1>11. ASSUME NEW b \in Caller, b # c,
              Call(b) \/ (FindEnabledBinding(b) /\ ~able) \/ FetchPage(b) \/ Throws(b)
       PROVE  /\ UNCHANGED <<stored, source, end, asOf, apart>>
              /\ kind'[c] = kind[c] /\ seen'[c] = seen[c] /\ pc'[c] = pc[c]
              /\ result'[c] = result[c]
  BY <1>11 DEF Call, FindEnabledBinding, FetchPage, Throws, EndCall, Goto, Types
<1>12. CASE Call(c) \/ (FindEnabledBinding(c) /\ ~able) \/ Throws(c)
  <2>1. UNCHANGED <<stored, source, end, asOf, apart>>
    BY <1>12 DEF Call, FindEnabledBinding, Throws
  <2>2. ~ Working(c)' /\ result'[c] # "SUCCEEDED"
    BY <1>12 DEF Call, FindEnabledBinding, Throws, EndCall, Goto, Working, Types,
                 FinanceConstants
  <2> QED BY <2>2
<1>13. CASE \/ \E b \in Caller : LoseLockSession(b)
            \/ BindingChanges \/ UNCHANGED vars
  BY <1>13, <1>2 DEF LoseLockSession, BindingChanges, vars, locals, source, Same, Working
<1>14. CASE \E b \in Caller : FindEnabledBinding(b) /\ able
  BY <1>14, <1>2, <1>6, <1>7
<1>15. CASE \E b \in Caller : PersistPage(b)
  BY <1>15, <1>9, <1>10
<1>16. CASE \E b \in Caller : \/ Call(b) \/ (FindEnabledBinding(b) /\ ~able) \/ FetchPage(b)
                            \/ Throws(b)
  BY <1>16, <1>3, <1>8, <1>11, <1>12
<1>17. CASE \E r \in Record : RecordChanges(r)
  BY <1>17, <1>2, <1>5
<1> QED BY <1>4, <1>13, <1>14, <1>15, <1>16, <1>17 DEF Next

-----------------------------------------------------------------------------

LEMMA IInvInit == FinanceConstants /\ Init => IInv
<1> SUFFICES ASSUME FinanceConstants, Init PROVE IInv
  OBVIOUS
<1>1. content \in [Record -> Version]
  BY DEF Init, Version
<1>2. Nothing \in PageOf /\ DOMAIN Nothing = {}
  BY NothingIsAPage
<1>3. Types
  BY <1>1, <1>2 DEF Init, Types
<1>4. Clean /\ Alone /\ Reading /\ Written
  BY <1>2 DEF Init, Clean, Alone, Reading, Written, Working, FinanceConstants
<1>5. Past /\ Fresh
  BY <1>1, <1>2 DEF Init, Past, Fresh, Version
<1> QED BY <1>3, <1>4, <1>5 DEF IInv

\* A run that SUCCEEDED apart from any other stored all there is, however COTIK cut
\* its lists into pages (paginate and the conditions of the upserts).
THEOREM ListsStored == FinanceConstants => (Spec => []SucceededStoredAll)
<1> SUFFICES ASSUME FinanceConstants PROVE Spec => []SucceededStoredAll
  OBVIOUS
<1>1. Init => IInv
  BY IInvInit
<1>2. IInv /\ [Next]_vars => IInv'
  <2> SUFFICES ASSUME IInv, [Next]_vars PROVE IInv'
    OBVIOUS
  <2>1. Types'
    BY TypesStep DEF IInv
  <2>2. Clean' /\ Past' /\ Fresh' /\ Alone'
    BY <2>1, CleanStep, PastStep, FreshStep, AloneStep DEF IInv
  <2>3. Reading' /\ Written'
    BY <2>1, ReadingStep, WrittenStep DEF IInv
  <2> QED BY <2>1, <2>2, <2>3 DEF IInv
<1>3. IInv => SucceededStoredAll
  <2> SUFFICES ASSUME IInv, NEW c \in Caller, result[c] = "SUCCEEDED", apart[c],
                      asOf[c].list = changes.list, NEW r \in listed
               PROVE  stored[r] # None /\ stored[r].version >= asOf[c].content[r].version
    BY DEF SucceededStoredAll
  <2>1. Held(c, r) /\ r \in Record
    BY DEF IInv, Written, Same, Types
  <2> QED BY <2>1 DEF IInv, Fresh, Held
<1> QED BY <1>1, <1>2, <1>3, PTL DEF Spec

-----------------------------------------------------------------------------
(* The orders of Seller Center.                                            *)

CONSTANTS Order, Cursor, MaxPages, Empty

VARIABLES          \* of SellerOrders
  shown, shifts, field, at, locked, seenOrderIds, seenCursors, expectedTotal, taken,
  batch

Orders == INSTANCE SellerOrders WITH
  listed <- shown, changes <- shifts, asked <- field, pc <- at, pages <- taken

\* While the list stays, the orders seen are among it, and the total told is its size.
OrdersInv ==
  /\ shown \subseteq Order
  /\ shifts \in Nat
  /\ shifts = 0 =>
       /\ seenOrderIds \subseteq shown
       /\ expectedTotal \in {None, Cardinality(shown)}
       /\ batch \in {None, shown}

\* The instance has its own name for the size of a set.
LEMMA SameCardinality == \A S : Orders!Cardinality(S) = Cardinality(S)
BY DEF Orders!Cardinality, Cardinality

\* Whatever page comes next, the orders are believed only if none is missing.
LEMMA PageTaken ==
  ASSUME IsFiniteSet(Order), OrdersInv, NEW p \in Orders!Answers, Orders!TakePage(p),
         UNCHANGED Orders!source
  PROVE  OrdersInv'
<1>1. IsFiniteSet(shown)
  BY FS_Subset DEF OrdersInv
<1>2. p.orders \subseteq shown /\ p.total \in {Cardinality(shown), None}
  BY SameCardinality DEF Orders!Answers
<1>3. UNCHANGED <<shown, shifts>>
  BY DEF Orders!source
<1>4. seenOrderIds' = seenOrderIds \cup p.orders
      /\ expectedTotal' = (IF expectedTotal = None THEN p.total ELSE expectedTotal)
  BY DEF Orders!TakePage
<1>5. Orders!Finish \/ batch' = batch
  BY DEF Orders!TakePage
<1>6. ASSUME shifts = 0
      PROVE  /\ seenOrderIds' \subseteq shown
             /\ expectedTotal' \in {None, Cardinality(shown)}
  BY <1>2, <1>4, <1>6 DEF OrdersInv
<1>7. ASSUME shifts = 0 PROVE batch' \in {None, shown}
  <2>1. CASE batch' = batch
    BY <2>1, <1>7 DEF OrdersInv
  <2>2. CASE Orders!Proved /\ batch' = seenOrderIds'
    <3>1. Cardinality(seenOrderIds') = Cardinality(shown)
      BY <1>6, <1>7, <2>2, SameCardinality DEF Orders!Proved, Orders!Reconciled
    <3>2. seenOrderIds' = shown
      BY <3>1, <1>1, <1>6, <1>7, FS_Subset
    <3> QED BY <3>2, <2>2
  <2> QED BY <1>5, <2>1, <2>2 DEF Orders!Finish
<1> QED BY <1>3, <1>6, <1>7 DEF OrdersInv

\* Orders are yielded as complete only if none is missing, whatever pages, cursors,
\* totals and has_more flags the source answers with (collectOrders).
THEOREM CompleteOrders ==
  ASSUME IsFiniteSet(Order)
  PROVE  Orders!Spec => []Orders!CompleteOrdersAreAll
<1>1. Orders!Init => OrdersInv
  BY DEF Orders!Init, OrdersInv
<1>2. OrdersInv /\ [Orders!Next]_Orders!vars => OrdersInv'
  <2> SUFFICES ASSUME OrdersInv, [Orders!Next]_Orders!vars PROVE OrdersInv'
    OBVIOUS
  <2>1. CASE Orders!FirstPage
    BY <2>1, PageTaken DEF Orders!FirstPage, Orders!source
  <2>2. CASE Orders!PageFetched
    BY <2>2, PageTaken DEF Orders!PageFetched, Orders!source
  <2>3. CASE Orders!Breaks
    BY <2>3 DEF Orders!Breaks, Orders!source, Orders!paging, OrdersInv
  <2>4. CASE Orders!OrdersChange
    BY <2>4 DEF Orders!OrdersChange, OrdersInv
  <2>5. CASE UNCHANGED Orders!vars
    BY <2>5 DEF Orders!vars, Orders!source, Orders!paging, OrdersInv
  <2> QED BY <2>1, <2>2, <2>3, <2>4, <2>5 DEF Orders!Next
<1>3. OrdersInv => Orders!CompleteOrdersAreAll
  BY DEF OrdersInv, Orders!CompleteOrdersAreAll
<1> QED BY <1>1, <1>2, <1>3, PTL DEF Orders!Spec

----------------------------------------------------------------------------
(* Orders of several COTIK accounts (CotikSources)                        *)

\* A nonempty set of naturals has a least member.
LEMMA HasLeast ==
  ASSUME NEW S, S \subseteq Nat, S # {}
  PROVE  \E n \in S : \A m \in S : n <= m
<1> DEFINE R == OpToRel(<, Nat)
<1>1. IsWellFoundedOn(R, Nat)
  BY NatLessThanWellFounded
<1>2. PICK n \in S : \A m \in S : ~ (<<m, n>> \in R)
  <2> HIDE DEF R
  <2> QED BY <1>1, WFMin
<1>3. \A m \in S : ~ (m < n)
  BY <1>2 DEF OpToRel
<1> QED BY <1>3

\* A nonempty bounded one has a greatest.
LEMMA HasGreatest ==
  ASSUME NEW S, NEW k \in Nat, S \subseteq 0 .. k, S # {}
  PROVE  \E n \in S : \A m \in S : m <= n
<1> DEFINE T == {k - n : n \in S}
<1>1. T \subseteq Nat /\ T # {}
  <2>1. \A n \in S : k - n \in Nat
    OBVIOUS
  <2> QED BY <2>1
<1>2. PICK t \in T : \A u \in T : t <= u
  BY <1>1, HasLeast
<1>3. PICK n \in S : t = k - n
  OBVIOUS
<1>4. ASSUME NEW m \in S PROVE m <= n
  <2>1. k - n <= k - m
    BY <1>2, <1>3
  <2> QED BY <2>1
<1> QED BY <1>4

CONSTANTS Proc, Account, Linked, Odd, Overlap, MaxClock, MaxSyncs

VARIABLES status, lastSeen, discovery, checkpoint, obs, winner, version, itemsOf, clock,
          todo, cur, began, answer, since, pages, passed, left, newest, pick, alone, syncs

Sources == INSTANCE CotikSources

SourcesConstants == Account \subseteq Nat /\ None \notin Account

Beginning == {"idle", "discoveries", "discover", "health", "orders", "shop"}
Paging == {"record", "seen", "pick", "commit"}
ShopTurn == {"fetch", "save"} \cup Paging
Busy == {"discover", "health", "shop"} \cup ShopTurn

Pages == UNION {[S -> Nat] : S \in SUBSET Order}
Pick == [order : Order, by : Account, at : Nat]

SourceTypes ==
  /\ status \in [Account -> Sources!Status]
  /\ lastSeen \in [Account -> Nat]
  /\ discovery \in [Account -> Sources!Discovery]
  /\ obs \in [Account -> [Order -> Nat]]
  /\ winner \in [Order -> Account \cup {None}]
  /\ version \in [Order -> Nat]
  /\ shown \in [Account -> [Order -> Nat]]
  /\ clock \in Nat \ {0}
  /\ pc \in [Proc -> Beginning \cup ShopTurn]
  /\ todo \in [Proc -> SUBSET Account]
  /\ cur \in [Proc -> Account \cup {None}]
  /\ began \in [Proc -> Nat]
  /\ page \in [Proc -> Pages]
  /\ passed \in [Proc -> SUBSET Order]
  /\ left \in [Proc -> SUBSET Order]
  /\ pick \in [Proc -> Pick \cup {None}]
  /\ alone \in [Proc -> BOOLEAN]

\* Accounts are dated by instants that have been.
Dated ==
  /\ \A a \in Account : lastSeen[a] <= clock
  /\ \A p \in Proc : began[p] <= clock

Observed == Sources!ProjectionWasObserved

\* What a process that pages has: records of its account, stored before it goes on.
SourceOK(p) ==
  /\ pc[p] \in Busy => cur[p] \in Account /\ cur[p] \notin todo[p]
  /\ pc[p] \in Beginning => passed[p] = {}
  /\ pc[p] \in Paging =>
       /\ left[p] \subseteq DOMAIN page[p]
       /\ \A o \in DOMAIN page[p] : page[p][o] # 0
       /\ \A o \in DOMAIN page[p] : obs[cur[p]][o] # 0 \/ (pc[p] = "record" /\ o \in left[p])
  /\ pc[p] = "seen" => left[p] = DOMAIN page[p]
  /\ pc[p] = "commit" =>
       /\ pick[p] \in Pick /\ pick[p].order \in left[p]
       /\ pick[p].at \in 1 .. obs[pick[p].by][pick[p].order]

\* Orders of the sync that are not through yet.
Open(p) ==
  IF pc[p] \in {"record", "seen"} THEN DOMAIN page[p]
  ELSE IF pc[p] \in {"pick", "commit"} THEN left[p] ELSE {}

Through(o) == winner[o] # None /\ version[o] = obs[winner[o]][o]

\* Alone, a sync's accounts stay as it lists them, and what it projects stays right.
AloneOK(p) ==
  alone[p] =>
    /\ \A q \in Proc \ {p} : pc[q] = "idle"
    /\ pc[p] \in {"orders", "shop"} \cup ShopTurn =>
         \A a \in todo[p] : status[a] = "ACTIVE"
    /\ pc[p] \in {"shop"} \cup ShopTurn => status[cur[p]] = "ACTIVE"
    /\ pc[p] \in ShopTurn =>
         /\ discovery[cur[p]] = "DISCOVERED"
         /\ \A o \in passed[p] \ Odd : o \in Open(p) \/ Through(o)
    /\ pc[p] \in {"pick", "commit"} => lastSeen[cur[p]] # 0
    /\ pc[p] = "commit" => pick[p].at = obs[pick[p].by][pick[p].order]

SourcesInv ==
  SourceTypes /\ Dated /\ Observed /\ \A p \in Proc : SourceOK(p) /\ AloneOK(p)

LEMMA PagesAre ==
  ASSUME NEW f
  PROVE  f \in Pages <=> f \in [DOMAIN f -> Nat] /\ DOMAIN f \subseteq Order
BY DEF Pages

LEMMA NothingIsPage == Sources!Nothing \in Pages /\ DOMAIN Sources!Nothing = {}
BY PagesAre DEF Sources!Nothing

LEMMA SourcesInit == ASSUME SourcesConstants, Sources!Init PROVE SourcesInv
<1>1. SourceTypes
  BY NothingIsPage DEF SourcesConstants, Sources!Init, SourceTypes, Beginning, Sources!Status,
     Sources!Discovery
<1>2. Dated
  BY DEF Sources!Init, Dated
<1>3. Observed
  BY DEF Sources!Init, Observed, Sources!ProjectionWasObserved
<1>4. ASSUME NEW p \in Proc PROVE SourceOK(p) /\ AloneOK(p)
  <2>1. pc[p] = "idle" /\ passed[p] = {} /\ alone[p] = FALSE
    BY DEF Sources!Init
  <2> QED BY <2>1 DEF SourceOK, AloneOK, Busy, Beginning, Paging, ShopTurn
<1> QED BY <1>1, <1>2, <1>3, <1>4 DEF SourcesInv

\* Observations only move forward.
ClockGrows == \A a \in Account, o \in Order : obs[a][o] <= obs'[a][o]

Elsewhere(p) ==
  \A q \in Proc \ {p} :
    /\ pc'[q] = pc[q] /\ todo'[q] = todo[q] /\ cur'[q] = cur[q] /\ page'[q] = page[q]
    /\ passed'[q] = passed[q] /\ left'[q] = left[q] /\ pick'[q] = pick[q]
    /\ alone'[q] = alone[q]

\* What the process holds of the others' state stays true when observations grow.
LEMMA ObservationHeld ==
  ASSUME SourcesInv, SourceTypes', ClockGrows, NEW q \in Proc,
         pc'[q] = pc[q], todo'[q] = todo[q], cur'[q] = cur[q], page'[q] = page[q],
         passed'[q] = passed[q], left'[q] = left[q], pick'[q] = pick[q]
  PROVE  SourceOK(q)'
<1>1. SourceOK(q) /\ SourceTypes
  BY DEF SourcesInv
<1>2. ASSUME pc[q] \in Paging, NEW o \in DOMAIN page[q]
      PROVE  obs'[cur[q]][o] # 0 \/ (pc[q] = "record" /\ o \in left[q])
  <2>1. page[q] \in Pages
    BY <1>1 DEF SourceTypes
  <2>2. o \in Order /\ cur[q] \in Account
    BY <1>1, <1>2, <2>1, PagesAre DEF SourceOK, Busy, ShopTurn
  <2>3. obs[cur[q]][o] \in Nat /\ obs'[cur[q]][o] \in Nat /\ obs[cur[q]][o] <= obs'[cur[q]][o]
    BY <1>1, <2>2 DEF SourceTypes, ClockGrows
  <2>4. obs[cur[q]][o] # 0 \/ (pc[q] = "record" /\ o \in left[q])
    BY <1>1, <1>2 DEF SourceOK
  <2> QED BY <2>3, <2>4
<1>3. ASSUME pc[q] = "commit" PROVE pick[q].at \in 1 .. obs'[pick[q].by][pick[q].order]
  <2>1. pick[q] \in Pick /\ pick[q].at \in 1 .. obs[pick[q].by][pick[q].order]
    BY <1>1, <1>3 DEF SourceOK
  <2>2. pick[q].by \in Account /\ pick[q].order \in Order
    BY <2>1 DEF Pick
  <2>3. /\ obs[pick[q].by][pick[q].order] \in Nat /\ obs'[pick[q].by][pick[q].order] \in Nat
        /\ obs[pick[q].by][pick[q].order] <= obs'[pick[q].by][pick[q].order]
    BY <1>1, <2>2 DEF SourceTypes, ClockGrows
  <2> QED BY <2>1, <2>3
<1> QED BY <1>1, <1>2, <1>3 DEF SourceOK

\* A step of one process.
LEMMA OneProcess ==
  ASSUME SourcesInv, NEW p \in Proc, pc[p] # "idle", Elsewhere(p), ClockGrows,
         SourceTypes', Dated', Observed', SourceOK(p)', AloneOK(p)'
  PROVE  SourcesInv'
<1>1. ASSUME NEW q \in Proc, q # p PROVE SourceOK(q)' /\ AloneOK(q)'
  <2>1. SourceOK(q)'
    BY <1>1, ObservationHeld DEF Elsewhere
  <2>2. ~ alone[q]
    BY <1>1 DEF SourcesInv, AloneOK
  <2> QED BY <1>1, <2>1, <2>2 DEF Elsewhere, AloneOK
<1> QED BY <1>1 DEF SourcesInv

\* Rows and observations untouched, what was observed stays.
LEMMA ObservedStays ==
  ASSUME SourcesInv, UNCHANGED <<obs, winner, version>> PROVE Observed' /\ ClockGrows
<1>1. \A a \in Account, o \in Order : obs[a][o] \in Int
  BY DEF SourcesInv, SourceTypes
<1> QED BY <1>1 DEF SourcesInv, Observed, Sources!ProjectionWasObserved, ClockGrows

\* Locals of a process whose turn ends.
LEMMA TurnEnds ==
  ASSUME SourcesInv, NEW p \in Proc, NEW label \in {"idle", "discoveries", "orders"},
         Sources!Turn(p, label)
  PROVE  /\ pc' \in [Proc -> Beginning \cup ShopTurn] /\ cur' \in [Proc -> Account \cup {None}]
         /\ page' \in [Proc -> Pages] /\ passed' \in [Proc -> SUBSET Order]
         /\ left' \in [Proc -> SUBSET Order] /\ pick' \in [Proc -> Pick \cup {None}]
         /\ pc'[p] = label /\ passed'[p] = {}
         /\ \A q \in Proc \ {p} :
              /\ pc'[q] = pc[q] /\ cur'[q] = cur[q] /\ page'[q] = page[q]
              /\ passed'[q] = passed[q] /\ left'[q] = left[q] /\ pick'[q] = pick[q]
BY NothingIsPage DEF SourcesInv, SourceTypes, Sources!Turn, Sources!Goto, Beginning

\* A turn that ends and leaves rows, observations and the accounts still to do alone.
LEMMA EndsTurn ==
  ASSUME SourcesInv, NEW p \in Proc, pc[p] # "idle",
         NEW label \in {"discoveries", "orders"}, Sources!Turn(p, label),
         label = "orders" => pc[p] \in {"shop"} \cup ShopTurn,
         SourceTypes', Dated', UNCHANGED <<obs, winner, version, todo, alone>>,
         label = "orders" => \A a \in todo[p] : status'[a] = status[a]
  PROVE  SourcesInv'
<1>1. /\ pc'[p] = label /\ passed'[p] = {}
      /\ Elsewhere(p)
  BY TurnEnds DEF Elsewhere
<1>2. Observed' /\ ClockGrows
  BY ObservedStays
<1>3. SourceOK(p)'
  BY <1>1 DEF SourceOK, Busy, Beginning, Paging, ShopTurn
<1>4. ASSUME alone[p], label = "orders" PROVE \A a \in todo[p] : status'[a] = "ACTIVE"
  BY <1>4 DEF SourcesInv, AloneOK
<1>5. ASSUME alone[p] PROVE \A q \in Proc \ {p} : pc'[q] = "idle"
  BY <1>1, <1>5 DEF SourcesInv, AloneOK, Elsewhere
<1>6. AloneOK(p)'
  BY <1>1, <1>4, <1>5 DEF AloneOK, Paging, ShopTurn
<1> QED BY <1>1, <1>2, <1>3, <1>6, OneProcess
LEMMA StartSyncStep ==
  ASSUME SourcesInv, NEW p \in Proc, NEW label \in {"discoveries", "orders"},
         NEW list \in SUBSET Account, Sources!Start(p, label, list),
         label = "orders" => \A a \in list : status[a] = "ACTIVE"
  PROVE  SourcesInv'
<1>1. PICK A : /\ A \in {list} \cup {{a} : a \in list}
               /\ todo' = [todo EXCEPT ![p] = A]
  BY DEF Sources!Start
<1>2. A \subseteq list
  BY <1>1
<1>3. /\ pc[p] = "idle" /\ pc' = [pc EXCEPT ![p] = label]
      /\ began' = [began EXCEPT ![p] = clock]
      /\ alone' = [q \in Proc |-> q = p /\ \A r \in Proc : pc[r] = "idle"]
      /\ UNCHANGED <<status, lastSeen, discovery, checkpoint, obs, winner, version, shown,
                     clock, cur, page, passed, left, pick>>
  BY DEF Sources!Start, Sources!Goto, Sources!accounts, Sources!links, Sources!rows,
     Sources!external, Sources!reading
<1>4. alone' \in [Proc -> BOOLEAN]
  BY <1>3
<1>5. SourceTypes'
  BY <1>1, <1>2, <1>3, <1>4 DEF SourcesInv, SourceTypes, Beginning
<1>6. Dated'
  BY <1>3 DEF SourcesInv, SourceTypes, Dated
<1>7. Observed' /\ ClockGrows
  BY <1>3, ObservedStays
<1>8. pc'[p] = label /\ todo'[p] = A
  BY <1>1, <1>3 DEF SourcesInv, SourceTypes
<1>9. SourceOK(p)' /\ AloneOK(p)'
  <2>1. passed'[p] = {}
    BY <1>3 DEF SourcesInv, SourceOK, Beginning
  <2>2. SourceOK(p)'
    BY <1>8, <2>1 DEF SourceOK, Busy, Paging, ShopTurn
  <2>3. ASSUME alone'[p] PROVE \A q \in Proc \ {p} : pc'[q] = "idle"
    BY <1>3, <2>3 DEF SourcesInv, SourceTypes
  <2>4. label = "orders" => \A a \in A : status'[a] = "ACTIVE"
    BY <1>2, <1>3
  <2> QED BY <1>8, <2>2, <2>3, <2>4 DEF AloneOK, Paging, ShopTurn
<1>10. ASSUME NEW q \in Proc, q # p PROVE SourceOK(q)' /\ AloneOK(q)'
  <2>1. pc'[q] = pc[q] /\ todo'[q] = todo[q]
    BY <1>1, <1>3, <1>10 DEF SourcesInv, SourceTypes
  <2>2. SourceOK(q)'
    BY <1>3, <1>5, <1>7, <2>1, ObservationHeld
  <2>3. ~ alone'[q]
    BY <1>3, <1>10
  <2> QED BY <2>2, <2>3 DEF AloneOK
<1> QED BY <1>5, <1>6, <1>7, <1>9, <1>10 DEF SourcesInv

LEMMA NextAccountStep ==
  ASSUME SourcesInv, NEW p \in Proc, NEW label, NEW first,
         \/ label = "discoveries" /\ first = "discover"
         \/ label = "orders" /\ first = "shop",
         Sources!NextAccount(p, label, first)
  PROVE  SourcesInv'
<1>1. PICK a \in todo[p] : /\ cur' = [cur EXCEPT ![p] = a]
                           /\ todo' = [todo EXCEPT ![p] = todo[p] \ {a}]
  BY DEF Sources!NextAccount
<1>2. /\ pc[p] = label /\ pc' = [pc EXCEPT ![p] = first]
      /\ UNCHANGED <<status, lastSeen, discovery, checkpoint, obs, winner, version, shown,
                     clock, began, page, passed, left, pick, alone>>
  BY DEF Sources!NextAccount, Sources!Goto, Sources!accounts, Sources!links, Sources!rows,
     Sources!external, Sources!reading
<1>3. a \in Account /\ todo[p] \subseteq Account
  BY <1>1 DEF SourcesInv, SourceTypes
<1>4. SourceTypes'
  BY <1>1, <1>2, <1>3 DEF SourcesInv, SourceTypes, Beginning
<1>5. Dated' /\ Observed' /\ ClockGrows
  BY <1>2, ObservedStays DEF SourcesInv, Dated
<1>6. pc'[p] = first /\ cur'[p] = a /\ todo'[p] = todo[p] \ {a} /\ Elsewhere(p)
  BY <1>1, <1>2 DEF SourcesInv, SourceTypes, Elsewhere
<1>7. passed'[p] = {}
  BY <1>2 DEF SourcesInv, SourceOK, Beginning
<1>8. SourceOK(p)'
  BY <1>3, <1>6, <1>7 DEF SourceOK, Busy, Paging, ShopTurn
<1>9. ASSUME alone[p], label = "orders" PROVE \A b \in todo[p] : status'[b] = "ACTIVE"
  BY <1>2, <1>9 DEF SourcesInv, AloneOK
<1>10. ASSUME alone[p] PROVE \A q \in Proc \ {p} : pc'[q] = "idle"
  BY <1>6, <1>10 DEF SourcesInv, AloneOK, Elsewhere
<1>11. AloneOK(p)'
  BY <1>1, <1>2, <1>6, <1>9, <1>10 DEF AloneOK, Paging, ShopTurn
<1> QED BY <1>2, <1>4, <1>5, <1>6, <1>8, <1>11, OneProcess

LEMMA FinishStep ==
  ASSUME SourcesInv, NEW p \in Proc, Sources!Finish(p)
  PROVE  SourcesInv'
<1>1. /\ pc[p] \in {"discoveries", "orders"} /\ pc' = [pc EXCEPT ![p] = "idle"]
      /\ began' = [began EXCEPT ![p] = 0] /\ alone' = [alone EXCEPT ![p] = FALSE]
      /\ UNCHANGED <<status, lastSeen, discovery, checkpoint, obs, winner, version, shown,
                     clock, todo, cur, page, passed, left, pick>>
  BY DEF Sources!Finish, Sources!Goto, Sources!accounts, Sources!links, Sources!rows,
     Sources!external, Sources!reading
<1>2. SourceTypes'
  BY <1>1 DEF SourcesInv, SourceTypes, Beginning
<1>3. Dated' /\ Observed' /\ ClockGrows
  BY <1>1, ObservedStays DEF SourcesInv, SourceTypes, Dated
<1>4. pc'[p] = "idle" /\ ~ alone'[p] /\ Elsewhere(p) /\ passed'[p] = {}
  BY <1>1 DEF SourcesInv, SourceTypes, SourceOK, Beginning, Elsewhere
<1>5. SourceOK(p)' /\ AloneOK(p)'
  BY <1>4 DEF SourceOK, AloneOK, Busy, Paging, ShopTurn
<1> QED BY <1>1, <1>2, <1>3, <1>4, <1>5, OneProcess

LEMMA DiscoverStep ==
  ASSUME SourcesInv, NEW p \in Proc, Sources!DiscoverAccountShops(p)
  PROVE  SourcesInv'
<1>1. /\ pc[p] = "discover" /\ pc' = [pc EXCEPT ![p] = "health"]
      /\ UNCHANGED <<status, lastSeen, obs, winner, version, shown,
                     clock, todo, cur, began, page, passed, left, pick, alone>>
  BY DEF Sources!DiscoverAccountShops, Sources!Goto, Sources!accounts, Sources!rows,
     Sources!external, Sources!reading
<1>2. discovery' \in [Account -> Sources!Discovery]
  <2>1. discovery \in [Account -> Sources!Discovery]
    BY DEF SourcesInv, SourceTypes
  <2> QED BY <2>1 DEF Sources!DiscoverAccountShops, Sources!Discovery, Sources!links
<1>3. SourceTypes'
  BY <1>1, <1>2 DEF SourcesInv, SourceTypes, Beginning
<1>4. Dated' /\ Observed' /\ ClockGrows
  BY <1>1, ObservedStays DEF SourcesInv, SourceTypes, Dated
<1>5. pc'[p] = "health" /\ Elsewhere(p)
  BY <1>1 DEF SourcesInv, SourceTypes, Elsewhere
<1>6. SourceOK(p)'
  BY <1>1, <1>5 DEF SourcesInv, SourceOK, Busy, Beginning, Paging, ShopTurn
<1>7. AloneOK(p)'
  <2>1. AloneOK(p)
    BY DEF SourcesInv
  <2> QED BY <1>1, <1>5, <2>1 DEF AloneOK, Elsewhere, Paging, ShopTurn
<1> QED BY <1>1, <1>3, <1>4, <1>5, <1>6, <1>7, OneProcess

LEMMA WriteHealthStep ==
  ASSUME SourcesInv, NEW p \in Proc, Sources!WriteHealth(p)
  PROVE  SourcesInv'
<1>1. /\ pc[p] = "health" /\ Sources!Turn(p, "discoveries")
      /\ UNCHANGED <<discovery, checkpoint, obs, winner, version, shown, clock, todo, began, alone>>
  BY DEF Sources!WriteHealth, Sources!links, Sources!rows, Sources!external
<1>2. /\ status' \in [Account -> Sources!Status] /\ lastSeen' \in [Account -> Nat]
      /\ \A a \in Account : lastSeen'[a] <= clock
  <2>1. /\ status \in [Account -> Sources!Status] /\ lastSeen \in [Account -> Nat]
        /\ began[p] \in Nat /\ began[p] <= clock /\ \A a \in Account : lastSeen[a] <= clock
    BY DEF SourcesInv, SourceTypes, Dated
  <2> QED BY <2>1 DEF Sources!WriteHealth, Sources!Status
<1>3. SourceTypes'
  BY <1>1, <1>2, TurnEnds DEF SourcesInv, SourceTypes
<1>4. Dated'
  BY <1>1, <1>2 DEF SourcesInv, Dated
<1> QED BY <1>1, <1>3, <1>4, EndsTurn

LEMMA PickShopStep ==
  ASSUME SourcesInv, NEW p \in Proc, Sources!PickShop(p)
  PROVE  SourcesInv'
<1>1. /\ pc[p] = "shop"
      /\ UNCHANGED <<status, lastSeen, discovery, checkpoint, obs, winner, version, shown,
                     clock, todo, began, alone>>
  BY DEF Sources!PickShop, Sources!accounts, Sources!links, Sources!rows, Sources!external
<1>2. CASE discovery[cur[p]] = "DISCOVERED"
  <2>1. pc' = [pc EXCEPT ![p] = "fetch"] /\ UNCHANGED <<cur, page, passed, left, pick>>
    BY <1>2 DEF Sources!PickShop, Sources!Goto
  <2>2. SourceTypes'
    BY <1>1, <2>1 DEF SourcesInv, SourceTypes, ShopTurn
  <2>3. Dated' /\ Observed' /\ ClockGrows
    BY <1>1, ObservedStays DEF SourcesInv, SourceTypes, Dated
  <2>4. pc'[p] = "fetch" /\ Elsewhere(p)
    BY <1>1, <2>1 DEF SourcesInv, SourceTypes, Elsewhere
  <2>5. SourceOK(p) /\ AloneOK(p) /\ passed[p] = {}
    BY <1>1 DEF SourcesInv, SourceOK, Beginning
  <2>6. SourceOK(p)'
    BY <1>1, <2>1, <2>4, <2>5 DEF SourceOK, Busy, Beginning, Paging, ShopTurn
  <2>7. AloneOK(p)'
    BY <1>1, <1>2, <2>1, <2>4, <2>5 DEF AloneOK, Elsewhere, Paging, ShopTurn
  <2> QED BY <1>1, <2>2, <2>3, <2>4, <2>6, <2>7, OneProcess
<1>3. CASE discovery[cur[p]] # "DISCOVERED"
  <2>1. Sources!Turn(p, "orders")
    BY <1>3 DEF Sources!PickShop
  <2>2. SourceTypes'
    BY <1>1, <2>1, TurnEnds DEF SourcesInv, SourceTypes
  <2>3. Dated'
    BY <1>1 DEF SourcesInv, Dated
  <2> QED BY <1>1, <2>1, <2>2, <2>3, EndsTurn
<1> QED BY <1>2, <1>3

LEMMA FetchPageStep ==
  ASSUME SourcesInv, NEW p \in Proc, Sources!FetchPage(p)
  PROVE  SourcesInv'
<1>1. PICK S \in SUBSET (Sources!Listed(p) \ passed[p]) :
        /\ page' = [page EXCEPT ![p] = [o \in S \ Odd |-> shown[cur[p]][o]]]
        /\ left' = [left EXCEPT ![p] = S \ Odd]
        /\ passed' = [passed EXCEPT ![p] = passed[p] \cup S]
        /\ pc' = [pc EXCEPT ![p] = IF S \subseteq Odd THEN "save" ELSE "record"]
  BY DEF Sources!FetchPage, Sources!Goto
<1>2. /\ pc[p] = "fetch"
      /\ UNCHANGED <<status, lastSeen, discovery, checkpoint, obs, winner, version, shown,
                     clock, todo, cur, began, pick, alone>>
  BY DEF Sources!FetchPage, Sources!accounts, Sources!links, Sources!rows, Sources!external
<1>3. SourceOK(p) /\ AloneOK(p) /\ cur[p] \in Account
  BY <1>2 DEF SourcesInv, SourceOK, Busy, ShopTurn
<1>4. S \subseteq Order /\ \A o \in S : shown[cur[p]][o] \in Nat /\ shown[cur[p]][o] # 0
  BY <1>3 DEF Sources!Listed, SourcesInv, SourceTypes
<1> DEFINE read == [o \in S \ Odd |-> shown[cur[p]][o]]
<1>5. read \in Pages /\ DOMAIN read = S \ Odd /\ \A o \in S \ Odd : read[o] # 0
  BY <1>4, PagesAre
<1>6. page' = [page EXCEPT ![p] = read]
  BY <1>1
<1> HIDE DEF read
<1>7. SourceTypes'
  BY ZenonT(40), <1>1, <1>2, <1>4, <1>5, <1>6 DEF SourcesInv, SourceTypes, ShopTurn, Paging
<1>8. Dated' /\ Observed' /\ ClockGrows
  BY <1>2, ObservedStays DEF SourcesInv, SourceTypes, Dated
<1>9. /\ pc'[p] = (IF S \subseteq Odd THEN "save" ELSE "record")
      /\ page'[p] = read /\ left'[p] = S \ Odd /\ passed'[p] = passed[p] \cup S
      /\ Elsewhere(p)
  BY <1>1, <1>2, <1>6 DEF SourcesInv, SourceTypes, Elsewhere
<1>10. SourceOK(p)'
  BY <1>2, <1>3, <1>5, <1>9 DEF SourceOK, Busy, Beginning, Paging, ShopTurn
<1>11. \A o \in passed'[p] \ Odd : o \in passed[p] \ Odd \/ o \in Open(p)'
  BY <1>5, <1>9 DEF Open
<1>12. AloneOK(p)'
  <2>1. ASSUME alone[p], NEW o \in passed[p] \ Odd PROVE Through(o)'
    BY <1>2, <1>3, <2>1 DEF AloneOK, Open, Paging, ShopTurn, Through
  <2> QED BY <1>2, <1>3, <1>9, <1>11, <2>1 DEF AloneOK, Elsewhere, Paging, ShopTurn
<1> QED BY <1>2, <1>7, <1>8, <1>9, <1>10, <1>12, OneProcess
LEMMA RecordStep ==
  ASSUME SourcesConstants, SourcesInv, NEW p \in Proc, Sources!RecordObservation(p)
  PROVE  SourcesInv'
<1> DEFINE a == cur[p]
<1>1. PICK o \in left[p] :
        /\ obs' = [obs EXCEPT ![a][o] = IF Sources!Advances(a, o, page[p][o])
                                        THEN page[p][o] ELSE obs[a][o]]
        /\ left' = [left EXCEPT ![p] = IF left[p] = {o} THEN DOMAIN page[p] ELSE left[p] \ {o}]
        /\ pc' = [pc EXCEPT ![p] = IF left[p] = {o} THEN "seen" ELSE "record"]
  BY DEF Sources!RecordObservation, Sources!Goto
<1>2. /\ pc[p] = "record"
      /\ UNCHANGED <<status, lastSeen, discovery, checkpoint, winner, version, shown,
                     clock, todo, cur, began, page, passed, pick, alone>>
  BY DEF Sources!RecordObservation, Sources!accounts, Sources!links, Sources!rows,
     Sources!external
<1>3. /\ SourceOK(p) /\ AloneOK(p) /\ a \in Account
      /\ left[p] \subseteq DOMAIN page[p] /\ \A n \in DOMAIN page[p] : page[p][n] # 0
  BY <1>2 DEF SourcesInv, SourceOK, Busy, ShopTurn, Paging
<1>4. page[p] \in [DOMAIN page[p] -> Nat] /\ DOMAIN page[p] \subseteq Order
  BY PagesAre DEF SourcesInv, SourceTypes
<1>5. o \in Order /\ page[p][o] \in Nat /\ page[p][o] # 0 /\ obs[a][o] \in Nat
  BY <1>1, <1>3, <1>4 DEF SourcesInv, SourceTypes
<1> DEFINE saved == IF Sources!Advances(a, o, page[p][o]) THEN page[p][o] ELSE obs[a][o]
<1>6. saved \in Nat /\ saved # 0 /\ obs[a][o] <= saved
  BY <1>5 DEF Sources!Advances
<1>7. /\ obs' \in [Account -> [Order -> Nat]]
      /\ obs'[a][o] = saved
      /\ \A b \in Account, n \in Order : (b = a /\ n = o) \/ obs'[b][n] = obs[b][n]
  <2>1. obs \in [Account -> [Order -> Nat]] /\ obs' = [obs EXCEPT ![a][o] = saved]
    BY <1>1 DEF SourcesInv, SourceTypes
  <2> HIDE DEF saved
  <2>2. obs' = [obs EXCEPT ![a] = [obs[a] EXCEPT ![o] = saved]]
    BY <2>1
  <2>3. [obs[a] EXCEPT ![o] = saved] \in [Order -> Nat]
    BY <1>3, <1>6, <2>1
  <2>4. obs' \in [Account -> [Order -> Nat]]
    BY <2>1, <2>2, <2>3
  <2>5. obs'[a][o] = saved
    BY <1>3, <1>5, <2>1
  <2>6. ASSUME NEW b \in Account, NEW n \in Order, ~ (b = a /\ n = o)
        PROVE  obs'[b][n] = obs[b][n]
    <3>1. CASE b = a
      BY <1>3, <2>1, <2>2, <2>6, <3>1
    <3>2. CASE b # a
      BY <2>1, <2>2, <3>2
    <3> QED BY <3>1, <3>2
  <2> QED BY <2>4, <2>5, <2>6
<1> HIDE DEF saved
<1>8. ClockGrows
  <2>1. ASSUME NEW b \in Account, NEW n \in Order PROVE obs[b][n] <= obs'[b][n]
    <3>1. obs[b][n] \in Nat
      BY DEF SourcesInv, SourceTypes
    <3> QED BY <1>6, <1>7, <3>1
  <2> QED BY <2>1 DEF ClockGrows
<1>9. DOMAIN page[p] \in SUBSET Order /\ left[p] \in SUBSET Order
  BY <1>3, <1>4
<1>10. SourceTypes'
  BY <1>1, <1>2, <1>7, <1>9 DEF SourcesInv, SourceTypes, ShopTurn, Paging
<1>11. Dated'
  BY <1>2 DEF SourcesInv, Dated
<1>12. Observed'
  <2>1. ASSUME NEW n \in Order, winner[n] # None PROVE version[n] \in 1 .. obs'[winner[n]][n]
    <3>1. winner[n] \in Account /\ version[n] \in 1 .. obs[winner[n]][n]
      BY <2>1 DEF SourcesInv, SourceTypes, Observed, Sources!ProjectionWasObserved
    <3>2. /\ obs[winner[n]][n] \in Nat /\ obs'[winner[n]][n] \in Nat
          /\ obs[winner[n]][n] <= obs'[winner[n]][n]
      BY <1>7, <1>8, <3>1 DEF SourcesInv, SourceTypes, ClockGrows
    <3> QED BY <3>1, <3>2
  <2> QED BY <1>2, <2>1 DEF Observed, Sources!ProjectionWasObserved
<1>13. /\ pc'[p] = (IF left[p] = {o} THEN "seen" ELSE "record")
       /\ left'[p] = (IF left[p] = {o} THEN DOMAIN page[p] ELSE left[p] \ {o})
       /\ Elsewhere(p)
  BY <1>1, <1>2 DEF SourcesInv, SourceTypes, Elsewhere
<1>14. ASSUME NEW n \in DOMAIN page[p] PROVE obs'[a][n] # 0 \/ (n \in left[p] /\ n # o)
  <2>1. obs[a][n] # 0 \/ n \in left[p]
    BY <1>2, <1>3 DEF SourceOK, Paging
  <2> QED BY <1>3, <1>4, <1>6, <1>7, <2>1
<1>15. SourceOK(p)'
  <2>1. left'[p] \subseteq DOMAIN page[p]
    BY <1>3, <1>13
  <2>2. \A n \in DOMAIN page[p] : obs'[a][n] # 0 \/ (pc'[p] = "record" /\ n \in left'[p])
    BY <1>13, <1>14
  <2>3. pc'[p] \in {"record", "seen"} /\ (pc'[p] = "seen" => left'[p] = DOMAIN page[p])
    BY <1>13
  <2> QED BY <1>2, <1>3, <2>1, <2>2, <2>3 DEF SourceOK, Busy, Beginning, Paging, ShopTurn
<1>16. AloneOK(p)'
  <2>1. pc'[p] \in {"record", "seen"} /\ Open(p)' = DOMAIN page[p] /\ Open(p) = DOMAIN page[p]
    BY <1>2, <1>13 DEF Open
  <2>2. ASSUME alone[p], NEW n \in passed[p] \ Odd PROVE n \in DOMAIN page[p] \/ Through(n)'
    <3>1. n \in DOMAIN page[p] \/ Through(n)
      BY <1>2, <1>3, <2>1, <2>2 DEF AloneOK, Paging, ShopTurn
    <3>2. ASSUME n \notin DOMAIN page[p], Through(n) PROVE Through(n)'
      <4>1. n # o /\ n \in Order /\ winner[n] \in Account
        BY <1>1, <1>3, <2>2, <3>2 DEF SourcesInv, SourceTypes, Through
      <4>2. obs'[winner[n]][n] = obs[winner[n]][n]
        BY <1>7, <4>1
      <4> QED BY <1>2, <3>2, <4>2 DEF Through
    <3> QED BY <3>1, <3>2
  <2> QED BY <1>2, <1>3, <1>13, <2>1, <2>2 DEF AloneOK, Elsewhere, Paging, ShopTurn
<1> QED BY <1>2, <1>8, <1>10, <1>11, <1>12, <1>13, <1>15, <1>16, OneProcess

LEMMA MarkSeenStep ==
  ASSUME SourcesInv, NEW p \in Proc, Sources!MarkSeen(p)
  PROVE  SourcesInv'
<1>1. /\ pc[p] = "seen" /\ pc' = [pc EXCEPT ![p] = "pick"]
      /\ status' = [status EXCEPT ![cur[p]] = "ACTIVE"]
      /\ lastSeen' = [lastSeen EXCEPT ![cur[p]] = clock]
      /\ UNCHANGED <<discovery, checkpoint, obs, winner, version, shown, clock, todo, cur,
                     began, page, passed, left, pick, alone>>
  BY DEF Sources!MarkSeen, Sources!Goto, Sources!links, Sources!rows, Sources!external,
     Sources!locals, Sources!reading
<1>2. SourceOK(p) /\ AloneOK(p) /\ cur[p] \in Account /\ cur[p] \notin todo[p]
  BY <1>1 DEF SourcesInv, SourceOK, Busy, ShopTurn, Paging
<1>3. SourceTypes'
  BY <1>1 DEF SourcesInv, SourceTypes, Sources!Status, ShopTurn, Paging
<1>4. Dated'
  BY <1>1 DEF SourcesInv, SourceTypes, Dated
<1>5. Observed' /\ ClockGrows
  BY <1>1, ObservedStays
<1>6. /\ pc'[p] = "pick" /\ Elsewhere(p)
      /\ status'[cur[p]] = "ACTIVE" /\ lastSeen'[cur[p]] # 0
      /\ \A b \in todo[p] : status'[b] = status[b]
  BY <1>1, <1>2 DEF SourcesInv, SourceTypes, Elsewhere
<1>7. SourceOK(p)'
  BY <1>1, <1>2, <1>6 DEF SourceOK, Busy, Beginning, Paging, ShopTurn
<1>8. AloneOK(p)'
  <2>1. Open(p)' = Open(p)
    BY <1>1, <1>2, <1>6 DEF Open, SourceOK
  <2>2. ASSUME alone[p], NEW o \in passed[p] \ Odd PROVE o \in Open(p) \/ Through(o)'
    BY <1>1, <1>2, <2>2 DEF AloneOK, Through, Paging, ShopTurn
  <2> QED BY <1>1, <1>2, <1>6, <2>1, <2>2 DEF AloneOK, Elsewhere, Paging, ShopTurn
<1> QED BY <1>1, <1>3, <1>4, <1>5, <1>6, <1>7, <1>8, OneProcess

\* Of usable accounts that observed an order one wins.
LEMMA OneWins ==
  ASSUME SourcesConstants, SourcesInv, NEW o \in Order, NEW a \in Account,
         Sources!Eligible(a), obs[a][o] # 0
  PROVE  \E b \in Account : Sources!Wins(b, o)
<1> DEFINE C == {b \in Account : Sources!Eligible(b) /\ obs[b][o] # 0}
           T == {lastSeen[b] : b \in C}
<1>1. T \subseteq 0 .. clock /\ T # {} /\ clock \in Nat
  <2>1. \A b \in Account : lastSeen[b] \in Nat /\ lastSeen[b] <= clock /\ clock \in Nat
    BY DEF SourcesInv, SourceTypes, Dated
  <2> QED BY <2>1
<1>2. PICK t \in T : \A u \in T : u <= t
  <2> HIDE DEF T
  <2> QED BY <1>1, HasGreatest
<1> DEFINE L == {b \in C : lastSeen[b] = t}
<1>3. L \subseteq Nat /\ L # {}
  BY <1>2 DEF SourcesConstants
<1>4. PICK b \in L : \A c \in L : b <= c
  <2> HIDE DEF L
  <2> QED BY <1>3, HasLeast
<1>5. ASSUME NEW c \in C
      PROVE  lastSeen[c] < lastSeen[b] \/ (lastSeen[c] = lastSeen[b] /\ b <= c)
  <2>1. lastSeen[c] <= t /\ lastSeen[b] = t /\ lastSeen[c] \in Nat /\ t \in Nat
    BY <1>1, <1>2, <1>4
  <2>2. lastSeen[c] = t => b <= c
    BY <1>4
  <2> QED BY <2>1, <2>2
<1>6. Sources!Wins(b, o)
  BY <1>4, <1>5 DEF Sources!Wins
<1> QED BY <1>4, <1>6

LEMMA PickWinnerStep ==
  ASSUME SourcesConstants, SourcesInv, NEW p \in Proc, Sources!PickWinner(p)
  PROVE  SourcesInv'
<1>1. /\ pc[p] = "pick"
      /\ UNCHANGED <<status, lastSeen, discovery, checkpoint, obs, winner, version, shown,
                     clock, todo, cur, began, page, passed, alone>>
  BY DEF Sources!PickWinner, Sources!accounts, Sources!links, Sources!rows, Sources!external
<1>2. /\ SourceOK(p) /\ AloneOK(p) /\ cur[p] \in Account
      /\ left[p] \subseteq DOMAIN page[p] /\ DOMAIN page[p] \subseteq Order
  BY <1>1, PagesAre DEF SourcesInv, SourceTypes, SourceOK, Busy, ShopTurn, Paging
<1>3. Dated' /\ Observed' /\ ClockGrows
  BY <1>1, ObservedStays DEF SourcesInv, Dated
<1>4. PICK o \in left[p] :
        \/ \E a \in Account :
             /\ Sources!Wins(a, o)
             /\ pick' = [pick EXCEPT ![p] = [order |-> o, by |-> a, at |-> obs[a][o]]]
             /\ pc' = [pc EXCEPT ![p] = "commit"]
             /\ UNCHANGED left
        \/ /\ \A a \in Account : ~ Sources!Wins(a, o)
           /\ left' = [left EXCEPT ![p] = left[p] \ {o}]
           /\ pc' = [pc EXCEPT ![p] = Sources!AfterOrder(p, o)]
           /\ UNCHANGED pick
  BY DEF Sources!PickWinner, Sources!Projected, Sources!Goto, Sources!Skipped
<1>5. o \in Order /\ o \in DOMAIN page[p]
  BY <1>2
<1>6. ASSUME NEW a \in Account, Sources!Wins(a, o),
             pick' = [pick EXCEPT ![p] = [order |-> o, by |-> a, at |-> obs[a][o]]],
             pc' = [pc EXCEPT ![p] = "commit"], UNCHANGED left
      PROVE  SourcesInv'
  <2> DEFINE won == [order |-> o, by |-> a, at |-> obs[a][o]]
  <2>1. obs[a][o] \in Nat /\ obs[a][o] # 0
    BY <1>5, <1>6 DEF Sources!Wins, SourcesInv, SourceTypes
  <2>2. won \in Pick /\ won.order = o /\ won.by = a /\ won.at = obs[a][o]
    BY <1>5, <2>1 DEF Pick
  <2>3. pick' = [pick EXCEPT ![p] = won]
    BY <1>6
  <2> HIDE DEF won
  <2>4. SourceTypes'
    BY <1>1, <1>6, <2>2, <2>3 DEF SourcesInv, SourceTypes, ShopTurn, Paging
  <2>5. pc'[p] = "commit" /\ pick'[p] = won /\ Elsewhere(p)
    BY <1>1, <1>6, <2>3 DEF SourcesInv, SourceTypes, Elsewhere
  <2>6. SourceOK(p)'
    BY <1>1, <1>2, <1>6, <2>1, <2>2, <2>5
       DEF SourceOK, Busy, Beginning, Paging, ShopTurn
  <2>7. AloneOK(p)'
    <3>1. Open(p)' = Open(p)
      BY <1>1, <1>6, <2>5 DEF Open
    <3>2. ASSUME alone[p], NEW n \in passed[p] \ Odd PROVE n \in Open(p) \/ Through(n)'
      BY <1>1, <1>2, <3>2 DEF AloneOK, Through, Paging, ShopTurn
    <3>3. pick'[p].at = obs'[pick'[p].by][pick'[p].order]
      BY <1>1, <2>2, <2>5
    <3> QED BY <1>1, <1>2, <2>5, <3>1, <3>2, <3>3 DEF AloneOK, Elsewhere, Paging, ShopTurn
  <2> QED BY <1>1, <1>3, <2>4, <2>5, <2>6, <2>7, OneProcess
<1>7. ASSUME \A a \in Account : ~ Sources!Wins(a, o),
             left' = [left EXCEPT ![p] = left[p] \ {o}],
             pc' = [pc EXCEPT ![p] = Sources!AfterOrder(p, o)], UNCHANGED pick
      PROVE  SourcesInv'
  <2>1. Sources!AfterOrder(p, o) \in {"pick", "save", "fetch"}
    BY DEF Sources!AfterOrder
  <2>2. ~ alone[p]
    <3>1. SUFFICES ASSUME alone[p] PROVE FALSE
      OBVIOUS
    <3>2. Sources!Eligible(cur[p])
      BY <1>1, <1>2, <3>1 DEF AloneOK, Sources!Eligible, ShopTurn, Paging
    <3>3. obs[cur[p]][o] # 0
      BY <1>1, <1>2, <1>5 DEF SourceOK, Paging
    <3> QED BY <1>2, <1>5, <1>7, <3>2, <3>3, OneWins
  <2>3. SourceTypes'
    BY <1>1, <1>7, <2>1 DEF SourcesInv, SourceTypes, ShopTurn, Paging
  <2>4. /\ pc'[p] \in {"pick", "save", "fetch"} /\ left'[p] \subseteq left[p]
        /\ Elsewhere(p)
    BY <1>1, <1>7, <2>1 DEF SourcesInv, SourceTypes, Elsewhere
  <2>5. SourceOK(p)'
    BY <1>1, <1>2, <2>4 DEF SourceOK, Busy, Beginning, Paging, ShopTurn
  <2>6. AloneOK(p)'
    BY <1>1, <2>2 DEF AloneOK
  <2> QED BY <1>1, <1>3, <2>3, <2>4, <2>5, <2>6, OneProcess
<1> QED BY <1>4, <1>6, <1>7

LEMMA ProjectStep ==
  ASSUME SourcesConstants, SourcesInv, NEW p \in Proc, Sources!ProjectWinningOrder(p)
  PROVE  SourcesInv'
<1> DEFINE w == pick[p]
<1>1. /\ pc[p] = "commit"
      /\ winner' = [winner EXCEPT ![w.order] = w.by]
      /\ version' = [version EXCEPT ![w.order] = w.at]
      /\ left' = [left EXCEPT ![p] = left[p] \ {w.order}]
      /\ pick' = [pick EXCEPT ![p] = None]
      /\ pc' = [pc EXCEPT ![p] = Sources!AfterOrder(p, w.order)]
      /\ UNCHANGED <<status, lastSeen, discovery, checkpoint, obs, shown, clock, todo, cur,
                     began, page, passed, alone>>
  BY DEF Sources!ProjectWinningOrder, Sources!Skipped, Sources!Goto, Sources!accounts,
     Sources!links, Sources!external
<1>2. /\ SourceOK(p) /\ AloneOK(p) /\ cur[p] \in Account
      /\ w \in Pick /\ w.order \in left[p] /\ w.at \in 1 .. obs[w.by][w.order]
  BY <1>1 DEF SourcesInv, SourceOK, Busy, ShopTurn, Paging
<1>3. w.order \in Order /\ w.by \in Account /\ w.at \in Nat
  BY <1>2 DEF Pick
<1>4. Sources!AfterOrder(p, w.order) \in {"pick", "save", "fetch"}
  BY DEF Sources!AfterOrder
<1>5. SourceTypes'
  BY <1>1, <1>3, <1>4 DEF SourcesInv, SourceTypes, ShopTurn, Paging
<1>6. Dated' /\ ClockGrows
  <2>1. \A a \in Account, o \in Order : obs[a][o] \in Int
    BY DEF SourcesInv, SourceTypes
  <2> QED BY <1>1, <2>1 DEF SourcesInv, Dated, ClockGrows
<1>7. /\ winner'[w.order] = w.by /\ version'[w.order] = w.at
      /\ \A n \in Order \ {w.order} : winner'[n] = winner[n] /\ version'[n] = version[n]
  BY <1>1, <1>3 DEF SourcesInv, SourceTypes
<1>8. Observed'
  BY <1>1, <1>2, <1>7 DEF SourcesInv, Observed, Sources!ProjectionWasObserved
<1>9. /\ pc'[p] = Sources!AfterOrder(p, w.order) /\ left'[p] = left[p] \ {w.order}
      /\ Elsewhere(p)
  BY <1>1 DEF SourcesInv, SourceTypes, Elsewhere
<1>10. SourceOK(p)'
  BY <1>1, <1>2, <1>4, <1>9 DEF SourceOK, Busy, Beginning, Paging, ShopTurn
<1>11. AloneOK(p)'
  <2>1. Open(p)' = left[p] \ {w.order} /\ Open(p) = left[p]
    BY <1>1, <1>4, <1>9 DEF Open, Sources!AfterOrder
  <2>2. ASSUME alone[p], NEW n \in passed[p] \ Odd PROVE n \in Open(p)' \/ Through(n)'
    <3>1. n \in left[p] \/ Through(n)
      BY <1>1, <1>2, <2>1, <2>2 DEF AloneOK, Paging, ShopTurn
    <3>2. n \in Order
      BY <2>2 DEF SourcesInv, SourceTypes
    <3>3. CASE n = w.order
      <4>1. w.at = obs[w.by][w.order] /\ w.by # None
        BY <1>1, <1>2, <1>3, <2>2 DEF AloneOK, SourcesConstants
      <4> QED BY <1>1, <1>7, <3>3, <4>1 DEF Through
    <3>4. CASE n # w.order
      BY <1>1, <1>7, <2>1, <3>1, <3>2, <3>4 DEF Through
    <3> QED BY <3>3, <3>4
  <2> QED BY <1>1, <1>2, <1>4, <1>9, <2>2 DEF AloneOK, Elsewhere, Paging, ShopTurn
<1> QED BY <1>1, <1>5, <1>6, <1>8, <1>9, <1>10, <1>11, OneProcess

LEMMA UpdateCheckpointStep ==
  ASSUME SourcesInv, NEW p \in Proc, Sources!UpdateCheckpoint(p)
  PROVE  SourcesInv'
<1>1. /\ pc[p] = "save" /\ Sources!Turn(p, "orders")
      /\ UNCHANGED <<status, lastSeen, discovery, obs, winner, version, shown, clock, todo,
                     began, alone>>
  BY DEF Sources!UpdateCheckpoint, Sources!accounts, Sources!rows, Sources!external
<1>2. SourceTypes' /\ Dated'
  BY <1>1, TurnEnds DEF SourcesInv, SourceTypes, Dated
<1> QED BY <1>1, <1>2, EndsTurn DEF ShopTurn

\* What fails, ends the turn; what an account is said to be, is of the one at hand.
LEMMA FailStep ==
  ASSUME SourcesInv, NEW p \in Proc, Sources!ShopFails(p) \/ Sources!AccountFails(p)
  PROVE  SourcesInv'
<1>1. /\ pc[p] \in {"shop"} \cup ShopTurn /\ Sources!Turn(p, "orders")
      /\ UNCHANGED <<lastSeen, obs, winner, version, shown, clock, todo, began, alone>>
  BY DEF Sources!ShopFails, Sources!AccountFails, Sources!accounts, Sources!links,
     Sources!rows, Sources!external, ShopTurn, Paging
<1>2. cur[p] \in Account /\ cur[p] \notin todo[p]
  BY <1>1 DEF SourcesInv, SourceOK, Busy
<1>3. /\ discovery' \in [Account -> Sources!Discovery]
      /\ status' \in [Account -> Sources!Status]
      /\ \A a \in Account \ {cur[p]} : status'[a] = status[a]
  <2>1. /\ discovery \in [Account -> Sources!Discovery]
        /\ status \in [Account -> Sources!Status]
    BY DEF SourcesInv, SourceTypes
  <2> QED BY <2>1 DEF Sources!ShopFails, Sources!AccountFails, Sources!accounts,
             Sources!links, Sources!Discovery, Sources!Status
<1>4. SourceTypes' /\ Dated'
  BY <1>1, <1>3, TurnEnds DEF SourcesInv, SourceTypes, Dated
<1>5. \A a \in todo[p] : status'[a] = status[a]
  BY <1>2, <1>3 DEF SourcesInv, SourceTypes
<1> QED BY <1>1, <1>4, <1>5, EndsTurn DEF ShopTurn, Paging

LEMMA SyncCrashStep ==
  ASSUME SourcesInv, NEW p \in Proc, Sources!Crash(p)
  PROVE  SourcesInv'
<1>1. /\ pc[p] # "idle" /\ Sources!Turn(p, "idle")
      /\ todo' = [todo EXCEPT ![p] = {}] /\ began' = [began EXCEPT ![p] = 0]
      /\ alone' = [alone EXCEPT ![p] = FALSE]
      /\ UNCHANGED <<status, lastSeen, discovery, obs, winner, version, shown, clock>>
  BY DEF Sources!Crash, Sources!accounts, Sources!links, Sources!rows, Sources!external
<1>2. SourceTypes'
  BY <1>1, TurnEnds DEF SourcesInv, SourceTypes
<1>3. Dated' /\ Observed' /\ ClockGrows
  BY <1>1, ObservedStays DEF SourcesInv, SourceTypes, Dated
<1>4. pc'[p] = "idle" /\ passed'[p] = {} /\ ~ alone'[p] /\ Elsewhere(p)
  BY <1>1, TurnEnds DEF SourcesInv, SourceTypes, Elsewhere
<1>5. SourceOK(p)' /\ AloneOK(p)'
  BY <1>4 DEF SourceOK, AloneOK, Busy, Beginning, Paging, ShopTurn
<1> QED BY <1>1, <1>2, <1>3, <1>4, <1>5, OneProcess

\* What happens beside the syncs.
LEMMA BesideStep ==
  ASSUME SourcesInv,
         \/ \E a \in Account : Sources!DisableAccount(a)
         \/ \E a \in Account, o \in Order : Sources!OrderShown(a, o)
         \/ Sources!Tick
         \/ UNCHANGED Sources!vars
  PROVE  SourcesInv'
<1>1. /\ UNCHANGED <<lastSeen, discovery, obs, winner, version, pc, todo, cur, began, page,
                     passed, left, pick>>
      /\ clock' \in {clock, clock + 1}
  BY DEF Sources!DisableAccount, Sources!OrderShown, Sources!Tick, Sources!vars,
     Sources!accounts, Sources!links, Sources!rows, Sources!external, Sources!locals,
     Sources!reading
<1>2. \/ alone' = [p \in Proc |-> FALSE]
      \/ UNCHANGED <<alone, status>>
  BY DEF Sources!DisableAccount, Sources!OrderShown, Sources!Tick, Sources!vars,
     Sources!accounts, Sources!locals
<1>3. status' \in [Account -> Sources!Status] /\ shown' \in [Account -> [Order -> Nat]]
  <2>1. /\ status \in [Account -> Sources!Status] /\ shown \in [Account -> [Order -> Nat]]
        /\ clock \in Nat
    BY DEF SourcesInv, SourceTypes
  <2>2. ASSUME NEW a \in Account, Sources!DisableAccount(a)
        PROVE  status' \in [Account -> Sources!Status] /\ shown' = shown
    BY <2>1, <2>2 DEF Sources!DisableAccount, Sources!Status, Sources!external
  <2>3. ASSUME NEW a \in Account, NEW o \in Order, Sources!OrderShown(a, o)
        PROVE  status' = status /\ shown' \in [Account -> [Order -> Nat]]
    <3>1. /\ shown' = [shown EXCEPT ![a][o] = clock] /\ UNCHANGED status
      BY <2>3 DEF Sources!OrderShown, Sources!accounts
    <3>2. [shown[a] EXCEPT ![o] = clock] \in [Order -> Nat]
      BY <2>1
    <3>3. shown' = [shown EXCEPT ![a] = [shown[a] EXCEPT ![o] = clock]]
      BY <3>1
    <3> QED BY <2>1, <3>1, <3>2, <3>3
  <2>4. CASE Sources!Tick \/ UNCHANGED Sources!vars
    BY <2>1, <2>4 DEF Sources!Tick, Sources!vars, Sources!accounts, Sources!external
  <2> QED BY <2>1, <2>2, <2>3, <2>4
<1>4. alone' \in [Proc -> BOOLEAN]
  BY <1>2 DEF SourcesInv, SourceTypes
<1>5. SourceTypes'
  BY <1>1, <1>3, <1>4 DEF SourcesInv, SourceTypes
<1>6. Dated'
  BY <1>1 DEF SourcesInv, SourceTypes, Dated
<1>7. Observed' /\ ClockGrows
  BY <1>1, ObservedStays
<1>8. ASSUME NEW p \in Proc PROVE SourceOK(p)' /\ AloneOK(p)'
  <2>1. SourceOK(p)'
    BY <1>1, <1>5, <1>7, ObservationHeld
  <2>2. CASE alone' = [q \in Proc |-> FALSE]
    BY <2>1, <2>2 DEF AloneOK
  <2>3. CASE UNCHANGED <<alone, status>>
    <3>1. AloneOK(p)
      BY DEF SourcesInv
    <3>2. AloneOK(p)'
      BY <1>1, <2>3, <3>1 DEF AloneOK, Open, Through
    <3> QED BY <2>1, <3>2
  <2> QED BY <1>2, <2>2, <2>3
<1> QED BY <1>5, <1>6, <1>7, <1>8 DEF SourcesInv

LEMMA SourcesNext ==
  ASSUME SourcesConstants, SourcesInv, [Sources!Next]_Sources!vars PROVE SourcesInv'
<1>1. ASSUME NEW p \in Proc, Sources!Sync(p) PROVE SourcesInv'
  <2>1. CASE Sources!StartDiscovery(p)
    BY <2>1, StartSyncStep DEF Sources!StartDiscovery
  <2>2. CASE Sources!StartOrders(p)
    BY <2>2, StartSyncStep DEF Sources!StartOrders
  <2>3. CASE Sources!NextAccount(p, "discoveries", "discover")
    BY <2>3, NextAccountStep
  <2>4. CASE Sources!NextAccount(p, "orders", "shop")
    BY <2>4, NextAccountStep
  <2> QED BY <1>1, <2>1, <2>2, <2>3, <2>4, DiscoverStep, WriteHealthStep, PickShopStep,
             FetchPageStep, RecordStep, MarkSeenStep, PickWinnerStep, ProjectStep,
             UpdateCheckpointStep, FinishStep
          DEF Sources!Sync
<1>2. ASSUME NEW p \in Proc, Sources!ShopFails(p) \/ Sources!AccountFails(p) \/ Sources!Crash(p)
      PROVE  SourcesInv'
  BY <1>2, FailStep, SyncCrashStep
<1>3. CASE \/ \E a \in Account : Sources!DisableAccount(a)
           \/ \E a \in Account, o \in Order : Sources!OrderShown(a, o)
           \/ Sources!Tick
           \/ UNCHANGED Sources!vars
  BY <1>3, BesideStep
<1> QED BY <1>1, <1>2, <1>3 DEF Sources!Next

\* However syncs of several processes interleave, crash and repeat, the row of an order
\* shows a version its winner's stored observation reaches
\* (recordCotikOrderObservation, projectWinningOrder).
THEOREM RowsWereObserved ==
  SourcesConstants => (Sources!Spec => []Sources!ProjectionWasObserved)
<1> SUFFICES ASSUME SourcesConstants PROVE Sources!Spec => []Sources!ProjectionWasObserved
  OBVIOUS
<1>1. Sources!Init => SourcesInv
  BY SourcesInit
<1>2. SourcesInv /\ [Sources!Next]_Sources!vars => SourcesInv'
  BY SourcesNext
<1>3. SourcesInv => Sources!ProjectionWasObserved
  BY DEF SourcesInv, Observed
<1> QED BY <1>1, <1>2, <1>3, PTL DEF Sources!Spec

\* A sync left alone projects every order it read from its winner's observation,
\* whatever went before it (runCotikMultiAccountOrdersSync).
THEOREM AloneSyncRepairs == SourcesConstants => (Sources!Spec => []Sources!SyncRepairs)
<1> SUFFICES ASSUME SourcesConstants PROVE Sources!Spec => []Sources!SyncRepairs
  OBVIOUS
<1>1. Sources!Init => SourcesInv
  BY SourcesInit
<1>2. SourcesInv /\ [Sources!Next]_Sources!vars => SourcesInv'
  BY SourcesNext
<1>3. SourcesInv => Sources!SyncRepairs
  <2> SUFFICES ASSUME SourcesInv, NEW p \in Proc, pc[p] = "save", alone[p],
                      NEW o \in passed[p] \ Odd
               PROVE  Through(o)
    BY DEF Sources!SyncRepairs, Through
  <2>1. Open(p) = {}
    BY DEF Open
  <2> QED BY <2>1 DEF SourcesInv, AloneOK, ShopTurn
<1> QED BY <1>1, <1>2, <1>3, PTL DEF Sources!Spec

----------------------------------------------------------------------------
(* Mails and their sheet (GmailSync)                                      *)

CONSTANTS Run, OrderOf, TrackingOf, Batch, Buffer, Discovery, Window, MaxMail, MaxCycles,
          MaxGone

VARIABLES mail, gone, file, sheet, cycles, handled, missed

Gmail == INSTANCE GmailSync

\* No tracking number reads as a row that is missing.
GmailConstants ==
  /\ MaxMail \in Nat \ {0} /\ Window \in Nat /\ Discovery \in Nat
  /\ OrderOf \in [Gmail!Mail -> Order]
  /\ \A m \in Gmail!Mail : TrackingOf[m] # Gmail!Absent
  /\ None # Gmail!Absent

StateType ==
  [first : BOOLEAN, migrate : BOOLEAN, pending : SUBSET (1 .. mail),
   anchors : SUBSET (1 .. mail), ranAt : 0 .. mail]

\* A mail newer than those of A that are left.
After(A, m) == \A a \in A : a \in Gmail!Present => m > a

\* A mail the cycles from a state on come across.
Met(s, m) ==
  IF s.pending # {} THEN m \in s.pending \/ After(s.anchors, m)
  ELSE IF ~ s.first THEN TRUE
  ELSE IF s.migrate THEN m > s.ranAt - Window
  ELSE After(s.anchors, m)

\* A state that skips no mail but those counted as missed.
Kept(s) ==
  /\ s \in StateType
  /\ \A m \in Gmail!Present : m \in handled \/ m \in missed \/ Met(s, m)

CycleFields == {"step", "state", "batch", "pending", "checkpoint", "migrated", "left", "failed",
                "rows"}

NextAnchors(c) == IF c.checkpoint = {} THEN c.state.anchors ELSE c.checkpoint

Filled(x) == x # None /\ x # Gmail!Absent

\* A cycle with a batch: what it is to read, what it leaves in the queue or out of its
\* listing and what comes after its next anchors are all the mails there are to handle.
Staged(c) ==
  /\ c = [f \in CycleFields |-> c[f]]
  /\ c.state \in StateType
  /\ c.batch \subseteq 1 .. mail /\ c.pending \subseteq 1 .. mail
  /\ c.checkpoint \subseteq 1 .. mail
  /\ \A m \in Gmail!Present :
       \/ m \in handled \/ m \in missed \/ m \in c.batch \/ m \in c.pending
       \/ m \in c.left \/ After(NextAnchors(c), m)
  /\ c.step = "write" => \A o \in Order : Filled(c.rows[o]) => Filled(sheet[o])

CycleOK(c) ==
  \/ c = Gmail!Idle
  \/ c.step = "list" /\ Kept(c.state)
  \/ c.step \in {"read", "sheet", "write"} /\ Staged(c)
  \/ /\ c.step \in {"save", "close"} /\ Kept(c.next)
     /\ c = [step |-> c.step, next |-> c.next]

GmailInv ==
  /\ mail \in 0 .. MaxMail /\ DOMAIN sheet = Order
  /\ pc = [r \in Run |-> pc[r]] /\ \A r \in Run : CycleOK(pc[r])
  /\ file # Gmail!Torn => Kept(file)

LEMMA FreshIsKept == ASSUME mail \in Nat PROVE Kept(Gmail!FreshState)
<1> DEFINE s == Gmail!FreshState
<1>1. /\ s.first = FALSE /\ s.migrate = FALSE /\ s.pending = {} /\ s.anchors = {} /\ s.ranAt = 0
      /\ s \in StateType
  BY DEF Gmail!FreshState, StateType
<1> HIDE DEF s
<1>2. \A m : Met(s, m)
  BY <1>1 DEF Met
<1>3. Kept(s)
  BY <1>1, <1>2 DEF Kept
<1> QED BY <1>3 DEF s

LEMMA GmailInit == ASSUME GmailConstants, Gmail!Init PROVE GmailInv
<1>1. mail \in 0 .. MaxMail /\ DOMAIN sheet = Order
  BY DEF GmailConstants, Gmail!Init
<1>2. pc = [r \in Run |-> pc[r]] /\ \A r \in Run : CycleOK(pc[r])
  BY DEF Gmail!Init, CycleOK
<1>3. CASE file = Gmail!FreshState
  BY <1>1, <1>2, <1>3, FreshIsKept DEF GmailInv, GmailConstants
<1>4. CASE file = [Gmail!FreshState EXCEPT !.migrate = TRUE]
  <2> PICK s : s = file
    OBVIOUS
  <2>1. s = [first |-> FALSE, migrate |-> TRUE, pending |-> {}, anchors |-> {}, ranAt |-> 0]
    BY <1>4 DEF Gmail!FreshState
  <2>2. mail \in Nat
    BY <1>1 DEF GmailConstants
  <2>3. s.first = FALSE /\ s.pending = {} /\ s \in StateType
    BY <2>1, <2>2 DEF StateType
  <2>4. \A m : Met(s, m)
    BY <2>3 DEF Met
  <2>5. Kept(s)
    BY <2>3, <2>4 DEF Kept
  <2> QED BY <1>1, <1>2, <2>5 DEF GmailInv
<1>5. ASSUME NEW first \in BOOLEAN, NEW pending \in SUBSET {1}, mail = 1,
             file = Gmail!LegacyState(first, pending), handled = {1} \ pending
      PROVE  GmailInv
  <2> PICK s : s = file
    OBVIOUS
  <2>1. Gmail!Present \subseteq {1}
    BY <1>5 DEF Gmail!Present
  <2>2. s.pending = pending /\ s \in StateType
    BY <1>5 DEF Gmail!LegacyState, StateType
  <2>3. \A m \in Gmail!Present : m \in handled \/ Met(s, m)
    BY <1>5, <2>1, <2>2 DEF Met
  <2>4. Kept(s)
    BY <2>2, <2>3 DEF Kept
  <2> QED BY <1>1, <1>2, <2>4 DEF GmailInv
<1> QED BY <1>3, <1>4, <1>5 DEF Gmail!Init

\* Mails arrive, are deleted and are handled.
Later ==
  /\ mail \in Nat /\ mail' \in Nat /\ mail <= mail'
  /\ handled \subseteq handled' /\ missed \subseteq missed'
  /\ \A m \in Gmail!Present' : m \in Nat /\ (m \in Gmail!Present \/ m > mail)

LEMMA StateStays ==
  ASSUME Later, NEW s, s \in StateType PROVE (s \in StateType)'
<1>1. 1 .. mail \subseteq 1 .. mail' /\ 0 .. mail \subseteq 0 .. mail'
  BY DEF Later
<1> QED BY <1>1 DEF StateType

\* What is after the mails of A stays after them, and new mails are.
LEMMA AfterStays ==
  ASSUME Later, NEW A, A \subseteq 1 .. mail, NEW m \in Gmail!Present',
         m > mail \/ After(A, m)
  PROVE  After(A, m)'
<1>1. ASSUME NEW a \in A, a \in Gmail!Present' PROVE a \in Gmail!Present
  BY <1>1 DEF Later
<1>2. ASSUME m > mail, NEW a \in A PROVE m > a
  BY <1>2 DEF Later
<1> QED BY <1>1, <1>2 DEF After

LEMMA KeptStays ==
  ASSUME GmailConstants, Later, NEW s, Kept(s) PROVE Kept(s)'
<1>1. (s \in StateType)'
  BY StateStays DEF Kept
<1>2. ASSUME NEW m \in Gmail!Present' PROVE m \in handled' \/ m \in missed' \/ Met(s, m)'
  <2>1. s.anchors \subseteq 1 .. mail /\ s.ranAt \in 0 .. mail
    BY DEF Kept, StateType
  <2>2. CASE m > mail
    <3>1. After(s.anchors, m)'
      BY <2>1, <2>2, AfterStays
    <3>2. m > s.ranAt - Window
      BY <2>1, <2>2 DEF GmailConstants, Later
    <3> QED BY <3>1, <3>2 DEF Met
  <2>3. CASE m \in Gmail!Present
    <3>1. m \in handled \/ m \in missed \/ Met(s, m)
      BY <2>3 DEF Kept
    <3>2. After(s.anchors, m) => After(s.anchors, m)'
      BY <2>1, AfterStays
    <3> QED BY <3>1, <3>2 DEF Met, Later
  <2> QED BY <2>2, <2>3 DEF Later
<1> QED BY <1>1, <1>2 DEF Kept

SheetGrows == \A o \in Order : Filled(sheet[o]) => Filled(sheet'[o])

LEMMA StagedStays ==
  ASSUME Later, SheetGrows, NEW c, Staged(c) PROVE Staged(c)'
<1>1. (c.state \in StateType)'
  BY StateStays DEF Staged
<1>2. 1 .. mail \subseteq 1 .. mail'
  BY DEF Later
<1>3. ASSUME NEW m \in Gmail!Present'
      PROVE  \/ m \in handled' \/ m \in missed' \/ m \in c.batch \/ m \in c.pending
             \/ m \in c.left \/ After(NextAnchors(c), m)'
  <2>1. NextAnchors(c) \subseteq 1 .. mail
    BY DEF NextAnchors, Staged, StateType
  <2>2. CASE m > mail
    BY <2>1, <2>2, AfterStays
  <2>3. CASE m \in Gmail!Present
    <3>1. \/ m \in handled \/ m \in missed \/ m \in c.batch \/ m \in c.pending
          \/ m \in c.left \/ After(NextAnchors(c), m)
      BY <2>3 DEF Staged
    <3> QED BY <2>1, <3>1, AfterStays DEF Later
  <2> QED BY <2>2, <2>3 DEF Later
<1>4. /\ c = [f \in CycleFields |-> c[f]]
      /\ c.batch \subseteq 1 .. mail' /\ c.pending \subseteq 1 .. mail'
      /\ c.checkpoint \subseteq 1 .. mail'
  BY <1>2 DEF Staged
<1>5. c.step = "write" => \A o \in Order : Filled(c.rows[o]) => Filled(sheet'[o])
  BY DEF Staged, SheetGrows
<1> QED BY <1>1, <1>3, <1>4, <1>5 DEF Staged, NextAnchors

LEMMA CycleStays ==
  ASSUME GmailConstants, Later, SheetGrows, NEW c, CycleOK(c) PROVE CycleOK(c)'
<1>1. ASSUME NEW s, Kept(s) PROVE Kept(s)'
  BY <1>1, KeptStays
<1> QED BY <1>1, StagedStays DEF CycleOK

\* A step of one cycle, and one beside the cycles.
LEMMA CycleGoes ==
  ASSUME GmailConstants, GmailInv, Later, SheetGrows, mail' \in 0 .. MaxMail,
         DOMAIN sheet' = Order, NEW r \in Run, NEW c, pc' = [pc EXCEPT ![r] = c], CycleOK(c)',
         file' # Gmail!Torn => Kept(file)'
  PROVE  GmailInv'
<1>1. pc' = [q \in Run |-> pc'[q]] /\ pc'[r] = c /\ \A q \in Run : q # r => pc'[q] = pc[q]
  BY DEF GmailInv
<1>2. ASSUME NEW q \in Run, q # r PROVE CycleOK(pc[q])'
  <2>1. PICK d : d = pc[q]
    OBVIOUS
  <2>2. CycleOK(d)'
    BY <2>1, CycleStays DEF GmailInv
  <2>3. d = pc'[q]
    BY <1>1, <1>2, <2>1
  <2> QED BY <2>2, <2>3
<1>3. CycleOK(pc[r])'
  <2>1. c = pc'[r]
    BY <1>1
  <2> QED BY <2>1
<1>4. \A q \in Run : CycleOK(pc[q])'
  BY <1>2, <1>3
<1> QED BY <1>1, <1>4 DEF GmailInv
\* Steps that change no mail and no cell.
LEMMA Unmoved ==
  ASSUME GmailConstants, GmailInv, UNCHANGED <<mail, gone, sheet, handled, missed>>
  PROVE  /\ Later /\ SheetGrows /\ mail' \in 0 .. MaxMail /\ DOMAIN sheet' = Order
         /\ \A s : Kept(s) => Kept(s)'
         /\ \A c : CycleOK(c) => CycleOK(c)'
<1>1. Later /\ SheetGrows /\ mail' \in 0 .. MaxMail /\ DOMAIN sheet' = Order
  BY DEF GmailInv, GmailConstants, Later, SheetGrows, Gmail!Present
<1>2. ASSUME NEW s, Kept(s) PROVE Kept(s)'
  BY <1>1, <1>2, KeptStays
<1>3. ASSUME NEW c, CycleOK(c) PROVE CycleOK(c)'
  BY <1>1, <1>3, CycleStays
<1> QED BY <1>1, <1>2, <1>3

LEMMA CycleOnly ==
  ASSUME GmailConstants, GmailInv, UNCHANGED <<mail, gone, sheet, handled, missed>>,
         NEW r \in Run, NEW c, pc' = [pc EXCEPT ![r] = c], CycleOK(c),
         NEW s, file' = s, s # Gmail!Torn => Kept(s)
  PROVE  GmailInv'
<1>1. /\ Later /\ SheetGrows /\ mail' \in 0 .. MaxMail /\ DOMAIN sheet' = Order
      /\ CycleOK(c)' /\ (s # Gmail!Torn => Kept(s)')
  BY Unmoved
<1>2. file' # Gmail!Torn => Kept(file)'
  BY <1>1
<1> QED BY <1>1, <1>2, CycleGoes

LEMMA LoadStep ==
  ASSUME GmailConstants, GmailInv, NEW r \in Run, Gmail!loadSyncState(r) PROVE GmailInv'
<1> PICK s : s = IF file = Gmail!Torn THEN Gmail!FreshState ELSE file
  OBVIOUS
<1> PICK c : c = [step |-> "list", state |-> s]
  OBVIOUS
<1>1. Kept(s)
  BY FreshIsKept DEF GmailInv, GmailConstants
<1>2. CycleOK(c)
  BY <1>1 DEF CycleOK
<1>3. /\ pc' = [pc EXCEPT ![r] = c]
      /\ UNCHANGED <<mail, gone, file, sheet, handled, missed>>
  BY DEF Gmail!loadSyncState, Gmail!Goto
<1> QED BY <1>2, <1>3, CycleOnly DEF GmailInv

\* A plan that keeps in the batch, in the queue, out of the listing or after the anchors what
\* was to handle.
Planned(s, chosen, pending, base, out) ==
  \A m \in Gmail!Present :
    \/ m \in handled \/ m \in missed \/ m \in chosen \/ m \in pending \/ m \in out
    \/ After(IF base = {} THEN s.anchors ELSE base, m)

LEMMA PlanStep ==
  ASSUME GmailConstants, GmailInv, NEW r \in Run, pc[r].step = "list",
         NEW chosen \in SUBSET (1 .. mail), NEW pending \in SUBSET (1 .. mail),
         NEW base \in SUBSET (1 .. mail), NEW migrated, NEW out,
         Planned(pc[r].state, chosen, pending, base, out),
         Gmail!Plan(r, chosen, pending, base, migrated, out),
         UNCHANGED <<mail, gone, file, sheet, handled, missed>>
  PROVE  GmailInv'
<1> PICK s : s = pc[r].state
  OBVIOUS
<1>1. Kept(s)
  BY DEF GmailInv, CycleOK, Gmail!Idle
<1>2. CASE chosen = {}
  <2> PICK c : c = [step |-> "save", next |-> s]
    OBVIOUS
  <2>1. pc' = [pc EXCEPT ![r] = c]
    BY <1>2 DEF Gmail!Plan, Gmail!Goto
  <2>2. CycleOK(c)
    BY <1>1 DEF CycleOK
  <2> QED BY <2>1, <2>2, CycleOnly DEF GmailInv
<1>3. CASE chosen # {}
  <2> DEFINE c == [step |-> "read", state |-> s, batch |-> chosen, pending |-> pending,
                   checkpoint |-> base, migrated |-> migrated, left |-> out,
                   failed |-> {}, rows |-> <<>>]
  <2>1. pc' = [pc EXCEPT ![r] = c]
    BY <1>3 DEF Gmail!Plan, Gmail!Goto
  <2>2. /\ c = [f \in CycleFields |-> c[f]] /\ c.step = "read" /\ c.state = s
        /\ c.batch = chosen /\ c.pending = pending /\ c.checkpoint = base
        /\ c.left = out
    BY DEF CycleFields
  <2> HIDE DEF c
  <2>3. NextAnchors(c) = IF base = {} THEN pc[r].state.anchors ELSE base
    BY <2>2 DEF NextAnchors
  <2>4. c.state \in StateType
    BY <1>1, <2>2 DEF Kept
  <2>5. Staged(c)
    BY <2>2, <2>3, <2>4 DEF Staged, Planned
  <2> PICK d : d = c
    OBVIOUS
  <2>6. CycleOK(d) /\ pc' = [pc EXCEPT ![r] = d]
    BY <2>1, <2>2, <2>5 DEF CycleOK
  <2> QED BY <2>6, CycleOnly DEF GmailInv
<1> QED BY <1>2, <1>3

\* A list of the newest mails that has one of them has the newer ones.
LEMMA NewestHasNewer ==
  ASSUME NEW k \in Nat, NEW mails, mails \subseteq 1 .. k, NEW n \in Nat,
         NEW h \in Gmail!Newest(mails, n), NEW m \in mails, m > h
  PROVE  m \in Gmail!Newest(mails, n)
<1> DEFINE A == {o \in mails : o > m}
           B == {o \in mails : o > h}
<1>1. B \subseteq 1 .. k /\ A \subseteq B
  <2>1. h \in 1 .. k /\ m \in 1 .. k
    BY DEF Gmail!Newest
  <2>2. \A o \in mails : o \in 1 .. k /\ (o > m => o > h)
    BY <2>1
  <2> QED BY <2>2
<1>2. Gmail!Cardinality(B) < n
  BY DEF Gmail!Newest
<1> HIDE DEF A, B
<1>3. IsFiniteSet(1 .. k)
  BY FS_Interval
<1>4. IsFiniteSet(B)
  BY <1>1, <1>3, FS_Subset
<1>5. IsFiniteSet(A) /\ Cardinality(A) <= Cardinality(B)
  BY <1>1, <1>4, FS_Subset
<1>6. Cardinality(A) \in Nat /\ Cardinality(B) \in Nat
  BY <1>4, <1>5, FS_CardinalityType
<1>7. Gmail!Cardinality(A) = Cardinality(A) /\ Gmail!Cardinality(B) = Cardinality(B)
  BY DEF Gmail!Cardinality, Cardinality
<1>8. Gmail!Cardinality(A) < n
  BY <1>2, <1>5, <1>6, <1>7
<1> QED BY <1>8 DEF A, Gmail!Newest

LEMMA NewestAreSome == ASSUME NEW mails, NEW n PROVE Gmail!Newest(mails, n) \subseteq mails
BY DEF Gmail!Newest
LEMMA MaxIs ==
  ASSUME NEW S, NEW k \in Nat, S \subseteq 0 .. k, S # {}
  PROVE  Gmail!Max(S) \in S /\ \A m \in S : m <= Gmail!Max(S)
<1>1. PICK n \in S : \A m \in S : n >= m
  <2>1. \E x \in S : \A m \in S : m <= x
    BY HasGreatest
  <2>2. \A x, m \in S : m <= x => x >= m
    OBVIOUS
  <2> QED BY <2>1, <2>2
<1>2. Gmail!Max(S) \in S /\ \A m \in S : Gmail!Max(S) >= m
  BY <1>1 DEF Gmail!Max
<1>3. \A x, m \in S : x >= m => m <= x
  OBVIOUS
<1> QED BY <1>2, <1>3

LEMMA ListStep ==
  ASSUME GmailConstants, GmailInv, NEW r \in Run, Gmail!List(r) PROVE GmailInv'
<1> PICK s : s = pc[r].state
  OBVIOUS
<1>1. pc[r].step = "list" /\ UNCHANGED <<mail, gone, file, sheet, handled, missed>>
  BY DEF Gmail!List
<1>2. Kept(s)
  BY <1>1 DEF GmailInv, CycleOK, Gmail!Idle
<1>3. s.pending \subseteq 1 .. mail /\ s.anchors \subseteq 1 .. mail
  BY <1>2 DEF Kept, StateType
<1>4. /\ Gmail!Present \subseteq 1 .. mail /\ Gmail!Present \subseteq Gmail!Mail
      /\ 1 .. mail \subseteq Gmail!Mail /\ mail \in Nat
  BY DEF GmailInv, Gmail!Present, Gmail!Mail, GmailConstants
<1>5. CASE Gmail!DrainQueue(r)
  <2> DEFINE chosen == Gmail!Newest(s.pending, Batch)
  <2>1. s.pending # {} /\ Gmail!Plan(r, chosen, s.pending \ chosen, {}, FALSE, {})
    BY <1>5 DEF Gmail!DrainQueue
  <2>2. chosen \subseteq s.pending
    BY NewestAreSome
  <2> HIDE DEF chosen
  <2>3. Planned(s, chosen, s.pending \ chosen, {}, {})
    BY <1>2, <2>1 DEF Kept, Met, Planned
  <2> PICK b, q : b = chosen /\ q = s.pending \ chosen
    OBVIOUS
  <2>4. /\ b \in SUBSET (1 .. mail) /\ q \in SUBSET (1 .. mail)
        /\ {} \in SUBSET (1 .. mail)
        /\ Gmail!Plan(r, b, q, {}, FALSE, {}) /\ Planned(pc[r].state, b, q, {}, {})
    BY <1>3, <2>1, <2>2, <2>3
  <2> QED BY <1>1, <2>4, PlanStep
<1>6. CASE Gmail!Backfill(r)
  <2> DEFINE new == {m \in Gmail!Present : m > s.ranAt - Window}
             found == Gmail!Newest(new, Discovery)
             chosen == Gmail!Newest(found, Batch)
  <2>1. /\ s.pending = {} /\ s.migrate /\ s.first
        /\ Gmail!Plan(r, chosen, found \ chosen, found, TRUE, new \ found)
    BY <1>6 DEF Gmail!Backfill
  <2>2. found \subseteq new
    BY NewestAreSome
  <2>3. chosen \subseteq found
    BY NewestAreSome
  <2>4. \A m \in Gmail!Present : m \in handled \/ m \in missed \/ m \in new
    BY <1>2, <2>1 DEF Kept, Met
  <2>5. new \subseteq 1 .. mail
    BY <1>4
  <2> HIDE DEF new, found, chosen
  <2> PICK b, q, f, l : b = chosen /\ q = found \ chosen /\ f = found /\ l = new \ found
    OBVIOUS
  <2>6. /\ b \in SUBSET (1 .. mail) /\ q \in SUBSET (1 .. mail) /\ f \in SUBSET (1 .. mail)
        /\ Gmail!Plan(r, b, q, f, TRUE, l)
    BY <2>1, <2>2, <2>3, <2>5
  <2>7. Planned(pc[r].state, b, q, f, l)
    BY <2>4 DEF Planned
  <2> QED BY <1>1, <2>6, <2>7, PlanStep
<1>7. CASE Gmail!ListNew(r)
  <2> DEFINE found == Gmail!Newest(Gmail!Present, Discovery)
             hits == found \cap s.anchors
             new == {m \in found : m > Gmail!Max(hits)}
  <2>1. s.pending = {} /\ s.first /\ ~ s.migrate /\ hits # {}
    BY <1>7 DEF Gmail!ListNew, Gmail!Incremental
  <2>2. PICK size \in 1 .. Buffer :
          LET again == Gmail!Newest(found \ new, size)
              fresh == Gmail!Newest(new, Batch - Gmail!Cardinality(again))
          IN  Gmail!Plan(r, fresh \cup again, new \ fresh, new \cup again, FALSE, {})
    BY <1>7 DEF Gmail!ListNew
  <2> DEFINE again == Gmail!Newest(found \ new, size)
             fresh == Gmail!Newest(new, Batch - Gmail!Cardinality(again))
  <2>3. Gmail!Plan(r, fresh \cup again, new \ fresh, new \cup again, FALSE, {})
    BY <2>2
  <2>4. fresh \subseteq new /\ again \subseteq found \ new
    BY NewestAreSome
  <2>5. found \subseteq Gmail!Present
    BY NewestAreSome
  <2>6. Gmail!Max(hits) \in hits
    <3>1. hits \subseteq 0 .. mail
      BY <1>3, <1>4
    <3> HIDE DEF hits
    <3> QED BY <1>4, <2>1, <3>1, MaxIs
  <2>7. ASSUME NEW m \in Gmail!Present PROVE m \in handled \/ m \in missed \/ m \in new
    <3>1. m \in handled \/ m \in missed \/ After(s.anchors, m)
      BY <1>2, <2>1 DEF Kept, Met
    <3>2. CASE After(s.anchors, m)
      <4>1. Gmail!Max(hits) \in found /\ m > Gmail!Max(hits)
        BY <2>5, <2>6, <3>2 DEF After
      <4>2. Discovery \in Nat
        BY DEF GmailConstants
      <4> PICK h : h = Gmail!Max(hits)
        OBVIOUS
      <4> HIDE DEF hits
      <4>3. m \in found
        BY <1>4, <4>1, <4>2, NewestHasNewer
      <4> QED BY <4>1, <4>3
    <3> QED BY <3>1, <3>2
  <2> HIDE DEF fresh, again
  <2> PICK b, q, f : b = fresh \cup again /\ q = new \ fresh /\ f = new \cup again
    OBVIOUS
  <2>8. new \subseteq 1 .. mail /\ again \subseteq 1 .. mail
    BY <1>4, <2>4, <2>5
  <2> HIDE DEF new, found, hits
  <2>9. /\ b \in SUBSET (1 .. mail) /\ q \in SUBSET (1 .. mail) /\ f \in SUBSET (1 .. mail)
        /\ Gmail!Plan(r, b, q, f, FALSE, {})
    BY <2>3, <2>4, <2>8
  <2>10. Planned(pc[r].state, b, q, f, {})
    BY <2>7 DEF Planned
  <2> QED BY <1>1, <2>9, <2>10, PlanStep
<1>8. CASE Gmail!AnchorsLost(r)
  <2>1. pc' = [pc EXCEPT ![r] = Gmail!Idle]
    BY <1>8 DEF Gmail!AnchorsLost, Gmail!Goto
  <2> PICK c : c = Gmail!Idle
    OBVIOUS
  <2> QED BY <1>1, <2>1, CycleOnly DEF GmailInv, CycleOK
<1>9. CASE Gmail!FullScan(r)
  <2> DEFINE found == Gmail!Newest(Gmail!Present, Discovery)
             chosen == Gmail!Newest(found, Batch)
  <2>1. Gmail!Plan(r, chosen, found \ chosen, found, FALSE, Gmail!Present \ found)
    BY <1>9 DEF Gmail!FullScan
  <2>2. found \subseteq Gmail!Present
    BY NewestAreSome
  <2>3. chosen \subseteq found
    BY NewestAreSome
  <2> HIDE DEF found, chosen
  <2> PICK b, q, f, l : /\ b = chosen /\ q = found \ chosen /\ f = found
                        /\ l = Gmail!Present \ found
    OBVIOUS
  <2>4. /\ b \in SUBSET (1 .. mail) /\ q \in SUBSET (1 .. mail) /\ f \in SUBSET (1 .. mail)
        /\ Gmail!Plan(r, b, q, f, FALSE, l)
    BY <1>4, <2>1, <2>2, <2>3
  <2>5. Planned(pc[r].state, b, q, f, l)
    BY DEF Planned
  <2> QED BY <1>1, <2>4, <2>5, PlanStep
<1> QED BY <1>5, <1>6, <1>7, <1>8, <1>9 DEF Gmail!List
LEMMA FetchStep ==
  ASSUME GmailConstants, GmailInv, NEW r \in Run, NEW failed,
         Gmail!fetchOrderDetailsFromMessages(r, failed)
  PROVE  GmailInv'
<1> PICK c : c = pc[r]
  OBVIOUS
<1>1. /\ c.step = "read" /\ pc' = [pc EXCEPT ![r] = [c EXCEPT !.step = "sheet", !.failed = failed]]
      /\ UNCHANGED <<mail, gone, file, sheet, handled, missed>>
  BY DEF Gmail!fetchOrderDetailsFromMessages, Gmail!Goto
<1>2. Staged(c)
  BY <1>1 DEF GmailInv, CycleOK, Gmail!Idle
<1> DEFINE w == [f \in CycleFields |-> IF f = "step" THEN "sheet"
                                       ELSE IF f = "failed" THEN failed ELSE c[f]]
<1>3. c = [f \in CycleFields |-> c[f]]
  BY <1>2 DEF Staged
<1>4. [c EXCEPT !.step = "sheet", !.failed = failed] = w
  BY <1>3 DEF CycleFields
<1>5. /\ w = [f \in CycleFields |-> w[f]] /\ w.step = "sheet" /\ w.state = c.state
      /\ w.batch = c.batch /\ w.pending = c.pending /\ w.checkpoint = c.checkpoint
      /\ w.left = c.left
  BY DEF CycleFields
<1> HIDE DEF w
<1>6. NextAnchors(w) = NextAnchors(c)
  BY <1>5 DEF NextAnchors
<1>7. Staged(w)
  BY <1>2, <1>5, <1>6 DEF Staged
<1> PICK d : d = w
  OBVIOUS
<1>8. CycleOK(d) /\ pc' = [pc EXCEPT ![r] = d]
  BY <1>1, <1>4, <1>5, <1>7 DEF CycleOK
<1> QED BY <1>1, <1>8, CycleOnly DEF GmailInv

LEMMA ReadRowsStep ==
  ASSUME GmailConstants, GmailInv, NEW r \in Run, Gmail!readSheetYtoAC(r) PROVE GmailInv'
<1> PICK c, cells : c = pc[r] /\ cells = sheet
  OBVIOUS
<1>1. /\ c.step = "sheet" /\ pc' = [pc EXCEPT ![r] = [c EXCEPT !.step = "write", !.rows = cells]]
      /\ UNCHANGED <<mail, gone, file, sheet, handled, missed>>
  BY DEF Gmail!readSheetYtoAC, Gmail!Goto
<1>2. Staged(c)
  BY <1>1 DEF GmailInv, CycleOK, Gmail!Idle
<1> DEFINE w == [f \in CycleFields |-> IF f = "step" THEN "write"
                                       ELSE IF f = "rows" THEN cells ELSE c[f]]
<1>3. c = [f \in CycleFields |-> c[f]]
  BY <1>2 DEF Staged
<1>4. [c EXCEPT !.step = "write", !.rows = cells] = w
  BY <1>3 DEF CycleFields
<1>5. /\ w = [f \in CycleFields |-> w[f]] /\ w.step = "write" /\ w.state = c.state
      /\ w.batch = c.batch /\ w.pending = c.pending /\ w.checkpoint = c.checkpoint
      /\ w.left = c.left /\ w.rows = cells
  BY DEF CycleFields
<1> HIDE DEF w
<1>6. NextAnchors(w) = NextAnchors(c)
  BY <1>5 DEF NextAnchors
<1>7. \A o \in Order : Filled(w.rows[o]) => Filled(sheet[o])
  BY <1>5
<1>8. Staged(w)
  BY <1>2, <1>5, <1>6, <1>7 DEF Staged
<1> PICK d : d = w
  OBVIOUS
<1>9. CycleOK(d) /\ pc' = [pc EXCEPT ![r] = d]
  BY <1>1, <1>4, <1>5, <1>8 DEF CycleOK
<1> QED BY <1>1, <1>9, CycleOnly DEF GmailInv

LEMMA OpenStep ==
  ASSUME GmailConstants, GmailInv, NEW r \in Run, Gmail!OpenFile(r) PROVE GmailInv'
<1> PICK c : c = pc[r]
  OBVIOUS
<1> PICK d : d = [step |-> "close", next |-> c.next]
  OBVIOUS
<1> PICK s : s = Gmail!Torn
  OBVIOUS
<1>1. /\ c.step = "save" /\ pc' = [pc EXCEPT ![r] = [c EXCEPT !.step = "close"]] /\ file' = s
      /\ UNCHANGED <<mail, gone, sheet, handled, missed>>
  BY DEF Gmail!OpenFile, Gmail!Goto
<1>2. c = [step |-> c.step, next |-> c.next] /\ Kept(c.next)
  BY <1>1 DEF GmailInv, CycleOK, Gmail!Idle
<1>3. [c EXCEPT !.step = "close"] = d
  BY <1>2
<1>4. CycleOK(d)
  BY <1>2 DEF CycleOK
<1> QED BY <1>1, <1>3, <1>4, CycleOnly

LEMMA CloseStep ==
  ASSUME GmailConstants, GmailInv, NEW r \in Run, Gmail!CloseFile(r) PROVE GmailInv'
<1> PICK s, d : s = pc[r].next /\ d = Gmail!Idle
  OBVIOUS
<1>1. /\ pc[r].step = "close" /\ pc' = [pc EXCEPT ![r] = d] /\ file' = s
      /\ UNCHANGED <<mail, gone, sheet, handled, missed>>
  BY DEF Gmail!CloseFile, Gmail!Goto
<1>2. Kept(s) /\ CycleOK(d)
  BY <1>1 DEF GmailInv, CycleOK, Gmail!Idle
<1> QED BY <1>1, <1>2, CycleOnly

LEMMA AbandonCycleStep ==
  ASSUME GmailConstants, GmailInv, NEW r \in Run, Gmail!Abandon(r) PROVE GmailInv'
<1> PICK d : d = Gmail!Idle
  OBVIOUS
<1>1. /\ pc' = [pc EXCEPT ![r] = d] /\ UNCHANGED <<mail, gone, file, sheet, handled, missed>>
  BY DEF Gmail!Abandon, Gmail!Goto
<1>2. CycleOK(d)
  BY DEF CycleOK
<1> QED BY <1>1, <1>2, CycleOnly DEF GmailInv

\* The cell of a mail the cycle read is filled, when its row was there.
LEMMA FillsCell ==
  ASSUME GmailConstants, NEW r \in Run, NEW m \in pc[r].batch, m \notin pc[r].failed,
         pc[r].batch \subseteq Gmail!Mail, TrackingOf[m] # None, pc[r].rows[OrderOf[m]] = None
  PROVE  Filled(Gmail!Filled(r, OrderOf[m]))
<1> DEFINE o == OrderOf[m]
           mails == {n \in pc[r].batch \ pc[r].failed : OrderOf[n] = o /\ TrackingOf[n] # None}
<1>1. m \in mails /\ mails \subseteq Gmail!Mail
  OBVIOUS
<1>2. mails \subseteq 0 .. MaxMail /\ mails # {} /\ MaxMail \in Nat
  <2> HIDE DEF mails
  <2> QED BY <1>1 DEF Gmail!Mail, GmailConstants
<1>3. Gmail!Max(mails) \in mails
  <2> HIDE DEF mails
  <2> QED BY <1>2, MaxIs
<1>4. Gmail!TrackingFor(r, o) = TrackingOf[Gmail!Max(mails)]
  BY <1>2 DEF Gmail!TrackingFor
<1>5. TrackingOf[Gmail!Max(mails)] # None /\ Gmail!Max(mails) \in Gmail!Mail
  BY <1>1, <1>3
<1> HIDE DEF mails
<1>6. Filled(Gmail!TrackingFor(r, o))
  BY <1>4, <1>5 DEF Filled, GmailConstants
<1> QED BY <1>6 DEF Gmail!Filled, Filled

\* What is found for an order is a tracking number.
LEMMA FoundIsFilled ==
  ASSUME GmailConstants, NEW r \in Run, pc[r].batch \subseteq Gmail!Mail, NEW o \in Order,
         Gmail!TrackingFor(r, o) # None
  PROVE  Filled(Gmail!TrackingFor(r, o))
<1> DEFINE mails == {n \in pc[r].batch \ pc[r].failed : OrderOf[n] = o /\ TrackingOf[n] # None}
<1>1. mails # {} /\ Gmail!TrackingFor(r, o) = TrackingOf[Gmail!Max(mails)]
  BY DEF Gmail!TrackingFor
<1>2. mails \subseteq 0 .. MaxMail /\ MaxMail \in Nat
  BY DEF Gmail!Mail, GmailConstants
<1>3. Gmail!Max(mails) \in mails
  <2> HIDE DEF mails
  <2> QED BY <1>1, <1>2, MaxIs
<1>4. Gmail!Max(mails) \in Gmail!Mail
  BY <1>3
<1> HIDE DEF mails
<1> QED BY <1>1, <1>4 DEF Filled, GmailConstants
LEMMA WriteRowsStep ==
  ASSUME GmailConstants, GmailInv, NEW r \in Run, Gmail!updateSheetRows(r) PROVE GmailInv'
<1> PICK c : c = pc[r]
  OBVIOUS
<1>1. /\ c.step = "write" /\ UNCHANGED <<mail, gone, file>>
      /\ sheet' = [o \in Order |-> Gmail!Filled(r, o)]
      /\ handled' = handled \cup
           {m \in c.batch : \/ m \in c.failed \/ TrackingOf[m] = None
                            \/ c.rows[OrderOf[m]] = Gmail!Absent
                            \/ sheet'[OrderOf[m]] # None}
  BY DEF Gmail!updateSheetRows
<1>2. PICK size :
        /\ Gmail!Goto(r, [step |-> "save", next |-> Gmail!NextState(r, size)])
        /\ missed' = missed \cup
             ((c.left \cup Gmail!Aged(Gmail!NextState(r, size))) \ handled')
  BY DEF Gmail!updateSheetRows
<1>3. Staged(c)
  BY <1>1 DEF GmailInv, CycleOK, Gmail!Idle
<1>4. /\ c.batch \subseteq Gmail!Mail /\ mail \in 0 .. MaxMail /\ mail \in Nat
      /\ MaxMail \in Nat
  BY <1>3 DEF Staged, GmailInv, GmailConstants, Gmail!Mail
<1>5. SheetGrows
  <2> SUFFICES ASSUME NEW o \in Order, Filled(sheet[o]) PROVE Filled(Gmail!Filled(r, o))
    BY <1>1 DEF SheetGrows
  <2>1. Gmail!TrackingFor(r, o) # None => Filled(Gmail!TrackingFor(r, o))
    BY <1>4, FoundIsFilled
  <2> QED BY <2>1 DEF Gmail!Filled
<1>6. ASSUME NEW m \in c.batch PROVE m \in handled'
  <2> SUFFICES ASSUME m \notin c.failed, TrackingOf[m] # None, c.rows[OrderOf[m]] # Gmail!Absent
               PROVE  Filled(sheet'[OrderOf[m]])
    BY <1>1 DEF Filled
  <2>1. OrderOf[m] \in Order
    BY <1>4 DEF GmailConstants
  <2>2. CASE c.rows[OrderOf[m]] = None
    BY <1>1, <1>4, <2>1, <2>2, FillsCell
  <2>3. CASE c.rows[OrderOf[m]] # None
    <3>1. Filled(sheet[OrderOf[m]])
      BY <1>1, <1>3, <2>1, <2>3 DEF Staged, Filled
    <3> QED BY <1>5, <2>1, <3>1 DEF SheetGrows
  <2> QED BY <2>2, <2>3
<1>7. Later
  BY <1>1, <1>2, <1>4 DEF Later, Gmail!Present
<1> DEFINE next == Gmail!NextState(r, size)
<1>8. /\ next.first = (c.state.first \/ c.pending = {}) /\ next.pending = c.pending
      /\ next.migrate = (c.state.migrate /\ ~ c.migrated) /\ next.ranAt = mail
      /\ next.anchors = IF c.checkpoint = {} THEN c.state.anchors
                        ELSE Gmail!Newest(c.checkpoint, size)
      /\ next = [first |-> next.first, migrate |-> next.migrate, pending |-> next.pending,
                 anchors |-> next.anchors, ranAt |-> next.ranAt]
  BY DEF Gmail!NextState
<1>9. next.anchors \subseteq NextAnchors(c)
  BY <1>8, NewestAreSome DEF NextAnchors
<1>10. next \in StateType
  <2>1. c.pending \subseteq 1 .. mail /\ NextAnchors(c) \subseteq 1 .. mail
    BY <1>3 DEF Staged, NextAnchors, StateType
  <2> HIDE DEF next
  <2>2. next.first \in BOOLEAN /\ next.anchors \in SUBSET (1 .. mail)
    BY <1>8, <1>9, <2>1
  <2>3. next.migrate \in BOOLEAN /\ next.ranAt \in 0 .. mail
    BY <1>4, <1>8
  <2> QED BY <1>8, <2>1, <2>2, <2>3 DEF StateType
<1>11. pc' = [pc EXCEPT ![r] = [step |-> "save", next |-> next]]
  BY <1>2 DEF Gmail!Goto
<1> PICK s : s = next
  OBVIOUS
<1>12. missed' = missed \cup ((c.left \cup Gmail!Aged(s)) \ handled')
  BY <1>2
<1> HIDE DEF next
<1> PICK d : d = [step |-> "save", next |-> s]
  OBVIOUS
<1>13. Kept(s)'
  <2>1. (s \in StateType)'
    BY <1>7, <1>10, StateStays
  <2>2. ASSUME NEW m \in Gmail!Present' PROVE m \in handled' \/ m \in missed' \/ Met(s, m)'
    <3>1. Gmail!Present' = Gmail!Present /\ m \in 1 .. mail
      BY <1>1 DEF Gmail!Present
    <3>2. \/ m \in handled \/ m \in missed \/ m \in c.batch \/ m \in c.pending
          \/ m \in c.left \/ After(NextAnchors(c), m)
      BY <1>3, <2>2, <3>1 DEF Staged
    <3>3. After(NextAnchors(c), m) => After(s.anchors, m)'
      BY <1>9, <3>1 DEF After
    <3>4. s.pending = c.pending /\ s.ranAt = mail /\ (c.pending = {} => s.first)
      BY <1>8
    <3>5. CASE s.migrate /\ s.pending = {}
      <4>1. Gmail!Aged(s) = {n \in 1 .. mail : n <= mail - Window}
        BY <3>5 DEF Gmail!Aged
      <4>2. m \in Gmail!Aged(s) \/ m > mail - Window
        BY <1>4, <3>1, <4>1 DEF GmailConstants
      <4>3. m > mail - Window => Met(s, m)'
        BY <1>1, <3>4, <3>5 DEF Met
      <4> QED BY <1>12, <4>2, <4>3
    <3>6. CASE ~ (s.migrate /\ s.pending = {})
      <4>1. m \in c.pending \/ After(s.anchors, m)' => Met(s, m)'
        BY <3>4, <3>6 DEF Met
      <4>2. m \in c.left => m \in handled' \/ m \in missed'
        BY <1>12
      <4> QED BY <1>6, <1>7, <3>2, <3>3, <4>1, <4>2 DEF Later
    <3> QED BY <3>5, <3>6
  <2> QED BY <2>1, <2>2 DEF Kept
<1>14. CycleOK(d)'
  BY <1>13 DEF CycleOK
<1>15. file' # Gmail!Torn => Kept(file)'
  <2> PICK t : t = file
    OBVIOUS
  <2>1. t # Gmail!Torn => Kept(t)'
    BY <1>7, KeptStays DEF GmailInv
  <2> QED BY <1>1, <2>1
<1>16. mail' \in 0 .. MaxMail /\ DOMAIN sheet' = Order
  BY <1>1, <1>4
<1>17. pc' = [pc EXCEPT ![r] = d]
  BY <1>11
<1> QED BY <1>5, <1>7, <1>14, <1>15, <1>16, <1>17, CycleGoes

\* A step beside the cycles.
LEMMA BesideCycles ==
  ASSUME GmailConstants, GmailInv, Later, SheetGrows, mail' \in 0 .. MaxMail,
         DOMAIN sheet' = Order, UNCHANGED pc, file' # Gmail!Torn => Kept(file)'
  PROVE  GmailInv'
<1>1. ASSUME NEW q \in Run PROVE CycleOK(pc[q])'
  <2>1. PICK d : d = pc[q]
    OBVIOUS
  <2>2. CycleOK(d)'
    BY <2>1, CycleStays DEF GmailInv
  <2> QED BY <2>1, <2>2
<1> QED BY <1>1 DEF GmailInv

\* The state file stays as it is while mails come and go.
LEMMA FileStays ==
  ASSUME GmailConstants, GmailInv, Later, UNCHANGED file
  PROVE  file' # Gmail!Torn => Kept(file)'
<1> PICK t : t = file
  OBVIOUS
<1>1. t # Gmail!Torn => Kept(t)'
  BY KeptStays DEF GmailInv
<1> QED BY <1>1

LEMMA MailSteps ==
  ASSUME GmailConstants, GmailInv,
         \/ Gmail!Arrive
         \/ \E m \in Gmail!Mail : Gmail!Delete(m)
         \/ \E o \in Order : Gmail!AddRow(o)
         \/ UNCHANGED Gmail!vars
  PROVE  GmailInv'
<1>1. UNCHANGED <<pc, file, handled, missed>>
  BY DEF Gmail!Arrive, Gmail!Delete, Gmail!AddRow, Gmail!vars
<1>2. mail \in Nat /\ mail \in 0 .. MaxMail /\ MaxMail \in Nat
  BY DEF GmailInv, GmailConstants
<1>3. /\ mail' \in 0 .. MaxMail
      /\ \/ mail' = mail /\ gone \subseteq gone'
         \/ mail' = mail + 1 /\ gone' = gone
  BY <1>2 DEF Gmail!Arrive, Gmail!Delete, Gmail!AddRow, Gmail!vars
<1>4. Later
  <2>1. ASSUME NEW m \in Gmail!Present'
        PROVE  m \in Nat /\ (m \in Gmail!Present \/ m > mail)
    BY <1>2, <1>3 DEF Gmail!Present
  <2> QED BY <1>1, <1>2, <1>3, <2>1 DEF Later
<1>5. SheetGrows /\ DOMAIN sheet' = Order
  <2>1. CASE \E o \in Order : Gmail!AddRow(o)
    <3>1. PICK o \in Order : sheet[o] = Gmail!Absent /\ sheet' = [sheet EXCEPT ![o] = None]
      BY <2>1 DEF Gmail!AddRow
    <3> QED BY <3>1 DEF SheetGrows, Filled, GmailInv
  <2>2. CASE UNCHANGED sheet
    BY <2>2 DEF SheetGrows, GmailInv
  <2> QED BY <2>1, <2>2 DEF Gmail!Arrive, Gmail!Delete, Gmail!vars
<1> QED BY <1>1, <1>3, <1>4, <1>5, FileStays, BesideCycles

LEMMA ResetStep == ASSUME GmailConstants, GmailInv, Gmail!Reset PROVE GmailInv'
<1> PICK t : t = IF file = Gmail!Torn THEN Gmail!FreshState ELSE file
  OBVIOUS
<1>1. /\ file' = [t EXCEPT !.first = FALSE, !.migrate = FALSE, !.pending = {}, !.anchors = {}]
      /\ UNCHANGED <<mail, gone, sheet, pc, handled, missed>>
  BY DEF Gmail!Reset
<1>2. t \in StateType
  BY FreshIsKept DEF GmailInv, GmailConstants, Kept
<1> PICK s : s = [first |-> FALSE, migrate |-> FALSE, pending |-> {}, anchors |-> {},
                  ranAt |-> t.ranAt]
  OBVIOUS
<1>3. file' = s
  <2> DEFINE F == {"first", "migrate", "pending", "anchors", "ranAt"}
             e == [t EXCEPT !.first = FALSE, !.migrate = FALSE, !.pending = {}, !.anchors = {}]
  <2>1. DOMAIN t = F /\ t = [f \in F |-> t[f]]
    BY <1>2 DEF StateType
  <2>2. /\ e = [f \in F |-> e[f]] /\ e.first = FALSE /\ e.migrate = FALSE /\ e.pending = {}
        /\ e.anchors = {} /\ e.ranAt = t.ranAt
    BY <2>1
  <2>3. e = s
    <3> HIDE DEF e
    <3>1. /\ s.first = FALSE /\ s.migrate = FALSE /\ s.pending = {} /\ s.anchors = {}
          /\ s.ranAt = t.ranAt /\ s = [f \in F |-> s[f]]
      OBVIOUS
    <3>2. ASSUME NEW f \in F PROVE e[f] = s[f]
      BY <2>2, <3>1
    <3> HIDE DEF F
    <3> QED BY <2>2, <3>1, <3>2
  <2> QED BY <1>1, <2>3
<1>4. Kept(s)
  <2>1. s.first = FALSE /\ s.migrate = FALSE /\ s.pending = {} /\ s \in StateType
    BY <1>2 DEF StateType
  <2>2. \A m : Met(s, m)
    BY <2>1 DEF Met
  <2> QED BY <2>1, <2>2 DEF Kept
<1>5. /\ Later /\ SheetGrows /\ mail' \in 0 .. MaxMail /\ DOMAIN sheet' = Order /\ Kept(s)'
  BY <1>1, <1>4, Unmoved
<1> QED BY <1>1, <1>3, <1>5, BesideCycles

LEMMA GmailNext ==
  ASSUME GmailConstants, GmailInv, [Gmail!Next]_Gmail!vars PROVE GmailInv'
<1>1. ASSUME NEW r \in Run,
             \/ Gmail!loadSyncState(r) \/ Gmail!List(r)
             \/ \E failed \in {{}} \cup {{m} : m \in Gmail!Mail} :
                  Gmail!fetchOrderDetailsFromMessages(r, failed)
             \/ Gmail!readSheetYtoAC(r) \/ Gmail!updateSheetRows(r)
             \/ Gmail!OpenFile(r) \/ Gmail!CloseFile(r) \/ Gmail!Abandon(r)
      PROVE  GmailInv'
  BY <1>1, LoadStep, ListStep, FetchStep, ReadRowsStep, WriteRowsStep, OpenStep, CloseStep,
     AbandonCycleStep
<1> QED BY <1>1, MailSteps, ResetStep DEF Gmail!Next

\* What a kept state still meets is ahead of it.
LEMMA MetIsAhead ==
  ASSUME GmailConstants, GmailInv, NEW s, s \in StateType, NEW m \in Gmail!Present, Met(s, m)
  PROVE  m \in Gmail!Ahead(s)
<1> DEFINE remaining == s.anchors \cap Gmail!Present
<1>1. /\ mail \in Nat /\ m \in 1 .. mail /\ remaining \subseteq 1 .. mail
      /\ remaining \cup {0} \subseteq 0 .. mail
  BY DEF GmailInv, GmailConstants, StateType, Gmail!Present
<1>2. ASSUME After(s.anchors, m) PROVE \A a \in remaining \cup {0} : m > a
  BY <1>1, <1>2 DEF After
<1>3. Gmail!Max(remaining \cup {0}) \in remaining \cup {0} /\ (remaining # {} => Gmail!Max(remaining) \in remaining)
  <2> HIDE DEF remaining
  <2>1. remaining \subseteq 0 .. mail /\ remaining \cup {0} # {}
    BY <1>1
  <2> QED BY <1>1, <2>1, MaxIs
<1>4. ASSUME After(s.anchors, m)
      PROVE  m > Gmail!Max(remaining \cup {0}) /\ (remaining # {} => m > Gmail!Max(remaining))
  BY <1>2, <1>3, <1>4
<1>5. CASE s.pending # {}
  BY <1>4, <1>5 DEF Met, Gmail!Ahead
<1>6. CASE s.pending = {}
  BY <1>4, <1>6 DEF Met, Gmail!Ahead
<1> QED BY <1>5, <1>6

\* No mail is skipped, however cycles overlap, throw and tear the state file, for any batch,
\* buffer, window and limit of a listing and from any state of an older version, but those
\* that a listing cut short by its limit leaves out, or that are older than the window of a
\* backfill that comes after an older state's queue (sync-shein-sheets.mts): every state
\* ever saved leaves in its queue or after its anchors what no cycle has handled.
THEOREM MailsAreHandled == GmailConstants => (Gmail!Spec => []Gmail!NothingSkipped)
<1> SUFFICES ASSUME GmailConstants PROVE Gmail!Spec => []Gmail!NothingSkipped
  OBVIOUS
<1>1. Gmail!Init => GmailInv
  BY GmailInit
<1>2. GmailInv /\ [Gmail!Next]_Gmail!vars => GmailInv'
  BY GmailNext
<1>3. GmailInv => Gmail!NothingSkipped
  BY MetIsAhead DEF GmailInv, Kept, Gmail!NothingSkipped
<1> QED BY <1>1, <1>2, <1>3, PTL DEF Gmail!Spec

=============================================================================
