---------------------------- MODULE TrackingSheet ----------------------------
(***************************************************************************)
(* The auto-tracking capability around a Google Sheet: read the rows of    *)
(* the selected dates, group them by order, stage one intent per order,    *)
(* run the COTIK cycle, read COTIK back and write a result beside each     *)
(* row (apps/cli/src/cotik-tracking-workflow.ts,                           *)
(* packages/sync/src/cotik-tracking-sheets.ts). People edit the sheet at   *)
(* any time, and the cycle (module CotikTracking) moves intents at any     *)
(* time: a caller waits for its own, and a daemon runs others.             *)
(***************************************************************************)
EXTENDS Naturals, FiniteSets

CONSTANTS
  Caller,    \* processes that run the capability or its two CLI commands
  Row,       \* row numbers of the tab
  Cell,      \* what people may have in a row: dated says its date is selected,
             \* order column B, shop Q, shein Y, tracking Z, note AC
  Proven,    \* values of column Q that name a logical shop of the region
  MaxActs,   \* bound: what people do to the sheet, the switches and COTIK
  None       \* a blank cell; no row, no tracking

VARIABLES
  sheet,     \* sheet[r]: the cells of row r people fill in
  result,    \* result[r]: column W of row r
  intent,    \* intent[i]: status of the cotik_post_intents row i or "ABSENT"
  tracking,  \* tracking[o]: the number COTIK holds for order o
  armed,     \* both switches are ON
  acts       \* what people did so far

VARIABLES    \* what each caller is at
  pc,
  kind,      \* the command it runs
  view,      \* snapshot.batch
  todo,      \* the groups its loop has still to visit
  cur,       \* the group being read back, its intent and that one's status
  writes,    \* writeResults: rows and texts still to be written

\* History, for the property alone: the numbers COTIK held since the snapshot.
  since

sheetVars == <<sheet, result>>
calls     == <<pc, kind, view, todo, cur, writes>>
vars      == <<sheetVars, intent, tracking, armed, acts, calls, since>>

Of(column) == {c[column] : c \in Cell} \ {None}
Order == Of("order")
Group == [shop : Of("shop") \cup {None}, order : Order]
Intent == [shop : Proven, order : Order, tracking : Of("tracking"), note : Of("note")]

IntentStatus == {"ABSENT", "PENDING", "IN_PROGRESS", "CONFIRMED", "FAILED", "ABORTED"}
Text == {"DONE", "ALREADY", "NOT_ACCEPTED", "STOPPED"}
Kind == {"execute", "stage-sheet-date", "reconcile-sheet-date"}

NoWrites == [r \in {} |-> None]
NoView == [r \in {} |-> None]
NotReading == [group |-> None]
Idle == [pc |-> "idle"]

TypeOK ==
  /\ sheet \in [Row -> Cell]
  /\ result \in [Row -> Text \cup {None}]
  /\ intent \in [Intent -> IntentStatus]
  /\ tracking \in [Order -> Of("tracking") \cup {None}]
  /\ armed \in BOOLEAN
  /\ acts \in 0..MaxActs
  /\ pc \in [Caller -> {"idle", "read", "stage", "cycle", "reconcile", "readback", "write"}]
  /\ kind \in [Caller -> Kind \cup {None}]
  /\ \A c \in Caller : /\ DOMAIN view[c] \in {{}, Row}
                       /\ todo[c] \subseteq Group
                       /\ DOMAIN writes[c] \subseteq Row
  /\ since \in [Caller -> [Order -> SUBSET Of("tracking")]]

Init ==
  /\ sheet \in [Row -> Cell]
  /\ result = [r \in Row |-> None]
  /\ intent = [i \in Intent |-> "ABSENT"]
  /\ tracking = [o \in Order |-> None]
  /\ armed = TRUE
  /\ acts = 0
  /\ pc = [c \in Caller |-> "idle"]
  /\ kind = [c \in Caller |-> None]
  /\ view = [c \in Caller |-> NoView]
  /\ todo = [c \in Caller |-> {}]
  /\ cur = [c \in Caller |-> NotReading]
  /\ writes = [c \in Caller |-> NoWrites]
  /\ since = [c \in Caller |-> [o \in Order |-> {}]]

-----------------------------------------------------------------------------
(* readCotikTrackingSheetBatch and groupCotikTrackingRows, on a snapshot.  *)

Dated(v) == {r \in DOMAIN v : v[r].dated}
SkippedRows(v) == {r \in Dated(v) : v[r].order = None}

RowsOf(v, g) == {r \in Dated(v) : v[r].order = g.order /\ v[r].shop = g.shop}
Groups(v) == {g \in Group : RowsOf(v, g) # {}}
NonBlank(v, g, column) == {v[r][column] : r \in RowsOf(v, g)} \ {None}

\* READY: one SHEIN order on every row, one tracking number, one provider note.
Ready(v, g) ==
  /\ g.shop # None
  /\ \A r \in RowsOf(v, g) : v[r].shein # None
  /\ \A column \in {"shein", "tracking", "note"} : Cardinality(NonBlank(v, g, column)) = 1

\* The group is READY and resolveGroupLogicalShopId finds its shop.
Stageable(v, g) == Ready(v, g) /\ g.shop \in Proven

TrackingOf(v, g) == CHOOSE t \in NonBlank(v, g, "tracking") : TRUE

IntentOf(v, g) == [shop |-> g.shop, order |-> g.order, tracking |-> TrackingOf(v, g),
                   note |-> CHOOSE n \in NonBlank(v, g, "note") : TRUE]

\* findPostIntentForTracking: the rows of that shop, order and number, and none
\* when there are two of them, of two providers.
FindPostIntent(v, g) ==
  LET rows == {i \in Intent : /\ intent[i] # "ABSENT"
                              /\ i.shop = g.shop /\ i.order = g.order
                              /\ i.tracking = TrackingOf(v, g)}
  IN  IF Cardinality(rows) = 1 THEN CHOOSE i \in rows : TRUE ELSE None

-----------------------------------------------------------------------------
(* People, switches and the COTIK cycle.                                   *)

Act == acts < MaxActs /\ acts' = acts + 1

EditRow(r, cell) ==
  /\ Act
  /\ sheet[r] # cell
  /\ sheet' = [sheet EXCEPT ![r] = cell]
  /\ UNCHANGED <<result, intent, tracking, armed, calls, since>>

ClearResult(r) ==
  /\ Act
  /\ result[r] # None
  /\ result' = [result EXCEPT ![r] = None]
  /\ UNCHANGED <<sheet, intent, tracking, armed, calls, since>>

\* stop() and the kill switch command.
SetSwitches(on) ==
  /\ Act
  /\ armed # on
  /\ armed' = on
  /\ UNCHANGED <<sheetVars, intent, tracking, calls, since>>

CotikHolds(o, t) ==
  /\ tracking[o] # t
  /\ tracking' = [tracking EXCEPT ![o] = t]
  /\ since' = [c \in Caller |->
       IF pc[c] \in {"idle", "read"} THEN since[c]
                                     ELSE [since[c] EXCEPT ![o] = @ \cup ({t} \ {None})]]

\* A POST of the cycle lands in COTIK, however late.
PostLands(i) ==
  /\ intent[i] \in {"IN_PROGRESS", "FAILED"}
  /\ CotikHolds(i.order, i.tracking)
  /\ UNCHANGED <<sheetVars, intent, armed, acts, calls>>

\* Somebody removes the number in COTIK.
RemovedByHand(o) ==
  /\ Act
  /\ CotikHolds(o, None)
  /\ UNCHANGED <<sheetVars, intent, armed, calls>>

\* What the cycle does to a row, as module CotikTracking details it.
CycleMoves(i, s) ==
  /\ \/ intent[i] = "PENDING" /\ armed /\ s = "IN_PROGRESS"
     \/ intent[i] = "IN_PROGRESS" /\ tracking[i.order] = i.tracking /\ s = "CONFIRMED"
     \/ intent[i] = "IN_PROGRESS" /\ s \in {"PENDING", "FAILED", "ABORTED"}
  /\ intent' = [intent EXCEPT ![i] = s]
  /\ UNCHANGED <<sheetVars, tracking, armed, acts, calls, since>>

-----------------------------------------------------------------------------
(* One call of the capability or of a CLI command.                         *)

At(c, p) == pc[c] = p
Goto(c, p) == pc' = [pc EXCEPT ![c] = p]
outside == <<sheetVars, intent, tracking, armed, acts>>

\* The call returns or throws; what it held is gone.
EndCall(c) ==
  /\ Goto(c, "idle")
  /\ kind' = [kind EXCEPT ![c] = None]
  /\ view' = [view EXCEPT ![c] = NoView]
  /\ todo' = [todo EXCEPT ![c] = {}]
  /\ cur' = [cur EXCEPT ![c] = NotReading]
  /\ writes' = [writes EXCEPT ![c] = NoWrites]
  /\ since' = [since EXCEPT ![c] = [o \in Order |-> {}]]

\* execute() refuses to start unless both switches are ON; the two commands do
\* not ask.
Begin(c, k) ==
  /\ At(c, "idle")
  /\ k = "execute" => armed
  /\ Goto(c, "read")
  /\ kind' = [kind EXCEPT ![c] = k]
  /\ UNCHANGED <<outside, view, todo, cur, writes, since>>

\* readAutoTrackingSheetSnapshot; the skipped rows are the first to be written.
ReadSheet(c) ==
  /\ At(c, "read")
  /\ view' = [view EXCEPT ![c] = sheet]
  /\ todo' = [todo EXCEPT ![c] = Groups(sheet)]
  /\ writes' = [writes EXCEPT ![c] = [r \in SkippedRows(sheet) |-> "NOT_ACCEPTED"]]
  /\ since' = [since EXCEPT ![c] = [o \in Order |-> {tracking[o]} \ {None}]]
  /\ Goto(c, IF kind[c] = "reconcile-sheet-date" THEN "reconcile" ELSE "stage")
  /\ UNCHANGED <<outside, kind, cur>>

Visited(c, g) == todo' = [todo EXCEPT ![c] = @ \ {g}]

\* One group of stageAutoTrackingSheetSnapshot: PAUSED, or stageCotikTracking,
\* whose evidence may say PAUSED too.
StageGroup(c, g) ==
  /\ At(c, "stage")
  /\ g \in todo[c]
  /\ Visited(c, g)
  /\ \/ UNCHANGED intent
     \/ /\ Stageable(view[c], g)
        /\ intent[IntentOf(view[c], g)] = "ABSENT"
        /\ intent' = [intent EXCEPT ![IntentOf(view[c], g)] = "PENDING"]
  /\ UNCHANGED <<sheetVars, tracking, armed, acts, pc, kind, view, cur, writes, since>>

EndStage(c) ==
  /\ At(c, "stage")
  /\ todo[c] = {}
  /\ IF kind[c] = "execute" THEN /\ Goto(c, "cycle")
                                 /\ UNCHANGED <<kind, view, todo, cur, writes, since>>
                            ELSE EndCall(c)
  /\ UNCHANGED outside

\* runCotikWorkerCycle returns, whatever it did: LOCKED, switched off or done.
CycleReturns(c) ==
  /\ At(c, "cycle")
  /\ todo' = [todo EXCEPT ![c] = Groups(view[c])]
  /\ Goto(c, "reconcile")
  /\ UNCHANGED <<outside, kind, view, cur, writes, since>>

Note(c, g, text) ==
  writes' = [writes EXCEPT ![c] =
    [r \in DOMAIN @ \cup RowsOf(view[c], g) |-> IF r \in RowsOf(view[c], g) THEN text ELSE @[r]]]

\* One group of reconcileAutoTrackingSheetSnapshot, up to the intent it finds:
\* all but a closed intent get the same text.
FindIntent(c, g) ==
  LET v == view[c]
      i == IF Stageable(v, g) THEN FindPostIntent(v, g) ELSE None
      status == IF i = None THEN "ABSENT" ELSE intent[i] IN
  /\ At(c, "reconcile")
  /\ g \in todo[c]
  /\ Visited(c, g)
  /\ IF status \in {"CONFIRMED", "FAILED", "ABORTED"}
     THEN /\ Goto(c, "readback")
          /\ cur' = [cur EXCEPT ![c] = [group |-> g, status |-> status]]
          /\ UNCHANGED writes
     ELSE Note(c, g, "NOT_ACCEPTED") /\ UNCHANGED <<pc, cur>>
  /\ UNCHANGED <<outside, kind, view, since>>

TextForUnproven(status, confirmed) ==            \* mutant: CONFIRMED is enough
  CASE status = "CONFIRMED" -> "DONE"
    [] status # "CONFIRMED" /\ confirmed -> "ALREADY"
    [] status = "FAILED" /\ ~confirmed -> "NOT_ACCEPTED"
    [] status = "ABORTED" /\ ~confirmed -> "STOPPED"

\* The text of a closed intent, None when nothing is written.
TextFor(status, confirmed) ==
  CASE status = "CONFIRMED" -> IF confirmed THEN "DONE" ELSE None
    [] status # "CONFIRMED" /\ confirmed -> "ALREADY"
    [] status = "FAILED" /\ ~confirmed -> "NOT_ACCEPTED"
    [] status = "ABORTED" /\ ~confirmed -> "STOPPED"

\* confirmOrderTrackingReadback: a failed GET answers no.
ReadBack(c, confirmed) ==
  LET g == cur[c].group
      text == TextFor(cur[c].status, confirmed) IN
  /\ At(c, "readback")
  /\ confirmed => tracking[g.order] = TrackingOf(view[c], g)
  /\ IF text = None THEN UNCHANGED writes ELSE Note(c, g, text)
  /\ cur' = [cur EXCEPT ![c] = NotReading]
  /\ Goto(c, "reconcile")
  /\ UNCHANGED <<outside, kind, view, todo, since>>

\* The account is not ACTIVE or its token cannot be read: nothing is written.
AccountUnavailable(c) ==
  /\ At(c, "readback")
  /\ cur' = [cur EXCEPT ![c] = NotReading]
  /\ Goto(c, "reconcile")
  /\ UNCHANGED <<outside, kind, view, todo, writes, since>>

\* All groups were read; writeback: false ends here.
EndReconcile(c, writeback) ==
  /\ At(c, "reconcile")
  /\ todo[c] = {}
  /\ IF writeback /\ writes[c] # NoWrites
     THEN Goto(c, "write") /\ UNCHANGED <<kind, view, todo, cur, writes, since>>
     ELSE EndCall(c)
  /\ UNCHANGED outside

\* writeCotikTrackingSheetResults: one PUT, read back; the row is the number it
\* had in the snapshot, and its present text is not looked at.
WriteResult(c, r) ==
  /\ At(c, "write")
  /\ r \in DOMAIN writes[c]
  /\ result' = [result EXCEPT ![r] = writes[c][r]]
  /\ IF DOMAIN writes[c] = {r}
     THEN EndCall(c)
     ELSE /\ writes' = [writes EXCEPT ![c] = [q \in DOMAIN @ \ {r} |-> @[q]]]
          /\ UNCHANGED <<pc, kind, view, todo, cur, since>>
  /\ UNCHANGED <<sheet, intent, tracking, armed, acts>>

\* A request of Google, COTIK or the database throws, or the process dies.
CallFails(c) ==
  /\ ~At(c, "idle")
  /\ EndCall(c)
  /\ UNCHANGED outside

CallStep(c) ==
  \/ \E k \in Kind : Begin(c, k)
  \/ ReadSheet(c)
  \/ \E g \in Group : StageGroup(c, g) \/ FindIntent(c, g)
  \/ EndStage(c) \/ CycleReturns(c)
  \/ \E yes \in BOOLEAN : ReadBack(c, yes) \/ EndReconcile(c, yes)
  \/ AccountUnavailable(c)
  \/ \E r \in Row : WriteResult(c, r)
  \/ CallFails(c)

Next ==
  \/ \E c \in Caller : CallStep(c)
  \/ \E r \in Row : ClearResult(r) \/ \E cell \in Cell : EditRow(r, cell)
  \/ \E on \in BOOLEAN : SetSwitches(on)
  \/ \E i \in Intent : PostLands(i) \/ \E s \in IntentStatus : CycleMoves(i, s)
  \/ \E o \in Order : RemovedByHand(o)

Spec == Init /\ [][Next]_vars

-----------------------------------------------------------------------------
(* Properties.                                                             *)

\* A row is reported "Add track DONE" only when COTIK held, at a moment after
\* the sheet was read, the one tracking number that every filled-in row of its
\* order has: neither an old CONFIRMED intent nor one half of a split order is
\* enough (cotik-tracking-workflow.ts reconcileAutoTrackingSheetSnapshot).
DoneIsCurrent ==
  \A c \in Caller : \A r \in DOMAIN writes[c] :
    writes[c][r] = "DONE" =>
      LET g == [shop |-> view[c][r].shop, order |-> view[c][r].order] IN
      \E t \in since[c][g.order] : NonBlank(view[c], g, "tracking") = {t}

\* The capability writes a result only into a blank cell of column W
\* (docs/execution/auto-tracking-capability.md).
BlankCellsOnly ==
  [][\A r \in Row : (result'[r] # result[r] /\ result'[r] \in Text) => result[r] = None]_vars
=============================================================================
