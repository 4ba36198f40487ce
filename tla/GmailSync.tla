----------------------------- MODULE GmailSync -----------------------------
(***************************************************************************)
(* The order mails of a Gmail account written to a Google Sheet            *)
(* (scripts/gmail/sync-shein-sheets.mts, gmail-sync-policy.mts).  A cycle  *)
(* loads a state file, lists the mails that are new since its anchors, or  *)
(* goes on with the queue of an earlier cycle, reads one batch of them,    *)
(* fills the blank tracking cells of the rows of their orders and saves    *)
(* the state file last.                                                    *)
(*                                                                         *)
(* Nothing excludes two cycles: the schedule starts one every few hours    *)
(* whether or not the last has ended, and a person runs the command by     *)
(* hand.  A cycle that throws, or a process that dies, saves nothing, or   *)
(* leaves half a file, which loads as a state that never ran.              *)
(*                                                                         *)
(* A mail is its number in order of arrival; Gmail lists the newest first. *)
(***************************************************************************)
EXTENDS Integers, FiniteSets, FiniteSetsExt

CONSTANTS
    Run,        \* cycles that may overlap
    Order,      \* orders
    OrderOf,    \* the order of each mail
    TrackingOf, \* the tracking number in each mail, or None
    Batch,      \* GMAIL_MAX_MESSAGES_PER_RUN
    Buffer,     \* the most mails checked again: GMAIL_MAX_INCREMENTAL_BUFFER_SIZE
    Discovery,  \* GMAIL_MAX_DISCOVERY_MESSAGES
    Window,     \* mails of the backfill hours before a legacy state's last run
    MaxMail,    \* bound: mails that arrive
    MaxCycles,  \* bound: cycles started
    MaxGone,    \* bound: mails deleted for good
    None        \* no tracking number; a blank cell

VARIABLES
    mail,    \* mails that arrived
    gone,    \* those deleted for good
    file,    \* the state file, Torn while it is being written
    sheet,   \* the tracking cell of each order, Absent without a row
    pc,      \* what each cycle has loaded, listed and read
    cycles,  \* cycles started
    handled, \* history: mails a cycle has read and written what they ask for
    missed   \* history: mails outside a listing cut short or the hours of a backfill

vars == <<mail, gone, file, sheet, pc, cycles, handled, missed>>

Mail == 1 .. MaxMail
Torn == [torn |-> TRUE]
Absent == "ABSENT"
Idle == [step |-> "idle"]
Present == (1 .. mail) \ gone

\* The first n of a list, newest first.
Newest(mails, n) == {m \in mails : Cardinality({o \in mails : o > m}) < n}

\* loadSyncState without a file, or with one that does not parse.
FreshState ==
    [first |-> FALSE, migrate |-> FALSE, pending |-> {}, anchors |-> {}, ranAt |-> 0]

\* A state of an older version that had listed the first mail: its first scan
\* ended or did not, and the mail may still be in its queue.
LegacyState(first, pending) ==
    [first |-> first, migrate |-> TRUE, pending |-> pending, anchors |-> {1}, ranAt |-> 1]

Init ==
    /\ mail \in 0 .. 1
    /\ gone = {} /\ missed = {}
    /\ \/ file \in {FreshState, [FreshState EXCEPT !.migrate = TRUE]} /\ handled = {}
       \/ \E first \in BOOLEAN, pending \in SUBSET {1} :
             /\ mail = 1 /\ (first \/ pending # {})
             /\ file = LegacyState(first, pending) /\ handled = {1} \ pending
    /\ sheet \in [Order -> {Absent, None}]
    /\ pc = [r \in Run |-> Idle]
    /\ cycles = 0

Goto(r, record) == pc' = [pc EXCEPT ![r] = record]

----------------------------------------------------------------------------
(* One cycle: executeSyncCycle                                             *)

loadSyncState(r) ==
    /\ pc[r].step = "idle" /\ cycles < MaxCycles
    /\ cycles' = cycles + 1
    /\ Goto(r, [step |-> "list", state |-> IF file = Torn THEN FreshState ELSE file])
    /\ UNCHANGED <<mail, gone, file, sheet, handled, missed>>

\* What a cycle does with a list: the batch it reads, the queue it leaves, the
\* mails its next anchors are taken from, when it moves them, and the mails that
\* are neither new nor known to it and that it does not list.
Plan(r, batch, pending, checkpoint, migrated, left) ==
    Goto(r, IF batch = {}
            THEN [step |-> "save", next |-> pc[r].state]
            ELSE [step |-> "read", state |-> pc[r].state, batch |-> batch,
                  pending |-> pending, checkpoint |-> checkpoint, migrated |-> migrated,
                  left |-> left, failed |-> {}, rows |-> <<>>])

\* The queue of an earlier cycle comes first.
DrainQueue(r) ==
    LET batch == Newest(pc[r].state.pending, Batch)
    IN  /\ pc[r].state.pending # {}
        /\ Plan(r, batch, pc[r].state.pending \ batch, {}, FALSE, {})

\* A state of an older version reads the backfill window again.
Backfill(r) ==
    LET window == {m \in Present : m > pc[r].state.ranAt - Window}
        found == Newest(window, Discovery)
        batch == Newest(found, Batch)
    IN  /\ pc[r].state.pending = {} /\ pc[r].state.migrate /\ pc[r].state.first
        /\ Plan(r, batch, found \ batch, found, TRUE, window \ found)

Incremental(r) ==
    /\ pc[r].state.pending = {} /\ pc[r].state.first
    /\ ~ pc[r].state.migrate /\ pc[r].state.anchors # {}

\* The mails listed before the first anchor are new, those from it on are
\* checked again, as many as the page holds; the newest of both take part in
\* this cycle, the checked ones first.
ListNew(r) ==
    LET found == Newest(Present, Discovery)
        hits == found \cap pc[r].state.anchors
        new == {m \in found : m > Max(hits)}
    IN  /\ Incremental(r) /\ hits # {}
        /\ \E size \in 1 .. Buffer :
              LET again == Newest(found \ new, size)
                  taken == Newest(new, Batch - Cardinality(again))
              IN  Plan(r, taken \cup again, new \ taken, new \cup again, FALSE, {})

\* None of the anchors is found: the cycle throws rather than miss a mail.
AnchorsLost(r) ==
    /\ Incremental(r) /\ Newest(Present, Discovery) \cap pc[r].state.anchors = {}
    /\ Goto(r, Idle)

FullScan(r) ==
    LET found == Newest(Present, Discovery)
        batch == Newest(found, Batch)
    IN  /\ pc[r].state.pending = {}
        /\ ~ pc[r].state.first \/ (~ pc[r].state.migrate /\ pc[r].state.anchors = {})
        /\ Plan(r, batch, found \ batch, found, FALSE, Present \ found)

List(r) ==
    /\ pc[r].step = "list"
    /\ DrainQueue(r) \/ Backfill(r) \/ ListNew(r) \/ AnchorsLost(r) \/ FullScan(r)
    /\ UNCHANGED <<mail, gone, file, sheet, cycles, handled, missed>>

\* Each mail of the batch is fetched; one that cannot be, for any reason but
\* a rate limit, is passed over.
fetchOrderDetailsFromMessages(r, failed) ==
    /\ pc[r].step = "read"
    /\ Goto(r, [pc[r] EXCEPT !.step = "sheet", !.failed = failed])
    /\ UNCHANGED <<mail, gone, file, sheet, cycles, handled, missed>>

readSheetYtoAC(r) ==
    /\ pc[r].step = "sheet"
    /\ Goto(r, [pc[r] EXCEPT !.step = "write", !.rows = sheet])
    /\ UNCHANGED <<mail, gone, file, sheet, cycles, handled, missed>>

FirstMail(r, o) ==  \* mutant
    LET mails == {m \in pc[r].batch \ pc[r].failed : OrderOf[m] = o}
    IN  IF mails = {} THEN None ELSE TrackingOf[Max(mails)]

\* The tracking number of an order: of the first of its mails that has one.
TrackingFor(r, o) ==
    LET mails == {m \in pc[r].batch \ pc[r].failed : OrderOf[m] = o /\ TrackingOf[m] # None}
    IN  IF mails = {} THEN None ELSE TrackingOf[Max(mails)]

\* The cell of an order after the batch of writes: a cell that was blank when
\* it was read takes the tracking number found; the others keep what they hold.
Filled(r, o) ==
    IF pc[r].rows[o] = None /\ TrackingFor(r, o) # None THEN TrackingFor(r, o)
    ELSE sheet[o]

\* The state that the cycle saves.
NextState(r, size) ==
    [first |-> pc[r].state.first \/ pc[r].pending = {},
     migrate |-> pc[r].state.migrate /\ ~ pc[r].migrated,
     pending |-> pc[r].pending,
     anchors |-> IF pc[r].checkpoint = {} THEN pc[r].state.anchors
                 ELSE Newest(pc[r].checkpoint, size),
     ranAt |-> mail]

\* Once a state of an older version has no queue, the next cycle reads the hours
\* before its last run again, and that run is the one that ended the queue.
Aged(next) ==
    IF next.migrate /\ next.pending = {} THEN {m \in 1 .. mail : m <= mail - Window} ELSE {}

\* The cells are written and read back.
updateSheetRows(r) ==
    /\ pc[r].step = "write"
    /\ sheet' = [o \in Order |-> Filled(r, o)]
    /\ handled' = handled \cup
          {m \in pc[r].batch : \/ m \in pc[r].failed \/ TrackingOf[m] = None
                               \/ pc[r].rows[OrderOf[m]] = Absent
                               \/ sheet'[OrderOf[m]] # None}
    /\ \E size \in 1 .. Buffer :
          /\ Goto(r, [step |-> "save", next |-> NextState(r, size)])
          /\ missed' = missed \cup ((pc[r].left \cup Aged(NextState(r, size))) \ handled')
    /\ UNCHANGED <<mail, gone, file, cycles>>

\* saveSyncState truncates the file and then writes it.
OpenFile(r) ==
    /\ pc[r].step = "save"
    /\ file' = Torn
    /\ Goto(r, [pc[r] EXCEPT !.step = "close"])
    /\ UNCHANGED <<mail, gone, sheet, cycles, handled, missed>>

CloseFile(r) ==
    /\ pc[r].step = "close"
    /\ file' = pc[r].next
    /\ Goto(r, Idle)
    /\ UNCHANGED <<mail, gone, sheet, cycles, handled, missed>>

\* Gmail or Sheets answer with an error, the read back differs or the process
\* dies, wherever the cycle is.
Abandon(r) ==
    /\ pc[r].step # "idle"
    /\ Goto(r, Idle)
    /\ UNCHANGED <<mail, gone, file, sheet, cycles, handled, missed>>

----------------------------------------------------------------------------
(* The command line, the account and the people who edit the sheet         *)

\* --reset: the next cycle scans the whole account.
Reset ==
    /\ file' = [(IF file = Torn THEN FreshState ELSE file) EXCEPT
                   !.first = FALSE, !.migrate = FALSE, !.pending = {}, !.anchors = {}]
    /\ UNCHANGED <<mail, gone, sheet, pc, cycles, handled, missed>>

Arrive ==
    /\ mail < MaxMail
    /\ mail' = mail + 1
    /\ UNCHANGED <<gone, file, sheet, pc, cycles, handled, missed>>

Delete(m) ==
    /\ m \in Present /\ Cardinality(gone) < MaxGone
    /\ gone' = gone \cup {m}
    /\ UNCHANGED <<mail, file, sheet, pc, cycles, handled, missed>>

AddRow(o) ==
    /\ sheet[o] = Absent
    /\ sheet' = [sheet EXCEPT ![o] = None]
    /\ UNCHANGED <<mail, gone, file, pc, cycles, handled, missed>>

Next ==
    \/ \E r \in Run :
          \/ loadSyncState(r) \/ List(r)
          \/ \E failed \in {{}} \cup {{m} : m \in Mail} :
                fetchOrderDetailsFromMessages(r, failed)
          \/ readSheetYtoAC(r) \/ updateSheetRows(r)
          \/ OpenFile(r) \/ CloseFile(r) \/ Abandon(r)
    \/ Reset \/ Arrive
    \/ \E m \in Mail : Delete(m)
    \/ \E o \in Order : AddRow(o)

Spec == Init /\ [][Next]_vars

----------------------------------------------------------------------------
(* Properties                                                              *)

States == [first : BOOLEAN, migrate : BOOLEAN, pending : SUBSET Mail,
           anchors : SUBSET Mail, ranAt : 0 .. MaxMail]

\* The types of the variables.
TypeOK ==
    /\ mail \in 0 .. MaxMail
    /\ gone \subseteq 1 .. mail /\ handled \subseteq 1 .. mail /\ missed \subseteq 1 .. mail
    /\ file = Torn \/ file \in States
    /\ \A o \in Order : sheet[o] \in {Absent, None} \cup {TrackingOf[m] : m \in Mail}
    /\ \A r \in Run : pc[r].step \in {"idle", "list", "read", "sheet", "write", "save", "close"}
    /\ cycles \in 0 .. MaxCycles

\* The mails that the cycles from a state on still come across.
Ahead(state) ==
    LET anchors == state.anchors \cap Present
    IN  IF state.pending # {} THEN state.pending \cup {m \in Present : m > Max(anchors \cup {0})}
        ELSE IF ~ state.first THEN Present
        ELSE IF state.migrate THEN {m \in Present : m > state.ranAt - Window}
        ELSE IF anchors = {} THEN Present
        ELSE {m \in Present : m > Max(anchors)}

\* No mail is skipped but in two ways: whatever state the file is in, a mail of
\* the account is still ahead of it, or a cycle has tried to read it and, when
\* its order had a row with a blank cell, has filled the cell; overlapping cycles
\* that save one over the other, cycles that throw after reading, torn files and
\* resets included.  The two ways, which the code does not report, are a scan of
\* the account or of the hours before an older state's last run that has more
\* mails than GMAIL_MAX_DISCOVERY_MESSAGES, the oldest of which are left out; and
\* an older state whose queue is read first, for the hours count back from the
\* end of the queue.
NothingSkipped ==
    file # Torn => \A m \in Present : m \in handled \cup missed \cup Ahead(file)
=============================================================================
