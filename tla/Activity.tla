------------------------------ MODULE Activity ------------------------------
(***************************************************************************)
(* The activity stream (GET /v1/events) under a policy: a client pages     *)
(* through the event log with the cursor of each answer, while events are  *)
(* appended and old ones dropped.  A request scans pages of the log for    *)
(* events the client may see (HotMemRuntime._collect_permitted_events).    *)
(***************************************************************************)
EXTENDS Integers, Sequences, FiniteSets

CONSTANTS
  Limit,    \* events asked for, and of a page of the scan
  MaxPages, \* max_scan_pages
  None,     \* no request
  MaxSeq    \* bound: events of the log

VARIABLES
  log,     \* the events so far: may the client see it?
  trimmed, \* the events through this seq are dropped
  scan,    \* the request: its position, its pages, the events it collects
  cursor,  \* after_seq of the client's next request
  seen     \* the events the client was given

vars == <<log, trimmed, scan, cursor, seen>>

\* query_events: a page of the log as it is now.
Page(after) ==
  LET rest == {n \in DOMAIN log : n > after /\ n > trimmed}
  IN  {n \in rest : Cardinality({m \in rest : m < n}) < Limit}

Record(visible) ==
  /\ Len(log) < MaxSeq
  /\ log' = Append(log, visible)
  /\ UNCHANGED <<trimmed, scan, cursor, seen>>

\* Retention.
TrimThrough(n) ==
  /\ trimmed' = n
  /\ UNCHANGED <<log, scan, cursor, seen>>

Request ==
  /\ scan = None
  /\ scan' = [at |-> cursor, pages |-> 0, events |-> {}, open |-> TRUE]
  /\ UNCHANGED <<log, trimmed, cursor, seen>>

\* One page.  The scan ends with it when it has collected enough or the page
\* was short, and before it when the pages are used up.
ScanPage ==
  /\ scan # None /\ scan.open
  /\ LET page  == Page(scan.at)
         found == scan.events \cup {n \in page : log[n]}
     IN  scan' = [at     |-> IF page = {} THEN scan.at
                             ELSE CHOOSE n \in page : \A m \in page : m <= n,
                  pages  |-> scan.pages + 1,
                  events |-> found,
                  open   |-> /\ Cardinality(found) < Limit
                             /\ Cardinality(page) = Limit
                             /\ scan.pages + 1 < MaxPages]
  /\ UNCHANGED <<log, trimmed, cursor, seen>>

\* The first Limit events are given; next_seq is the last one scanned.
Answer ==
  /\ scan # None /\ ~scan.open
  /\ seen' = seen \cup {n \in scan.events :
                          Cardinality({m \in scan.events : m < n}) < Limit}
  /\ cursor' = scan.at
  /\ scan' = None
  /\ UNCHANGED <<log, trimmed>>

Init ==
  /\ log = <<>> /\ trimmed = 0
  /\ scan = None /\ cursor = 0 /\ seen = {}

Next ==
  \/ \E visible \in BOOLEAN : Record(visible)
  \/ \E n \in DOMAIN log : n > trimmed /\ TrimThrough(n)
  \/ Request \/ ScanPage \/ Answer

Spec == Init /\ [][Next]_vars

-----------------------------------------------------------------------------
(* Properties.                                                             *)

\* No visible event is passed over: one the cursor has gone past was given
\* to the client, or was dropped.
NothingPassedOver ==
  \A n \in DOMAIN log : log[n] /\ trimmed < n /\ n <= cursor => n \in seen
=============================================================================
