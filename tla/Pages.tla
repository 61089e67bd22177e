------------------------------- MODULE Pages -------------------------------
(***************************************************************************)
(* Reading a list page by page while it changes.                           *)
(*                                                                         *)
(* Tasks are read by (updated_at, id) descending, the entries of the logs  *)
(* by (created_at, id).  A list asks for one row more than a page to learn *)
(* whether another follows; the export reads chunks until one is not full. *)
(* The cursor is the last row kept.  A change takes its timestamp before   *)
(* it locks or inserts the row: a task may get an updated_at older than    *)
(* the one it replaces, and an entry appear below entries already read.    *)
(* Tasks also come and go without a timestamp: with their project, and     *)
(* with their labels when the list is filtered by one.                     *)
(***************************************************************************)
EXTENDS Integers, FiniteSets

CONSTANTS Rows,      \* ids: numbers, for the order of uuids
          PageSize,  \* limit, EXPORT_CHUNK_SIZE
          MaxWrites  \* bound: changes

VARIABLES list,      \* which list is read
          updated,   \* updated_at of each task, created_at of each entry
          matching,  \* rows that are there and pass the filters
          writing,   \* changes that have their timestamp
          writes,    \* timestamps taken
          reader,    \* where the reader is
          seen,      \* how often it has got each row
          quiet,     \* history: rows neither written, shown nor hidden
                     \* since it began
          backwards  \* history: tasks whose updated_at went back since then

vars == <<list, updated, matching, writing, writes, reader, seen, quiet, backwards>>

-----------------------------------------------------------------------------
Logs == {"task audit", "comments", "feed", "events", "deliveries"}
Lists == {"tasks"} \cup Logs

Absent == -1      \* the created_at of an entry still to be written

Start == [at |-> MaxWrites + 1, id |-> 0]      \* no cursor yet

Reading == reader.pc \in {"list", "export"}

TypeOK ==
  /\ list \in Lists
  /\ updated \in [Rows -> Absent..MaxWrites]
  /\ matching \subseteq Rows
  /\ writes \in 0..MaxWrites
  /\ writing \subseteq [rows : SUBSET Rows, at : 1..MaxWrites]
  /\ reader \in [pc : {"idle", "list", "export", "done"},
                 cursor : [at : 0..MaxWrites + 1, id : Rows \cup {0}]]
  /\ seen \in [Rows -> 0..MaxWrites + 1]
  /\ quiet \subseteq Rows /\ backwards \subseteq Rows

\* Rows of one statement have the same timestamp: those of a bulk update, or
\* the reminders of a sweep.
Init ==
  /\ list \in Lists
  /\ matching \in SUBSET Rows
  /\ updated = [r \in Rows |-> IF r \in matching \/ list = "tasks" THEN 0 ELSE Absent]
  /\ writing = {}
  /\ writes = 0
  /\ reader = [pc |-> "idle", cursor |-> Start]
  /\ seen = [r \in Rows |-> 0]
  /\ quiet = Rows
  /\ backwards = {}

-----------------------------------------------------------------------------
TakeTimestamp(rs) ==
  /\ writes < MaxWrites /\ rs # {}
  /\ writes' = writes + 1
  /\ writing' = writing \cup {[rows |-> rs, at |-> writes + 1]}
  /\ UNCHANGED <<list, updated, matching, reader, seen, quiet, backwards>>

\* An update of a task or a bulk update commits, and the new values match the
\* filters or not; or entries of a log are inserted, once.
CommitWrite(w, now) ==
  /\ list \in Logs => (now = w.rows /\ \A r \in w.rows : updated[r] = Absent)
  /\ updated' = [r \in Rows |-> IF r \in w.rows THEN w.at ELSE updated[r]]
  /\ matching' = (matching \ w.rows) \cup (now \cap w.rows)
  /\ writing' = writing \ {w}
  /\ quiet' = quiet \ w.rows
  /\ backwards' = backwards \cup {r \in w.rows : w.at < updated[r]}
  /\ UNCHANGED <<list, writes, reader, seen>>

\* Rows come and go, and keep their timestamps.
Become(shown) ==
  /\ matching' = shown
  /\ quiet' = {r \in quiet : r \in matching <=> r \in shown}
  /\ UNCHANGED <<list, updated, writing, writes, reader, seen, backwards>>

Vanish(rs) == rs # {} /\ Become(matching \ rs)

\* Lists leave out the tasks of archived projects.
ArchiveProject(rs) == list = "tasks" /\ Vanish(rs)

RestoreProject(rs) == list = "tasks" /\ Become(matching \cup rs)

\* A list filtered by a label: a task's labels are replaced, or the label is
\* deleted from them all.
SetTaskLabels(r) ==
  list = "tasks" /\ Become(IF r \in matching THEN matching \ {r} ELSE matching \cup {r})

DeleteLabel == list = "tasks" /\ Vanish(matching)

DeleteComment(r) == list = "comments" /\ Vanish({r})

\* One entry or all, while the unread ones are listed.
MarkRead(r) == list = "feed" /\ Vanish({r})

MarkAllRead == list = "feed" /\ Vanish(matching)

\* The retention sweeps delete the entries created before a time.
Older(at) == {r \in matching : updated[r] < at}

PurgeNotifications(at) == list = "feed" /\ \E rs \in SUBSET Older(at) : Vanish(rs)

PurgeEvents(at) == list = "events" /\ Vanish(Older(at))

-----------------------------------------------------------------------------
\* Mutant: rows are compared by time alone.
OlderThan(r, c) == r \in matching /\ updated[r] < c.at

\* The condition of apply_task_filters and of every list of a log.
Below(r, c) ==
  /\ r \in matching
  /\ updated[r] < c.at \/ (updated[r] = c.at /\ r < c.id)

\* ORDER BY updated_at DESC, id DESC
Precedes(q, r) == updated[q] > updated[r] \/ (updated[q] = updated[r] /\ q > r)

\* The first n rows below the cursor.
Fetch(n) ==
  LET rest == {r \in Rows : Below(r, reader.cursor)}
  IN  {r \in rest : Cardinality({q \in rest : Precedes(q, r)}) < n}

LastOf(rs) ==
  LET r == CHOOSE r \in rs : \A q \in rs \ {r} : Precedes(q, r)
  IN  [at |-> updated[r], id |-> r]

Kept(rs, pc) ==
  /\ seen' = [r \in Rows |-> IF r \in rs THEN seen[r] + 1 ELSE seen[r]]
  /\ reader' = [pc |-> pc, cursor |-> IF rs = {} THEN reader.cursor ELSE LastOf(rs)]
  /\ UNCHANGED <<list, updated, matching, writing, writes, quiet, backwards>>

BeginReading(pc) ==
  /\ reader.pc = "idle" /\ (pc = "export" => list = "tasks")
  /\ reader' = [reader EXCEPT !.pc = pc]
  /\ quiet' = Rows
  /\ backwards' = {}
  /\ UNCHANGED <<list, updated, matching, writing, writes, seen>>

\* A client follows next_cursor until there is none.
ListPage ==
  /\ reader.pc = "list"
  /\ LET got == Fetch(PageSize + 1)
     IN  IF Cardinality(got) > PageSize
         THEN Kept(Fetch(PageSize), "list")
         ELSE Kept(got, "done")

ListTasks == list = "tasks" /\ ListPage
ListTaskAudit == list = "task audit" /\ ListPage
ListTaskComments == list = "comments" /\ ListPage
ListNotificationFeed == list = "feed" /\ ListPage
ListAuditEvents == list = "events" /\ ListPage
ListWebhookDeliveries == list = "deliveries" /\ ListPage

ExportChunk ==
  /\ reader.pc = "export"
  /\ LET chunk == Fetch(PageSize)
     IN  Kept(chunk, IF Cardinality(chunk) = PageSize THEN "export" ELSE "done")

\* Bound: a behaviour ends with the reading.
Next ==
  /\ reader.pc # "done"
  /\ \/ \E rs \in SUBSET Rows : TakeTimestamp(rs)
     \/ \E w \in writing, now \in SUBSET Rows : now \subseteq w.rows /\ CommitWrite(w, now)
     \/ \E pc \in {"list", "export"} : BeginReading(pc)
     \/ \E rs \in SUBSET matching : ArchiveProject(rs)
     \/ \E rs \in SUBSET (Rows \ matching) : RestoreProject(rs)
     \/ \E r \in Rows : SetTaskLabels(r)
     \/ \E r \in matching : DeleteComment(r) \/ MarkRead(r)
     \/ DeleteLabel \/ MarkAllRead
     \/ \E at \in 1..MaxWrites : PurgeNotifications(at) \/ PurgeEvents(at)
     \/ ListTasks \/ ListTaskAudit \/ ListTaskComments
     \/ ListNotificationFeed \/ ListAuditEvents \/ ListWebhookDeliveries
     \/ ExportChunk

Spec == Init /\ [][Next]_vars

-----------------------------------------------------------------------------
\* Whoever reads to the end gets every row that matched all along and was not
\* written meanwhile, once, and none that never did; a task that was only shown
\* or hidden meanwhile, with its project or by its labels, may be missed.  And
\* no row comes twice, but for a task whose update was stamped early and
\* committed late and put it behind the cursor.
PagesComplete ==
  /\ reader.pc = "done" => \A r \in quiet : seen[r] = IF r \in matching THEN 1 ELSE 0
  /\ \A r \in Rows : seen[r] > 1 => r \in backwards
=============================================================================
