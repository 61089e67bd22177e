----------------------------- MODULE Workspace -----------------------------
(***************************************************************************)
(* The tasks and projects of one tenant.                                   *)
(*                                                                         *)
(* A call that changes tasks looks at the project it names, takes its      *)
(* timestamp, changes the rows and writes the audit entries in one         *)
(* transaction, and after that bumps the cache version and queues the      *)
(* webhook event (what the bump is for: TaskRequests; the deliveries:      *)
(* Webhooks).  The timestamp of an update is older than its lock on the    *)
(* row, so entries of overlapping calls may be stamped against their order.*)
(*                                                                         *)
(* Titles, priorities, assignees and due dates change along with a status  *)
(* and are not told apart.                                                 *)
(***************************************************************************)
EXTENDS Integers, FiniteSets

CONSTANTS Projects, Tasks,  \* ids
          Calls,            \* calls in flight at a time
          MaxStamps         \* bound: timestamps taken before the last call

VARIABLES project,   \* projects: "absent", "open", "archived"
          task,      \* tasks
          newest,    \* of the audit entries of a task that name a status, the latest
          event,     \* the status in the last webhook event of a task
          call,      \* where each call is
          clock,     \* timestamps taken
          frozen,    \* history: the tasks of a project when it was archived
          late,      \* history: tasks put in a project archived since the look
          met        \* history: tasks on which calls overlapped, or stopped half way

history == <<frozen, late, met>>
vars == <<project, task, newest, event, call, clock, frozen, late, met>>

-----------------------------------------------------------------------------
NoProject == "no project"
Keep == "unchanged"
\* "in_progress" and "done" are not told apart from "open".
Statuses == {"open", "archived"}

NoTask == [status |-> "absent", project |-> NoProject]
NoEntry == [status |-> "absent", at |-> 0]
Idle == [op |-> "none", pc |-> "idle", tasks |-> {}, status |-> Keep, project |-> Keep,
         at |-> 0, dirty |-> FALSE, row |-> <<>>]

Stamps == 1..(MaxStamps + Cardinality(Calls))

Exists(t) == task[t] # NoTask

TypeOK ==
  /\ project \in [Projects -> {"absent", "open", "archived"}]
  /\ task \in [Tasks -> [status : Statuses, project : Projects \cup {NoProject}]
                        \cup {NoTask}]
  /\ newest \in [Tasks -> [status : Statuses, at : Stamps] \cup {NoEntry}]
  /\ event \in [Tasks -> Statuses \cup {"absent"}]
  /\ \A c \in Calls : call[c].pc \in {"idle", "write", "publish"}
  /\ clock \in {0} \cup Stamps

Init ==
  /\ project = [p \in Projects |-> "absent"]
  /\ task = [t \in Tasks |-> NoTask]
  /\ newest = [t \in Tasks |-> NoEntry]
  /\ event = [t \in Tasks |-> "absent"]
  /\ call = [c \in Calls |-> Idle]
  /\ clock = 0
  /\ frozen = [p \in Projects |-> {}]
  /\ late = {}
  /\ met = {}

Busy(t) == \E d \in Calls : t \in call[d].tasks

Start(c, new) ==
  /\ call[c] = Idle /\ clock < MaxStamps
  /\ clock' = clock + 1
  /\ call' = [call EXCEPT ![c] = [new EXCEPT !.at = clock + 1]]
  /\ met' = met \cup {t \in new.tasks : Busy(t)}

End(c) == call' = [call EXCEPT ![c] = Idle]

-----------------------------------------------------------------------------
(* Projects.                                                               *)

CreateProject(p) ==
  /\ project[p] = "absent"
  /\ project' = [project EXCEPT ![p] = "open"]
  /\ UNCHANGED <<task, newest, event, call, clock, history>>

\* Calls that have looked at the project go on as if it were open.
ArchiveProject(p) ==
  /\ project[p] = "open"
  /\ project' = [project EXCEPT ![p] = "archived"]
  /\ frozen' = [frozen EXCEPT ![p] = {t \in Tasks : task[t].project = p}]
  /\ call' = [c \in Calls |-> IF call[c].project = p
                              THEN [call[c] EXCEPT !.dirty = TRUE] ELSE call[c]]
  /\ UNCHANGED <<task, newest, event, clock, late, met>>

RestoreProject(p) ==
  /\ project[p] = "archived"
  /\ project' = [project EXCEPT ![p] = "open"]
  /\ UNCHANGED <<task, newest, event, call, clock, history>>

-----------------------------------------------------------------------------
(* Calls that change tasks.                                                *)

\* Mutant: the project is not looked at.
AnyProject(p) == TRUE

\* ensure_project_belongs_to_tenant, when the input names a project.
Usable(p) == p \in Projects => project[p] = "open"

\* Ids are made up by the server; a call that names one may name no task.
CreateTask(c, t, s, p) ==
  /\ ~Exists(t) /\ ~Busy(t) /\ Usable(p)
  /\ Start(c, [Idle EXCEPT !.op = "create", !.pc = "write", !.tasks = {t},
                           !.status = s, !.project = p])
  /\ UNCHANGED <<project, task, newest, event, frozen, late>>

UpdateTask(c, t, s, p) ==
  /\ Exists(t) \/ ~Busy(t)
  /\ Usable(p)
  /\ Start(c, [Idle EXCEPT !.op = "update", !.pc = "write", !.tasks = {t},
                           !.status = s, !.project = p])
  /\ UNCHANGED <<project, task, newest, event, frozen, late>>

\* The ids are distinct and at least one.
BulkUpdateStatus(c, ts, s) ==
  /\ ts # {} /\ \A t \in ts : Exists(t) \/ ~Busy(t)
  /\ Start(c, [Idle EXCEPT !.op = "bulk", !.pc = "write", !.tasks = ts, !.status = s])
  /\ UNCHANGED <<project, task, newest, event, frozen, late>>

ArchiveTask(c, t) ==
  /\ Exists(t)
  /\ Start(c, [Idle EXCEPT !.op = "archive", !.pc = "write", !.tasks = {t},
                           !.status = "archived"])
  /\ UNCHANGED <<project, task, newest, event, frozen, late>>

RestoreTask(c, t) ==
  /\ Exists(t)
  /\ Start(c, [Idle EXCEPT !.op = "restore", !.pc = "write", !.tasks = {t},
                           !.status = "open"])
  /\ UNCHANGED <<project, task, newest, event, frozen, late>>

Written(c, t) ==
  [status  |-> IF call[c].status = Keep THEN task[t].status ELSE call[c].status,
   project |-> IF call[c].project = Keep THEN task[t].project ELSE call[c].project]

\* An update that names no status writes an entry without one.
Entries(c) == IF call[c].status = Keep THEN {} ELSE call[c].tasks

\* One transaction: every row and every audit entry.
Commit(c, at) ==
  LET ts == call[c].tasks
  IN  /\ task' = [t \in Tasks |-> IF t \in ts THEN Written(c, t) ELSE task[t]]
      /\ newest' = [t \in Tasks |->
                     IF t \in Entries(c) /\ at > newest[t].at
                     THEN [status |-> Written(c, t).status, at |-> at]
                     ELSE newest[t]]
      /\ late' = IF call[c].project = Keep THEN late
                 ELSE IF call[c].dirty THEN late \cup ts ELSE late \ ts
      /\ call' = [call EXCEPT ![c].pc = "publish", ![c].row = [t \in ts |-> Written(c, t).status]]
      /\ UNCHANGED <<project, event, frozen, met>>

\* A row is missing: nothing is written, the call is refused.
Refuse(c) ==
  /\ End(c)
  /\ UNCHANGED <<project, task, newest, event, clock, history>>

InsertTask(c) ==
  /\ call[c].pc = "write" /\ call[c].op = "create"
  /\ Commit(c, call[c].at) /\ UNCHANGED clock

UpdateRow(c) ==
  /\ call[c].pc = "write" /\ call[c].op = "update"
  /\ IF \A t \in call[c].tasks : Exists(t)
     THEN Commit(c, call[c].at) /\ UNCHANGED clock
     ELSE Refuse(c)

UpdateRows(c) ==
  /\ call[c].pc = "write" /\ call[c].op = "bulk"
  /\ IF call[c].tasks \subseteq {t \in Tasks : Exists(t)}
     THEN Commit(c, call[c].at) /\ UNCHANGED clock
     ELSE Refuse(c)

\* Archive and restore look at the status, and take a second timestamp for the
\* entry, under the lock.
ArchiveRow(c) ==
  /\ call[c].pc = "write" /\ call[c].op = "archive"
  /\ IF \A t \in call[c].tasks : task[t].status \notin {"absent", "archived"}
     THEN Commit(c, clock + 1) /\ clock' = clock + 1
     ELSE Refuse(c)

RestoreRow(c) ==
  /\ call[c].pc = "write" /\ call[c].op = "restore"
  /\ IF \A t \in call[c].tasks : task[t].status = "archived"
     THEN Commit(c, clock + 1) /\ clock' = clock + 1
     ELSE Refuse(c)

CommitTasks(c) ==
  InsertTask(c) \/ UpdateRow(c) \/ UpdateRows(c) \/ ArchiveRow(c) \/ RestoreRow(c)

\* Mutant: one event for all the tasks of a call.
EventsForOne(c) == IF Cardinality(call[c].tasks) = 1 THEN call[c].tasks ELSE {}

EventsOf(c) == call[c].tasks

\* The bump has worked; the events carry the rows as the UPDATE returned them.
PublishEvents(c) ==
  /\ call[c].pc = "publish"
  /\ event' = [t \in Tasks |->
                IF t \in EventsOf(c) THEN call[c].row[t] ELSE event[t]]
  /\ End(c)
  /\ UNCHANGED <<project, task, newest, clock, history>>

-----------------------------------------------------------------------------
\* An error or a crash; after the transaction this loses the event.
AbandonCall(c) ==
  /\ call[c] # Idle
  /\ met' = IF call[c].pc = "publish" THEN met \cup call[c].tasks ELSE met
  /\ End(c)
  /\ UNCHANGED <<project, task, newest, event, clock, frozen, late>>

Next ==
  \/ \E p \in Projects : CreateProject(p) \/ ArchiveProject(p) \/ RestoreProject(p)
  \/ \E c \in Calls :
       \/ CommitTasks(c) \/ PublishEvents(c) \/ AbandonCall(c)
       \/ \E t \in Tasks :
            \/ \E s \in Statuses, p \in Projects \cup {NoProject} : CreateTask(c, t, s, p)
            \/ \E s \in Statuses \cup {Keep}, p \in Projects \cup {NoProject, Keep} :
                 UpdateTask(c, t, s, p)
            \/ ArchiveTask(c, t) \/ RestoreTask(c, t)
       \/ \E ts \in SUBSET Tasks, s \in Statuses : BulkUpdateStatus(c, ts, s)

Spec == Init /\ [][Next]_vars

-----------------------------------------------------------------------------
\* The tasks that lists and exports show.
Listed == {t \in Tasks : Exists(t)
                         /\ (task[t].project \in Projects
                               => project[task[t].project] # "archived")}

\* A task that disappears with its project was in the project when that was
\* archived, or was put there by a call that had looked at the project before:
\* nobody files a task where lists will not show it.
HiddenWithProject ==
  \A t \in Tasks :
    Exists(t) /\ t \notin Listed => t \in frozen[task[t].project] \cup late

\* The newest audit entry of a task that names a status, and once its calls are
\* over its last webhook event, tell its status, unless calls on it overlapped
\* or one failed between its transaction and its event.
ToldIsTrue ==
  \A t \in Tasks :
    Exists(t) /\ t \notin met
      => /\ newest[t].status = task[t].status
         /\ ~Busy(t) => event[t] = task[t].status
=============================================================================
