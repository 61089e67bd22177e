--------------------------- MODULE WorkspaceParts ---------------------------
(***************************************************************************)
(* The parts of a workspace that share no state: the sweep schedulers;     *)
(* tasks and projects; labels; attachments and comments; paging; a rate    *)
(* limit.  A behaviour moves one part and leaves the others where they     *)
(* start.                                                                  *)
(***************************************************************************)
EXTENDS SweepScheduler

CONSTANTS Projects, Tasks, Labels, Calls, MaxStamps, MaxRequests,
          Files, Comments, Users, Callers, Cap,
          PagedTasks, PageSize, MaxWrites,
          Clients, Capacity, Refill, Cost, Slack, BucketHorizon, MaxLosses

VARIABLES project, task, newest, event, call, clock, frozen, late, met,
          existing, labels, request, requests, asked, merged,
          owner, stored, removals, doing, unsure, faulty,
          list, updated, matching, writing, writes, reader, seen, quiet, backwards,
          tokens, time, expires, bucketNow, reading, granted, since, rewound, losses,
          part    \* which of them moves

Task == INSTANCE Workspace
Label == INSTANCE TaskLabels WITH met <- merged
Item == INSTANCE TaskThreads
Page == INSTANCE Pages WITH Rows <- PagedTasks
Rate == INSTANCE RateLimiter WITH now <- bucketNow, Horizon <- BucketHorizon

ASSUME WorkspaceAssumption ==
  /\ Task!NoProject \notin Projects /\ Task!Keep \notin Projects
  /\ IsFiniteSet(Calls) /\ MaxStamps \in Nat /\ MaxRequests \in Nat

ASSUME ThreadsAssumption ==
  /\ IsFiniteSet(Files) /\ IsFiniteSet(Comments) /\ IsFiniteSet(Callers)
  /\ Files \cap Comments = {}
  /\ "unused" \notin Users /\ "deleted" \notin Users
  /\ Cap \in Nat \ {0}

ASSUME PagesAssumption ==
  /\ PagedTasks \subseteq Int /\ IsFiniteSet(PagedTasks)
  /\ PageSize \in Nat \ {0} /\ MaxWrites \in Nat

ASSUME BucketAssumption ==
  /\ Capacity \in Nat /\ Cost \in Nat /\ MaxLosses \in Nat
  /\ Refill \in Nat \ {0} /\ Slack \in Nat \ {0}
  /\ BucketHorizon \in Nat \ {0}

taskVars == <<project, task, newest, event, call, clock, frozen, late, met>>
labelVars == <<existing, labels, request, requests, asked, merged>>
threadVars == <<owner, stored, removals, doing, unsure, faulty>>
pageVars == <<list, updated, matching, writing, writes, reader, seen, quiet, backwards>>
bucketVars == <<tokens, time, expires, bucketNow, reading, granted, since, rewound, losses>>

PartsInit ==
  /\ Init /\ Task!Init /\ Label!Init /\ Item!Init /\ Page!Init /\ Rate!Init
  /\ part \in {"sweeps", "tasks", "labels", "threads", "pages", "bucket"}
  /\ part # "pages" => list = "tasks" /\ matching = PagedTasks

PartsNext ==
  \/ part = "sweeps" /\ Next
     /\ UNCHANGED <<taskVars, labelVars, threadVars, pageVars, bucketVars, part>>
  \/ part = "tasks" /\ Task!Next
     /\ UNCHANGED <<vars, labelVars, threadVars, pageVars, bucketVars, part>>
  \/ part = "labels" /\ Label!Next
     /\ UNCHANGED <<vars, taskVars, threadVars, pageVars, bucketVars, part>>
  \/ part = "threads" /\ Item!Next
     /\ UNCHANGED <<vars, taskVars, labelVars, pageVars, bucketVars, part>>
  \/ part = "pages" /\ Page!Next
     /\ UNCHANGED <<vars, taskVars, labelVars, threadVars, bucketVars, part>>
  \/ part = "bucket" /\ Rate!Next
     /\ UNCHANGED <<vars, taskVars, labelVars, threadVars, pageVars, part>>

allVars == <<vars, taskVars, labelVars, threadVars, pageVars, bucketVars, part>>

PartsSpec == PartsInit /\ [][PartsNext]_allVars

\* Every part keeps its types.
PartsTypeOK == TypeOK /\ Task!TypeOK /\ Label!TypeOK /\ Item!TypeOK /\ Page!TypeOK /\ Rate!TypeOK

\* Workspace: a task that lists hide was in its project when it was archived,
\* or a call that had looked at the project before put it there.
HiddenWithProject == Task!HiddenWithProject

\* Workspace: the audit log and the webhook events tell the status of a task,
\* unless calls overlapped or one failed half way.  TaskThreads: one audit entry
\* tells of a deleted item, however many calls delete it.
ToldIsTrue == Task!ToldIsTrue /\ Item!DeletionIsToldOnce

\* TaskLabels: a task has the labels of one request, unless requests overlapped.
LabelsAreOneRequest == Label!LabelsAreOneRequest

\* TaskThreads: the promised cap is exceeded, but only by overlapping uploads,
\* each by one.
CapExceededByOverlap == Item!CapExceededByOverlap

\* TaskThreads: rows and files belong to each other but for faults.
FilesMatchRows == Item!RowHasFile /\ Item!OrphansCostFaults

\* Pages: who reads to the end gets every quiet row once.
PagesComplete == Page!PagesComplete

\* RateLimiter: the bucket keeps its rate but for lost keys and late readings.
RateHolds == Rate!RateHolds
=============================================================================
