---------------------------- MODULE SweepScheduler ---------------------------
(***************************************************************************)
(* The scheduler loop of every worker process, and the internal gRPC call  *)
(* that asks for a sweep: each looks for a pending sweep job of its type   *)
(* and inserts one if there is none.  The look and the insert are two      *)
(* statements without a transaction.                                       *)
(*                                                                         *)
(* JobQueue models how a job is run; here only what happens to the columns *)
(* the scheduler and the purge read.  A processor writes the outcome by id *)
(* alone: it may come after the reaper took the job back, or after another *)
(* processor finished it.                                                  *)
(***************************************************************************)
EXTENDS Integers, Sequences, FiniteSets

CONSTANTS Rows,       \* rows background_jobs has room for at a time
          Schedulers, \* scheduler loops, one per worker process
          Processors, \* job processors, one per worker process
          Interval,   \* retention_sweep_interval_hours
          Retention,  \* job_retention_days
          Backoff,    \* what fail_job adds to scheduled_at
          Horizon     \* bound on the clock

Idle == "idle"

ASSUME SweepSchedulerAssumption ==
  /\ Idle \notin Rows
  /\ Interval \in Nat \ {0}
  /\ Retention \in Nat
  /\ Backoff \in Nat
  /\ Horizon \in Nat

VARIABLES now,       \* the clock
          row,       \* background_jobs: the two types of sweep
          scheduler, \* where each scheduler loop is
          running,   \* the row each processor has claimed and not recorded
          started    \* when each scheduler has created its retention sweeps

vars == <<now, row, scheduler, running, started>>

-----------------------------------------------------------------------------
Types == {"due_reminder_sweep", "retention_sweep"}
Pending == {"queued", "running"}
Terminal == {"completed", "dead_letter"}

NoRow == [type |-> "none", status |-> "absent", scheduled |-> 0, finished |-> 0]
Job == [type : Types, status : Pending \cup Terminal, scheduled : Nat,
        finished : 0 .. Horizon]

\* A scheduler looks for one type, inserts if it must, then the other type.
Step == [do : {"look", "insert"}, type : Types]

TypeOK ==
  /\ now \in 0 .. Horizon
  /\ row \in [Rows -> {NoRow} \cup Job]
  /\ scheduler \in [Schedulers -> Step]
  /\ running \in [Processors -> Rows \cup {Idle}]
  /\ started \in [Schedulers -> Seq(0 .. Horizon)]

Init ==
  /\ now = 0
  /\ row = [r \in Rows |-> NoRow]
  /\ scheduler = [s \in Schedulers |-> [do |-> "look", type |-> "due_reminder_sweep"]]
  /\ running = [p \in Processors |-> Idle]
  /\ started = [s \in Schedulers |-> <<>>]

-----------------------------------------------------------------------------
Other(type) == CHOOSE t \in Types : t # type

\* Mutant: only pending sweeps block.
PendingBlocks(type) ==
  \E r \in Rows : row[r].type = type /\ row[r].status \in Pending

Blocks(type) ==
  \E r \in Rows :
    /\ row[r].type = type
    /\ \/ row[r].status \in Pending
       \/ type = "retention_sweep" /\ row[r].scheduled > now - Interval

Look(s) ==
  LET type == scheduler[s].type
  IN  /\ scheduler[s].do = "look"
      /\ scheduler' = [scheduler EXCEPT ![s] =
                         IF Blocks(type) THEN [do |-> "look", type |-> Other(type)]
                                         ELSE [do |-> "insert", type |-> type]]
      /\ UNCHANGED <<now, row, running, started>>

Insert(s) ==
  LET type == scheduler[s].type
  IN  /\ scheduler[s].do = "insert"
      /\ \E r \in Rows :
           /\ row[r] = NoRow
           /\ row' = [row EXCEPT ![r] =
                        [type |-> type, status |-> "queued", scheduled |-> now,
                         finished |-> 0]]
      /\ scheduler' = [scheduler EXCEPT ![s] = [do |-> "look", type |-> Other(type)]]
      /\ started' = IF type = "retention_sweep"
                      THEN [started EXCEPT ![s] = Append(@, now)] ELSE started
      /\ UNCHANGED <<now, running>>

-----------------------------------------------------------------------------
(* What the job queue does to a row.  The attempts that decide between     *)
(* another try and the dead letter are JobQueue's: here either may happen. *)

Start(p, r) ==
  /\ running[p] = Idle
  /\ row[r].status = "queued" /\ row[r].scheduled <= now
  /\ row' = [row EXCEPT ![r].status = "running"]
  /\ running' = [running EXCEPT ![p] = r]
  /\ UNCHANGED <<now, scheduler, started>>

\* The processor writes the outcome, whatever became of the row since.
Record(p, outcome) ==
  /\ running[p] # Idle
  /\ row' = [row EXCEPT ![running[p]] = outcome]
  /\ running' = [running EXCEPT ![p] = Idle]
  /\ UNCHANGED <<now, scheduler, started>>

\* A completed job keeps its scheduled_at.
Complete(p) ==
  Record(p, [row[running[p]] EXCEPT !.status = "completed", !.finished = now])

\* A late failure queues again what another processor completed.
Retry(p) ==
  Record(p, [row[running[p]] EXCEPT !.status = "queued", !.scheduled = now + Backoff,
                                    !.finished = 0])

GiveUp(p) ==
  Record(p, [row[running[p]] EXCEPT !.status = "dead_letter", !.scheduled = now,
                                    !.finished = now])

\* The process dies, or the write of the outcome fails.
Abandon(p) ==
  /\ running[p] # Idle
  /\ running' = [running EXCEPT ![p] = Idle]
  /\ UNCHANGED <<now, row, scheduler, started>>

\* requeue_stale_jobs, of one row: whoever runs the job still does.
Reap(r) ==
  /\ row[r].status = "running"
  /\ \/ row' = [row EXCEPT ![r] = [@ EXCEPT !.status = "queued", !.scheduled = now]]
     \/ row' = [row EXCEPT ![r] = [@ EXCEPT !.status = "dead_letter", !.scheduled = now,
                                            !.finished = now]]
  /\ UNCHANGED <<now, scheduler, running, started>>

\* The retention sweep deletes old terminal rows, those of sweeps included.
\* Whoever still runs a deleted row will update nothing: it might be idle.
Purge(r) ==
  /\ row[r].status \in Terminal
  /\ row[r].finished < now - Retention
  /\ row' = [row EXCEPT ![r] = NoRow]
  /\ running' = [p \in Processors |-> IF running[p] = r THEN Idle ELSE running[p]]
  /\ UNCHANGED <<now, scheduler, started>>

Tick ==
  /\ now < Horizon
  /\ now' = now + 1
  /\ UNCHANGED <<row, scheduler, running, started>>

Next ==
  \/ \E s \in Schedulers : Look(s) \/ Insert(s)
  \/ \E p \in Processors : \/ \E r \in Rows : Start(p, r)
                           \/ Complete(p) \/ Retry(p) \/ GiveUp(p) \/ Abandon(p)
  \/ \E r \in Rows : Reap(r) \/ Purge(r)
  \/ Tick

Spec == Init /\ [][Next]_vars

-----------------------------------------------------------------------------
\* How far apart the sweeps are kept: the row that holds the next one back is
\* gone one instant past Retention, if that is sooner.
Cadence == IF Interval <= Retention THEN Interval ELSE Retention + 1

\* However many schedulers race, attempts fail late or lapse, and rows are
\* purged, no scheduler creates two retention sweeps less than Cadence apart:
\* of all sweeps ever created, those whose rows are gone included.
CadenceKept ==
  \A s \in Schedulers : \A i \in 1 .. Len(started[s]) - 1 :
    started[s][i + 1] >= started[s][i] + Cadence
=============================================================================
