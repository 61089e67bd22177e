------------------------------ MODULE JobQueue ------------------------------
(***************************************************************************)
(* The background job queue: rows of background_jobs in Postgres, a list   *)
(* of job ids in Redis, and the loops of every worker process: dispatcher, *)
(* job processor and stale-job reaper.                                     *)
(*                                                                         *)
(* Postgres is the source of truth; the Redis list only says which ids to  *)
(* try.  A processor pops an id, claims the row with one conditional       *)
(* UPDATE, runs the job without touching the row and writes the outcome    *)
(* with an UPDATE that names the row by id alone.  Between claim and       *)
(* outcome the reaper may take the job back.                               *)
(*                                                                         *)
(* Time appears as what the code compares: due (scheduled_at <= now) and   *)
(* stale (started_at <= now - lease).                                      *)
(***************************************************************************)
EXTENDS Integers, Sequences, FiniteSets

CONSTANTS Jobs,            \* job ids, each used for one INSERT
          Exports,         \* those of type task_export; the rest are sweeps
          Workers,         \* job processors, one per worker process
          Dispatchers,     \* dispatch loops, one per worker process
          MaxAttempts,     \* config.max_job_attempts, stored in every row
          WorkersMayStall, \* may a live processor outlast its job's lease?
          QueueBound,      \* bound on the length of the Redis list
          MaxFaults        \* bound on crashes and lost writes in a behaviour

ASSUME JobQueueAssumption ==
  /\ Exports \subseteq Jobs
  /\ MaxAttempts \in Nat \ {0}
  /\ WorkersMayStall \in BOOLEAN
  /\ QueueBound \in Nat
  /\ MaxFaults \in Nat

VARIABLES job,       \* rows of background_jobs
          queue,     \* the Redis list config.job_queue_name
          handoff,   \* rows inserted whose RPUSH has not been issued yet
          batch,     \* ids a dispatcher has listed and not pushed yet
          worker,    \* where each job processor is
          artifact,  \* attempt that last wrote the export file; 0: no file
          faults     \* crashes and lost writes so far

vars == <<job, queue, handoff, batch, worker, artifact, faults>>

-----------------------------------------------------------------------------
Terminal == {"completed", "dead_letter"}
Status == {"absent", "queued", "running", "purged"} \cup Terminal

Row == [status : Status, attempts : Nat, due : BOOLEAN, stale : BOOLEAN,
        result : Nat]

NoJob == "no job"
Idle == [pc |-> "idle", job |-> NoJob, attempt |-> 0]
Popped == [pc : {"popped"}, job : Jobs, attempt : {0}]
Running == [pc : {"executing", "stored"}, job : Jobs, attempt : Nat \ {0}]

\* w runs a job: it claimed it and has not written the outcome yet.
Holds(w) == worker[w].pc \in {"executing", "stored"}
HoldsJob(w, j) == Holds(w) /\ worker[w].job = j
HoldsClaim(w, j) == HoldsJob(w, j) /\ worker[w].attempt = job[j].attempts

TypeOK ==
  /\ job \in [Jobs -> Row]
  /\ queue \in Seq(Jobs)
  /\ handoff \subseteq Jobs
  /\ batch \in [Dispatchers -> SUBSET Jobs]
  /\ worker \in [Workers -> {Idle} \cup Popped \cup Running]
  /\ artifact \in [Jobs -> Nat]
  /\ faults \in 0 .. MaxFaults

Init ==
  /\ job = [j \in Jobs |-> [status |-> "absent", attempts |-> 0, due |-> FALSE,
                            stale |-> FALSE, result |-> 0]]
  /\ queue = <<>>
  /\ handoff = {}
  /\ batch = [d \in Dispatchers |-> {}]
  /\ worker = [w \in Workers |-> Idle]
  /\ artifact = [j \in Jobs |-> 0]
  /\ faults = 0

-----------------------------------------------------------------------------
(* Submitting: the INSERT, and the RPUSH that follows it. *)

CreateJob(j) ==
  /\ job[j].status = "absent"
  /\ job' = [job EXCEPT ![j] = [@ EXCEPT !.status = "queued", !.due = TRUE]]
  /\ handoff' = handoff \cup {j}
  /\ UNCHANGED <<queue, batch, worker, artifact, faults>>

EnqueueJob(j) ==
  /\ j \in handoff
  /\ Len(queue) < QueueBound
  /\ handoff' = handoff \ {j}
  /\ queue' = Append(queue, j)
  /\ UNCHANGED <<job, batch, worker, artifact, faults>>

-----------------------------------------------------------------------------
(* Dispatching: every ready row is listed, then pushed id by id, whether   *)
(* or not the id is in the list already.                                   *)

\* Mutant: the status test is missing.
ReadyWhateverStatus == {j \in Jobs : job[j].status # "absent" /\ job[j].due}

Ready == {j \in Jobs : job[j].status = "queued" /\ job[j].due}

ListReady(d) ==
  /\ batch[d] = {}
  /\ Ready # {}
  /\ batch' = [batch EXCEPT ![d] = Ready]
  /\ UNCHANGED <<job, queue, handoff, worker, artifact, faults>>

Dispatch(d, j) ==
  /\ j \in batch[d]
  /\ Len(queue) < QueueBound
  /\ batch' = [batch EXCEPT ![d] = @ \ {j}]
  /\ queue' = Append(queue, j)
  /\ UNCHANGED <<job, handoff, worker, artifact, faults>>

-----------------------------------------------------------------------------
(* Processing: BLPOP, then process_job. *)

Dequeue(w) ==
  /\ worker[w] = Idle
  /\ queue # <<>>
  /\ worker' = [worker EXCEPT ![w] =
                  [pc |-> "popped", job |-> Head(queue), attempt |-> 0]]
  /\ queue' = Tail(queue)
  /\ UNCHANGED <<job, handoff, batch, artifact, faults>>

\* Mutant: an attempt is counted once per job, not once per claim.
CountedOnce(j) == IF job[j].attempts = 0 THEN 1 ELSE job[j].attempts

NextAttempt(j) == job[j].attempts + 1

\* mark_job_running claims the row; its job record, attempts included, is
\* all the processor knows of the row from here on.
MarkRunning(w) ==
  LET j == worker[w].job
      a == NextAttempt(j)
  IN  /\ worker[w].pc = "popped"
      /\ IF j \in Ready
           THEN /\ job' = [job EXCEPT ![j] = [@ EXCEPT !.status = "running",
                                                       !.attempts = a,
                                                       !.stale = FALSE]]
                /\ worker' = [worker EXCEPT ![w] =
                                [pc |-> "executing", job |-> j, attempt |-> a]]
           ELSE /\ worker' = [worker EXCEPT ![w] = Idle]
                /\ UNCHANGED job
      /\ UNCHANGED <<queue, handoff, batch, artifact, faults>>

\* process_export_job writes the file under a key made of the job's id.
StoreArtifact(w) ==
  LET j == worker[w].job
  IN  /\ worker[w].pc = "executing"
      /\ j \in Exports
      /\ artifact' = [artifact EXCEPT ![j] = worker[w].attempt]
      /\ worker' = [worker EXCEPT ![w].pc = "stored"]
      /\ UNCHANGED <<job, queue, handoff, batch, faults>>

\* Mutant: the outcome is written before the file.
CompleteBeforeFile(w) == Holds(w)

ReadyToComplete(w) ==
  \/ worker[w].pc = "stored"
  \/ worker[w].pc = "executing" /\ worker[w].job \notin Exports

\* An UPDATE by id changes nothing when the row is gone.
InTable(j) == job[j].status \notin {"absent", "purged"}

CompleteJob(w) ==
  LET j == worker[w].job
  IN  /\ ReadyToComplete(w)
      /\ job' = IF InTable(j)
                  THEN [job EXCEPT ![j] = [@ EXCEPT !.status = "completed",
                                                    !.result = worker[w].attempt]]
                  ELSE job
      /\ worker' = [worker EXCEPT ![w] = Idle]
      /\ UNCHANGED <<queue, handoff, batch, artifact, faults>>

\* Mutants: the budget ends one attempt late; a status of its own.
BudgetOneMore(attempts) ==
  IF attempts > MaxAttempts THEN "dead_letter" ELSE "queued"
FailedStatus(attempts) ==
  IF attempts >= MaxAttempts THEN "failed" ELSE "queued"

AfterBadRun(attempts) ==
  IF attempts >= MaxAttempts THEN "dead_letter" ELSE "queued"

\* fail_job decides from the claimed record, not from the row it updates.
FailJob(w) ==
  LET j == worker[w].job
  IN  /\ worker[w].pc = "executing"
      /\ job' = IF InTable(j)
                  THEN [job EXCEPT ![j] =
                          [@ EXCEPT !.status = AfterBadRun(worker[w].attempt),
                                    !.due = worker[w].attempt >= MaxAttempts]]
                  ELSE job
      /\ worker' = [worker EXCEPT ![w] = Idle]
      /\ UNCHANGED <<queue, handoff, batch, artifact, faults>>

-----------------------------------------------------------------------------
(* Reaping, and the retention sweep's purge. *)

\* Mutant: the reaper leaves rows alone whose budget is spent.
StaleWithBudget ==
  {j \in Jobs : job[j].status = "running" /\ job[j].stale
                /\ job[j].attempts < MaxAttempts}

Stale == {j \in Jobs : job[j].status = "running" /\ job[j].stale}

\* requeue_stale_jobs is one UPDATE over every expired row.
ReapStaleJobs ==
  /\ Stale # {}
  /\ job' = [j \in Jobs |->
               IF j \notin Stale THEN job[j]
               ELSE [job[j] EXCEPT !.status = AfterBadRun(job[j].attempts),
                                   !.due = TRUE]]
  /\ UNCHANGED <<queue, handoff, batch, worker, artifact, faults>>

PurgeTerminalJob(j) ==
  /\ job[j].status \in Terminal
  /\ job' = [job EXCEPT ![j].status = "purged"]
  /\ UNCHANGED <<queue, handoff, batch, worker, artifact, faults>>

-----------------------------------------------------------------------------
(* Time. *)

BackoffElapses(j) ==
  /\ job[j].status = "queued" /\ ~job[j].due
  /\ job' = [job EXCEPT ![j].due = TRUE]
  /\ UNCHANGED <<queue, handoff, batch, worker, artifact, faults>>

LeaseExpires(j) ==
  /\ job[j].status = "running" /\ ~job[j].stale
  /\ WorkersMayStall \/ \A w \in Workers : ~HoldsClaim(w, j)
  /\ job' = [job EXCEPT ![j].stale = TRUE]
  /\ UNCHANGED <<queue, handoff, batch, worker, artifact, faults>>

-----------------------------------------------------------------------------
(* Faults, at most MaxFaults of them. *)

Fault == faults < MaxFaults /\ faults' = faults + 1

\* The process dies, or the UPDATE that would end the step fails: the popped
\* id or the claim is forgotten, the row stays as it is.
LoseWorker(w) ==
  /\ Fault
  /\ worker[w] # Idle
  /\ worker' = [worker EXCEPT ![w] = Idle]
  /\ UNCHANGED <<job, queue, handoff, batch, artifact>>

\* The submitting process dies, or RPUSH fails, after the INSERT.
LoseHandoff(j) ==
  /\ Fault
  /\ j \in handoff
  /\ handoff' = handoff \ {j}
  /\ UNCHANGED <<job, queue, batch, worker, artifact>>

\* A failed RPUSH ends the dispatcher's pass.
AbortDispatch(d) ==
  /\ Fault
  /\ batch[d] # {}
  /\ batch' = [batch EXCEPT ![d] = {}]
  /\ UNCHANGED <<job, queue, handoff, worker, artifact>>

LoseRedis ==
  /\ Fault
  /\ queue # <<>>
  /\ queue' = <<>>
  /\ UNCHANGED <<job, handoff, batch, worker, artifact>>

-----------------------------------------------------------------------------
WorkerNext(w) ==
  \/ Dequeue(w) \/ MarkRunning(w) \/ StoreArtifact(w)
  \/ CompleteJob(w) \/ FailJob(w)

Next ==
  \/ \E j \in Jobs : \/ CreateJob(j) \/ EnqueueJob(j) \/ PurgeTerminalJob(j)
                     \/ BackoffElapses(j) \/ LeaseExpires(j) \/ LoseHandoff(j)
  \/ \E d \in Dispatchers : \/ ListReady(d) \/ AbortDispatch(d)
                            \/ \E j \in Jobs : Dispatch(d, j)
  \/ \E w \in Workers : WorkerNext(w) \/ LoseWorker(w)
  \/ ReapStaleJobs
  \/ LoseRedis

Spec == Init /\ [][Next]_vars

(***************************************************************************)
(* The loops run on timers that keep firing, a processor ends every job it *)
(* runs, and time passes.  Nothing obliges anyone to submit a job, a fault *)
(* to happen or retention to purge.                                        *)
(***************************************************************************)
Fairness ==
  /\ \A j \in Jobs : /\ WF_vars(EnqueueJob(j))
                     /\ WF_vars(BackoffElapses(j))
                     /\ WF_vars(LeaseExpires(j))
  /\ \A d \in Dispatchers : /\ WF_vars(ListReady(d))
                            /\ WF_vars(\E j \in Jobs : Dispatch(d, j))
  /\ \A w \in Workers : WF_vars(WorkerNext(w))
  /\ WF_vars(ReapStaleJobs)

FairSpec == Spec /\ Fairness

-----------------------------------------------------------------------------
(***************************************************************************)
(* Properties that hold whether or not a processor may outlast its lease.  *)
(***************************************************************************)

\* No two processors hold the same attempt of a job, however often its id is
\* in the Redis list and however often it was reaped under a live processor.
ClaimsDistinct ==
  \A v, w \in Workers :
    (v # w /\ Holds(v) /\ HoldsJob(w, worker[v].job))
      => worker[v].attempt # worker[w].attempt

\* A job is not given up before its attempts are spent, although fail_job
\* compares the attempts the processor read when it claimed the row.
DeadLetterIsSpent ==
  \A j \in Jobs : job[j].status = "dead_letter" => job[j].attempts >= MaxAttempts

\* Stale failures may requeue a job past its budget, but each attempt below
\* MaxAttempts can do so once: a job never runs 2 * MaxAttempts times.
AttemptsBounded ==
  \A j \in Jobs : job[j].attempts <= 2 * MaxAttempts - 1

\* A completed export has its file in storage: the download of a job that
\* reports an artifact finds one.
CompletedExportHasFile ==
  \A j \in Exports : job[j].status = "completed" => artifact[j] # 0

\* Every submitted job ends up completed or dead-lettered, and from then on
\* stays so until it is purged, through lost pushes, a lost Redis, crashed
\* processors and late outcomes of processors that lost their lease.
EventuallySettled ==
  \A j \in Jobs : <>[](job[j].status \in Terminal \cup {"absent", "purged"})

(***************************************************************************)
(* Properties of the queue while no processor outlasts its lease: crashes, *)
(* duplicate pushes and lost ids are still possible.                       *)
(***************************************************************************)

\* At most one processor runs a job, and it is the one the row knows.
OneProcessorPerJob ==
  \A j \in Jobs : \A v, w \in Workers :
    HoldsJob(v, j) /\ HoldsJob(w, j) => v = w /\ HoldsClaim(v, j)

\* The result payload of a completed export describes the file in storage,
\* which every attempt overwrites under the same key.
ResultDescribesFile ==
  \A j \in Exports : job[j].status = "completed" => job[j].result = artifact[j]

\* The queue implements the job life cycle: at most MaxAttempts runs, and no
\* change to a finished job but its purge.
Lifecycle == INSTANCE JobLifecycle WITH
               status <- [j \in Jobs |-> job[j].status],
               attempts <- [j \in Jobs |-> job[j].attempts]
LifecycleSpec == Lifecycle!Spec

\* What the documentation lets clients assume: a job they have seen completed
\* stays so until it is purged.  A processor that outlasts its lease breaks it.
CompletedStaysCompleted ==
  [][\A j \in Jobs :
       job[j].status = "completed" => job'[j].status \in {"completed", "purged"}]_vars
=============================================================================
