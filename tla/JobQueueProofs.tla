--------------------------- MODULE JobQueueProofs ---------------------------
(***************************************************************************)
(* Proofs about JobQueue, for any jobs, processors, dispatchers, budgets   *)
(* and bounds.                                                             *)
(***************************************************************************)
EXTENDS JobQueue, SequenceTheorems, FiniteSetTheorems, TLAPS

LEMMA QueueType ==
  ASSUME queue \in Seq(Jobs)
  PROVE  /\ \A j \in Jobs : Append(queue, j) \in Seq(Jobs)
         /\ queue # <<>> => Head(queue) \in Jobs /\ Tail(queue) \in Seq(Jobs)
  BY AppendProperties, HeadTailProperties

LEMMA AfterBadRunStatus ==
  \A a \in Nat : AfterBadRun(a) \in {"queued", "dead_letter"}
  BY DEF AfterBadRun

\* The updates of a row write rows.
LEMMA RowUpdates ==
  ASSUME NEW r \in Row, NEW s \in Status, NEW n \in Nat, NEW b \in BOOLEAN
  PROVE  /\ [r EXCEPT !.status = s, !.due = b] \in Row
         /\ [r EXCEPT !.status = s, !.attempts = n, !.stale = b] \in Row
         /\ [r EXCEPT !.status = s, !.result = n] \in Row
<1>1. ASSUME NEW q \in Row PROVE [q EXCEPT !.status = s] \in Row
  BY DEF Row
<1>2. ASSUME NEW q \in Row PROVE [q EXCEPT !.attempts = n] \in Row
  BY DEF Row
<1>3. ASSUME NEW q \in Row PROVE [q EXCEPT !.stale = b] \in Row
  BY DEF Row
<1>4. ASSUME NEW q \in Row PROVE [q EXCEPT !.due = b] \in Row
  BY DEF Row
<1>5. ASSUME NEW q \in Row PROVE [q EXCEPT !.result = n] \in Row
  BY DEF Row
<1>6. QED
  BY <1>1, <1>2, <1>3, <1>4, <1>5

LEMMA RowRuns ==
  ASSUME NEW r \in Row, NEW n \in Nat
  PROVE  [r EXCEPT !.status = "running", !.attempts = n, !.stale = FALSE] \in Row
  BY RowUpdates DEF Status

\* What a processor that is not idle knows.
LEMMA WorkerRecord ==
  ASSUME TypeOK, NEW w \in Workers
  PROVE  /\ worker[w].pc = "popped" => worker[w] \in Popped
         /\ worker[w].pc \in {"executing", "stored"} => worker[w] \in Running
         /\ worker[w].pc # "idle" => worker[w].job \in Jobs
  BY DEF TypeOK, Idle, Popped, Running

LEMMA TypeStep == TypeOK /\ [Next]_vars => TypeOK'
<1> USE JobQueueAssumption DEF TypeOK, Row, Status, Terminal
<1> SUFFICES ASSUME TypeOK, [Next]_vars PROVE TypeOK'
  OBVIOUS
<1>1. ASSUME NEW j \in Jobs, CreateJob(j) PROVE TypeOK'
  BY <1>1 DEF CreateJob
<1>2. ASSUME NEW j \in Jobs, EnqueueJob(j) PROVE TypeOK'
  BY <1>2, QueueType DEF EnqueueJob
<1>3. ASSUME NEW j \in Jobs, PurgeTerminalJob(j) PROVE TypeOK'
  BY <1>3, ZenonT(60) DEF PurgeTerminalJob
<1>4. ASSUME NEW j \in Jobs, BackoffElapses(j) PROVE TypeOK'
  BY <1>4 DEF BackoffElapses
<1>5. ASSUME NEW j \in Jobs, LeaseExpires(j) PROVE TypeOK'
  BY <1>5 DEF LeaseExpires
<1>6. ASSUME NEW j \in Jobs, LoseHandoff(j) PROVE TypeOK'
  BY <1>6 DEF LoseHandoff, Fault
<1>7. ASSUME NEW d \in Dispatchers, ListReady(d) PROVE TypeOK'
  BY <1>7 DEF ListReady, Ready
<1>8. ASSUME NEW d \in Dispatchers, AbortDispatch(d) PROVE TypeOK'
  BY <1>8 DEF AbortDispatch, Fault
<1>9. ASSUME NEW d \in Dispatchers, NEW j \in Jobs, Dispatch(d, j) PROVE TypeOK'
  BY <1>9, QueueType DEF Dispatch
<1>10. ASSUME NEW w \in Workers, Dequeue(w) PROVE TypeOK'
  BY <1>10, QueueType DEF Dequeue, Popped
<1>11. ASSUME NEW w \in Workers, MarkRunning(w) PROVE TypeOK'
  <2>1. worker[w].job \in Jobs
    BY <1>11, WorkerRecord DEF MarkRunning
  <2>2. CASE worker[w].job \in Ready
    <3>1. PICK j \in Jobs : j = worker[w].job
      BY <2>1
    <3>2. [pc |-> "executing", job |-> j, attempt |-> job[j].attempts + 1] \in Running
      BY DEF Running
    <3>3. worker' \in [Workers -> {Idle} \cup Popped \cup Running]
      BY <1>11, <2>2, <3>1, <3>2 DEF MarkRunning, NextAttempt
    <3>4. [job[j] EXCEPT !.status = "running", !.attempts = job[j].attempts + 1,
                         !.stale = FALSE] \in Row
      <4>1. job[j] \in Row /\ job[j].attempts + 1 \in Nat
        OBVIOUS
      <4>2. QED
        BY <4>1, RowRuns
    <3>5. job' \in [Jobs -> Row]
      BY <1>11, <2>2, <3>1, <3>4 DEF MarkRunning, NextAttempt
    <3>6. QED
      BY <1>11, <3>3, <3>5 DEF MarkRunning
  <2>3. CASE worker[w].job \notin Ready
    BY <1>11, <2>3 DEF MarkRunning
  <2>4. QED
    BY <2>2, <2>3
<1>12. ASSUME NEW w \in Workers, StoreArtifact(w) PROVE TypeOK'
  <2>1. worker[w] \in Running
    BY <1>12, WorkerRecord DEF StoreArtifact
  <2>2. [worker[w] EXCEPT !.pc = "stored"] \in Running
    BY <2>1 DEF Running
  <2>3. worker' \in [Workers -> {Idle} \cup Popped \cup Running]
    BY <1>12, <2>2 DEF StoreArtifact
  <2>4. artifact' \in [Jobs -> Nat]
    BY <1>12, <2>1 DEF StoreArtifact, Running
  <2>5. QED
    BY <1>12, <2>3, <2>4 DEF StoreArtifact
<1>13. ASSUME NEW w \in Workers, CompleteJob(w) PROVE TypeOK'
  <2>1. worker[w] \in Running
    BY <1>13, WorkerRecord DEF CompleteJob, ReadyToComplete
  <2>2. PICK j \in Jobs : j = worker[w].job
    BY <2>1 DEF Running
  <2>3. [job[j] EXCEPT !.status = "completed", !.result = worker[w].attempt] \in Row
    <3>1. job[j] \in Row /\ worker[w].attempt \in Nat
      BY <2>1 DEF Running
    <3>2. QED
      BY <3>1, RowUpdates
  <2>4. job' \in [Jobs -> Row]
    BY <1>13, <2>2, <2>3 DEF CompleteJob
  <2>5. QED
    BY <1>13, <2>4 DEF CompleteJob
<1>14. ASSUME NEW w \in Workers, FailJob(w) PROVE TypeOK'
  <2>1. worker[w] \in Running
    BY <1>14, WorkerRecord DEF FailJob
  <2>2. PICK j \in Jobs : j = worker[w].job
    BY <2>1 DEF Running
  <2>3. [job[j] EXCEPT !.status = AfterBadRun(worker[w].attempt),
                       !.due = worker[w].attempt >= MaxAttempts] \in Row
    <3>1. job[j] \in Row /\ worker[w].attempt \in Nat
      BY <2>1 DEF Running
    <3>2. AfterBadRun(worker[w].attempt) \in Status
      BY <3>1, AfterBadRunStatus
    <3>3. (worker[w].attempt >= MaxAttempts) \in BOOLEAN
      BY <3>1
    <3>4. QED
      BY <3>1, <3>2, <3>3, RowUpdates
  <2>4. job' \in [Jobs -> Row]
    BY <1>14, <2>2, <2>3 DEF FailJob
  <2>5. QED
    BY <1>14, <2>4 DEF FailJob
<1>15. ASSUME NEW w \in Workers, LoseWorker(w) PROVE TypeOK'
  BY <1>15 DEF LoseWorker, Fault
<1>16. CASE ReapStaleJobs
  BY <1>16, AfterBadRunStatus DEF ReapStaleJobs
<1>17. CASE LoseRedis
  BY <1>17 DEF LoseRedis, Fault
<1>18. CASE UNCHANGED vars
  BY <1>18 DEF vars
<1>19. QED
  BY <1>1, <1>2, <1>3, <1>4, <1>5, <1>6, <1>7, <1>8, <1>9, <1>10, <1>11,
     <1>12, <1>13, <1>14, <1>15, <1>16, <1>17, <1>18 DEF Next, WorkerNext

\* Type correctness: every reachable state of the queue has the shape the
\* rows, the list and the loops are declared with.
THEOREM TypeCorrect == Spec => []TypeOK
<1>1. Init => TypeOK
  BY JobQueueAssumption DEF Init, Idle, TypeOK, Row, Status
<1>2. QED
  BY <1>1, TypeStep, PTL DEF Spec

-----------------------------------------------------------------------------
(***************************************************************************)
(* Safety with processors that may outlast their lease.  The inductive     *)
(* invariant ties what processors remember to the rows: a claim is never   *)
(* ahead of its row's counter, so the next claim is a new number.          *)
(***************************************************************************)

ClaimNotAhead ==
  \A w \in Workers : Holds(w) => worker[w].attempt <= job[worker[w].job].attempts

StoredHasFile ==
  \A w \in Workers : worker[w].pc = "stored" => artifact[worker[w].job] # 0

IInv ==
  /\ TypeOK
  /\ ClaimNotAhead
  /\ ClaimsDistinct
  /\ DeadLetterIsSpent
  /\ StoredHasFile
  /\ CompletedExportHasFile

\* Steps that touch neither rows, processors nor files.
LEMMA QueueOnly ==
  ASSUME IInv, UNCHANGED <<job, worker, artifact>>, TypeOK' PROVE IInv'
  BY DEF IInv, ClaimNotAhead, ClaimsDistinct, DeadLetterIsSpent, StoredHasFile,
         CompletedExportHasFile, Holds, HoldsJob

\* Steps of the table alone that leave every counter as it is.
LEMMA RowsOnly ==
  ASSUME IInv, UNCHANGED <<worker, artifact>>, TypeOK',
         \A j \in Jobs : job'[j].attempts = job[j].attempts,
         \A j \in Jobs : /\ job'[j].status = "dead_letter"
                              => job[j].status = "dead_letter" \/ job[j].attempts >= MaxAttempts
                         /\ job'[j].status = "completed" => job[j].status = "completed"
  PROVE  IInv'
<1>1. ClaimNotAhead'
  BY WorkerRecord DEF IInv, ClaimNotAhead, Holds
<1>2. ClaimsDistinct'
  BY DEF IInv, ClaimsDistinct, Holds, HoldsJob
<1>3. DeadLetterIsSpent'
  BY DEF IInv, DeadLetterIsSpent
<1>4. StoredHasFile' /\ CompletedExportHasFile'
  BY JobQueueAssumption DEF IInv, StoredHasFile, CompletedExportHasFile
<1>5. QED
  BY <1>1, <1>2, <1>3, <1>4 DEF IInv

\* Steps after which one processor holds nothing, and all else is as before.
LEMMA NotHolding ==
  ASSUME IInv, TypeOK', UNCHANGED <<job, artifact>>, NEW w \in Workers, NEW r,
         worker' = [worker EXCEPT ![w] = r], r.pc \in {"idle", "popped"}
  PROVE  IInv'
<1>1. /\ worker'[w].pc \in {"idle", "popped"}
      /\ \A v \in Workers \ {w} : worker'[v] = worker[v]
  BY DEF IInv, TypeOK
<1>2. ClaimNotAhead' /\ ClaimsDistinct'
  BY <1>1 DEF IInv, ClaimNotAhead, ClaimsDistinct, Holds, HoldsJob
<1>3. DeadLetterIsSpent' /\ StoredHasFile' /\ CompletedExportHasFile'
  BY <1>1 DEF IInv, DeadLetterIsSpent, StoredHasFile, CompletedExportHasFile
<1>4. QED
  BY <1>2, <1>3 DEF IInv

LEMMA SafetyStep == IInv /\ [Next]_vars => IInv'
<1> SUFFICES ASSUME IInv, [Next]_vars PROVE IInv'
  OBVIOUS
<1> USE JobQueueAssumption
<1>t. TypeOK /\ TypeOK'
  BY TypeStep DEF IInv
<1>1. ASSUME NEW j \in Jobs, CreateJob(j) PROVE IInv'
  BY <1>1, <1>t, RowsOnly DEF CreateJob, TypeOK, Row
<1>2. ASSUME NEW j \in Jobs, EnqueueJob(j) PROVE IInv'
  BY <1>2, <1>t, QueueOnly DEF EnqueueJob
<1>3. ASSUME NEW j \in Jobs, PurgeTerminalJob(j) PROVE IInv'
  BY <1>3, <1>t, RowsOnly DEF PurgeTerminalJob, TypeOK, Row
<1>4. ASSUME NEW j \in Jobs, BackoffElapses(j) PROVE IInv'
  BY <1>4, <1>t, RowsOnly DEF BackoffElapses, TypeOK, Row
<1>5. ASSUME NEW j \in Jobs, LeaseExpires(j) PROVE IInv'
  BY <1>5, <1>t, RowsOnly DEF LeaseExpires, TypeOK, Row
<1>6. ASSUME NEW j \in Jobs, LoseHandoff(j) PROVE IInv'
  BY <1>6, <1>t, QueueOnly DEF LoseHandoff
<1>7. ASSUME NEW d \in Dispatchers, ListReady(d) PROVE IInv'
  BY <1>7, <1>t, QueueOnly DEF ListReady
<1>8. ASSUME NEW d \in Dispatchers, AbortDispatch(d) PROVE IInv'
  BY <1>8, <1>t, QueueOnly DEF AbortDispatch
<1>9. ASSUME NEW d \in Dispatchers, NEW j \in Jobs, Dispatch(d, j) PROVE IInv'
  BY <1>9, <1>t, QueueOnly DEF Dispatch
<1>10. ASSUME NEW w \in Workers, Dequeue(w) PROVE IInv'
  BY <1>10, <1>t, NotHolding DEF Dequeue
<1>11. ASSUME NEW w \in Workers, MarkRunning(w) PROVE IInv'
  <2>1. PICK j \in Jobs : j = worker[w].job
    BY <1>11, <1>t, WorkerRecord DEF MarkRunning
  <2>2. CASE j \notin Ready
    <3>1. worker' = [worker EXCEPT ![w] = Idle] /\ UNCHANGED <<job, artifact>>
      BY <1>11, <2>1, <2>2 DEF MarkRunning
    <3>2. QED
      BY <1>t, <3>1, NotHolding DEF Idle
  <2>3. CASE j \in Ready
    <3>1. /\ worker' = [worker EXCEPT ![w] = [pc |-> "executing", job |-> j,
                                              attempt |-> job[j].attempts + 1]]
          /\ job' = [job EXCEPT ![j] = [@ EXCEPT !.status = "running",
                                                 !.attempts = job[j].attempts + 1,
                                                 !.stale = FALSE]]
          /\ UNCHANGED artifact
      BY <1>11, <2>1, <2>3 DEF MarkRunning, NextAttempt
    <3>2. /\ job'[j].attempts = job[j].attempts + 1
          /\ job'[j].status = "running"
          /\ job[j].attempts \in Nat
          /\ \A i \in Jobs \ {j} : job'[i] = job[i]
      BY <3>1, <1>t DEF TypeOK, Row
    <3>3. /\ worker'[w].pc = "executing" /\ worker'[w].job = j
          /\ worker'[w].attempt = job[j].attempts + 1
          /\ \A v \in Workers \ {w} : worker'[v] = worker[v]
      BY <3>1, <1>t DEF TypeOK
    <3>4. ASSUME NEW v \in Workers, Holds(v)
          PROVE  /\ worker[v].job \in Jobs /\ worker[v].attempt \in Nat
                 /\ worker[v].attempt <= job[worker[v].job].attempts
                 /\ job[worker[v].job].attempts \in Nat
      BY <3>4, <1>t, WorkerRecord DEF IInv, ClaimNotAhead, Holds, Running, TypeOK, Row
    <3>5. ClaimNotAhead'
      BY <3>2, <3>3, <3>4 DEF ClaimNotAhead, Holds
    <3>6. ClaimsDistinct'
      <4>1. ASSUME NEW v \in Workers \ {w}, Holds(v), worker[v].job = j
            PROVE  worker[v].attempt < job[j].attempts + 1
        BY <3>2, <3>4, <4>1
      <4>2. \A v \in Workers \ {w} :
              Holds(v)' /\ worker'[v].job = j => worker'[v].attempt # worker'[w].attempt
        BY <3>2, <3>3, <3>4, <4>1 DEF Holds
      <4>3. \A u, v \in Workers \ {w} :
              (u # v /\ Holds(u)' /\ Holds(v)' /\ worker'[v].job = worker'[u].job)
                => worker'[u].attempt # worker'[v].attempt
        BY <3>3 DEF IInv, ClaimsDistinct, Holds, HoldsJob
      <4>4. QED
        BY <3>3, <4>2, <4>3 DEF ClaimsDistinct, Holds, HoldsJob
    <3>7. DeadLetterIsSpent'
      BY <3>2 DEF IInv, DeadLetterIsSpent
    <3>8. StoredHasFile' /\ CompletedExportHasFile'
      BY <3>1, <3>2, <3>3 DEF IInv, StoredHasFile, CompletedExportHasFile
    <3>9. QED
      BY <1>t, <3>5, <3>6, <3>7, <3>8 DEF IInv
  <2>4. QED
    BY <2>2, <2>3
<1>12. ASSUME NEW w \in Workers, StoreArtifact(w) PROVE IInv'
  <2>1. worker[w] \in Running
    BY <1>12, <1>t, WorkerRecord DEF StoreArtifact
  <2>2. PICK j \in Jobs : j = worker[w].job
    BY <2>1 DEF Running
  <2>3. /\ worker'[w].pc = "stored" /\ worker'[w].job = j
        /\ worker'[w].attempt = worker[w].attempt
        /\ \A v \in Workers \ {w} : worker'[v] = worker[v]
        /\ UNCHANGED job
    BY <1>12, <1>t, <2>1, <2>2 DEF StoreArtifact, TypeOK, Running
  <2>4. artifact'[j] # 0 /\ \A i \in Jobs \ {j} : artifact'[i] = artifact[i]
    BY <1>12, <1>t, <2>1, <2>2 DEF StoreArtifact, TypeOK, Running
  <2>5. Holds(w)
    BY <1>12 DEF StoreArtifact, Holds
  <2>6. ClaimNotAhead'
    BY <2>2, <2>3, <2>5 DEF IInv, ClaimNotAhead, Holds
  <2>7. ClaimsDistinct'
    BY <2>2, <2>3, <2>5 DEF IInv, ClaimsDistinct, Holds, HoldsJob
  <2>8. DeadLetterIsSpent'
    BY <2>3 DEF IInv, DeadLetterIsSpent
  <2>9. StoredHasFile' /\ CompletedExportHasFile'
    BY <1>t, <2>3, <2>4, WorkerRecord DEF IInv, StoredHasFile, CompletedExportHasFile
  <2>10. QED
    BY <1>t, <2>6, <2>7, <2>8, <2>9 DEF IInv
<1>13. ASSUME NEW w \in Workers, CompleteJob(w) PROVE IInv'
  <2>1. worker[w] \in Running
    BY <1>13, <1>t, WorkerRecord DEF CompleteJob, ReadyToComplete
  <2>2. PICK j \in Jobs : j = worker[w].job
    BY <2>1 DEF Running
  <2>3. /\ worker'[w] = Idle
        /\ \A v \in Workers \ {w} : worker'[v] = worker[v]
        /\ UNCHANGED artifact
    BY <1>13, <1>t DEF CompleteJob, TypeOK
  <2>4. /\ \A i \in Jobs : job'[i].attempts = job[i].attempts
        /\ \A i \in Jobs : job'[i].status = "dead_letter" => job[i].status = "dead_letter"
        /\ \A i \in Jobs \ {j} : job'[i] = job[i]
    BY <1>13, <1>t, <2>2 DEF CompleteJob, TypeOK, Row
  <2>5. ClaimNotAhead'
    BY <1>t, <2>3, <2>4, WorkerRecord DEF IInv, ClaimNotAhead, Holds, Idle
  <2>6. ClaimsDistinct'
    BY <2>3 DEF IInv, ClaimsDistinct, Holds, HoldsJob, Idle
  <2>7. DeadLetterIsSpent'
    BY <2>4 DEF IInv, DeadLetterIsSpent
  <2>8. StoredHasFile'
    BY <2>3 DEF IInv, StoredHasFile, Idle
  <2>9. CompletedExportHasFile'
    <3>1. j \in Exports => artifact[j] # 0
      BY <1>13, <2>2 DEF CompleteJob, ReadyToComplete, IInv, StoredHasFile
    <3>2. QED
      BY <2>3, <2>4, <3>1 DEF IInv, CompletedExportHasFile
  <2>10. QED
    BY <1>t, <2>5, <2>6, <2>7, <2>8, <2>9 DEF IInv
<1>14. ASSUME NEW w \in Workers, FailJob(w) PROVE IInv'
  <2>1. worker[w] \in Running
    BY <1>14, <1>t, WorkerRecord DEF FailJob
  <2>2. PICK j \in Jobs : j = worker[w].job
    BY <2>1 DEF Running
  <2>3. /\ worker'[w] = Idle
        /\ \A v \in Workers \ {w} : worker'[v] = worker[v]
        /\ UNCHANGED artifact
    BY <1>14, <1>t DEF FailJob, TypeOK
  <2>4. /\ \A i \in Jobs : job'[i].attempts = job[i].attempts
        /\ \A i \in Jobs \ {j} : job'[i] = job[i]
        /\ job'[j].status = "completed" => job[j].status = "completed"
        /\ job'[j].status = "dead_letter"
             => job[j].status = "dead_letter" \/ worker[w].attempt >= MaxAttempts
    BY <1>14, <1>t, <2>2 DEF FailJob, AfterBadRun, TypeOK, Row
  <2>5. worker[w].attempt <= job[j].attempts
    BY <1>14, <2>2 DEF FailJob, IInv, ClaimNotAhead, Holds
  <2>6. ClaimNotAhead'
    BY <1>t, <2>3, <2>4, WorkerRecord DEF IInv, ClaimNotAhead, Holds, Idle
  <2>7. ClaimsDistinct'
    BY <2>3 DEF IInv, ClaimsDistinct, Holds, HoldsJob, Idle
  <2>8. DeadLetterIsSpent'
    <3>1. worker[w].attempt \in Nat /\ job[j].attempts \in Nat
      BY <1>t, <2>1 DEF Running, TypeOK, Row
    <3>2. QED
      BY <2>4, <2>5, <3>1 DEF IInv, DeadLetterIsSpent
  <2>9. StoredHasFile' /\ CompletedExportHasFile'
    BY <2>3, <2>4 DEF IInv, StoredHasFile, CompletedExportHasFile, Idle
  <2>10. QED
    BY <1>t, <2>6, <2>7, <2>8, <2>9 DEF IInv
<1>15. ASSUME NEW w \in Workers, LoseWorker(w) PROVE IInv'
  BY <1>15, <1>t, NotHolding DEF LoseWorker, Idle
<1>16. CASE ReapStaleJobs
  BY <1>16, <1>t, RowsOnly DEF ReapStaleJobs, AfterBadRun, TypeOK, Row
<1>17. CASE LoseRedis
  BY <1>17, <1>t, QueueOnly DEF LoseRedis
<1>18. CASE UNCHANGED vars
  BY <1>18, <1>t, QueueOnly DEF vars
<1>19. QED
  BY <1>1, <1>2, <1>3, <1>4, <1>5, <1>6, <1>7, <1>8, <1>9, <1>10, <1>11,
     <1>12, <1>13, <1>14, <1>15, <1>16, <1>17, <1>18 DEF Next, WorkerNext

\* However the loops interleave, with any number of lost or late processors:
\* no attempt of a job is run twice, no job is given up with budget left, and
\* a completed export has its file.
THEOREM Safety ==
  Spec => [](ClaimsDistinct /\ DeadLetterIsSpent /\ CompletedExportHasFile)
<1>1. Init => IInv
  <2>1. Init => TypeOK
    BY JobQueueAssumption DEF Init, Idle, TypeOK, Row, Status
  <2>2. QED
    BY <2>1, JobQueueAssumption
       DEF Init, IInv, Idle, ClaimNotAhead, ClaimsDistinct, DeadLetterIsSpent,
           StoredHasFile, CompletedExportHasFile, Holds, HoldsJob
<1>2. IInv => ClaimsDistinct /\ DeadLetterIsSpent /\ CompletedExportHasFile
  BY DEF IInv
<1>3. QED
  BY <1>1, <1>2, SafetyStep, PTL DEF Spec

-----------------------------------------------------------------------------
(***************************************************************************)
(* How often a job runs.  Past MaxAttempts only a late failure can put a   *)
(* job back in the queue: the outcome of a claim below MaxAttempts whose   *)
(* processor still holds it.  Each such claim does so once, so the claims  *)
(* still held, and the queued row itself, are the runs yet to come.        *)
(***************************************************************************)

AbsentUntouched ==
  \A j \in Jobs : job[j].status = "absent" => job[j].attempts = 0

HeldBelow(j) ==
  {k \in 1 .. (MaxAttempts - 1) :
     \E w \in Workers : HoldsJob(w, j) /\ worker[w].attempt = k}

Queued(j) == IF job[j].status = "queued" THEN 1 ELSE 0

BudgetLeft(j) ==
  job[j].attempts >= MaxAttempts
    => job[j].attempts + Queued(j) + Cardinality(HeldBelow(j)) <= 2 * MaxAttempts - 1

BInv == IInv /\ AbsentUntouched /\ \A j \in Jobs : BudgetLeft(j)

LEMMA HeldFinite ==
  ASSUME NEW H \in SUBSET (1 .. (MaxAttempts - 1))
  PROVE  /\ IsFiniteSet(H)
         /\ Cardinality(H) \in Nat
         /\ Cardinality(H) <= MaxAttempts - 1
<1>1. /\ IsFiniteSet(1 .. (MaxAttempts - 1))
      /\ Cardinality(1 .. (MaxAttempts - 1)) = MaxAttempts - 1
  BY FS_Interval, JobQueueAssumption
<1>2. QED
  BY <1>1, FS_Subset, FS_CardinalityType, JobQueueAssumption

\* A step that does not run j, and that queues it only from the queue or
\* below its budget, leaves the bound as it was.
LEMMA BudgetKept ==
  ASSUME BInv, NEW j \in Jobs,
         job'[j].attempts = job[j].attempts,
         HeldBelow(j)' \subseteq HeldBelow(j),
         job'[j].status = "queued"
           => job[j].status = "queued" \/ job[j].attempts < MaxAttempts
  PROVE  BudgetLeft(j)'
<1>1. HeldBelow(j) \subseteq 1 .. (MaxAttempts - 1)
  BY DEF HeldBelow
<1>2. /\ Cardinality(HeldBelow(j)') <= Cardinality(HeldBelow(j))
      /\ Cardinality(HeldBelow(j)) \in Nat /\ Cardinality(HeldBelow(j)') \in Nat
  BY <1>1, HeldFinite, FS_Subset
<1>3. job[j].attempts \in Nat
  BY DEF BInv, IInv, TypeOK, Row
<1>4. SUFFICES ASSUME job[j].attempts >= MaxAttempts
               PROVE  job[j].attempts + Queued(j)' + Cardinality(HeldBelow(j)')
                        <= 2 * MaxAttempts - 1
  BY DEF BudgetLeft
<1>5. job[j].attempts + Queued(j) + Cardinality(HeldBelow(j)) <= 2 * MaxAttempts - 1
  BY <1>4 DEF BInv, BudgetLeft
<1>6. Queued(j) \in {0, 1} /\ Queued(j)' \in {0, 1} /\ Queued(j)' <= Queued(j)
  BY <1>3, <1>4, JobQueueAssumption DEF Queued
<1>7. QED
  BY <1>2, <1>3, <1>5, <1>6, JobQueueAssumption

\* Processors that hold what they held before, or less.
LEMMA HeldShrinks ==
  ASSUME NEW j \in Jobs,
         \A w \in Workers : HoldsJob(w, j)'
                              => HoldsJob(w, j) /\ worker'[w].attempt = worker[w].attempt
  PROVE  HeldBelow(j)' \subseteq HeldBelow(j)
  BY DEF HeldBelow

\* A step that claims no row, and queues one only below its budget.
RowsQuiet ==
  \A j \in Jobs : /\ job'[j].attempts = job[j].attempts
                  /\ job'[j].status = "absent" => job[j].status = "absent"
                  /\ job'[j].status = "queued"
                       => job[j].status = "queued" \/ job[j].attempts < MaxAttempts

\* A step after which no processor holds more than before.
HoldersQuiet ==
  \A w \in Workers, j \in Jobs :
    HoldsJob(w, j)' => HoldsJob(w, j) /\ worker'[w].attempt = worker[w].attempt

LEMMA Quiet ==
  ASSUME BInv, RowsQuiet, HoldersQuiet
  PROVE  AbsentUntouched' /\ \A j \in Jobs : BudgetLeft(j)'
<1>1. AbsentUntouched'
  BY DEF BInv, AbsentUntouched, RowsQuiet
<1>2. ASSUME NEW j \in Jobs PROVE BudgetLeft(j)'
  BY HeldShrinks, BudgetKept DEF RowsQuiet, HoldersQuiet
<1>3. QED
  BY <1>1, <1>2

LEMMA HoldersUnchanged == UNCHANGED worker => HoldersQuiet
  BY DEF HoldersQuiet, HoldsJob, Holds

LEMMA HolderReleased ==
  ASSUME NEW w \in Workers, worker'[w].pc \in {"idle", "popped"},
         \A v \in Workers \ {w} : worker'[v] = worker[v]
  PROVE  HoldersQuiet /\ \A j \in Jobs : ~HoldsJob(w, j)'
  BY DEF HoldersQuiet, HoldsJob, Holds

LEMMA BudgetStep == BInv /\ [Next]_vars => BInv'
<1> SUFFICES ASSUME BInv, [Next]_vars PROVE AbsentUntouched' /\ \A j \in Jobs : BudgetLeft(j)'
  BY SafetyStep DEF BInv
<1> DEFINE Goal == AbsentUntouched' /\ \A j \in Jobs : BudgetLeft(j)'
<1> HIDE DEF Goal
<1> USE JobQueueAssumption
<1>t. TypeOK
  BY DEF BInv, IInv
<1>r. UNCHANGED job => RowsQuiet
  BY DEF RowsQuiet
<1>q. ASSUME RowsQuiet, HoldersQuiet PROVE Goal
  BY <1>q, Quiet DEF Goal
<1>1. ASSUME NEW j \in Jobs, CreateJob(j) PROVE Goal
  <2>1. RowsQuiet
    BY <1>1, <1>t DEF CreateJob, RowsQuiet, TypeOK, Row, BInv, AbsentUntouched
  <2>2. QED
    BY <1>1, <1>q, <2>1, HoldersUnchanged DEF CreateJob
<1>2. ASSUME NEW j \in Jobs, EnqueueJob(j) \/ LoseHandoff(j) PROVE Goal
  BY <1>2, <1>r, <1>q, HoldersUnchanged DEF EnqueueJob, LoseHandoff
<1>3. ASSUME NEW j \in Jobs, PurgeTerminalJob(j) \/ BackoffElapses(j) \/ LeaseExpires(j)
      PROVE Goal
  <2>1. RowsQuiet
    <3>1. CASE PurgeTerminalJob(j)
      BY <3>1, <1>t DEF PurgeTerminalJob, RowsQuiet, TypeOK, Row
    <3>2. CASE BackoffElapses(j)
      BY <3>2, <1>t DEF BackoffElapses, RowsQuiet, TypeOK, Row
    <3>3. CASE LeaseExpires(j)
      BY <3>3, <1>t DEF LeaseExpires, RowsQuiet, TypeOK, Row
    <3>4. QED
      BY <1>3, <3>1, <3>2, <3>3
  <2>2. UNCHANGED worker
    BY <1>3 DEF PurgeTerminalJob, BackoffElapses, LeaseExpires
  <2>3. QED
    BY <1>q, <2>1, <2>2, HoldersUnchanged
<1>4. ASSUME NEW d \in Dispatchers, \/ ListReady(d) \/ AbortDispatch(d)
                                    \/ \E j \in Jobs : Dispatch(d, j)
      PROVE Goal
  BY <1>4, <1>r, <1>q, HoldersUnchanged DEF ListReady, AbortDispatch, Dispatch
<1>5. ASSUME NEW w \in Workers, Dequeue(w) \/ LoseWorker(w) PROVE Goal
  <2>1. /\ worker'[w].pc \in {"idle", "popped"}
        /\ \A v \in Workers \ {w} : worker'[v] = worker[v]
        /\ UNCHANGED job
    BY <1>5, <1>t DEF Dequeue, LoseWorker, Idle, TypeOK
  <2>2. QED
    BY <1>r, <1>q, <2>1, HolderReleased
<1>6. ASSUME NEW w \in Workers, StoreArtifact(w) PROVE Goal
  <2>1. worker[w] \in Running
    BY <1>6, <1>t, WorkerRecord DEF StoreArtifact
  <2>2. /\ worker'[w].job = worker[w].job /\ worker'[w].attempt = worker[w].attempt
        /\ \A v \in Workers \ {w} : worker'[v] = worker[v]
        /\ UNCHANGED job
    BY <1>6, <1>t, <2>1 DEF StoreArtifact, TypeOK, Running
  <2>3. HoldersQuiet
    BY <1>6, <2>2 DEF StoreArtifact, HoldersQuiet, HoldsJob, Holds
  <2>4. QED
    BY <1>r, <1>q, <2>2, <2>3
<1>7. ASSUME NEW w \in Workers, CompleteJob(w) PROVE Goal
  <2>1. PICK j \in Jobs : j = worker[w].job
    BY <1>7, <1>t, WorkerRecord DEF CompleteJob, ReadyToComplete
  <2>2. /\ job'[j].attempts = job[j].attempts
        /\ job'[j].status = job[j].status \/ job'[j].status = "completed"
        /\ \A i \in Jobs \ {j} : job'[i] = job[i]
    BY <1>7, <1>t, <2>1 DEF CompleteJob, TypeOK, Row
  <2>3. RowsQuiet
    BY <2>2 DEF RowsQuiet
  <2>4. worker'[w].pc = "idle" /\ \A v \in Workers \ {w} : worker'[v] = worker[v]
    BY <1>7, <1>t DEF CompleteJob, Idle, TypeOK
  <2>5. QED
    BY <1>q, <2>3, <2>4, HolderReleased
<1>8. ASSUME ReapStaleJobs PROVE Goal
  <2>1. ASSUME NEW j \in Jobs
        PROVE  /\ job'[j].attempts = job[j].attempts
               /\ \/ job'[j] = job[j]
                  \/ job'[j].status = "dead_letter"
                  \/ job'[j].status = "queued" /\ job[j].attempts < MaxAttempts
    <3>1. CASE j \notin Stale
      BY <1>8, <3>1 DEF ReapStaleJobs
    <3>2. CASE j \in Stale
      <4>1. job'[j] = [job[j] EXCEPT !.status = AfterBadRun(job[j].attempts), !.due = TRUE]
        BY <1>8, <3>2 DEF ReapStaleJobs
      <4>2. job[j] \in Row
        BY <1>t DEF TypeOK
      <4>3. QED
        BY <4>1, <4>2 DEF AfterBadRun, Row
    <3>3. QED
      BY <3>1, <3>2
  <2>2. RowsQuiet
    BY <2>1 DEF RowsQuiet
  <2>3. UNCHANGED worker
    BY <1>8 DEF ReapStaleJobs
  <2>4. QED
    BY <1>q, <2>2, <2>3, HoldersUnchanged
<1>9. ASSUME NEW w \in Workers, MarkRunning(w) PROVE Goal
  <2>1. PICK j \in Jobs : j = worker[w].job
    BY <1>9, <1>t, WorkerRecord DEF MarkRunning
  <2>2. CASE j \notin Ready
    <3>1. /\ worker'[w].pc = "idle"
          /\ \A v \in Workers \ {w} : worker'[v] = worker[v]
          /\ UNCHANGED job
      BY <1>9, <1>t, <2>1, <2>2 DEF MarkRunning, Idle, TypeOK
    <3>2. QED
      BY <1>r, <1>q, <3>1, HolderReleased
  <2>3. CASE j \in Ready
    <3>1. /\ worker' = [worker EXCEPT ![w] = [pc |-> "executing", job |-> j,
                                              attempt |-> job[j].attempts + 1]]
          /\ job' = [job EXCEPT ![j] = [@ EXCEPT !.status = "running",
                                                 !.attempts = job[j].attempts + 1,
                                                 !.stale = FALSE]]
      BY <1>9, <2>1, <2>3 DEF MarkRunning, NextAttempt
    <3>2. /\ job'[j].attempts = job[j].attempts + 1
          /\ job'[j].status = "running" /\ job[j].status = "queued"
          /\ job[j].attempts \in Nat
          /\ \A i \in Jobs \ {j} : job'[i] = job[i]
      BY <3>1, <1>t, <2>3 DEF TypeOK, Row, Ready
    <3>3. /\ worker'[w].pc = "executing" /\ worker'[w].job = j
          /\ worker'[w].attempt = job[j].attempts + 1
          /\ \A v \in Workers \ {w} : worker'[v] = worker[v]
      BY <3>1, <1>t DEF TypeOK
    <3>4. AbsentUntouched'
      BY <3>2 DEF BInv, AbsentUntouched
    <3>5. ASSUME NEW i \in Jobs, i # j PROVE BudgetLeft(i)'
      <4>1. HeldBelow(i)' \subseteq HeldBelow(i)
        BY <3>3, <3>5, HeldShrinks DEF HoldsJob, Holds
      <4>2. QED
        BY <3>2, <3>5, <4>1, BudgetKept
    <3>6. BudgetLeft(j)'
      <4>1. HeldBelow(j) \subseteq 1 .. (MaxAttempts - 1)
            /\ HeldBelow(j)' \subseteq 1 .. (MaxAttempts - 1)
        BY DEF HeldBelow
      <4>2. /\ Cardinality(HeldBelow(j)) \in Nat /\ Cardinality(HeldBelow(j)') \in Nat
            /\ Cardinality(HeldBelow(j)') <= MaxAttempts - 1
        BY <4>1, HeldFinite
      <4>3. Queued(j)' = 0 /\ Queued(j) = 1
        BY <3>2 DEF Queued
      <4>4. CASE job[j].attempts < MaxAttempts
        BY <3>2, <4>2, <4>3, <4>4 DEF BudgetLeft
      <4>5. CASE job[j].attempts >= MaxAttempts
        <5>1. HeldBelow(j)' \subseteq HeldBelow(j)
          BY <3>2, <3>3, <4>5 DEF HeldBelow, HoldsJob, Holds
        <5>2. Cardinality(HeldBelow(j)') <= Cardinality(HeldBelow(j))
          BY <4>1, <5>1, HeldFinite, FS_Subset
        <5>3. job[j].attempts + Queued(j) + Cardinality(HeldBelow(j)) <= 2 * MaxAttempts - 1
          BY <4>5 DEF BInv, BudgetLeft
        <5>4. QED
          BY <3>2, <4>2, <4>3, <5>2, <5>3 DEF BudgetLeft
      <4>6. QED
        BY <3>2, <4>4, <4>5
    <3>7. QED
      BY <3>4, <3>5, <3>6 DEF Goal
  <2>4. QED
    BY <2>2, <2>3
<1>10. ASSUME NEW w \in Workers, FailJob(w) PROVE Goal
  <2>1. worker[w] \in Running
    BY <1>10, <1>t, WorkerRecord DEF FailJob
  <2>2. PICK j \in Jobs : j = worker[w].job
    BY <2>1 DEF Running
  <2>3. worker'[w].pc = "idle" /\ \A v \in Workers \ {w} : worker'[v] = worker[v]
    BY <1>10, <1>t DEF FailJob, Idle, TypeOK
  <2>4. HoldersQuiet /\ ~HoldsJob(w, j)'
    BY <2>3, HolderReleased
  <2>5. /\ job'[j].attempts = job[j].attempts
        /\ job'[j].status = "absent" => job[j].status = "absent"
        /\ \/ job'[j].status = job[j].status
           \/ job'[j].status = "dead_letter"
           \/ worker[w].attempt < MaxAttempts
        /\ \A i \in Jobs \ {j} : job'[i] = job[i]
    <3>1. worker[w].attempt \in Nat
      BY <2>1 DEF Running
    <3>2. QED
      BY <1>10, <1>t, <2>2, <3>1 DEF FailJob, InTable, AfterBadRun, TypeOK, Row
  <2>6. CASE worker[w].attempt >= MaxAttempts
    <3>1. RowsQuiet
      BY <2>1, <2>5, <2>6 DEF RowsQuiet, Running
    <3>2. QED
      BY <1>q, <2>4, <3>1
  <2>7. CASE worker[w].attempt < MaxAttempts
    <3> DEFINE k == worker[w].attempt
    <3>1. k \in 1 .. (MaxAttempts - 1) /\ k \in HeldBelow(j)
      BY <1>10, <2>1, <2>2, <2>7 DEF Running, HeldBelow, HoldsJob, Holds, FailJob
    <3>2. HeldBelow(j)' \subseteq HeldBelow(j) \ {k}
      <4>1. HeldBelow(j)' \subseteq HeldBelow(j)
        BY <2>4, HeldShrinks DEF HoldersQuiet
      <4>2. ASSUME NEW v \in Workers, HoldsJob(v, j)' PROVE worker'[v].attempt # k
        <5>1. v # w /\ HoldsJob(v, j) /\ worker'[v].attempt = worker[v].attempt
          BY <2>4, <4>2 DEF HoldersQuiet
        <5>2. Holds(w)
          BY <1>10 DEF FailJob, Holds
        <5>3. QED
          BY <2>2, <5>1, <5>2 DEF BInv, IInv, ClaimsDistinct
      <4>3. QED
        BY <4>1, <4>2 DEF HeldBelow
    <3>3. /\ Cardinality(HeldBelow(j)') <= Cardinality(HeldBelow(j)) - 1
          /\ Cardinality(HeldBelow(j)') \in Nat /\ Cardinality(HeldBelow(j)) \in Nat
      <4>1. HeldBelow(j) \subseteq 1 .. (MaxAttempts - 1)
        BY DEF HeldBelow
      <4>2. IsFiniteSet(HeldBelow(j)) /\ Cardinality(HeldBelow(j)) \in Nat
        BY <4>1, HeldFinite
      <4>3. IsFiniteSet(HeldBelow(j) \ {k})
            /\ Cardinality(HeldBelow(j) \ {k}) = Cardinality(HeldBelow(j)) - 1
        BY <3>1, <4>2, FS_RemoveElement
      <4>4. Cardinality(HeldBelow(j)') <= Cardinality(HeldBelow(j) \ {k})
        BY <3>2, <4>3, FS_Subset
      <4>5. HeldBelow(j)' \subseteq 1 .. (MaxAttempts - 1)
        BY <3>2, <4>1
      <4>6. Cardinality(HeldBelow(j)') \in Nat
        BY <4>5, HeldFinite
      <4>7. QED
        BY <4>2, <4>3, <4>4, <4>6
    <3>4. BudgetLeft(j)'
      <4>1. job[j].attempts \in Nat
        BY <1>t DEF TypeOK, Row
      <4>2. Queued(j) \in {0, 1} /\ Queued(j)' \in {0, 1}
        BY DEF Queued
      <4>3. QED
        BY <2>5, <3>3, <4>1, <4>2 DEF BInv, BudgetLeft
    <3>5. ASSUME NEW i \in Jobs, i # j PROVE BudgetLeft(i)'
      <4>1. HeldBelow(i)' \subseteq HeldBelow(i)
        BY <2>4, HeldShrinks DEF HoldersQuiet
      <4>2. QED
        BY <2>5, <3>5, <4>1, BudgetKept
    <3>6. AbsentUntouched'
      BY <2>5 DEF BInv, AbsentUntouched
    <3>7. QED
      BY <3>4, <3>5, <3>6 DEF Goal
  <2>8. QED
    BY <2>1, <2>6, <2>7 DEF Running
<1>11. ASSUME LoseRedis \/ UNCHANGED vars PROVE Goal
  BY <1>11, <1>r, <1>q, HoldersUnchanged DEF LoseRedis, vars
<1>12. Goal
  BY <1>1, <1>2, <1>3, <1>4, <1>5, <1>6, <1>7, <1>8, <1>9, <1>10, <1>11
     DEF Next, WorkerNext
<1>13. QED
  BY <1>12 DEF Goal

\* No job runs 2 * MaxAttempts times, whatever the processors do.
THEOREM BoundedRuns == Spec => []AttemptsBounded
<1> USE JobQueueAssumption
<1>1. Init => BInv
  <2> SUFFICES ASSUME Init PROVE BInv
    OBVIOUS
  <2>1. TypeOK
    BY DEF Init, Idle, TypeOK, Row, Status
  <2>2. IInv
    BY <2>1 DEF Init, IInv, Idle, ClaimNotAhead, ClaimsDistinct, DeadLetterIsSpent,
                StoredHasFile, CompletedExportHasFile, Holds, HoldsJob
  <2>3. AbsentUntouched /\ \A j \in Jobs : BudgetLeft(j)
    BY DEF Init, AbsentUntouched, BudgetLeft
  <2>4. QED
    BY <2>2, <2>3 DEF BInv
<1>2. BInv => AttemptsBounded
  <2> SUFFICES ASSUME BInv, NEW j \in Jobs PROVE job[j].attempts <= 2 * MaxAttempts - 1
    BY DEF AttemptsBounded
  <2>1. HeldBelow(j) \subseteq 1 .. (MaxAttempts - 1)
    BY DEF HeldBelow
  <2>2. Cardinality(HeldBelow(j)) \in Nat /\ Queued(j) \in {0, 1} /\ job[j].attempts \in Nat
    BY <2>1, HeldFinite DEF Queued, BInv, IInv, TypeOK, Row
  <2>3. QED
    BY <2>2 DEF BInv, BudgetLeft
<1>3. QED
  BY <1>1, <1>2, BudgetStep, PTL DEF Spec

-----------------------------------------------------------------------------
(* While no live processor outlasts its lease, JobQueue implements         *)
(* JobLifecycle: what crashes, lost pushes and duplicate ids do to the     *)
(* list never shows in the rows.                                           *)

\* The row stands as its processor left it when it claimed it.
HolderOwnsRow ==
  \A w \in Workers : Holds(w) =>
    /\ job[worker[w].job].status = "running"
    /\ job[worker[w].job].attempts = worker[w].attempt
    /\ ~job[worker[w].job].stale

RowWithinBudget ==
  \A j \in Jobs : /\ job[j].status = "absent" => job[j].attempts = 0
                  /\ job[j].status = "queued" => job[j].attempts < MaxAttempts

StoredCurrent ==
  \A w \in Workers : worker[w].pc = "stored" => artifact[worker[w].job] = worker[w].attempt

CInv ==
  /\ IInv
  /\ HolderOwnsRow
  /\ RowWithinBudget
  /\ StoredCurrent
  /\ ResultDescribesFile

\* One processor per job follows from one claim per attempt.
LEMMA OneHolder ==
  ASSUME CInv PROVE OneProcessorPerJob
  BY DEF CInv, IInv, ClaimsDistinct, HolderOwnsRow, OneProcessorPerJob, HoldsJob, HoldsClaim

\* Steps of one processor that leave every other one, and the jobs the
\* others hold, alone.
LEMMA OthersKeep ==
  ASSUME CInv, NEW w \in Workers, worker'[w].pc \in {"idle", "popped"},
         \A v \in Workers \ {w} : worker'[v] = worker[v],
         \A v \in Workers \ {w} : Holds(v) => job'[worker[v].job] = job[worker[v].job],
         UNCHANGED artifact
  PROVE  HolderOwnsRow' /\ StoredCurrent'
  BY DEF CInv, HolderOwnsRow, StoredCurrent, Holds

\* A job that one processor holds is not held by another.
LEMMA NotHeldByOthers ==
  ASSUME CInv, NEW w \in Workers, Holds(w), NEW v \in Workers \ {w}, Holds(v)
  PROVE  worker[v].job # worker[w].job
  BY DEF CInv, IInv, ClaimsDistinct, HolderOwnsRow, HoldsJob

LEMMA OwnershipStep ==
  ASSUME ~WorkersMayStall, CInv, [Next]_vars PROVE CInv'
<1> USE JobQueueAssumption
<1> DEFINE Goal == HolderOwnsRow' /\ RowWithinBudget' /\ StoredCurrent' /\ ResultDescribesFile'
<1> HIDE DEF Goal
<1>t. TypeOK /\ IInv
  BY DEF CInv, IInv
<1>q. ASSUME UNCHANGED <<job, worker, artifact>> PROVE Goal
  BY <1>q DEF Goal, CInv, HolderOwnsRow, RowWithinBudget, StoredCurrent,
              ResultDescribesFile, Holds
<1>1. ASSUME NEW j \in Jobs, CreateJob(j) PROVE Goal
  <2>1. /\ UNCHANGED <<worker, artifact>>
        /\ \A i \in Jobs \ {j} : job'[i] = job[i]
        /\ job[j].status = "absent" /\ job'[j].status = "queued"
        /\ job'[j].attempts = job[j].attempts
    BY <1>1, <1>t DEF CreateJob, TypeOK, Row
  <2>2. HolderOwnsRow'
    BY <2>1, <1>t, WorkerRecord DEF CInv, HolderOwnsRow, Holds
  <2>3. QED
    BY <2>1, <2>2 DEF Goal, CInv, RowWithinBudget, StoredCurrent, ResultDescribesFile
<1>2. ASSUME NEW j \in Jobs, EnqueueJob(j) \/ LoseHandoff(j) PROVE Goal
  BY <1>2, <1>q DEF EnqueueJob, LoseHandoff
<1>3. ASSUME NEW j \in Jobs, PurgeTerminalJob(j) PROVE Goal
  <2>1. /\ UNCHANGED <<worker, artifact>>
        /\ \A i \in Jobs \ {j} : job'[i] = job[i]
        /\ job[j].status \in Terminal /\ job'[j].status = "purged"
    BY <1>3, <1>t DEF PurgeTerminalJob, TypeOK, Row
  <2>2. HolderOwnsRow'
    BY <2>1, <1>t, WorkerRecord DEF CInv, HolderOwnsRow, Holds, Terminal
  <2>3. QED
    BY <2>1, <2>2 DEF Goal, CInv, RowWithinBudget, StoredCurrent, ResultDescribesFile
<1>4. ASSUME NEW j \in Jobs, BackoffElapses(j) PROVE Goal
  <2>1. /\ UNCHANGED <<worker, artifact>>
        /\ \A i \in Jobs : /\ job'[i].status = job[i].status
                           /\ job'[i].attempts = job[i].attempts
                           /\ job'[i].stale = job[i].stale
                           /\ job'[i].result = job[i].result
    BY <1>4, <1>t DEF BackoffElapses, TypeOK, Row
  <2>2. HolderOwnsRow'
    BY <2>1, <1>t, WorkerRecord DEF CInv, HolderOwnsRow, Holds
  <2>3. QED
    BY <2>1, <2>2 DEF Goal, CInv, RowWithinBudget, StoredCurrent, ResultDescribesFile
<1>5. ASSUME NEW j \in Jobs, LeaseExpires(j) PROVE Goal
  <2>1. /\ UNCHANGED <<worker, artifact>>
        /\ \A i \in Jobs \ {j} : job'[i] = job[i]
        /\ job'[j].status = job[j].status /\ job'[j].attempts = job[j].attempts
        /\ job'[j].result = job[j].result
    BY <1>5, <1>t DEF LeaseExpires, TypeOK, Row
  <2>2. \A w \in Workers : Holds(w) => worker[w].job # j
    BY <1>5 DEF LeaseExpires, CInv, HolderOwnsRow, HoldsClaim, HoldsJob
  <2>3. HolderOwnsRow'
    BY <2>1, <2>2, <1>t, WorkerRecord DEF CInv, HolderOwnsRow, Holds
  <2>4. QED
    BY <2>1, <2>3 DEF Goal, CInv, RowWithinBudget, StoredCurrent, ResultDescribesFile
<1>6. ASSUME NEW d \in Dispatchers, \/ ListReady(d) \/ AbortDispatch(d)
                                    \/ \E j \in Jobs : Dispatch(d, j)
      PROVE Goal
  BY <1>6, <1>q DEF ListReady, AbortDispatch, Dispatch
<1>7. ASSUME NEW w \in Workers, Dequeue(w) \/ LoseWorker(w) PROVE Goal
  <2>1. /\ worker'[w].pc \in {"idle", "popped"}
        /\ \A v \in Workers \ {w} : worker'[v] = worker[v]
        /\ UNCHANGED <<job, artifact>>
    BY <1>7, <1>t DEF Dequeue, LoseWorker, Idle, TypeOK
  <2>2. HolderOwnsRow' /\ StoredCurrent'
    BY <2>1, OthersKeep
  <2>3. QED
    BY <2>1, <2>2 DEF Goal, CInv, RowWithinBudget, ResultDescribesFile
<1>8. ASSUME NEW w \in Workers, MarkRunning(w) PROVE Goal
  <2>1. PICK j \in Jobs : j = worker[w].job
    BY <1>8, <1>t, WorkerRecord DEF MarkRunning
  <2>2. CASE j \notin Ready
    <3>1. /\ worker'[w].pc = "idle"
          /\ \A v \in Workers \ {w} : worker'[v] = worker[v]
          /\ UNCHANGED <<job, artifact>>
      BY <1>8, <1>t, <2>1, <2>2 DEF MarkRunning, Idle, TypeOK
    <3>2. HolderOwnsRow' /\ StoredCurrent'
      BY <3>1, OthersKeep
    <3>3. QED
      BY <3>1, <3>2 DEF Goal, CInv, RowWithinBudget, ResultDescribesFile
  <2>3. CASE j \in Ready
    <3>1. /\ worker' = [worker EXCEPT ![w] = [pc |-> "executing", job |-> j,
                                              attempt |-> job[j].attempts + 1]]
          /\ job' = [job EXCEPT ![j] = [@ EXCEPT !.status = "running",
                                                 !.attempts = job[j].attempts + 1,
                                                 !.stale = FALSE]]
          /\ UNCHANGED artifact
      BY <1>8, <2>1, <2>3 DEF MarkRunning, NextAttempt
    <3>2. /\ job'[j].attempts = job[j].attempts + 1
          /\ job'[j].status = "running" /\ job[j].status = "queued"
          /\ ~job'[j].stale
          /\ \A i \in Jobs \ {j} : job'[i] = job[i]
      BY <3>1, <1>t, <2>3 DEF TypeOK, Row, Ready
    <3>3. /\ worker'[w].pc = "executing" /\ worker'[w].job = j
          /\ worker'[w].attempt = job[j].attempts + 1
          /\ \A v \in Workers \ {w} : worker'[v] = worker[v]
      BY <3>1, <1>t DEF TypeOK
    <3>4. \A v \in Workers : Holds(v) => worker[v].job \in Jobs \ {j}
      BY <3>2, <1>t, WorkerRecord DEF CInv, HolderOwnsRow, Holds
    <3>5. HolderOwnsRow' /\ StoredCurrent'
      BY <3>1, <3>2, <3>3, <3>4 DEF CInv, HolderOwnsRow, StoredCurrent, Holds
    <3>6. RowWithinBudget' /\ ResultDescribesFile'
      BY <3>1, <3>2 DEF CInv, RowWithinBudget, ResultDescribesFile
    <3>7. QED
      BY <3>5, <3>6 DEF Goal
  <2>4. QED
    BY <2>2, <2>3
<1>9. ASSUME NEW w \in Workers, StoreArtifact(w) PROVE Goal
  <2>1. worker[w] \in Running /\ Holds(w)
    BY <1>9, <1>t, WorkerRecord DEF StoreArtifact, Holds
  <2>2. PICK j \in Jobs : j = worker[w].job
    BY <2>1 DEF Running
  <2>3. /\ worker'[w].pc = "stored" /\ worker'[w].job = j
        /\ worker'[w].attempt = worker[w].attempt
        /\ \A v \in Workers \ {w} : worker'[v] = worker[v]
        /\ UNCHANGED job
        /\ artifact'[j] = worker[w].attempt
        /\ \A i \in Jobs \ {j} : artifact'[i] = artifact[i]
    BY <1>9, <1>t, <2>1, <2>2 DEF StoreArtifact, TypeOK, Running
  <2>4. HolderOwnsRow'
    BY <2>1, <2>2, <2>3 DEF CInv, HolderOwnsRow, Holds
  <2>5. StoredCurrent'
    <3>1. ASSUME NEW v \in Workers \ {w}, worker[v].pc = "stored"
          PROVE  artifact'[worker[v].job] = worker[v].attempt
      <4>1. worker[v].job \in Jobs \ {j}
        BY <1>t, <2>1, <2>2, <3>1, NotHeldByOthers, WorkerRecord DEF Holds
      <4>2. QED
        BY <2>3, <3>1, <4>1 DEF CInv, StoredCurrent
    <3>2. QED
      BY <2>3, <3>1 DEF StoredCurrent
  <2>6. RowWithinBudget' /\ ResultDescribesFile'
    BY <2>1, <2>2, <2>3 DEF CInv, RowWithinBudget, ResultDescribesFile, HolderOwnsRow
  <2>7. QED
    BY <2>4, <2>5, <2>6 DEF Goal
<1>10. ASSUME NEW w \in Workers, CompleteJob(w) \/ FailJob(w) PROVE Goal
  <2>1. worker[w] \in Running /\ Holds(w)
    BY <1>10, <1>t, WorkerRecord DEF CompleteJob, FailJob, ReadyToComplete, Holds
  <2>2. PICK j \in Jobs : j = worker[w].job
    BY <2>1 DEF Running
  <2>3. /\ worker'[w].pc = "idle"
        /\ \A v \in Workers \ {w} : worker'[v] = worker[v]
        /\ UNCHANGED artifact
    BY <1>10, <1>t DEF CompleteJob, FailJob, Idle, TypeOK
  <2>4. /\ \A i \in Jobs \ {j} : job'[i] = job[i]
        /\ job'[j].attempts = job[j].attempts
        /\ job'[j].status = "absent" => job[j].status = "absent"
        /\ job'[j].status = "queued" => worker[w].attempt < MaxAttempts
        /\ job'[j].status = "completed"
             => job'[j].result = worker[w].attempt /\ (j \in Exports => worker[w].pc = "stored")
    <3>1. job[j].status = "running" /\ InTable(j) /\ worker[w].attempt \in Nat
      BY <2>1, <2>2 DEF CInv, HolderOwnsRow, InTable, Running
    <3>2. CASE CompleteJob(w)
      BY <3>1, <3>2, <1>t, <2>2 DEF CompleteJob, ReadyToComplete, TypeOK, Row
    <3>3. CASE FailJob(w)
      BY <3>1, <3>3, <1>t, <2>2 DEF FailJob, AfterBadRun, TypeOK, Row
    <3>4. QED
      BY <1>10, <3>2, <3>3
  <2>5. HolderOwnsRow' /\ StoredCurrent'
    <3>1. \A v \in Workers \ {w} : Holds(v) => job'[worker[v].job] = job[worker[v].job]
      BY <1>t, <2>1, <2>2, <2>4, NotHeldByOthers, WorkerRecord DEF Holds
    <3>2. QED
      BY <2>3, <3>1, OthersKeep
  <2>6. RowWithinBudget'
    BY <2>1, <2>2, <2>4 DEF CInv, RowWithinBudget, HolderOwnsRow
  <2>7. ResultDescribesFile'
    BY <2>2, <2>3, <2>4 DEF CInv, ResultDescribesFile, StoredCurrent
  <2>8. QED
    BY <2>5, <2>6, <2>7 DEF Goal
<1>11. ASSUME ReapStaleJobs PROVE Goal
  <2>1. ASSUME NEW j \in Jobs
        PROVE  \/ job'[j] = job[j]
               \/ /\ job[j].stale
                  /\ job'[j].attempts = job[j].attempts
                  /\ job'[j].status \in {"queued", "dead_letter"}
                  /\ job'[j].status = "queued" => job[j].attempts < MaxAttempts
    <3>1. CASE j \notin Stale
      BY <1>11, <3>1 DEF ReapStaleJobs
    <3>2. CASE j \in Stale
      <4>1. job'[j] = [job[j] EXCEPT !.status = AfterBadRun(job[j].attempts), !.due = TRUE]
        BY <1>11, <3>2 DEF ReapStaleJobs
      <4>2. job[j] \in Row
        BY <1>t DEF TypeOK
      <4>3. QED
        BY <3>2, <4>1, <4>2 DEF AfterBadRun, Row, Stale
    <3>3. QED
      BY <3>1, <3>2
  <2>2. UNCHANGED <<worker, artifact>>
    BY <1>11 DEF ReapStaleJobs
  <2>3. HolderOwnsRow'
    BY <2>1, <2>2, <1>t, WorkerRecord DEF CInv, HolderOwnsRow, Holds
  <2>4. QED
    BY <2>1, <2>2, <2>3 DEF Goal, CInv, RowWithinBudget, StoredCurrent, ResultDescribesFile
<1>12. ASSUME LoseRedis \/ UNCHANGED vars PROVE Goal
  BY <1>12, <1>q DEF LoseRedis, vars
<1>13. Goal
  BY <1>1, <1>2, <1>3, <1>4, <1>5, <1>6, <1>7, <1>8, <1>9, <1>10, <1>11, <1>12
     DEF Next, WorkerNext
<1>14. QED
  BY <1>13, <1>t, SafetyStep DEF Goal, CInv

LEMMA OwnershipInit == Init => CInv
<1> USE JobQueueAssumption
<1> SUFFICES ASSUME Init PROVE CInv
  OBVIOUS
<1>1. TypeOK
  BY DEF Init, Idle, TypeOK, Row, Status
<1>2. IInv
  BY <1>1 DEF Init, IInv, Idle, ClaimNotAhead, ClaimsDistinct, DeadLetterIsSpent,
              StoredHasFile, CompletedExportHasFile, Holds, HoldsJob
<1>3. HolderOwnsRow /\ RowWithinBudget /\ StoredCurrent /\ ResultDescribesFile
  BY DEF Init, Idle, HolderOwnsRow, RowWithinBudget, StoredCurrent, ResultDescribesFile, Holds
<1>4. QED
  BY <1>2, <1>3 DEF CInv

\* While every processor ends its job within the lease, a job is run by one
\* processor at a time: the reaper only takes jobs whose processor is gone.
THEOREM ExclusiveRuns ==
  ASSUME ~WorkersMayStall
  PROVE  Spec => []OneProcessorPerJob
<1>1. CInv /\ [Next]_vars => CInv'
  BY OwnershipStep
<1>2. CInv => OneProcessorPerJob
  BY OneHolder DEF CInv
<1>3. QED
  BY <1>1, <1>2, OwnershipInit, PTL DEF Spec

\* While every processor ends its job within the lease, a completed export's
\* result describes the file that is stored, however often the export ran.
THEOREM ResultsDescribe ==
  ASSUME ~WorkersMayStall
  PROVE  Spec => []ResultDescribesFile
<1>1. CInv /\ [Next]_vars => CInv'
  BY OwnershipStep
<1>2. CInv => ResultDescribesFile
  BY DEF CInv
<1>3. QED
  BY <1>1, <1>2, OwnershipInit, PTL DEF Spec

\* A step that changes at most one row, and that row in a way the life cycle
\* allows, is a step of the life cycle.
LEMMA RowStep ==
  ASSUME NEW j \in Jobs, \A i \in Jobs \ {j} : job'[i] = job[i],
         \/ /\ job'[j].attempts = job[j].attempts
            /\ \/ job'[j].status = job[j].status
               \/ job[j].status = "absent" /\ job'[j].status = "queued"
               \/ job[j].status = "running" /\ job'[j].status = "completed"
               \/ job[j].status \in Terminal /\ job'[j].status = "purged"
         \/ /\ job[j].status = "queued" /\ job'[j].status = "running"
            /\ job[j].attempts < MaxAttempts
            /\ job'[j].attempts = job[j].attempts + 1
  PROVE  [Lifecycle!Next]_Lifecycle!vars
<1> DEFINE s == [i \in Jobs |-> job[i].status]
           a == [i \in Jobs |-> job[i].attempts]
<1>1. s' = [s EXCEPT ![j] = job'[j].status] /\ a' = [a EXCEPT ![j] = job'[j].attempts]
  OBVIOUS
<1>2. s[j] = job[j].status /\ a[j] = job[j].attempts
  OBVIOUS
<1>3. CASE job'[j].attempts = job[j].attempts /\ job'[j].status = job[j].status
  <2>1. s' = s /\ a' = a
    BY <1>1, <1>2, <1>3
  <2>2. QED
    BY <2>1 DEF Lifecycle!vars
<1>4. CASE /\ job'[j].attempts = job[j].attempts
           /\ job[j].status = "absent" /\ job'[j].status = "queued"
  <2>1. Lifecycle!Submit(j)
    BY <1>1, <1>2, <1>4 DEF Lifecycle!Submit
  <2>2. QED
    BY <2>1 DEF Lifecycle!Next
<1>5. CASE /\ job'[j].attempts = job[j].attempts
           /\ job[j].status = "running" /\ job'[j].status = "completed"
  <2>1. Lifecycle!Succeed(j)
    BY <1>1, <1>2, <1>5 DEF Lifecycle!Succeed
  <2>2. QED
    BY <2>1 DEF Lifecycle!Next
<1>6. CASE /\ job'[j].attempts = job[j].attempts
           /\ job[j].status \in Terminal /\ job'[j].status = "purged"
  <2>1. Lifecycle!Forget(j)
    BY <1>1, <1>2, <1>6 DEF Lifecycle!Forget, Terminal
  <2>2. QED
    BY <2>1 DEF Lifecycle!Next
<1>7. CASE /\ job[j].status = "queued" /\ job'[j].status = "running"
           /\ job[j].attempts < MaxAttempts
           /\ job'[j].attempts = job[j].attempts + 1
  <2>1. Lifecycle!Start(j)
    BY <1>1, <1>2, <1>7 DEF Lifecycle!Start
  <2>2. QED
    BY <2>1 DEF Lifecycle!Next
<1>8. QED
  BY <1>3, <1>4, <1>5, <1>6, <1>7

\* Rows that go back to the queue, or to dead_letter, together.
LEMMA LapseStep ==
  ASSUME NEW S \in SUBSET Jobs, \A j \in S : job[j].status = "running",
         \A j \in Jobs : job'[j].attempts = job[j].attempts,
         \A j \in Jobs : job'[j].status = IF j \in S THEN AfterBadRun(job[j].attempts)
                                                     ELSE job[j].status
  PROVE  [Lifecycle!Next]_Lifecycle!vars
<1>1. Lifecycle!Lapse(S)
  BY DEF Lifecycle!Lapse, AfterBadRun
<1>2. QED
  BY <1>1 DEF Lifecycle!Next

LEMMA LifecycleUnchanged == UNCHANGED job => [Lifecycle!Next]_Lifecycle!vars
  BY DEF Lifecycle!vars

LEMMA LifecycleStep ==
  ASSUME CInv, [Next]_vars PROVE [Lifecycle!Next]_Lifecycle!vars
<1> USE JobQueueAssumption
<1>t. TypeOK
  BY DEF CInv, IInv
<1>1. ASSUME NEW j \in Jobs, CreateJob(j) \/ PurgeTerminalJob(j)
      PROVE  [Lifecycle!Next]_Lifecycle!vars
  <2>1. /\ \A i \in Jobs \ {j} : job'[i] = job[i]
        /\ job'[j].attempts = job[j].attempts
        /\ \/ job[j].status = "absent" /\ job'[j].status = "queued"
           \/ job[j].status \in Terminal /\ job'[j].status = "purged"
    <3>1. CASE CreateJob(j)
      BY <3>1, <1>t DEF CreateJob, TypeOK, Row
    <3>2. CASE PurgeTerminalJob(j)
      BY <3>2, <1>t DEF PurgeTerminalJob, TypeOK, Row
    <3>3. QED
      BY <1>1, <3>1, <3>2
  <2>2. QED
    BY <2>1, RowStep
<1>2. ASSUME NEW j \in Jobs, BackoffElapses(j) \/ LeaseExpires(j)
      PROVE  [Lifecycle!Next]_Lifecycle!vars
  <2>1. /\ \A i \in Jobs \ {j} : job'[i] = job[i]
        /\ job'[j].attempts = job[j].attempts /\ job'[j].status = job[j].status
    <3>1. CASE BackoffElapses(j)
      BY <3>1, <1>t DEF BackoffElapses, TypeOK, Row
    <3>2. CASE LeaseExpires(j)
      BY <3>2, <1>t DEF LeaseExpires, TypeOK, Row
    <3>3. QED
      BY <1>2, <3>1, <3>2
  <2>2. QED
    BY <2>1, RowStep
<1>3. ASSUME NEW w \in Workers, MarkRunning(w) PROVE [Lifecycle!Next]_Lifecycle!vars
  <2>1. PICK j \in Jobs : j = worker[w].job
    BY <1>3, <1>t, WorkerRecord DEF MarkRunning
  <2>2. CASE j \notin Ready
    BY <1>3, <2>1, <2>2, LifecycleUnchanged DEF MarkRunning
  <2>3. CASE j \in Ready
    <3>1. job' = [job EXCEPT ![j] = [@ EXCEPT !.status = "running",
                                              !.attempts = job[j].attempts + 1,
                                              !.stale = FALSE]]
      BY <1>3, <2>1, <2>3 DEF MarkRunning, NextAttempt
    <3>2. /\ \A i \in Jobs \ {j} : job'[i] = job[i]
          /\ job[j].status = "queued" /\ job'[j].status = "running"
          /\ job'[j].attempts = job[j].attempts + 1
      BY <3>1, <1>t, <2>3 DEF TypeOK, Row, Ready
    <3>3. job[j].attempts < MaxAttempts
      BY <3>2 DEF CInv, RowWithinBudget
    <3>4. QED
      BY <3>2, <3>3, RowStep
  <2>4. QED
    BY <2>2, <2>3
<1>4. ASSUME NEW w \in Workers, CompleteJob(w) PROVE [Lifecycle!Next]_Lifecycle!vars
  <2>1. worker[w] \in Running /\ Holds(w)
    BY <1>4, <1>t, WorkerRecord DEF CompleteJob, ReadyToComplete, Holds
  <2>2. PICK j \in Jobs : j = worker[w].job
    BY <2>1 DEF Running
  <2>3. job[j].status = "running" /\ InTable(j)
    BY <2>1, <2>2 DEF CInv, HolderOwnsRow, InTable
  <2>4. /\ \A i \in Jobs \ {j} : job'[i] = job[i]
        /\ job'[j].attempts = job[j].attempts /\ job'[j].status = "completed"
    BY <1>4, <1>t, <2>2, <2>3 DEF CompleteJob, TypeOK, Row
  <2>5. QED
    BY <2>3, <2>4, RowStep
<1>5. ASSUME NEW w \in Workers, FailJob(w) PROVE [Lifecycle!Next]_Lifecycle!vars
  <2>1. worker[w] \in Running /\ Holds(w)
    BY <1>5, <1>t, WorkerRecord DEF FailJob, Holds
  <2>2. PICK j \in Jobs : j = worker[w].job
    BY <2>1 DEF Running
  <2>3. job[j].status = "running" /\ InTable(j) /\ job[j].attempts = worker[w].attempt
    BY <2>1, <2>2 DEF CInv, HolderOwnsRow, InTable
  <2>4. /\ \A i \in Jobs \ {j} : job'[i] = job[i]
        /\ job'[j].attempts = job[j].attempts
        /\ job'[j].status = AfterBadRun(job[j].attempts)
    BY <1>5, <1>t, <2>2, <2>3 DEF FailJob, TypeOK, Row
  <2>5. QED
    BY <2>3, <2>4, LapseStep
<1>6. ASSUME ReapStaleJobs PROVE [Lifecycle!Next]_Lifecycle!vars
  <2>1. ASSUME NEW j \in Jobs
        PROVE  /\ job'[j].attempts = job[j].attempts
               /\ job'[j].status = IF j \in Stale THEN AfterBadRun(job[j].attempts)
                                                  ELSE job[j].status
    <3>1. CASE j \notin Stale
      BY <1>6, <3>1 DEF ReapStaleJobs
    <3>2. CASE j \in Stale
      <4>1. job'[j] = [job[j] EXCEPT !.status = AfterBadRun(job[j].attempts), !.due = TRUE]
        BY <1>6, <3>2 DEF ReapStaleJobs
      <4>2. job[j] \in Row
        BY <1>t DEF TypeOK
      <4>3. QED
        BY <3>2, <4>1, <4>2 DEF Row
    <3>3. QED
      BY <3>1, <3>2
  <2>2. Stale \in SUBSET Jobs /\ \A j \in Stale : job[j].status = "running"
    BY DEF Stale
  <2>3. QED
    BY <2>1, <2>2, LapseStep
<1>7. ASSUME \/ \E j \in Jobs : EnqueueJob(j) \/ LoseHandoff(j)
             \/ \E d \in Dispatchers : \/ ListReady(d) \/ AbortDispatch(d)
                                       \/ \E j \in Jobs : Dispatch(d, j)
             \/ \E w \in Workers : Dequeue(w) \/ StoreArtifact(w) \/ LoseWorker(w)
             \/ LoseRedis \/ UNCHANGED vars
      PROVE  [Lifecycle!Next]_Lifecycle!vars
  <2>1. UNCHANGED job
    BY <1>7 DEF EnqueueJob, LoseHandoff, ListReady, AbortDispatch, Dispatch, Dequeue,
                StoreArtifact, LoseWorker, LoseRedis, vars
  <2>2. QED
    BY <2>1, LifecycleUnchanged
<1>8. QED
  BY <1>1, <1>2, <1>3, <1>4, <1>5, <1>6, <1>7 DEF Next, WorkerNext

\* While every processor ends its job within the lease, the queue implements
\* the life cycle: at most MaxAttempts runs of a job, and a finished job that
\* only a purge touches.
THEOREM Implements ==
  ASSUME ~WorkersMayStall PROVE Spec => LifecycleSpec
<1>1. Init => Lifecycle!Init
  BY DEF Init, Lifecycle!Init
<1>2. CInv /\ [Next]_vars => CInv'
  BY OwnershipStep
<1>3. CInv /\ [Next]_vars => [Lifecycle!Next]_Lifecycle!vars
  BY LifecycleStep
<1>4. QED
  BY <1>1, <1>2, <1>3, OwnershipInit, PTL DEF Spec, LifecycleSpec, Lifecycle!Spec
=============================================================================
