---------------------------- MODULE JobLifecycle ----------------------------
(***************************************************************************)
(* What the job table promises to those who submit jobs: a job is run at   *)
(* most MaxAttempts times, one run at a time, a run that ends badly is     *)
(* followed by another while the budget lasts, and a finished job stays    *)
(* finished until retention deletes its row.  JobQueue is the detailed     *)
(* specification.                                                          *)
(***************************************************************************)
EXTENDS Integers

CONSTANTS Jobs,         \* job ids
          MaxAttempts   \* background_jobs.max_attempts

VARIABLES status,       \* what a reader of the row sees
          attempts      \* runs started so far

vars == <<status, attempts>>

Init ==
  /\ status = [j \in Jobs |-> "absent"]
  /\ attempts = [j \in Jobs |-> 0]

Submit(j) ==
  /\ status[j] = "absent"
  /\ status' = [status EXCEPT ![j] = "queued"]
  /\ UNCHANGED attempts

Start(j) ==
  /\ status[j] = "queued"
  /\ attempts[j] < MaxAttempts
  /\ status' = [status EXCEPT ![j] = "running"]
  /\ attempts' = [attempts EXCEPT ![j] = @ + 1]

Succeed(j) ==
  /\ status[j] = "running"
  /\ status' = [status EXCEPT ![j] = "completed"]
  /\ UNCHANGED attempts

\* The runs of every job in S end badly at once: one sweep may find several.
Lapse(S) ==
  /\ \A j \in S : status[j] = "running"
  /\ status' = [j \in Jobs |->
                  IF j \notin S THEN status[j]
                  ELSE IF attempts[j] >= MaxAttempts THEN "dead_letter"
                  ELSE "queued"]
  /\ UNCHANGED attempts

Forget(j) ==
  /\ status[j] \in {"completed", "dead_letter"}
  /\ status' = [status EXCEPT ![j] = "purged"]
  /\ UNCHANGED attempts

Next ==
  \/ \E j \in Jobs : Submit(j) \/ Start(j) \/ Succeed(j) \/ Forget(j)
  \/ \E S \in SUBSET Jobs : Lapse(S)

Spec == Init /\ [][Next]_vars
=============================================================================
