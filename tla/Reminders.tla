------------------------------ MODULE Reminders -----------------------------
(***************************************************************************)
(* Due reminders: a sweep lists the open tasks of an assignee that are     *)
(* overdue or due soon, fixes the kind of each reminder and the dedupe     *)
(* window from one later reading of the clock, and inserts one outbox row  *)
(* after the other.  Sweeps may overlap, die and be retried; the unique    *)
(* index on dedupe_key is all that keeps them from repeating a reminder.   *)
(*                                                                         *)
(* One assignee; SweepScheduler models when sweeps are created, JobQueue   *)
(* how they are run.  The audit rows a sweep writes first are left out.    *)
(***************************************************************************)
EXTENDS Integers, Sequences, SequencesExt

CONSTANTS Tasks,      \* tasks with an assignee and a due date
          DueAt,      \* tasks.due_at, per task
          DueSoon,    \* reminder_due_soon_hours
          Window,     \* reminder_dedupe_ttl_hours
          Limit,      \* REMINDER_CANDIDATE_LIMIT
          Sweeps,     \* sweep jobs that may run at a time
          Horizon,    \* bound on the clock
          MaxFaults   \* bound on sweeps that die half way

ASSUME RemindersAssumption ==
  /\ IsFiniteSet(Tasks)
  /\ DueAt \in [Tasks -> Nat]
  /\ DueSoon \in Nat
  /\ Window \in Nat \ {0}
  /\ Limit \in Nat
  /\ Horizon \in Nat
  /\ MaxFaults \in Nat

VARIABLES now,        \* the clock
          open,       \* tasks neither done nor archived
          disabled,   \* kinds the assignee has switched off
          sweep,      \* where each sweep is
          outbox,     \* reminders inserted
          faults      \* sweeps that died so far

vars == <<now, open, disabled, sweep, outbox, faults>>

-----------------------------------------------------------------------------
Kinds == {"task_due_soon", "task_overdue"}
Reminder == [kind : Kinds, task : Tasks, at : 0 .. Horizon]

NoTime == -1
Ended == [todo |-> <<>>, at |-> NoTime]

TypeOK ==
  /\ now \in 0 .. Horizon
  /\ open \subseteq Tasks
  /\ disabled \subseteq Kinds
  /\ \A s \in Sweeps : /\ sweep[s].todo \in Seq(Tasks)
                       /\ sweep[s].at \in {NoTime} \cup 0 .. Horizon
  /\ outbox \subseteq Reminder
  /\ faults \in 0 .. MaxFaults

Init ==
  /\ now = 0
  /\ open = Tasks
  /\ disabled = {}
  /\ sweep = [s \in Sweeps |-> Ended]
  /\ outbox = {}
  /\ faults = 0

-----------------------------------------------------------------------------
\* Mutant: names that notification_preferences does not know.
ShortKind(t, time) == IF DueAt[t] <= time THEN "overdue" ELSE "due_soon"

Kind(t, time) == IF DueAt[t] <= time THEN "task_overdue" ELSE "task_due_soon"

\* Mutant: only reminders for what is overdue by a whole due-soon period.
LongOverdue ==
  {t \in open : DueAt[t] + DueSoon < now /\ Kind(t, now) \notin disabled}

\* The preference tested is the one of the kind the task has by now.
Candidates ==
  {t \in open : DueAt[t] <= now + DueSoon /\ Kind(t, now) \notin disabled}

\* Which of two tasks due at the same time comes first is for the database.
ByDueDate(S) ==
  {q \in SetToSeqs(S) : \A i, j \in DOMAIN q : i < j => DueAt[q[i]] <= DueAt[q[j]]}

FirstByDueDate(S) ==
  {SubSeq(q, 1, IF Len(q) < Limit THEN Len(q) ELSE Limit) : q \in ByDueDate(S)}

ListCandidates(s) ==
  /\ sweep[s] = Ended
  /\ Candidates # {}
  /\ \E page \in FirstByDueDate(Candidates) : sweep' = [sweep EXCEPT ![s].todo = page]
  /\ UNCHANGED <<now, open, disabled, outbox, faults>>

ReadClock(s) ==
  /\ sweep[s].todo # <<>> /\ sweep[s].at = NoTime
  /\ sweep' = [sweep EXCEPT ![s].at = now]
  /\ UNCHANGED <<now, open, disabled, outbox, faults>>

\* Mutant: the dedupe key names the instant.
Instant(time) == time

Bucket(time) == time \div Window

DedupeKey(r) == <<r.kind, r.task, Bucket(r.at)>>

\* ON CONFLICT (dedupe_key) DO NOTHING.
EnqueueNext(s) ==
  LET t == Head(sweep[s].todo)
      r == [kind |-> Kind(t, sweep[s].at), task |-> t, at |-> sweep[s].at]
      rest == [sweep[s] EXCEPT !.todo = Tail(@)]
  IN  /\ sweep[s].todo # <<>> /\ sweep[s].at # NoTime
      /\ outbox' = IF \E q \in outbox : DedupeKey(q) = DedupeKey(r)
                     THEN outbox
                     ELSE outbox \cup {r}
      /\ sweep' = [sweep EXCEPT ![s] = IF rest.todo = <<>> THEN Ended ELSE rest]
      /\ UNCHANGED <<now, open, disabled, faults>>

\* The insert fails or the worker dies; the job is retried from the start.
AbandonSweep(s) ==
  /\ faults < MaxFaults
  /\ faults' = faults + 1
  /\ sweep[s] # Ended
  /\ sweep' = [sweep EXCEPT ![s] = Ended]
  /\ UNCHANGED <<now, open, disabled, outbox>>

-----------------------------------------------------------------------------
CloseTask(t) ==
  /\ t \in open
  /\ open' = open \ {t}
  /\ UNCHANGED <<now, disabled, sweep, outbox, faults>>

SetPreference(k) ==
  /\ \E d \in {disabled \cup {k}, disabled \ {k}} : d # disabled /\ disabled' = d
  /\ UNCHANGED <<now, open, sweep, outbox, faults>>

Tick ==
  /\ now < Horizon
  /\ now' = now + 1
  /\ UNCHANGED <<open, disabled, sweep, outbox, faults>>

SweepNext(s) == ListCandidates(s) \/ ReadClock(s) \/ EnqueueNext(s)

Next ==
  \/ \E s \in Sweeps : SweepNext(s) \/ AbandonSweep(s)
  \/ \E t \in Tasks : CloseTask(t)
  \/ \E k \in Kinds : SetPreference(k)
  \/ Tick

Spec == Init /\ [][Next]_vars

\* Sweeps are scheduled for ever and each runs on; time passes.
Fairness == WF_vars(Tick) /\ \A s \in Sweeps : WF_vars(SweepNext(s))

FairSpec == Spec /\ Fairness

-----------------------------------------------------------------------------
\* However sweeps overlap and are retried, no task gets three reminders of a
\* kind in a window's length (it can get two, across the edge of a window).
RemindersSpaced ==
  \A p, q, r \in outbox :
    (/\ p.kind = q.kind /\ q.kind = r.kind
     /\ p.task = q.task /\ q.task = r.task
     /\ p.at < q.at /\ q.at < r.at)
      => r.at - p.at > Window

\* A task that stays overdue gets its reminder in the end, unless its
\* assignee switches the kind off: a sweep that dies is made up for.
Overdue(t) == t \in open /\ DueAt[t] <= now /\ "task_overdue" \notin disabled
EveryOverdueTaskReminded ==
  \A t \in Tasks :
    <>[]Overdue(t) => <>(\E r \in outbox : r.task = t /\ r.kind = "task_overdue")
=============================================================================
