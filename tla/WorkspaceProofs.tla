-------------------------- MODULE WorkspaceProofs --------------------------
(***************************************************************************)
(* Proofs about the parts of a workspace, for any number of schedulers,    *)
(* calls, requests, rows and clients, and of the behaviours that move one  *)
(* part at a time.                                                         *)
(*                                                                         *)
(* Sweeps: the row of a scheduler's last retention sweep stays in its way, *)
(* whatever becomes of the job, until the cadence is over.  The other      *)
(* parts: see their headings.                                              *)
(***************************************************************************)
EXTENDS WorkspaceParts, FiniteSetTheorems, WellFoundedInduction, TLAPS

\* A row that keeps a scheduler from creating a retention sweep before the
\* cadence is over, counted from t.
HeldBack(t) ==
  \E r \in Rows :
    /\ row[r].type = "retention_sweep"
    /\ row[r].scheduled >= t
    /\ row[r].status \in Terminal => row[r].finished >= t

LastSweep(s) == started[s][Len(started[s])]

AboutToSweep(s) == scheduler[s] = [do |-> "insert", type |-> "retention_sweep"]

\* Since its last retention sweep a scheduler has been held back, or the time
\* is over; if it is about to insert another one, it is over.
Spaced(s) ==
  Len(started[s]) > 0 =>
    /\ LastSweep(s) <= now
    /\ now >= LastSweep(s) + Cadence \/ HeldBack(LastSweep(s))
    /\ AboutToSweep(s) => now >= LastSweep(s) + Cadence

\* What became of a claimed row, it was not deleted.
ClaimsPresent == \A p \in Processors : running[p] # Idle => row[running[p]] \in Job

SInv == TypeOK /\ ClaimsPresent /\ CadenceKept /\ \A s \in Schedulers : Spaced(s)

-----------------------------------------------------------------------------
LEMMA OtherType ==
  ASSUME NEW type \in Types PROVE Other(type) \in Types /\ Other(type) # type
<1>1. \E t \in Types : t # type
  BY DEF Types
<1>2. QED
  BY <1>1 DEF Other

LEMMA Numbers ==
  /\ Interval \in Nat /\ Retention \in Nat /\ Backoff \in Nat /\ Cadence \in Nat
  /\ Cadence <= Interval /\ Cadence <= Retention + 1
  BY SweepSchedulerAssumption DEF Cadence

LEMMA RowRecord ==
  ASSUME TypeOK, NEW r \in Rows, row[r].status # "absent" PROVE row[r] \in Job
  BY DEF TypeOK, NoRow

LEMMA LastIsTime ==
  ASSUME TypeOK, NEW s \in Schedulers, Len(started[s]) > 0 PROVE LastSweep(s) \in Nat
<1>1. started[s] \in Seq(0 .. Horizon)
  BY DEF TypeOK
<1> DEFINE times == started[s]
           n == Len(times)
<1>2. n \in 1 .. n
  <2>1. n \in Nat /\ n > 0
    BY <1>1
  <2> HIDE DEF n
  <2>2. QED
    BY <2>1
<1>3. times[n] \in 0 .. Horizon
  <2> DEFINE Clock == 0 .. Horizon
  <2>1. times \in Seq(Clock) /\ n \in 1 .. Len(times)
    BY <1>1, <1>2
  <2> HIDE DEF times, n, Clock
  <2>2. times[n] \in Clock
    BY <2>1
  <2>3. QED
    BY <2>2 DEF Clock
<1>4. QED
  BY <1>3, SweepSchedulerAssumption DEF LastSweep

LEMMA SweepClock == ASSUME TypeOK PROVE now \in Nat
  BY SweepSchedulerAssumption DEF TypeOK

\* Schedulers that have not moved stay apart as long as what holds them back
\* does, or their time is over.
LEMMA StaySpaced ==
  ASSUME TypeOK, NEW s \in Schedulers, Spaced(s), now' \in Nat, now <= now',
         started'[s] = started[s], AboutToSweep(s)' => AboutToSweep(s),
         \A t \in Nat : (t <= now /\ HeldBack(t)) => HeldBack(t)' \/ now' >= t + Cadence
  PROVE  Spaced(s)'
<1>1. SUFFICES ASSUME Len(started[s]) > 0 PROVE Spaced(s)'
  BY DEF Spaced
<1>t. PICK t : t = LastSweep(s)
  OBVIOUS
<1>2. t \in Nat /\ now \in Nat /\ Cadence \in Nat
  BY <1>1, <1>t, LastIsTime, SweepClock, Numbers
<1>3. LastSweep(s)' = t
  BY <1>t DEF LastSweep
<1>4. /\ t <= now
      /\ now >= t + Cadence \/ HeldBack(t)
      /\ AboutToSweep(s) => now >= t + Cadence
  BY <1>1, <1>t DEF Spaced
<1>5. t <= now' /\ (now >= t + Cadence => now' >= t + Cadence)
  BY <1>2, <1>4
<1>6. now' >= t + Cadence \/ HeldBack(t)'
  BY <1>2, <1>4, <1>5
<1>7. AboutToSweep(s)' => now' >= t + Cadence
  BY <1>4, <1>5
<1>8. HeldBack(LastSweep(s))' <=> HeldBack(t)'
  BY <1>3 DEF HeldBack
<1>9. QED
  BY <1>3, <1>5, <1>6, <1>7, <1>8 DEF Spaced

\* One row of a job is written: its sweep stays, at no earlier time.
LEMMA RowWritten ==
  ASSUME SInv, NEW r \in Rows, row[r] \in Job, NEW j \in Job,
         row' = [row EXCEPT ![r] = j], UNCHANGED <<now, scheduler, started>>,
         j.type = row[r].type,
         j.scheduled \in {row[r].scheduled, now, now + Backoff},
         j.status \in Terminal => j.finished = now,
         running' \in [Processors -> Rows \cup {Idle}],
         \A p \in Processors : running'[p] \in {running[p], r, Idle}
  PROVE  SInv'
<1>1. TypeOK /\ ClaimsPresent /\ now \in Nat /\ Backoff \in Nat
  BY SweepClock, Numbers DEF SInv
<1>2. row'[r] = j /\ \A q \in Rows \ {r} : row'[q] = row[q]
  BY <1>1 DEF TypeOK
<1>3. TypeOK'
  BY <1>1 DEF TypeOK
<1>4. ClaimsPresent'
  BY <1>1, <1>2 DEF ClaimsPresent
<1>5. ASSUME NEW t \in Nat, t <= now, HeldBack(t) PROVE HeldBack(t)'
  <2>1. PICK q \in Rows :
          /\ row[q].type = "retention_sweep"
          /\ row[q].scheduled >= t
          /\ row[q].status \in Terminal => row[q].finished >= t
    BY <1>5 DEF HeldBack
  <2>2. CASE q # r
    BY <1>2, <2>1, <2>2 DEF HeldBack
  <2>3. CASE q = r
    <3>1. j.scheduled >= t
      BY <1>1, <1>5, <2>1, <2>3 DEF Job
    <3>2. j.status \in Terminal => j.finished >= t
      BY <1>1, <1>5
    <3>3. QED
      BY <1>2, <2>1, <2>3, <3>1, <3>2 DEF HeldBack
  <2>4. QED
    BY <2>2, <2>3
<1>6. ASSUME NEW s \in Schedulers PROVE Spaced(s)'
  <2>1. Spaced(s) /\ now' \in Nat /\ now <= now' /\ started'[s] = started[s]
    BY <1>1 DEF SInv
  <2>2. AboutToSweep(s)' => AboutToSweep(s)
    BY DEF AboutToSweep
  <2>3. QED
    BY <1>1, <1>5, <2>1, <2>2, StaySpaced
<1>7. CadenceKept'
  BY DEF SInv, CadenceKept
<1>8. QED
  BY <1>3, <1>4, <1>6, <1>7 DEF SInv

-----------------------------------------------------------------------------
LEMMA LookStep ==
  ASSUME SInv, NEW s \in Schedulers, Look(s) PROVE SInv'
<1> DEFINE mine == scheduler[s].type
<1>1. /\ TypeOK /\ ClaimsPresent /\ now \in Nat
      /\ mine \in Types /\ Other(mine) \in Types
      /\ scheduler[s].do = "look" /\ UNCHANGED <<now, row, running, started>>
  BY OtherType, SweepClock DEF SInv, TypeOK, Step, Look
<1>2. /\ \A q \in Schedulers \ {s} : scheduler'[q] = scheduler[q]
      /\ scheduler'[s] = IF Blocks(mine) THEN [do |-> "look", type |-> Other(mine)]
                                         ELSE [do |-> "insert", type |-> mine]
  BY <1>1 DEF Look, TypeOK
<1>3. TypeOK'
  BY <1>1 DEF Look, TypeOK, Step
<1>4. ClaimsPresent' /\ CadenceKept'
  BY <1>1 DEF SInv, ClaimsPresent, CadenceKept
<1>5. \A t : HeldBack(t)' <=> HeldBack(t)
  BY <1>1 DEF HeldBack
<1>6. ASSUME NEW q \in Schedulers PROVE Spaced(q)'
  <2>0. Spaced(q) /\ now' \in Nat /\ now <= now' /\ started'[q] = started[q]
    BY <1>1 DEF SInv
  <2>1. CASE AboutToSweep(q)' => AboutToSweep(q)
    BY <1>1, <1>5, <2>0, <2>1, StaySpaced
  <2>2. CASE AboutToSweep(q)' /\ ~AboutToSweep(q)
    <3>1. q = s
      BY <1>2, <2>2 DEF AboutToSweep
    <3>2. mine = "retention_sweep" /\ ~Blocks(mine)
      BY <1>2, <2>2, <3>1 DEF AboutToSweep
    <3>3. SUFFICES ASSUME Len(started[s]) > 0 PROVE Spaced(s)'
      BY <1>1, <3>1 DEF Spaced
    <3> DEFINE t == LastSweep(s)
    <3>4. t \in Nat /\ Interval \in Nat /\ Cadence \in Nat /\ Cadence <= Interval
      BY <1>1, <3>3, LastIsTime, Numbers
    <3>5. t <= now /\ (now >= t + Cadence \/ HeldBack(t)) /\ LastSweep(s)' = t
      BY <1>1, <2>0, <3>1, <3>3 DEF Spaced, LastSweep
    <3> HIDE DEF t
    <3>6. ASSUME HeldBack(t) PROVE now >= t + Cadence
      <4>1. PICK r \in Rows : row[r].type = "retention_sweep" /\ row[r].scheduled >= t
        BY <3>6 DEF HeldBack
      <4>2. ~(row[r].scheduled > now - Interval)
        BY <3>2, <4>1 DEF Blocks
      <4>3. row[r].scheduled \in Nat
        BY <1>1, <4>1 DEF TypeOK, NoRow, Job
      <4>4. QED
        BY <1>1, <3>4, <4>1, <4>2, <4>3
    <3>7. now' >= t + Cadence /\ t <= now'
      BY <1>1, <3>5, <3>6
    <3>8. QED
      BY <3>5, <3>7 DEF Spaced
  <2>3. QED
    BY <2>1, <2>2
<1>7. QED
  BY <1>3, <1>4, <1>6 DEF SInv

LEMMA InsertStep ==
  ASSUME SInv, NEW s \in Schedulers, Insert(s) PROVE SInv'
<1> DEFINE mine == scheduler[s].type
<1>1. /\ TypeOK /\ ClaimsPresent /\ now \in Nat /\ now \in 0 .. Horizon
      /\ mine \in Types /\ Other(mine) \in Types
      /\ scheduler[s].do = "insert" /\ UNCHANGED <<now, running>>
  BY OtherType, SweepClock DEF SInv, TypeOK, Step, Insert
<1>2. PICK r \in Rows :
        /\ row[r] = NoRow
        /\ row' = [row EXCEPT ![r] =
                     [type |-> mine, status |-> "queued", scheduled |-> now, finished |-> 0]]
  BY DEF Insert
<1> DEFINE new == [type |-> mine, status |-> "queued", scheduled |-> now, finished |-> 0]
<1>3. new \in Job /\ new.type = mine /\ new.scheduled = now /\ new.status \notin Terminal
  BY <1>1, SweepSchedulerAssumption DEF Job, Pending, Terminal
<1>4. row' = [row EXCEPT ![r] = new]
  BY <1>2
<1>5. /\ scheduler' = [scheduler EXCEPT ![s] = [do |-> "look", type |-> Other(mine)]]
      /\ started' = IF mine = "retention_sweep"
                      THEN [started EXCEPT ![s] = Append(started[s], now)] ELSE started
  BY DEF Insert
<1> HIDE DEF new, mine
<1>6. row'[r] = new /\ \A q \in Rows \ {r} : row'[q] = row[q]
  BY <1>1, <1>4 DEF TypeOK
<1>7. /\ scheduler'[s].do = "look"
      /\ \A q \in Schedulers \ {s} : scheduler'[q] = scheduler[q] /\ started'[q] = started[q]
  BY <1>1, <1>5 DEF TypeOK
<1>8. TypeOK'
  <2>1. row' \in [Rows -> {NoRow} \cup Job]
    BY <1>1, <1>3, <1>4 DEF TypeOK
  <2>2. scheduler' \in [Schedulers -> Step]
    BY <1>1, <1>5 DEF TypeOK, Step
  <2>3. started' \in [Schedulers -> Seq(0 .. Horizon)]
    <3>1. Append(started[s], now) \in Seq(0 .. Horizon)
      BY <1>1 DEF TypeOK
    <3>2. QED
      BY <1>1, <1>5, <3>1 DEF TypeOK
  <2>4. QED
    BY <1>1, <2>1, <2>2, <2>3 DEF TypeOK
<1>9. ClaimsPresent'
  BY <1>1, <1>3, <1>6 DEF ClaimsPresent, TypeOK
<1>10. ASSUME NEW t, HeldBack(t) PROVE HeldBack(t)'
  BY <1>2, <1>6, <1>10 DEF HeldBack, NoRow
<1>11. ASSUME NEW q \in Schedulers, started'[q] = started[q] PROVE Spaced(q)'
  <2>1. AboutToSweep(q)' => AboutToSweep(q)
    BY <1>7 DEF AboutToSweep
  <2>2. Spaced(q) /\ now' \in Nat /\ now <= now'
    BY <1>1 DEF SInv
  <2>3. QED
    BY <1>1, <1>10, <1>11, <2>1, <2>2, StaySpaced
<1>12. CASE mine # "retention_sweep"
  <2>1. started' = started
    BY <1>5, <1>12
  <2>2. CadenceKept'
    BY <2>1 DEF SInv, CadenceKept
  <2>3. QED
    BY <1>8, <1>9, <1>11, <2>1, <2>2 DEF SInv
<1>13. CASE mine = "retention_sweep"
  <2> DEFINE n == Len(started[s])
  <2>1. started[s] \in Seq(0 .. Horizon) /\ n \in Nat /\ Cadence \in Nat
    BY <1>1, Numbers DEF TypeOK
  <2>2. started'[s] = Append(started[s], now)
    BY <1>1, <1>5, <1>13 DEF TypeOK
  <2>3. /\ Len(started'[s]) = n + 1 /\ started'[s][n + 1] = now
        /\ \A i \in 1 .. n : started'[s][i] = started[s][i]
    BY <2>1, <2>2
  <2>4. n > 0 => now >= started[s][n] + Cadence
    <3>1. SUFFICES ASSUME n > 0 PROVE now >= LastSweep(s) + Cadence
      BY DEF LastSweep
    <3>2. Len(started[s]) > 0
      BY <3>1
    <3>3. AboutToSweep(s)
      <4>1. scheduler[s] \in Step /\ scheduler[s].do = "insert"
            /\ scheduler[s].type = "retention_sweep"
        BY <1>1, <1>13 DEF TypeOK, mine
      <4>2. QED
        BY <4>1 DEF AboutToSweep, Step
    <3>4. QED
      BY <3>2, <3>3 DEF SInv, Spaced
  <2>5. CadenceKept'
    <3>1. SUFFICES ASSUME NEW q \in Schedulers, NEW i \in 1 .. Len(started'[q]) - 1
                   PROVE  started'[q][i + 1] >= started'[q][i] + Cadence
      BY DEF CadenceKept, Cadence
    <3>2. CASE q # s
      BY <1>7, <3>1, <3>2 DEF SInv, CadenceKept
    <3>3. CASE q = s
      <4>1. CASE i = n
        BY <2>1, <2>3, <2>4, <3>1, <3>3, <4>1
      <4>2. CASE i # n
        <5>1. i \in 1 .. n - 1 /\ i \in 1 .. n /\ i + 1 \in 1 .. n
          BY <2>1, <2>3, <3>1, <3>3, <4>2
        <5>2. started[s][i + 1] >= started[s][i] + Cadence
          BY <5>1 DEF SInv, CadenceKept
        <5>3. QED
          BY <2>3, <3>3, <5>1, <5>2
      <4>3. QED
        BY <4>1, <4>2
    <3>4. QED
      BY <3>2, <3>3
  <2>6. Spaced(s)'
    <3>1. LastSweep(s)' = now
      BY <2>3 DEF LastSweep
    <3>2. HeldBack(now)'
      BY <1>1, <1>3, <1>6, <1>13 DEF HeldBack
    <3>3. HeldBack(LastSweep(s))' <=> HeldBack(now)'
      BY <1>1, <3>1 DEF HeldBack
    <3>4. ~AboutToSweep(s)' /\ LastSweep(s)' <= now'
      BY <1>1, <1>7, <3>1 DEF AboutToSweep
    <3>5. QED
      BY <3>2, <3>3, <3>4 DEF Spaced
  <2>7. \A q \in Schedulers : Spaced(q)'
    BY <1>7, <1>11, <2>6
  <2>8. QED
    BY <1>8, <1>9, <2>5, <2>7 DEF SInv
<1>14. QED
  BY <1>12, <1>13

LEMMA StartStep ==
  ASSUME SInv, NEW p \in Processors, NEW r \in Rows, Start(p, r) PROVE SInv'
<1>1. TypeOK /\ row[r] \in Job
  BY RowRecord DEF SInv, Start
<1>2. PICK j : j = [row[r] EXCEPT !.status = "running"] /\ row' = [row EXCEPT ![r] = j]
  BY DEF Start
<1>3. /\ j \in Job /\ j.type = row[r].type /\ j.scheduled = row[r].scheduled
      /\ j.status \notin Terminal
  BY <1>1, <1>2 DEF Job, Pending, Terminal
<1>4. /\ running' = [running EXCEPT ![p] = r] /\ UNCHANGED <<now, scheduler, started>>
      /\ running' \in [Processors -> Rows \cup {Idle}]
      /\ \A q \in Processors : running'[q] \in {running[q], r, Idle}
  BY <1>1 DEF Start, TypeOK
<1>5. QED
  BY <1>1, <1>2, <1>3, <1>4, RowWritten

\* Any outcome a processor writes.
LEMMA RecordStep ==
  ASSUME SInv, NEW p \in Processors, Complete(p) \/ Retry(p) \/ GiveUp(p) PROVE SInv'
<1> DEFINE r == running[p]
<1>1. TypeOK /\ r # Idle
  BY DEF SInv, Complete, Retry, GiveUp, Record
<1>2. r \in Rows /\ row[r] \in Job /\ now \in Nat /\ Backoff \in Nat
      /\ now \in 0 .. Horizon /\ 0 \in 0 .. Horizon
  BY <1>1, SweepClock, Numbers, SweepSchedulerAssumption DEF SInv, ClaimsPresent, TypeOK
<1>3. /\ running' = [running EXCEPT ![p] = Idle] /\ UNCHANGED <<now, scheduler, started>>
      /\ running' \in [Processors -> Rows \cup {Idle}]
      /\ \A q \in Processors : running'[q] \in {running[q], r, Idle}
  BY <1>1 DEF Complete, Retry, GiveUp, Record, TypeOK
<1>4. CASE Complete(p)
  <2>1. PICK j : /\ j = [row[r] EXCEPT !.status = "completed", !.finished = now]
                 /\ row' = [row EXCEPT ![r] = j]
    BY <1>4 DEF Complete, Record
  <2>2. /\ j \in Job /\ j.type = row[r].type /\ j.scheduled = row[r].scheduled
        /\ j.finished = now
    BY <1>2, <2>1 DEF Job, Pending, Terminal
  <2> HIDE DEF r
  <2>3. QED
    BY <1>2, <1>3, <2>1, <2>2, RowWritten
<1>5. CASE Retry(p)
  <2>1. PICK j : /\ j = [row[r] EXCEPT !.status = "queued", !.scheduled = now + Backoff,
                                       !.finished = 0]
                 /\ row' = [row EXCEPT ![r] = j]
    BY <1>5 DEF Retry, Record
  <2>2. now + Backoff \in Nat
    BY <1>2
  <2>3. /\ j \in Job /\ j.type = row[r].type /\ j.scheduled = now + Backoff
        /\ j.status \notin Terminal
    BY <1>2, <2>1, <2>2 DEF Job, Pending, Terminal
  <2> HIDE DEF r
  <2>4. QED
    BY <1>2, <1>3, <2>1, <2>3, RowWritten
<1>6. CASE GiveUp(p)
  <2>1. PICK j : /\ j = [row[r] EXCEPT !.status = "dead_letter", !.scheduled = now,
                                       !.finished = now]
                 /\ row' = [row EXCEPT ![r] = j]
    BY <1>6 DEF GiveUp, Record
  <2>2. /\ j \in Job /\ j.type = row[r].type /\ j.scheduled = now /\ j.finished = now
    BY <1>2, <2>1 DEF Job, Pending, Terminal
  <2> HIDE DEF r
  <2>3. QED
    BY <1>2, <1>3, <2>1, <2>2, RowWritten
<1>7. QED
  BY <1>4, <1>5, <1>6

LEMMA AbandonStep ==
  ASSUME SInv, NEW p \in Processors, Abandon(p) PROVE SInv'
<1>1. /\ TypeOK' /\ ClaimsPresent'
  BY DEF SInv, Abandon, TypeOK, ClaimsPresent
<1>2. \A s \in Schedulers : Spaced(s)'
  BY DEF SInv, Abandon, Spaced, LastSweep, AboutToSweep, HeldBack
<1>3. CadenceKept'
  BY DEF SInv, Abandon, CadenceKept
<1>4. QED
  BY <1>1, <1>2, <1>3 DEF SInv

LEMMA ReapStep ==
  ASSUME SInv, NEW r \in Rows, Reap(r) PROVE SInv'
<1>1. TypeOK /\ row[r] \in Job /\ now \in Nat /\ now \in 0 .. Horizon
  BY RowRecord, SweepClock DEF SInv, Reap, TypeOK
<1>2. /\ UNCHANGED <<now, scheduler, running, started>>
      /\ running' \in [Processors -> Rows \cup {Idle}]
      /\ \A q \in Processors : running'[q] \in {running[q], r, Idle}
  BY <1>1 DEF Reap, TypeOK
<1>3. CASE row' = [row EXCEPT ![r] = [@ EXCEPT !.status = "queued", !.scheduled = now]]
  <2>1. PICK j : /\ j = [row[r] EXCEPT !.status = "queued", !.scheduled = now]
                 /\ row' = [row EXCEPT ![r] = j]
    BY <1>3
  <2>2. /\ j \in Job /\ j.type = row[r].type /\ j.scheduled = now
        /\ j.status \notin Terminal
    BY <1>1, <2>1 DEF Job, Pending, Terminal
  <2>3. QED
    BY <1>1, <1>2, <2>1, <2>2, RowWritten
<1>4. CASE row' = [row EXCEPT ![r] = [@ EXCEPT !.status = "dead_letter", !.scheduled = now,
                                               !.finished = now]]
  <2>1. PICK j : /\ j = [row[r] EXCEPT !.status = "dead_letter", !.scheduled = now,
                                       !.finished = now]
                 /\ row' = [row EXCEPT ![r] = j]
    BY <1>4
  <2>2. /\ j \in Job /\ j.type = row[r].type /\ j.scheduled = now /\ j.finished = now
    BY <1>1, <2>1 DEF Job, Pending, Terminal
  <2>3. QED
    BY <1>1, <1>2, <2>1, <2>2, RowWritten
<1>5. QED
  BY <1>3, <1>4 DEF Reap

\* A row that is deleted has held back long enough.
LEMMA PurgeStep ==
  ASSUME SInv, NEW r \in Rows, Purge(r) PROVE SInv'
<1>1. /\ TypeOK /\ ClaimsPresent /\ now \in Nat
      /\ row[r].status \in Terminal /\ row[r].finished < now - Retention
      /\ row' = [row EXCEPT ![r] = NoRow] /\ UNCHANGED <<now, scheduler, started>>
      /\ running' = [p \in Processors |-> IF running[p] = r THEN Idle ELSE running[p]]
  BY SweepClock DEF SInv, Purge
<1>2. row[r] \in Job
  BY <1>1, RowRecord DEF Terminal
<1>3. row'[r] = NoRow /\ \A q \in Rows \ {r} : row'[q] = row[q]
  BY <1>1 DEF TypeOK
<1>4. TypeOK'
  BY <1>1 DEF TypeOK
<1>5. ClaimsPresent'
  BY <1>1, <1>3 DEF ClaimsPresent, TypeOK
<1>6. ASSUME NEW t \in Nat, HeldBack(t) PROVE HeldBack(t)' \/ now' >= t + Cadence
  <2>1. PICK q \in Rows :
          /\ row[q].type = "retention_sweep"
          /\ row[q].scheduled >= t
          /\ row[q].status \in Terminal => row[q].finished >= t
    BY <1>6 DEF HeldBack
  <2>2. CASE q # r
    BY <1>3, <2>1, <2>2 DEF HeldBack
  <2>3. CASE q = r
    <3>1. row[r].finished \in Nat /\ row[r].finished >= t
      BY <1>1, <1>2, <2>1, <2>3, SweepSchedulerAssumption DEF Job
    <3>2. /\ Retention \in Nat /\ Cadence \in Nat /\ Cadence <= Retention + 1
      BY Numbers
    <3>3. QED
      BY <1>1, <1>6, <3>1, <3>2
  <2>4. QED
    BY <2>2, <2>3
<1>7. ASSUME NEW s \in Schedulers PROVE Spaced(s)'
  <2>1. Spaced(s) /\ now' \in Nat /\ now <= now' /\ started'[s] = started[s]
    BY <1>1 DEF SInv
  <2>2. AboutToSweep(s)' => AboutToSweep(s)
    BY <1>1 DEF AboutToSweep
  <2>3. QED
    BY <1>1, <1>6, <2>1, <2>2, StaySpaced
<1>8. CadenceKept'
  BY <1>1 DEF SInv, CadenceKept
<1>9. QED
  BY <1>4, <1>5, <1>7, <1>8 DEF SInv

LEMMA TickStep ==
  ASSUME SInv, Tick PROVE SInv'
<1>1. /\ TypeOK /\ ClaimsPresent /\ now \in Nat /\ now' = now + 1
      /\ now \in 0 .. Horizon /\ now < Horizon /\ Horizon \in Nat
      /\ UNCHANGED <<row, scheduler, running, started>>
  BY SweepClock, SweepSchedulerAssumption DEF SInv, Tick, TypeOK
<1>2. now' \in 0 .. Horizon /\ now' \in Nat /\ now <= now'
  BY <1>1
<1>3. TypeOK' /\ ClaimsPresent' /\ CadenceKept'
  BY <1>1, <1>2 DEF SInv, TypeOK, ClaimsPresent, CadenceKept
<1>4. \A t : HeldBack(t)' <=> HeldBack(t)
  BY <1>1 DEF HeldBack
<1>5. ASSUME NEW s \in Schedulers PROVE Spaced(s)'
  <2>1. Spaced(s) /\ started'[s] = started[s] /\ (AboutToSweep(s)' => AboutToSweep(s))
    BY <1>1 DEF SInv, AboutToSweep
  <2>2. QED
    BY <1>1, <1>2, <1>4, <2>1, StaySpaced
<1>6. QED
  BY <1>3, <1>5 DEF SInv

LEMMA SweepStep == SInv /\ [Next]_vars => SInv'
<1> SUFFICES ASSUME SInv, [Next]_vars PROVE SInv'
  OBVIOUS
<1>1. CASE Next
  BY <1>1, LookStep, InsertStep, StartStep, RecordStep, AbandonStep, ReapStep, PurgeStep, TickStep DEF Next
<1>2. CASE UNCHANGED vars
  BY <1>2 DEF vars, SInv, TypeOK, ClaimsPresent, CadenceKept, Spaced, LastSweep, HeldBack,
              AboutToSweep
<1>3. QED
  BY <1>1, <1>2

LEMMA SweepInit == Init => SInv
<1> SUFFICES ASSUME Init PROVE SInv
  OBVIOUS
<1>1. TypeOK /\ ClaimsPresent
  BY SweepSchedulerAssumption DEF Init, TypeOK, ClaimsPresent, Step, Types
<1>2. \A s \in Schedulers : started[s] = <<>>
  BY DEF Init
<1>3. CadenceKept /\ \A s \in Schedulers : Spaced(s)
  BY <1>2 DEF CadenceKept, Spaced
<1>4. QED
  BY <1>1, <1>3 DEF SInv

\* Rows, scheduler loops, processors and the clock keep their types.
THEOREM TypeCorrect == Spec => []TypeOK
<1>1. SInv => TypeOK
  BY DEF SInv
<1>2. QED
  BY <1>1, SweepInit, SweepStep, PTL DEF Spec

\* However many schedulers race and attempts fail late, no scheduler creates
\* two retention sweeps less than the cadence apart, deleted ones included.
THEOREM SweepsLimited == Spec => []CadenceKept
<1>1. SInv => CadenceKept
  BY DEF SInv
<1>2. QED
  BY <1>1, SweepInit, SweepStep, PTL DEF Spec

-----------------------------------------------------------------------------
(* Workspace.  A task that no two calls met on has one call at most, whose *)
(* timestamp is younger than the entries of the task.                      *)

Ops == {"create", "update", "bulk", "archive", "restore"}

TaskCalls ==
  [op : Ops, pc : {"write", "publish"}, tasks : SUBSET Tasks,
   status : Task!Statuses \cup {Task!Keep},
   project : Projects \cup {Task!NoProject, Task!Keep},
   at : Nat, dirty : BOOLEAN,
   row : {<<>>} \cup UNION {[ts -> Task!Statuses] : ts \in SUBSET Tasks}]

TaskTypes ==
  /\ project \in [Projects -> {"absent", "open", "archived"}]
  /\ frozen \in [Projects -> SUBSET Tasks]
  /\ task \in [Tasks -> [status : Task!Statuses, project : Projects \cup {Task!NoProject}]
                        \cup {Task!NoTask}]
  /\ newest \in [Tasks -> [status : Task!Statuses, at : Nat \ {0}] \cup {Task!NoEntry}]
  /\ event \in [Tasks -> Task!Statuses \cup {"absent"}]
  /\ call \in [Calls -> TaskCalls \cup {Task!Idle}]
  /\ clock \in Nat
  /\ \A t \in Tasks : newest[t].at <= clock
  /\ \A c \in Calls :
       /\ call[c].at <= clock
       /\ call[c].pc = "publish" => call[c].row \in [call[c].tasks -> Task!Statuses]

\* A call that has looked at a project archived since knows nothing of that.
NamesOpenProject ==
  \A c \in Calls :
    call[c].pc = "write" /\ call[c].project \in Projects /\ project[call[c].project] = "archived"
      => call[c].dirty

CreatesInFull ==
  \A c \in Calls :
    call[c].op = "create" => call[c].status # Task!Keep /\ call[c].project # Task!Keep

Alone ==
  \A t \in Tasks \ met, c \in Calls, d \in Calls :
    t \in call[c].tasks /\ t \in call[d].tasks => c = d

StampIsNew ==
  \A t \in Tasks \ met, c \in Calls :
    call[c].pc = "write" /\ t \in call[c].tasks => newest[t].at < call[c].at

RowIsCurrent ==
  \A t \in Tasks \ met, c \in Calls :
    call[c].pc = "publish" /\ t \in call[c].tasks
      => Task!Exists(t) /\ call[c].row[t] = task[t].status

EntryTold == \A t \in Tasks \ met : Task!Exists(t) => newest[t].status = task[t].status

EventTold ==
  \A t \in Tasks \ met :
    /\ Task!Exists(t)
    /\ \A c \in Calls : t \in call[c].tasks => call[c].pc = "write"
    => event[t] = task[t].status

Told == Alone /\ StampIsNew /\ RowIsCurrent /\ EntryTold /\ EventTold

TaskInv ==
  /\ TaskTypes
  /\ CreatesInFull
  /\ NamesOpenProject
  /\ Task!HiddenWithProject
  /\ Told

-----------------------------------------------------------------------------
LEMMA CallFields ==
  ASSUME TaskTypes, NEW c \in Calls
  PROVE  /\ call[c] = Task!Idle => /\ call[c].pc = "idle" /\ call[c].tasks = {}
                                   /\ call[c].op = "none" /\ call[c].project = Task!Keep
                                   /\ call[c].at = 0
         /\ call[c] # Task!Idle => /\ call[c] \in TaskCalls /\ call[c].pc \in {"write", "publish"}
                                   /\ call[c].op \in Ops
         /\ call[c].tasks \in SUBSET Tasks /\ call[c].at \in Nat
         /\ call[c].status \in Task!Statuses \cup {Task!Keep}
         /\ call[c].project \in Projects \cup {Task!NoProject, Task!Keep}
<1>1. call[c] \in TaskCalls \cup {Task!Idle}
  BY DEF TaskTypes
<1>2. CASE call[c] = Task!Idle
  BY <1>2 DEF Task!Idle, TaskCalls, Task!Statuses, Task!Keep
<1>3. CASE call[c] \in TaskCalls
  BY <1>3 DEF Task!Idle, TaskCalls, Ops
<1>4. QED
  BY <1>1, <1>2, <1>3

LEMMA TaskFields ==
  ASSUME TaskTypes, NEW t \in Tasks
  PROVE  /\ Task!Exists(t) <=> task[t] \in [status : Task!Statuses,
                                            project : Projects \cup {Task!NoProject}]
         /\ Task!Exists(t) => /\ task[t].status \in Task!Statuses
                              /\ task[t].project \in Projects \cup {Task!NoProject}
         /\ task[t].status \in Task!Statuses => Task!Exists(t)
         /\ newest[t].at \in Nat
  BY DEF TaskTypes, Task!Exists, Task!NoTask, Task!Statuses, Task!NoEntry

\* A call that ends.
LEMMA CallOver ==
  ASSUME TaskTypes, NEW c \in Calls, Task!End(c),
         UNCHANGED <<project, task, newest, event, clock, frozen>>
  PROVE  /\ TaskTypes'
         /\ \A d \in Calls : call'[d] = IF d = c THEN Task!Idle ELSE call[d]
         /\ call'[c].tasks = {} /\ call'[c].pc = "idle" /\ call'[c].op = "none"
  BY DEF TaskTypes, Task!End, Task!Idle

LEMMA CallBegins ==
  ASSUME TaskInv, NEW c \in Calls, NEW new \in TaskCalls, new.pc = "write",
         new.op = "create" => new.status # Task!Keep /\ new.project # Task!Keep,
         new.project \in Projects => project[new.project] = "open",
         Task!Start(c, new), UNCHANGED <<project, task, newest, event, frozen, late>>
  PROVE  TaskInv'
<1> DEFINE begun == [new EXCEPT !.at = clock + 1]
<1>1. /\ call[c] = Task!Idle
      /\ clock' = clock + 1
      /\ call' = [call EXCEPT ![c] = begun]
      /\ met' = met \cup {t \in new.tasks : Task!Busy(t)}
  BY DEF Task!Start
<1>2. /\ begun \in TaskCalls
      /\ begun.pc = "write" /\ begun.op = new.op /\ begun.tasks = new.tasks
      /\ begun.status = new.status /\ begun.project = new.project
      /\ begun.at = clock + 1
  BY SMTT(30) DEF TaskCalls, TaskInv, TaskTypes
<1>3. \A d \in Calls : call'[d] = IF d = c THEN begun ELSE call[d]
  BY <1>1 DEF TaskInv, TaskTypes
<1> HIDE DEF begun
<1>4. TaskTypes'
  <2>1. call' \in [Calls -> TaskCalls \cup {Task!Idle}]
    BY <1>1, <1>2 DEF TaskInv, TaskTypes
  <2>2. clock' \in Nat /\ clock <= clock'
    BY <1>1 DEF TaskInv, TaskTypes
  <2>3. \A t \in Tasks : newest[t].at <= clock'
    BY <1>1, TaskFields DEF TaskInv, TaskTypes
  <2>4. \A d \in Calls :
          /\ call'[d].at <= clock'
          /\ call'[d].pc = "publish" => call'[d].row \in [call'[d].tasks -> Task!Statuses]
    BY <1>1, <1>2, <1>3, CallFields DEF TaskInv, TaskTypes
  <2>5. QED
    BY <2>1, <2>2, <2>3, <2>4 DEF TaskInv, TaskTypes
<1>5. CreatesInFull'
  BY <1>2, <1>3 DEF TaskInv, CreatesInFull
<1>6. NamesOpenProject'
  BY <1>2, <1>3 DEF TaskInv, NamesOpenProject
<1>7. Alone'
  <2> SUFFICES ASSUME NEW t \in Tasks \ met', NEW d \in Calls, NEW e \in Calls,
                      t \in call'[d].tasks, t \in call'[e].tasks
               PROVE  d = e
    BY DEF Alone
  <2>1. t \in Tasks \ met /\ (t \in new.tasks => ~Task!Busy(t))
    BY <1>1
  <2>2. CASE t \in new.tasks
    BY <2>1, <2>2, <1>3 DEF Task!Busy
  <2>3. CASE t \notin new.tasks
    BY <2>1, <2>3, <1>2, <1>3 DEF TaskInv, Told, Alone
  <2>4. QED
    BY <2>2, <2>3
<1>8. StampIsNew'
  BY <1>1, <1>2, <1>3, TaskFields DEF TaskInv, TaskTypes, Told, StampIsNew
<1>9. RowIsCurrent'
  BY <1>1, <1>2, <1>3 DEF TaskInv, Told, RowIsCurrent, Task!Exists
<1>10. EventTold'
  <2> SUFFICES ASSUME NEW t \in Tasks \ met', Task!Exists(t),
                      \A d \in Calls : t \in call'[d].tasks => call'[d].pc = "write"
               PROVE  event[t] = task[t].status
    BY DEF EventTold, Task!Exists
  <2>1. \A d \in Calls : t \in call[d].tasks => call[d].pc = "write"
    BY <1>1, <1>3 DEF Task!Idle
  <2>2. QED
    BY <1>1, <2>1 DEF TaskInv, Told, EventTold
<1>11. EntryTold' /\ Task!HiddenWithProject'
  BY <1>1 DEF TaskInv, Told, EntryTold, Task!HiddenWithProject, Task!Listed, Task!Exists
<1>12. QED
  BY <1>4, <1>5, <1>6, <1>7, <1>8, <1>9, <1>10, <1>11 DEF TaskInv, Told

\* A call that ends having written nothing, or whose tasks count as met.
LEMMA CallStops ==
  ASSUME TaskInv, NEW c \in Calls, Task!End(c),
         UNCHANGED <<project, task, newest, event, clock, frozen, late>>,
         met' = IF call[c].pc = "publish" THEN met \cup call[c].tasks ELSE met
  PROVE  TaskInv'
<1>1. /\ TaskTypes'
      /\ \A d \in Calls : call'[d] = IF d = c THEN Task!Idle ELSE call[d]
      /\ call'[c].tasks = {} /\ call'[c].pc = "idle" /\ call'[c].op = "none"
  BY CallOver DEF TaskInv
<1>2. met \subseteq met'
  OBVIOUS
<1>3. CreatesInFull' /\ NamesOpenProject' /\ Task!HiddenWithProject'
  BY <1>1 DEF TaskInv, CreatesInFull, NamesOpenProject, Task!HiddenWithProject, Task!Listed,
              Task!Exists
<1>4. Alone' /\ StampIsNew' /\ RowIsCurrent' /\ EntryTold'
  BY <1>1, <1>2
  DEF TaskInv, Told, Alone, StampIsNew, RowIsCurrent, EntryTold, Task!Exists
<1>5. EventTold'
  <2> SUFFICES ASSUME NEW t \in Tasks \ met', Task!Exists(t),
                      \A d \in Calls : t \in call'[d].tasks => call'[d].pc = "write"
               PROVE  event[t] = task[t].status
    BY DEF EventTold, Task!Exists
  <2>1. call[c].pc \in {"idle", "write", "publish"} /\ (call[c].pc = "idle" => call[c].tasks = {})
    BY CallFields DEF TaskInv
  <2>2. \A d \in Calls : t \in call[d].tasks => call[d].pc = "write"
    BY <1>1, <2>1
  <2>3. QED
    BY <1>2, <2>2 DEF TaskInv, Told, EventTold
<1>6. QED
  BY <1>1, <1>3, <1>4, <1>5 DEF TaskInv, Told

LEMMA CallPublishes ==
  ASSUME TaskInv, NEW c \in Calls, Task!PublishEvents(c)
  PROVE  TaskInv'
<1>1. /\ call[c].pc = "publish"
      /\ event' = [t \in Tasks |-> IF t \in call[c].tasks THEN call[c].row[t] ELSE event[t]]
      /\ Task!End(c)
      /\ UNCHANGED <<project, task, newest, clock, frozen, late, met>>
  BY DEF Task!PublishEvents, Task!EventsOf, Task!history
<1>2. \A d \in Calls : call'[d] = IF d = c THEN Task!Idle ELSE call[d]
  BY <1>1 DEF TaskInv, TaskTypes, Task!End
<1>3. Task!Idle.tasks = {} /\ Task!Idle.pc = "idle" /\ Task!Idle.op = "none"
  BY DEF Task!Idle
<1>4. TaskTypes'
  <2>1. call' \in [Calls -> TaskCalls \cup {Task!Idle}]
    BY <1>1 DEF TaskInv, TaskTypes, Task!End
  <2>2. \A t \in call[c].tasks : call[c].row[t] \in Task!Statuses
    BY <1>1 DEF TaskInv, TaskTypes
  <2>3. event' \in [Tasks -> Task!Statuses \cup {"absent"}]
    BY <1>1, <2>2 DEF TaskInv, TaskTypes
  <2>4. \A d \in Calls :
          /\ call'[d].at <= clock
          /\ call'[d].pc = "publish" => call'[d].row \in [call'[d].tasks -> Task!Statuses]
    BY <1>2 DEF TaskInv, TaskTypes, Task!Idle
  <2>5. QED
    BY <1>1, <2>1, <2>3, <2>4 DEF TaskInv, TaskTypes
<1>5. CreatesInFull' /\ NamesOpenProject' /\ Task!HiddenWithProject'
  BY <1>1, <1>2, <1>3
  DEF TaskInv, CreatesInFull, NamesOpenProject, Task!HiddenWithProject, Task!Listed,
      Task!Exists
<1>6. Alone' /\ StampIsNew' /\ RowIsCurrent' /\ EntryTold'
  BY <1>1, <1>2, <1>3
  DEF TaskInv, Told, Alone, StampIsNew, RowIsCurrent, EntryTold, Task!Exists
<1>7. EventTold'
  <2> SUFFICES ASSUME NEW t \in Tasks \ met, Task!Exists(t),
                      \A d \in Calls : t \in call'[d].tasks => call'[d].pc = "write"
               PROVE  event'[t] = task[t].status
    BY <1>1 DEF EventTold, Task!Exists
  <2>1. CASE t \in call[c].tasks
    BY <1>1, <2>1 DEF TaskInv, Told, RowIsCurrent
  <2>2. CASE t \notin call[c].tasks
    BY <1>1, <1>2, <2>2 DEF TaskInv, Told, EventTold
  <2>3. QED
    BY <2>1, <2>2
<1>8. QED
  BY <1>4, <1>5, <1>6, <1>7 DEF TaskInv, Told

-----------------------------------------------------------------------------
LEMMA CallCommits ==
  ASSUME TaskInv, NEW c \in Calls, call[c].pc = "write",
         NEW at \in Nat, call[c].at <= at, at <= clock',
         clock' \in Nat, clock <= clock',
         call[c].op = "create" \/ \A t \in call[c].tasks : Task!Exists(t),
         Task!Commit(c, at)
  PROVE  TaskInv'
<1> DEFINE ts == call[c].tasks
           wrote == [t \in ts |-> Task!Written(c, t).status]
           new == [call[c] EXCEPT !.pc = "publish", !.row = wrote]
<1>1. /\ task' = [t \in Tasks |-> IF t \in ts THEN Task!Written(c, t) ELSE task[t]]
      /\ newest' = [t \in Tasks |->
                     IF t \in Task!Entries(c) /\ at > newest[t].at
                     THEN [status |-> Task!Written(c, t).status, at |-> at]
                     ELSE newest[t]]
      /\ late' = IF call[c].project = Task!Keep THEN late
                 ELSE IF call[c].dirty THEN late \cup ts ELSE late \ ts
      /\ call' = [call EXCEPT ![c].pc = "publish", ![c].row = wrote]
      /\ UNCHANGED <<project, event, frozen, met>>
  BY DEF Task!Commit
<1>2. /\ call[c] \in TaskCalls /\ ts \subseteq Tasks /\ call[c].op \in Ops
      /\ call[c].status \in Task!Statuses \cup {Task!Keep}
      /\ call[c].project \in Projects \cup {Task!NoProject, Task!Keep}
      /\ call[c].at \in Nat
  BY CallFields DEF TaskInv
<1>3. \A t \in ts :
        /\ Task!Written(c, t).status \in Task!Statuses
        /\ Task!Written(c, t).project \in Projects \cup {Task!NoProject}
        /\ Task!Written(c, t) \in [status : Task!Statuses, project : Projects \cup {Task!NoProject}]
        /\ call[c].status = Task!Keep => Task!Written(c, t).status = task[t].status
        /\ call[c].project = Task!Keep => Task!Written(c, t).project = task[t].project
                                          /\ Task!Exists(t)
        /\ call[c].status = Task!Keep => Task!Exists(t)
        /\ call[c].project # Task!Keep => Task!Written(c, t).project = call[c].project
  <2> TAKE t \in ts
  <2>1. call[c].status = Task!Keep \/ call[c].project = Task!Keep => Task!Exists(t)
    BY DEF TaskInv, CreatesInFull
  <2>2. Task!Exists(t) => /\ task[t].status \in Task!Statuses
                          /\ task[t].project \in Projects \cup {Task!NoProject}
    BY <1>2, TaskFields DEF TaskInv
  <2>3. QED
    BY <1>2, <2>1, <2>2 DEF Task!Written
<1>4. /\ new \in TaskCalls
      /\ new.pc = "publish" /\ new.tasks = ts /\ new.op = call[c].op /\ new.row = wrote
      /\ new.status = call[c].status /\ new.project = call[c].project /\ new.at = call[c].at
      /\ wrote \in [ts -> Task!Statuses]
  <2>1. wrote \in [ts -> Task!Statuses]
    BY <1>3
  <2>2. wrote \in UNION {[us -> Task!Statuses] : us \in SUBSET Tasks}
    BY <1>2, <2>1
  <2> HIDE DEF wrote
  <2>3. QED
    BY <1>2, <2>1, <2>2 DEF TaskCalls
<1>5. \A d \in Calls : call'[d] = IF d = c THEN new ELSE call[d]
  BY <1>1 DEF TaskInv, TaskTypes
<1>6. call' \in [Calls -> TaskCalls \cup {Task!Idle}]
  <2>1. call' = [d \in Calls |-> IF d = c THEN new ELSE call[d]]
    BY <1>1 DEF TaskInv, TaskTypes
  <2>2. QED
    BY <1>4, <2>1 DEF TaskInv, TaskTypes
<1>7. \A t \in ts : new.row[t] = Task!Written(c, t).status
  BY <1>4
<1> HIDE DEF new, wrote
<1>8. \A t \in Tasks : /\ t \in ts => task'[t] = Task!Written(c, t)
                       /\ t \notin ts => task'[t] = task[t]
  BY <1>1
<1>9. \A t \in Tasks :
        \/ /\ t \in Task!Entries(c) /\ at > newest[t].at
           /\ newest'[t] = [status |-> Task!Written(c, t).status, at |-> at]
        \/ /\ ~(t \in Task!Entries(c) /\ at > newest[t].at)
           /\ newest'[t] = newest[t]
  BY <1>1
<1>21. \A t \in Tasks : newest[t].at \in Nat /\ newest[t].at <= clock /\ clock \in Nat
  BY TaskFields DEF TaskInv, TaskTypes
<1>10. \A t \in ts : Task!Exists(t)'
  BY <1>2, <1>3, <1>8 DEF Task!Exists, Task!NoTask, Task!Statuses
<1>11. TaskTypes'
  <2>1. task' \in [Tasks -> [status : Task!Statuses, project : Projects \cup {Task!NoProject}]
                            \cup {Task!NoTask}]
    BY <1>1, <1>3 DEF TaskInv, TaskTypes
  <2>2. newest' \in [Tasks -> [status : Task!Statuses, at : Nat \ {0}] \cup {Task!NoEntry}]
    <3>1. ASSUME NEW t \in Tasks, t \in Task!Entries(c), at > newest[t].at
          PROVE  [status |-> Task!Written(c, t).status, at |-> at]
                   \in [status : Task!Statuses, at : Nat \ {0}]
      <4>1. Task!Written(c, t).status \in Task!Statuses
        BY <3>1, <1>3 DEF Task!Entries
      <4>2. at \in Nat \ {0}
        BY <3>1, <1>21
      <4>3. QED
        BY <4>1, <4>2
    <3>2. QED
      BY <1>1, <3>1 DEF TaskInv, TaskTypes
  <2>3. \A t \in Tasks : newest'[t].at <= clock'
    <3> TAKE t \in Tasks
    <3>1. CASE newest'[t] = newest[t]
      BY <3>1, <1>21
    <3>2. CASE newest'[t] = [status |-> Task!Written(c, t).status, at |-> at]
      BY <3>2
    <3>3. QED
      BY <3>1, <3>2, <1>9
  <2>4. \A d \in Calls :
          /\ call'[d].at <= clock'
          /\ call'[d].pc = "publish" => call'[d].row \in [call'[d].tasks -> Task!Statuses]
    <3>1. call[c].at <= clock'
      BY <1>2 DEF TaskInv, TaskTypes
    <3>2. \A d \in Calls : call[d].at <= clock'
      BY CallFields DEF TaskInv, TaskTypes
    <3>3. QED
      BY <1>4, <1>5, <3>1, <3>2 DEF TaskInv, TaskTypes
  <2>5. /\ project' \in [Projects -> {"absent", "open", "archived"}]
        /\ frozen' \in [Projects -> SUBSET Tasks]
        /\ event' \in [Tasks -> Task!Statuses \cup {"absent"}]
    BY <1>1 DEF TaskInv, TaskTypes
  <2>6. QED
    BY <1>6, <2>1, <2>2, <2>3, <2>4, <2>5 DEF TaskTypes
<1>12. CreatesInFull' /\ NamesOpenProject'
  <2>1. project' = project
    BY <1>1
  <2>2. \A d \in Calls : \/ call'[d] = call[d]
                         \/ /\ d = c /\ call'[d].pc = "publish" /\ call'[d].op = call[c].op
                            /\ call'[d].status = call[c].status
                            /\ call'[d].project = call[c].project
    BY <1>4, <1>5
  <2>3. CreatesInFull'
    BY <2>2 DEF TaskInv, CreatesInFull
  <2>4. NamesOpenProject'
    BY <2>1, <2>2 DEF TaskInv, NamesOpenProject
  <2>5. QED
    BY <2>3, <2>4
<1>13. Alone'
  BY <1>1, <1>4, <1>5 DEF TaskInv, Told, Alone
<1>14. ASSUME NEW t \in Tasks \ met, NEW d \in Calls, d # c, t \in call'[d].tasks
       PROVE  t \notin ts
  BY <1>14, <1>5 DEF TaskInv, Told, Alone
<1>15. StampIsNew'
  <2> SUFFICES ASSUME NEW t \in Tasks \ met, NEW d \in Calls,
                      call'[d].pc = "write", t \in call'[d].tasks
               PROVE  newest'[t].at < call'[d].at
    BY <1>1 DEF StampIsNew
  <2>1. d # c /\ call'[d] = call[d]
    BY <1>4, <1>5
  <2>2. t \notin ts
    BY <2>1, <1>14
  <2>3. newest'[t] = newest[t]
    BY <2>2, <1>9 DEF Task!Entries
  <2>4. QED
    BY <2>1, <2>3 DEF TaskInv, Told, StampIsNew
<1>16. RowIsCurrent'
  <2> SUFFICES ASSUME NEW t \in Tasks \ met, NEW d \in Calls,
                      call'[d].pc = "publish", t \in call'[d].tasks
               PROVE  Task!Exists(t)' /\ call'[d].row[t] = task'[t].status
    BY <1>1 DEF RowIsCurrent
  <2>1. CASE d = c
    BY <2>1, <1>4, <1>5, <1>7, <1>8, <1>10
  <2>2. CASE d # c
    <3>1. t \notin ts /\ call'[d] = call[d] /\ task'[t] = task[t]
      BY <2>2, <1>5, <1>8, <1>14
    <3>2. QED
      BY <3>1 DEF TaskInv, Told, RowIsCurrent, Task!Exists
  <2>3. QED
    BY <2>1, <2>2
<1>17. EntryTold'
  <2> SUFFICES ASSUME NEW t \in Tasks \ met, Task!Exists(t)'
               PROVE  newest'[t].status = task'[t].status
    BY <1>1 DEF EntryTold
  <2>1. CASE t \notin ts
    <3>1. newest'[t] = newest[t] /\ task'[t] = task[t]
      BY <2>1, <1>8, <1>9 DEF Task!Entries
    <3>2. QED
      BY <3>1 DEF TaskInv, Told, EntryTold, Task!Exists
  <2>2. CASE t \in ts /\ call[c].status = Task!Keep
    <3>1. newest'[t] = newest[t] /\ task'[t].status = task[t].status /\ Task!Exists(t)
      BY <2>2, <1>3, <1>8, <1>9 DEF Task!Entries
    <3>2. QED
      BY <3>1 DEF TaskInv, Told, EntryTold
  <2>3. CASE t \in ts /\ call[c].status # Task!Keep
    <3>1. newest[t].at < call[c].at
      BY <2>3 DEF TaskInv, Told, StampIsNew
    <3>2. newest[t].at < at
      BY <3>1, <1>2, <1>21
    <3>3. newest'[t] = [status |-> Task!Written(c, t).status, at |-> at]
      BY <2>3, <3>2, <1>9 DEF Task!Entries
    <3>4. QED
      BY <2>3, <3>3, <1>8
  <2>4. QED
    BY <2>1, <2>2, <2>3
<1>18. EventTold'
  <2> SUFFICES ASSUME NEW t \in Tasks \ met, Task!Exists(t)',
                      \A d \in Calls : t \in call'[d].tasks => call'[d].pc = "write"
               PROVE  event[t] = task'[t].status
    BY <1>1 DEF EventTold
  <2>1. t \notin ts
    BY <1>4, <1>5
  <2>2. task'[t] = task[t]
    BY <2>1, <1>8
  <2>3. \A d \in Calls : t \in call[d].tasks => call[d].pc = "write"
    BY <1>5
  <2>4. QED
    BY <2>2, <2>3 DEF TaskInv, Told, EventTold, Task!Exists
<1>19. Task!HiddenWithProject'
  <2> SUFFICES ASSUME NEW t \in Tasks, Task!Exists(t)', task'[t].project \in Projects,
                      project[task'[t].project] = "archived"
               PROVE  t \in frozen[task'[t].project] \cup late'
    BY <1>1 DEF Task!HiddenWithProject, Task!Listed
  <2>1. CASE t \notin ts
    <3>1. task'[t] = task[t] /\ (t \in late => t \in late')
      BY <2>1, <1>1, <1>8
    <3>2. QED
      BY <3>1 DEF TaskInv, Task!HiddenWithProject, Task!Listed, Task!Exists
  <2>2. CASE t \in ts /\ call[c].project = Task!Keep
    <3>1. Task!Exists(t) /\ task'[t].project = task[t].project
      BY <2>2, <1>3, <1>8
    <3>2. late' = late
      BY <2>2, <1>1
    <3>3. QED
      BY <3>1, <3>2 DEF TaskInv, Task!HiddenWithProject, Task!Listed
  <2>3. CASE t \in ts /\ call[c].project # Task!Keep
    <3>1. call[c].dirty
      BY <2>3, <1>3, <1>8 DEF TaskInv, NamesOpenProject
    <3>2. QED
      BY <2>3, <3>1, <1>1
  <2>4. QED
    BY <2>1, <2>2, <2>3
<1>20. QED
  BY <1>11, <1>12, <1>13, <1>15, <1>16, <1>17, <1>18, <1>19 DEF TaskInv, Told

LEMMA TasksCommitted ==
  ASSUME TaskInv, NEW c \in Calls, Task!CommitTasks(c)
  PROVE  TaskInv'
<1>1. call[c].pc = "write" /\ call[c] # Task!Idle
  BY DEF Task!CommitTasks, Task!InsertTask, Task!UpdateRow, Task!UpdateRows,
         Task!ArchiveRow, Task!RestoreRow, Task!Idle
<1>2. /\ call[c].at \in Nat /\ call[c].at <= clock /\ clock \in Nat
      /\ call[c].tasks \subseteq Tasks
  BY CallFields DEF TaskInv, TaskTypes
<1>3. CASE Task!Refuse(c)
  BY <1>1, <1>3, CallStops DEF Task!Refuse, Task!history
<1>4. CASE Task!Commit(c, call[c].at) /\ UNCHANGED clock
           /\ (call[c].op = "create" \/ \A t \in call[c].tasks : Task!Exists(t))
  BY <1>1, <1>2, <1>4, CallCommits
<1>5. CASE Task!Commit(c, clock + 1) /\ clock' = clock + 1
           /\ \A t \in call[c].tasks : Task!Exists(t)
  BY <1>1, <1>2, <1>5, CallCommits
<1>6. \A t \in call[c].tasks :
        task[t].status \notin {"absent", "archived"} \/ task[t].status = "archived"
          => Task!Exists(t)
  BY DEF Task!Exists, Task!NoTask
<1>7. QED
  BY <1>3, <1>4, <1>5, <1>6
  DEF Task!CommitTasks, Task!InsertTask, Task!UpdateRow, Task!UpdateRows,
      Task!ArchiveRow, Task!RestoreRow

NewCall(o, ts, s, p) ==
  [Task!Idle EXCEPT !.op = o, !.pc = "write", !.tasks = ts, !.status = s, !.project = p]

\* A call that says nothing of a project leaves it as it is.
LEMMA NewCallKeeps ==
  \A o, ts, s :
    [Task!Idle EXCEPT !.op = o, !.pc = "write", !.tasks = ts, !.status = s]
      = NewCall(o, ts, s, Task!Keep)
<1> TAKE o, ts, s
<1> DEFINE new == [Task!Idle EXCEPT !.op = o, !.pc = "write", !.tasks = ts, !.status = s]
<1>1. new.project = Task!Keep
  BY DEF Task!Idle
<1>2. [new EXCEPT !.project = Task!Keep] = new
  BY <1>1 DEF Task!Idle
<1>3. QED
  BY <1>2 DEF NewCall

LEMMA CallAsked ==
  ASSUME TaskInv, NEW c \in Calls,
         NEW o \in Ops, NEW ts \in SUBSET Tasks, NEW s \in Task!Statuses \cup {Task!Keep},
         NEW p \in Projects \cup {Task!NoProject, Task!Keep},
         o = "create" => s # Task!Keep /\ p # Task!Keep, Task!Usable(p),
         Task!Start(c, NewCall(o, ts, s, p)),
         UNCHANGED <<project, task, newest, event, frozen, late>>
  PROVE  TaskInv'
<1> DEFINE new == NewCall(o, ts, s, p)
<1>1. /\ new \in TaskCalls /\ new.pc = "write" /\ new.op = o
      /\ new.status = s /\ new.project = p
  BY DEF Task!Idle, TaskCalls, Ops, NewCall
<1>2. new.project \in Projects => project[new.project] = "open"
  BY <1>1 DEF Task!Usable
<1> HIDE DEF new
<1>3. Task!Start(c, new)
  BY DEF new
<1>4. QED
  BY <1>1, <1>2, <1>3, CallBegins

LEMMA TaskCalled ==
  ASSUME TaskInv, NEW c \in Calls, NEW t \in Tasks
  PROVE  /\ \A s \in Task!Statuses, p \in Projects \cup {Task!NoProject} :
              Task!CreateTask(c, t, s, p) => TaskInv'
         /\ \A s \in Task!Statuses \cup {Task!Keep},
               p \in Projects \cup {Task!NoProject, Task!Keep} :
              Task!UpdateTask(c, t, s, p) => TaskInv'
         /\ Task!ArchiveTask(c, t) => TaskInv'
         /\ Task!RestoreTask(c, t) => TaskInv'
<1>1. ASSUME NEW s \in Task!Statuses, NEW p \in Projects \cup {Task!NoProject},
             Task!CreateTask(c, t, s, p)
      PROVE  TaskInv'
  <2>1. s # Task!Keep /\ p # Task!Keep /\ "create" \in Ops
    BY WorkspaceAssumption DEF Task!Statuses, Task!Keep, Task!NoProject, Ops
  <2>2. Task!Start(c, NewCall("create", {t}, s, p))
    BY <1>1 DEF Task!CreateTask, NewCall
  <2>3. QED
    BY <1>1, <2>1, <2>2, CallAsked DEF Task!CreateTask
<1>2. ASSUME NEW s \in Task!Statuses \cup {Task!Keep},
             NEW p \in Projects \cup {Task!NoProject, Task!Keep}, Task!UpdateTask(c, t, s, p)
      PROVE  TaskInv'
  <2>1. Task!Start(c, NewCall("update", {t}, s, p))
    BY <1>2 DEF Task!UpdateTask, NewCall
  <2>2. /\ "update" \in Ops /\ Task!Usable(p)
        /\ UNCHANGED <<project, task, newest, event, frozen, late>>
    BY <1>2 DEF Task!UpdateTask, Ops
  <2>3. QED
    BY <1>2, <2>1, <2>2, CallAsked
<1>3. Task!Usable(Task!Keep)
  BY WorkspaceAssumption DEF Task!Usable
<1>4. ASSUME Task!ArchiveTask(c, t) PROVE TaskInv'
  <2>1. Task!Start(c, NewCall("archive", {t}, "archived", Task!Keep))
    BY <1>4, NewCallKeeps DEF Task!ArchiveTask
  <2>2. /\ "archive" \in Ops /\ "archived" \in Task!Statuses
        /\ UNCHANGED <<project, task, newest, event, frozen, late>>
    BY <1>4 DEF Task!ArchiveTask, Ops, Task!Statuses
  <2>3. QED
    BY <1>3, <2>1, <2>2, CallAsked
<1>5. ASSUME Task!RestoreTask(c, t) PROVE TaskInv'
  <2>1. Task!Start(c, NewCall("restore", {t}, "open", Task!Keep))
    BY <1>5, NewCallKeeps DEF Task!RestoreTask
  <2>2. /\ "restore" \in Ops /\ "open" \in Task!Statuses
        /\ UNCHANGED <<project, task, newest, event, frozen, late>>
    BY <1>5 DEF Task!RestoreTask, Ops, Task!Statuses
  <2>3. QED
    BY <1>3, <2>1, <2>2, CallAsked
<1>6. QED
  BY <1>1, <1>2, <1>4, <1>5

LEMMA BulkCalled ==
  ASSUME TaskInv, NEW c \in Calls, NEW ts \in SUBSET Tasks, NEW s \in Task!Statuses,
         Task!BulkUpdateStatus(c, ts, s)
  PROVE  TaskInv'
<1>1. Task!Start(c, NewCall("bulk", ts, s, Task!Keep))
  BY NewCallKeeps DEF Task!BulkUpdateStatus
<1>2. /\ Task!Usable(Task!Keep) /\ "bulk" \in Ops
      /\ UNCHANGED <<project, task, newest, event, frozen, late>>
  BY WorkspaceAssumption DEF Task!Usable, Ops, Task!BulkUpdateStatus
<1>3. QED
  BY <1>1, <1>2, CallAsked

LEMMA ProjectsChanged ==
  ASSUME TaskInv, NEW p \in Projects,
         Task!CreateProject(p) \/ Task!ArchiveProject(p) \/ Task!RestoreProject(p)
  PROVE  TaskInv'
<1>1. CASE Task!CreateProject(p) \/ Task!RestoreProject(p)
  <2>1. /\ project' = [project EXCEPT ![p] = "open"]
        /\ UNCHANGED <<task, newest, event, call, clock, frozen, late, met>>
    BY <1>1 DEF Task!CreateProject, Task!RestoreProject, Task!history
  <2>2. TaskTypes'
    BY <2>1 DEF TaskInv, TaskTypes
  <2>3. \A q \in Projects : project'[q] = "archived" => project[q] = "archived"
    BY <2>1 DEF TaskInv, TaskTypes
  <2>4. CreatesInFull' /\ NamesOpenProject' /\ Task!HiddenWithProject'
    BY <2>1, <2>3
    DEF TaskInv, CreatesInFull, NamesOpenProject, Task!HiddenWithProject, Task!Listed,
        Task!Exists
  <2>5. Told'
    BY <2>1 DEF TaskInv, Told, Alone, StampIsNew, RowIsCurrent, EntryTold, EventTold,
                Task!Exists
  <2>6. QED
    BY <2>2, <2>4, <2>5 DEF TaskInv
<1>2. CASE Task!ArchiveProject(p)
  <2>1. /\ project' = [project EXCEPT ![p] = "archived"]
        /\ frozen' = [frozen EXCEPT ![p] = {t \in Tasks : task[t].project = p}]
        /\ call' = [c \in Calls |-> IF call[c].project = p
                                    THEN [call[c] EXCEPT !.dirty = TRUE] ELSE call[c]]
        /\ UNCHANGED <<task, newest, event, clock, late, met>>
    BY <1>2 DEF Task!ArchiveProject
  <2>2. \A c \in Calls :
          /\ call'[c] \in TaskCalls \cup {Task!Idle}
          /\ call'[c].pc = call[c].pc /\ call'[c].tasks = call[c].tasks
          /\ call'[c].op = call[c].op /\ call'[c].status = call[c].status
          /\ call'[c].project = call[c].project /\ call'[c].at = call[c].at
          /\ call'[c].row = call[c].row
          /\ call[c].dirty => call'[c].dirty
          /\ call[c].project = p => call'[c].dirty
    <3> TAKE c \in Calls
    <3>1. CASE call[c].project = p
      <4>1. call[c] # Task!Idle
        BY <3>1, WorkspaceAssumption DEF Task!Idle
      <4>2. call[c] \in TaskCalls /\ call'[c] = [call[c] EXCEPT !.dirty = TRUE]
        BY <2>1, <3>1, <4>1, CallFields DEF TaskInv
      <4>3. QED
        BY <4>2 DEF TaskCalls
    <3>2. CASE call[c].project # p
      BY <2>1, <3>2 DEF TaskInv, TaskTypes
    <3>3. QED
      BY <3>1, <3>2
  <2>3. TaskTypes'
    <3>1. call' \in [Calls -> TaskCalls \cup {Task!Idle}]
      BY <2>1, <2>2
    <3>2. project' \in [Projects -> {"absent", "open", "archived"}]
      BY <2>1 DEF TaskInv, TaskTypes
    <3>3. \A c \in Calls :
            /\ call'[c].at <= clock
            /\ call'[c].pc = "publish" => call'[c].row \in [call'[c].tasks -> Task!Statuses]
      BY <2>2 DEF TaskInv, TaskTypes
    <3>4. QED
      BY <2>1, <3>1, <3>2, <3>3 DEF TaskInv, TaskTypes
  <2>4. CreatesInFull' /\ NamesOpenProject'
    <3>1. \A q \in Projects \ {p} : project'[q] = project[q]
      BY <2>1 DEF TaskInv, TaskTypes
    <3>2. QED
      BY <2>2, <3>1 DEF TaskInv, CreatesInFull, NamesOpenProject
  <2>5. Told'
    BY <2>1, <2>2 DEF TaskInv, Told, Alone, StampIsNew, RowIsCurrent, EntryTold, EventTold,
                      Task!Exists
  <2>6. Task!HiddenWithProject'
    <3> SUFFICES ASSUME NEW t \in Tasks, Task!Exists(t), task[t].project \in Projects,
                        project'[task[t].project] = "archived"
                 PROVE  t \in frozen'[task[t].project] \cup late
      BY <2>1 DEF Task!HiddenWithProject, Task!Listed, Task!Exists
    <3>1. CASE task[t].project = p
      BY <2>1, <3>1 DEF TaskInv, TaskTypes
    <3>2. CASE task[t].project # p
      BY <2>1, <3>2
      DEF TaskInv, TaskTypes, Task!HiddenWithProject, Task!Listed
    <3>3. QED
      BY <3>1, <3>2
  <2>7. QED
    BY <2>3, <2>4, <2>5, <2>6 DEF TaskInv
<1>3. QED
  BY <1>1, <1>2

LEMMA TaskInit == Task!Init => TaskInv
<1> SUFFICES ASSUME Task!Init PROVE TaskInv
  OBVIOUS
<1>1. TaskTypes
  BY DEF Task!Init, Task!NoEntry, Task!Idle, TaskTypes
<1>2. CreatesInFull /\ NamesOpenProject /\ Task!HiddenWithProject
  BY DEF Task!Init, Task!Idle, Task!Exists, CreatesInFull, NamesOpenProject,
         Task!HiddenWithProject
<1>3. Told
  BY DEF Task!Init, Task!Idle, Task!Exists, Told, Alone, StampIsNew, RowIsCurrent,
         EntryTold, EventTold
<1>4. QED
  BY <1>1, <1>2, <1>3 DEF TaskInv

LEMMA TaskStep == TaskInv /\ [Task!Next]_Task!vars => TaskInv'
<1> SUFFICES ASSUME TaskInv, [Task!Next]_Task!vars PROVE TaskInv'
  OBVIOUS
<1>1. ASSUME NEW c \in Calls, Task!AbandonCall(c) PROVE TaskInv'
  BY <1>1, CallStops DEF Task!AbandonCall
<1>2. CASE UNCHANGED Task!vars
  <2>1. TaskTypes' /\ CreatesInFull' /\ NamesOpenProject' /\ Task!HiddenWithProject'
    BY <1>2
    DEF Task!vars, TaskInv, TaskTypes, CreatesInFull, NamesOpenProject,
        Task!HiddenWithProject, Task!Listed, Task!Exists
  <2>2. Told'
    BY <1>2
    DEF Task!vars, TaskInv, Told, Alone, StampIsNew, RowIsCurrent, EntryTold, EventTold,
        Task!Exists
  <2>3. QED
    BY <2>1, <2>2 DEF TaskInv
<1>3. QED
  BY <1>1, <1>2, ProjectsChanged, TasksCommitted, CallPublishes, TaskCalled, BulkCalled
  DEF Task!Next

\* Every stamp that is still to be taken is the second one of a call that has
\* yet to write.
Writing == {c \in Calls : call[c].pc = "write"}

StampRoom == clock + Cardinality(Writing) <= MaxStamps + Cardinality(Calls)

LEMMA StampRoomStep == TaskInv /\ StampRoom /\ [Task!Next]_Task!vars => StampRoom'
<1> SUFFICES ASSUME TaskInv, StampRoom, [Task!Next]_Task!vars PROVE StampRoom'
  OBVIOUS
<1>1. /\ IsFiniteSet(Writing) /\ Cardinality(Writing) \in Nat
      /\ IsFiniteSet(Writing') /\ Cardinality(Writing') \in Nat
      /\ Cardinality(Writing') <= Cardinality(Calls) /\ Cardinality(Calls) \in Nat
      /\ clock \in Nat /\ MaxStamps \in Nat
  BY WorkspaceAssumption, FS_Subset, FS_CardinalityType DEF Writing, TaskInv, TaskTypes
<1>2. CASE clock' <= clock /\ clock' \in Nat /\ Writing' \subseteq Writing
  BY <1>1, <1>2, FS_Subset DEF StampRoom
<1>3. CASE clock' = clock + 1 /\ clock < MaxStamps
  BY <1>1, <1>3 DEF StampRoom
<1>4. ASSUME NEW c \in Calls, call[c].pc = "write", clock' = clock + 1,
             Writing' \subseteq Writing \ {c}
      PROVE  StampRoom'
  <2>1. /\ IsFiniteSet(Writing \ {c}) /\ Cardinality(Writing \ {c}) = Cardinality(Writing) - 1
    BY <1>1, <1>4, FS_RemoveElement DEF Writing
  <2>2. Cardinality(Writing') <= Cardinality(Writing) - 1
    BY <1>4, <2>1, FS_Subset
  <2>3. QED
    BY <1>1, <1>4, <2>2 DEF StampRoom
<1>5. ASSUME NEW c \in Calls, call' = [call EXCEPT ![c] = Task!Idle], clock' = clock
      PROVE  StampRoom'
  BY <1>1, <1>2, <1>5 DEF Writing, TaskInv, TaskTypes, Task!Idle
<1>6. ASSUME NEW c \in Calls, call[c].pc = "write", NEW n \in Nat, Task!Commit(c, n),
             clock' \in {clock, clock + 1}
      PROVE  StampRoom'
  <2>1. call'[c].pc = "publish" /\ \A d \in Calls \ {c} : call'[d] = call[d]
    <3>1. call[c] \in TaskCalls
      BY <1>6, CallFields DEF TaskInv, Task!Idle
    <3>2. QED
      BY <1>6, <3>1 DEF TaskInv, TaskTypes, Task!Commit, TaskCalls
  <2>2. Writing' \subseteq Writing \ {c}
    BY <2>1 DEF Writing
  <2>3. QED
    BY <1>1, <1>2, <1>4, <1>6, <2>2
<1>7. ASSUME NEW c \in Calls, Task!CommitTasks(c) PROVE StampRoom'
  <2>1. call[c].pc = "write" /\ call[c].at \in Nat /\ clock + 1 \in Nat
    BY <1>1, <1>7, CallFields
    DEF TaskInv, Task!CommitTasks, Task!InsertTask, Task!UpdateRow, Task!UpdateRows,
        Task!ArchiveRow, Task!RestoreRow
  <2>2. \/ Task!Refuse(c)
        \/ Task!Commit(c, call[c].at) /\ clock' = clock
        \/ Task!Commit(c, clock + 1) /\ clock' = clock + 1
    BY <1>7 DEF Task!CommitTasks, Task!InsertTask, Task!UpdateRow, Task!UpdateRows,
                Task!ArchiveRow, Task!RestoreRow
  <2>3. QED
    BY <1>5, <1>6, <2>1, <2>2 DEF Task!Refuse, Task!End
<1>8. ASSUME NEW c \in Calls, Task!PublishEvents(c) \/ Task!AbandonCall(c) PROVE StampRoom'
  BY <1>5, <1>8 DEF Task!PublishEvents, Task!AbandonCall, Task!End
<1>9. ASSUME NEW c \in Calls, NEW new, Task!Start(c, new) PROVE StampRoom'
  BY <1>3, <1>9 DEF Task!Start
<1>10. ASSUME NEW p \in Projects,
              Task!CreateProject(p) \/ Task!ArchiveProject(p) \/ Task!RestoreProject(p)
       PROVE  StampRoom'
  <2>1. clock' = clock
    BY <1>10 DEF Task!CreateProject, Task!ArchiveProject, Task!RestoreProject
  <2>2. \A c \in Calls : call'[c].pc = call[c].pc
    <3>1. CASE UNCHANGED call
      BY <3>1
    <3>2. CASE Task!ArchiveProject(p)
      <4> TAKE c \in Calls
      <4>1. call'[c] = IF call[c].project = p THEN [call[c] EXCEPT !.dirty = TRUE] ELSE call[c]
        BY <3>2 DEF Task!ArchiveProject
      <4>2. [call[c] EXCEPT !.dirty = TRUE].pc = call[c].pc
        BY DEF TaskInv, TaskTypes, TaskCalls, Task!Idle
      <4>3. QED
        BY <4>1, <4>2
    <3>3. QED
      BY <1>10, <3>1, <3>2 DEF Task!CreateProject, Task!RestoreProject
  <2>3. QED
    BY <1>1, <1>2, <2>1, <2>2 DEF Writing
<1>11. CASE UNCHANGED Task!vars
  BY <1>1, <1>2, <1>11 DEF Task!vars, Writing
<1>12. QED
  BY <1>7, <1>8, <1>9, <1>10, <1>11
  DEF Task!Next, Task!CreateTask, Task!UpdateTask, Task!ArchiveTask, Task!RestoreTask,
      Task!BulkUpdateStatus

LEMMA TaskCardinality == \A S : Task!Cardinality(S) = Cardinality(S)
  BY DEF Task!Cardinality, Cardinality

\* Tasks, projects, calls and timestamps keep their types: in particular the
\* timestamps never run out while a call is to use one.
THEOREM TasksKeepTypes == Task!Spec => []Task!TypeOK
<1>1. Task!Init => StampRoom
  <2> SUFFICES ASSUME Task!Init PROVE StampRoom
    OBVIOUS
  <2>1. clock = 0 /\ Writing \subseteq Calls
    BY DEF Task!Init, Writing
  <2>2. Cardinality(Writing) <= Cardinality(Calls) /\ Cardinality(Writing) \in Nat
        /\ Cardinality(Calls) \in Nat
    BY <2>1, WorkspaceAssumption, FS_Subset, FS_CardinalityType
  <2>3. QED
    BY <2>1, <2>2, WorkspaceAssumption DEF StampRoom
<1>2. TaskInv /\ StampRoom => Task!TypeOK
  <2> SUFFICES ASSUME TaskInv, StampRoom PROVE Task!TypeOK
    OBVIOUS
  <2>1. clock <= MaxStamps + Cardinality(Calls)
        /\ MaxStamps + Cardinality(Calls) \in Nat /\ clock \in Nat
    <3>1. Cardinality(Writing) \in Nat /\ Cardinality(Calls) \in Nat
      BY WorkspaceAssumption, FS_Subset, FS_CardinalityType DEF Writing
    <3>2. QED
      BY <3>1, WorkspaceAssumption DEF StampRoom, TaskInv, TaskTypes
  <2>2. Task!Stamps = 1 .. (MaxStamps + Cardinality(Calls))
    BY TaskCardinality DEF Task!Stamps
  <2>3. clock \in {0} \cup Task!Stamps
    BY <2>1, <2>2
  <2>4. newest \in [Tasks -> [status : Task!Statuses, at : Task!Stamps] \cup {Task!NoEntry}]
    <3>1. ASSUME NEW t \in Tasks
          PROVE  newest[t] \in [status : Task!Statuses, at : Task!Stamps] \cup {Task!NoEntry}
      BY <2>1, <2>2 DEF TaskInv, TaskTypes
    <3>2. QED
      BY <3>1 DEF TaskInv, TaskTypes
  <2>5. \A c \in Calls : call[c].pc \in {"idle", "write", "publish"}
    BY CallFields DEF TaskInv
  <2>6. QED
    BY <2>3, <2>4, <2>5 DEF TaskInv, TaskTypes, Task!TypeOK
<1>3. QED
  BY <1>1, <1>2, TaskInit, TaskStep, StampRoomStep, PTL DEF Task!Spec

\* A task disappears with a project only if it was filed there when that was
\* archived, or by a call that had looked at the project before
\* (ensure_project_belongs_to_tenant is outside the transaction).
THEOREM NobodyFilesUnseen == Task!Spec => []HiddenWithProject
<1>1. TaskInv => HiddenWithProject
  BY DEF TaskInv, HiddenWithProject
<1>2. QED
  BY <1>1, TaskInit, TaskStep, PTL DEF Task!Spec

\* The newest audit entry and, when its calls are over, the last webhook event
\* of a task tell its status, unless calls met on it or one failed between its
\* transaction and its event.
THEOREM StatusIsTold == Task!Spec => []Task!ToldIsTrue
<1>1. TaskInv => Task!ToldIsTrue
  BY DEF TaskInv, Told, EntryTold, EventTold, Task!ToldIsTrue, Task!Busy
<1>2. QED
  BY <1>1, TaskInit, TaskStep, PTL DEF Task!Spec

-----------------------------------------------------------------------------
(* TaskLabels.  A request that met no other has deleted, or will keep,     *)
(* whatever its task is labelled with.                                     *)

\* A request is for one task.
OneTask ==
  \A c \in Calls : \/ request[c] = Label!Idle
                   \/ /\ request[c].pc # "idle"
                      /\ \E t \in Tasks : request[c].tasks = {t}

Unmet ==
  \A t \in Tasks \ merged, c \in Calls, d \in Calls :
    t \in request[c].tasks /\ t \in request[d].tasks => c = d

DropsTheRest ==
  \A t \in Tasks \ merged, c \in Calls :
    request[c].pc = "commit" /\ t \in request[c].tasks =>
      labels[t] \subseteq request[c].drop \cup request[c].labels

LabelInv ==
  /\ Label!TypeOK
  /\ OneTask
  /\ Unmet
  /\ DropsTheRest
  /\ Label!LabelsAreOneRequest

LEMMA LabelDeleted ==
  ASSUME LabelInv, NEW l \in Labels, Label!DeleteLabel(l)
  PROVE  LabelInv'
<1>1. /\ existing' = existing \ {l}
      /\ labels' = [t \in Tasks |-> labels[t] \ {l}]
      /\ asked' = [t \in Tasks |-> asked[t] \ {l}]
      /\ UNCHANGED <<request, requests, merged>>
  BY DEF Label!DeleteLabel, Label!Cascaded
<1>2. Label!TypeOK'
  BY <1>1 DEF LabelInv, Label!TypeOK
<1>3. DropsTheRest'
  BY <1>1 DEF LabelInv, Label!TypeOK, DropsTheRest
<1>4. QED
  BY <1>1, <1>2, <1>3
  DEF LabelInv, Label!TypeOK, OneTask, Unmet, Label!Idle, Label!LabelsAreOneRequest

LEMMA LabelsAsked ==
  ASSUME LabelInv, NEW c \in Calls, NEW t \in Tasks, NEW ls \in SUBSET existing,
         Label!SetTaskLabels(c, t, ls)
  PROVE  LabelInv'
<1> DEFINE new == [pc |-> "drop", tasks |-> {t}, labels |-> ls, drop |-> {}]
<1>1. /\ request[c] = Label!Idle
      /\ requests' \in 0 .. MaxRequests
      /\ request' = [request EXCEPT ![c] = new]
      /\ merged' = IF \E d \in Calls : t \in request[d].tasks THEN merged \cup {t} ELSE merged
      /\ UNCHANGED <<existing, labels, asked>>
  BY WorkspaceAssumption DEF Label!SetTaskLabels, LabelInv, Label!TypeOK
<1>2. \A d \in Calls : request'[d] = IF d = c THEN new ELSE request[d]
  BY <1>1 DEF LabelInv, Label!TypeOK
<1>3. Label!TypeOK'
  <2>1. new \in [pc : {"idle", "drop", "commit"}, tasks : SUBSET Tasks,
                 labels : SUBSET Labels, drop : SUBSET Labels]
    BY DEF LabelInv, Label!TypeOK
  <2>2. QED
    BY <1>1, <2>1 DEF LabelInv, Label!TypeOK
<1>4. OneTask'
  BY <1>2 DEF LabelInv, OneTask, Label!Idle
<1>5. Unmet'
  <2> SUFFICES ASSUME NEW u \in Tasks \ merged', NEW d \in Calls, NEW e \in Calls,
                      u \in request'[d].tasks, u \in request'[e].tasks
               PROVE  d = e
    BY DEF Unmet
  <2>1. u \in Tasks \ merged
    BY <1>1
  <2>2. CASE u = t
    BY <2>2, <1>1, <1>2
  <2>3. CASE u # t
    BY <2>1, <2>3, <1>2 DEF LabelInv, Unmet
  <2>4. QED
    BY <2>2, <2>3
<1>6. DropsTheRest'
  BY <1>1, <1>2 DEF LabelInv, DropsTheRest
<1>7. QED
  BY <1>1, <1>3, <1>4, <1>5, <1>6 DEF LabelInv, Label!LabelsAreOneRequest

LEMMA LabelsDropped ==
  ASSUME LabelInv, NEW c \in Calls, Label!DropLabels(c)
  PROVE  LabelInv'
<1>1. /\ request[c].pc = "drop"
      /\ UNCHANGED <<existing, labels, requests, asked, merged>>
  BY DEF Label!DropLabels
<1>2. PICK t \in Tasks : request[c].tasks = {t}
  BY <1>1 DEF LabelInv, OneTask, Label!Idle
<1> DEFINE drop == labels[t] \ request[c].labels
           new == [request[c] EXCEPT !.pc = "commit", !.drop = drop]
<1>3. request' = [request EXCEPT ![c].pc = "commit", ![c].drop = drop]
  BY <1>2 DEF Label!DropLabels
<1>4. /\ new \in [pc : {"idle", "drop", "commit"}, tasks : SUBSET Tasks,
                  labels : SUBSET Labels, drop : SUBSET Labels]
      /\ new.pc = "commit" /\ new.tasks = {t}
      /\ new.labels = request[c].labels /\ new.drop = drop
  BY <1>2 DEF LabelInv, Label!TypeOK
<1>5. \A d \in Calls : request'[d] = IF d = c THEN new ELSE request[d]
  BY <1>3 DEF LabelInv, Label!TypeOK
<1>6. Label!TypeOK'
  <2>1. request' \in [Calls -> [pc : {"idle", "drop", "commit"}, tasks : SUBSET Tasks,
                                labels : SUBSET Labels, drop : SUBSET Labels]]
    <3>1. request' = [d \in Calls |-> IF d = c THEN new ELSE request[d]]
      BY <1>3 DEF LabelInv, Label!TypeOK
    <3>2. QED
      BY <3>1, <1>4 DEF LabelInv, Label!TypeOK
  <2>2. QED
    BY <1>1, <2>1 DEF LabelInv, Label!TypeOK
<1> HIDE DEF new
<1>7. OneTask'
  <2>1. new # Label!Idle /\ new.pc # "idle"
    BY <1>4 DEF Label!Idle
  <2>2. QED
    BY <2>1, <1>4, <1>5 DEF LabelInv, OneTask
<1>8. Unmet'
  BY <1>1, <1>2, <1>4, <1>5 DEF LabelInv, Unmet
<1>9. DropsTheRest'
  BY <1>1, <1>4, <1>5 DEF LabelInv, DropsTheRest
<1>10. QED
  BY <1>1, <1>6, <1>7, <1>8, <1>9 DEF LabelInv, Label!LabelsAreOneRequest

\* A request that ends, having changed no labels.
LEMMA LabelsLeft ==
  ASSUME LabelInv, NEW c \in Calls,
         request' = [request EXCEPT ![c] = Label!Idle],
         UNCHANGED <<existing, labels, requests, asked, merged>>
  PROVE  LabelInv'
<1>1. \A d \in Calls : request'[d] = IF d = c THEN Label!Idle ELSE request[d]
  BY DEF LabelInv, Label!TypeOK
<1>2. /\ Label!Idle \in [pc : {"idle", "drop", "commit"}, tasks : SUBSET Tasks,
                         labels : SUBSET Labels, drop : SUBSET Labels]
      /\ Label!Idle.pc = "idle" /\ Label!Idle.tasks = {}
  BY DEF Label!Idle
<1>3. Label!TypeOK'
  BY <1>2 DEF LabelInv, Label!TypeOK
<1>4. QED
  BY <1>1, <1>2, <1>3
  DEF LabelInv, OneTask, Unmet, DropsTheRest, Label!LabelsAreOneRequest

LEMMA LabelsCommitted ==
  ASSUME LabelInv, NEW c \in Calls, Label!CommitLabels(c)
  PROVE  LabelInv'
<1> DEFINE ls == request[c].labels
<1>1. /\ request[c].pc = "commit"
      /\ request' = [request EXCEPT ![c] = Label!Idle]
      /\ UNCHANGED <<existing, requests, merged>>
  BY DEF Label!CommitLabels
<1>2. CASE ~(ls \subseteq existing)
  BY <1>1, <1>2, LabelsLeft DEF Label!CommitLabels
<1>3. CASE ls \subseteq existing
  <2>1. PICK t \in Tasks : request[c].tasks = {t}
    BY <1>1 DEF LabelInv, OneTask, Label!Idle
  <2>2. \A d \in Calls : request'[d] = IF d = c THEN Label!Idle ELSE request[d]
    BY <1>1 DEF LabelInv, Label!TypeOK
  <2>3. /\ Label!Idle \in [pc : {"idle", "drop", "commit"}, tasks : SUBSET Tasks,
                           labels : SUBSET Labels, drop : SUBSET Labels]
        /\ Label!Idle.pc = "idle" /\ Label!Idle.tasks = {}
    BY DEF Label!Idle
  <2>4. /\ labels' = [u \in Tasks |-> IF u = t THEN (labels[u] \ request[c].drop) \cup ls
                                      ELSE labels[u]]
        /\ asked' = [u \in Tasks |-> IF u = t THEN ls ELSE asked[u]]
    BY <1>3, <2>1 DEF Label!CommitLabels, Label!Replaced
  <2>5. Label!TypeOK'
    BY <1>1, <1>3, <2>3, <2>4 DEF LabelInv, Label!TypeOK
  <2>6. OneTask' /\ Unmet'
    BY <1>1, <2>2, <2>3 DEF LabelInv, OneTask, Unmet
  <2>7. DropsTheRest'
    <3> SUFFICES ASSUME NEW u \in Tasks \ merged, NEW d \in Calls,
                        request'[d].pc = "commit", u \in request'[d].tasks
                 PROVE  labels'[u] \subseteq request'[d].drop \cup request'[d].labels
      BY <1>1 DEF DropsTheRest
    <3>1. d # c /\ request'[d] = request[d]
      BY <2>2, <2>3
    <3>2. u # t
      BY <2>1, <3>1 DEF LabelInv, Unmet
    <3>3. QED
      BY <2>4, <3>1, <3>2 DEF LabelInv, DropsTheRest
  <2>8. Label!LabelsAreOneRequest'
    <3> SUFFICES ASSUME NEW u \in Tasks \ merged PROVE labels'[u] = asked'[u]
      BY <1>1 DEF Label!LabelsAreOneRequest
    <3>1. CASE u = t
      <4>1. labels[t] \subseteq request[c].drop \cup ls
        BY <1>1, <2>1, <3>1 DEF LabelInv, DropsTheRest
      <4>2. (labels[t] \ request[c].drop) \cup ls = ls
        BY <4>1
      <4>3. QED
        BY <4>2, <2>4, <3>1
    <3>2. CASE u # t
      BY <2>4, <3>2 DEF LabelInv, Label!LabelsAreOneRequest
    <3>3. QED
      BY <3>1, <3>2
  <2>9. QED
    BY <2>5, <2>6, <2>7, <2>8 DEF LabelInv
<1>4. QED
  BY <1>2, <1>3

LEMMA LabelInvariant == Label!Spec => []LabelInv
<1>1. Label!Init => LabelInv
  BY WorkspaceAssumption
  DEF Label!Init, Label!Idle, LabelInv, Label!TypeOK, OneTask, Unmet, DropsTheRest,
      Label!LabelsAreOneRequest
<1>2. LabelInv /\ [Label!Next]_Label!vars => LabelInv'
  <2> SUFFICES ASSUME LabelInv, [Label!Next]_Label!vars PROVE LabelInv'
    OBVIOUS
  <2>1. ASSUME NEW l \in Labels, Label!CreateLabel(l) PROVE LabelInv'
    BY <2>1
    DEF Label!CreateLabel, Label!Idle, LabelInv, Label!TypeOK, OneTask, Unmet,
        DropsTheRest, Label!LabelsAreOneRequest
  <2>2. ASSUME NEW c \in Calls, Label!AbandonRequest(c) PROVE LabelInv'
    BY <2>2, LabelsLeft DEF Label!AbandonRequest
  <2>3. CASE UNCHANGED Label!vars
    BY <2>3
    DEF Label!vars, Label!Idle, LabelInv, Label!TypeOK, OneTask, Unmet, DropsTheRest,
        Label!LabelsAreOneRequest
  <2>4. QED
    BY <2>1, <2>2, <2>3, LabelDeleted, LabelsAsked, LabelsDropped, LabelsCommitted
    DEF Label!Next
<1>3. QED
  BY <1>1, <1>2, PTL DEF Label!Spec

\* A task has the labels of one request, less those deleted since, however many
\* requests replace label sets, as long as none overlapped another on that task
\* (set_task_labels: delete what is not asked for, insert what is).
THEOREM LabelSetsAreWhole == Label!Spec => []LabelsAreOneRequest
<1>1. LabelInv => LabelsAreOneRequest
  BY DEF LabelInv, LabelsAreOneRequest
<1>2. QED
  BY <1>1, LabelInvariant, PTL

-----------------------------------------------------------------------------
(* TaskThreads.  What TaskThreadsProofs proves holds of the part.          *)

Threads == INSTANCE TaskThreadsProofs

LEMMA SameThreads == Item!Spec <=> Threads!Spec
<1>1. Item!Init <=> Threads!Init
  BY DEF Item!Init, Threads!Init, Item!Items, Threads!Items, Item!Free, Threads!Free
<1>2. Item!Items = Threads!Items /\ Item!Present = Threads!Present
  BY DEF Item!Items, Threads!Items, Item!Present, Threads!Present
<1>3. ASSUME NEW c \in Callers, NEW f \in Files, NEW u \in Users
      PROVE  Item!UploadAttachment(c, f, u) <=> Threads!UploadAttachment(c, f, u)
  BY
  DEF Item!UploadAttachment, Threads!UploadAttachment, Item!HasRoom, Threads!HasRoom,
      Item!RoomForOneMore, Threads!RoomForOneMore, Item!Attached, Threads!Attached,
      Item!Present, Threads!Present, Item!Items, Threads!Items, Item!Fresh,
      Threads!Fresh, Item!Free, Threads!Free, Item!Cardinality, Threads!Cardinality
<1>4. ASSUME NEW c \in Callers
      PROVE  /\ (Item!PutFile(c) <=> Threads!PutFile(c))
             /\ (Item!CleanUp(c) <=> Threads!CleanUp(c))
  BY
  DEF Item!PutFile, Threads!PutFile, Item!CleanUp, Threads!CleanUp, Item!Goto,
      Threads!Goto, Item!Leave, Threads!Leave, Item!Free, Threads!Free
<1>5. ASSUME NEW c \in Callers
      PROVE  /\ (Item!CreateAttachmentRow(c) <=> Threads!CreateAttachmentRow(c))
             /\ (Item!CreateCommentRow(c) <=> Threads!CreateCommentRow(c))
  BY
  DEF Item!CreateAttachmentRow, Threads!CreateAttachmentRow, Item!CreateCommentRow,
      Threads!CreateCommentRow, Item!Ends, Threads!Ends, Item!Insert, Threads!Insert,
      Item!Goto, Threads!Goto, Item!Leave, Threads!Leave, Item!Free, Threads!Free
<1>6. ASSUME NEW c \in Callers, NEW x \in Comments, NEW u \in Users
      PROVE  Item!CreateComment(c, x, u) <=> Threads!CreateComment(c, x, u)
  BY
  DEF Item!CreateComment, Threads!CreateComment, Item!Fresh, Threads!Fresh, Item!Free,
      Threads!Free
<1>7. ASSUME NEW c \in Callers, NEW x, NEW u \in Users, NEW admin \in BOOLEAN
      PROVE  /\ (Item!DeleteAttachment(c, x, u, admin) <=> Threads!DeleteAttachment(c, x, u, admin))
             /\ (Item!DeleteComment(c, x, u, admin) <=> Threads!DeleteComment(c, x, u, admin))
  BY
  DEF Item!DeleteAttachment, Threads!DeleteAttachment, Item!DeleteComment,
      Threads!DeleteComment, Item!MayDelete, Threads!MayDelete, Item!Present,
      Threads!Present, Item!Items, Threads!Items, Item!Free, Threads!Free
<1>8. ASSUME NEW c \in Callers
      PROVE  /\ (Item!DeleteAttachmentRow(c) <=> Threads!DeleteAttachmentRow(c))
             /\ (Item!DeleteCommentRow(c) <=> Threads!DeleteCommentRow(c))
  BY
  DEF Item!DeleteAttachmentRow, Threads!DeleteAttachmentRow, Item!DeleteCommentRow,
      Threads!DeleteCommentRow, Item!Remove, Threads!Remove, Item!StillThere,
      Threads!StillThere, Item!Present, Threads!Present, Item!Items, Threads!Items,
      Item!Ends, Threads!Ends, Item!Goto, Threads!Goto, Item!Leave, Threads!Leave,
      Item!Free, Threads!Free
<1>9. ASSUME NEW c \in Callers
      PROVE  /\ (Item!Unlink(c) <=> Threads!Unlink(c))
             /\ (Item!Crash(c) <=> Threads!Crash(c))
  BY
  DEF Item!Unlink, Threads!Unlink, Item!Crash, Threads!Crash, Item!Leave, Threads!Leave,
      Item!Free, Threads!Free
<1>10. Item!Next <=> Threads!Next
  BY <1>3, <1>4, <1>5, <1>6, <1>7, <1>8, <1>9 DEF Item!Next, Threads!Next
<1>11. QED
  BY <1>1, <1>10, PTL DEF Item!Spec, Threads!Spec, Item!vars, Threads!vars

LEMMA ThreadsApart == Threads!Apart /\ Threads!Finitely
<1>1. \A S : Threads!IsFiniteSet(S) <=> IsFiniteSet(S)
  BY DEF Threads!IsFiniteSet, IsFiniteSet
<1>2. QED
  BY <1>1, ThreadsAssumption DEF Threads!Apart, Threads!Finitely

LEMMA SameItems ==
  /\ Threads!TypeOK <=> Item!TypeOK
  /\ Threads!CapExceededByOverlap <=> CapExceededByOverlap
  /\ (Threads!RowHasFile /\ Threads!OrphansCostFaults) <=> FilesMatchRows
  /\ Threads!DeletionIsToldOnce <=> Item!DeletionIsToldOnce
<1>1. /\ Threads!Items = Item!Items /\ Threads!Present = Item!Present
      /\ Threads!Attached = Item!Attached /\ Threads!Free = Item!Free
  BY DEF Threads!Items, Item!Items, Threads!Present, Item!Present, Threads!Attached,
         Item!Attached, Threads!Free, Item!Free
<1>2. \A S : Threads!Cardinality(S) = Item!Cardinality(S)
  BY DEF Threads!Cardinality, Item!Cardinality
<1>3. Threads!TypeOK <=> Item!TypeOK
  BY <1>1 DEF Threads!TypeOK, Item!TypeOK
<1>4. Threads!CapExceededByOverlap <=> CapExceededByOverlap
  BY <1>1, <1>2
     DEF Threads!CapExceededByOverlap, Item!CapExceededByOverlap, CapExceededByOverlap
<1>5. (Threads!RowHasFile /\ Threads!OrphansCostFaults) <=> FilesMatchRows
  BY <1>1
     DEF Threads!RowHasFile, Item!RowHasFile, Threads!Downloadable, Item!Downloadable,
         Threads!OrphansCostFaults, Item!OrphansCostFaults, FilesMatchRows
<1>6. Threads!DeletionIsToldOnce <=> Item!DeletionIsToldOnce
  BY <1>1 DEF Threads!DeletionIsToldOnce, Item!DeletionIsToldOnce
<1>7. QED
  BY <1>3, <1>4, <1>5, <1>6

\* With n uploads at a time a task has at most n - 1 attachments more than the
\* promised cap, for every n and every cap: upload_attachment counts before it
\* writes.
THEOREM UploadsExceedCap == Item!Spec => []CapExceededByOverlap
<1>1. Threads!Spec => []Threads!CapExceededByOverlap
  BY ThreadsApart, Threads!CapOvershoot
<1>2. QED
  BY <1>1, SameThreads, SameItems, PTL

\* A row has its file unless the commit that inserted it went unanswered, and a
\* file without a row is one that a call is still at or that an error left.
THEOREM RowsMatchFiles == Item!Spec => [](Item!TypeOK /\ FilesMatchRows)
<1>1. Threads!Spec => [](Threads!TypeOK /\ Threads!RowHasFile)
  BY ThreadsApart, Threads!RowsHaveFiles
<1>2. Threads!Spec => []Threads!OrphansCostFaults
  BY ThreadsApart, Threads!OrphansAreExplained
<1>3. QED
  BY <1>1, <1>2, SameThreads, SameItems, PTL

LEMMA DeletionsToldOnce == Item!Spec => []Item!DeletionIsToldOnce
<1>1. Threads!Spec => []Threads!DeletionIsToldOnce
  BY ThreadsApart, Threads!DeletedOnce
<1>2. QED
  BY <1>1, SameThreads, SameItems, PTL

-----------------------------------------------------------------------------
(* Pages.  A row is passed when it stands at the cursor or before it.      *)

Ahead(r) ==
  \/ updated[r] < reader.cursor.at
  \/ updated[r] = reader.cursor.at /\ r < reader.cursor.id

PageTypes ==
  /\ updated \in [PagedTasks -> Page!Absent .. MaxWrites]
  /\ matching \subseteq PagedTasks
  /\ writes \in 0 .. MaxWrites
  /\ IsFiniteSet(writing)
  /\ writing \subseteq [rows : SUBSET PagedTasks, at : 1 .. MaxWrites]
  /\ reader \in [pc : {"idle", "list", "export", "done"},
                 cursor : [at : 0 .. MaxWrites + 1, id : PagedTasks \cup {0}]]
  /\ seen \in [PagedTasks -> Nat]
  /\ quiet \subseteq PagedTasks /\ backwards \subseteq PagedTasks
  /\ list \in Page!Lists

\* What was got was passed, and only what moved back can come again.
GotOnce(r) ==
  /\ reader.pc = "idle" => seen[r] = 0 /\ Ahead(r)
  /\ (reader.pc \in {"list", "export"} /\ r \in quiet) =>
       seen[r] = IF r \in matching /\ ~Ahead(r) THEN 1 ELSE 0
  /\ r \notin backwards => seen[r] <= 1 /\ (seen[r] = 1 => ~Ahead(r))
  /\ (reader.pc = "done" /\ r \in quiet) => seen[r] = IF r \in matching THEN 1 ELSE 0

\* A task has its timestamp from the start, an entry of a log when it is written.
TasksStamped == list = "tasks" => \A r \in PagedTasks : updated[r] >= 0

PageInv ==
  /\ PageTypes
  /\ \A r \in matching : updated[r] >= 0
  /\ TasksStamped
  /\ reader.pc = "idle" => reader.cursor = Page!Start
  /\ \A r \in PagedTasks : GotOnce(r)

LEMMA PageCardinality == \A S : Page!Cardinality(S) = Cardinality(S)
  BY DEF Page!Cardinality, Cardinality

\* The order of a list is total, and a finite part of it has a first row.
LEMMA Ordered ==
  ASSUME PageTypes, NEW q \in PagedTasks, NEW r \in PagedTasks, NEW s \in PagedTasks
  PROVE  /\ ~Page!Precedes(r, r)
         /\ q # r => (Page!Precedes(q, r) \/ Page!Precedes(r, q))
         /\ ~(Page!Precedes(q, r) /\ Page!Precedes(r, q))
         /\ (Page!Precedes(q, r) /\ Page!Precedes(r, s)) => Page!Precedes(q, s)
<1>1. /\ q \in Int /\ r \in Int /\ s \in Int
      /\ updated[q] \in Int /\ updated[r] \in Int /\ updated[s] \in Int
  BY PagesAssumption DEF PageTypes, Page!Absent
<1>2. QED
  BY <1>1 DEF Page!Precedes

LEMMA CursorTypes ==
  ASSUME PageTypes
  PROVE  /\ \A r \in PagedTasks : /\ r \in Int /\ updated[r] \in Int
                                  /\ updated[r] >= -1 /\ updated[r] <= MaxWrites
         /\ reader.cursor.at \in Int /\ reader.cursor.id \in Int
<1>1. updated \in [PagedTasks -> Page!Absent .. MaxWrites]
  BY DEF PageTypes
<1>2. reader.cursor \in [at : 0 .. MaxWrites + 1, id : PagedTasks \cup {0}]
  BY DEF PageTypes
<1>3. PagedTasks \subseteq Int /\ MaxWrites \in Nat
  BY PagesAssumption
<1>0. Page!Absent \in Int /\ Page!Absent >= -1
  BY DEF Page!Absent
<1>4. \A r \in PagedTasks : updated[r] \in Page!Absent .. MaxWrites
  BY <1>1
<1>5. reader.cursor.at \in 0 .. MaxWrites + 1 /\ reader.cursor.id \in PagedTasks \cup {0}
  BY <1>2
<1> DEFINE i == reader.cursor.id
           t == reader.cursor.at
<1> HIDE DEF i, t
<1>a. t \in 0 .. MaxWrites + 1 /\ i \in PagedTasks \cup {0}
  BY <1>5 DEF i, t
<1>b. t \in Int
  BY <1>3, <1>a
<1>c. i \in Int
  BY <1>3, <1>a
<1>6. reader.cursor.at \in Int /\ reader.cursor.id \in Int
  BY <1>b, <1>c DEF i, t
<1>7. ASSUME NEW r \in PagedTasks
      PROVE  updated[r] \in Int /\ updated[r] >= -1 /\ updated[r] <= MaxWrites
  BY <1>0, <1>3, <1>4
<1>8. QED
  BY <1>3, <1>6, <1>7

LEMMA FirstOf ==
  ASSUME PageTypes, NEW S \in SUBSET PagedTasks, S # {}
  PROVE  \E m \in S : \A q \in S \ {m} : Page!Precedes(m, q)
<1> DEFINE Before(r) == {q \in S : Page!Precedes(q, r)}
           T == {Before(r) : r \in S}
<1>1. IsFiniteSet(S)
  BY FS_Subset, PagesAssumption
<1>2. IsWellFoundedOn(StrictSubsetOrdering(S), SUBSET S)
  BY <1>1, FS_FiniteSubsetsOfFinite, FS_StrictSubsetOrderingWellFounded
<1>3. T \subseteq SUBSET S /\ T # {}
  OBVIOUS
<1>4. PICK x \in T : \A y \in T : ~(<<y, x>> \in StrictSubsetOrdering(S))
  <2> HIDE DEF T
  <2> QED
    BY <1>2, <1>3, WFMin, Zenon
<1>5. PICK m \in S : x = Before(m)
  BY <1>4
<1>6. ASSUME NEW q \in S, q # m PROVE Page!Precedes(m, q)
  <2>1. SUFFICES ASSUME Page!Precedes(q, m) PROVE FALSE
    BY <1>6, Ordered
  <2>2. Before(q) \subseteq Before(m)
    BY <2>1, Ordered
  <2>3. q \in Before(m) /\ q \notin Before(q)
    BY <2>1, Ordered
  <2>4. <<Before(q), Before(m)>> \in StrictSubsetOrdering(S)
    BY <2>2, <2>3 DEF StrictSubsetOrdering
  <2>5. QED
    BY <2>4, <1>4, <1>5
<1>7. QED
  BY <1>6

LEMMA LastIn ==
  ASSUME PageTypes, NEW S \in SUBSET PagedTasks, S # {}
  PROVE  \E m \in S : \A q \in S \ {m} : Page!Precedes(q, m)
<1> DEFINE After(r) == {q \in S : Page!Precedes(r, q)}
           T == {After(r) : r \in S}
<1>1. IsFiniteSet(S)
  BY FS_Subset, PagesAssumption
<1>2. IsWellFoundedOn(StrictSubsetOrdering(S), SUBSET S)
  BY <1>1, FS_FiniteSubsetsOfFinite, FS_StrictSubsetOrderingWellFounded
<1>3. T \subseteq SUBSET S /\ T # {}
  OBVIOUS
<1>4. PICK x \in T : \A y \in T : ~(<<y, x>> \in StrictSubsetOrdering(S))
  <2> HIDE DEF T
  <2> QED
    BY <1>2, <1>3, WFMin, Zenon
<1>5. PICK m \in S : x = After(m)
  BY <1>4
<1>6. ASSUME NEW q \in S, q # m PROVE Page!Precedes(q, m)
  <2>1. SUFFICES ASSUME Page!Precedes(m, q) PROVE FALSE
    BY <1>6, Ordered
  <2>2. After(q) \subseteq After(m)
    BY <2>1, Ordered
  <2>3. q \in After(m) /\ q \notin After(q)
    BY <2>1, Ordered
  <2>4. <<After(q), After(m)>> \in StrictSubsetOrdering(S)
    BY <2>2, <2>3 DEF StrictSubsetOrdering
  <2>5. QED
    BY <2>4, <1>4, <1>5
<1>7. QED
  BY <1>6

-----------------------------------------------------------------------------
\* A page holds the first rows of the rest, and all of it when it is not full.
Rest == {r \in PagedTasks : Page!Below(r, reader.cursor)}

LEMMA PageFetched ==
  ASSUME PageTypes, NEW n \in Nat
  PROVE  /\ Page!Fetch(n) \subseteq Rest
         /\ IsFiniteSet(Page!Fetch(n))
         /\ \A r \in Page!Fetch(n), q \in Rest : Page!Precedes(q, r) => q \in Page!Fetch(n)
         /\ Cardinality(Page!Fetch(n)) < n => Page!Fetch(n) = Rest
<1> DEFINE Before(r) == {q \in Rest : Page!Precedes(q, r)}
           F == {r \in Rest : Cardinality(Before(r)) < n}
<1>1. Page!Fetch(n) = F
  BY PageCardinality DEF Page!Fetch, Rest
<1>2. Rest \subseteq PagedTasks /\ IsFiniteSet(Rest) /\ IsFiniteSet(F)
  BY FS_Subset, PagesAssumption DEF Rest
<1>3. \A r \in Rest : IsFiniteSet(Before(r)) /\ Cardinality(Before(r)) \in Nat
  BY <1>2, FS_Subset, FS_CardinalityType
<1>4. ASSUME NEW r \in F, NEW q \in Rest, Page!Precedes(q, r)
      PROVE  q \in F
  <2>1. Before(q) \subseteq Before(r)
    BY <1>2, <1>4, Ordered
  <2>2. Cardinality(Before(q)) <= Cardinality(Before(r))
    BY <2>1, <1>3, FS_Subset
  <2>3. QED
    BY <2>2, <1>3, <1>4
<1>5. ASSUME Cardinality(F) < n PROVE F = Rest
  <2>1. SUFFICES ASSUME Rest \ F # {} PROVE FALSE
    OBVIOUS
  <2>2. PICK m \in Rest \ F : \A q \in (Rest \ F) \ {m} : Page!Precedes(m, q)
    BY <2>1, <1>2, FirstOf
  <2>3. Before(m) \subseteq F
    BY <2>2, <1>2, Ordered
  <2>4. Cardinality(Before(m)) <= Cardinality(F)
    BY <2>3, <1>2, FS_Subset
  <2>5. Cardinality(F) \in Nat /\ Cardinality(Before(m)) \in Nat
    BY <1>2, <1>3, FS_CardinalityType
  <2>6. QED
    BY <2>2, <2>4, <2>5, <1>5
<1> HIDE DEF F
<1>6. F \subseteq Rest
  BY DEF F
<1>7. QED
  BY <1>1, <1>2, <1>4, <1>5, <1>6

\* And it is never more than full: the rows before its last are fewer than n.
LEMMA PageFull ==
  ASSUME PageTypes, NEW n \in Nat
  PROVE  Cardinality(Page!Fetch(n)) <= n
<1> DEFINE F == Page!Fetch(n)
           Before(r) == {q \in Rest : Page!Precedes(q, r)}
<1>0. F = {r \in Rest : Cardinality(Before(r)) < n}
  BY PageCardinality DEF Page!Fetch, Rest
<1>1. F \subseteq Rest /\ Rest \subseteq PagedTasks /\ IsFiniteSet(F)
  BY PageFetched DEF Rest
<1> HIDE DEF F
<1>2. CASE F = {}
  BY <1>2, FS_EmptySet DEF F
<1>3. CASE F # {}
  <2>1. PICK m \in F : \A q \in F \ {m} : Page!Precedes(q, m)
    BY <1>1, <1>3, LastIn
  <2>2. Cardinality(Before(m)) < n
    BY <1>0, <2>1
  <2>3. IsFiniteSet(Before(m)) /\ F \ {m} \subseteq Before(m)
    <3>1. Before(m) \subseteq PagedTasks
      BY <1>1
    <3>2. IsFiniteSet(Before(m))
      BY <3>1, FS_Subset, PagesAssumption
    <3>3. QED
      BY <3>2, <2>1, <1>1
  <2> HIDE DEF Before
  <2>4. Cardinality(F \ {m}) <= Cardinality(Before(m))
    BY <2>3, FS_Subset
  <2>5. Cardinality(F \ {m}) = Cardinality(F) - 1
    BY <1>1, <2>1, FS_RemoveElement
  <2>6. Cardinality(F) \in Nat /\ Cardinality(Before(m)) \in Nat
    BY <1>1, <2>3, FS_CardinalityType
  <2>7. QED
    BY <2>2, <2>4, <2>5, <2>6 DEF F
<1>4. QED
  BY <1>2, <1>3

\* The new cursor is the last row kept.
LEMMA CursorMoves ==
  ASSUME PageInv, NEW n \in Nat,
         reader'.cursor = IF Page!Fetch(n) = {} THEN reader.cursor ELSE Page!LastOf(Page!Fetch(n)),
         updated' = updated, NEW r \in PagedTasks
  PROVE  /\ reader'.cursor \in [at : 0 .. MaxWrites + 1, id : PagedTasks \cup {0}]
         /\ r \in Page!Fetch(n) => r \in matching /\ Ahead(r) /\ ~Ahead(r)'
         /\ ~Ahead(r) => ~Ahead(r)'
         /\ (r \in Rest /\ r \notin Page!Fetch(n)) => Ahead(r)'
<1> DEFINE F == Page!Fetch(n)
<1>0. PageTypes
  BY DEF PageInv
<1>1. F \subseteq Rest /\ Rest \subseteq PagedTasks
  BY <1>0, PageFetched DEF Rest
<1>2. \A q \in Rest : q \in matching /\ Ahead(q)
  BY DEF Rest, Page!Below, Ahead
<1>3. /\ r \in Int /\ updated[r] \in Int
      /\ reader.cursor.at \in Int /\ reader.cursor.id \in Int
  BY <1>0, CursorTypes
<1>4. CASE F = {}
  <2>1. reader'.cursor = reader.cursor
    BY <1>4
  <2>2. Ahead(r)' <=> Ahead(r)
    BY <2>1 DEF Ahead
  <2>3. QED
    BY <1>0, <1>2, <1>4, <2>1, <2>2 DEF PageTypes
<1>5. CASE F # {}
  <2> DEFINE l == CHOOSE x \in F : \A q \in F \ {x} : Page!Precedes(q, x)
  <2>1. /\ l \in F
        /\ \A q \in F \ {l} : Page!Precedes(q, l)
    BY <1>0, <1>1, <1>5, LastIn
  <2>2. reader'.cursor = [at |-> updated[l], id |-> l]
    BY <1>5 DEF Page!LastOf
  <2> HIDE DEF l, F
  <2>3. l \in PagedTasks /\ l \in matching /\ Ahead(l) /\ l \in Rest
    BY <1>1, <1>2, <2>1
  <2>4. updated[l] \in 0 .. MaxWrites
    BY <2>3, <1>0, PagesAssumption DEF PageInv, PageTypes, Page!Absent
  <2>5. l \in Int /\ updated[l] \in Int
    BY <1>0, <2>3, CursorTypes
  <2>6. Ahead(r)' <=> updated[r] < updated[l] \/ (updated[r] = updated[l] /\ r < l)
    BY <2>2 DEF Ahead
  <2>7. reader'.cursor \in [at : 0 .. MaxWrites + 1, id : PagedTasks \cup {0}]
    BY <2>2, <2>3, <2>4, PagesAssumption
  <2>8. r \in F => ~Ahead(r)'
    BY <2>1, <2>6, <2>5, <1>3 DEF Page!Precedes
  <2>9. ~Ahead(r) => ~Ahead(r)'
    BY <2>3, <2>5, <2>6, <1>3 DEF Ahead
  <2>10. ASSUME r \in Rest, r \notin F PROVE Ahead(r)'
    <3>1. ~Page!Precedes(r, l)
      BY <2>1, <2>10, <1>0, PageFetched DEF F
    <3>2. r # l
      BY <2>1, <2>10
    <3>3. QED
      BY <3>1, <3>2, <2>5, <2>6, <1>3 DEF Page!Precedes
  <2>11. QED
    BY <1>1, <1>2, <2>7, <2>8, <2>9, <2>10 DEF F
<1>6. QED
  BY <1>4, <1>5

LEMMA PageKept ==
  ASSUME PageInv, Page!Reading, NEW n \in Nat, NEW pc \in {"list", "export", "done"},
         Page!Kept(Page!Fetch(n), pc), pc = "done" => Page!Fetch(n) = Rest
  PROVE  PageInv'
<1> DEFINE F == Page!Fetch(n)
<1>0. PageTypes /\ reader.pc \in {"list", "export"}
  BY DEF PageInv, Page!Reading
<1>1. /\ seen' = [r \in PagedTasks |-> IF r \in F THEN seen[r] + 1 ELSE seen[r]]
      /\ reader' = [pc |-> pc, cursor |-> IF F = {} THEN reader.cursor ELSE Page!LastOf(F)]
      /\ UNCHANGED <<list, updated, matching, writing, writes, quiet, backwards>>
  BY DEF Page!Kept
<1> HIDE DEF F
<1>2. /\ reader'.cursor = IF F = {} THEN reader.cursor ELSE Page!LastOf(F)
      /\ reader'.pc = pc
  BY <1>1
<1>3. ASSUME NEW r \in PagedTasks
      PROVE  /\ reader'.cursor \in [at : 0 .. MaxWrites + 1, id : PagedTasks \cup {0}]
             /\ r \in F => r \in matching /\ Ahead(r) /\ ~Ahead(r)'
             /\ ~Ahead(r) => ~Ahead(r)'
             /\ (r \in Rest /\ r \notin F) => Ahead(r)'
  BY <1>1, <1>2, CursorMoves DEF F
<1>4. reader' \in [pc : {"idle", "list", "export", "done"},
                   cursor : [at : 0 .. MaxWrites + 1, id : PagedTasks \cup {0}]]
  <2>1. CASE PagedTasks = {}
    <3>1. F = {}
      BY <2>1, <1>0, PageFetched DEF F, Rest
    <3>2. reader' = [pc |-> pc, cursor |-> reader.cursor]
      BY <3>1, <1>1
    <3>3. QED
      BY <3>2, <1>0 DEF PageTypes
  <2>2. CASE PagedTasks # {}
    <3>1. reader'.cursor \in [at : 0 .. MaxWrites + 1, id : PagedTasks \cup {0}]
      BY <2>2, <1>3
    <3> DEFINE c == IF F = {} THEN reader.cursor ELSE Page!LastOf(F)
    <3> HIDE DEF c
    <3>2. reader' = [pc |-> pc, cursor |-> c]
      BY <1>1 DEF c
    <3>3. c \in [at : 0 .. MaxWrites + 1, id : PagedTasks \cup {0}]
      BY <3>1, <3>2
    <3>4. QED
      BY <3>2, <3>3
  <2>3. QED
    BY <2>1, <2>2
<1>5. seen' \in [PagedTasks -> Nat]
  BY <1>0, <1>1 DEF PageTypes
<1>6. PageTypes'
  BY <1>0, <1>1, <1>4, <1>5 DEF PageTypes
<1>7. ASSUME NEW r \in PagedTasks PROVE GotOnce(r)'
  <2>1. seen[r] \in Nat /\ seen'[r] = IF r \in F THEN seen[r] + 1 ELSE seen[r]
    BY <1>0, <1>1 DEF PageTypes
  <2>2. /\ r \in quiet => seen[r] = IF r \in matching /\ ~Ahead(r) THEN 1 ELSE 0
        /\ r \notin backwards => seen[r] <= 1 /\ (seen[r] = 1 => ~Ahead(r))
    BY <1>0 DEF PageInv, GotOnce
  <2>3. r \notin backwards' => seen'[r] <= 1 /\ (seen'[r] = 1 => ~Ahead(r)')
    <3>1. CASE r \in F
      BY <3>1, <2>1, <2>2, <1>1, <1>3
    <3>2. CASE r \notin F
      BY <3>2, <2>1, <2>2, <1>1, <1>3
    <3>3. QED
      BY <3>1, <3>2
  <2>4. r \in Rest <=> r \in matching /\ Ahead(r)
    BY DEF Rest, Page!Below, Ahead
  <2>5. r \in quiet' => seen'[r] = IF r \in matching' /\ ~Ahead(r)' THEN 1 ELSE 0
    <3>1. CASE r \in F
      BY <3>1, <2>1, <2>2, <1>1, <1>3
    <3>2. CASE r \notin F
      BY <3>2, <2>1, <2>2, <2>4, <1>1, <1>3
    <3>3. QED
      BY <3>1, <3>2
  <2>6. (pc = "done" /\ r \in quiet') => seen'[r] = IF r \in matching' THEN 1 ELSE 0
    <3>1. pc = "done" => (r \in F <=> r \in matching /\ Ahead(r))
      BY <2>4 DEF F
    <3>2. QED
      BY <3>1, <2>1, <2>2, <1>1, <1>3
  <2>7. reader'.pc # "idle"
    BY <1>2
  <2>8. QED
    BY <1>2, <2>3, <2>5, <2>6, <2>7 DEF GotOnce
<1>8. /\ \A r \in matching' : updated'[r] >= 0
      /\ reader'.pc = "idle" => reader'.cursor = Page!Start
  BY <1>1, <1>2 DEF PageInv
<1>s. TasksStamped'
  BY <1>1 DEF PageInv, TasksStamped
<1>9. QED
  BY <1>6, <1>s, <1>7, <1>8 DEF PageInv

LEMMA PageRead ==
  ASSUME PageInv, Page!ListPage \/ Page!ExportChunk
  PROVE  PageInv'
<1>0. PageTypes /\ Page!Reading /\ PageSize \in Nat \ {0} /\ PageSize + 1 \in Nat
  BY PagesAssumption DEF PageInv, Page!Reading, Page!ListPage, Page!ExportChunk
<1>1. CASE Page!ListPage
  <2> DEFINE got == Page!Fetch(PageSize + 1)
  <2>1. CASE Page!Cardinality(got) > PageSize
    BY <1>0, <1>1, <2>1, PageKept DEF Page!ListPage
  <2>2. CASE ~(Page!Cardinality(got) > PageSize)
    <3>1. Page!Kept(got, "done")
      BY <1>1, <2>2 DEF Page!ListPage
    <3>2. Cardinality(got) < PageSize + 1
      <4>1. IsFiniteSet(got)
        BY <1>0, PageFetched
      <4>2. Cardinality(got) \in Nat
        BY <4>1, FS_CardinalityType
      <4>3. ~(Cardinality(got) > PageSize)
        BY <2>2, PageCardinality
      <4> HIDE DEF got
      <4>4. QED
        BY <1>0, <4>2, <4>3
    <3>3. got = Rest
      BY <1>0, <3>2, PageFetched
    <3>4. QED
      BY <1>0, <3>1, <3>3, PageKept
  <2>3. QED
    BY <2>1, <2>2
<1>2. CASE Page!ExportChunk
  <2> DEFINE chunk == Page!Fetch(PageSize)
             pc == IF Cardinality(chunk) = PageSize THEN "export" ELSE "done"
  <2>1. Page!Kept(chunk, pc)
    BY <1>2, PageCardinality DEF Page!ExportChunk
  <2>2. pc = "done" => chunk = Rest
    <3>1. SUFFICES ASSUME Cardinality(chunk) # PageSize PROVE chunk = Rest
      OBVIOUS
    <3>2. Cardinality(chunk) <= PageSize
      BY <1>0, PageFull
    <3>3. IsFiniteSet(chunk)
      BY <1>0, PageFetched
    <3>4. Cardinality(chunk) \in Nat
      BY <3>3, FS_CardinalityType
    <3>5. Cardinality(chunk) < PageSize
      <4> HIDE DEF chunk
      <4> QED
        BY <1>0, <3>1, <3>2, <3>4
    <3>6. QED
      BY <1>0, <3>5, PageFetched
  <2>3. pc \in {"list", "export", "done"}
    OBVIOUS
  <2> HIDE DEF pc
  <2>4. QED
    BY <1>0, <2>1, <2>2, <2>3, PageKept
<1>3. QED
  BY <1>1, <1>2

LEMMA PageWritten ==
  ASSUME PageInv, reader.pc # "done", NEW w \in writing, NEW chosen \in SUBSET w.rows,
         Page!CommitWrite(w, chosen)
  PROVE  PageInv'
<1>0. PageTypes
  BY DEF PageInv
<1>1. /\ list \in Page!Logs => \A r \in w.rows : updated[r] = Page!Absent
      /\ updated' = [r \in PagedTasks |-> IF r \in w.rows THEN w.at ELSE updated[r]]
      /\ matching' = (matching \ w.rows) \cup (chosen \cap w.rows)
      /\ writing' = writing \ {w}
      /\ quiet' = quiet \ w.rows
      /\ backwards' = backwards \cup {r \in w.rows : w.at < updated[r]}
      /\ UNCHANGED <<list, writes, reader, seen>>
  BY DEF Page!CommitWrite
<1>2. w.rows \subseteq PagedTasks /\ w.at \in 1 .. MaxWrites
  BY <1>0 DEF PageTypes
<1>3. w.at \in Int /\ w.at >= 1 /\ w.at <= MaxWrites /\ MaxWrites \in Nat
  BY <1>2, PagesAssumption
<1>4. w.at \in Page!Absent .. MaxWrites
  BY <1>3 DEF Page!Absent
<1>5. PageTypes'
  <2>1. updated' \in [PagedTasks -> Page!Absent .. MaxWrites]
    BY <1>0, <1>1, <1>4 DEF PageTypes
  <2>2. IsFiniteSet(writing')
    BY <1>0, <1>1, FS_RemoveElement DEF PageTypes
  <2>3. QED
    BY <1>0, <1>1, <1>2, <2>1, <2>2 DEF PageTypes
<1>6. \A r \in matching' : updated'[r] >= 0
  <2>1. TAKE r \in matching'
  <2>2. CASE r \in w.rows
    BY <2>2, <1>1, <1>2, <1>3
  <2>3. CASE r \notin w.rows
    BY <2>3, <1>0, <1>1 DEF PageInv, PageTypes
  <2>4. QED
    BY <2>2, <2>3
<1>7. ASSUME NEW r \in PagedTasks PROVE GotOnce(r)'
  <2>1. CASE r \notin w.rows
    <3>1. updated'[r] = updated[r] /\ (r \in matching' <=> r \in matching)
      BY <1>1, <2>1
    <3>2. Ahead(r)' <=> Ahead(r)
      BY <1>1, <3>1 DEF Ahead
    <3>3. (r \in quiet' <=> r \in quiet) /\ (r \in backwards' <=> r \in backwards)
      BY <1>1, <2>1
    <3>4. GotOnce(r)
      BY DEF PageInv
    <3>5. UNCHANGED <<reader, seen>>
      BY <1>1
    <3>6. QED
      BY <3>1, <3>2, <3>3, <3>4, <3>5 DEF GotOnce
  <2>2. CASE r \in w.rows
    <3>1. updated'[r] = w.at /\ r \notin quiet'
      BY <1>1, <2>2
    <3>2. /\ updated[r] \in Int /\ r \in Int
          /\ reader.cursor.at \in Int /\ reader.cursor.id \in Int
      BY <1>0, CursorTypes
    <3>3. reader.pc = "idle" => Ahead(r)'
      <4>1. reader.pc = "idle" => reader.cursor.at = MaxWrites + 1
        BY DEF PageInv, Page!Start
      <4>2. QED
        BY <4>1, <3>1, <1>1, <1>3 DEF Ahead
    <3>4. r \notin backwards' => r \notin backwards /\ updated[r] <= w.at
      BY <1>1, <1>3, <2>2, <3>2
    <3>5. (r \notin backwards' /\ ~Ahead(r)) => ~Ahead(r)'
      BY <1>1, <1>3, <3>1, <3>2, <3>4 DEF Ahead
    <3>6. GotOnce(r)
      BY DEF PageInv
    <3>7. UNCHANGED <<reader, seen>>
      BY <1>1
    <3>8. QED
      BY <3>1, <3>3, <3>4, <3>5, <3>6, <3>7 DEF GotOnce
  <2>3. QED
    BY <2>1, <2>2
<1>8. reader'.pc = "idle" => reader'.cursor = Page!Start
  BY <1>1 DEF PageInv
<1>s. TasksStamped'
  <2>1. SUFFICES ASSUME list' = "tasks", NEW r \in PagedTasks PROVE updated'[r] >= 0
    BY DEF TasksStamped
  <2>2. updated[r] >= 0
    BY <1>1, <2>1 DEF PageInv, TasksStamped
  <2>3. QED
    BY <1>1, <1>2, <1>3, <2>2
<1>9. QED
  BY <1>5, <1>s, <1>6, <1>7, <1>8 DEF PageInv

LEMMA PageBecomes ==
  ASSUME PageInv, reader.pc # "done", NEW shown,
         shown \subseteq PagedTasks, \A r \in shown : updated[r] >= 0, Page!Become(shown)
  PROVE  PageInv'
<1>0. PageTypes
  BY DEF PageInv
<1>1. /\ matching' = shown /\ quiet' = {r \in quiet : r \in matching <=> r \in shown}
      /\ UNCHANGED <<list, updated, writing, writes, reader, seen, backwards>>
  BY DEF Page!Become
<1>2. PageTypes'
  BY <1>0, <1>1 DEF PageTypes
<1>3. \A r \in matching' : updated'[r] >= 0
  BY <1>1
<1>4. ASSUME NEW r \in PagedTasks PROVE GotOnce(r)'
  <2>1. Ahead(r)' <=> Ahead(r)
    BY <1>1 DEF Ahead
  <2>2. r \in quiet' => (r \in quiet /\ (r \in matching' <=> r \in matching))
    BY <1>1
  <2>3. GotOnce(r) /\ UNCHANGED <<reader, seen, backwards>>
    BY <1>1 DEF PageInv
  <2>4. QED
    BY <2>1, <2>2, <2>3 DEF GotOnce
<1>5. reader'.pc = "idle" => reader'.cursor = Page!Start
  BY <1>1 DEF PageInv
<1>s. TasksStamped'
  BY <1>1 DEF PageInv, TasksStamped
<1>6. QED
  BY <1>2, <1>s, <1>3, <1>4, <1>5 DEF PageInv

LEMMA PageStarted ==
  ASSUME PageInv, NEW pc \in {"list", "export"}, Page!BeginReading(pc)
  PROVE  PageInv'
<1>0. PageTypes /\ reader.pc = "idle"
  BY DEF PageInv, Page!BeginReading
<1>1. /\ reader' = [reader EXCEPT !.pc = pc]
      /\ quiet' = PagedTasks /\ backwards' = {}
      /\ UNCHANGED <<list, updated, matching, writing, writes, seen>>
  BY DEF Page!BeginReading
<1>2. reader'.pc = pc /\ reader'.cursor = reader.cursor
  BY <1>0, <1>1 DEF PageTypes
<1>3. PageTypes'
  <2>1. reader' \in [pc : {"idle", "list", "export", "done"},
                     cursor : [at : 0 .. MaxWrites + 1, id : PagedTasks \cup {0}]]
    BY <1>0, <1>1 DEF PageTypes
  <2>2. QED
    BY <1>0, <1>1, <2>1 DEF PageTypes
<1>4. ASSUME NEW r \in PagedTasks PROVE GotOnce(r)'
  <2>1. Ahead(r)' <=> Ahead(r)
    BY <1>1, <1>2 DEF Ahead
  <2>2. seen[r] = 0 /\ Ahead(r)
    BY <1>0 DEF PageInv, GotOnce
  <2>3. QED
    BY <1>1, <1>2, <2>1, <2>2 DEF GotOnce
<1>5. \A r \in matching' : updated'[r] >= 0
  BY <1>1 DEF PageInv
<1>s. TasksStamped'
  BY <1>1 DEF PageInv, TasksStamped
<1>6. QED
  BY <1>2, <1>s, <1>3, <1>4, <1>5 DEF PageInv

LEMMA PageStamped ==
  ASSUME PageInv, NEW rs \in SUBSET PagedTasks, Page!TakeTimestamp(rs)
  PROVE  PageInv'
<1>0. PageTypes
  BY DEF PageInv
<1>1. /\ writes < MaxWrites /\ writes' = writes + 1
      /\ writing' = writing \cup {[rows |-> rs, at |-> writes + 1]}
      /\ UNCHANGED <<list, updated, matching, reader, seen, quiet, backwards>>
  BY DEF Page!TakeTimestamp
<1>2. writes \in 0 .. MaxWrites
  BY <1>0 DEF PageTypes
<1>3. writes + 1 \in 1 .. MaxWrites /\ writes' \in 0 .. MaxWrites
  BY <1>1, <1>2, PagesAssumption
<1>4. PageTypes'
  <2>1. IsFiniteSet(writing')
    BY <1>0, <1>1, FS_AddElement DEF PageTypes
  <2>2. writing' \subseteq [rows : SUBSET PagedTasks, at : 1 .. MaxWrites]
    BY <1>0, <1>1, <1>3 DEF PageTypes
  <2>3. QED
    BY <1>0, <1>1, <1>3, <2>1, <2>2 DEF PageTypes
<1>5. ASSUME NEW r \in PagedTasks PROVE GotOnce(r)'
  <2>1. Ahead(r)' <=> Ahead(r)
    BY <1>1 DEF Ahead
  <2>2. GotOnce(r)
    BY DEF PageInv
  <2>3. QED
    BY <1>1, <2>1, <2>2 DEF GotOnce
<1>s. TasksStamped'
  BY <1>1 DEF PageInv, TasksStamped
<1>6. QED
  BY <1>1, <1>s, <1>4, <1>5 DEF PageInv

LEMMA PageUnchanged ==
  ASSUME PageInv, UNCHANGED Page!vars
  PROVE  PageInv'
<1>1. UNCHANGED <<list, updated, matching, writing, writes, reader, seen, quiet, backwards>>
  BY DEF Page!vars
<1>2. PageTypes'
  BY <1>1 DEF PageInv, PageTypes
<1>3. \A r \in PagedTasks : GotOnce(r)'
  <2>1. TAKE r \in PagedTasks
  <2>2. Ahead(r)' <=> Ahead(r)
    BY <1>1 DEF Ahead
  <2>3. QED
    BY <1>1, <2>2 DEF GotOnce, PageInv
<1>s. TasksStamped'
  BY <1>1 DEF PageInv, TasksStamped
<1>4. QED
  BY <1>1, <1>s, <1>2, <1>3 DEF PageInv

LEMMA PageInit == Page!Init => PageInv
<1> SUFFICES ASSUME Page!Init PROVE PageInv
  OBVIOUS
<1>1. /\ list \in Page!Lists /\ matching \subseteq PagedTasks
      /\ updated = [r \in PagedTasks |-> IF r \in matching \/ list = "tasks" THEN 0
                                                                     ELSE Page!Absent]
      /\ writing = {} /\ writes = 0
      /\ reader = [pc |-> "idle", cursor |-> Page!Start]
      /\ seen = [r \in PagedTasks |-> 0]
      /\ quiet = PagedTasks /\ backwards = {}
  BY DEF Page!Init
<1>2. MaxWrites \in Nat /\ 0 \in Page!Absent .. MaxWrites /\ Page!Absent \in Page!Absent .. MaxWrites
  BY PagesAssumption DEF Page!Absent
<1>3. Page!Start \in [at : 0 .. MaxWrites + 1, id : PagedTasks \cup {0}]
  BY <1>2 DEF Page!Start
<1>4. PageTypes
  <2>1. updated \in [PagedTasks -> Page!Absent .. MaxWrites]
    BY <1>1, <1>2
  <2>2. reader \in [pc : {"idle", "list", "export", "done"},
                    cursor : [at : 0 .. MaxWrites + 1, id : PagedTasks \cup {0}]]
    BY <1>1, <1>3
  <2>3. writes \in 0 .. MaxWrites
    BY <1>1, <1>2
  <2>4. QED
    BY <1>1, <2>1, <2>2, <2>3, FS_EmptySet DEF PageTypes
<1>5. \A r \in matching : updated[r] >= 0
  BY <1>1
<1>6. ASSUME NEW r \in PagedTasks PROVE GotOnce(r)
  <2>1. updated[r] <= MaxWrites /\ updated[r] \in Int
    BY <1>4, CursorTypes
  <2>2. reader.pc = "idle" /\ reader.cursor.at = MaxWrites + 1 /\ seen[r] = 0
    BY <1>1 DEF Page!Start
  <2>3. Ahead(r)
    BY <1>2, <2>1, <2>2 DEF Ahead
  <2>4. QED
    BY <2>2, <2>3 DEF GotOnce
<1>s. TasksStamped
  BY <1>1 DEF TasksStamped
<1>7. QED
  BY <1>1, <1>4, <1>5, <1>6, <1>s DEF PageInv

\* What rows and readers do, whatever call does it.
LEMMA PageMoves ==
  ASSUME Page!Next
  PROVE  \/ \E rs \in SUBSET PagedTasks : Page!TakeTimestamp(rs)
         \/ \E w \in writing, n \in SUBSET PagedTasks :
              n \subseteq w.rows /\ Page!CommitWrite(w, n)
         \/ \E pc \in {"list", "export"} : Page!BeginReading(pc)
         \/ \E rs : Page!Vanish(rs)
         \/ \E rs \in SUBSET PagedTasks : Page!RestoreProject(rs)
         \/ \E r \in PagedTasks : Page!SetTaskLabels(r)
         \/ Page!ListPage \/ Page!ExportChunk
<1>1. CASE \E rs \in SUBSET matching : Page!ArchiveProject(rs)
  BY <1>1 DEF Page!ArchiveProject
<1>2. CASE \E rs \in SUBSET (PagedTasks \ matching) : Page!RestoreProject(rs)
  BY <1>2
<1>3. CASE \E r \in matching : Page!DeleteComment(r) \/ Page!MarkRead(r)
  BY <1>3 DEF Page!DeleteComment, Page!MarkRead
<1>4. CASE Page!DeleteLabel \/ Page!MarkAllRead
  BY <1>4 DEF Page!DeleteLabel, Page!MarkAllRead
<1>5. CASE \E at \in 1 .. MaxWrites : Page!PurgeNotifications(at) \/ Page!PurgeEvents(at)
  BY <1>5 DEF Page!PurgeNotifications, Page!PurgeEvents
<1>6. CASE \/ Page!ListTasks \/ Page!ListTaskAudit \/ Page!ListTaskComments
           \/ Page!ListNotificationFeed \/ Page!ListAuditEvents \/ Page!ListWebhookDeliveries
  BY <1>6 DEF Page!ListTasks, Page!ListTaskAudit, Page!ListTaskComments,
              Page!ListNotificationFeed, Page!ListAuditEvents, Page!ListWebhookDeliveries
<1>7. CASE \/ \E rs \in SUBSET PagedTasks : Page!TakeTimestamp(rs)
           \/ \E w \in writing, n \in SUBSET PagedTasks :
                n \subseteq w.rows /\ Page!CommitWrite(w, n)
           \/ \E pc \in {"list", "export"} : Page!BeginReading(pc)
           \/ \E r \in PagedTasks : Page!SetTaskLabels(r)
           \/ Page!ExportChunk
  BY <1>7, Zenon
<1>8. QED
  BY <1>1, <1>2, <1>3, <1>4, <1>5, <1>6, <1>7, ZenonT(60) DEF Page!Next

LEMMA PageStep == PageInv /\ [Page!Next]_Page!vars => PageInv'
<1> SUFFICES ASSUME PageInv, [Page!Next]_Page!vars PROVE PageInv'
  OBVIOUS
<1>1. CASE UNCHANGED Page!vars
  BY <1>1, PageUnchanged
<1>2. CASE Page!Next
  <2>0. reader.pc # "done"
    BY <1>2 DEF Page!Next
  <2>1. ASSUME NEW rs \in SUBSET PagedTasks, Page!TakeTimestamp(rs) PROVE PageInv'
    BY <2>1, PageStamped
  <2>2. ASSUME NEW w \in writing, NEW n \in SUBSET PagedTasks,
               n \subseteq w.rows, Page!CommitWrite(w, n)
        PROVE  PageInv'
    BY <2>0, <2>2, PageWritten
  <2>3. ASSUME NEW pc \in {"list", "export"}, Page!BeginReading(pc) PROVE PageInv'
    BY <2>3, PageStarted
  <2>4. ASSUME NEW shown, shown \subseteq PagedTasks, Page!Become(shown),
               list = "tasks" \/ shown \subseteq matching
        PROVE  PageInv'
    <3>1. \A r \in shown : updated[r] >= 0
      BY <2>4 DEF PageInv, TasksStamped
    <3>2. QED
      BY <2>0, <2>4, <3>1, PageBecomes
  <2>6. ASSUME NEW rs, Page!Vanish(rs) PROVE PageInv'
    <3>1. matching \ rs \subseteq PagedTasks /\ matching \ rs \subseteq matching
      BY DEF PageInv, PageTypes
    <3>2. QED
      BY <2>4, <2>6, <3>1 DEF Page!Vanish
  <2>7. ASSUME NEW rs \in SUBSET PagedTasks, Page!RestoreProject(rs) PROVE PageInv'
    <3>1. matching \cup rs \subseteq PagedTasks
      BY DEF PageInv, PageTypes
    <3>2. QED
      BY <2>4, <2>7, <3>1 DEF Page!RestoreProject
  <2>8. ASSUME NEW r \in PagedTasks, Page!SetTaskLabels(r) PROVE PageInv'
    <3>1. matching \cup {r} \subseteq PagedTasks /\ matching \ {r} \subseteq PagedTasks
      BY DEF PageInv, PageTypes
    <3>2. QED
      BY <2>4, <2>8, <3>1 DEF Page!SetTaskLabels
  <2>5. CASE Page!ListPage \/ Page!ExportChunk
    BY <2>5, PageRead
  <2>9. QED
    BY <1>2, <2>1, <2>2, <2>3, <2>5, <2>6, <2>7, <2>8, PageMoves, Zenon
<1>3. QED
  BY <1>1, <1>2

\* Whoever reads a list to its end gets every row that matched all along and was
\* not written meanwhile once, and a row twice only when its update moved it back
\* behind the cursor (apply_task_filters, the lists of the logs, the export);
\* tasks that a project or a label shows or hides meanwhile may be missed.
THEOREM QuietRowsComeOnce == Page!Spec => []PagesComplete
<1>1. PageInv => PagesComplete
  <2> SUFFICES ASSUME PageInv PROVE PagesComplete
    OBVIOUS
  <2>1. reader.pc = "done" =>
          \A r \in quiet : seen[r] = IF r \in matching THEN 1 ELSE 0
    BY DEF PageInv, PageTypes, GotOnce
  <2>2. ASSUME NEW r \in PagedTasks, seen[r] > 1 PROVE r \in backwards
    <3>1. seen[r] \in Nat
      BY DEF PageInv, PageTypes
    <3>2. QED
      BY <2>2, <3>1 DEF PageInv, GotOnce
  <2>3. QED
    BY <2>1, <2>2 DEF PagesComplete, Page!PagesComplete
<1>2. QED
  BY <1>1, PageInit, PageStep, PTL DEF Page!Spec

\* A row comes once, and once more for each change that can still move it.
Owed(r) == {w \in writing : r \in w.rows}

ReadsLeft(r) ==
  Cardinality(Owed(r)) + (MaxWrites - writes) + seen[r] + (IF Ahead(r) THEN 1 ELSE 0)
    <= MaxWrites + 1

PageRoom == \A r \in PagedTasks : ReadsLeft(r)

LEMMA RoomTypes ==
  ASSUME PageTypes, NEW r \in PagedTasks
  PROVE  /\ IsFiniteSet(Owed(r)) /\ Cardinality(Owed(r)) \in Nat
         /\ writes \in Nat /\ writes <= MaxWrites /\ MaxWrites \in Nat /\ seen[r] \in Nat
<1>1. IsFiniteSet(Owed(r))
  BY FS_Subset DEF Owed, PageTypes
<1>2. MaxWrites \in Nat /\ writes \in 0 .. MaxWrites
  BY PagesAssumption DEF PageTypes
<1>3. seen[r] \in Nat
  BY DEF PageTypes
<1>4. QED
  BY <1>1, <1>2, <1>3, FS_CardinalityType

LEMMA RoomWhenRead ==
  ASSUME PageInv, PageRoom, NEW n \in Nat, NEW pc, Page!Kept(Page!Fetch(n), pc)
  PROVE  PageRoom'
<1> DEFINE F == Page!Fetch(n)
<1>1. /\ seen' = [r \in PagedTasks |-> IF r \in F THEN seen[r] + 1 ELSE seen[r]]
      /\ reader'.cursor = IF F = {} THEN reader.cursor ELSE Page!LastOf(F)
      /\ UNCHANGED <<list, updated, matching, writing, writes, quiet, backwards>>
  BY DEF Page!Kept
<1> HIDE DEF F
<1>2. ASSUME NEW r \in PagedTasks PROVE ReadsLeft(r)'
  <2>1. (r \in F => Ahead(r) /\ ~Ahead(r)') /\ (~Ahead(r) => ~Ahead(r)')
    BY <1>1, CursorMoves DEF F
  <2>2. Owed(r)' = Owed(r) /\ writes' = writes
    BY <1>1 DEF Owed
  <2>3. seen'[r] = IF r \in F THEN seen[r] + 1 ELSE seen[r]
    BY <1>1
  <2>4. /\ Cardinality(Owed(r)) \in Nat /\ writes \in Nat /\ MaxWrites \in Nat
        /\ seen[r] \in Nat
    BY RoomTypes DEF PageInv
  <2>5. ReadsLeft(r)
    BY DEF PageRoom
  <2>6. QED
    BY <2>1, <2>2, <2>3, <2>4, <2>5 DEF ReadsLeft
<1>3. QED
  BY <1>2 DEF PageRoom

LEMMA RoomWhenWritten ==
  ASSUME PageInv, PageRoom, NEW w \in writing, NEW chosen, Page!CommitWrite(w, chosen)
  PROVE  PageRoom'
<1>1. /\ updated' = [r \in PagedTasks |-> IF r \in w.rows THEN w.at ELSE updated[r]]
      /\ writing' = writing \ {w}
      /\ UNCHANGED <<list, writes, reader, seen>>
  BY DEF Page!CommitWrite
<1>2. ASSUME NEW r \in PagedTasks PROVE ReadsLeft(r)'
  <2>1. /\ IsFiniteSet(Owed(r)) /\ Cardinality(Owed(r)) \in Nat
        /\ writes \in Nat /\ MaxWrites \in Nat /\ seen[r] \in Nat
    BY RoomTypes DEF PageInv
  <2>2. ReadsLeft(r)
    BY DEF PageRoom
  <2>3. CASE r \in w.rows
    <3>1. Owed(r)' = Owed(r) \ {w} /\ w \in Owed(r)
      BY <1>1, <2>3 DEF Owed
    <3>2. Cardinality(Owed(r)') = Cardinality(Owed(r)) - 1
      BY <2>1, <3>1, FS_RemoveElement
    <3>3. QED
      BY <1>1, <2>1, <2>2, <3>2 DEF ReadsLeft
  <2>4. CASE r \notin w.rows
    <3>1. Owed(r)' = Owed(r)
      BY <1>1, <2>4 DEF Owed
    <3>2. Ahead(r)' <=> Ahead(r)
      BY <1>1, <2>4 DEF Ahead
    <3>3. QED
      BY <1>1, <2>2, <3>1, <3>2 DEF ReadsLeft
  <2>5. QED
    BY <2>3, <2>4
<1>3. QED
  BY <1>2 DEF PageRoom

LEMMA RoomWhenStamped ==
  ASSUME PageInv, PageRoom, NEW rs \in SUBSET PagedTasks, Page!TakeTimestamp(rs)
  PROVE  PageRoom'
<1> DEFINE w == [rows |-> rs, at |-> writes + 1]
<1>1. /\ writes' = writes + 1 /\ writing' = writing \cup {w}
      /\ UNCHANGED <<list, updated, matching, reader, seen, quiet, backwards>>
  BY DEF Page!TakeTimestamp
<1> HIDE DEF w
<1>2. ASSUME NEW r \in PagedTasks PROVE ReadsLeft(r)'
  <2>1. /\ IsFiniteSet(Owed(r)) /\ Cardinality(Owed(r)) \in Nat
        /\ writes \in Nat /\ MaxWrites \in Nat /\ seen[r] \in Nat
    BY RoomTypes DEF PageInv
  <2>2. ReadsLeft(r) /\ (Ahead(r)' <=> Ahead(r))
    BY <1>1 DEF PageRoom, Ahead
  <2>3. Owed(r)' = Owed(r) \/ Owed(r)' = Owed(r) \cup {w}
    BY <1>1 DEF Owed
  <2>4. /\ Cardinality(Owed(r)') \in Nat
        /\ Cardinality(Owed(r)') <= Cardinality(Owed(r)) + 1
    <3>1. CASE Owed(r)' = Owed(r)
      BY <3>1, <2>1
    <3>2. CASE Owed(r)' = Owed(r) \cup {w}
      <4>1. Cardinality(Owed(r) \cup {w}) \in {Cardinality(Owed(r)), Cardinality(Owed(r)) + 1}
        BY <2>1, FS_AddElement
      <4>2. QED
        BY <2>1, <3>2, <4>1
    <3>3. QED
      BY <2>3, <3>1, <3>2
  <2>5. QED
    BY <1>1, <2>1, <2>2, <2>4 DEF ReadsLeft
<1>3. QED
  BY <1>2 DEF PageRoom

LEMMA RoomStep == PageInv /\ PageRoom /\ [Page!Next]_Page!vars => PageRoom'
<1> SUFFICES ASSUME PageInv, PageRoom, [Page!Next]_Page!vars PROVE PageRoom'
  OBVIOUS
<1>0. ASSUME UNCHANGED <<updated, reader.cursor, seen, writing, writes>> PROVE PageRoom'
  <2>1. ASSUME NEW r \in PagedTasks PROVE ReadsLeft(r)'
    <3>1. (Ahead(r)' <=> Ahead(r)) /\ Owed(r)' = Owed(r)
      BY <1>0 DEF Ahead, Owed
    <3>2. ReadsLeft(r)
      BY DEF PageRoom
    <3>3. QED
      BY <1>0, <3>1, <3>2 DEF ReadsLeft
  <2>2. QED
    BY <2>1 DEF PageRoom
<1>1. CASE UNCHANGED Page!vars
  BY <1>0, <1>1 DEF Page!vars
<1>2. CASE Page!Next
  <2>1. ASSUME NEW rs \in SUBSET PagedTasks, Page!TakeTimestamp(rs) PROVE PageRoom'
    BY <2>1, RoomWhenStamped
  <2>2. ASSUME NEW w \in writing, NEW n \in SUBSET PagedTasks,
               n \subseteq w.rows, Page!CommitWrite(w, n)
        PROVE  PageRoom'
    BY <2>2, RoomWhenWritten
  <2>3. ASSUME NEW pc \in {"list", "export"}, Page!BeginReading(pc) PROVE PageRoom'
    <3>1. reader' = [reader EXCEPT !.pc = pc] /\ UNCHANGED <<updated, seen, writing, writes>>
      BY <2>3 DEF Page!BeginReading
    <3>2. reader'.cursor = reader.cursor
      BY <3>1 DEF PageInv, PageTypes
    <3>3. QED
      BY <1>0, <3>1, <3>2
  <2>4. ASSUME NEW shown, Page!Become(shown) PROVE PageRoom'
    BY <1>0, <2>4 DEF Page!Become
  <2>5. PageSize \in Nat /\ PageSize + 1 \in Nat
    BY PagesAssumption
  <2>6. CASE Page!ListPage
    BY <2>5, <2>6, RoomWhenRead DEF Page!ListPage
  <2>7. CASE Page!ExportChunk
    BY <2>5, <2>7, RoomWhenRead DEF Page!ExportChunk
  <2>8. \A rs : Page!Vanish(rs) \/ Page!RestoreProject(rs) => PageRoom'
    BY <2>4 DEF Page!Vanish, Page!RestoreProject
  <2>9. \A r \in PagedTasks : Page!SetTaskLabels(r) => PageRoom'
    BY <2>4 DEF Page!SetTaskLabels
  <2>10. QED
    BY <1>2, <2>1, <2>2, <2>3, <2>6, <2>7, <2>8, <2>9, PageMoves, Zenon
<1>3. QED
  BY <1>1, <1>2

\* The reader and the changes keep their types: in particular a row comes at
\* most once more than it is changed.
THEOREM PagesKeepTypes == Page!Spec => []Page!TypeOK
<1>1. Page!Init => PageRoom
  <2> SUFFICES ASSUME Page!Init, NEW r \in PagedTasks PROVE ReadsLeft(r)
    BY DEF PageRoom
  <2>1. writing = {} /\ writes = 0 /\ seen[r] = 0
    BY DEF Page!Init
  <2>2. Cardinality(Owed(r)) = 0
    BY <2>1, FS_EmptySet DEF Owed
  <2>3. QED
    BY <2>1, <2>2, PagesAssumption DEF ReadsLeft
<1>2. PageInv /\ PageRoom => Page!TypeOK
  <2> SUFFICES ASSUME PageInv, PageRoom PROVE Page!TypeOK
    OBVIOUS
  <2>1. ASSUME NEW r \in PagedTasks PROVE seen[r] \in 0 .. MaxWrites + 1
    <3>1. /\ Cardinality(Owed(r)) \in Nat /\ writes \in Nat /\ writes <= MaxWrites
          /\ MaxWrites \in Nat /\ seen[r] \in Nat
      BY RoomTypes DEF PageInv
    <3>2. QED
      BY <3>1 DEF PageRoom, ReadsLeft
  <2>2. seen \in [PagedTasks -> 0 .. MaxWrites + 1]
    BY <2>1 DEF PageInv, PageTypes
  <2>3. QED
    BY <2>2 DEF PageInv, PageTypes, Page!TypeOK
<1>3. QED
  BY <1>1, <1>2, PageInit, PageStep, RoomStep, PTL DEF Page!Spec

-----------------------------------------------------------------------------
(* RateLimiter.  What was let through and what the bucket holds was earned *)
(* between the start of the count and the bucket's time; a bucket that is  *)
(* not there, full again at its next use, has had the time to fill.        *)

Earnings(instants) == Refill * (rewound + instants - since)

RateLedger ==
  /\ expires = Rate!None =>
       granted * Cost <= Capacity * losses + Earnings(bucketNow)
  /\ (expires # Rate!None /\ time >= since) =>
       granted * Cost + tokens <= Capacity * losses + Capacity + Earnings(time)
  /\ (expires # Rate!None /\ time < since) => granted = 0 /\ rewound = 0

RateInv ==
  /\ Rate!TypeOK
  /\ time <= bucketNow /\ since <= bucketNow
  /\ \A c \in Clients : reading[c] # Rate!None => reading[c] \in since .. bucketNow
  /\ expires # Rate!None => time + Rate!Ttl <= expires
  /\ RateLedger

LEMMA Times ==
  \A x \in Int, y \in Int, z \in Int : /\ x * (y + z) = x * y + x * z
                                       /\ x * (y - z) = x * y - x * z
                                       /\ (y + 1) * x = y * x + x
  OBVIOUS

LEMMA TimesMonotone ==
  \A x \in Nat, y \in Int, z \in Int : y <= z => x * y <= x * z
  OBVIOUS

\* The bucket is kept until it is full.
LEMMA TtlFills == Rate!Ttl \in Nat /\ Capacity <= Refill * Rate!Ttl
<1> DEFINE full == Capacity \div Refill
<1>1. full \in Nat /\ Capacity <= Refill * (full + 1)
  BY BucketAssumption
<1>2. Rate!Ttl \in Nat /\ full + 1 <= Rate!Ttl
  BY <1>1, BucketAssumption DEF Rate!Ttl
<1> HIDE DEF full
<1>3. Refill * (full + 1) <= Refill * Rate!Ttl
  BY <1>1, <1>2, TimesMonotone, BucketAssumption
<1>4. Refill * (full + 1) \in Nat /\ Refill * Rate!Ttl \in Nat
  BY <1>1, <1>2, BucketAssumption
<1>5. QED
  BY <1>1, <1>2, <1>3, <1>4, BucketAssumption

LEMMA EarnedWithin ==
  ASSUME RateInv, NEW t \in Nat
  PROVE  /\ Rate!Earned(t) \in 0 .. Capacity
         /\ expires = Rate!None => Rate!Earned(t) = Capacity
         /\ expires # Rate!None => Rate!Earned(t) <= tokens + Refill * Rate!Excess(t, time)
<1>1. Rate!Excess(t, time) \in Nat
  BY DEF RateInv, Rate!TypeOK, Rate!Excess
<1>2. /\ Rate!Excess(t, time) * Refill \in Nat
      /\ Refill * Rate!Excess(t, time) = Rate!Excess(t, time) * Refill
  BY <1>1, BucketAssumption
<1>3. QED
  BY <1>2, BucketAssumption DEF RateInv, Rate!TypeOK, Rate!Earned, Rate!Least

\* A run of the script, with whatever reading.
LEMMA RateRun ==
  ASSUME RateInv, NEW c \in Clients, Rate!RunScript(c)
  PROVE  RateInv'
<1> DEFINE t == reading[c]
           earned == Rate!Earned(t)
           back == IF expires = Rate!None THEN bucketNow - t ELSE Rate!Excess(time, t)
<1>1. /\ t \in since .. bucketNow /\ t \in 1 .. BucketHorizon
      /\ since \in 1 .. BucketHorizon /\ bucketNow \in 1 .. BucketHorizon
      /\ time \in Nat /\ rewound \in Nat /\ granted \in Nat
      /\ tokens \in 0 .. Capacity /\ losses \in Nat
  BY BucketAssumption DEF RateInv, Rate!TypeOK, Rate!RunScript, Rate!None
<1>2. /\ earned \in 0 .. Capacity
      /\ expires = Rate!None => earned = Capacity
      /\ expires # Rate!None => earned <= tokens + Refill * Rate!Excess(t, time)
  BY <1>1, EarnedWithin
<1>3. back \in Nat
  BY <1>1 DEF Rate!Excess
<1>4. /\ time' = t /\ rewound' = rewound + back /\ expires' = bucketNow + Rate!Ttl
      /\ since' = since /\ losses' = losses /\ bucketNow' = bucketNow
      /\ reading' = [reading EXCEPT ![c] = Rate!None]
      /\ \/ earned >= Cost /\ tokens' = earned - Cost /\ granted' = granted + 1
         \/ tokens' = earned /\ granted' = granted
  BY DEF Rate!RunScript
<1> HIDE DEF t, earned, back
<1>5. /\ granted' \in Nat /\ tokens' \in 0 .. Capacity
      /\ granted' * Cost + tokens' = granted * Cost + earned
      /\ granted * Cost \in Nat
  <2>1. (granted + 1) * Cost = granted * Cost + Cost /\ granted * Cost \in Nat
    BY <1>1, Times, BucketAssumption
  <2>2. earned \in Nat /\ Cost \in Nat /\ Capacity \in Nat
    BY <1>2, BucketAssumption
  <2>3. CASE earned >= Cost /\ tokens' = earned - Cost /\ granted' = granted + 1
    BY <2>1, <2>2, <2>3, <1>1, <1>2
  <2>4. CASE tokens' = earned /\ granted' = granted
    BY <2>1, <2>2, <2>4, <1>1, <1>2
  <2>5. QED
    BY <2>3, <2>4, <1>4
<1> USE DEF back
<1>6. granted * Cost + earned
        <= Capacity * losses + Capacity + Refill * (rewound + back + t - since)
  <2>1. Capacity * losses \in Nat
    BY <1>1, BucketAssumption
  <2>2. CASE expires = Rate!None
    <3>1. rewound + back + t - since = rewound + bucketNow - since
      BY <2>2, <1>1
    <3>2. granted * Cost <= Capacity * losses + Refill * (rewound + bucketNow - since)
      BY <2>2 DEF RateInv, RateLedger, Earnings
    <3>3. Refill * (rewound + bucketNow - since) \in Int
      BY <1>1, BucketAssumption
    <3>4. QED
      BY <2>1, <2>2, <3>1, <3>2, <3>3, <1>2, <1>5, BucketAssumption
  <2>3. CASE expires # Rate!None /\ time >= since
    <3>1. rewound + back + t - since = (rewound + time - since) + Rate!Excess(t, time)
      BY <2>3, <1>1 DEF Rate!Excess
    <3>2. /\ Rate!Excess(t, time) \in Nat
          /\ rewound + time - since \in Int
      BY <1>1 DEF Rate!Excess
    <3>3. Refill * (rewound + back + t - since)
            = Refill * (rewound + time - since) + Refill * Rate!Excess(t, time)
      BY <3>1, <3>2, Times, BucketAssumption
    <3>4. granted * Cost + tokens
            <= Capacity * losses + Capacity + Refill * (rewound + time - since)
      BY <2>3 DEF RateInv, RateLedger, Earnings
    <3>5. /\ Refill * (rewound + time - since) \in Int
          /\ Refill * Rate!Excess(t, time) \in Int
      BY <3>2, BucketAssumption
    <3>6. QED
      BY <2>1, <2>3, <3>3, <3>4, <3>5, <1>1, <1>2, <1>5, BucketAssumption
  <2>4. CASE expires # Rate!None /\ time < since
    <3>1. granted * Cost = 0
      BY <2>4, BucketAssumption DEF RateInv, RateLedger
    <3>2. rewound + back + t - since \in Nat
      BY <1>1, <1>3
    <3>3. Refill * (rewound + back + t - since) \in Nat
      BY <3>2, BucketAssumption
    <3>4. QED
      BY <2>1, <3>1, <3>3, <1>2, BucketAssumption
  <2>5. QED
    BY <2>2, <2>3, <2>4, <1>1
<1> HIDE DEF back
<1>7. RateLedger'
  <2>1. expires' # Rate!None /\ time' >= since'
    BY <1>1, <1>4, TtlFills DEF Rate!None
  <2>2. Earnings(time)' = Refill * (rewound + back + t - since)
    BY <1>4 DEF Earnings
  <2>3. granted' * Cost + tokens' <= Capacity * losses' + Capacity + Earnings(time)'
    BY <2>2, <1>4, <1>5, <1>6
  <2>4. QED
    BY <1>1, <1>4, <2>1, <2>3 DEF RateLedger
<1>8. Rate!TypeOK'
  BY <1>1, <1>3, <1>4, <1>5, TtlFills DEF RateInv, Rate!TypeOK, Rate!None
<1>9. \A d \in Clients : reading'[d] # Rate!None => reading'[d] \in since .. bucketNow
  BY <1>4 DEF RateInv, Rate!TypeOK
<1>10. QED
  BY <1>1, <1>4, <1>7, <1>8, <1>9, TtlFills DEF RateInv

LEMMA RateTick ==
  ASSUME RateInv, Rate!Tick
  PROVE  RateInv'
<1>1. /\ since \in 1 .. BucketHorizon /\ bucketNow \in 1 .. BucketHorizon
      /\ time \in Nat /\ rewound \in Nat /\ granted \in Nat /\ expires \in Nat
      /\ tokens \in Nat /\ losses \in Nat
      /\ time <= bucketNow /\ since <= bucketNow
  BY BucketAssumption DEF RateInv, Rate!TypeOK
<1>2. /\ bucketNow' = bucketNow + 1 /\ bucketNow' \in 1 .. BucketHorizon
      /\ expires' = IF expires <= bucketNow + 1 THEN Rate!None ELSE expires
      /\ UNCHANGED <<tokens, time, reading, granted, since, rewound, losses>>
  BY <1>1, BucketAssumption DEF Rate!Tick
<1>3. RateLedger'
  <2>1. /\ granted * Cost \in Nat /\ Capacity * losses \in Nat
    BY <1>1, BucketAssumption
  <2>2. CASE expires = Rate!None
    <3>1. Refill * (rewound + bucketNow - since) <= Refill * (rewound + bucketNow + 1 - since)
      BY <1>1, TimesMonotone, BucketAssumption
    <3>2. expires' = Rate!None
      BY <2>2, <1>1, <1>2 DEF Rate!None
    <3>3. /\ Refill * (rewound + bucketNow - since) \in Int
          /\ Refill * (rewound + bucketNow + 1 - since) \in Int
      BY <1>1, BucketAssumption
    <3>4. granted * Cost <= Capacity * losses + Refill * (rewound + bucketNow - since)
      BY <2>2 DEF RateInv, RateLedger, Earnings
    <3>5. granted * Cost <= Capacity * losses + Refill * (rewound + bucketNow + 1 - since)
      BY <3>1, <3>3, <3>4, <2>1
    <3>6. Earnings(bucketNow)' = Refill * (rewound + bucketNow + 1 - since)
      BY <1>1, <1>2 DEF Earnings
    <3>7. QED
      BY <3>2, <3>5, <3>6, <1>2 DEF RateLedger
  <2>3. CASE expires # Rate!None /\ expires > bucketNow + 1
    BY <2>3, <1>1, <1>2 DEF RateInv, RateLedger, Earnings, Rate!None
  <2>4. CASE expires # Rate!None /\ expires <= bucketNow + 1 /\ time >= since
    <3>1. Rate!Ttl <= bucketNow + 1 - time
      BY <2>4, <1>1, TtlFills DEF RateInv
    <3>2. Refill * Rate!Ttl <= Refill * (bucketNow + 1 - time)
      BY <3>1, <1>1, TtlFills, TimesMonotone, BucketAssumption
    <3>3. (rewound + time - since) + (bucketNow + 1 - time) = rewound + bucketNow + 1 - since
      BY <1>1
    <3>4. Refill * (rewound + bucketNow + 1 - since)
            = Refill * (rewound + time - since) + Refill * (bucketNow + 1 - time)
      BY <3>3, <1>1, Times, BucketAssumption
    <3>5. /\ Refill * (rewound + time - since) \in Int
          /\ Refill * (bucketNow + 1 - time) \in Int
          /\ Refill * Rate!Ttl \in Int
      BY <1>1, TtlFills, BucketAssumption
    <3>6. granted * Cost + tokens
            <= Capacity * losses + Capacity + Refill * (rewound + time - since)
      BY <2>4 DEF RateInv, RateLedger, Earnings
    <3>7. granted * Cost <= Capacity * losses + Refill * (rewound + bucketNow + 1 - since)
      BY <3>2, <3>4, <3>5, <3>6, <2>1, <1>1, TtlFills, BucketAssumption
    <3>8. Earnings(bucketNow)' = Refill * (rewound + bucketNow + 1 - since)
      BY <1>1, <1>2 DEF Earnings
    <3>9. QED
      BY <3>7, <3>8, <2>4, <1>2 DEF RateLedger
  <2>5. CASE expires # Rate!None /\ expires <= bucketNow + 1 /\ time < since
    <3>1. granted * Cost = 0
      BY <2>5, BucketAssumption DEF RateInv, RateLedger
    <3>2. Refill * (rewound + bucketNow + 1 - since) \in Nat
      BY <1>1, BucketAssumption
    <3>3. Earnings(bucketNow)' = Refill * (rewound + bucketNow + 1 - since)
      BY <1>1, <1>2 DEF Earnings
    <3>4. QED
      BY <3>1, <3>2, <3>3, <2>1, <2>5, <1>2 DEF RateLedger
  <2>6. QED
    BY <2>2, <2>3, <2>4, <2>5, <1>1
<1>4. QED
  BY <1>1, <1>2, <1>3 DEF RateInv, Rate!TypeOK, Rate!None

LEMMA RateLost ==
  ASSUME RateInv, Rate!LoseBucket
  PROVE  RateInv'
<1>1. /\ since \in 1 .. BucketHorizon /\ bucketNow \in 1 .. BucketHorizon
      /\ time \in Nat /\ rewound \in Nat /\ granted \in Nat /\ expires \in Nat
      /\ tokens \in Nat /\ losses \in Nat
      /\ time <= bucketNow /\ since <= bucketNow
  BY BucketAssumption DEF RateInv, Rate!TypeOK
<1>2. /\ expires # Rate!None /\ expires' = Rate!None /\ losses' = losses + 1
      /\ losses < MaxLosses
      /\ UNCHANGED <<tokens, time, bucketNow, reading, granted, since, rewound>>
  BY DEF Rate!LoseBucket
<1>3. RateLedger'
  <2>1. /\ granted * Cost \in Nat /\ Capacity * losses \in Nat
        /\ Capacity * (losses + 1) = Capacity * losses + Capacity
        /\ Refill * (rewound + bucketNow - since) \in Nat
    BY <1>1, Times, BucketAssumption
  <2>2. granted * Cost
          <= Capacity * losses + Capacity + Refill * (rewound + bucketNow - since)
    <3>1. CASE time >= since
      <4>1. Refill * (rewound + time - since) <= Refill * (rewound + bucketNow - since)
        BY <1>1, TimesMonotone, BucketAssumption
      <4>2. granted * Cost + tokens
              <= Capacity * losses + Capacity + Refill * (rewound + time - since)
        BY <3>1, <1>2 DEF RateInv, RateLedger, Earnings
      <4>3. Refill * (rewound + time - since) \in Int
        BY <1>1, BucketAssumption
      <4>4. QED
        BY <4>1, <4>2, <4>3, <2>1, <1>1, BucketAssumption
    <3>2. CASE time < since
      <4>1. granted * Cost = 0
        BY <3>2, <1>2, BucketAssumption DEF RateInv, RateLedger
      <4>2. QED
        BY <4>1, <2>1, BucketAssumption
    <3>3. QED
      BY <3>1, <3>2, <1>1
  <2>3. QED
    BY <2>1, <2>2, <1>2 DEF RateLedger, Earnings
<1>4. QED
  BY <1>1, <1>2, <1>3, BucketAssumption DEF RateInv, Rate!TypeOK, Rate!None

LEMMA RateWatch ==
  ASSUME RateInv, Rate!Watch
  PROVE  RateInv'
<1>1. /\ since \in 1 .. BucketHorizon /\ bucketNow \in 1 .. BucketHorizon
      /\ time \in Nat /\ time <= bucketNow /\ tokens \in 0 .. Capacity /\ losses \in Nat
  BY BucketAssumption DEF RateInv, Rate!TypeOK
<1>2. /\ \A c \in Clients : reading[c] \in {Rate!None, bucketNow}
      /\ since' = bucketNow /\ granted' = 0 /\ rewound' = 0
      /\ UNCHANGED <<tokens, time, expires, bucketNow, reading, losses>>
  BY DEF Rate!Watch
<1>3. RateLedger'
  <2>1. Capacity * losses \in Nat /\ 0 * Cost = 0
    BY <1>1, BucketAssumption
  <2>2. Refill * (0 + bucketNow - bucketNow) = 0
    BY <1>1, BucketAssumption
  <2>3. time >= bucketNow => time = bucketNow
    BY <1>1
  <2>4. QED
    BY <1>1, <1>2, <2>1, <2>2, <2>3, BucketAssumption DEF RateLedger, Earnings
<1>4. QED
  BY <1>1, <1>2, <1>3 DEF RateInv, Rate!TypeOK, Rate!None

LEMMA RateInvariant == Rate!Spec => []RateInv
<1>1. Rate!Init => RateInv
  <2>1. 0 * Cost = 0 /\ Capacity * 0 = 0 /\ Refill * (0 + 1 - 1) = 0
    BY BucketAssumption
  <2>2. QED
    BY <2>1, BucketAssumption
    DEF Rate!Init, RateInv, Rate!TypeOK, Rate!None, RateLedger, Earnings
<1>2. RateInv /\ [Rate!Next]_Rate!vars => RateInv'
  <2> SUFFICES ASSUME RateInv, [Rate!Next]_Rate!vars PROVE RateInv'
    OBVIOUS
  <2>1. ASSUME NEW c \in Clients, Rate!ReadClock(c) PROVE RateInv'
    BY <2>1 DEF Rate!ReadClock, RateInv, Rate!TypeOK, Rate!None, RateLedger, Earnings
  <2>2. CASE UNCHANGED Rate!vars
    BY <2>2 DEF Rate!vars, RateInv, Rate!TypeOK, RateLedger, Earnings
  <2>3. QED
    BY <2>1, <2>2, RateRun, RateTick, RateLost, RateWatch DEF Rate!Next
<1>3. QED
  BY <1>1, <1>2, PTL DEF Rate!Spec

\* In any stretch of time the bucket lets through what it holds when full and
\* what the time earns; a bucket that Redis loses fills once more, and what a
\* late reading puts back is earned twice (the token bucket of cache.rs).
THEOREM BucketKeepsRate == Rate!Spec => []RateHolds
<1>1. RateInv => RateHolds
  <2> SUFFICES ASSUME RateInv PROVE Rate!RateHolds
    BY DEF RateHolds
  <2>1. /\ since \in 1 .. BucketHorizon /\ bucketNow \in 1 .. BucketHorizon
        /\ time \in Nat /\ rewound \in Nat /\ granted \in Nat
        /\ tokens \in Nat /\ losses \in Nat
        /\ time <= bucketNow /\ since <= bucketNow
    BY BucketAssumption DEF RateInv, Rate!TypeOK
  <2>2. /\ Capacity * (1 + losses) = Capacity * losses + Capacity
        /\ Capacity * losses \in Nat /\ granted * Cost \in Nat
        /\ bucketNow - since + rewound = rewound + bucketNow - since
        /\ Refill * (rewound + bucketNow - since) \in Nat
        /\ Refill * (rewound + time - since) <= Refill * (rewound + bucketNow - since)
        /\ Refill * (rewound + time - since) \in Int
    BY <2>1, Times, TimesMonotone, BucketAssumption
  <2>3. granted * Cost
          <= Capacity * losses + Capacity + Refill * (rewound + bucketNow - since)
    <3>1. CASE expires = Rate!None
      BY <3>1, <2>1, <2>2, BucketAssumption DEF RateInv, RateLedger, Earnings
    <3>2. CASE expires # Rate!None /\ time >= since
      <4>1. granted * Cost + tokens
              <= Capacity * losses + Capacity + Refill * (rewound + time - since)
        BY <3>2 DEF RateInv, RateLedger, Earnings
      <4>2. QED
        BY <4>1, <2>1, <2>2, BucketAssumption
    <3>3. CASE expires # Rate!None /\ time < since
      <4>1. granted * Cost = 0
        BY <3>3, BucketAssumption DEF RateInv, RateLedger
      <4>2. QED
        BY <4>1, <2>2, BucketAssumption
    <3>4. QED
      BY <3>1, <3>2, <3>3, <2>1
  <2>4. QED
    BY <2>2, <2>3 DEF Rate!RateHolds
<1>2. QED
  BY <1>1, RateInvariant, PTL

-----------------------------------------------------------------------------
(* The parts together.                                                     *)

LEMMA PartsRun ==
  PartsSpec => /\ Spec /\ Task!Spec /\ Label!Spec
               /\ Item!Spec /\ Page!Spec /\ Rate!Spec
<1>1. PartsInit => Init /\ Task!Init /\ Label!Init /\ Item!Init /\ Page!Init /\ Rate!Init
  BY DEF PartsInit
<1>2. [PartsNext]_allVars =>
        /\ [Next]_vars /\ [Task!Next]_Task!vars /\ [Label!Next]_Label!vars
        /\ [Item!Next]_Item!vars /\ [Page!Next]_Page!vars /\ [Rate!Next]_Rate!vars
  <2> USE DEF vars, Task!vars, Label!vars, Item!vars, Page!vars, Rate!vars,
              taskVars, labelVars, threadVars, pageVars, bucketVars
  <2>1. CASE part = "sweeps" /\ Next
             /\ UNCHANGED <<taskVars, labelVars, threadVars, pageVars, bucketVars, part>>
    BY <2>1
  <2>2. CASE part = "tasks" /\ Task!Next
             /\ UNCHANGED <<vars, labelVars, threadVars, pageVars, bucketVars, part>>
    BY <2>2
  <2>3. CASE part = "labels" /\ Label!Next
             /\ UNCHANGED <<vars, taskVars, threadVars, pageVars, bucketVars, part>>
    BY <2>3
  <2>4. CASE part = "threads" /\ Item!Next
             /\ UNCHANGED <<vars, taskVars, labelVars, pageVars, bucketVars, part>>
    BY <2>4
  <2>5. CASE part = "pages" /\ Page!Next
             /\ UNCHANGED <<vars, taskVars, labelVars, threadVars, bucketVars, part>>
    BY <2>5
  <2>6. CASE part = "bucket" /\ Rate!Next
             /\ UNCHANGED <<vars, taskVars, labelVars, threadVars, pageVars, part>>
    BY <2>6
  <2>7. CASE UNCHANGED allVars
    BY <2>7 DEF allVars
  <2>8. QED
    BY <2>1, <2>2, <2>3, <2>4, <2>5, <2>6, <2>7 DEF PartsNext
<1>3. QED
  BY <1>1, <1>2, PTL DEF PartsSpec, Spec, Task!Spec, Label!Spec, Item!Spec, Page!Spec, Rate!Spec

\* Whichever part of a workspace moves, the state of every part keeps its types.
THEOREM WorkspaceKeepsTypes == PartsSpec => []PartsTypeOK
<1>1. LabelInv => Label!TypeOK
  BY DEF LabelInv
<1>2. RateInv => Rate!TypeOK
  BY DEF RateInv
<1>3. PartsTypeOK <=>
        /\ TypeOK /\ Task!TypeOK /\ Label!TypeOK
        /\ Item!TypeOK /\ Page!TypeOK /\ Rate!TypeOK
  BY DEF PartsTypeOK
<1>4. QED
  BY <1>1, <1>2, <1>3, PartsRun, TypeCorrect, TasksKeepTypes, LabelInvariant,
     RowsMatchFiles, PagesKeepTypes, RateInvariant, PTL

\* The audit log and the webhook events of a task tell its status, unless calls
\* met on it or one failed half way; of a deleted attachment or comment one
\* entry tells, however many calls delete it.
THEOREM WorkspaceIsTold == PartsSpec => []ToldIsTrue
<1>1. ToldIsTrue <=> Task!ToldIsTrue /\ Item!DeletionIsToldOnce
  BY DEF ToldIsTrue
<1>2. QED
  BY <1>1, PartsRun, StatusIsTold, DeletionsToldOnce, PTL

\* What the parts promise besides holds as they are run: of sweeps, hidden tasks,
\* label sets, attachments, pages and the bucket.
THEOREM WorkspaceHolds ==
  PartsSpec => [](/\ CadenceKept /\ HiddenWithProject /\ LabelsAreOneRequest
                  /\ CapExceededByOverlap /\ FilesMatchRows /\ PagesComplete /\ RateHolds)
  BY PartsRun, SweepsLimited, NobodyFilesUnseen, LabelSetsAreWhole, UploadsExceedCap,
     RowsMatchFiles, QuietRowsComeOnce, BucketKeepsRate, PTL
=============================================================================
