------------------------------- MODULE Outbox -------------------------------
(***************************************************************************)
(* The notifications table: an outbox that the notifier of every worker    *)
(* process drains, and the feed of a user.                                 *)
(*                                                                         *)
(* A pass claims a batch, which counts an attempt and puts the rows off by *)
(* 60 seconds, then sends and records one after the other.  Nothing ties   *)
(* the record to the claim: it names the row by its id alone, so a late    *)
(* failure replaces the claim of another by a backoff of a few seconds.  A *)
(* pass ends at the first record that fails.                               *)
(*                                                                         *)
(* Who is told what, and when a reminder gets the same key: Reminders.     *)
(***************************************************************************)
EXTENDS Integers, FiniteSets

CONSTANTS Notices,      \* ids of rows
          Keys,         \* dedupe keys
          Notifiers,    \* notifier loops
          MaxAttempts,  \* max_job_attempts
          BatchSize,    \* NOTIFICATION_BATCH_SIZE
          MaxFaults     \* bound: crashes, lost answers, outlasted claims

VARIABLES notice,    \* rows
          batch,     \* what each notifier has claimed: id -> attempts read
          outcome,   \* the answer it has got and not recorded, if any
          accepted,  \* history: how often the mail server took the mail of a row
          errors     \* history: faults so far

vars == <<notice, batch, outcome, accepted, errors>>

-----------------------------------------------------------------------------
NoKey == "none"
Kinds == {"feed", "mail"}
Terminal == {"sent", "dead_letter"}

\* due: scheduled_at is past.  lease: the notifier whose claim put the row off,
\* which scheduled_at does not tell; nobody after a backoff.
NoNotice == [status |-> "absent", kind |-> "mail", key |-> NoKey, attempts |-> 0,
             due |-> FALSE, lease |-> {}, read |-> FALSE]

TypeOK ==
  /\ \A n \in Notices :
       /\ notice[n].status \in {"absent", "pending"} \cup Terminal
       /\ notice[n].kind \in Kinds /\ notice[n].key \in Keys \cup {NoKey}
       /\ notice[n].attempts \in 0..MaxAttempts + MaxFaults
       /\ notice[n].due => notice[n].status = "pending"
       /\ notice[n].lease \in SUBSET Notifiers
       /\ notice[n].read => notice[n].kind = "feed"
  /\ \A w \in Notifiers : DOMAIN batch[w] \subseteq Notices
  /\ \A w \in Notifiers : \A o \in outcome[w] : o.id \in DOMAIN batch[w] /\ o.ok \in BOOLEAN
  /\ errors \in 0..MaxFaults

Init ==
  /\ notice = [n \in Notices |-> NoNotice]
  /\ batch = [w \in Notifiers |-> <<>>]
  /\ outcome = [w \in Notifiers |-> {}]
  /\ accepted = [n \in Notices |-> 0]
  /\ errors = 0

Fault == errors < MaxFaults /\ errors' = errors + 1

Held(n) == \E w \in Notifiers : n \in DOMAIN batch[w]

-----------------------------------------------------------------------------
\* ON CONFLICT (dedupe_key) DO NOTHING; ids are new.
EnqueueNotification(n, kind, key) ==
  /\ notice[n] = NoNotice /\ ~Held(n)
  /\ key = NoKey \/ \A m \in Notices : notice[m].key # key
  /\ notice' = [notice EXCEPT ![n] = [NoNotice EXCEPT !.status = "pending", !.kind = kind,
                                                      !.key = key, !.due = TRUE]]
  /\ accepted' = [accepted EXCEPT ![n] = 0]
  /\ UNCHANGED <<batch, outcome, errors>>

\* Mutant: a row whose claim has not run out is claimed.
PendingRows == {n \in Notices : notice[n].status = "pending"}

DueRows == {n \in Notices : notice[n].status = "pending" /\ notice[n].due}

\* SKIP LOCKED: no two claims get a row at the same time.
ClaimPendingNotifications(w, ns) ==
  /\ DOMAIN batch[w] = {} /\ ns # {}
  /\ ns \subseteq DueRows
  /\ Cardinality(ns) = BatchSize \/ (ns = DueRows /\ Cardinality(ns) < BatchSize)
  /\ notice' = [n \in Notices |->
                 IF n \in ns THEN [notice[n] EXCEPT !.attempts = @ + 1, !.due = FALSE,
                                                    !.lease = {w}]
                 ELSE notice[n]]
  /\ batch' = [batch EXCEPT ![w] = [n \in ns |-> notice[n].attempts + 1]]
  /\ UNCHANGED <<outcome, accepted, errors>>

\* The answer of the mail server may be lost after it has taken the mail.
Send(w, n) ==
  /\ outcome[w] = {} /\ n \in DOMAIN batch[w]
  /\ \/ /\ outcome' = [outcome EXCEPT ![w] = {[id |-> n, ok |-> TRUE]}]
        /\ accepted' = [accepted EXCEPT ![n] = @ + 1]
        /\ UNCHANGED errors
     \/ /\ outcome' = [outcome EXCEPT ![w] = {[id |-> n, ok |-> FALSE]}]
        /\ UNCHANGED <<accepted, errors>>
     \/ /\ outcome' = [outcome EXCEPT ![w] = {[id |-> n, ok |-> FALSE]}]
        /\ accepted' = [accepted EXCEPT ![n] = @ + 1]
        /\ Fault
  /\ UNCHANGED <<notice, batch>>

StatusAfterFailure(attempts) == IF attempts >= MaxAttempts THEN "dead_letter" ELSE "pending"

\* A row that is gone is updated in vain.
MarkNotificationSent(n) ==
  IF notice[n] = NoNotice THEN notice
  ELSE [notice EXCEPT ![n].status = "sent", ![n].due = FALSE, ![n].lease = {}]

FailNotification(n, attempts) ==
  IF notice[n] = NoNotice THEN notice
  ELSE [notice EXCEPT ![n].status = StatusAfterFailure(attempts), ![n].due = FALSE,
                      ![n].lease = {}]

Record(w) == \E o \in outcome[w] :
  /\ notice' = IF o.ok THEN MarkNotificationSent(o.id)
               ELSE FailNotification(o.id, batch[w][o.id])
  /\ batch' = [batch EXCEPT ![w] = [n \in DOMAIN batch[w] \ {o.id} |-> batch[w][n]]]
  /\ outcome' = [outcome EXCEPT ![w] = {}]
  /\ UNCHANGED <<accepted, errors>>

\* A record that fails ends the pass, and so does a crash: what was claimed is
\* left to the time of the claim.
EndPass(w) ==
  /\ DOMAIN batch[w] # {}
  /\ Fault
  /\ batch' = [batch EXCEPT ![w] = <<>>]
  /\ outcome' = [outcome EXCEPT ![w] = {}]
  /\ UNCHANGED <<notice, accepted>>

\* The row was put off by a claim that is still held.
Leased(n) == \E w \in notice[n].lease : n \in DOMAIN batch[w]

\* A backoff is over, also one that a late failure has put in the place of the
\* claim of another who is still at the row; or the claim of one who is gone.
ScheduleArrives(n) ==
  /\ notice[n].status = "pending" /\ ~notice[n].due /\ ~Leased(n)
  /\ notice' = [notice EXCEPT ![n].due = TRUE, ![n].lease = {}]
  /\ UNCHANGED <<batch, outcome, accepted, errors>>

\* 60 seconds are over and the mail server is still at an earlier mail.
ClaimRunsOut(n) ==
  /\ notice[n].status = "pending" /\ ~notice[n].due /\ Leased(n)
  /\ Fault
  /\ notice' = [notice EXCEPT ![n].due = TRUE, ![n].lease = {}]
  /\ UNCHANGED <<batch, outcome, accepted>>

-----------------------------------------------------------------------------
\* Mutant: the kinds are not looked at.
AnyKind == {n \in Notices : notice[n] # NoNotice}

FeedEntries == {n \in Notices : notice[n] # NoNotice /\ notice[n].kind = "feed"}

MarkRead(n) ==
  /\ n \in FeedEntries
  /\ notice' = [notice EXCEPT ![n].read = TRUE]
  /\ UNCHANGED <<batch, outcome, accepted, errors>>

MarkAllRead ==
  /\ notice' = [n \in Notices |-> IF n \in FeedEntries THEN [notice[n] EXCEPT !.read = TRUE]
                                  ELSE notice[n]]
  /\ UNCHANGED <<batch, outcome, accepted, errors>>

PurgeTerminalNotification(n) ==
  /\ notice[n].status \in Terminal
  /\ notice' = [notice EXCEPT ![n] = NoNotice]
  /\ UNCHANGED <<batch, outcome, accepted, errors>>

Next ==
  \/ \E n \in Notices, kind \in Kinds, key \in Keys \cup {NoKey} :
       EnqueueNotification(n, kind, key)
  \/ \E n \in Notices : \/ ScheduleArrives(n) \/ ClaimRunsOut(n)
                        \/ MarkRead(n) \/ PurgeTerminalNotification(n)
  \/ MarkAllRead
  \/ \E w \in Notifiers : \/ \E ns \in SUBSET Notices : ClaimPendingNotifications(w, ns)
                          \/ \E n \in Notices : Send(w, n)
                          \/ Record(w) \/ EndPass(w)

Spec == Init /\ [][Next]_vars

-----------------------------------------------------------------------------
\* A mail goes out twice, or a row is tried once more than it may, only if an
\* answer or a record was lost, a notifier died, or a claim ran out under a slow
\* batch.  A late fail_notification over a row that another is sending, or has
\* sent, lets it be claimed again and is no fault of its own: what it allows is
\* paid for by the claim that it came too late from.
MailsCostFaults ==
  \A n \in Notices : /\ accepted[n] <= 1 + errors
                     /\ notice[n].attempts <= MaxAttempts + errors
=============================================================================
