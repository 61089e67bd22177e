------------------------------ MODULE Webhooks ------------------------------
(***************************************************************************)
(* Tenant webhooks and their outbox: registration under a per-tenant cap,  *)
(* the fan-out of task events into webhook_deliveries rows, and the loops  *)
(* of the worker processes that claim due rows in batches and post them,   *)
(* one after the other, to the endpoints.                                  *)
(*                                                                         *)
(* A claim pushes scheduled_at 60 seconds ahead and leaves the row         *)
(* pending.  A batch holds up to 50 deliveries of up to 10 seconds each,   *)
(* so a dispatcher can outlast the claims at the end of its batch.  It then *)
(* records what it knows by the id of the row alone, over whatever another *)
(* has made of it.                                                         *)
(***************************************************************************)
EXTENDS Integers, FiniteSets

CONSTANTS Hooks,               \* webhook ids, each used for one INSERT
          Events,              \* task events, each emitted at most once
          Dispatchers,         \* dispatch loops, one per worker process
          MaxAttempts,         \* webhook_deliveries.max_attempts
          Cap,                 \* MAX_WEBHOOKS_PER_TENANT
          BatchSize,           \* WEBHOOK_BATCH_SIZE
          MaxRedeliveries,     \* bound on the redeliveries asked for
          MaxStalls,           \* bound on the claims kept past their lease
          MaxLosses           \* bound on crashes, lost writes and lost answers

ASSUME WebhooksAssumption ==
  /\ MaxAttempts \in Nat \ {0}
  /\ Cap \in Nat \ {0}
  /\ BatchSize \in Nat \ {0}
  /\ MaxRedeliveries \in Nat
  /\ MaxStalls \in Nat
  /\ MaxLosses \in Nat

VARIABLES hook,         \* rows of webhooks, of one tenant
          creating,     \* registrations whose transaction is open
          counted,      \* of those, the ones that passed the cap test
          delivery,     \* rows of webhook_deliveries
          emitted,      \* events emitted so far
          dispatcher,   \* where each dispatcher is
          accepted,     \* 2xx answers the endpoint gave since (re)queueing
          redeliveries, \* redeliveries so far
          stalls,       \* leases that ended under a live claim so far
          losses       \* crashes, lost writes and lost answers so far

hookVars == <<hook, creating, counted>>
budgetVars == <<redeliveries, stalls, losses>>
vars == <<hook, creating, counted, delivery, emitted, dispatcher, accepted,
          redeliveries, stalls, losses>>

-----------------------------------------------------------------------------
Deliveries == Hooks \X Events
Registered == {h \in Hooks : hook[h] \in {"active", "disabled"}}

Terminal == {"delivered", "dead_letter"}
\* due: scheduled_at is past.  lease: the dispatcher whose claim put the row
\* off, which scheduled_at does not tell; nobody after a backoff.
Row == [status : {"absent", "pending"} \cup Terminal, attempts : Nat,
        due : BOOLEAN, lease : SUBSET Dispatchers]
NoRow == [status |-> "absent", attempts |-> 0, due |-> FALSE, lease |-> {}]
Fresh == [status |-> "pending", attempts |-> 0, due |-> TRUE, lease |-> {}]

\* The delivery records a claim returned: all a dispatcher knows of the rows.
Claim == [id : Deliveries, attempt : Nat \ {0}]
NoClaim == "no claim"
Idle == [pc |-> "next", claim |-> NoClaim, todo |-> {}]
Between == [pc : {"next"}, claim : {NoClaim}, todo : SUBSET Claim]
Sending == [pc : {"post", "mark", "fail"}, claim : Claim, todo : SUBSET Claim]

Holds(w, d) == \/ \E c \in dispatcher[w].todo : c.id = d
               \/ dispatcher[w].pc # "next" /\ dispatcher[w].claim.id = d

TypeOK ==
  /\ hook \in [Hooks -> {"absent", "active", "disabled", "deleted"}]
  /\ creating \subseteq Hooks
  /\ counted \subseteq creating
  /\ delivery \in [Deliveries -> Row]
  /\ emitted \subseteq Events
  /\ dispatcher \in [Dispatchers -> Between \cup Sending]
  /\ accepted \in [Deliveries -> Nat]
  /\ redeliveries \in 0 .. MaxRedeliveries
  /\ stalls \in 0 .. MaxStalls
  /\ losses \in 0 .. MaxLosses

Init ==
  /\ hook = [h \in Hooks |-> "absent"]
  /\ creating = {}
  /\ counted = {}
  /\ delivery = [d \in Deliveries |-> NoRow]
  /\ emitted = {}
  /\ dispatcher = [w \in Dispatchers |-> Idle]
  /\ accepted = [d \in Deliveries |-> 0]
  /\ redeliveries = 0
  /\ stalls = 0
  /\ losses = 0

-----------------------------------------------------------------------------
(* Registration: one transaction that locks the tenant's row, counts its   *)
(* webhooks and inserts.                                                   *)

\* Mutant: the tenant's row is read without FOR UPDATE.
TenantReadable == TRUE

TenantUnlocked == creating = {}

LockTenant(h) ==
  /\ hook[h] = "absent" /\ h \notin creating
  /\ TenantUnlocked
  /\ creating' = creating \cup {h}
  /\ UNCHANGED <<hook, counted, delivery, emitted, dispatcher, accepted,
                 budgetVars>>

\* The count sees what is committed; at the cap the transaction is dropped.
CountWebhooks(h) ==
  /\ h \in creating \ counted
  /\ IF Cardinality(Registered) >= Cap
       THEN creating' = creating \ {h} /\ UNCHANGED counted
       ELSE counted' = counted \cup {h} /\ UNCHANGED creating
  /\ UNCHANGED <<hook, delivery, emitted, dispatcher, accepted,
                 budgetVars>>

InsertWebhook(h) ==
  /\ h \in counted
  /\ hook' = [hook EXCEPT ![h] = "active"]
  /\ creating' = creating \ {h}
  /\ counted' = counted \ {h}
  /\ UNCHANGED <<delivery, emitted, dispatcher, accepted, budgetVars>>

UpdateWebhook(h) ==
  /\ h \in Registered
  /\ \E s \in {"active", "disabled"} : hook' = [hook EXCEPT ![h] = s]
  /\ UNCHANGED <<creating, counted, delivery, emitted, dispatcher, accepted,
                 budgetVars>>

\* The webhook's deliveries go with it.
DeleteWebhook(h) ==
  /\ h \in Registered
  /\ hook' = [hook EXCEPT ![h] = "deleted"]
  /\ delivery' = [d \in Deliveries |-> IF d[1] = h THEN NoRow ELSE delivery[d]]
  /\ UNCHANGED <<creating, counted, emitted, dispatcher, accepted,
                 budgetVars>>

-----------------------------------------------------------------------------
(* The outbox. *)

\* The mutation of the task is committed by now; an emission that fails is
\* logged and never tried again.
EmitTaskEvent(e) ==
  /\ e \notin emitted
  /\ emitted' = emitted \cup {e}
  /\ delivery' = [d \in Deliveries |->
                    IF d[2] = e /\ hook[d[1]] = "active" THEN Fresh ELSE delivery[d]]
  /\ UNCHANGED <<hookVars, dispatcher, accepted, budgetVars>>

\* Mutant: no row whose attempts are spent is taken.
DueWithBudget == {d \in Deliveries : delivery[d].status = "pending" /\ delivery[d].due
                                     /\ delivery[d].attempts < MaxAttempts}

Due == {d \in Deliveries : delivery[d].status = "pending" /\ delivery[d].due}

\* One UPDATE claims a batch; SKIP LOCKED keeps concurrent claims apart.
ClaimPending(w) ==
  /\ dispatcher[w] = Idle
  /\ \E S \in SUBSET Due :
       /\ S # {}
       /\ S = Due \/ Cardinality(S) = BatchSize
       /\ Cardinality(S) <= BatchSize
       /\ delivery' = [d \in Deliveries |->
                         IF d \in S
                           THEN [delivery[d] EXCEPT !.attempts = @ + 1, !.due = FALSE,
                                                    !.lease = {w}]
                           ELSE delivery[d]]
       /\ dispatcher' = [dispatcher EXCEPT ![w].todo =
                           {[id |-> d, attempt |-> delivery[d].attempts + 1] : d \in S}]
  /\ UNCHANGED <<hookVars, emitted, accepted, budgetVars>>

\* send_delivery loads the webhook: a disabled or deleted one is a failure.
LoadWebhook(w) ==
  /\ dispatcher[w].pc = "next"
  /\ \E c \in dispatcher[w].todo :
       dispatcher' = [dispatcher EXCEPT ![w] =
         [pc |-> IF hook[c.id[1]] = "active" THEN "post" ELSE "fail",
          claim |-> c, todo |-> @.todo \ {c}]]
  /\ UNCHANGED <<hookVars, delivery, emitted, accepted, budgetVars>>

\* Mutant: any answer of the endpoint counts as delivered.
OutcomeOfAnswer(answer) == IF answer = "none" THEN "fail" ELSE "mark"

\* 2xx, another status, or no answer in 10 seconds.
Outcome(answer) == IF answer = "2xx" THEN "mark" ELSE "fail"

Post(w) ==
  LET d == dispatcher[w].claim.id
  IN  /\ dispatcher[w].pc = "post"
      /\ \E answer \in {"2xx", "other", "none"} :
           /\ accepted' = [accepted EXCEPT ![d] = @ + (IF answer = "2xx" THEN 1 ELSE 0)]
           /\ dispatcher' = [dispatcher EXCEPT ![w].pc = Outcome(answer)]
      /\ UNCHANGED <<hookVars, delivery, emitted, budgetVars>>

\* The endpoint takes the request, and its answer is lost or comes too late.
LoseAnswer(w) ==
  LET d == dispatcher[w].claim.id
  IN  /\ dispatcher[w].pc = "post"
      /\ losses < MaxLosses
      /\ losses' = losses + 1
      /\ accepted' = [accepted EXCEPT ![d] = @ + 1]
      /\ dispatcher' = [dispatcher EXCEPT ![w].pc = Outcome("none")]
      /\ UNCHANGED <<hookVars, delivery, emitted, redeliveries, stalls>>

Advance(w) == dispatcher' = [dispatcher EXCEPT ![w] =
                               [pc |-> "next", claim |-> NoClaim, todo |-> @.todo]]

\* Updates by id: they change nothing when the row is gone.
InTable(d) == delivery[d].status # "absent"

MarkDelivered(w) ==
  LET d == dispatcher[w].claim.id
  IN  /\ dispatcher[w].pc = "mark"
      /\ delivery' = IF InTable(d)
                       THEN [delivery EXCEPT ![d] =
                               [@ EXCEPT !.status = "delivered", !.lease = {}]]
                       ELSE delivery
      /\ Advance(w)
      /\ UNCHANGED <<hookVars, emitted, accepted, budgetVars>>

\* Mutant: the budget ends one attempt late.
BudgetOneMore(attempt) == IF attempt > MaxAttempts THEN "dead_letter" ELSE "pending"
\* Mutant: a status of its own for what has failed for good.
FailedStatus(attempt) == IF attempt >= MaxAttempts THEN "failed" ELSE "pending"

AfterFailure(attempt) == IF attempt >= MaxAttempts THEN "dead_letter" ELSE "pending"

FailDelivery(w) ==
  LET d == dispatcher[w].claim.id
      a == dispatcher[w].claim.attempt
  IN  /\ dispatcher[w].pc = "fail"
      /\ delivery' = IF InTable(d)
                       THEN [delivery EXCEPT ![d] =
                               [@ EXCEPT !.status = AfterFailure(a),
                                         !.due = a >= MaxAttempts, !.lease = {}]]
                       ELSE delivery
      /\ Advance(w)
      /\ UNCHANGED <<hookVars, emitted, accepted, budgetVars>>

\* Mutant: redelivery of a delivery that is still pending.
AnyStatus == {"pending"} \cup Terminal

Redeliverable == Terminal

Redeliver(d) ==
  /\ redeliveries < MaxRedeliveries
  /\ hook[d[1]] \in {"active", "disabled"}
  /\ delivery[d].status \in Redeliverable
  /\ delivery' = [delivery EXCEPT ![d] = Fresh]
  /\ accepted' = [accepted EXCEPT ![d] = 0]
  /\ redeliveries' = redeliveries + 1
  /\ UNCHANGED <<hookVars, emitted, dispatcher, stalls, losses>>

-----------------------------------------------------------------------------
(* Time: scheduled_at passes.  After a claim it is the lease, outlasted when *)
(* its holder is still busy with the batch.  After a failure it is the       *)
(* backoff, also that of a late failure over the claim of another.           *)

Leased(d) == \E w \in delivery[d].lease : Holds(w, d)

ScheduleArrives(d) ==
  /\ delivery[d].status = "pending" /\ ~delivery[d].due
  /\ IF Leased(d) THEN stalls < MaxStalls /\ stalls' = stalls + 1
                  ELSE UNCHANGED stalls
  /\ delivery' = [delivery EXCEPT ![d] = [@ EXCEPT !.due = TRUE, !.lease = {}]]
  /\ UNCHANGED <<hookVars, emitted, dispatcher, accepted, redeliveries, losses>>

(* The process dies, or a write fails and ends the dispatcher's pass; the   *)
(* rest of its batch waits for the lease.                                   *)

AbandonBatch(w) ==
  /\ losses < MaxLosses
  /\ losses' = losses + 1
  /\ dispatcher[w] # Idle
  /\ dispatcher' = [dispatcher EXCEPT ![w] = Idle]
  /\ UNCHANGED <<hookVars, delivery, emitted, accepted, redeliveries, stalls>>

DispatcherNext(w) ==
  \/ ClaimPending(w) \/ LoadWebhook(w) \/ Post(w) \/ MarkDelivered(w)
  \/ FailDelivery(w)

Next ==
  \/ \E h \in Hooks : \/ LockTenant(h) \/ CountWebhooks(h) \/ InsertWebhook(h)
                      \/ UpdateWebhook(h) \/ DeleteWebhook(h)
  \/ \E e \in Events : EmitTaskEvent(e)
  \/ \E w \in Dispatchers : DispatcherNext(w) \/ LoseAnswer(w) \/ AbandonBatch(w)
  \/ \E d \in Deliveries : Redeliver(d) \/ ScheduleArrives(d)

Spec == Init /\ [][Next]_vars

\* The dispatch loops keep ticking and time passes; nothing else is owed.
Fairness ==
  /\ \A w \in Dispatchers : WF_vars(DispatcherNext(w))
  /\ \A d \in Deliveries : WF_vars(ScheduleArrives(d))

FairSpec == Spec /\ Fairness

-----------------------------------------------------------------------------
(***************************************************************************)
(* Properties.                                                             *)
(***************************************************************************)

\* Racing registrations do not exceed the cap: create_webhook counts under
\* the lock of the tenant's row.
CapHolds == Cardinality(Registered) <= Cap

\* A delivery marked delivered was accepted by the endpoint since it was last
\* queued or requeued, and one given up has spent the attempts of its round,
\* crashes included.  mark_webhook_delivery_delivered and fail_webhook_delivery
\* do not look at the claim they come from, so the record of an outlasted claim
\* can lie, but only about a later round: it takes a redelivery as well.
StatusIsEarned ==
  \A d \in Deliveries :
    stalls = 0 \/ redeliveries = 0 =>
      /\ delivery[d].status = "delivered" => accepted[d] >= 1
      /\ delivery[d].status = "dead_letter" => delivery[d].attempts >= MaxAttempts

\* The endpoint accepts a delivery again in a round only if a crash or a lost
\* write fell between a request and its record, an answer was lost or late, or a
\* lease ended under a live claim.  A late failure, which makes the row due
\* while another dispatcher is at it, adds nothing that is not paid for.
DuplicatesCostFaults ==
  \A d \in Deliveries : accepted[d] <= 1 + losses + stalls

\* A claim does not look at the attempts spent: an attempt beyond the budget
\* is possible, but each is paid for by a crash, a lost write or an outlasted
\* lease.
AttemptsCostFaults ==
  \A d \in Deliveries : delivery[d].attempts <= MaxAttempts + losses + stalls

\* Every delivery is delivered, dead-lettered or deleted with its webhook in
\* the end, whatever crashed or stalled.
EventuallySettled ==
  \A d \in Deliveries : <>[](delivery[d].status \in Terminal \cup {"absent"})
=============================================================================
