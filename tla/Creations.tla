----------------------------- MODULE Creations -----------------------------
(***************************************************************************)
(* The creations that need an Idempotency-Key: eight routes, one protocol, *)
(* eight services that fail at different places.                           *)
(*                                                                         *)
(* A request looks the key up, claims it with SETNX, creates the row and   *)
(* stores the response under the key; an error deletes the key.  The       *)
(* routes differ in when the payload is validated, in what follows the     *)
(* commit and may fail although the row is there, and in what the database *)
(* refuses.                                                                *)
(*                                                                         *)
(* The requests are one creation and its retries.  The row that a request  *)
(* creates is named after the request.  TaskRequests has the claim in its  *)
(* two commands, and the cache that a task creation invalidates.           *)
(***************************************************************************)
EXTENDS Integers, FiniteSets

CONSTANTS Requests,  \* with one Idempotency-Key
          MaxFaults  \* bound on errors, crashes and keys that lapse early

VARIABLES route,    \* the route of these requests
          rows,     \* rows created
          key,      \* what Redis holds under the key
          request,  \* where each request is, and the row it was answered
          faults    \* faults so far

vars == <<route, rows, key, request, faults>>

-----------------------------------------------------------------------------
None == "none"
Pending == "pending"

\* Routes that validate the payload when the key is already claimed.
Late == {"tasks", "exports"}

Routes == Late \cup {"projects", "labels", "comments", "attachments", "webhooks", "invitations"}

\* Past the claim, a request may delete the key or store into it.
Holding == {"create", "follow", "store", "undo"} \cup
           (IF route \in Late THEN {"validate"} ELSE {})

AtWork == {"validate", "lookup", "claim", "second"} \cup Holding
Ended == {"answered", "rejected", "conflict", "failed"}

TypeOK ==
  /\ route \in Routes
  /\ rows \subseteq Requests
  /\ key \in {None, Pending} \cup Requests
  /\ request \in [Requests -> [pc : AtWork \cup Ended, row : {None} \cup Requests]]
  /\ faults \in 0..MaxFaults

Init ==
  /\ route \in Routes
  /\ rows = {}
  /\ key = None
  /\ request = [q \in Requests |->
                  [pc |-> IF route \in Late THEN "lookup" ELSE "validate", row |-> None]]
  /\ faults = 0

Fault == faults < MaxFaults /\ faults' = faults + 1

Go(q, pc) == request' = [request EXCEPT ![q].pc = pc]

-----------------------------------------------------------------------------
(* The protocol. *)

\* A payload that does not validate ends the request, and leaves the key as it
\* is: free, or claimed.
Validate(q) ==
  /\ request[q].pc = "validate"
  /\ \E pc \in {IF route \in Late THEN "create" ELSE "lookup", "rejected"} : Go(q, pc)
  /\ UNCHANGED <<route, rows, key, faults>>

\* replay_idempotent
Replay(q, otherwise) ==
  /\ IF key \in Requests
       THEN request' = [request EXCEPT ![q] = [pc |-> "answered", row |-> key]]
       ELSE Go(q, otherwise)
  /\ UNCHANGED <<route, rows, key, faults>>

Lookup(q) == request[q].pc = "lookup" /\ Replay(q, "claim")

SecondLookup(q) == request[q].pc = "second" /\ Replay(q, "conflict")

\* Mutant: the key is set whether or not it exists.
ClaimFree == TRUE

KeyFree == key = None

Claim(q) ==
  /\ request[q].pc = "claim"
  /\ IF KeyFree
       THEN key' = Pending /\ Go(q, IF route \in Late THEN "validate" ELSE "create")
       ELSE UNCHANGED key /\ Go(q, "second")
  /\ UNCHANGED <<route, rows, faults>>

StoreResponse(q) ==
  /\ request[q].pc = "store"
  /\ key' = q
  /\ request' = [request EXCEPT ![q] = [pc |-> "answered", row |-> q]]
  /\ UNCHANGED <<route, rows, faults>>

\* DEL: of the key, whoever claimed it.
DeleteKey(q) ==
  /\ request[q].pc = "undo"
  /\ key' = None
  /\ Go(q, "failed")
  /\ UNCHANGED <<route, rows, faults>>

-----------------------------------------------------------------------------
(* The services: the row, and what follows it.                             *)

Created(q, next) ==
  /\ request[q].pc = "create"
  /\ rows' = rows \cup {q}
  /\ Go(q, next)
  /\ UNCHANGED <<route, key, faults>>

Refused(q) ==
  /\ request[q].pc = "create"
  /\ Go(q, "undo")
  /\ UNCHANGED <<route, rows, key, faults>>

\* A unique index keeps out whoever comes after the first.
Unique == {"projects", "labels", "invitations"}

MayCreate == route \in Unique => rows = {}

\* Postgres fails, and the row may be there: the commit whose answer is lost.
CreateErrs(q) ==
  /\ Fault
  /\ request[q].pc = "create"
  /\ rows' = rows \/ (MayCreate /\ rows' = rows \cup {q})
  /\ Go(q, "undo")
  /\ UNCHANGED <<route, key>>

\* The bump of the version, or the push on the list of jobs.
FollowUp(q) ==
  /\ request[q].pc = "follow"
  /\ Go(q, "store")
  /\ UNCHANGED <<route, rows, key, faults>>

\* The row is there and the request reports an error.
FollowUpFails(q) ==
  /\ Fault
  /\ request[q].pc = "follow"
  /\ Go(q, "undo")
  /\ UNCHANGED <<route, rows, key>>

-----------------------------------------------------------------------------
(* Time and faults. *)

InProgress == \E q \in Requests : request[q].pc \in Holding

\* Early, while a request is at work or may still want the response, that is a
\* fault.
KeyExpires ==
  /\ key # None
  /\ IF InProgress \/ key \in Requests THEN Fault ELSE UNCHANGED faults
  /\ key' = None
  /\ UNCHANGED <<route, rows, request>>

\* The process dies, or a command to Redis fails, and nothing is undone.
Lose(q) ==
  /\ Fault
  /\ request[q].pc \in AtWork
  /\ Go(q, "failed")
  /\ UNCHANGED <<route, rows, key>>

-----------------------------------------------------------------------------
(* The routes. *)

\* What all have in common.
Protocol(q) ==
  \/ Validate(q) \/ Lookup(q) \/ Claim(q) \/ SecondLookup(q)
  \/ StoreResponse(q) \/ DeleteKey(q) \/ CreateErrs(q) \/ Lose(q)

Creation(q, next) == MayCreate /\ Created(q, next)

Followed(q) == Creation(q, "follow") \/ FollowUp(q) \/ FollowUpFails(q)

\* Refused when the project is gone or the assignee is not a member.
CreateTask(q) ==
  route = "tasks" /\ (Protocol(q) \/ Followed(q) \/ Refused(q))

CreateExport(q) ==
  route = "exports" /\ (Protocol(q) \/ Followed(q))

\* Refused when the name is taken, by an earlier request or somebody else.
CreateProject(q) ==
  route = "projects" /\ (Protocol(q) \/ Followed(q) \/ Refused(q))

CreateLabel(q) ==
  route = "labels" /\ (Protocol(q) \/ Creation(q, "store") \/ Refused(q))

\* Refused when the address is invited or a member.  That the mail or the audit
\* event is not written is only logged.
CreateInvitation(q) ==
  route = "invitations" /\ (Protocol(q) \/ Creation(q, "store") \/ Refused(q))

\* Refused when the task is gone.
CreateTaskComment(q) ==
  route = "comments" /\ (Protocol(q) \/ Creation(q, "store") \/ Refused(q))

\* Refused when the task is gone or has as many attachments as it may.
UploadTaskAttachment(q) ==
  route = "attachments" /\ (Protocol(q) \/ Creation(q, "store") \/ Refused(q))

\* Refused when the url or an event is invalid, which is found past the claim,
\* or the tenant has as many webhooks as it may.
CreateWebhook(q) ==
  route = "webhooks" /\ (Protocol(q) \/ Creation(q, "store") \/ Refused(q))

Next ==
  \/ \E q \in Requests :
       \/ CreateTask(q) \/ CreateExport(q) \/ CreateProject(q) \/ CreateLabel(q)
       \/ CreateInvitation(q) \/ CreateTaskComment(q) \/ UploadTaskAttachment(q)
       \/ CreateWebhook(q)
  \/ KeyExpires

Spec == Init /\ [][Next]_vars

-----------------------------------------------------------------------------
\* Rows that some request was answered with.
Told == {request[q].row : q \in Requests} \ {None}

\* What went wrong is counted: a row beyond the first costs a fault, and so
\* does a row that no request was told of when all have ended; and a key that
\* nobody is at work on stays pending after a fault, or on a route that
\* validates late.
CreationsCostFaults ==
  /\ Cardinality(rows) <= 1 + faults
  /\ (\A q \in Requests : request[q].pc \in Ended) => Cardinality(rows \ Told) <= faults
  /\ (key = Pending /\ ~InProgress /\ faults = 0) =>
        \E q \in Requests : route \in Late /\ request[q].pc = "rejected"
=============================================================================
