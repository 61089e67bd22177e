----------------------------- MODULE TaskLabels -----------------------------
(***************************************************************************)
(* The labels of a tenant and the label sets of its tasks.                 *)
(*                                                                         *)
(* set_task_labels replaces the set of a task in one transaction: it looks *)
(* whether the labels exist, deletes the rows that are not asked for and   *)
(* inserts those that are.  Each statement sees what is committed when it  *)
(* begins, and nothing but the rows it deletes is locked.                  *)
(***************************************************************************)
EXTENDS Integers, FiniteSets

CONSTANTS Tasks, Labels,  \* ids
          Calls,          \* calls in flight at a time
          MaxRequests     \* bound: label sets asked for

VARIABLES existing,  \* labels
          labels,    \* task_labels
          request,   \* where each call is
          requests,  \* calls so far
          asked,     \* history: the set last committed for a task
          met        \* history: tasks on which two requests overlapped

vars == <<existing, labels, request, requests, asked, met>>

-----------------------------------------------------------------------------
Idle == [pc |-> "idle", tasks |-> {}, labels |-> {}, drop |-> {}]

TypeOK ==
  /\ existing \subseteq Labels
  /\ labels \in [Tasks -> SUBSET existing]
  /\ request \in [Calls -> [pc : {"idle", "drop", "commit"}, tasks : SUBSET Tasks,
                            labels : SUBSET Labels, drop : SUBSET Labels]]
  /\ requests \in 0..MaxRequests
  /\ asked \in [Tasks -> SUBSET Labels]
  /\ met \subseteq Tasks

Init ==
  /\ existing = {}
  /\ labels = [t \in Tasks |-> {}]
  /\ request = [c \in Calls |-> Idle]
  /\ requests = 0
  /\ asked = [t \in Tasks |-> {}]
  /\ met = {}

CreateLabel(l) ==
  /\ l \notin existing
  /\ existing' = existing \cup {l}
  /\ UNCHANGED <<labels, request, requests, asked, met>>

\* Mutant: the rows of task_labels stay.
NotCascaded(l) == labels

\* ON DELETE CASCADE
Cascaded(l) == [t \in Tasks |-> labels[t] \ {l}]

DeleteLabel(l) ==
  /\ l \in existing
  /\ existing' = existing \ {l}
  /\ labels' = Cascaded(l)
  /\ asked' = [t \in Tasks |-> asked[t] \ {l}]
  /\ UNCHANGED <<request, requests, met>>

-----------------------------------------------------------------------------
\* The task exists, and so do the labels.
SetTaskLabels(c, t, ls) ==
  /\ request[c] = Idle /\ requests < MaxRequests
  /\ ls \subseteq existing
  /\ requests' = requests + 1
  /\ request' = [request EXCEPT ![c] = [pc |-> "drop", tasks |-> {t}, labels |-> ls,
                                        drop |-> {}]]
  /\ met' = IF \E d \in Calls : t \in request[d].tasks THEN met \cup {t} ELSE met
  /\ UNCHANGED <<existing, labels, asked>>

\* Rows that the DELETE of another transaction on the task has locked.
Locked(c, t) ==
  UNION {request[d].drop : d \in {e \in Calls \ {c} : t \in request[e].tasks}}

DropLabels(c) ==
  /\ request[c].pc = "drop"
  /\ \A t \in request[c].tasks :
       LET drop == labels[t] \ request[c].labels
       IN  /\ drop \cap Locked(c, t) = {}
           /\ request' = [request EXCEPT ![c].pc = "commit", ![c].drop = drop]
  /\ UNCHANGED <<existing, labels, requests, asked, met>>

\* Mutant: labels are only ever added.
Added(old, c) == old \cup request[c].labels

Replaced(old, c) == (old \ request[c].drop) \cup request[c].labels

\* A label deleted since the look violates the foreign key.
CommitLabels(c) ==
  LET ts == request[c].tasks
      ls == request[c].labels
  IN  /\ request[c].pc = "commit"
      /\ \A t \in ts : ls \cap Locked(c, t) = {}
      /\ IF ls \subseteq existing
         THEN /\ labels' = [t \in Tasks |-> IF t \in ts THEN Replaced(labels[t], c)
                                            ELSE labels[t]]
              /\ asked' = [t \in Tasks |-> IF t \in ts THEN ls ELSE asked[t]]
         ELSE UNCHANGED <<labels, asked>>
      /\ request' = [request EXCEPT ![c] = Idle]
      /\ UNCHANGED <<existing, requests, met>>

\* An error, a deadlock that the database breaks, or a crash.
AbandonRequest(c) ==
  /\ request[c] # Idle
  /\ request' = [request EXCEPT ![c] = Idle]
  /\ UNCHANGED <<existing, labels, requests, asked, met>>

Next ==
  \/ \E l \in Labels : CreateLabel(l) \/ DeleteLabel(l)
  \/ \E c \in Calls :
       \/ \E t \in Tasks, ls \in SUBSET existing : SetTaskLabels(c, t, ls)
       \/ DropLabels(c) \/ CommitLabels(c) \/ AbandonRequest(c)

Spec == Init /\ [][Next]_vars

-----------------------------------------------------------------------------
\* A task has the labels of the last request that was granted, less those
\* deleted since, unless requests for it overlapped: two label sets sent at the
\* same time may end up merged.
LabelsAreOneRequest == \A t \in Tasks : t \notin met => labels[t] = asked[t]
=============================================================================
