--------------------------- MODULE TenantRequests ---------------------------
(***************************************************************************)
(* The requests of one tenant: those of one task creation with the cache   *)
(* they invalidate, and those of one creation on any route.  A behaviour   *)
(* moves one half and leaves the other where it starts.                    *)
(***************************************************************************)
EXTENDS TaskRequests

CONSTANT Requests  \* of one creation on any route

VARIABLES route, rows, rowKey, request, errors,
          half    \* which of them moves

Route == INSTANCE Creations WITH key <- rowKey, faults <- errors

ASSUME CreationsAssumption ==
  IsFiniteSet(Requests) /\ Route!None \notin Requests /\ Route!Pending \notin Requests

creationVars == <<route, rows, rowKey, request, errors>>

PartsInit == /\ Init /\ Route!Init /\ half \in {"tasks", "routes"}
             /\ half = "tasks" => route = "tasks"

PartsNext ==
  \/ half = "tasks" /\ Next /\ UNCHANGED <<creationVars, half>>
  \/ half = "routes" /\ Route!Next /\ UNCHANGED <<vars, half>>

PartsSpec == PartsInit /\ [][PartsNext]_<<vars, creationVars, half>> /\ Fairness

\* Both halves keep their types.
PartsTypeOK == TypeOK /\ Route!TypeOK

\* Creations: rows beyond the first, rows nobody was told of and keys left
\* pending have a fault each, or a payload that was validated late.
CreationsCostFaults == Route!CreationsCostFaults
=============================================================================
