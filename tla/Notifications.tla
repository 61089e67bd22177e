---------------------------- MODULE Notifications ----------------------------
(***************************************************************************)
(* The two halves of the notifications: the sweeps that insert reminders,  *)
(* and the outbox that is drained.  A behaviour moves one half and leaves  *)
(* the other where it starts.                                              *)
(***************************************************************************)
EXTENDS Reminders

CONSTANTS Notices, Keys, Notifiers, MaxAttempts, BatchSize, MaxLosses

ASSUME OutboxAssumption == /\ IsFiniteSet(Notifiers)
                           /\ MaxAttempts \in Nat \ {0}
                           /\ MaxLosses \in Nat

VARIABLES notice, batch, outcome, accepted, errors,
          half    \* which of them moves

Mail == INSTANCE Outbox WITH MaxFaults <- MaxLosses

outboxVars == <<notice, batch, outcome, accepted, errors>>

PartsInit == Init /\ Mail!Init /\ half \in {"sweeps", "outbox"}

PartsNext ==
  \/ half = "sweeps" /\ Next /\ UNCHANGED <<outboxVars, half>>
  \/ half = "outbox" /\ Mail!Next /\ UNCHANGED <<vars, half>>

PartsSpec == PartsInit /\ [][PartsNext]_<<vars, outboxVars, half>> /\ Fairness

\* Both halves keep their types.
PartsTypeOK == TypeOK /\ Mail!TypeOK

\* Outbox: repeated mails and attempts beyond the maximum have a fault each.
MailsCostFaults == Mail!MailsCostFaults
=============================================================================
