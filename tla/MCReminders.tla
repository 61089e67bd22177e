----------------------------- MODULE MCReminders ----------------------------
EXTENDS Reminders

CONSTANTS t1, t2, a, b

\* One task is due at once, the other two instants later.
TwoDueDates == t1 :> 0 @@ t2 :> 2
=============================================================================
