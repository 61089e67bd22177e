--------------------------- MODULE MCNotifications --------------------------
EXTENDS Notifications

CONSTANTS t1, t2, a, b, n1, n2, k1

\* One task is due at once, the other two instants later.
TwoDueDates == t1 :> 0 @@ t2 :> 2
=============================================================================
