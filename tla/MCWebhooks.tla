----------------------------- MODULE MCWebhooks -----------------------------
EXTENDS Webhooks, TLC

CONSTANTS h1, h2, v1, v2, p1, p2

\* Two registrations race and one event is emitted, or there is one webhook and
\* batches hold two deliveries: both at once are too many states.
VARIABLE wide

MCInit == Init /\ wide \in {"hooks", "events"}

MCNext ==
  \/ wide = "hooks" /\ Next /\ emitted' \subseteq {v1} /\ UNCHANGED wide
  \/ wide = "events" /\ Next /\ creating' \subseteq {h1} /\ UNCHANGED wide

MCSpec == MCInit /\ [][MCNext]_<<vars, wide>> /\ Fairness
=============================================================================
