---------------------------- MODULE RateLimiter ----------------------------
(***************************************************************************)
(* One token bucket in Redis, shared by all server processes.              *)
(*                                                                         *)
(* A caller reads its clock and then has Redis run the script, which adds  *)
(* what the time since the last run has earned, takes the cost of a        *)
(* request if it can and stores the caller's reading as the bucket's time. *)
(* A reading that arrives late puts that time back, and what lies between  *)
(* is earned again; clocks that disagree act like late readings.           *)
(***************************************************************************)
EXTENDS Integers

CONSTANTS Clients,    \* requests on their way to the bucket
          Capacity, Refill, Cost,  \* tokens: at most, per instant, per request
          Slack,      \* the second that the bucket is kept after it is full
          Horizon,    \* bound: instants
          MaxLosses   \* bound: losses of Redis

VARIABLES tokens, time,   \* the bucket: tokens and ts
          expires,        \* when Redis drops it (0: there is none)
          now,
          reading,        \* the clock readings on their way
          granted,        \* history: requests let through since `since`
          since,          \* history: when an observer began to count
          rewound,        \* history: by how much late readings put ts back since
          losses

vars == <<tokens, time, expires, now, reading, granted, since, rewound, losses>>

-----------------------------------------------------------------------------
None == 0
Least(a, b) == IF a < b THEN a ELSE b
Excess(a, b) == IF a > b THEN a - b ELSE 0

TypeOK ==
  /\ tokens \in 0..Capacity
  /\ time \in 0..Horizon
  /\ expires \in Nat
  /\ now \in 1..Horizon
  /\ reading \in [Clients -> {None} \cup 1..Horizon]
  /\ granted \in Nat /\ rewound \in Nat
  /\ since \in 1..Horizon
  /\ losses \in 0..MaxLosses

Init ==
  /\ tokens = 0
  /\ time = 0
  /\ expires = None
  /\ now = 1
  /\ reading = [c \in Clients |-> None]
  /\ granted = 0
  /\ since = 1
  /\ rewound = 0
  /\ losses = 0

-----------------------------------------------------------------------------
\* Mutant: the bucket is dropped when it might be full.
NoSlack == Capacity \div Refill

Ttl == (Capacity \div Refill) + Slack

ReadClock(c) ==
  /\ reading[c] = None
  /\ reading' = [reading EXCEPT ![c] = now]
  /\ UNCHANGED <<tokens, time, expires, now, granted, since, rewound, losses>>

\* tokens and ts as the script finds them: a new bucket is full.
Earned(t) ==
  IF expires = None THEN Capacity
  ELSE Least(Capacity, tokens + Excess(t, time) * Refill)

RunScript(c) ==
  LET t == reading[c]
      allowed == Earned(t) >= Cost
  IN  /\ t # None
      /\ tokens' = IF allowed THEN Earned(t) - Cost ELSE Earned(t)
      /\ granted' = IF allowed THEN granted + 1 ELSE granted
      /\ time' = t
      /\ rewound' = rewound + (IF expires = None THEN now - t ELSE Excess(time, t))
      /\ expires' = now + Ttl
      /\ reading' = [reading EXCEPT ![c] = None]
      /\ UNCHANGED <<now, since, losses>>

\* PEXPIRE: the key is gone when its time has come.
Tick ==
  /\ now < Horizon
  /\ now' = now + 1
  /\ expires' = IF expires <= now + 1 THEN None ELSE expires
  /\ UNCHANGED <<tokens, time, reading, granted, since, rewound, losses>>

LoseBucket ==
  /\ losses < MaxLosses /\ expires # None
  /\ losses' = losses + 1
  /\ expires' = None
  /\ UNCHANGED <<tokens, time, now, reading, granted, since, rewound>>

\* Somebody begins to count, with no late reading on its way.
Watch ==
  /\ since < now
  /\ \A c \in Clients : reading[c] \in {None, now}
  /\ since' = now
  /\ granted' = 0
  /\ rewound' = 0
  /\ UNCHANGED <<tokens, time, expires, now, reading, losses>>

Next ==
  \/ \E c \in Clients : ReadClock(c) \/ RunScript(c)
  \/ Tick \/ LoseBucket \/ Watch

Spec == Init /\ [][Next]_vars

-----------------------------------------------------------------------------
\* In any stretch of time the bucket lets through what it holds when full and
\* what the time earns; more only for a bucket that Redis lost, and for time
\* that late readings earned twice.  That the key expires costs nothing.
RateHolds ==
  granted * Cost <= Capacity * (1 + losses) + Refill * (now - since + rewound)
=============================================================================
