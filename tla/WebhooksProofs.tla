--------------------------- MODULE WebhooksProofs ---------------------------
(***************************************************************************)
(* Proofs about webhooks and their deliveries, for any number of webhooks, *)
(* events, dispatchers and faults.                                         *)
(*                                                                         *)
(* Registrations count under the lock of the tenant's row: at most one is  *)
(* open, and one that has passed the test leaves room for itself.          *)
(*                                                                         *)
(* What a delivery can cost is kept in a ledger.  A dispatcher that holds  *)
(* a claim may still add an answer, or send the row back to pending; a     *)
(* pending row may be claimed again, unless its time is the lease of one   *)
(* who still holds it.  Either right comes from the one attempt that is    *)
(* owed anyway, or from a crash, a lost write or answer, or an outlasted   *)
(* lease.                                                                  *)
(***************************************************************************)
EXTENDS Webhooks, FiniteSetTheorems, TLAPS

\* The claims of a dispatcher: the one it is at and those still to come.
Held(w) == dispatcher[w].todo \cup
           (IF dispatcher[w].pc # "next" THEN {dispatcher[w].claim} ELSE {})

\* Finitely many webhooks and dispatchers.
Finitely == IsFiniteSet(Hooks) /\ IsFiniteSet(Dispatchers)

-----------------------------------------------------------------------------
(* Types. *)

LEMMA Shapes ==
  ASSUME TypeOK, NEW w \in Dispatchers
  PROVE  /\ dispatcher[w].todo \subseteq Claim
         /\ dispatcher[w].pc \in {"next", "post", "mark", "fail"}
         /\ dispatcher[w].pc = "next" => dispatcher[w].claim = NoClaim
         /\ dispatcher[w].pc # "next" => dispatcher[w].claim \in Claim
         /\ Held(w) \subseteq Claim
         /\ dispatcher[w] = [pc |-> dispatcher[w].pc, claim |-> dispatcher[w].claim,
                             todo |-> dispatcher[w].todo]
<1>1. dispatcher[w] \in Between \cup Sending
  BY DEF TypeOK
<1>2. CASE dispatcher[w] \in Between
  BY <1>2 DEF Between, Held
<1>3. CASE dispatcher[w] \in Sending
  BY <1>3 DEF Sending, Held
<1>4. QED
  BY <1>1, <1>2, <1>3

LEMMA Claims ==
  ASSUME NEW c \in Claim
  PROVE  /\ c.id \in Deliveries /\ c.attempt \in Nat \ {0}
         /\ c.id[1] \in Hooks /\ c.id[2] \in Events
         /\ c = [id |-> c.id, attempt |-> c.attempt]
BY DEF Claim, Deliveries

LEMMA HoldsHeld ==
  ASSUME NEW w, NEW d
  PROVE  /\ Holds(w, d) <=> \E c \in Held(w) : c.id = d
         /\ Holds(w, d)' <=> \E c \in Held(w)' : c.id = d
BY DEF Holds, Held

LEMMA Rows ==
  ASSUME TypeOK, NEW d \in Deliveries
  PROVE  /\ delivery[d].status \in {"absent", "pending", "delivered", "dead_letter"}
         /\ delivery[d].attempts \in Nat
         /\ delivery[d].due \in BOOLEAN
         /\ delivery[d].lease \in SUBSET Dispatchers
         /\ accepted[d] \in Nat
BY DEF TypeOK, Row, Terminal

\* One dispatcher moves.
LEMMA Moves ==
  ASSUME TypeOK, NEW w \in Dispatchers, NEW s \in Between \cup Sending,
         dispatcher' = [dispatcher EXCEPT ![w] = s]
  PROVE  /\ dispatcher' \in [Dispatchers -> Between \cup Sending]
         /\ dispatcher'[w] = s
         /\ \A v \in Dispatchers \ {w} : dispatcher'[v] = dispatcher[v]
BY DEF TypeOK

LEMMA Advances ==
  ASSUME TypeOK, NEW w \in Dispatchers, Advance(w)
  PROVE  /\ dispatcher' \in [Dispatchers -> Between \cup Sending]
         /\ dispatcher'[w] = [pc |-> "next", claim |-> NoClaim, todo |-> dispatcher[w].todo]
         /\ \A v \in Dispatchers \ {w} : dispatcher'[v] = dispatcher[v]
<1> DEFINE s == [pc |-> "next", claim |-> NoClaim, todo |-> dispatcher[w].todo]
<1>1. s \in Between
  BY Shapes DEF Between
<1>2. dispatcher' = [dispatcher EXCEPT ![w] = s]
  BY DEF Advance
<1> HIDE DEF s
<1>3. /\ dispatcher' \in [Dispatchers -> Between \cup Sending]
      /\ dispatcher'[w] = s
      /\ \A v \in Dispatchers \ {w} : dispatcher'[v] = dispatcher[v]
  BY <1>1, <1>2, Moves
<1>4. QED
  BY <1>3 DEF s

LEMMA Loads ==
  ASSUME TypeOK, NEW w \in Dispatchers, LoadWebhook(w)
  PROVE  \E c \in dispatcher[w].todo, pc \in {"post", "fail"} :
           /\ dispatcher' \in [Dispatchers -> Between \cup Sending]
           /\ dispatcher'[w] = [pc |-> pc, claim |-> c, todo |-> dispatcher[w].todo \ {c}]
           /\ \A v \in Dispatchers \ {w} : dispatcher'[v] = dispatcher[v]
<1>1. PICK c \in dispatcher[w].todo :
        dispatcher' = [dispatcher EXCEPT ![w] =
          [pc |-> IF hook[c.id[1]] = "active" THEN "post" ELSE "fail",
           claim |-> c, todo |-> dispatcher[w].todo \ {c}]]
  BY DEF LoadWebhook
<1>2. PICK pc \in {"post", "fail"} : pc = IF hook[c.id[1]] = "active" THEN "post" ELSE "fail"
  OBVIOUS
<1> DEFINE s == [pc |-> pc, claim |-> c, todo |-> dispatcher[w].todo \ {c}]
<1>3. s \in Sending
  BY Shapes DEF Sending
<1>4. dispatcher' = [dispatcher EXCEPT ![w] = s]
  BY <1>1, <1>2
<1> HIDE DEF s
<1>5. /\ dispatcher' \in [Dispatchers -> Between \cup Sending]
      /\ dispatcher'[w] = s
      /\ \A v \in Dispatchers \ {w} : dispatcher'[v] = dispatcher[v]
  BY <1>3, <1>4, Moves
<1>6. QED
  BY <1>5 DEF s

LEMMA Posts ==
  ASSUME TypeOK, NEW w \in Dispatchers, Post(w)
  PROVE  \E answer \in {"2xx", "other", "none"} :
           /\ dispatcher' \in [Dispatchers -> Between \cup Sending]
           /\ dispatcher'[w] = [pc |-> Outcome(answer), claim |-> dispatcher[w].claim,
                                todo |-> dispatcher[w].todo]
           /\ \A v \in Dispatchers \ {w} : dispatcher'[v] = dispatcher[v]
           /\ accepted' = [accepted EXCEPT ![dispatcher[w].claim.id] =
                             @ + (IF answer = "2xx" THEN 1 ELSE 0)]
<1>1. PICK answer \in {"2xx", "other", "none"} :
        /\ accepted' = [accepted EXCEPT ![dispatcher[w].claim.id] =
                          @ + (IF answer = "2xx" THEN 1 ELSE 0)]
        /\ dispatcher' = [dispatcher EXCEPT ![w].pc = Outcome(answer)]
  BY DEF Post
<1> DEFINE s == [pc |-> Outcome(answer), claim |-> dispatcher[w].claim,
                 todo |-> dispatcher[w].todo]
<1>2. dispatcher[w].pc = "post"
  BY DEF Post
<1>3. s \in Sending
  BY <1>2, Shapes DEF Sending, Outcome
<1>4. dispatcher' = [dispatcher EXCEPT ![w] = s]
  <2>1. dispatcher[w] \in Sending
    BY <1>2 DEF TypeOK, Between
  <2>2. [dispatcher[w] EXCEPT !.pc = Outcome(answer)] = s
    BY <2>1 DEF Sending
  <2> HIDE DEF s
  <2>3. QED
    BY <1>1, <2>2
<1> HIDE DEF s
<1>5. /\ dispatcher' \in [Dispatchers -> Between \cup Sending]
      /\ dispatcher'[w] = s
      /\ \A v \in Dispatchers \ {w} : dispatcher'[v] = dispatcher[v]
  BY <1>3, <1>4, Moves
<1>6. QED
  BY <1>1, <1>5 DEF s

LEMMA Loses ==
  ASSUME TypeOK, NEW w \in Dispatchers, LoseAnswer(w)
  PROVE  /\ dispatcher' \in [Dispatchers -> Between \cup Sending]
         /\ dispatcher'[w] = [pc |-> "fail", claim |-> dispatcher[w].claim,
                              todo |-> dispatcher[w].todo]
         /\ \A v \in Dispatchers \ {w} : dispatcher'[v] = dispatcher[v]
         /\ dispatcher[w].pc = "post" /\ dispatcher[w].claim.id \in Deliveries
<1> DEFINE s == [pc |-> "fail", claim |-> dispatcher[w].claim, todo |-> dispatcher[w].todo]
<1>1. dispatcher[w].pc = "post" /\ dispatcher' = [dispatcher EXCEPT ![w].pc = "fail"]
  BY DEF LoseAnswer, Outcome
<1>2. s \in Sending /\ dispatcher[w].claim.id \in Deliveries
  BY <1>1, Shapes, Claims DEF Sending
<1>3. dispatcher' = [dispatcher EXCEPT ![w] = s]
  <2>1. dispatcher[w] \in Sending
    BY <1>1 DEF TypeOK, Between
  <2>2. [dispatcher[w] EXCEPT !.pc = "fail"] = s
    BY <2>1 DEF Sending
  <2> HIDE DEF s
  <2>3. QED
    BY <1>1, <2>2
<1> HIDE DEF s
<1>4. /\ dispatcher' \in [Dispatchers -> Between \cup Sending]
      /\ dispatcher'[w] = s
      /\ \A v \in Dispatchers \ {w} : dispatcher'[v] = dispatcher[v]
  BY <1>2, <1>3, Moves
<1>5. QED
  BY <1>1, <1>2, <1>4 DEF s

\* The rows that a claim takes and what the dispatcher knows of them.
Takes(w, S) ==
  /\ S \in SUBSET Due
  /\ \A d \in S : delivery'[d] = [status |-> "pending",
                                  attempts |-> delivery[d].attempts + 1, due |-> FALSE,
                                  lease |-> {w}]
  /\ \A d \in Deliveries \ S : delivery'[d] = delivery[d]
  /\ dispatcher'[w] =
       [pc |-> "next", claim |-> NoClaim,
        todo |-> {[id |-> d, attempt |-> delivery[d].attempts + 1] : d \in S}]
  /\ \A v \in Dispatchers \ {w} : dispatcher'[v] = dispatcher[v]

LEMMA TakesBatch ==
  ASSUME TypeOK, NEW w \in Dispatchers, ClaimPending(w)
  PROVE  /\ \E S \in SUBSET Due : Takes(w, S)
         /\ dispatcher' \in [Dispatchers -> Between \cup Sending]
         /\ delivery' \in [Deliveries -> Row]
<1>1. PICK S \in SUBSET Due :
        /\ delivery' = [d \in Deliveries |->
                          IF d \in S
                            THEN [delivery[d] EXCEPT !.attempts = @ + 1, !.due = FALSE,
                                                     !.lease = {w}]
                            ELSE delivery[d]]
        /\ dispatcher' = [dispatcher EXCEPT ![w].todo =
                            {[id |-> d, attempt |-> delivery[d].attempts + 1] : d \in S}]
  BY DEF ClaimPending
<1> DEFINE cs == {[id |-> d, attempt |-> delivery[d].attempts + 1] : d \in S}
           s == [pc |-> "next", claim |-> NoClaim, todo |-> cs]
<1>2. \A d \in S : d \in Deliveries /\ delivery[d].status = "pending" /\ delivery[d].due
  BY <1>1 DEF Due
<1>3. cs \subseteq Claim
  <2>1. \A d \in S : delivery[d].attempts + 1 \in Nat \ {0}
    BY <1>2, Rows
  <2>2. QED
    BY <1>2, <2>1 DEF Claim
<1>4. s \in Between
  BY <1>3 DEF Between
<1>5. dispatcher[w] = Idle
  BY DEF ClaimPending
<1>6. dispatcher' = [dispatcher EXCEPT ![w] = s]
  <2>1. [Idle EXCEPT !.todo = cs] = s
    BY DEF Idle
  <2> HIDE DEF cs, s
  <2>2. dispatcher' = [dispatcher EXCEPT ![w] = [dispatcher[w] EXCEPT !.todo = cs]]
    BY <1>1 DEF cs
  <2>3. QED
    BY <1>5, <2>1, <2>2
<1>7. \A d \in S : delivery'[d] = [status |-> "pending",
                                   attempts |-> delivery[d].attempts + 1, due |-> FALSE,
                                   lease |-> {w}]
  <2> SUFFICES ASSUME NEW d \in S
               PROVE  delivery'[d] = [status |-> "pending",
                                      attempts |-> delivery[d].attempts + 1, due |-> FALSE,
                                      lease |-> {w}]
    OBVIOUS
  <2>1. d \in Deliveries /\ delivery[d].status = "pending" /\ delivery[d] \in Row
    BY <1>2 DEF TypeOK
  <2>2. delivery'[d] = [delivery[d] EXCEPT !.attempts = @ + 1, !.due = FALSE, !.lease = {w}]
    BY <1>1, <2>1
  <2>3. QED
    BY <2>1, <2>2 DEF Row
<1>8. \A d \in Deliveries \ S : delivery'[d] = delivery[d]
  BY <1>1
<1>9. delivery' \in [Deliveries -> Row]
  <2>1. ASSUME NEW d \in Deliveries
        PROVE  delivery'[d] \in Row
    <3>1. CASE d \in S
      <4>1. delivery[d].attempts + 1 \in Nat
        BY Rows
      <4>2. delivery'[d] = [status |-> "pending", attempts |-> delivery[d].attempts + 1,
                            due |-> FALSE, lease |-> {w}]
        BY <1>7, <3>1
      <4>3. QED
        BY <4>1, <4>2 DEF Row
    <3>2. CASE d \notin S
      BY <1>8, <3>2 DEF TypeOK
    <3>3. QED
      BY <3>1, <3>2
  <2>2. delivery' = [d \in Deliveries |-> delivery'[d]]
    BY <1>1
  <2>3. QED
    BY <2>1, <2>2
<1> HIDE DEF s
<1>10. /\ dispatcher' \in [Dispatchers -> Between \cup Sending]
       /\ dispatcher'[w] = s
       /\ \A v \in Dispatchers \ {w} : dispatcher'[v] = dispatcher[v]
  BY <1>4, <1>6, Moves
<1>11. Takes(w, S)
  BY <1>1, <1>7, <1>8, <1>10 DEF Takes, s
<1>12. QED
  BY <1>1, <1>9, <1>10, <1>11

-----------------------------------------------------------------------------
LEMMA TypeStep ==
  ASSUME TypeOK, [Next]_vars
  PROVE  TypeOK'
<1> USE WebhooksAssumption DEF WebhooksAssumption
<1>1. ASSUME NEW h \in Hooks, LockTenant(h) \/ CountWebhooks(h) \/ InsertWebhook(h)
      PROVE  TypeOK'
  BY <1>1 DEF TypeOK, LockTenant, CountWebhooks, InsertWebhook, budgetVars
<1>2. ASSUME NEW h \in Hooks, UpdateWebhook(h)
      PROVE  TypeOK'
  BY <1>2 DEF TypeOK, UpdateWebhook, budgetVars
<1>3. ASSUME NEW h \in Hooks, DeleteWebhook(h)
      PROVE  TypeOK'
  <2>1. NoRow \in Row
    BY DEF NoRow, Row
  <2>2. QED
    BY <1>3, <2>1 DEF TypeOK, DeleteWebhook, budgetVars
<1>4. ASSUME NEW e \in Events, EmitTaskEvent(e)
      PROVE  TypeOK'
  <2>1. Fresh \in Row
    BY DEF Fresh, Row
  <2>2. QED
    BY <1>4, <2>1 DEF TypeOK, EmitTaskEvent, hookVars, budgetVars
<1>5. ASSUME NEW w \in Dispatchers, ClaimPending(w)
      PROVE  TypeOK'
  BY <1>5, TakesBatch DEF TypeOK, ClaimPending, hookVars, budgetVars
<1>6. ASSUME NEW w \in Dispatchers, LoadWebhook(w)
      PROVE  TypeOK'
  BY <1>6, Loads DEF TypeOK, LoadWebhook, hookVars, budgetVars
<1>7. ASSUME NEW w \in Dispatchers, Post(w)
      PROVE  TypeOK'
  <2>1. dispatcher[w].claim.id \in Deliveries
    BY <1>7, Shapes, Claims DEF Post
  <2>2. accepted' \in [Deliveries -> Nat]
    <3> DEFINE d == dispatcher[w].claim.id
    <3>1. accepted[d] \in Nat
      BY <2>1, Rows
    <3>2. PICK n \in {0, 1} : accepted' = [accepted EXCEPT ![d] = @ + n]
      <4>1. PICK answer \in {"2xx", "other", "none"} :
              accepted' = [accepted EXCEPT ![d] = @ + (IF answer = "2xx" THEN 1 ELSE 0)]
        BY <1>7, Posts
      <4>2. CASE answer = "2xx"
        BY <4>1, <4>2
      <4>3. CASE answer # "2xx"
        BY <4>1, <4>3
      <4>4. QED
        BY <4>2, <4>3
    <3>3. accepted[d] + n \in Nat
      BY <3>1
    <3> HIDE DEF d
    <3>4. QED
      BY <3>2, <3>3 DEF TypeOK
  <2>3. QED
    BY <1>7, <2>2, Posts DEF TypeOK, Post, hookVars, budgetVars
<1>8. ASSUME NEW w \in Dispatchers, MarkDelivered(w) \/ FailDelivery(w)
      PROVE  TypeOK'
  <2>1. /\ dispatcher[w].claim.id \in Deliveries
        /\ dispatcher[w].claim.attempt \in Nat
        /\ Advance(w)
    BY <1>8, Shapes, Claims DEF MarkDelivered, FailDelivery
  <2> DEFINE d == dispatcher[w].claim.id
             a == dispatcher[w].claim.attempt
  <2>2. delivery' \in [Deliveries -> Row]
    <3>1. delivery[d] \in Row
      BY <2>1 DEF TypeOK
    <3>2. [delivery[d] EXCEPT !.status = "delivered", !.lease = {}] \in Row
      BY <3>1 DEF Row, Terminal
    <3>3. AfterFailure(a) \in {"pending", "dead_letter"} /\ (a >= MaxAttempts) \in BOOLEAN
      BY DEF AfterFailure
    <3>4. [delivery[d] EXCEPT !.status = AfterFailure(a), !.due = a >= MaxAttempts,
                              !.lease = {}] \in Row
      BY <3>1, <3>3 DEF Row, Terminal
    <3>5. \/ delivery' = delivery
          \/ delivery' = [delivery EXCEPT ![d] =
                [delivery[d] EXCEPT !.status = "delivered", !.lease = {}]]
          \/ delivery' = [delivery EXCEPT ![d] =
                [delivery[d] EXCEPT !.status = AfterFailure(a), !.due = a >= MaxAttempts,
                                    !.lease = {}]]
      BY <1>8 DEF MarkDelivered, FailDelivery
    <3> HIDE DEF d, a
    <3>6. QED
      BY <3>2, <3>4, <3>5 DEF TypeOK
  <2>3. QED
    BY <1>8, <2>1, <2>2, Advances DEF TypeOK, MarkDelivered, FailDelivery, hookVars, budgetVars
<1>9. ASSUME NEW w \in Dispatchers, AbandonBatch(w)
      PROVE  TypeOK'
  <2>1. Idle \in Between
    BY DEF Idle, Between
  <2>2. QED
    BY <1>9, <2>1 DEF TypeOK, AbandonBatch, hookVars
<1>10. ASSUME NEW d \in Deliveries, Redeliver(d)
       PROVE  TypeOK'
  <2>1. Fresh \in Row
    BY DEF Fresh, Row
  <2>2. QED
    BY <1>10, <2>1 DEF TypeOK, Redeliver, hookVars
<1>11. ASSUME NEW d \in Deliveries, ScheduleArrives(d)
       PROVE  TypeOK'
  <2>1. delivery' \in [Deliveries -> Row]
    <3>1. [delivery[d] EXCEPT !.due = TRUE, !.lease = {}] \in Row
      BY DEF TypeOK, Row
    <3>2. delivery' = [delivery EXCEPT ![d] = [delivery[d] EXCEPT !.due = TRUE, !.lease = {}]]
      BY <1>11 DEF ScheduleArrives
    <3>3. QED
      BY <3>1, <3>2 DEF TypeOK
  <2>2. stalls' \in 0 .. MaxStalls
    BY <1>11 DEF ScheduleArrives, TypeOK
  <2>3. QED
    BY <1>11, <2>1, <2>2 DEF TypeOK, ScheduleArrives, hookVars
<1>12. ASSUME NEW w \in Dispatchers, LoseAnswer(w)
       PROVE  TypeOK'
  <2> DEFINE d == dispatcher[w].claim.id
  <2>1. d \in Deliveries /\ accepted[d] + 1 \in Nat
    <3>1. d \in Deliveries
      BY <1>12, Loses
    <3> HIDE DEF d
    <3>2. accepted[d] \in Nat
      BY <3>1, Rows
    <3>3. QED
      BY <3>1, <3>2
  <2>2. accepted' = [accepted EXCEPT ![d] = accepted[d] + 1]
    BY <1>12 DEF LoseAnswer
  <2>3. accepted' \in [Deliveries -> Nat]
    <3> HIDE DEF d
    <3>1. QED
      BY <2>1, <2>2 DEF TypeOK
  <2>4. losses' \in 0 .. MaxLosses
    BY <1>12 DEF LoseAnswer, TypeOK
  <2>5. QED
    BY <1>12, <2>3, <2>4, Loses DEF TypeOK, LoseAnswer, hookVars
<1>13. CASE UNCHANGED vars
  BY <1>13 DEF TypeOK, vars
<1>14. QED
  BY <1>1, <1>2, <1>3, <1>4, <1>5, <1>6, <1>7, <1>8, <1>9, <1>10, <1>11, <1>12, <1>13
     DEF Next, DispatcherNext

LEMMA TypeFirst ==
  ASSUME Init
  PROVE  TypeOK
<1>1. NoRow \in Row /\ Idle \in Between
  BY DEF NoRow, Row, Idle, Between
<1>2. QED
  BY <1>1, WebhooksAssumption DEF Init, TypeOK, WebhooksAssumption


-----------------------------------------------------------------------------
(* Registration. *)

OneOpen == /\ \A g, h \in creating : g = h
           /\ \A h \in creating : hook[h] = "absent"

RoomIsKept == counted # {} => Cardinality(Registered) < Cap

CapInv == OneOpen /\ RoomIsKept /\ CapHolds

LEMMA HooksFinite ==
  ASSUME Finitely
  PROVE  IsFiniteSet(Registered) /\ Cardinality(Registered) \in Nat
<1>1. Registered \subseteq Hooks
  BY DEF Registered
<1>2. QED
  BY <1>1, FS_Subset, FS_CardinalityType DEF Finitely

LEMMA CapStep ==
  ASSUME Finitely, TypeOK, CapInv, [Next]_vars
  PROVE  CapInv'
<1>1. Cap \in Nat
  BY WebhooksAssumption DEF WebhooksAssumption
<1>2. IsFiniteSet(Registered) /\ Cardinality(Registered) \in Nat
  BY HooksFinite
<1>3. ASSUME UNCHANGED hookVars
      PROVE  CapInv'
  BY <1>3 DEF CapInv, OneOpen, RoomIsKept, CapHolds, Registered, hookVars
<1>4. ASSUME NEW h \in Hooks, LockTenant(h)
      PROVE  CapInv'
  <2>1. /\ hook' = hook /\ counted' = counted /\ creating = {} /\ creating' = {h}
        /\ hook[h] = "absent"
    BY <1>4 DEF LockTenant, TenantUnlocked
  <2>2. counted = {}
    BY <2>1 DEF TypeOK
  <2>3. QED
    BY <2>1, <2>2 DEF CapInv, OneOpen, RoomIsKept, CapHolds, Registered
<1>5. ASSUME NEW h \in Hooks, CountWebhooks(h)
      PROVE  CapInv'
  <2>1. hook' = hook /\ h \in creating \ counted
    BY <1>5 DEF CountWebhooks
  <2>2. Registered' = Registered
    BY <2>1 DEF Registered
  <2>3. counted = {}
    BY <2>1 DEF CapInv, OneOpen, TypeOK
  <2>4. \/ Cardinality(Registered) >= Cap /\ creating' \subseteq creating /\ counted' = {}
        \/ Cardinality(Registered) < Cap /\ creating' = creating
    BY <1>1, <1>2, <1>5, <2>3 DEF CountWebhooks
  <2>5. OneOpen'
    BY <2>1, <2>4 DEF CapInv, OneOpen
  <2>6. RoomIsKept'
    BY <2>2, <2>4 DEF RoomIsKept
  <2>7. QED
    BY <2>2, <2>5, <2>6 DEF CapInv, CapHolds
<1>6. ASSUME NEW h \in Hooks, InsertWebhook(h)
      PROVE  CapInv'
  <2>1. /\ h \in counted /\ h \in creating
        /\ hook' = [hook EXCEPT ![h] = "active"]
        /\ creating' = creating \ {h} /\ counted' = counted \ {h}
    BY <1>6 DEF InsertWebhook, TypeOK
  <2>2. creating' = {} /\ counted' = {}
    BY <2>1 DEF CapInv, OneOpen, TypeOK
  <2>3. Registered' \subseteq Registered \cup {h}
    BY <2>1 DEF Registered, TypeOK
  <2>4. /\ IsFiniteSet(Registered \cup {h})
        /\ \/ Cardinality(Registered \cup {h}) = Cardinality(Registered)
           \/ Cardinality(Registered \cup {h}) = Cardinality(Registered) + 1
    BY <1>2, FS_AddElement
  <2>5. /\ Cardinality(Registered') <= Cardinality(Registered \cup {h})
        /\ Cardinality(Registered') \in Nat /\ Cardinality(Registered \cup {h}) \in Nat
    BY <2>3, <2>4, FS_Subset, FS_CardinalityType
  <2>6. Cardinality(Registered) < Cap
    BY <2>1 DEF CapInv, RoomIsKept
  <2>7. CapHolds'
    BY <1>1, <1>2, <2>4, <2>5, <2>6 DEF CapHolds
  <2>8. QED
    BY <2>2, <2>7 DEF CapInv, OneOpen, RoomIsKept
<1>7. ASSUME NEW h \in Hooks, UpdateWebhook(h) \/ DeleteWebhook(h)
      PROVE  CapInv'
  <2>1. /\ h \in Registered /\ creating' = creating /\ counted' = counted
        /\ \E s \in {"active", "disabled", "deleted"} : hook' = [hook EXCEPT ![h] = s]
    BY <1>7 DEF UpdateWebhook, DeleteWebhook
  <2>2. /\ Registered' \subseteq Registered
        /\ \A g \in Hooks \ {h} : hook'[g] = hook[g]
    BY <2>1 DEF Registered, TypeOK
  <2>3. Cardinality(Registered') <= Cardinality(Registered) /\ Cardinality(Registered') \in Nat
    BY <1>2, <2>2, FS_Subset, FS_CardinalityType
  <2>4. h \notin creating
    BY <2>1 DEF CapInv, OneOpen, Registered
  <2>5. OneOpen'
    BY <2>1, <2>2, <2>4 DEF CapInv, OneOpen, TypeOK
  <2>6. RoomIsKept' /\ CapHolds'
    BY <1>1, <1>2, <2>1, <2>3 DEF CapInv, RoomIsKept, CapHolds
  <2>7. QED
    BY <2>5, <2>6 DEF CapInv
<1>8. ASSUME NEW w \in Dispatchers, DispatcherNext(w) \/ LoseAnswer(w) \/ AbandonBatch(w)
      PROVE  UNCHANGED hookVars
  BY <1>8 DEF DispatcherNext, LoseAnswer, AbandonBatch, ClaimPending, LoadWebhook, Post, MarkDelivered,
              FailDelivery
<1>9. ASSUME NEW e \in Events, EmitTaskEvent(e)
      PROVE  UNCHANGED hookVars
  BY <1>9 DEF EmitTaskEvent
<1>10. ASSUME NEW d \in Deliveries, Redeliver(d) \/ ScheduleArrives(d)
       PROVE  UNCHANGED hookVars
  BY <1>10 DEF Redeliver, ScheduleArrives
<1>11. CASE UNCHANGED vars
  BY <1>3, <1>11 DEF vars, hookVars
<1>12. QED
  BY <1>3, <1>4, <1>5, <1>6, <1>7, <1>8, <1>9, <1>10, <1>11 DEF Next

LEMMA CapFirst ==
  ASSUME Init
  PROVE  CapInv
<1>1. Registered = {} /\ creating = {} /\ counted = {}
  BY DEF Init, Registered
<1>2. QED
  BY <1>1, FS_EmptySet, WebhooksAssumption
     DEF CapInv, OneOpen, RoomIsKept, CapHolds, WebhooksAssumption

-----------------------------------------------------------------------------
(* Who holds a claim.                                                      *)

Holders(d) == {w \in Dispatchers : Holds(w, d)}

\* With attempts left: its failure sends the row back to pending.
Early(d) == {w \in Dispatchers : \E c \in Held(w) : c.id = d /\ c.attempt < MaxAttempts}

\* Still to get the endpoint's answer, or to record that there was none.
AtMark(w, d) == dispatcher[w].pc = "mark" /\ dispatcher[w].claim.id = d
Owing(d) == {w \in Holders(d) : ~AtMark(w, d)}

\* A dispatcher has one claim on a delivery.
Distinct ==
  \A w \in Dispatchers :
    /\ \A b, c \in Held(w) : b.id = c.id => b = c
    /\ dispatcher[w].pc # "next" => dispatcher[w].claim \notin dispatcher[w].todo

LEMMA Same ==
  ASSUME NEW d, NEW w, dispatcher'[w] = dispatcher[w]
  PROVE  /\ Held(w)' = Held(w) /\ (Holds(w, d)' <=> Holds(w, d))
         /\ (AtMark(w, d)' <=> AtMark(w, d))
BY DEF Held, Holds, AtMark

\* The claims of the others stay: what changes for d is what changes for w.
LEMMA Others ==
  ASSUME NEW d, NEW w \in Dispatchers,
         \A v \in Dispatchers \ {w} : dispatcher'[v] = dispatcher[v]
  PROVE  /\ Holders(d)' \ {w} = Holders(d) \ {w}
         /\ Early(d)' \ {w} = Early(d) \ {w}
         /\ Owing(d)' \ {w} = Owing(d) \ {w}
<1>1. \A v \in Dispatchers \ {w} :
        /\ Held(v)' = Held(v) /\ (Holds(v, d)' <=> Holds(v, d))
        /\ (AtMark(v, d)' <=> AtMark(v, d))
  BY Same
<1>2. Holders(d)' \ {w} = Holders(d) \ {w}
  BY <1>1 DEF Holders
<1>3. Early(d)' \ {w} = Early(d) \ {w}
  BY <1>1 DEF Early
<1>4. Owing(d)' \ {w} = Owing(d) \ {w}
  BY <1>1 DEF Owing, Holders
<1>5. QED
  BY <1>2, <1>3, <1>4

LEMMA Still ==
  ASSUME NEW d, dispatcher' = dispatcher
  PROVE  Holders(d)' = Holders(d) /\ Early(d)' = Early(d) /\ Owing(d)' = Owing(d)
BY DEF Holders, Holds, Early, Owing, Held, AtMark

LEMMA LoadKeeps ==
  ASSUME TypeOK, NEW w \in Dispatchers, LoadWebhook(w), NEW d \in Deliveries
  PROVE  /\ Held(w)' = Held(w)
         /\ Holders(d)' = Holders(d) /\ Early(d)' = Early(d) /\ Owing(d)' = Owing(d)
<1>1. dispatcher[w].pc = "next"
  BY DEF LoadWebhook
<1>2. PICK c \in dispatcher[w].todo, pc \in {"post", "fail"} :
        /\ dispatcher'[w] = [pc |-> pc, claim |-> c, todo |-> dispatcher[w].todo \ {c}]
        /\ \A v \in Dispatchers \ {w} : dispatcher'[v] = dispatcher[v]
  BY Loads
<1>3. Held(w)' = Held(w)
  BY <1>1, <1>2 DEF Held
<1>4. Holds(w, d)' <=> Holds(w, d)
  BY <1>1, <1>2 DEF Holds
<1>5. ~AtMark(w, d)' /\ ~AtMark(w, d)
  BY <1>1, <1>2 DEF AtMark
<1>6. /\ w \in Holders(d)' <=> w \in Holders(d)
      /\ w \in Early(d)' <=> w \in Early(d)
      /\ w \in Owing(d)' <=> w \in Owing(d)
  BY <1>3, <1>4, <1>5 DEF Holders, Early, Owing
<1>7. QED
  BY <1>2, <1>3, <1>6, Others

LEMMA PostKeeps ==
  ASSUME TypeOK, NEW w \in Dispatchers, Post(w), NEW d \in Deliveries
  PROVE  /\ Held(w)' = Held(w)
         /\ Holders(d)' = Holders(d) /\ Early(d)' = Early(d)
         /\ \/ Owing(d)' = Owing(d) /\ accepted'[d] = accepted[d]
            \/ Owing(d)' = Owing(d) \ {w} /\ w \in Owing(d) /\ accepted'[d] = accepted[d] + 1
<1>1. dispatcher[w].pc = "post"
  BY DEF Post
<1>2. PICK answer \in {"2xx", "other", "none"} :
        /\ dispatcher'[w] = [pc |-> Outcome(answer), claim |-> dispatcher[w].claim,
                             todo |-> dispatcher[w].todo]
        /\ \A v \in Dispatchers \ {w} : dispatcher'[v] = dispatcher[v]
        /\ accepted' = [accepted EXCEPT ![dispatcher[w].claim.id] =
                          @ + (IF answer = "2xx" THEN 1 ELSE 0)]
  BY Posts
<1>3. Outcome(answer) \in {"mark", "fail"} /\ (Outcome(answer) = "mark" <=> answer = "2xx")
  BY DEF Outcome
<1>4. Held(w)' = Held(w)
  BY <1>1, <1>2, <1>3 DEF Held
<1>5. Holds(w, d)' <=> Holds(w, d)
  BY <1>4, HoldsHeld
<1>6. /\ w \in Holders(d)' <=> w \in Holders(d)
      /\ w \in Early(d)' <=> w \in Early(d)
  BY <1>4, <1>5 DEF Holders, Early
<1>7. ~AtMark(w, d)
  BY <1>1 DEF AtMark
<1>8. CASE answer = "2xx" /\ d = dispatcher[w].claim.id
  <2>1. AtMark(w, d)' /\ Holds(w, d)
    BY <1>1, <1>2, <1>3, <1>8 DEF AtMark, Holds
  <2>2. w \in Owing(d) /\ w \notin Owing(d)'
    BY <1>7, <2>1 DEF Owing, Holders
  <2>3. accepted'[d] = accepted[d] + 1
    BY <1>2, <1>8 DEF TypeOK
  <2>4. QED
    BY <1>2, <1>4, <1>6, <2>2, <2>3, Others
<1>9. CASE ~(answer = "2xx" /\ d = dispatcher[w].claim.id)
  <2>1. ~AtMark(w, d)'
    BY <1>2, <1>3, <1>9 DEF AtMark
  <2>2. w \in Owing(d)' <=> w \in Owing(d)
    BY <1>5, <1>7, <2>1 DEF Owing, Holders
  <2>3. accepted'[d] = accepted[d]
    <3>1. accepted[d] \in Nat
      BY Rows
    <3>2. QED
      BY <1>2, <1>9, <3>1 DEF TypeOK
  <2>4. QED
    BY <1>2, <1>4, <1>6, <2>2, <2>3, Others, SMTT(30)
<1>10. QED
  BY <1>8, <1>9

LEMMA LoseKeeps ==
  ASSUME TypeOK, NEW w \in Dispatchers, LoseAnswer(w), NEW d \in Deliveries
  PROVE  /\ Held(w)' = Held(w)
         /\ Holders(d)' = Holders(d) /\ Early(d)' = Early(d) /\ Owing(d)' = Owing(d)
         /\ \/ accepted'[d] = accepted[d]
            \/ accepted'[d] = accepted[d] + 1 /\ w \in Holders(d)
<1>1. /\ dispatcher[w].pc = "post" /\ dispatcher[w].claim.id \in Deliveries
      /\ dispatcher'[w] = [pc |-> "fail", claim |-> dispatcher[w].claim,
                           todo |-> dispatcher[w].todo]
      /\ \A v \in Dispatchers \ {w} : dispatcher'[v] = dispatcher[v]
  BY Loses
<1>2. Held(w)' = Held(w)
  BY <1>1 DEF Held
<1>3. Holds(w, d)' <=> Holds(w, d)
  BY <1>2, HoldsHeld
<1>4. ~AtMark(w, d)' /\ ~AtMark(w, d)
  BY <1>1 DEF AtMark
<1>5. /\ w \in Holders(d)' <=> w \in Holders(d)
      /\ w \in Early(d)' <=> w \in Early(d)
      /\ w \in Owing(d)' <=> w \in Owing(d)
  BY <1>2, <1>3, <1>4 DEF Holders, Early, Owing
<1>6. Holders(d)' = Holders(d) /\ Early(d)' = Early(d) /\ Owing(d)' = Owing(d)
  BY <1>1, <1>5, Others
<1>7. CASE d # dispatcher[w].claim.id
  BY <1>2, <1>6, <1>7 DEF LoseAnswer, TypeOK
<1>8. CASE d = dispatcher[w].claim.id
  <2>1. w \in Holders(d)
    BY <1>1, <1>8 DEF Holders, Holds
  <2>2. accepted'[d] = accepted[d] + 1
    BY <1>8 DEF LoseAnswer, TypeOK
  <2>3. QED
    BY <1>2, <1>6, <2>1, <2>2
<1>9. QED
  BY <1>7, <1>8

LEMMA AdvanceDrops ==
  ASSUME TypeOK, Distinct, NEW w \in Dispatchers, Advance(w), dispatcher[w].pc # "next",
         NEW d \in Deliveries
  PROVE  /\ Held(w)' = Held(w) \ {dispatcher[w].claim}
         /\ d # dispatcher[w].claim.id =>
              Holders(d)' = Holders(d) /\ Early(d)' = Early(d) /\ Owing(d)' = Owing(d)
         /\ d = dispatcher[w].claim.id =>
              /\ Holders(d)' = Holders(d) \ {w} /\ w \in Holders(d)
              /\ Early(d)' = Early(d) \ {w}
              /\ w \in Early(d) <=> dispatcher[w].claim.attempt < MaxAttempts
              /\ Owing(d)' = Owing(d) \ {w}
              /\ w \in Owing(d) <=> dispatcher[w].pc # "mark"
<1> DEFINE k == dispatcher[w].claim
<1>1. /\ dispatcher'[w] = [pc |-> "next", claim |-> NoClaim, todo |-> dispatcher[w].todo]
      /\ \A v \in Dispatchers \ {w} : dispatcher'[v] = dispatcher[v]
  BY Advances
<1>2. /\ Held(w) = dispatcher[w].todo \cup {k} /\ Held(w)' = dispatcher[w].todo
      /\ k \notin dispatcher[w].todo /\ \A b, c \in Held(w) : b.id = c.id => b = c
  BY <1>1 DEF Held, Distinct
<1>3. Held(w)' = Held(w) \ {k} /\ k \in Held(w)
  BY <1>2
<1>4. ~AtMark(w, d)'
  BY <1>1 DEF AtMark
<1>5. CASE d # k.id
  <2>1. ~AtMark(w, d)
    BY <1>5 DEF AtMark
  <2>2. \A c : (c \in Held(w)' /\ c.id = d) <=> (c \in Held(w) /\ c.id = d)
    BY <1>3, <1>5
  <2>3. Holds(w, d)' <=> Holds(w, d)
    <3>1. (\E c \in Held(w)' : c.id = d) <=> (\E c \in Held(w) : c.id = d)
      BY <2>2
    <3>2. QED
      BY <3>1, HoldsHeld
  <2>4. /\ w \in Holders(d)' <=> w \in Holders(d)
        /\ w \in Early(d)' <=> w \in Early(d)
        /\ w \in Owing(d)' <=> w \in Owing(d)
    BY <1>4, <2>1, <2>2, <2>3 DEF Holders, Early, Owing
  <2>5. QED
    BY <1>1, <1>3, <1>5, <2>4, Others
<1>6. CASE d = k.id
  <2>1. \A c \in Held(w)' : c.id # d
    BY <1>2, <1>3, <1>6
  <2>2. ~Holds(w, d)' /\ Holds(w, d)
    BY <1>3, <1>6, <2>1, HoldsHeld
  <2>3. w \notin Holders(d)' /\ w \notin Early(d)' /\ w \notin Owing(d)' /\ w \in Holders(d)
    BY <2>1, <2>2 DEF Holders, Early, Owing
  <2>4. w \in Early(d) <=> k.attempt < MaxAttempts
    BY <1>2, <1>3, <1>6 DEF Early
  <2>5. w \in Owing(d) <=> dispatcher[w].pc # "mark"
    BY <1>6, <2>3 DEF Owing, AtMark
  <2>6. QED
    BY <1>1, <1>3, <1>6, <2>3, <2>4, <2>5, Others
<1>7. QED
  BY <1>5, <1>6

LEMMA TakesAdds ==
  ASSUME TypeOK, NEW w \in Dispatchers, dispatcher[w] = Idle, NEW S, Takes(w, S),
         NEW d \in Deliveries
  PROVE  /\ Held(w) = {}
         /\ Held(w)' = {[id |-> b, attempt |-> delivery[b].attempts + 1] : b \in S}
         /\ w \notin Holders(d) /\ w \notin Early(d) /\ w \notin Owing(d)
         /\ d \notin S =>
              Holders(d)' = Holders(d) /\ Early(d)' = Early(d) /\ Owing(d)' = Owing(d)
         /\ d \in S =>
              /\ Holders(d)' = Holders(d) \cup {w}
              /\ Owing(d)' = Owing(d) \cup {w}
              /\ delivery[d].attempts + 1 < MaxAttempts => Early(d)' = Early(d) \cup {w}
              /\ ~(delivery[d].attempts + 1 < MaxAttempts) => Early(d)' = Early(d)
<1>1. Held(w) = {}
  BY DEF Held, Idle
<1>2. /\ dispatcher'[w] = [pc |-> "next", claim |-> NoClaim,
         todo |-> {[id |-> b, attempt |-> delivery[b].attempts + 1] : b \in S}]
      /\ \A v \in Dispatchers \ {w} : dispatcher'[v] = dispatcher[v]
  BY DEF Takes
<1>3. Held(w)' = {[id |-> b, attempt |-> delivery[b].attempts + 1] : b \in S}
  BY <1>2 DEF Held
<1>4. w \notin Holders(d) /\ w \notin Early(d) /\ w \notin Owing(d)
  BY <1>1, HoldsHeld DEF Holders, Early, Owing
<1>5. ~AtMark(w, d)'
  BY <1>2 DEF AtMark
<1>6. \A c \in Held(w)' : c.id \in S /\ c.attempt = delivery[c.id].attempts + 1
  BY <1>3
<1>7. CASE d \notin S
  <2>1. ~Holds(w, d)'
    BY <1>6, <1>7, HoldsHeld
  <2>2. w \notin Holders(d)' /\ w \notin Early(d)' /\ w \notin Owing(d)'
    BY <1>6, <1>7, <2>1 DEF Holders, Early, Owing
  <2>3. Holders(d)' = Holders(d) /\ Early(d)' = Early(d) /\ Owing(d)' = Owing(d)
    BY <1>2, <1>4, <2>2, Others
  <2>4. QED
    BY <1>1, <1>3, <1>4, <1>7, <2>3
<1>8. CASE d \in S
  <2> DEFINE k == [id |-> d, attempt |-> delivery[d].attempts + 1]
  <2>1. k \in Held(w)' /\ k.id = d /\ k.attempt = delivery[d].attempts + 1
    BY <1>3, <1>8
  <2>2. Holds(w, d)'
    BY <2>1, HoldsHeld
  <2>3. w \in Holders(d)' /\ w \in Owing(d)'
    BY <1>5, <2>2 DEF Holders, Owing
  <2>4. w \in Early(d)' <=> delivery[d].attempts + 1 < MaxAttempts
    BY <1>6, <2>1 DEF Early
  <2>5. /\ Holders(d)' \ {w} = Holders(d) \ {w}
        /\ Early(d)' \ {w} = Early(d) \ {w}
        /\ Owing(d)' \ {w} = Owing(d) \ {w}
    BY <1>2, Others
  <2>6. Holders(d)' = Holders(d) \cup {w} /\ Owing(d)' = Owing(d) \cup {w}
    BY <1>4, <2>3, <2>5
  <2>7. w \in Early(d)' => Early(d)' = Early(d) \cup {w}
    BY <1>4, <2>5
  <2>8. w \notin Early(d)' => Early(d)' = Early(d)
    BY <1>4, <2>5
  <2>9. QED
    BY <1>1, <1>3, <1>4, <1>8, <2>4, <2>6, <2>7, <2>8
<1>9. QED
  BY <1>7, <1>8

LEMMA AbandonDrops ==
  ASSUME TypeOK, NEW w \in Dispatchers, AbandonBatch(w), NEW d \in Deliveries
  PROVE  /\ Held(w)' = {}
         /\ Holders(d)' = Holders(d) \ {w} /\ Early(d)' = Early(d) \ {w}
         /\ Owing(d)' = Owing(d) \ {w}
<1>1. dispatcher'[w] = Idle /\ \A v \in Dispatchers \ {w} : dispatcher'[v] = dispatcher[v]
  BY DEF AbandonBatch, TypeOK
<1>2. Held(w)' = {}
  BY <1>1 DEF Held, Idle
<1>3. w \notin Holders(d)' /\ w \notin Early(d)' /\ w \notin Owing(d)'
  BY <1>2, HoldsHeld DEF Holders, Early, Owing
<1>4. QED
  BY <1>1, <1>2, <1>3, Others

LEMMA DistinctMoves ==
  ASSUME Distinct, NEW w \in Dispatchers,
         \A v \in Dispatchers \ {w} : dispatcher'[v] = dispatcher[v],
         \A b, c \in Held(w)' : b.id = c.id => b = c,
         dispatcher'[w].pc # "next" => dispatcher'[w].claim \notin dispatcher'[w].todo
  PROVE  Distinct'
<1>1. \A v \in Dispatchers \ {w} : Held(v)' = Held(v)
  BY Same
<1>2. QED
  BY <1>1 DEF Distinct

LEMMA DistinctStep ==
  ASSUME TypeOK, Distinct, [Next]_vars
  PROVE  Distinct'
<1>1. ASSUME dispatcher' = dispatcher
      PROVE  Distinct'
  BY <1>1 DEF Distinct, Held
<1>2. ASSUME NEW w \in Dispatchers, ClaimPending(w)
      PROVE  Distinct'
  <2>1. PICK S \in SUBSET Due : Takes(w, S)
    BY <1>2, TakesBatch
  <2>2. /\ dispatcher'[w] = [pc |-> "next", claim |-> NoClaim,
           todo |-> {[id |-> b, attempt |-> delivery[b].attempts + 1] : b \in S}]
        /\ \A v \in Dispatchers \ {w} : dispatcher'[v] = dispatcher[v]
    BY <2>1 DEF Takes
  <2>3. Held(w)' = {[id |-> b, attempt |-> delivery[b].attempts + 1] : b \in S}
    BY <2>2 DEF Held
  <2>4. \A b, c \in Held(w)' : b.id = c.id => b = c
    BY <2>3
  <2>5. QED
    BY <2>2, <2>4, DistinctMoves
<1>3. ASSUME NEW w \in Dispatchers, LoadWebhook(w)
      PROVE  Distinct'
  <2>1. PICK c \in dispatcher[w].todo, pc \in {"post", "fail"} :
          /\ dispatcher'[w] = [pc |-> pc, claim |-> c, todo |-> dispatcher[w].todo \ {c}]
          /\ \A v \in Dispatchers \ {w} : dispatcher'[v] = dispatcher[v]
    BY <1>3, Loads
  <2>2. Held(w)' = Held(w)
    <3>1. dispatcher[w].pc = "next"
      BY <1>3 DEF LoadWebhook
    <3>2. QED
      BY <2>1, <3>1 DEF Held
  <2>3. QED
    BY <2>1, <2>2, DistinctMoves DEF Distinct
<1>4. ASSUME NEW w \in Dispatchers, Post(w)
      PROVE  Distinct'
  <2>1. PICK answer \in {"2xx", "other", "none"} :
          /\ dispatcher'[w] = [pc |-> Outcome(answer), claim |-> dispatcher[w].claim,
                               todo |-> dispatcher[w].todo]
          /\ \A v \in Dispatchers \ {w} : dispatcher'[v] = dispatcher[v]
    BY <1>4, Posts
  <2>2. dispatcher[w].pc = "post" /\ Outcome(answer) \in {"mark", "fail"}
    BY <1>4 DEF Post, Outcome
  <2>3. Held(w)' = Held(w)
    BY <2>1, <2>2 DEF Held
  <2>4. QED
    BY <2>1, <2>2, <2>3, DistinctMoves DEF Distinct
<1>5. ASSUME NEW w \in Dispatchers, MarkDelivered(w) \/ FailDelivery(w)
      PROVE  Distinct'
  <2>1. /\ dispatcher'[w] = [pc |-> "next", claim |-> NoClaim, todo |-> dispatcher[w].todo]
        /\ \A v \in Dispatchers \ {w} : dispatcher'[v] = dispatcher[v]
    BY <1>5, Advances DEF MarkDelivered, FailDelivery
  <2>2. Held(w)' \subseteq Held(w)
    BY <2>1 DEF Held
  <2>3. QED
    BY <2>1, <2>2, DistinctMoves DEF Distinct
<1>6. ASSUME NEW w \in Dispatchers, AbandonBatch(w)
      PROVE  Distinct'
  <2>1. /\ dispatcher'[w] = Idle
        /\ \A v \in Dispatchers \ {w} : dispatcher'[v] = dispatcher[v]
    BY <1>6 DEF AbandonBatch, TypeOK
  <2>2. Held(w)' = {} /\ dispatcher'[w].pc = "next"
    BY <2>1 DEF Held, Idle
  <2>3. QED
    BY <2>1, <2>2, DistinctMoves
<1>7. ASSUME NEW h \in Hooks, \/ LockTenant(h) \/ CountWebhooks(h) \/ InsertWebhook(h)
                              \/ UpdateWebhook(h) \/ DeleteWebhook(h)
      PROVE  dispatcher' = dispatcher
  BY <1>7 DEF LockTenant, CountWebhooks, InsertWebhook, UpdateWebhook, DeleteWebhook
<1>8. ASSUME NEW e \in Events, EmitTaskEvent(e)
      PROVE  dispatcher' = dispatcher
  BY <1>8 DEF EmitTaskEvent
<1>9. ASSUME NEW d \in Deliveries, Redeliver(d) \/ ScheduleArrives(d)
      PROVE  dispatcher' = dispatcher
  BY <1>9 DEF Redeliver, ScheduleArrives
<1>10. ASSUME NEW w \in Dispatchers, LoseAnswer(w)
       PROVE  Distinct'
  <2>1. /\ dispatcher[w].pc = "post"
        /\ dispatcher'[w] = [pc |-> "fail", claim |-> dispatcher[w].claim,
                             todo |-> dispatcher[w].todo]
        /\ \A v \in Dispatchers \ {w} : dispatcher'[v] = dispatcher[v]
    BY <1>10, Loses
  <2>2. Held(w)' = Held(w)
    BY <2>1 DEF Held
  <2>3. QED
    BY <2>1, <2>2, DistinctMoves DEF Distinct
<1>11. CASE UNCHANGED vars
  BY <1>1, <1>11 DEF vars
<1>12. QED
  BY <1>1, <1>2, <1>3, <1>4, <1>5, <1>6, <1>7, <1>8, <1>9, <1>10, <1>11
     DEF Next, DispatcherNext

-----------------------------------------------------------------------------
(* What a step does to one delivery.                                       *)

SameHolders(d) == Holders(d)' = Holders(d) /\ Early(d)' = Early(d) /\ Owing(d)' = Owing(d)
SameRow(d) == delivery'[d] = delivery[d] /\ accepted'[d] = accepted[d]
SameFaults == losses' = losses /\ stalls' = stalls

Left(d) ==
  /\ SameRow(d) /\ SameHolders(d)
  /\ losses' \in {losses, losses + 1} /\ stalls' \in {stalls, stalls + 1}

Claimed(d, w) ==
  /\ delivery[d].status = "pending" /\ delivery[d].due
  /\ delivery'[d] = [status |-> "pending", attempts |-> delivery[d].attempts + 1,
                     due |-> FALSE, lease |-> {w}]
  /\ accepted'[d] = accepted[d]
  /\ w \notin Holders(d) /\ w \notin Early(d) /\ w \notin Owing(d)
  /\ Holders(d)' = Holders(d) \cup {w}
  /\ Owing(d)' = Owing(d) \cup {w}
  /\ delivery[d].attempts + 1 < MaxAttempts => Early(d)' = Early(d) \cup {w}
  /\ ~(delivery[d].attempts + 1 < MaxAttempts) => Early(d)' = Early(d)
  /\ SameFaults

Answered(d, w) ==
  /\ w \in Owing(d)
  /\ Owing(d)' = Owing(d) \ {w} /\ Holders(d)' = Holders(d) /\ Early(d)' = Early(d)
  /\ delivery'[d] = delivery[d] /\ accepted'[d] = accepted[d] + 1
  /\ SameFaults

AnswerLost(d) ==
  /\ delivery'[d] = delivery[d] /\ accepted'[d] = accepted[d] + 1
  /\ SameHolders(d) /\ Holders(d) # {}
  /\ losses' = losses + 1 /\ stalls' = stalls

Delivered(d, w) ==
  /\ w \in Holders(d) /\ w \notin Owing(d)
  /\ Holders(d)' = Holders(d) \ {w} /\ Early(d)' = Early(d) \ {w}
  /\ Owing(d)' = Owing(d)
  /\ IF delivery[d].status = "absent"
       THEN delivery'[d] = delivery[d]
       ELSE delivery'[d] = [status |-> "delivered", attempts |-> delivery[d].attempts,
                            due |-> delivery[d].due, lease |-> {}]
  /\ accepted'[d] = accepted[d]
  /\ SameFaults

Failed(d, w) ==
  /\ w \in Holders(d) /\ w \in Owing(d)
  /\ Holders(d)' = Holders(d) \ {w} /\ Early(d)' = Early(d) \ {w}
  /\ Owing(d)' = Owing(d) \ {w}
  /\ \/ delivery[d].status = "absent" /\ delivery'[d] = delivery[d]
     \/ /\ w \in Early(d) /\ delivery[d].status # "absent"
        /\ delivery'[d] = [status |-> "pending", attempts |-> delivery[d].attempts,
                           due |-> FALSE, lease |-> {}]
     \/ /\ w \notin Early(d) /\ delivery[d].status # "absent"
        /\ delivery'[d] = [status |-> "dead_letter", attempts |-> delivery[d].attempts,
                           due |-> TRUE, lease |-> {}]
  /\ accepted'[d] = accepted[d]
  /\ SameFaults

Dropped(d, w) ==
  /\ SameRow(d)
  /\ Holders(d)' = Holders(d) \ {w} /\ Early(d)' = Early(d) \ {w}
  /\ Owing(d)' = Owing(d) \ {w}
  /\ losses' = losses + 1 /\ stalls' = stalls

Emitted(d) ==
  /\ d[2] \notin emitted /\ d[2] \in emitted'
  /\ delivery'[d] = Fresh /\ accepted'[d] = accepted[d]
  /\ SameHolders(d) /\ SameFaults

Deleted(d) ==
  /\ delivery'[d] = NoRow /\ accepted'[d] = accepted[d]
  /\ SameHolders(d) /\ SameFaults

Redelivered(d) ==
  /\ delivery[d].status \in Terminal
  /\ delivery'[d] = Fresh /\ accepted'[d] = 0
  /\ redeliveries' # 0
  /\ SameHolders(d) /\ SameFaults

Arrived(d) ==
  /\ delivery[d].status = "pending" /\ ~delivery[d].due
  /\ delivery'[d] = [status |-> "pending", attempts |-> delivery[d].attempts, due |-> TRUE,
                     lease |-> {}]
  /\ accepted'[d] = accepted[d]
  /\ SameHolders(d)
  /\ losses' = losses
  /\ IF Leased(d) THEN stalls' = stalls + 1 ELSE stalls' = stalls

Change(d) ==
  \/ Left(d) \/ Emitted(d) \/ Deleted(d) \/ Redelivered(d) \/ Arrived(d) \/ AnswerLost(d)
  \/ \E w \in Dispatchers : \/ Claimed(d, w) \/ Answered(d, w) \/ Delivered(d, w)
                            \/ Failed(d, w) \/ Dropped(d, w)

LEMMA Puts ==
  ASSUME NEW r \in Row, NEW s, NEW u
  PROVE  [r EXCEPT !.status = s, !.due = u, !.lease = {}] =
           [status |-> s, attempts |-> r.attempts, due |-> u, lease |-> {}]
<1> DEFINE x == [r EXCEPT !.status = s]
           y == [x EXCEPT !.due = u]
<1>1. [r EXCEPT !.status = s, !.due = u, !.lease = {}] = [y EXCEPT !.lease = {}]
  OBVIOUS
<1>2. x = [status |-> s, attempts |-> r.attempts, due |-> r.due, lease |-> r.lease]
  BY DEF Row
<1>3. y = [status |-> s, attempts |-> r.attempts, due |-> u, lease |-> r.lease]
  <2> HIDE DEF x
  <2>1. QED
    BY <1>2
<1>4. [y EXCEPT !.lease = {}] =
        [status |-> s, attempts |-> r.attempts, due |-> u, lease |-> {}]
  <2> HIDE DEF y
  <2>1. QED
    BY <1>3
<1>5. QED
  BY <1>1, <1>4

LEMMA PutsDue ==
  ASSUME NEW r \in Row, NEW u
  PROVE  [r EXCEPT !.due = u, !.lease = {}] =
           [status |-> r.status, attempts |-> r.attempts, due |-> u, lease |-> {}]
<1> DEFINE x == [r EXCEPT !.due = u]
<1>1. [r EXCEPT !.due = u, !.lease = {}] = [x EXCEPT !.lease = {}]
  OBVIOUS
<1>2. x = [status |-> r.status, attempts |-> r.attempts, due |-> u, lease |-> r.lease]
  BY DEF Row
<1>3. [x EXCEPT !.lease = {}] =
        [status |-> r.status, attempts |-> r.attempts, due |-> u, lease |-> {}]
  <2> HIDE DEF x
  <2>1. QED
    BY <1>2
<1>4. QED
  BY <1>1, <1>3

LEMMA PutsStatus ==
  ASSUME NEW r \in Row, NEW s
  PROVE  [r EXCEPT !.status = s, !.lease = {}] =
           [status |-> s, attempts |-> r.attempts, due |-> r.due, lease |-> {}]
<1> DEFINE x == [r EXCEPT !.status = s]
<1>1. [r EXCEPT !.status = s, !.lease = {}] = [x EXCEPT !.lease = {}]
  OBVIOUS
<1>2. x = [status |-> s, attempts |-> r.attempts, due |-> r.due, lease |-> r.lease]
  BY DEF Row
<1>3. [x EXCEPT !.lease = {}] =
        [status |-> s, attempts |-> r.attempts, due |-> r.due, lease |-> {}]
  <2> HIDE DEF x
  <2>1. QED
    BY <1>2
<1>4. QED
  BY <1>1, <1>3

LEMMA Changes ==
  ASSUME TypeOK, Distinct, [Next]_vars, NEW d \in Deliveries
  PROVE  Change(d)
<1>1. ASSUME NEW h \in Hooks, \/ LockTenant(h) \/ CountWebhooks(h) \/ InsertWebhook(h)
                              \/ UpdateWebhook(h)
      PROVE  Left(d)
  <2>1. /\ delivery' = delivery /\ accepted' = accepted /\ dispatcher' = dispatcher
        /\ losses' = losses /\ stalls' = stalls
    BY <1>1 DEF LockTenant, CountWebhooks, InsertWebhook, UpdateWebhook, budgetVars
  <2>2. SameHolders(d)
    BY <2>1, Still DEF SameHolders
  <2>3. QED
    BY <2>1, <2>2 DEF Left, SameRow
<1>2. ASSUME NEW h \in Hooks, DeleteWebhook(h)
      PROVE  Left(d) \/ Deleted(d)
  <2>1. /\ accepted' = accepted /\ dispatcher' = dispatcher
        /\ losses' = losses /\ stalls' = stalls
        /\ delivery'[d] = NoRow \/ delivery'[d] = delivery[d]
    BY <1>2 DEF DeleteWebhook, budgetVars
  <2>2. SameHolders(d)
    BY <2>1, Still DEF SameHolders
  <2>3. QED
    BY <2>1, <2>2 DEF Left, Deleted, SameRow, SameFaults
<1>3. ASSUME NEW e \in Events, EmitTaskEvent(e)
      PROVE  Left(d) \/ Emitted(d)
  <2>1. /\ accepted' = accepted /\ dispatcher' = dispatcher
        /\ losses' = losses /\ stalls' = stalls
        /\ e \notin emitted /\ emitted' = emitted \cup {e}
        /\ \/ d[2] = e /\ delivery'[d] = Fresh
           \/ delivery'[d] = delivery[d]
    BY <1>3 DEF EmitTaskEvent, budgetVars
  <2>2. SameHolders(d)
    BY <2>1, Still DEF SameHolders
  <2>3. QED
    BY <2>1, <2>2 DEF Left, Emitted, SameRow, SameFaults
<1>4. ASSUME NEW w \in Dispatchers, ClaimPending(w)
      PROVE  Left(d) \/ Claimed(d, w)
  <2>1. PICK S \in SUBSET Due : Takes(w, S)
    BY <1>4, TakesBatch
  <2>2. /\ accepted' = accepted /\ losses' = losses /\ stalls' = stalls
        /\ dispatcher[w] = Idle
    BY <1>4 DEF ClaimPending, budgetVars
  <2>3. CASE d \notin S
    <3>1. delivery'[d] = delivery[d]
      BY <2>1, <2>3 DEF Takes
    <3>2. SameHolders(d)
      BY <2>1, <2>2, <2>3, TakesAdds DEF SameHolders
    <3>3. QED
      BY <2>2, <3>1, <3>2 DEF Left, SameRow
  <2>4. CASE d \in S
    <3>1. delivery[d].status = "pending" /\ delivery[d].due
      BY <2>1, <2>4 DEF Due
    <3>2. delivery'[d] = [status |-> "pending", attempts |-> delivery[d].attempts + 1,
                          due |-> FALSE, lease |-> {w}]
      BY <2>1, <2>4 DEF Takes
    <3>3. QED
      BY <2>1, <2>2, <2>4, <3>1, <3>2, TakesAdds DEF Claimed, SameFaults
  <2>5. QED
    BY <2>3, <2>4
<1>5. ASSUME NEW w \in Dispatchers, LoadWebhook(w)
      PROVE  Left(d)
  <2>1. SameHolders(d)
    BY <1>5, LoadKeeps DEF SameHolders
  <2>2. QED
    BY <1>5, <2>1 DEF Left, SameRow, LoadWebhook, budgetVars
<1>6. ASSUME NEW w \in Dispatchers, Post(w)
      PROVE  Left(d) \/ Answered(d, w)
  <2>1. delivery' = delivery /\ losses' = losses /\ stalls' = stalls
    BY <1>6 DEF Post, budgetVars
  <2>2. QED
    BY <1>6, <2>1, PostKeeps DEF Left, Answered, SameRow, SameHolders, SameFaults
<1>7. ASSUME NEW w \in Dispatchers, MarkDelivered(w)
      PROVE  Left(d) \/ Delivered(d, w)
  <2> DEFINE k == dispatcher[w].claim.id
  <2>1. /\ Advance(w) /\ dispatcher[w].pc = "mark"
        /\ accepted' = accepted /\ losses' = losses /\ stalls' = stalls
        /\ delivery' = IF InTable(k)
                         THEN [delivery EXCEPT ![k] =
                                 [delivery[k] EXCEPT !.status = "delivered", !.lease = {}]]
                         ELSE delivery
    BY <1>7 DEF MarkDelivered, budgetVars
  <2>2. CASE d # k
    <3>1. delivery'[d] = delivery[d]
      BY <2>1, <2>2 DEF TypeOK
    <3>2. SameHolders(d)
      BY <2>1, <2>2, AdvanceDrops DEF SameHolders
    <3>3. QED
      BY <2>1, <3>1, <3>2 DEF Left, SameRow
  <2>3. CASE d = k
    <3>1. IF delivery[d].status = "absent"
            THEN delivery'[d] = delivery[d]
            ELSE delivery'[d] = [status |-> "delivered", attempts |-> delivery[d].attempts,
                                 due |-> delivery[d].due, lease |-> {}]
      <4>1. delivery[d] \in Row
        BY DEF TypeOK
      <4>2. [delivery[d] EXCEPT !.status = "delivered", !.lease = {}] =
              [status |-> "delivered", attempts |-> delivery[d].attempts,
               due |-> delivery[d].due, lease |-> {}]
        BY <4>1, PutsStatus
      <4> HIDE DEF k
      <4>3. CASE delivery[d].status = "absent"
        BY <2>1, <2>3, <4>3 DEF InTable
      <4>4. CASE delivery[d].status # "absent"
        BY <2>1, <2>3, <4>2, <4>4 DEF InTable, TypeOK
      <4>5. QED
        BY <4>3, <4>4
    <3>2. QED
      BY <2>1, <2>3, <3>1, AdvanceDrops DEF Delivered, SameFaults
  <2>4. QED
    BY <2>2, <2>3
<1>8. ASSUME NEW w \in Dispatchers, FailDelivery(w)
      PROVE  Left(d) \/ Failed(d, w)
  <2> DEFINE k == dispatcher[w].claim.id
             a == dispatcher[w].claim.attempt
  <2>1. /\ Advance(w) /\ dispatcher[w].pc = "fail"
        /\ accepted' = accepted /\ losses' = losses /\ stalls' = stalls
        /\ delivery' = IF InTable(k)
                         THEN [delivery EXCEPT ![k] =
                                 [delivery[k] EXCEPT !.status = AfterFailure(a),
                                                     !.due = a >= MaxAttempts,
                                                     !.lease = {}]]
                         ELSE delivery
    BY <1>8 DEF FailDelivery, budgetVars
  <2>2. CASE d # k
    <3>1. delivery'[d] = delivery[d]
      BY <2>1, <2>2 DEF TypeOK
    <3>2. SameHolders(d)
      BY <2>1, <2>2, AdvanceDrops DEF SameHolders
    <3>3. QED
      BY <2>1, <3>1, <3>2 DEF Left, SameRow
  <2>3. CASE d = k
    <3>1. a \in Nat /\ MaxAttempts \in Nat
      BY <2>1, Shapes, Claims, WebhooksAssumption DEF WebhooksAssumption
    <3>2. w \in Early(d) <=> a < MaxAttempts
      BY <2>1, <2>3, AdvanceDrops
    <3>3. \/ delivery[d].status = "absent" /\ delivery'[d] = delivery[d]
          \/ /\ a < MaxAttempts /\ delivery[d].status # "absent"
             /\ delivery'[d] = [status |-> "pending", attempts |-> delivery[d].attempts,
                                due |-> FALSE, lease |-> {}]
          \/ /\ ~(a < MaxAttempts) /\ delivery[d].status # "absent"
             /\ delivery'[d] = [status |-> "dead_letter", attempts |-> delivery[d].attempts,
                                due |-> TRUE, lease |-> {}]
      <4> DEFINE s == AfterFailure(a)
                 u == a >= MaxAttempts
      <4>1. delivery[d] \in Row
        BY DEF TypeOK
      <4>2. \/ a < MaxAttempts /\ s = "pending" /\ u = FALSE
            \/ ~(a < MaxAttempts) /\ s = "dead_letter" /\ u = TRUE
        BY <3>1 DEF AfterFailure
      <4>3. delivery' = IF InTable(k)
                          THEN [delivery EXCEPT ![k] =
                                  [delivery[k] EXCEPT !.status = s, !.due = u, !.lease = {}]]
                          ELSE delivery
        BY <2>1
      <4> HIDE DEF s, u, k, a
      <4>4. [delivery[d] EXCEPT !.status = s, !.due = u, !.lease = {}] =
              [status |-> s, attempts |-> delivery[d].attempts, due |-> u, lease |-> {}]
        BY <4>1, Puts
      <4>5. CASE delivery[d].status = "absent"
        BY <2>3, <4>3, <4>5 DEF InTable
      <4>6. CASE delivery[d].status # "absent"
        <5>1. delivery'[d] = [status |-> s, attempts |-> delivery[d].attempts, due |-> u,
                              lease |-> {}]
          BY <2>3, <4>3, <4>4, <4>6 DEF InTable, TypeOK
        <5>2. QED
          BY <4>2, <4>6, <5>1
      <4>7. QED
        BY <4>5, <4>6
    <3>4. QED
      BY <2>1, <2>3, <3>2, <3>3, AdvanceDrops DEF Failed, SameFaults
  <2>4. QED
    BY <2>2, <2>3
<1>9. ASSUME NEW w \in Dispatchers, AbandonBatch(w)
      PROVE  Dropped(d, w)
  <2>1. /\ losses' = losses + 1 /\ stalls' = stalls
        /\ delivery' = delivery /\ accepted' = accepted
    BY <1>9 DEF AbandonBatch
  <2>2. QED
    BY <1>9, <2>1, AbandonDrops DEF Dropped, SameRow
<1>10. ASSUME NEW b \in Deliveries, Redeliver(b)
       PROVE  Left(d) \/ Redelivered(d)
  <2>1. /\ dispatcher' = dispatcher /\ losses' = losses /\ stalls' = stalls
        /\ delivery[b].status \in Terminal
        /\ delivery' = [delivery EXCEPT ![b] = Fresh]
        /\ accepted' = [accepted EXCEPT ![b] = 0]
    BY <1>10 DEF Redeliver, Redeliverable
  <2>2. SameHolders(d)
    BY <2>1, Still DEF SameHolders
  <2>6. redeliveries' # 0
    BY <1>10 DEF Redeliver, TypeOK
  <2>3. CASE d = b
    BY <2>1, <2>2, <2>3, <2>6 DEF Redelivered, SameFaults, TypeOK
  <2>4. CASE d # b
    BY <2>1, <2>2, <2>4 DEF Left, SameRow, TypeOK
  <2>5. QED
    BY <2>3, <2>4
<1>11. ASSUME NEW b \in Deliveries, ScheduleArrives(b)
       PROVE  Left(d) \/ Arrived(d)
  <2>1. /\ dispatcher' = dispatcher /\ losses' = losses /\ accepted' = accepted
        /\ delivery[b].status = "pending" /\ ~delivery[b].due
        /\ delivery' = [delivery EXCEPT ![b] =
                          [delivery[b] EXCEPT !.due = TRUE, !.lease = {}]]
        /\ IF Leased(b) THEN stalls' = stalls + 1 ELSE stalls' = stalls
    BY <1>11 DEF ScheduleArrives
  <2>2. SameHolders(d)
    BY <2>1, Still DEF SameHolders
  <2>3. CASE d = b
    <3>1. delivery[d] \in Row
      BY DEF TypeOK
    <3>2. [delivery[d] EXCEPT !.due = TRUE, !.lease = {}] =
            [status |-> delivery[d].status, attempts |-> delivery[d].attempts, due |-> TRUE,
             lease |-> {}]
      BY <3>1, PutsDue
    <3>3. delivery'[d] = [delivery[d] EXCEPT !.due = TRUE, !.lease = {}]
      BY <2>1, <2>3 DEF TypeOK
    <3>4. IF Leased(d) THEN stalls' = stalls + 1 ELSE stalls' = stalls
      BY <2>1, <2>3
    <3>5. QED
      BY <2>1, <2>2, <2>3, <3>2, <3>3, <3>4 DEF Arrived
  <2>4. CASE d # b
    BY <2>1, <2>2, <2>4 DEF Left, SameRow, TypeOK
  <2>5. QED
    BY <2>3, <2>4
<1>12. ASSUME NEW w \in Dispatchers, LoseAnswer(w)
       PROVE  Left(d) \/ AnswerLost(d)
  <2>1. delivery' = delivery /\ losses' = losses + 1 /\ stalls' = stalls
    BY <1>12 DEF LoseAnswer
  <2>2. /\ SameHolders(d)
        /\ \/ accepted'[d] = accepted[d]
           \/ accepted'[d] = accepted[d] + 1 /\ Holders(d) # {}
    BY <1>12, LoseKeeps DEF SameHolders
  <2>3. QED
    BY <2>1, <2>2 DEF Left, AnswerLost, SameRow
<1>13. CASE UNCHANGED vars
  <2>1. SameHolders(d)
    BY <1>13, Still DEF SameHolders, vars
  <2>2. QED
    BY <1>13, <2>1 DEF Left, SameRow, Change, vars
<1>14. QED
  <2>1. CASE UNCHANGED vars
    BY <1>13, <2>1
  <2>2. CASE \E h \in Hooks : \/ LockTenant(h) \/ CountWebhooks(h) \/ InsertWebhook(h)
                              \/ UpdateWebhook(h) \/ DeleteWebhook(h)
    BY <1>1, <1>2, <2>2 DEF Change
  <2>3. CASE \E e \in Events : EmitTaskEvent(e)
    BY <1>3, <2>3 DEF Change
  <2>4. CASE \E w \in Dispatchers : DispatcherNext(w) \/ LoseAnswer(w) \/ AbandonBatch(w)
    BY <1>4, <1>5, <1>6, <1>7, <1>8, <1>9, <1>12, <2>4 DEF DispatcherNext, Change
  <2>5. CASE \E b \in Deliveries : Redeliver(b) \/ ScheduleArrives(b)
    BY <1>10, <1>11, <2>5 DEF Change
  <2>6. QED
    BY <2>1, <2>2, <2>3, <2>4, <2>5 DEF Next

-----------------------------------------------------------------------------
(* The ledger of a delivery.                                               *)

\* No row, no answer and no claim before the event.
Unborn ==
  \A d \in Deliveries :
    /\ delivery[d].status = "absent" => delivery[d] = NoRow
    /\ d[2] \notin emitted => /\ delivery[d] = NoRow /\ accepted[d] = 0
                              /\ Holders(d) = {}

\* May be claimed again without a crash or an outlasted lease to come: it is
\* due, or waits for a backoff, or for the lease of one who is gone.
Claimable(d) == delivery[d].status = "pending" /\ (delivery[d].due \/ ~Leased(d))

HoldersPaid(d) ==
  /\ Cardinality(Holders(d)) <= 1 + stalls
  /\ delivery[d].status \in Terminal => Cardinality(Holders(d)) <= stalls
  /\ Claimable(d) => Cardinality(Holders(d)) <= stalls

AttemptsPaid(d) ==
  delivery[d].attempts >= MaxAttempts =>
    /\ delivery[d].attempts + Cardinality(Early(d)) <= MaxAttempts + losses + stalls
    /\ Claimable(d) =>
         delivery[d].attempts + Cardinality(Early(d)) < MaxAttempts + losses + stalls

AnswersPaid(d) ==
  /\ accepted[d] + Cardinality(Owing(d)) <= 1 + losses + stalls
  /\ Claimable(d) => accepted[d] + Cardinality(Owing(d)) <= losses + stalls

Ledger(d) == HoldersPaid(d) /\ AttemptsPaid(d) /\ AnswersPaid(d)

LEMMA Sizes ==
  ASSUME Finitely, NEW S \in SUBSET Dispatchers
  PROVE  /\ Cardinality(S) \in Nat
         /\ Cardinality(S) = 0 <=> S = {}
         /\ \A w \in S : Cardinality(S \ {w}) = Cardinality(S) - 1
         /\ \A w \in Dispatchers \ S : Cardinality(S \cup {w}) = Cardinality(S) + 1
         /\ \A T \in SUBSET S : Cardinality(T) <= Cardinality(S)
<1>1. IsFiniteSet(S)
  BY FS_Subset DEF Finitely
<1>2. QED
  BY <1>1, FS_CardinalityType, FS_EmptySet, FS_RemoveElement, FS_AddElement, FS_Subset

LEMMA Numbers ==
  ASSUME Finitely, TypeOK, NEW d \in Deliveries
  PROVE  /\ Holders(d) \in SUBSET Dispatchers
         /\ Early(d) \in SUBSET Holders(d) /\ Owing(d) \in SUBSET Holders(d)
         /\ Cardinality(Holders(d)) \in Nat
         /\ Cardinality(Early(d)) \in Nat /\ Cardinality(Early(d)) <= Cardinality(Holders(d))
         /\ Cardinality(Owing(d)) \in Nat /\ Cardinality(Owing(d)) <= Cardinality(Holders(d))
         /\ Cardinality(Holders(d)) = 0 <=> Holders(d) = {}
         /\ delivery[d].attempts \in Nat /\ accepted[d] \in Nat
         /\ losses \in Nat /\ stalls \in Nat /\ MaxAttempts \in Nat \ {0}
<1>1. /\ Holders(d) \in SUBSET Dispatchers
      /\ Early(d) \in SUBSET Holders(d) /\ Owing(d) \in SUBSET Holders(d)
  BY HoldsHeld DEF Holders, Early, Owing
<1>2. Early(d) \in SUBSET Dispatchers /\ Owing(d) \in SUBSET Dispatchers
  BY <1>1
<1>3. /\ Cardinality(Holders(d)) \in Nat
      /\ Cardinality(Early(d)) \in Nat /\ Cardinality(Early(d)) <= Cardinality(Holders(d))
      /\ Cardinality(Owing(d)) \in Nat /\ Cardinality(Owing(d)) <= Cardinality(Holders(d))
      /\ Cardinality(Holders(d)) = 0 <=> Holders(d) = {}
  BY <1>1, <1>2, Sizes
<1>4. losses \in Nat /\ stalls \in Nat /\ MaxAttempts \in Nat \ {0}
  BY WebhooksAssumption DEF TypeOK, WebhooksAssumption
<1>5. QED
  BY <1>1, <1>3, <1>4, Rows

\* The lease of a row is that of a holder.
LEMMA Leases ==
  ASSUME TypeOK, NEW d \in Deliveries
  PROVE  Leased(d) <=> delivery[d].lease \cap Holders(d) # {}
<1>1. delivery[d].lease \in SUBSET Dispatchers
  BY Rows
<1>2. QED
  BY <1>1 DEF Leased, Holders

\* A row that is left alone stays what it was while its holders stay.
LEMMA LeasesStay ==
  ASSUME TypeOK, TypeOK', NEW d \in Deliveries, delivery'[d] = delivery[d],
         Holders(d)' = Holders(d)
  PROVE  Claimable(d)' <=> Claimable(d)
<1>1. Leased(d) <=> delivery[d].lease \cap Holders(d) # {}
  BY Leases
<1>2. Leased(d)' <=> delivery'[d].lease \cap Holders(d)' # {}
  <2>1. delivery'[d].lease \in SUBSET Dispatchers
    BY DEF TypeOK, Row
  <2>2. QED
    BY <2>1 DEF Leased, Holders
<1>3. QED
  BY <1>1, <1>2 DEF Claimable

LEMMA LedgerLeft ==
  ASSUME Finitely, TypeOK, TypeOK', NEW d \in Deliveries, Ledger(d), Left(d)
  PROVE  Ledger(d)'
<1>1. /\ delivery'[d] = delivery[d] /\ accepted'[d] = accepted[d]
      /\ Holders(d)' = Holders(d) /\ Early(d)' = Early(d) /\ Owing(d)' = Owing(d)
      /\ losses' \in {losses, losses + 1} /\ stalls' \in {stalls, stalls + 1}
  BY DEF Left, SameRow, SameHolders
<1>2. Claimable(d)' <=> Claimable(d)
  BY <1>1, LeasesStay
<1>3. HoldersPaid(d)'
  BY <1>1, <1>2, Numbers DEF Ledger, HoldersPaid
<1>4. AttemptsPaid(d)'
  BY <1>1, <1>2, Numbers DEF Ledger, AttemptsPaid
<1>5. AnswersPaid(d)'
  BY <1>1, <1>2, Numbers DEF Ledger, AnswersPaid
<1>6. QED
  BY <1>3, <1>4, <1>5 DEF Ledger

LEMMA LedgerClaimed ==
  ASSUME Finitely, TypeOK, NEW d \in Deliveries, Ledger(d), NEW w \in Dispatchers, Claimed(d, w)
  PROVE  Ledger(d)'
<1>1. /\ delivery[d].status = "pending" /\ delivery[d].due
      /\ delivery'[d].status = "pending" /\ delivery'[d].due = FALSE
      /\ delivery'[d].attempts = delivery[d].attempts + 1
      /\ accepted'[d] = accepted[d] /\ losses' = losses /\ stalls' = stalls
      /\ delivery'[d].lease = {w} /\ w \in Holders(d)'
  BY DEF Claimed, SameFaults
<1>2. /\ Cardinality(Holders(d)') = Cardinality(Holders(d)) + 1
      /\ Cardinality(Owing(d)') = Cardinality(Owing(d)) + 1
  <2>1. /\ Holders(d)' = Holders(d) \cup {w} /\ w \notin Holders(d)
        /\ Owing(d)' = Owing(d) \cup {w} /\ w \notin Owing(d)
    BY DEF Claimed
  <2>2. Owing(d) \in SUBSET Dispatchers /\ Holders(d) \in SUBSET Dispatchers
    BY Numbers
  <2>3. QED
    BY <2>1, <2>2, Sizes
<1>3. \/ /\ delivery[d].attempts + 1 < MaxAttempts
      \/ /\ ~(delivery[d].attempts + 1 < MaxAttempts) /\ Early(d)' = Early(d)
  BY DEF Claimed
<1>4. ~Claimable(d)' /\ Claimable(d)
  <2>1. Leased(d)'
    BY <1>1 DEF Leased, Holders
  <2>2. QED
    BY <1>1, <2>1 DEF Claimable
<1>5. HoldersPaid(d)'
  BY <1>1, <1>2, <1>4, Numbers DEF Ledger, HoldersPaid, Terminal
<1>6. AttemptsPaid(d)'
  <2>1. CASE delivery[d].attempts + 1 < MaxAttempts
    BY <1>1, <2>1, Numbers DEF AttemptsPaid
  <2>2. CASE ~(delivery[d].attempts + 1 < MaxAttempts) /\ Early(d)' = Early(d)
    <3>1. CASE delivery[d].attempts >= MaxAttempts
      BY <1>1, <1>4, <2>2, <3>1, Numbers DEF Ledger, AttemptsPaid
    <3>2. CASE ~(delivery[d].attempts >= MaxAttempts)
      <4>1. delivery[d].attempts + 1 = MaxAttempts
        BY <2>2, <3>2, Numbers
      <4>2. Cardinality(Early(d)) <= stalls
        BY <1>1, <1>4, Numbers DEF Ledger, HoldersPaid
      <4>3. QED
        BY <1>1, <1>4, <2>2, <4>1, <4>2, Numbers DEF AttemptsPaid
    <3>3. QED
      BY <3>1, <3>2
  <2>3. QED
    BY <1>3, <2>1, <2>2
<1>7. AnswersPaid(d)'
  BY <1>1, <1>2, <1>4, Numbers DEF Ledger, AnswersPaid
<1>8. QED
  BY <1>5, <1>6, <1>7 DEF Ledger

LEMMA LedgerAnswered ==
  ASSUME Finitely, TypeOK, TypeOK', NEW d \in Deliveries, Ledger(d), NEW w \in Dispatchers,
         Answered(d, w)
  PROVE  Ledger(d)'
<1>1. /\ delivery'[d] = delivery[d] /\ accepted'[d] = accepted[d] + 1
      /\ Holders(d)' = Holders(d) /\ Early(d)' = Early(d)
      /\ losses' = losses /\ stalls' = stalls
  BY DEF Answered, SameFaults
<1>2. Cardinality(Owing(d)') = Cardinality(Owing(d)) - 1
  <2>1. Owing(d)' = Owing(d) \ {w} /\ w \in Owing(d) /\ Owing(d) \in SUBSET Dispatchers
    BY Numbers DEF Answered
  <2>2. QED
    BY <2>1, Sizes
<1>3. Claimable(d)' <=> Claimable(d)
  BY <1>1, LeasesStay
<1>4. HoldersPaid(d)'
  BY <1>1, <1>3 DEF Ledger, HoldersPaid
<1>5. AttemptsPaid(d)'
  BY <1>1, <1>3 DEF Ledger, AttemptsPaid
<1>6. AnswersPaid(d)'
  BY <1>1, <1>2, <1>3, Numbers DEF Ledger, AnswersPaid
<1>7. QED
  BY <1>4, <1>5, <1>6 DEF Ledger

\* An answer that is lost is paid for when it is lost.
LEMMA LedgerAnswerLost ==
  ASSUME Finitely, TypeOK, TypeOK', NEW d \in Deliveries, Ledger(d), AnswerLost(d)
  PROVE  Ledger(d)'
<1>1. /\ delivery'[d] = delivery[d] /\ accepted'[d] = accepted[d] + 1
      /\ Holders(d)' = Holders(d) /\ Early(d)' = Early(d) /\ Owing(d)' = Owing(d)
      /\ losses' = losses + 1 /\ stalls' = stalls
  BY DEF AnswerLost, SameHolders
<1>2. Claimable(d)' <=> Claimable(d)
  BY <1>1, LeasesStay
<1>3. HoldersPaid(d)'
  BY <1>1, <1>2 DEF Ledger, HoldersPaid
<1>4. AttemptsPaid(d)'
  BY <1>1, <1>2, Numbers DEF Ledger, AttemptsPaid
<1>5. AnswersPaid(d)'
  BY <1>1, <1>2, Numbers DEF Ledger, AnswersPaid
<1>6. QED
  BY <1>3, <1>4, <1>5 DEF Ledger

LEMMA LedgerDelivered ==
  ASSUME Finitely, TypeOK, NEW d \in Deliveries, Ledger(d), NEW w \in Dispatchers, Delivered(d, w)
  PROVE  Ledger(d)'
<1>1. /\ accepted'[d] = accepted[d] /\ losses' = losses /\ stalls' = stalls
      /\ Owing(d)' = Owing(d)
      /\ delivery'[d].status \in {"absent", "delivered"}
      /\ delivery'[d].attempts = delivery[d].attempts
  BY DEF Delivered, SameFaults
<1>2. /\ Cardinality(Holders(d)') = Cardinality(Holders(d)) - 1
      /\ Cardinality(Early(d)') <= Cardinality(Early(d)) /\ Cardinality(Early(d)') \in Nat
  <2>1. /\ Holders(d)' = Holders(d) \ {w} /\ w \in Holders(d)
        /\ Early(d)' \in SUBSET Early(d)
    BY DEF Delivered
  <2>2. /\ Holders(d) \in SUBSET Dispatchers /\ Early(d) \in SUBSET Dispatchers
        /\ Early(d)' \in SUBSET Dispatchers
    BY <2>1, Numbers
  <2>3. QED
    BY <2>1, <2>2, Sizes
<1>3. ~Claimable(d)'
  BY <1>1 DEF Claimable
<1>4. HoldersPaid(d)'
  BY <1>1, <1>2, <1>3, Numbers DEF Ledger, HoldersPaid
<1>5. AttemptsPaid(d)'
  BY <1>1, <1>2, <1>3, Numbers DEF Ledger, AttemptsPaid
<1>6. AnswersPaid(d)'
  BY <1>1, <1>3, Numbers DEF Ledger, AnswersPaid
<1>7. QED
  BY <1>4, <1>5, <1>6 DEF Ledger

LEMMA LedgerFailed ==
  ASSUME Finitely, TypeOK, Unborn, NEW d \in Deliveries, Ledger(d), NEW w \in Dispatchers,
         Failed(d, w)
  PROVE  Ledger(d)'
<1>1. /\ accepted'[d] = accepted[d] /\ losses' = losses /\ stalls' = stalls
      /\ delivery'[d].attempts = delivery[d].attempts
      /\ delivery'[d].status = "pending" => delivery'[d].due = FALSE
  BY DEF Failed, SameFaults
<1>2. \/ delivery[d].attempts = 0 /\ delivery'[d].status = "absent"
      \/ w \in Early(d) /\ delivery'[d].status = "pending"
      \/ w \notin Early(d) /\ delivery'[d].status = "dead_letter"
  BY DEF Failed, Unborn, NoRow
<1>3. /\ Holders(d)' = Holders(d) \ {w} /\ w \in Holders(d)
      /\ Early(d)' = Early(d) \ {w}
      /\ Owing(d)' = Owing(d) \ {w} /\ w \in Owing(d)
      /\ Holders(d) \in SUBSET Dispatchers /\ Early(d) \in SUBSET Dispatchers
      /\ Owing(d) \in SUBSET Dispatchers
  BY Numbers DEF Failed
<1>4. /\ Cardinality(Holders(d)') = Cardinality(Holders(d)) - 1
      /\ Cardinality(Owing(d)') = Cardinality(Owing(d)) - 1
  BY <1>3, Sizes
<1>5. /\ w \in Early(d) => Cardinality(Early(d)') = Cardinality(Early(d)) - 1
      /\ w \notin Early(d) => Early(d)' = Early(d)
  BY <1>3, Sizes
<1>6. HoldersPaid(d)'
  BY <1>1, <1>4, Numbers DEF Ledger, HoldersPaid
<1>7. AttemptsPaid(d)'
  <2>1. CASE delivery[d].attempts = 0 /\ delivery'[d].status = "absent"
    BY <1>1, <2>1, Numbers DEF AttemptsPaid
  <2>2. CASE w \in Early(d) /\ delivery'[d].status = "pending"
    BY <1>1, <1>5, <2>2, Numbers DEF Ledger, AttemptsPaid
  <2>3. CASE w \notin Early(d) /\ delivery'[d].status = "dead_letter"
    BY <1>1, <1>5, <2>3, Numbers DEF Ledger, AttemptsPaid, Claimable
  <2>4. QED
    BY <1>2, <2>1, <2>2, <2>3
<1>8. AnswersPaid(d)'
  BY <1>1, <1>4, Numbers DEF Ledger, AnswersPaid
<1>9. QED
  BY <1>6, <1>7, <1>8 DEF Ledger

LEMMA LedgerDropped ==
  ASSUME Finitely, TypeOK, TypeOK', NEW d \in Deliveries, Ledger(d), NEW w \in Dispatchers,
         Dropped(d, w)
  PROVE  Ledger(d)'
<1>1. /\ delivery'[d] = delivery[d] /\ accepted'[d] = accepted[d]
      /\ losses' = losses + 1 /\ stalls' = stalls
  BY DEF Dropped, SameRow
<1>2. /\ Cardinality(Holders(d)') <= Cardinality(Holders(d)) /\ Cardinality(Holders(d)') \in Nat
      /\ Cardinality(Early(d)') <= Cardinality(Early(d)) /\ Cardinality(Early(d)') \in Nat
      /\ Cardinality(Owing(d)') <= Cardinality(Owing(d)) /\ Cardinality(Owing(d)') \in Nat
  <2>1. /\ Holders(d)' \in SUBSET Holders(d) /\ Early(d)' \in SUBSET Early(d)
        /\ Owing(d)' \in SUBSET Owing(d)
    BY DEF Dropped
  <2>2. /\ Holders(d) \in SUBSET Dispatchers /\ Early(d) \in SUBSET Dispatchers
        /\ Owing(d) \in SUBSET Dispatchers
    BY Numbers
  <2>3. /\ Holders(d)' \in SUBSET Dispatchers /\ Early(d)' \in SUBSET Dispatchers
        /\ Owing(d)' \in SUBSET Dispatchers
    BY <2>1, <2>2
  <2>4. QED
    BY <2>1, <2>2, <2>3, Sizes
<1>3. HoldersPaid(d)'
  <2>1. Cardinality(Holders(d)') <= 1 + stalls'
    BY <1>1, <1>2, Numbers DEF Ledger, HoldersPaid
  <2>2. delivery'[d].status \in Terminal => Cardinality(Holders(d)') <= stalls'
    BY <1>1, <1>2, Numbers DEF Ledger, HoldersPaid
  <2>3. Claimable(d)' => Cardinality(Holders(d)') <= stalls'
    <3>1. CASE Claimable(d)
      BY <1>1, <1>2, <3>1, Numbers DEF Ledger, HoldersPaid
    <3>2. CASE ~Claimable(d) /\ w \in Holders(d)
      <4>1. Cardinality(Holders(d)') = Cardinality(Holders(d)) - 1
        <5>1. Holders(d)' = Holders(d) \ {w} /\ Holders(d) \in SUBSET Dispatchers
          BY Numbers DEF Dropped
        <5>2. QED
          BY <3>2, <5>1, Sizes
      <4>2. QED
        BY <1>1, <4>1, Numbers DEF Ledger, HoldersPaid
    <3>3. CASE ~Claimable(d) /\ w \notin Holders(d)
      <4>1. Holders(d)' = Holders(d)
        BY <3>3 DEF Dropped
      <4>2. QED
        BY <1>1, <3>3, <4>1, LeasesStay
    <3>4. QED
      BY <3>1, <3>2, <3>3
  <2>4. QED
    BY <2>1, <2>2, <2>3 DEF HoldersPaid
<1>4. AttemptsPaid(d)'
  BY <1>1, <1>2, Numbers DEF Ledger, AttemptsPaid
<1>5. AnswersPaid(d)'
  BY <1>1, <1>2, Numbers DEF Ledger, AnswersPaid
<1>6. QED
  BY <1>3, <1>4, <1>5 DEF Ledger

LEMMA LedgerFresh ==
  ASSUME Finitely, TypeOK, Unborn, NEW d \in Deliveries, Ledger(d),
         Emitted(d) \/ Deleted(d) \/ Redelivered(d)
  PROVE  Ledger(d)'
<1>1. /\ Holders(d)' = Holders(d) /\ Early(d)' = Early(d) /\ Owing(d)' = Owing(d)
      /\ losses' = losses /\ stalls' = stalls
      /\ delivery'[d].attempts = 0
  BY DEF Emitted, Deleted, Redelivered, SameHolders, SameFaults, Fresh, NoRow
<1>2. \/ delivery'[d].status = "absent" /\ accepted'[d] = accepted[d]
      \/ delivery'[d].status = "pending" /\ accepted'[d] = 0 /\ Cardinality(Holders(d)) <= stalls
  <2>1. CASE Emitted(d)
    <3>1. Holders(d) = {} /\ accepted[d] = 0
      BY <2>1 DEF Emitted, Unborn
    <3>2. QED
      BY <2>1, <3>1, Numbers DEF Emitted, Fresh
  <2>2. CASE Deleted(d)
    BY <2>2 DEF Deleted, NoRow
  <2>3. CASE Redelivered(d)
    BY <2>3 DEF Redelivered, Fresh, Ledger, HoldersPaid
  <2>4. QED
    BY <2>1, <2>2, <2>3
<1>3. Claimable(d)' => delivery'[d].status = "pending"
  BY DEF Claimable
<1>4. HoldersPaid(d)'
  BY <1>1, <1>2, <1>3, Numbers DEF Ledger, HoldersPaid, Terminal
<1>5. AttemptsPaid(d)'
  BY <1>1, Numbers DEF AttemptsPaid
<1>6. AnswersPaid(d)'
  BY <1>1, <1>2, <1>3, Numbers DEF Ledger, AnswersPaid
<1>7. QED
  BY <1>4, <1>5, <1>6 DEF Ledger

LEMMA LedgerArrived ==
  ASSUME Finitely, TypeOK, NEW d \in Deliveries, Ledger(d), Arrived(d)
  PROVE  Ledger(d)'
<1>1. /\ Holders(d)' = Holders(d) /\ Early(d)' = Early(d) /\ Owing(d)' = Owing(d)
      /\ delivery[d].status = "pending"
      /\ delivery'[d].status = "pending" /\ delivery'[d].attempts = delivery[d].attempts
      /\ accepted'[d] = accepted[d] /\ losses' = losses
  BY DEF Arrived, SameHolders
<1>2. \/ Claimable(d) /\ stalls' = stalls
      \/ stalls' = stalls + 1
  BY <1>1 DEF Arrived, Claimable
<1>3. HoldersPaid(d)'
  BY <1>1, <1>2, Numbers DEF Ledger, HoldersPaid, Terminal
<1>4. AttemptsPaid(d)'
  BY <1>1, <1>2, Numbers DEF Ledger, AttemptsPaid
<1>5. AnswersPaid(d)'
  BY <1>1, <1>2, Numbers DEF Ledger, AnswersPaid
<1>6. QED
  BY <1>3, <1>4, <1>5 DEF Ledger

LEMMA LedgerStep ==
  ASSUME Finitely, TypeOK, Distinct, Unborn, [Next]_vars, NEW d \in Deliveries, Ledger(d)
  PROVE  Ledger(d)'
<1>1. Change(d)
  BY Changes
<1>2. CASE Left(d) \/ Arrived(d) \/ AnswerLost(d)
  BY <1>2, TypeStep, LedgerLeft, LedgerArrived, LedgerAnswerLost
<1>3. CASE Emitted(d) \/ Deleted(d) \/ Redelivered(d)
  BY <1>3, LedgerFresh
<1>4. ASSUME NEW w \in Dispatchers,
             \/ Claimed(d, w) \/ Answered(d, w) \/ Delivered(d, w) \/ Failed(d, w)
             \/ Dropped(d, w)
      PROVE  Ledger(d)'
  BY <1>4, TypeStep, LedgerClaimed, LedgerAnswered, LedgerDelivered, LedgerFailed, LedgerDropped
<1>5. QED
  BY <1>1, <1>2, <1>3, <1>4 DEF Change

\* A step of the dispatchers does not touch a delivery whose event is to come.
LEMMA UnbornStep ==
  ASSUME TypeOK, Distinct, Unborn, [Next]_vars
  PROVE  Unborn'
<1> SUFFICES ASSUME NEW d \in Deliveries
             PROVE  /\ delivery'[d].status = "absent" => delivery'[d] = NoRow
                    /\ d[2] \notin emitted' => /\ delivery'[d] = NoRow /\ accepted'[d] = 0
                                               /\ Holders(d)' = {}
  BY DEF Unborn
<1>1. emitted \subseteq emitted'
  <2>1. CASE \E e \in Events : EmitTaskEvent(e)
    BY <2>1 DEF EmitTaskEvent
  <2>2. CASE ~\E e \in Events : EmitTaskEvent(e)
    BY <2>2 DEF Next, DispatcherNext, LockTenant, CountWebhooks, InsertWebhook, UpdateWebhook,
                DeleteWebhook, ClaimPending, LoadWebhook, Post, MarkDelivered, FailDelivery,
                AbandonBatch, LoseAnswer, Redeliver, ScheduleArrives, vars
  <2>3. QED
    BY <2>1, <2>2
<1>2. /\ delivery[d].status = "absent" => delivery[d] = NoRow
      /\ d[2] \notin emitted => /\ delivery[d] = NoRow /\ accepted[d] = 0
                                /\ Holders(d) = {}
  BY DEF Unborn
<1>3. Owing(d) \subseteq Holders(d) /\ NoRow.status = "absent"
  BY DEF Owing, NoRow
<1>4. Change(d)
  BY Changes
<1>5. ASSUME NEW w \in Dispatchers, Dropped(d, w)
      PROVE  /\ delivery'[d] = delivery[d] /\ accepted'[d] = accepted[d]
             /\ Holders(d)' \subseteq Holders(d)
  BY <1>5 DEF Dropped, SameRow
<1>6. CASE Emitted(d) \/ Deleted(d)
  BY <1>1, <1>2, <1>6 DEF Emitted, Deleted, Fresh, SameHolders
<1>7. CASE Redelivered(d)
  BY <1>1, <1>2, <1>3, <1>7 DEF Redelivered, Fresh, Terminal
<1>8. CASE Arrived(d)
  BY <1>1, <1>2, <1>3, <1>8 DEF Arrived
<1>9. ASSUME NEW w \in Dispatchers, Claimed(d, w)
      PROVE  delivery'[d].status # "absent" /\ d[2] \in emitted
  BY <1>2, <1>3, <1>9 DEF Claimed
<1>10. ASSUME NEW w \in Dispatchers, Answered(d, w) \/ Delivered(d, w) \/ Failed(d, w)
       PROVE  /\ d[2] \in emitted
              /\ delivery'[d].status = "absent" => delivery'[d] = delivery[d]
  BY <1>2, <1>3, <1>10 DEF Answered, Delivered, Failed
<1>11. CASE Left(d) \/ AnswerLost(d)
  BY <1>1, <1>2, <1>11 DEF Left, AnswerLost, SameRow, SameHolders
<1>12. QED
  BY <1>1, <1>2, <1>4, <1>5, <1>6, <1>7, <1>8, <1>9, <1>10, <1>11 DEF Change

-----------------------------------------------------------------------------
(* While no claim was outlasted its holder owns the row; and while nothing   *)
(* was redelivered, what a late holder knows is still true of it.            *)

Owned(d) ==
  stalls = 0 /\ Holders(d) # {} /\ delivery[d].status # "absent" =>
    delivery[d].status = "pending" /\ ~Claimable(d)

Earned(d) ==
  stalls = 0 \/ redeliveries = 0 =>
    /\ \A w \in Holders(d) \ Early(d) :
         delivery[d].status # "absent" => delivery[d].attempts >= MaxAttempts
    /\ Holders(d) \ Owing(d) # {} => accepted[d] >= 1
    /\ delivery[d].status = "delivered" => accepted[d] >= 1
    /\ delivery[d].status = "dead_letter" => delivery[d].attempts >= MaxAttempts

LEMMA Alone ==
  ASSUME Finitely, TypeOK, NEW d \in Deliveries, HoldersPaid(d), stalls = 0,
         NEW w \in Holders(d)
  PROVE  Holders(d) \ {w} = {}
<1>1. Holders(d) \in SUBSET Dispatchers /\ Cardinality(Holders(d)) <= 1
  BY Numbers DEF HoldersPaid
<1>2. Cardinality(Holders(d) \ {w}) = Cardinality(Holders(d)) - 1
  BY <1>1, Sizes
<1>3. /\ Holders(d) \ {w} \in SUBSET Dispatchers
      /\ Cardinality(Holders(d) \ {w}) \in Nat /\ Cardinality(Holders(d)) \in Nat
  BY <1>1, Sizes
<1>4. Cardinality(Holders(d) \ {w}) = 0
  BY <1>1, <1>2, <1>3
<1>5. QED
  BY <1>3, <1>4, Sizes

LEMMA OwnedStep ==
  ASSUME Finitely, TypeOK, Distinct, Unborn, [Next]_vars, NEW d \in Deliveries,
         HoldersPaid(d), Owned(d)
  PROVE  Owned(d)'
<1>1. Change(d) /\ stalls \in Nat /\ TypeOK'
  BY Changes, Numbers, TypeStep
<1>2. CASE Left(d) \/ AnswerLost(d) \/ \E w \in Dispatchers : Answered(d, w)
  <2>1. /\ delivery'[d] = delivery[d] /\ Holders(d)' = Holders(d)
        /\ stalls' = 0 => stalls = 0
    BY <1>1, <1>2 DEF Left, AnswerLost, Answered, SameRow, SameHolders, SameFaults
  <2>2. Claimable(d)' <=> Claimable(d)
    BY <1>1, <2>1, LeasesStay
  <2>3. QED
    BY <2>1, <2>2 DEF Owned
<1>3. CASE Emitted(d) \/ Deleted(d) \/ Redelivered(d)
  <2>1. Holders(d)' = Holders(d) /\ stalls' = stalls
    BY <1>3 DEF Emitted, Deleted, Redelivered, SameHolders, SameFaults
  <2>2. CASE Deleted(d)
    <3>1. delivery'[d].status = "absent"
      BY <2>2 DEF Deleted, NoRow
    <3>2. QED
      BY <3>1 DEF Owned
  <2>3. CASE Emitted(d) \/ Redelivered(d)
    <3>1. stalls = 0 => Holders(d) = {}
      BY <2>3 DEF Emitted, Redelivered, Unborn, Owned, Terminal
    <3>2. QED
      BY <2>1, <3>1 DEF Owned
  <2>4. QED
    BY <1>3, <2>2, <2>3
<1>4. CASE Arrived(d)
  <2>1. Holders(d)' = Holders(d) /\ delivery[d].status = "pending"
    BY <1>4 DEF Arrived, SameHolders
  <2>2. stalls' = 0 => stalls = 0 /\ Claimable(d)
    BY <1>1, <1>4 DEF Arrived, Claimable
  <2>3. QED
    BY <2>1, <2>2 DEF Owned
<1>5. ASSUME NEW w \in Dispatchers, Claimed(d, w)
      PROVE  Owned(d)'
  <2>1. delivery'[d].status = "pending" /\ delivery'[d].due = FALSE
        /\ delivery'[d].lease = {w} /\ w \in Holders(d)'
    BY <1>5 DEF Claimed
  <2>2. Leased(d)'
    BY <2>1 DEF Leased, Holders
  <2>3. ~Claimable(d)'
    BY <2>1, <2>2 DEF Claimable
  <2>4. QED
    BY <2>1, <2>3 DEF Owned
<1>6. ASSUME NEW w \in Dispatchers, Delivered(d, w) \/ Failed(d, w)
      PROVE  Owned(d)'
  <2>1. Holders(d)' = Holders(d) \ {w} /\ w \in Holders(d) /\ stalls' = stalls
    BY <1>6 DEF Delivered, Failed, SameFaults
  <2>2. stalls = 0 => Holders(d)' = {}
    BY <2>1, Alone
  <2>3. QED
    BY <2>1, <2>2 DEF Owned
<1>7. ASSUME NEW w \in Dispatchers, Dropped(d, w)
      PROVE  Owned(d)'
  <2>1. delivery'[d] = delivery[d] /\ stalls' = stalls /\ Holders(d)' = Holders(d) \ {w}
    BY <1>7 DEF Dropped, SameRow
  <2>2. CASE w \in Holders(d)
    <3>1. stalls = 0 => Holders(d)' = {}
      BY <2>1, <2>2, Alone
    <3>2. QED
      BY <2>1, <3>1 DEF Owned
  <2>3. CASE w \notin Holders(d)
    <3>1. Holders(d)' = Holders(d)
      BY <2>1, <2>3
    <3>2. Claimable(d)' <=> Claimable(d)
      BY <1>1, <2>1, <3>1, LeasesStay
    <3>3. QED
      BY <2>1, <3>1, <3>2 DEF Owned
  <2>4. QED
    BY <2>2, <2>3
<1>8. QED
  BY <1>1, <1>2, <1>3, <1>4, <1>5, <1>6, <1>7 DEF Change

\* Faults and redeliveries are only counted up.
LEMMA Counted ==
  ASSUME TypeOK, [Next]_vars
  PROVE  /\ stalls' = 0 => stalls = 0
         /\ redeliveries' = 0 => redeliveries = 0
<1>1. stalls \in Nat /\ redeliveries \in Nat
  BY WebhooksAssumption DEF TypeOK, WebhooksAssumption
<1>2. ASSUME NEW d \in Deliveries, Redeliver(d) \/ ScheduleArrives(d)
      PROVE  stalls' \in {stalls, stalls + 1} /\ redeliveries' \in {redeliveries, redeliveries + 1}
  BY <1>2 DEF Redeliver, ScheduleArrives
<1>3. CASE ~\E d \in Deliveries : Redeliver(d) \/ ScheduleArrives(d)
  BY <1>3 DEF Next, DispatcherNext, LockTenant, CountWebhooks, InsertWebhook, UpdateWebhook,
              DeleteWebhook, EmitTaskEvent, ClaimPending, LoadWebhook, Post, LoseAnswer,
              MarkDelivered, FailDelivery, AbandonBatch, budgetVars, vars
<1>4. QED
  BY <1>1, <1>2, <1>3

LEMMA EarnedStep ==
  ASSUME Finitely, TypeOK, Distinct, Unborn, [Next]_vars, NEW d \in Deliveries,
         HoldersPaid(d), Owned(d), Earned(d)
  PROVE  Earned(d)'
<1>1. Change(d) /\ stalls \in Nat /\ accepted[d] \in Nat /\ delivery[d].attempts \in Nat
      /\ MaxAttempts \in Nat
  BY Changes, Numbers
<1>2. stalls' = 0 \/ redeliveries' = 0 => stalls = 0 \/ redeliveries = 0
  BY Counted
<1>3. CASE Left(d)
  <2>1. /\ delivery'[d] = delivery[d] /\ accepted'[d] = accepted[d]
        /\ Holders(d)' = Holders(d) /\ Early(d)' = Early(d) /\ Owing(d)' = Owing(d)
    BY <1>3 DEF Left, SameRow, SameHolders
  <2>2. QED
    BY <1>2, <2>1 DEF Earned
<1>4. CASE Emitted(d) \/ Deleted(d) \/ Redelivered(d)
  <2>1. /\ Holders(d)' = Holders(d) /\ Early(d)' = Early(d) /\ Owing(d)' = Owing(d)
        /\ stalls' = stalls
    BY <1>4 DEF Emitted, Deleted, Redelivered, SameHolders, SameFaults
  <2>2. CASE Deleted(d)
    <3>1. delivery'[d].status = "absent" /\ accepted'[d] = accepted[d]
      BY <2>2 DEF Deleted, NoRow
    <3>2. QED
      BY <1>2, <2>1, <3>1 DEF Earned
  <2>3. CASE Emitted(d) \/ Redelivered(d)
    <3>1. stalls' = 0 \/ redeliveries' = 0 => Holders(d) = {}
      BY <2>1, <2>3 DEF Emitted, Redelivered, Unborn, Owned, Terminal
    <3>2. delivery'[d].status = "pending"
      BY <2>3 DEF Emitted, Redelivered, Fresh
    <3>3. QED
      BY <2>1, <3>1, <3>2 DEF Earned
  <2>4. QED
    BY <1>4, <2>2, <2>3
<1>5. CASE Arrived(d)
  <2>1. /\ Holders(d)' = Holders(d) /\ Early(d)' = Early(d) /\ Owing(d)' = Owing(d)
        /\ accepted'[d] = accepted[d] /\ delivery'[d].status = "pending"
        /\ delivery[d].status = "pending" /\ delivery'[d].attempts = delivery[d].attempts
    BY <1>5 DEF Arrived, SameHolders
  <2>2. QED
    BY <1>2, <2>1 DEF Earned
<1>6. ASSUME NEW w \in Dispatchers, Claimed(d, w)
      PROVE  Earned(d)'
  <2>1. /\ delivery'[d].status = "pending" /\ delivery[d].status = "pending"
        /\ delivery'[d].attempts = delivery[d].attempts + 1
        /\ accepted'[d] = accepted[d]
        /\ Holders(d)' = Holders(d) \cup {w} /\ Owing(d)' = Owing(d) \cup {w}
    BY <1>6 DEF Claimed
  <2>2. Early(d) \subseteq Early(d)' /\ (w \notin Early(d)' => delivery[d].attempts + 1 >= MaxAttempts)
    BY <1>1, <1>6 DEF Claimed
  <2>3. delivery[d].attempts >= MaxAttempts => delivery[d].attempts + 1 >= MaxAttempts
    BY <1>1
  <2>4. QED
    BY <1>2, <2>1, <2>2, <2>3 DEF Earned
<1>7. CASE AnswerLost(d) \/ \E w \in Dispatchers : Answered(d, w)
  <2>1. /\ delivery'[d] = delivery[d] /\ accepted'[d] = accepted[d] + 1
        /\ Holders(d)' = Holders(d) /\ Early(d)' = Early(d)
    BY <1>7 DEF Answered, AnswerLost, SameHolders
  <2>2. accepted'[d] >= 1
    BY <1>1, <2>1
  <2>3. QED
    BY <1>2, <2>1, <2>2 DEF Earned
<1>8. ASSUME NEW w \in Dispatchers, Delivered(d, w) \/ Failed(d, w) \/ Dropped(d, w)
      PROVE  Earned(d)'
  <2>1. /\ Holders(d)' = Holders(d) \ {w} /\ Early(d)' = Early(d) \ {w}
        /\ Owing(d)' \in {Owing(d), Owing(d) \ {w}}
        /\ accepted'[d] = accepted[d] /\ delivery'[d].attempts = delivery[d].attempts
    BY <1>8 DEF Delivered, Failed, Dropped, SameRow
  <2>2. /\ Holders(d)' \ Early(d)' \subseteq Holders(d) \ Early(d)
        /\ Holders(d)' \ Owing(d)' \subseteq Holders(d) \ Owing(d)
    BY <2>1
  <2>3. delivery'[d].status # "absent" => delivery[d].status # "absent"
    BY <1>8 DEF Delivered, Failed, Dropped, SameRow
  <2>4. delivery'[d].status = "delivered" =>
          delivery[d].status = "delivered" \/ Holders(d) \ Owing(d) # {}
    BY <1>8 DEF Delivered, Failed, Dropped, SameRow
  <2>5. delivery'[d].status = "dead_letter" =>
          \/ delivery[d].status = "dead_letter"
          \/ w \in Holders(d) \ Early(d) /\ delivery[d].status # "absent"
    BY <1>8 DEF Delivered, Failed, Dropped, SameRow
  <2>6. QED
    BY <1>2, <2>1, <2>2, <2>3, <2>4, <2>5 DEF Earned
<1>9. QED
  BY <1>1, <1>3, <1>4, <1>5, <1>6, <1>7, <1>8 DEF Change

-----------------------------------------------------------------------------
(* The theorems.                                                           *)

WInv ==
  /\ TypeOK /\ Distinct /\ Unborn
  /\ \A d \in Deliveries : Ledger(d)
  /\ \A d \in Deliveries : Owned(d) /\ Earned(d)

LEMMA Initially ==
  ASSUME Finitely, Init
  PROVE  WInv
<1>1. TypeOK
  BY TypeFirst
<1>2. ASSUME NEW w \in Dispatchers
      PROVE  Held(w) = {} /\ dispatcher[w].pc = "next"
  BY DEF Init, Idle, Held
<1>3. Distinct
  BY <1>2 DEF Distinct
<1>4. ASSUME NEW d \in Deliveries
      PROVE  /\ Holders(d) = {} /\ Early(d) = {} /\ Owing(d) = {}
             /\ delivery[d] = NoRow /\ accepted[d] = 0
             /\ delivery[d].status = "absent" /\ delivery[d].attempts = 0
  BY <1>2, HoldsHeld DEF Init, Holders, Early, Owing, NoRow
<1>5. Unborn
  BY <1>4 DEF Unborn
<1>6. ASSUME NEW d \in Deliveries
      PROVE  Ledger(d)
  <2>1. Cardinality(Holders(d)) = 0 /\ Cardinality(Early(d)) = 0 /\ Cardinality(Owing(d)) = 0
    BY <1>4, FS_EmptySet
  <2>2. stalls \in Nat /\ losses \in Nat /\ MaxAttempts \in Nat \ {0}
    BY <1>1, Numbers
  <2>3. QED
    BY <1>4, <2>1, <2>2
       DEF Ledger, HoldersPaid, AttemptsPaid, AnswersPaid, Claimable, Terminal
<1>7. \A d \in Deliveries : Owned(d) /\ Earned(d)
  BY <1>4 DEF Owned, Earned
<1>8. QED
  BY <1>1, <1>3, <1>5, <1>6, <1>7 DEF WInv

LEMMA Steps ==
  ASSUME Finitely, WInv, [Next]_vars
  PROVE  WInv'
<1>1. TypeOK' /\ Distinct' /\ Unborn'
  BY TypeStep, DistinctStep, UnbornStep DEF WInv
<1>2. ASSUME NEW d \in Deliveries
      PROVE  Ledger(d)' /\ Owned(d)' /\ Earned(d)'
  BY LedgerStep, OwnedStep, EarnedStep DEF WInv, Ledger
<1>3. (\A d \in Deliveries : Ledger(d))' /\ (\A d \in Deliveries : Owned(d) /\ Earned(d))'
  BY <1>2 DEF Deliveries
<1>4. QED
  BY <1>1, <1>3 DEF WInv

LEMMA Invariant ==
  ASSUME Finitely
  PROVE  Spec => []WInv
<1>1. Init => WInv
  BY Initially
<1>2. WInv /\ [Next]_vars => WInv'
  BY Steps
<1>3. QED
  BY <1>1, <1>2, PTL DEF Spec

\* Webhooks, deliveries, dispatchers and their claims keep their types.
THEOREM TypeCorrect == Spec => []TypeOK
<1>1. Init => TypeOK
  BY TypeFirst
<1>2. TypeOK /\ [Next]_vars => TypeOK'
  BY TypeStep
<1>3. QED
  BY <1>1, <1>2, PTL DEF Spec

\* However many registrations race, create_webhook, which counts under the lock
\* of the tenant's row, never leaves more webhooks than MAX_WEBHOOKS_PER_TENANT.
THEOREM CapIsKept ==
  ASSUME Finitely
  PROVE  Spec => []CapHolds
<1>1. Init => TypeOK /\ CapInv
  BY TypeFirst, CapFirst
<1>2. TypeOK /\ CapInv /\ [Next]_vars => TypeOK' /\ CapInv'
  BY TypeStep, CapStep
<1>3. CapInv => CapHolds
  BY DEF CapInv
<1>4. QED
  BY <1>1, <1>2, <1>3, PTL DEF Spec

\* While no dispatcher outlasts the 60 seconds of its claims, and in every round
\* before the first redelivery even then, `delivered` means that the endpoint
\* accepted the delivery in this round and `dead_letter` that the attempts of the
\* round are spent, whatever crashed or was deleted in between.
THEOREM StatusTells ==
  ASSUME Finitely
  PROVE  Spec => []StatusIsEarned
<1>1. WInv => StatusIsEarned
  BY DEF WInv, Earned, StatusIsEarned
<1>2. QED
  BY <1>1, Invariant, PTL

\* An endpoint accepts a delivery at most once more than there were crashes, lost
\* writes, lost or late answers and outlasted leases, for any number of
\* dispatchers and any size of batch: a claim that has not been answered is either
\* the one owed or paid for.  A late fail_webhook_delivery, which makes a row due
\* under the claim of another, is no further fault.
THEOREM DuplicatesArePaid ==
  ASSUME Finitely
  PROVE  Spec => []DuplicatesCostFaults
<1>1. ASSUME WInv
      PROVE  DuplicatesCostFaults
  <2> SUFFICES ASSUME NEW d \in Deliveries
               PROVE  accepted[d] <= 1 + losses + stalls
    BY DEF DuplicatesCostFaults
  <2>1. accepted[d] + Cardinality(Owing(d)) <= 1 + losses + stalls
    BY <1>1 DEF WInv, Ledger, AnswersPaid
  <2>2. QED
    BY <1>1, <2>1, Numbers DEF WInv
<1>2. QED
  BY <1>1, Invariant, PTL

\* The claim does not look at the attempts spent, yet a delivery is attempted
\* beyond its budget at most once for each crash, lost write or answer and each
\* outlasted lease: a late failure of an early claim is the only way back to
\* pending, and its backoff, which may end under the claim of another, is free.
THEOREM AttemptsArePaid ==
  ASSUME Finitely
  PROVE  Spec => []AttemptsCostFaults
<1>1. ASSUME WInv
      PROVE  AttemptsCostFaults
  <2> SUFFICES ASSUME NEW d \in Deliveries
               PROVE  delivery[d].attempts <= MaxAttempts + losses + stalls
    BY DEF AttemptsCostFaults
  <2>1. delivery[d].attempts >= MaxAttempts =>
          delivery[d].attempts + Cardinality(Early(d)) <= MaxAttempts + losses + stalls
    BY <1>1 DEF WInv, Ledger, AttemptsPaid
  <2>2. QED
    BY <1>1, <2>1, Numbers DEF WInv
<1>2. QED
  BY <1>1, Invariant, PTL
=============================================================================
