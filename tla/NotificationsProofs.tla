-------------------------- MODULE NotificationsProofs -------------------------
(***************************************************************************)
(* Proofs about the notifications: reminders are kept apart by the dedupe  *)
(* key alone, and what a row of the outbox can cost is kept in a ledger.   *)
(***************************************************************************)
EXTENDS Notifications, FiniteSetTheorems, TLAPS

-----------------------------------------------------------------------------
(* Reminders.  The unique index makes every reminder of a kind for a task  *)
(* fall in a bucket of its own, so the third is a whole bucket later than  *)
(* the first.                                                              *)

LEMMA Division ==
  ASSUME NEW W \in Nat \ {0}, NEW x \in Nat
  PROVE  x \div W \in Nat /\ W * (x \div W) <= x /\ x < W * (x \div W) + W
  OBVIOUS

LEMMA Product ==
  ASSUME NEW W \in Nat, NEW x \in Nat, NEW y \in Nat, x < y
  PROVE W * x + W <= W * y
<1> PICK d \in Nat : y = x + 1 + d
  <2> WITNESS y - x - 1 \in Nat
  <2> QED OBVIOUS
<1>1. W * y = W * x + W + W * d
  OBVIOUS
<1>2. W * d \in Nat /\ W * x \in Nat
  OBVIOUS
<1>3. QED
  BY <1>1, <1>2

SweepRow == [todo : Seq(Tasks), at : {NoTime} \cup 0 .. Horizon]

RTypes ==
  /\ now \in 0 .. Horizon
  /\ open \subseteq Tasks
  /\ disabled \subseteq Kinds
  /\ sweep \in [Sweeps -> SweepRow]
  /\ outbox \subseteq Reminder
  /\ faults \in 0 .. MaxFaults

Keyed == \A p, q \in outbox : DedupeKey(p) = DedupeKey(q) => p = q

RInv == RTypes /\ Keyed

LEMMA EndedSweep == Ended \in SweepRow
  BY DEF Ended, SweepRow

LEMMA RemindersInit == Init => RInv
  BY EndedSweep, RemindersAssumption DEF Init, RInv, RTypes, Keyed

LEMMA ReminderTypes == RInv => TypeOK
  BY DEF RInv, RTypes, TypeOK, SweepRow

\* What a listing returns is a sequence of the tasks it chose from.
LEMMA ListedAreTasks ==
  ASSUME NEW S \in SUBSET Tasks, NEW page \in FirstByDueDate(S)
  PROVE  page \in Seq(Tasks)
<1>1. PICK q \in SetToSeqs(S) : page = SubSeq(q, 1, IF Len(q) < Limit THEN Len(q) ELSE Limit)
  BY DEF FirstByDueDate, ByDueDate
<1>2. Cardinality(S) \in Nat
  BY FS_Subset, FS_CardinalityType, RemindersAssumption
<1>3. q \in [1 .. Cardinality(S) -> S]
  BY DEF SetToSeqs
<1>4. q \in Seq(Tasks)
  BY <1>2, <1>3
<1> DEFINE m == IF Len(q) < Limit THEN Len(q) ELSE Limit
<1>5. m \in 0 .. Len(q)
  BY <1>4, RemindersAssumption
<1> HIDE DEF m
<1>6. SubSeq(q, 1, m) \in Seq(Tasks)
  BY <1>4, <1>5
<1>7. QED
  BY <1>1, <1>6 DEF m

LEMMA SweepsWritten ==
  ASSUME RTypes, NEW s \in Sweeps, NEW new \in SweepRow, sweep' = [sweep EXCEPT ![s] = new]
  PROVE  sweep' \in [Sweeps -> SweepRow]
  BY DEF RTypes

LEMMA KeyedJoined ==
  ASSUME Keyed, NEW r, \A q \in outbox : DedupeKey(q) # DedupeKey(r), outbox' = outbox \cup {r}
  PROVE  Keyed'
<1>1. \A p : DedupeKey(p)' = DedupeKey(p)
  BY DEF DedupeKey, Bucket
<1>2. QED
  BY <1>1 DEF Keyed

LEMMA KeyedKept == Keyed /\ outbox' = outbox => Keyed'
  BY DEF Keyed, DedupeKey, Bucket

LEMMA RemindersStep == RInv /\ [Next]_vars => RInv'
<1> SUFFICES ASSUME RInv, [Next]_vars PROVE RInv'
  OBVIOUS
<1> USE DEF RInv
<1>1. ASSUME NEW s \in Sweeps, ListCandidates(s) PROVE RInv'
  <2>1. PICK page \in FirstByDueDate(Candidates) : sweep' = [sweep EXCEPT ![s].todo = page]
    BY <1>1 DEF ListCandidates
  <2>2. page \in Seq(Tasks)
    BY <2>1, ListedAreTasks DEF Candidates, RTypes
  <2> DEFINE new == [sweep[s] EXCEPT !.todo = page]
  <2>3. new \in SweepRow /\ sweep' = [sweep EXCEPT ![s] = new]
    BY <2>1, <2>2 DEF RTypes, SweepRow
  <2> HIDE DEF new
  <2>4. sweep' \in [Sweeps -> SweepRow]
    BY <2>3, SweepsWritten
  <2>5. QED
    BY <1>1, <2>4, KeyedKept DEF RTypes, ListCandidates
<1>2. ASSUME NEW s \in Sweeps, ReadClock(s) PROVE RInv'
  <2> DEFINE new == [sweep[s] EXCEPT !.at = now]
  <2>1. new \in SweepRow /\ sweep' = [sweep EXCEPT ![s] = new]
    BY <1>2 DEF RTypes, SweepRow, ReadClock
  <2> HIDE DEF new
  <2>2. sweep' \in [Sweeps -> SweepRow]
    BY <2>1, SweepsWritten
  <2>3. QED
    BY <1>2, <2>2, KeyedKept DEF RTypes, ReadClock
<1>3. ASSUME NEW s \in Sweeps, EnqueueNext(s) PROVE RInv'
  <2> DEFINE t == Head(sweep[s].todo)
             r == [kind |-> Kind(t, sweep[s].at), task |-> t, at |-> sweep[s].at]
             rest == [sweep[s] EXCEPT !.todo = Tail(sweep[s].todo)]
             new == IF rest.todo = <<>> THEN Ended ELSE rest
  <2>1. /\ sweep[s].todo # <<>> /\ sweep[s].at # NoTime
        /\ UNCHANGED <<now, open, disabled, faults>>
        /\ outbox' = IF \E q \in outbox : DedupeKey(q) = DedupeKey(r)
                       THEN outbox ELSE outbox \cup {r}
    BY <1>3 DEF EnqueueNext
  <2>2. sweep' = [sweep EXCEPT ![s] = new]
    BY <1>3 DEF EnqueueNext, RTypes, SweepRow
  <2>3. /\ sweep[s] \in SweepRow /\ sweep[s].todo \in Seq(Tasks)
        /\ sweep[s].at \in 0 .. Horizon
    BY <2>1 DEF RTypes, SweepRow
  <2>4. t \in Tasks /\ Tail(sweep[s].todo) \in Seq(Tasks)
    BY <2>1, <2>3
  <2>5. r \in Reminder
    BY <2>3, <2>4 DEF Reminder, Kind, Kinds
  <2>6. rest \in SweepRow
    BY <2>3, <2>4 DEF SweepRow
  <2>7. new \in SweepRow
    BY <2>6, EndedSweep
  <2> HIDE DEF r, new, rest, t
  <2>8. RTypes'
    <3>1. sweep' \in [Sweeps -> SweepRow]
      BY <2>2, <2>7, SweepsWritten
    <3>2. outbox' \subseteq Reminder
      BY <2>1, <2>5 DEF RTypes
    <3>3. QED
      BY <2>1, <3>1, <3>2 DEF RTypes
  <2>9. CASE \E q \in outbox : DedupeKey(q) = DedupeKey(r)
    BY <2>1, <2>8, <2>9, KeyedKept
  <2>10. CASE \A q \in outbox : DedupeKey(q) # DedupeKey(r)
    BY <2>1, <2>8, <2>10, KeyedJoined
  <2>11. QED
    BY <2>9, <2>10
<1>4. ASSUME NEW s \in Sweeps, AbandonSweep(s) PROVE RInv'
  <2>1. sweep' \in [Sweeps -> SweepRow]
    BY <1>4, EndedSweep, SweepsWritten DEF AbandonSweep
  <2>2. faults' \in 0 .. MaxFaults
    BY <1>4, RemindersAssumption DEF AbandonSweep, RTypes
  <2>3. QED
    BY <1>4, <2>1, <2>2, KeyedKept DEF AbandonSweep, RTypes
<1>5. CASE \/ \E t \in Tasks : CloseTask(t)
           \/ \E k \in Kinds : SetPreference(k)
           \/ Tick
           \/ UNCHANGED vars
  <2>1. RTypes'
    BY <1>5, RemindersAssumption DEF CloseTask, SetPreference, Tick, vars, RTypes
  <2>2. outbox' = outbox
    BY <1>5 DEF CloseTask, SetPreference, Tick, vars
  <2>3. QED
    BY <2>1, <2>2, KeyedKept
<1>6. QED
  BY <1>1, <1>2, <1>3, <1>4, <1>5 DEF Next, SweepNext

\* Of two reminders of a kind for a task, the later is in a later window.
LEMMA LaterBucket ==
  ASSUME RInv, NEW p \in outbox, NEW q \in outbox,
         p.kind = q.kind, p.task = q.task, p.at < q.at
  PROVE  Bucket(p.at) < Bucket(q.at)
<1>1. p.at \in Nat /\ q.at \in Nat /\ Window \in Nat \ {0}
  BY RemindersAssumption DEF RInv, RTypes, Reminder
<1>2. DedupeKey(p) # DedupeKey(q)
  BY <1>1 DEF RInv, Keyed
<1>3. Bucket(p.at) # Bucket(q.at)
  BY <1>2 DEF DedupeKey
<1> DEFINE x == Bucket(p.at)
           y == Bucket(q.at)
<1>4. /\ x \in Nat /\ Window * x <= p.at /\ p.at < Window * x + Window
      /\ y \in Nat /\ Window * y <= q.at /\ q.at < Window * y + Window
  BY <1>1, Division DEF Bucket
<1> HIDE DEF x, y
<1>5. ASSUME y < x PROVE FALSE
  <2>1. Window * y + Window <= Window * x
    BY <1>1, <1>4, <1>5, Product
  <2>2. Window * x \in Nat /\ Window * y \in Nat
    BY <1>1, <1>4
  <2> DEFINE a == Window * x
             b == Window * y
  <2> HIDE DEF a, b
  <2>3. /\ a \in Nat /\ b \in Nat /\ b + Window <= a /\ a <= p.at /\ q.at < b + Window
    BY <1>4, <2>1, <2>2 DEF a, b
  <2>4. QED
    BY <1>1, <2>3
<1>6. x < y
  BY <1>3, <1>4, <1>5 DEF x, y
<1>7. QED
  BY <1>6 DEF x, y

LEMMA KeysKeepApart == RInv => RemindersSpaced
<1> SUFFICES ASSUME RInv, NEW p \in outbox, NEW q \in outbox, NEW r \in outbox,
                    p.kind = q.kind, q.kind = r.kind, p.task = q.task, q.task = r.task,
                    p.at < q.at, q.at < r.at
             PROVE  r.at - p.at > Window
  BY DEF RemindersSpaced
<1>1. p.at \in Nat /\ q.at \in Nat /\ r.at \in Nat /\ Window \in Nat \ {0}
  BY RemindersAssumption DEF RInv, RTypes, Reminder
<1> DEFINE x == Bucket(p.at)
           y == Bucket(q.at)
           z == Bucket(r.at)
<1>2. x < y /\ y < z
  BY LaterBucket
<1>3. /\ x \in Nat /\ y \in Nat /\ z \in Nat
      /\ p.at < Window * x + Window /\ Window * z <= r.at
  BY <1>1, Division DEF Bucket
<1> HIDE DEF x, y, z
<1>4. Window * x + Window <= Window * y /\ Window * y + Window <= Window * z
  BY <1>1, <1>2, <1>3, Product
<1> DEFINE a == Window * x
           b == Window * y
           c == Window * z
<1>5. a \in Nat /\ b \in Nat /\ c \in Nat
  BY <1>1, <1>3
<1>6. a + Window <= b /\ b + Window <= c /\ p.at < a + Window /\ c <= r.at
  BY <1>3, <1>4
<1> HIDE DEF a, b, c
<1>7. QED
  BY <1>1, <1>5, <1>6

LEMMA RemindersInvariant == Spec => []RInv
  BY RemindersInit, RemindersStep, PTL DEF Spec

\* However many sweeps overlap, die and start again, whatever the clock reads:
\* no three reminders of a kind for a task fall in a window's length.
THEOREM RemindersKeepApart == Spec => []RemindersSpaced
  BY RemindersInvariant, KeysKeepApart, PTL

-----------------------------------------------------------------------------
(* Outbox.  What a row can cost is kept in a ledger: a notifier that holds *)
(* the row may still add a mail or put the row back to pending, and a      *)
(* pending row may be claimed again, unless its time is the claim of one   *)
(* who still holds it.  Either right comes from the one attempt that is    *)
(* owed anyway, or from a fault.                                           *)

NoticeRow ==
  [status : {"absent", "pending"} \cup Mail!Terminal, kind : Mail!Kinds,
   key : Keys \cup {Mail!NoKey}, attempts : Nat, due : BOOLEAN,
   lease : SUBSET Notifiers, read : BOOLEAN]

Holders(n) == {w \in Notifiers : n \in DOMAIN batch[w]}
Accepted(w, n) == \E o \in outcome[w] : o.id = n /\ o.ok
Owing(n) == {w \in Holders(n) : ~Accepted(w, n)}
Early(n) == {w \in Holders(n) : batch[w][n] < MaxAttempts}

Claimable(n) ==
  IF /\ notice[n].status = "pending"
     /\ notice[n].due \/ notice[n].lease \cap Holders(n) = {}
    THEN 1 ELSE 0

OutboxTypes ==
  /\ notice \in [Notices -> NoticeRow]
  /\ \A n \in Notices : /\ notice[n].due => notice[n].status = "pending"
                        /\ notice[n].read => notice[n].kind = "feed"
  /\ DOMAIN batch = Notifiers /\ DOMAIN outcome = Notifiers
  /\ \A w \in Notifiers :
       /\ DOMAIN batch[w] \subseteq Notices
       /\ \A n \in DOMAIN batch[w] : batch[w][n] \in Nat
       /\ \A o \in outcome[w] : o.id \in DOMAIN batch[w] /\ o.ok \in BOOLEAN
       /\ \A o, p \in outcome[w] : o = p
  /\ accepted \in [Notices -> Nat]
  /\ errors \in 0 .. MaxLosses

Balanced(held, owed, early, free, mails, tries, cost) ==
  /\ held + free <= 1 + cost
  /\ mails + owed + free <= 1 + cost
  /\ tries >= MaxAttempts => tries + free + early <= MaxAttempts + cost

Ledger(n) ==
  Balanced(Cardinality(Holders(n)), Cardinality(Owing(n)), Cardinality(Early(n)),
           Claimable(n), accepted[n], notice[n].attempts, errors)

OInv == OutboxTypes /\ \A n \in Notices : Ledger(n)

LEMMA MailHeld == \A n : Mail!Held(n) <=> Holders(n) # {}
  BY DEF Mail!Held, Holders

LEMMA MailLeased ==
  ASSUME OutboxTypes, NEW n \in Notices
  PROVE  Mail!Leased(n) <=> notice[n].lease \cap Holders(n) # {}
<1>1. notice[n].lease \in SUBSET Notifiers
  BY DEF OutboxTypes, NoticeRow
<1>2. QED
  BY <1>1 DEF Mail!Leased, Holders

LEMMA OutboxNumbers ==
  ASSUME OutboxTypes, NEW n \in Notices
  PROVE  /\ IsFiniteSet(Holders(n)) /\ Cardinality(Holders(n)) \in Nat
         /\ IsFiniteSet(Owing(n)) /\ Cardinality(Owing(n)) \in Nat
         /\ IsFiniteSet(Early(n)) /\ Cardinality(Early(n)) \in Nat
         /\ Cardinality(Early(n)) <= Cardinality(Holders(n))
         /\ Claimable(n) \in {0, 1} /\ accepted[n] \in Nat /\ notice[n].attempts \in Nat
         /\ errors \in Nat /\ MaxAttempts \in Nat \ {0}
<1>1. /\ Holders(n) \in SUBSET Notifiers /\ Owing(n) \in SUBSET Notifiers
      /\ Early(n) \in SUBSET Holders(n)
  BY DEF Holders, Owing, Early
<1>2. IsFiniteSet(Holders(n)) /\ IsFiniteSet(Owing(n))
  BY <1>1, FS_Subset, OutboxAssumption
<1>3. IsFiniteSet(Early(n)) /\ Cardinality(Early(n)) <= Cardinality(Holders(n))
  BY <1>1, <1>2, FS_Subset
<1>4. notice[n] \in NoticeRow /\ accepted[n] \in Nat
  BY DEF OutboxTypes
<1>5. errors \in Nat
  BY OutboxAssumption DEF OutboxTypes
<1>6. QED
  BY <1>2, <1>3, <1>4, <1>5, FS_CardinalityType, OutboxAssumption DEF Claimable, NoticeRow

LEMMA NoticeFields ==
  ASSUME OutboxTypes, NEW n \in Notices
  PROVE  /\ notice[n].status \in {"absent", "pending", "sent", "dead_letter"}
         /\ notice[n].due \in BOOLEAN /\ notice[n].read \in BOOLEAN
         /\ notice[n].attempts \in Nat /\ notice[n] \in NoticeRow
  BY DEF OutboxTypes, NoticeRow, Mail!Terminal

\* The numbers of the ledger, one by one.
LEMMA Settles ==
  ASSUME NEW n, NEW held, NEW owed, NEW early, NEW free, NEW mails, NEW tries, NEW cost,
         Cardinality(Holders(n)') = held, Cardinality(Owing(n)') = owed,
         Cardinality(Early(n)') = early, Claimable(n)' = free, accepted'[n] = mails,
         notice'[n].attempts = tries, errors' = cost,
         Balanced(held, owed, early, free, mails, tries, cost)
  PROVE  Ledger(n)'
<1>1. Balanced(held, owed, early, free, mails, tries, cost)' <=>
      Balanced(held, owed, early, free, mails, tries, cost)
  BY DEF Balanced
<1>2. QED
  BY DEF Ledger, Balanced

LEMMA LedgerKept ==
  ASSUME OInv, NEW n \in Notices,
         Holders(n)' = Holders(n), Owing(n)' = Owing(n), Early(n)' = Early(n),
         accepted'[n] = accepted[n], notice'[n].attempts = notice[n].attempts,
         \/ errors' = errors /\ (Claimable(n)' = 0 \/ Claimable(n) = 1)
         \/ errors' = errors + 1
  PROVE  Ledger(n)'
<1> DEFINE held == Cardinality(Holders(n))
           owed == Cardinality(Owing(n))
           early == Cardinality(Early(n))
           free == Claimable(n)
           mails == accepted[n]
           tries == notice[n].attempts
           free2 == Claimable(n)'
           cost == errors'
<1>1. /\ held \in Nat /\ owed \in Nat /\ early \in Nat /\ free \in {0, 1} /\ mails \in Nat
      /\ tries \in Nat /\ errors \in Nat /\ MaxAttempts \in Nat /\ free2 \in {0, 1}
  BY OutboxNumbers DEF OInv, Claimable
<1>2. Balanced(held, owed, early, free, mails, tries, errors)
  BY DEF OInv, Ledger
<1>3. \/ cost = errors /\ (free2 = 0 \/ free = 1)
      \/ cost = errors + 1
  OBVIOUS
<1> HIDE DEF held, owed, early, free, mails, tries, free2, cost
<1>4. Balanced(held, owed, early, free2, mails, tries, cost)
  BY <1>1, <1>2, <1>3 DEF Balanced
<1> USE DEF held, owed, early, free, mails, tries, free2, cost
<1>5. QED
  BY <1>4, Settles

\* A notifier lets go of a row: it has no more to add, or the row goes back to
\* pending in its stead, or that is a fault.
LEMMA LedgerLeft ==
  ASSUME OInv, NEW n \in Notices, NEW w \in Holders(n),
         Holders(n)' = Holders(n) \ {w}, Owing(n)' = Owing(n) \ {w},
         Early(n)' = Early(n) \ {w},
         accepted'[n] = accepted[n], notice'[n].attempts = notice[n].attempts,
         \/ errors' = errors /\ Claimable(n)' = 0
         \/ errors' = errors /\ w \in Owing(n) /\ w \in Early(n)
         \/ errors' = errors + 1
  PROVE  Ledger(n)'
<1> DEFINE held == Cardinality(Holders(n))
           owed == Cardinality(Owing(n))
           early == Cardinality(Early(n))
           free == Claimable(n)
           mails == accepted[n]
           tries == notice[n].attempts
           free2 == Claimable(n)'
           cost == errors'
           owed2 == Cardinality(Owing(n) \ {w})
           early2 == Cardinality(Early(n) \ {w})
           held2 == Cardinality(Holders(n) \ {w})
<1>1. /\ held \in Nat /\ owed \in Nat /\ early \in Nat /\ free \in {0, 1} /\ mails \in Nat
      /\ tries \in Nat /\ errors \in Nat /\ MaxAttempts \in Nat /\ free2 \in {0, 1}
  BY OutboxNumbers DEF OInv, Claimable
<1>2. Balanced(held, owed, early, free, mails, tries, errors)
  BY DEF OInv, Ledger
<1>3. /\ held2 = held - 1
      /\ owed2 = IF w \in Owing(n) THEN owed - 1 ELSE owed
      /\ early2 = IF w \in Early(n) THEN early - 1 ELSE early
  BY OutboxNumbers, FS_RemoveElement DEF OInv
<1>4. \/ cost = errors /\ free2 = 0
      \/ cost = errors /\ owed2 = owed - 1 /\ early2 = early - 1
      \/ cost = errors + 1
  BY <1>3
<1>5. held2 = held - 1 /\ owed2 \in {owed, owed - 1} /\ early2 \in {early, early - 1}
  BY <1>3
<1> HIDE DEF held, owed, early, free, mails, tries, free2, cost, owed2, early2, held2
<1>6. Balanced(held2, owed2, early2, free2, mails, tries, cost)
  BY <1>1, <1>2, <1>4, <1>5 DEF Balanced
<1> USE DEF held, owed, early, free, mails, tries, free2, cost, owed2, early2, held2
<1>7. QED
  BY <1>6, Settles

\* A notifier claims a row.
LEMMA LedgerJoined ==
  ASSUME OInv, NEW n \in Notices, NEW w, w \notin Holders(n),
         Holders(n)' = Holders(n) \cup {w}, Owing(n)' = Owing(n) \cup {w},
         Early(n)' = IF notice[n].attempts + 1 < MaxAttempts THEN Early(n) \cup {w}
                                                             ELSE Early(n),
         accepted'[n] = accepted[n], notice'[n].attempts = notice[n].attempts + 1,
         Claimable(n) = 1, Claimable(n)' = 0, errors' = errors
  PROVE  Ledger(n)'
<1> DEFINE held == Cardinality(Holders(n))
           owed == Cardinality(Owing(n))
           early == Cardinality(Early(n))
           mails == accepted[n]
           tries == notice[n].attempts
           cost == errors'
           owed2 == Cardinality(Owing(n) \cup {w})
           early2 == Cardinality(Early(n)')
           held2 == Cardinality(Holders(n) \cup {w})
<1>1. /\ held \in Nat /\ owed \in Nat /\ early \in Nat /\ mails \in Nat /\ early <= held
      /\ tries \in Nat /\ errors \in Nat /\ MaxAttempts \in Nat
  BY OutboxNumbers DEF OInv
<1>2. Balanced(held, owed, early, 1, mails, tries, errors)
  BY DEF OInv, Ledger
<1>3. w \notin Owing(n)
  BY DEF Owing
<1>4. held2 = held + 1 /\ owed2 = owed + 1
  BY <1>3, OutboxNumbers, FS_AddElement DEF OInv
<1>5. tries + 1 >= MaxAttempts => early2 = early
  BY <1>1
<1>6. cost = errors
  OBVIOUS
<1> HIDE DEF held, owed, early, mails, tries, cost, owed2, early2, held2
<1>7. Balanced(held2, owed2, early2, 0, mails, tries + 1, cost)
  <2>1. held + 1 <= 1 + errors /\ mails + owed + 1 <= 1 + errors
        /\ (tries >= MaxAttempts => tries + 1 + early <= MaxAttempts + errors)
    BY <1>2 DEF Balanced
  <2>2. held2 + 0 <= 1 + cost /\ mails + owed2 + 0 <= 1 + cost
    BY <1>1, <1>4, <1>6, <2>1
  <2>3. ASSUME tries + 1 >= MaxAttempts PROVE tries + 1 + 0 + early2 <= MaxAttempts + cost
    <3>1. early2 = early
      BY <1>5, <2>3
    <3>2. CASE tries >= MaxAttempts
      BY <1>1, <1>6, <2>1, <3>1, <3>2
    <3>3. CASE tries + 1 = MaxAttempts
      BY <1>1, <1>6, <2>1, <3>1, <3>3
    <3>4. QED
      BY <1>1, <2>3, <3>2, <3>3
  <2>4. QED
    BY <2>2, <2>3 DEF Balanced
<1> USE DEF held, owed, early, mails, tries, cost, owed2, early2, held2
<1>8. QED
  BY <1>7, Settles

\* A mail has gone out.
LEMMA LedgerSent ==
  ASSUME OInv, NEW n \in Notices, NEW w \in Owing(n),
         Holders(n)' = Holders(n), Early(n)' = Early(n), Claimable(n)' = Claimable(n),
         notice'[n].attempts = notice[n].attempts,
         \/ /\ Owing(n)' = Owing(n) \ {w}
            /\ accepted'[n] = accepted[n] + 1 /\ errors' = errors
         \/ /\ Owing(n)' = Owing(n)
            /\ accepted'[n] = accepted[n] + 1 /\ errors' = errors + 1
  PROVE  Ledger(n)'
<1> DEFINE held == Cardinality(Holders(n))
           owed == Cardinality(Owing(n))
           early == Cardinality(Early(n))
           free == Claimable(n)
           mails == accepted[n]
           tries == notice[n].attempts
           cost == errors'
           owed2 == Cardinality(Owing(n)')
           mails2 == accepted'[n]
<1>1. /\ held \in Nat /\ owed \in Nat /\ early \in Nat /\ mails \in Nat /\ free \in {0, 1}
      /\ tries \in Nat /\ errors \in Nat /\ MaxAttempts \in Nat
  BY OutboxNumbers DEF OInv
<1>2. Balanced(held, owed, early, free, mails, tries, errors)
  BY DEF OInv, Ledger
<1>3. Cardinality(Owing(n) \ {w}) = owed - 1
  BY OutboxNumbers, FS_RemoveElement DEF OInv
<1>4. \/ owed2 = owed - 1 /\ mails2 = mails + 1 /\ cost = errors
      \/ owed2 = owed /\ mails2 = mails + 1 /\ cost = errors + 1
  BY <1>3
<1> HIDE DEF held, owed, early, free, mails, tries, cost, owed2, mails2
<1>5. Balanced(held, owed2, early, free, mails2, tries, cost)
  BY <1>1, <1>2, <1>4 DEF Balanced
<1> USE DEF held, owed, early, free, mails, tries, cost, owed2, mails2
<1>6. QED
  BY <1>5, Settles

\* A row that nobody holds is new, or a row is gone.
LEMMA LedgerFresh ==
  ASSUME OInv, NEW n \in Notices, notice'[n].attempts = 0, errors' = errors,
         \/ /\ Holders(n)' = {} /\ accepted'[n] = 0
         \/ /\ Holders(n)' = Holders(n) /\ Owing(n)' = Owing(n) /\ Early(n)' = Early(n)
            /\ accepted'[n] = accepted[n] /\ Claimable(n)' = 0
  PROVE  Ledger(n)'
<1> DEFINE held == Cardinality(Holders(n))
           owed == Cardinality(Owing(n))
           early == Cardinality(Early(n))
           free == Claimable(n)
           mails == accepted[n]
           free2 == Claimable(n)'
<1>1. /\ held \in Nat /\ owed \in Nat /\ early \in Nat /\ mails \in Nat /\ free \in {0, 1}
      /\ errors \in Nat /\ MaxAttempts \in Nat \ {0} /\ free2 \in {0, 1}
  BY OutboxNumbers DEF OInv, Claimable
<1>2. Balanced(held, owed, early, free, mails, notice[n].attempts, errors)
  BY DEF OInv, Ledger
<1>3. CASE Holders(n)' = {} /\ accepted'[n] = 0
  <2>1. Owing(n)' = {} /\ Early(n)' = {}
    BY <1>3 DEF Owing, Early
  <2>2. Cardinality({}) = 0
    BY FS_EmptySet
  <2> HIDE DEF free2
  <2>3. Balanced(0, 0, 0, free2, 0, 0, errors)
    BY <1>1 DEF Balanced
  <2> USE DEF free2
  <2>4. QED
    BY <1>3, <2>1, <2>2, <2>3, Settles
<1>4. CASE /\ Holders(n)' = Holders(n) /\ Owing(n)' = Owing(n) /\ Early(n)' = Early(n)
           /\ accepted'[n] = accepted[n] /\ Claimable(n)' = 0
  <2> HIDE DEF held, owed, early, mails, free
  <2>1. Balanced(held, owed, early, 0, mails, 0, errors)
    BY <1>1, <1>2 DEF Balanced
  <2> USE DEF held, owed, early, mails
  <2>2. QED
    BY <1>4, <2>1, Settles
<1>5. QED
  BY <1>3, <1>4

\* What the batches and the answers say of a row.
LEMMA HoldersSame ==
  ASSUME batch' = batch, outcome' = outcome, NEW n
  PROVE  Holders(n)' = Holders(n) /\ Owing(n)' = Owing(n) /\ Early(n)' = Early(n)
  BY DEF Holders, Owing, Early, Accepted

LEMMA EnqueueKeeps ==
  ASSUME OInv, NEW m \in Notices, NEW kind \in Mail!Kinds, NEW key \in Keys \cup {Mail!NoKey},
         Mail!EnqueueNotification(m, kind, key)
  PROVE  OInv'
<1>1. OutboxTypes'
  BY DEF OInv, OutboxTypes, Mail!EnqueueNotification, NoticeRow, Mail!NoNotice, Mail!Kinds
<1>2. ASSUME NEW n \in Notices PROVE Ledger(n)'
  <2>1. Holders(n)' = Holders(n) /\ Owing(n)' = Owing(n) /\ Early(n)' = Early(n)
    BY HoldersSame DEF Mail!EnqueueNotification
  <2>2. CASE n = m
    <3>1. Holders(n)' = {}
      BY <2>1, <2>2, MailHeld DEF Mail!EnqueueNotification
    <3>2. notice'[n].attempts = 0 /\ accepted'[n] = 0 /\ errors' = errors
      BY <2>2 DEF Mail!EnqueueNotification, OInv, OutboxTypes, Mail!NoNotice
    <3>3. QED
      BY <3>1, <3>2, LedgerFresh
  <2>3. CASE n # m
    <3>1. notice'[n] = notice[n] /\ accepted'[n] = accepted[n] /\ errors' = errors
      BY <2>3 DEF Mail!EnqueueNotification, OInv, OutboxTypes
    <3>2. Claimable(n)' = Claimable(n)
      BY <2>1, <3>1 DEF Claimable
    <3>3. Claimable(n)' = 0 \/ Claimable(n) = 1
      BY <3>2, OutboxNumbers DEF OInv
    <3>4. QED
      BY <2>1, <3>1, <3>3, LedgerKept
  <2>4. QED
    BY <2>2, <2>3
<1>3. QED
  BY <1>1, <1>2 DEF OInv

LEMMA ClaimKeeps ==
  ASSUME OInv, NEW w \in Notifiers, NEW ns \in SUBSET Notices,
         Mail!ClaimPendingNotifications(w, ns)
  PROVE  OInv'
<1>1. /\ \A n \in ns : /\ notice[n].status = "pending" /\ notice[n].due
                       /\ notice'[n] = [notice[n] EXCEPT !.attempts = @ + 1, !.due = FALSE,
                                                         !.lease = {w}]
      /\ \A n \in Notices \ ns : notice'[n] = notice[n]
      /\ DOMAIN notice' = Notices
      /\ DOMAIN batch[w] = {}
      /\ batch' = [batch EXCEPT ![w] = [n \in ns |-> notice[n].attempts + 1]]
      /\ outcome' = outcome /\ accepted' = accepted /\ errors' = errors
  BY DEF Mail!ClaimPendingNotifications, Mail!DueRows
<1>2. notice \in [Notices -> NoticeRow] /\ DOMAIN batch = Notifiers
  BY DEF OInv, OutboxTypes
<1>3. outcome[w] = {}
  BY <1>1 DEF OInv, OutboxTypes
<1>4. ASSUME NEW n \in ns
      PROVE  /\ notice'[n] \in NoticeRow /\ notice'[n].attempts = notice[n].attempts + 1
             /\ notice'[n].status = "pending" /\ notice'[n].due = FALSE
             /\ notice'[n].lease = {w}
             /\ notice'[n].read = notice[n].read /\ notice'[n].kind = notice[n].kind
  <2> DEFINE row == notice[n]
             tries == row.attempts + 1
             new == [row EXCEPT !.attempts = tries, !.due = FALSE, !.lease = {w}]
  <2>1. row \in NoticeRow /\ tries \in Nat
    BY <1>2 DEF NoticeRow
  <2>2. row.status = "pending" /\ notice'[n] = new
    BY <1>1
  <2> HIDE DEF row, tries
  <2>3. /\ new.attempts = tries /\ new.due = FALSE /\ new.status = row.status
        /\ new.lease = {w}
        /\ new.read = row.read /\ new.kind = row.kind /\ new.key = row.key
    BY <2>1 DEF NoticeRow
  <2>4. new \in NoticeRow
    BY <2>1, <2>3 DEF NoticeRow
  <2> HIDE DEF new
  <2> USE DEF row, tries
  <2>5. QED
    BY <2>2, <2>3, <2>4
<1>5. OutboxTypes'
  <2>1. \A n \in Notices : notice'[n] \in NoticeRow
    <3>1. ASSUME NEW n \in Notices \ ns PROVE notice'[n] \in NoticeRow
      BY <1>1, <1>2, <3>1
    <3>2. QED
      BY <1>4, <3>1
  <2>2. notice' \in [Notices -> NoticeRow]
    <3>1. notice' = [n \in Notices |-> notice'[n]]
      BY DEF Mail!ClaimPendingNotifications
    <3>2. QED
      BY <2>1, <3>1
  <2>3. \A n \in Notices : /\ notice'[n].due => notice'[n].status = "pending"
                           /\ notice'[n].read => notice'[n].kind = "feed"
    <3>1. ASSUME NEW n \in ns PROVE /\ notice'[n].due => notice'[n].status = "pending"
                                    /\ notice'[n].read => notice'[n].kind = "feed"
      <4>1. notice[n].read => notice[n].kind = "feed"
        BY <3>1 DEF OInv, OutboxTypes
      <4>2. QED
        BY <1>4, <3>1, <4>1
    <3>2. ASSUME NEW n \in Notices \ ns
          PROVE  /\ notice'[n].due => notice'[n].status = "pending"
                 /\ notice'[n].read => notice'[n].kind = "feed"
      BY <1>1, <3>2 DEF OInv, OutboxTypes
    <3>3. QED
      BY <3>1, <3>2
  <2>4. \A v \in Notifiers : /\ DOMAIN batch'[v] \subseteq Notices
                             /\ \A n \in DOMAIN batch'[v] : batch'[v][n] \in Nat
                             /\ \A o \in outcome'[v] : o.id \in DOMAIN batch'[v] /\ o.ok \in BOOLEAN
                             /\ \A o, p \in outcome'[v] : o = p
    <3>1. ASSUME NEW v \in Notifiers, v # w PROVE batch'[v] = batch[v]
      BY <1>1, <1>2, <3>1
    <3>2. batch'[w] = [n \in ns |-> notice[n].attempts + 1]
      BY <1>1, <1>2
    <3>3. \A n \in ns : notice[n].attempts + 1 \in Nat
      BY <1>2 DEF NoticeRow
    <3>4. DOMAIN batch'[w] = ns /\ \A n \in ns : batch'[w][n] \in Nat
      BY <3>2, <3>3
    <3>5. SUFFICES ASSUME NEW v \in Notifiers
                   PROVE  /\ DOMAIN batch'[v] \subseteq Notices
                          /\ \A n \in DOMAIN batch'[v] : batch'[v][n] \in Nat
                          /\ \A o \in outcome'[v] : o.id \in DOMAIN batch'[v] /\ o.ok \in BOOLEAN
                          /\ \A o, p \in outcome'[v] : o = p
      OBVIOUS
    <3>6. CASE v = w
      BY <1>1, <1>3, <3>4, <3>6
    <3>7. CASE v # w
      <4>1. batch'[v] = batch[v] /\ outcome'[v] = outcome[v]
        BY <1>1, <3>1, <3>7
      <4>2. /\ DOMAIN batch[v] \subseteq Notices
            /\ \A n \in DOMAIN batch[v] : batch[v][n] \in Nat
            /\ \A o \in outcome[v] : o.id \in DOMAIN batch[v] /\ o.ok \in BOOLEAN
            /\ \A o, p \in outcome[v] : o = p
        BY DEF OInv, OutboxTypes
      <4>3. QED
        BY <4>1, <4>2
    <3>8. QED
      BY <3>6, <3>7
  <2>5. DOMAIN batch' = Notifiers /\ DOMAIN outcome' = Notifiers
    BY <1>1 DEF OInv, OutboxTypes
  <2>6. accepted' \in [Notices -> Nat] /\ errors' \in 0 .. MaxLosses
    BY <1>1 DEF OInv, OutboxTypes
  <2>7. QED
    BY <2>2, <2>3, <2>4, <2>5, <2>6 DEF OutboxTypes
<1>6. /\ DOMAIN batch'[w] = ns
      /\ \A n \in ns : batch'[w][n] = notice[n].attempts + 1
      /\ \A v \in Notifiers : v # w => batch'[v] = batch[v]
  BY <1>1, <1>2
<1>7. ASSUME NEW n \in Notices PROVE Ledger(n)'
  <2>1. w \notin Holders(n)
    BY <1>1 DEF Holders
  <2>2. CASE n \in ns
    <3>1. Holders(n)' = Holders(n) \cup {w}
      BY <1>6, <2>2 DEF Holders
    <3>2. \A v : Accepted(v, n)' <=> Accepted(v, n)
      BY <1>1 DEF Accepted
    <3>3. ~Accepted(w, n)
      BY <1>3 DEF Accepted
    <3>4. Owing(n)' = Owing(n) \cup {w}
      BY <3>1, <3>2, <3>3 DEF Owing
    <3>5. \A v \in Holders(n) : batch'[v][n] = batch[v][n]
      BY <1>6, <2>1 DEF Holders
    <3>6. batch'[w][n] = notice[n].attempts + 1
      BY <1>6, <2>2
    <3>7. Early(n)' = {v \in Holders(n)' : batch'[v][n] < MaxAttempts}
      BY DEF Early
    <3>8. Early(n)' = IF notice[n].attempts + 1 < MaxAttempts THEN Early(n) \cup {w}
                                                             ELSE Early(n)
      BY <3>1, <3>5, <3>6, <3>7 DEF Early
    <3>9. accepted'[n] = accepted[n] /\ notice'[n].attempts = notice[n].attempts + 1
          /\ errors' = errors
      BY <1>1, <1>4, <2>2
    <3>10. Claimable(n) = 1
      BY <1>1, <2>2 DEF Claimable
    <3>11. notice'[n].lease \cap Holders(n)' # {} /\ notice'[n].due = FALSE
      BY <1>4, <2>2, <3>1
    <3>12. Claimable(n)' = 0
      BY <3>11 DEF Claimable
    <3>13. QED
      BY <2>1, <3>1, <3>4, <3>8, <3>9, <3>10, <3>12, LedgerJoined
  <2>3. CASE n \notin ns
    <3>1. Holders(n)' = Holders(n)
      BY <1>1, <1>6, <2>3 DEF Holders
    <3>2. \A v : Accepted(v, n)' <=> Accepted(v, n)
      BY <1>1 DEF Accepted
    <3>3. Owing(n)' = Owing(n)
      BY <3>1, <3>2 DEF Owing
    <3>4. \A v \in Holders(n) : batch'[v][n] = batch[v][n]
      BY <1>6, <2>1 DEF Holders
    <3>5. Early(n)' = Early(n)
      BY <3>1, <3>4 DEF Early
    <3>6. notice'[n] = notice[n] /\ accepted'[n] = accepted[n] /\ errors' = errors
      BY <1>1, <2>3
    <3>7. Claimable(n)' = Claimable(n)
      BY <3>1, <3>6 DEF Claimable
    <3>8. Claimable(n)' = 0 \/ Claimable(n) = 1
      BY <3>7, OutboxNumbers DEF OInv
    <3>9. QED
      BY <3>1, <3>3, <3>5, <3>6, <3>8, LedgerKept
  <2>4. QED
    BY <2>2, <2>3
<1>8. QED
  BY <1>5, <1>7 DEF OInv

LEMMA SendKeeps ==
  ASSUME OInv, NEW w \in Notifiers, NEW m \in Notices, Mail!Send(w, m)
  PROVE  OInv'
<1>1. /\ outcome[w] = {} /\ m \in DOMAIN batch[w] /\ notice' = notice /\ batch' = batch
  BY DEF Mail!Send
<1>2. PICK ok \in BOOLEAN :
        /\ outcome' = [outcome EXCEPT ![w] = {[id |-> m, ok |-> ok]}]
        /\ \/ ok /\ accepted' = [accepted EXCEPT ![m] = @ + 1] /\ errors' = errors
           \/ ~ok /\ accepted' = accepted /\ errors' = errors
           \/ ~ok /\ accepted' = [accepted EXCEPT ![m] = @ + 1] /\ Mail!Fault
  BY DEF Mail!Send
<1>3. DOMAIN outcome = Notifiers /\ DOMAIN accepted = Notices
  BY DEF OInv, OutboxTypes
<1>4. /\ outcome'[w] = {[id |-> m, ok |-> ok]}
      /\ \A v : v # w => outcome'[v] = outcome[v]
  <2>1. \A v : v # w => [outcome EXCEPT ![w] = {[id |-> m, ok |-> ok]}][v] = outcome[v]
    BY <1>3
  <2>2. QED
    BY <1>2, <1>3, <2>1
<1>5. errors' \in 0 .. MaxLosses /\ errors' \in {errors, errors + 1}
  BY <1>2, OutboxAssumption DEF OInv, OutboxTypes, Mail!Fault
<1>6. OutboxTypes'
  <2>1. accepted' \in [Notices -> Nat]
    BY <1>2 DEF OInv, OutboxTypes
  <2>2. \A o \in outcome'[w] : o.id = m /\ o.ok \in BOOLEAN
    BY <1>4
  <2>3. \A v \in Notifiers : /\ \A o \in outcome'[v] : o.id \in DOMAIN batch'[v] /\ o.ok \in BOOLEAN
                             /\ \A o, p \in outcome'[v] : o = p
    BY <1>1, <1>4, <2>2 DEF OInv, OutboxTypes
  <2>4. DOMAIN outcome' = Notifiers
    BY <1>2, <1>3
  <2>5. QED
    BY <1>1, <1>5, <2>1, <2>3, <2>4 DEF OInv, OutboxTypes
<1>7. ASSUME NEW n \in Notices PROVE Ledger(n)'
  <2>1. Holders(n)' = Holders(n) /\ Early(n)' = Early(n)
    BY <1>1 DEF Holders, Early
  <2>2. notice'[n].attempts = notice[n].attempts /\ Claimable(n)' = Claimable(n)
    BY <1>1, <2>1 DEF Claimable
  <2>3. ~Accepted(w, n)
    BY <1>1 DEF Accepted
  <2>4. \A v : v # w => (Accepted(v, n)' <=> Accepted(v, n))
    BY <1>4 DEF Accepted
  <2>5. Accepted(w, n)' <=> m = n /\ ok
    BY <1>4 DEF Accepted
  <2>6. Claimable(n)' = 0 \/ Claimable(n) = 1
    BY <2>2, OutboxNumbers DEF OInv
  <2>7. CASE n # m \/ (~ok /\ accepted' = accepted /\ errors' = errors)
    <3>1. ~Accepted(w, n)'
      BY <1>2, <2>5, <2>7
    <3>2. Owing(n)' = Owing(n)
      BY <2>1, <2>3, <2>4, <3>1 DEF Owing
    <3>3. accepted'[n] = accepted[n]
      BY <1>2, <1>3, <2>7
    <3>4. errors' = errors \/ errors' = errors + 1
      BY <1>5
    <3>5. QED
      BY <2>1, <2>2, <2>6, <3>2, <3>3, <3>4, LedgerKept
  <2>8. CASE n = m /\ ok /\ accepted' = [accepted EXCEPT ![m] = @ + 1] /\ errors' = errors
    <3>1. w \in Owing(n)
      BY <1>1, <2>3, <2>8 DEF Owing, Holders
    <3>2. Owing(n)' = Owing(n) \ {w}
      BY <2>1, <2>4, <2>5, <2>8 DEF Owing
    <3>3. accepted'[n] = accepted[n] + 1
      BY <1>3, <2>8
    <3>4. QED
      BY <2>1, <2>2, <2>8, <3>1, <3>2, <3>3, LedgerSent
  <2>9. CASE n = m /\ ~ok /\ accepted' = [accepted EXCEPT ![m] = @ + 1] /\ Mail!Fault
    <3>1. w \in Owing(n)
      BY <1>1, <2>3, <2>9 DEF Owing, Holders
    <3>2. Owing(n)' = Owing(n)
      BY <2>1, <2>3, <2>4, <2>5, <2>9 DEF Owing
    <3>3. accepted'[n] = accepted[n] + 1 /\ errors' = errors + 1
      BY <1>3, <2>9 DEF Mail!Fault
    <3>4. QED
      BY <2>1, <2>2, <3>1, <3>2, <3>3, LedgerSent
  <2>10. QED
    BY <1>2, <2>7, <2>8, <2>9
<1>8. QED
  BY <1>6, <1>7 DEF OInv

LEMMA EmptySeqDomain == DOMAIN <<>> = {}
  OBVIOUS

\* A row as MarkNotificationSent and FailNotification leave it.
LEMMA RowClosed ==
  ASSUME OutboxTypes, NEW n \in Notices, NEW status \in {"pending", "sent", "dead_letter"},
         notice' = [notice EXCEPT ![n].status = status, ![n].due = FALSE, ![n].lease = {}]
  PROVE  /\ notice' \in [Notices -> NoticeRow]
         /\ \A k \in Notices : k # n => notice'[k] = notice[k]
         /\ notice'[n].status = status /\ notice'[n].due = FALSE
         /\ notice'[n].attempts = notice[n].attempts
         /\ notice'[n].read = notice[n].read /\ notice'[n].kind = notice[n].kind
<1> DEFINE row == notice[n]
           new == [[[row EXCEPT !.status = status] EXCEPT !.due = FALSE] EXCEPT !.lease = {}]
<1>1. notice \in [Notices -> NoticeRow] /\ row \in NoticeRow
  BY DEF OutboxTypes
<1>2. notice' = [notice EXCEPT ![n] = new]
  BY <1>1
<1> HIDE DEF row
<1>3. /\ new.attempts = row.attempts /\ new.due = FALSE /\ new.status = status
      /\ new.lease = {}
      /\ new.read = row.read /\ new.kind = row.kind /\ new.key = row.key
  BY <1>1 DEF NoticeRow
<1>4. new \in NoticeRow
  BY <1>1, <1>3 DEF NoticeRow, Mail!Terminal
<1> HIDE DEF new
<1>5. notice'[n] = new /\ \A k \in Notices : k # n => notice'[k] = notice[k]
  BY <1>1, <1>2
<1>6. notice' \in [Notices -> NoticeRow]
  BY <1>1, <1>2, <1>4
<1> USE DEF row
<1>7. QED
  BY <1>3, <1>5, <1>6

LEMMA RecordKeeps ==
  ASSUME OInv, NEW w \in Notifiers, Mail!Record(w)
  PROVE  OInv'
<1>1. PICK o \in outcome[w] :
        /\ notice' = IF o.ok THEN Mail!MarkNotificationSent(o.id)
                     ELSE Mail!FailNotification(o.id, batch[w][o.id])
        /\ batch' = [batch EXCEPT ![w] = [n \in DOMAIN batch[w] \ {o.id} |-> batch[w][n]]]
        /\ outcome' = [outcome EXCEPT ![w] = {}]
        /\ accepted' = accepted /\ errors' = errors
  BY DEF Mail!Record
<1> DEFINE m == o.id
<1>2. /\ m \in DOMAIN batch[w] /\ m \in Notices /\ o.ok \in BOOLEAN
      /\ \A p \in outcome[w] : p = o
      /\ batch[w][m] \in Nat
      /\ DOMAIN batch = Notifiers /\ DOMAIN outcome = Notifiers
  BY DEF OInv, OutboxTypes
<1> HIDE DEF m
<1>3. /\ DOMAIN batch'[w] = DOMAIN batch[w] \ {m}
      /\ \A n \in DOMAIN batch[w] \ {m} : batch'[w][n] = batch[w][n]
      /\ \A v \in Notifiers : v # w => batch'[v] = batch[v]
      /\ outcome'[w] = {} /\ \A v \in Notifiers : v # w => outcome'[v] = outcome[v]
      /\ DOMAIN batch' = Notifiers /\ DOMAIN outcome' = Notifiers
  BY <1>1, <1>2 DEF m
\* What becomes of the row.
<1>4. \/ notice[m] = Mail!NoNotice /\ notice' = notice
      \/ /\ o.ok
         /\ notice' = [notice EXCEPT ![m].status = "sent", ![m].due = FALSE,
                                    ![m].lease = {}]
      \/ /\ ~o.ok /\ batch[w][m] >= MaxAttempts
         /\ notice' = [notice EXCEPT ![m].status = "dead_letter", ![m].due = FALSE,
                                    ![m].lease = {}]
      \/ /\ ~o.ok /\ ~(batch[w][m] >= MaxAttempts)
         /\ notice' = [notice EXCEPT ![m].status = "pending", ![m].due = FALSE,
                                    ![m].lease = {}]
  <2>1. CASE notice[m] = Mail!NoNotice
    BY <1>1, <2>1 DEF Mail!MarkNotificationSent, Mail!FailNotification, m
  <2>2. CASE notice[m] # Mail!NoNotice /\ o.ok
    BY <1>1, <2>2 DEF Mail!MarkNotificationSent, m
  <2>3. CASE notice[m] # Mail!NoNotice /\ ~o.ok
    BY <1>1, <2>3 DEF Mail!FailNotification, Mail!StatusAfterFailure, m
  <2>4. QED
    BY <2>1, <2>2, <2>3
<1>5. /\ notice' \in [Notices -> NoticeRow]
      /\ \A k \in Notices : k # m => notice'[k] = notice[k]
      /\ notice'[m].attempts = notice[m].attempts
      /\ notice'[m].read = notice[m].read /\ notice'[m].kind = notice[m].kind
      /\ notice'[m].due => notice'[m].status = "pending"
      /\ \/ notice'[m].status # "pending"
         \/ ~o.ok /\ batch[w][m] < MaxAttempts /\ notice'[m].status = "pending"
            /\ notice'[m].due = FALSE
  <2>1. CASE notice[m] = Mail!NoNotice /\ notice' = notice
    <3>1. notice[m].status = "absent" /\ notice[m].due = FALSE
      BY <2>1 DEF Mail!NoNotice
    <3>2. notice \in [Notices -> NoticeRow]
      BY DEF OInv, OutboxTypes
    <3>3. QED
      BY <2>1, <3>1, <3>2
  <2>2. ASSUME NEW status \in {"pending", "sent", "dead_letter"},
               notice' = [notice EXCEPT ![m].status = status, ![m].due = FALSE,
                                        ![m].lease = {}],
               status = "pending" => ~o.ok /\ batch[w][m] < MaxAttempts
        PROVE  <1>5
    BY <1>2, <2>2, RowClosed DEF OInv
  <2>3. batch[w][m] >= MaxAttempts \/ batch[w][m] < MaxAttempts
    BY <1>2, OutboxAssumption
  <2>4. QED
    BY <1>4, <2>1, <2>2, <2>3
<1>6. OutboxTypes'
  <2>1. \A n \in Notices : /\ notice'[n].due => notice'[n].status = "pending"
                           /\ notice'[n].read => notice'[n].kind = "feed"
    BY <1>2, <1>5 DEF OInv, OutboxTypes
  <2>2. \A v \in Notifiers : /\ DOMAIN batch'[v] \subseteq Notices
                             /\ \A n \in DOMAIN batch'[v] : batch'[v][n] \in Nat
                             /\ \A p \in outcome'[v] : p.id \in DOMAIN batch'[v] /\ p.ok \in BOOLEAN
                             /\ \A p, q \in outcome'[v] : p = q
    BY <1>3 DEF OInv, OutboxTypes
  <2>3. QED
    BY <1>1, <1>3, <1>5, <2>1, <2>2 DEF OInv, OutboxTypes
<1>7. ASSUME NEW n \in Notices PROVE Ledger(n)'
  <2>1. \A v \in Notifiers : v # w => (Accepted(v, n)' <=> Accepted(v, n))
    BY <1>3 DEF Accepted
  <2>2. ~Accepted(w, n)'
    BY <1>3 DEF Accepted
  <2>3. accepted'[n] = accepted[n] /\ errors' = errors
    BY <1>1
  <2>4. CASE n = m
    <3>1. w \in Holders(n)
      BY <1>2, <2>4 DEF Holders
    <3>2. Holders(n)' = Holders(n) \ {w}
      BY <1>3, <2>4 DEF Holders
    <3>3. Owing(n)' = Owing(n) \ {w}
      BY <2>1, <3>2 DEF Owing, Holders
    <3>4. Early(n)' = Early(n) \ {w}
      BY <1>3, <3>2 DEF Early, Holders
    <3>5. \/ Claimable(n)' = 0
          \/ w \in Owing(n) /\ w \in Early(n)
      <4>1. CASE notice'[m].status # "pending"
        BY <2>4, <4>1 DEF Claimable
      <4>2. CASE ~o.ok /\ batch[w][m] < MaxAttempts
        BY <1>2, <2>4, <3>1, <4>2 DEF Owing, Early, Accepted
      <4>3. QED
        BY <1>5, <4>1, <4>2
    <3>6. notice'[n].attempts = notice[n].attempts
      BY <1>5, <2>4
    <3>7. QED
      BY <2>3, <3>1, <3>2, <3>3, <3>4, <3>5, <3>6, LedgerLeft
  <2>5. CASE n # m
    <3>1. Holders(n)' = Holders(n)
      BY <1>3, <2>5 DEF Holders
    <3>2. ~Accepted(w, n)
      BY <1>2, <2>5 DEF Accepted, m
    <3>3. Owing(n)' = Owing(n)
      BY <2>1, <2>2, <3>1, <3>2 DEF Owing, Holders
    <3>4. Early(n)' = Early(n)
      BY <1>3, <2>5, <3>1 DEF Early, Holders
    <3>5. notice'[n] = notice[n]
      BY <1>5, <2>5
    <3>6. Claimable(n)' = Claimable(n)
      BY <3>1, <3>5 DEF Claimable
    <3>7. Claimable(n)' = 0 \/ Claimable(n) = 1
      BY <3>6, OutboxNumbers DEF OInv
    <3>8. QED
      BY <2>3, <3>1, <3>3, <3>4, <3>5, <3>7, LedgerKept
  <2>6. QED
    BY <2>4, <2>5
<1>8. QED
  BY <1>6, <1>7 DEF OInv

LEMMA EndPassKeeps ==
  ASSUME OInv, NEW w \in Notifiers, Mail!EndPass(w)
  PROVE  OInv'
<1>1. /\ batch' = [batch EXCEPT ![w] = <<>>] /\ outcome' = [outcome EXCEPT ![w] = {}]
      /\ notice' = notice /\ accepted' = accepted
      /\ errors < MaxLosses /\ errors' = errors + 1
  BY DEF Mail!EndPass, Mail!Fault
<1>2. DOMAIN batch = Notifiers /\ DOMAIN outcome = Notifiers
  BY DEF OInv, OutboxTypes
<1>3. /\ DOMAIN batch'[w] = {} /\ outcome'[w] = {}
      /\ \A v \in Notifiers : v # w => batch'[v] = batch[v] /\ outcome'[v] = outcome[v]
  BY <1>1, <1>2, EmptySeqDomain
<1>4. OutboxTypes'
  <2>1. errors' \in 0 .. MaxLosses
    BY <1>1, OutboxAssumption DEF OInv, OutboxTypes
  <2>2. \A v \in Notifiers : /\ DOMAIN batch'[v] \subseteq Notices
                             /\ \A n \in DOMAIN batch'[v] : batch'[v][n] \in Nat
                             /\ \A p \in outcome'[v] : p.id \in DOMAIN batch'[v] /\ p.ok \in BOOLEAN
                             /\ \A p, q \in outcome'[v] : p = q
    BY <1>3 DEF OInv, OutboxTypes
  <2>3. QED
    BY <1>1, <1>2, <2>1, <2>2 DEF OInv, OutboxTypes
<1>5. ASSUME NEW n \in Notices PROVE Ledger(n)'
  <2>1. \A v \in Notifiers : v # w => (Accepted(v, n)' <=> Accepted(v, n))
    BY <1>3 DEF Accepted
  <2>2. Holders(n)' = Holders(n) \ {w}
    BY <1>3 DEF Holders
  <2>3. Owing(n)' = Owing(n) \ {w}
    BY <2>1, <2>2 DEF Owing, Holders
  <2>4. Early(n)' = Early(n) \ {w}
    BY <1>3, <2>2 DEF Early, Holders
  <2>5. accepted'[n] = accepted[n] /\ notice'[n].attempts = notice[n].attempts
        /\ errors' = errors + 1
    BY <1>1
  <2>6. CASE w \in Holders(n)
    BY <2>2, <2>3, <2>4, <2>5, <2>6, LedgerLeft
  <2>7. CASE w \notin Holders(n)
    <3>1. w \notin Owing(n) /\ w \notin Early(n)
      BY <2>7 DEF Owing, Early
    <3>2. Holders(n)' = Holders(n) /\ Owing(n)' = Owing(n) /\ Early(n)' = Early(n)
      BY <2>2, <2>3, <2>4, <2>7, <3>1
    <3>3. QED
      BY <2>5, <3>2, LedgerKept
  <2>8. QED
    BY <2>6, <2>7
<1>6. QED
  BY <1>4, <1>5 DEF OInv

\* Rows that are only written over, by who holds none of them.
LEMMA RowsKept ==
  ASSUME OInv, notice' \in [Notices -> NoticeRow],
         \A n \in Notices : /\ notice'[n].due => notice'[n].status = "pending"
                            /\ notice'[n].read => notice'[n].kind = "feed"
                            /\ notice'[n].attempts = notice[n].attempts,
         batch' = batch, outcome' = outcome, accepted' = accepted,
         \/ /\ errors' = errors
            /\ \A n \in Notices :
                 \/ /\ notice'[n].status = notice[n].status /\ notice'[n].due = notice[n].due
                    /\ notice'[n].lease = notice[n].lease
                 \/ /\ notice[n].status = "pending"
                    /\ notice[n].lease \cap Holders(n) = {}
         \/ errors' = errors + 1 /\ errors < MaxLosses
  PROVE  OInv'
<1>1. OutboxTypes'
  <2>1. errors' \in 0 .. MaxLosses
    BY OutboxAssumption DEF OInv, OutboxTypes
  <2>2. QED
    BY <2>1 DEF OInv, OutboxTypes
<1>2. ASSUME NEW n \in Notices PROVE Ledger(n)'
  <2>1. Holders(n)' = Holders(n) /\ Owing(n)' = Owing(n) /\ Early(n)' = Early(n)
    BY HoldersSame
  <2>2. accepted'[n] = accepted[n] /\ notice'[n].attempts = notice[n].attempts
    OBVIOUS
  <2>3. CASE errors' = errors + 1
    BY <2>1, <2>2, <2>3, LedgerKept
  <2>4. CASE errors' = errors /\ notice'[n].status = notice[n].status
             /\ notice'[n].due = notice[n].due /\ notice'[n].lease = notice[n].lease
    <3>1. Claimable(n)' = Claimable(n)
      BY <2>1, <2>4 DEF Claimable
    <3>2. Claimable(n)' = 0 \/ Claimable(n) = 1
      BY <3>1, OutboxNumbers DEF OInv
    <3>3. QED
      BY <2>1, <2>2, <2>4, <3>2, LedgerKept
  <2>5. CASE /\ errors' = errors /\ notice[n].status = "pending"
             /\ notice[n].lease \cap Holders(n) = {}
    <3>1. Claimable(n) = 1
      BY <2>5 DEF Claimable
    <3>2. QED
      BY <2>1, <2>2, <2>5, <3>1, LedgerKept
  <2>6. QED
    BY <2>3, <2>4, <2>5
<1>3. QED
  BY <1>1, <1>2 DEF OInv

\* A row with its due time reached.
LEMMA RowDue ==
  ASSUME OInv, NEW m \in Notices, notice[m].status = "pending",
         notice' = [notice EXCEPT ![m].due = TRUE, ![m].lease = {}]
  PROVE  /\ notice' \in [Notices -> NoticeRow]
         /\ \A n \in Notices : /\ notice'[n].due => notice'[n].status = "pending"
                               /\ notice'[n].read => notice'[n].kind = "feed"
                               /\ notice'[n].attempts = notice[n].attempts
         /\ \A n \in Notices : n # m => notice'[n] = notice[n]
<1> DEFINE row == notice[m]
           new == [[row EXCEPT !.due = TRUE] EXCEPT !.lease = {}]
<1>1. notice \in [Notices -> NoticeRow] /\ row \in NoticeRow /\ row.status = "pending"
  BY DEF OInv, OutboxTypes
<1>2. notice' = [notice EXCEPT ![m] = new]
  BY <1>1
<1>3. row.read => row.kind = "feed"
  BY DEF OInv, OutboxTypes
<1> HIDE DEF row
<1>4. /\ new.attempts = row.attempts /\ new.due = TRUE /\ new.status = "pending"
      /\ new.lease = {}
      /\ new.read = row.read /\ new.kind = row.kind /\ new.key = row.key
  BY <1>1 DEF NoticeRow
<1>5. new \in NoticeRow
  BY <1>1, <1>4 DEF NoticeRow
<1> HIDE DEF new
<1>6. notice'[m] = new /\ \A n \in Notices : n # m => notice'[n] = notice[n]
  BY <1>1, <1>2
<1>7. notice' \in [Notices -> NoticeRow]
  BY <1>1, <1>2, <1>5
<1>8. \A n \in Notices : n # m => /\ notice[n].due => notice[n].status = "pending"
                                  /\ notice[n].read => notice[n].kind = "feed"
  BY DEF OInv, OutboxTypes
<1>9. row.attempts = notice[m].attempts
  BY DEF row
<1>10. ASSUME NEW n \in Notices
       PROVE  /\ notice'[n].due => notice'[n].status = "pending"
              /\ notice'[n].read => notice'[n].kind = "feed"
              /\ notice'[n].attempts = notice[n].attempts
  <2>1. CASE n = m
    BY <1>3, <1>4, <1>6, <1>9, <2>1
  <2>2. CASE n # m
    BY <1>6, <1>8, <2>2
  <2>3. QED
    BY <2>1, <2>2
<1>11. QED
  BY <1>6, <1>7, <1>10

LEMMA DueKeeps ==
  ASSUME OInv, NEW m \in Notices, Mail!ScheduleArrives(m) \/ Mail!ClaimRunsOut(m)
  PROVE  OInv'
<1>1. /\ notice[m].status = "pending"
      /\ notice' = [notice EXCEPT ![m].due = TRUE, ![m].lease = {}]
      /\ batch' = batch /\ outcome' = outcome /\ accepted' = accepted
      /\ \/ errors' = errors /\ notice[m].lease \cap Holders(m) = {}
         \/ errors' = errors + 1 /\ errors < MaxLosses
  BY MailLeased DEF OInv, Mail!ScheduleArrives, Mail!ClaimRunsOut, Mail!Fault
<1>2. QED
  BY <1>1, RowDue, RowsKept

\* Feed entries are marked read.
LEMMA ReadKeeps ==
  ASSUME OInv, (\E m \in Notices : Mail!MarkRead(m)) \/ Mail!MarkAllRead
  PROVE  OInv'
<1>1. /\ batch' = batch /\ outcome' = outcome /\ accepted' = accepted /\ errors' = errors
      /\ DOMAIN notice' = Notices
      /\ \A n \in Notices :
           \/ notice'[n] = notice[n]
           \/ notice[n].kind = "feed" /\ notice'[n] = [notice[n] EXCEPT !.read = TRUE]
  <2>1. CASE Mail!MarkAllRead
    BY <2>1 DEF Mail!MarkAllRead, Mail!FeedEntries
  <2>2. ASSUME NEW m \in Notices, Mail!MarkRead(m) PROVE <1>1
    <3>1. DOMAIN notice = Notices
      BY DEF OInv, OutboxTypes
    <3>2. notice' = [notice EXCEPT ![m].read = TRUE] /\ notice[m].kind = "feed"
      BY <2>2 DEF Mail!MarkRead, Mail!FeedEntries
    <3>3. DOMAIN notice' = Notices
      BY <3>1, <3>2
    <3>4. \A n \in Notices :
            \/ notice'[n] = notice[n]
            \/ notice[n].kind = "feed" /\ notice'[n] = [notice[n] EXCEPT !.read = TRUE]
      BY <3>1, <3>2
    <3>5. QED
      BY <2>2, <3>3, <3>4 DEF Mail!MarkRead
  <2>3. QED
    BY <2>1, <2>2
<1>2. ASSUME NEW n \in Notices
      PROVE  /\ notice'[n] \in NoticeRow
             /\ notice'[n].status = notice[n].status /\ notice'[n].due = notice[n].due
             /\ notice'[n].lease = notice[n].lease
             /\ notice'[n].attempts = notice[n].attempts
             /\ notice'[n].due => notice'[n].status = "pending"
             /\ notice'[n].read => notice'[n].kind = "feed"
  <2> DEFINE row == notice[n]
             new == [row EXCEPT !.read = TRUE]
  <2>1. /\ row \in NoticeRow /\ (row.due => row.status = "pending")
        /\ row.read => row.kind = "feed"
    BY DEF OInv, OutboxTypes
  <2>2. notice'[n] = row \/ (row.kind = "feed" /\ notice'[n] = new)
    <3>1. \/ notice'[n] = notice[n]
          \/ notice[n].kind = "feed" /\ notice'[n] = [notice[n] EXCEPT !.read = TRUE]
      BY <1>1, <1>2
    <3>2. QED
      BY <3>1
  <2> HIDE DEF row
  <2>3. /\ new.attempts = row.attempts /\ new.due = row.due /\ new.status = row.status
        /\ new.read = TRUE /\ new.kind = row.kind /\ new.key = row.key
        /\ new.lease = row.lease
    BY <2>1 DEF NoticeRow
  <2>4. new \in NoticeRow
    BY <2>1, <2>3 DEF NoticeRow
  <2> HIDE DEF new
  <2>5. /\ notice'[n] \in NoticeRow
        /\ notice'[n].status = row.status /\ notice'[n].due = row.due
        /\ notice'[n].lease = row.lease
        /\ notice'[n].attempts = row.attempts
        /\ notice'[n].due => notice'[n].status = "pending"
        /\ notice'[n].read => notice'[n].kind = "feed"
    BY <2>1, <2>2, <2>3, <2>4
  <2> USE DEF row
  <2>6. QED
    BY <2>5
<1>3. notice' \in [Notices -> NoticeRow]
  <2>1. notice' = [n \in Notices |-> notice'[n]]
    <3>1. CASE Mail!MarkAllRead
      BY <3>1 DEF Mail!MarkAllRead
    <3>2. ASSUME NEW m \in Notices, Mail!MarkRead(m) PROVE <2>1
      BY <3>2 DEF Mail!MarkRead, OInv, OutboxTypes
    <3>3. QED
      BY <3>1, <3>2
  <2>2. QED
    BY <1>2, <2>1
<1>4. QED
  BY <1>1, <1>2, <1>3, RowsKept

LEMMA PurgeKeeps ==
  ASSUME OInv, NEW m \in Notices, Mail!PurgeTerminalNotification(m)
  PROVE  OInv'
<1>1. /\ notice' = [notice EXCEPT ![m] = Mail!NoNotice]
      /\ batch' = batch /\ outcome' = outcome /\ accepted' = accepted /\ errors' = errors
  BY DEF Mail!PurgeTerminalNotification
<1>2. Mail!NoNotice \in NoticeRow
  BY DEF Mail!NoNotice, NoticeRow, Mail!Kinds
<1>3. /\ notice' \in [Notices -> NoticeRow] /\ notice'[m] = Mail!NoNotice
      /\ \A n \in Notices : n # m => notice'[n] = notice[n]
  BY <1>1, <1>2 DEF OInv, OutboxTypes
<1>4. OutboxTypes'
  BY <1>1, <1>3 DEF OInv, OutboxTypes, Mail!NoNotice
<1>5. ASSUME NEW n \in Notices PROVE Ledger(n)'
  <2>1. Holders(n)' = Holders(n) /\ Owing(n)' = Owing(n) /\ Early(n)' = Early(n)
    BY <1>1, HoldersSame
  <2>2. CASE n = m
    <3>1. notice'[n].attempts = 0 /\ notice'[n].status = "absent"
      BY <1>3, <2>2 DEF Mail!NoNotice
    <3>2. Claimable(n)' = 0
      BY <3>1 DEF Claimable
    <3>3. QED
      BY <1>1, <2>1, <3>1, <3>2, LedgerFresh
  <2>3. CASE n # m
    <3>1. notice'[n] = notice[n]
      BY <1>3, <2>3
    <3>2. Claimable(n)' = Claimable(n)
      BY <2>1, <3>1 DEF Claimable
    <3>3. Claimable(n)' = 0 \/ Claimable(n) = 1
      BY <3>2, OutboxNumbers DEF OInv
    <3>4. QED
      BY <1>1, <2>1, <3>1, <3>3, LedgerKept
  <2>4. QED
    BY <2>2, <2>3
<1>6. QED
  BY <1>4, <1>5 DEF OInv

LEMMA OutboxInit == Mail!Init => OInv
<1> SUFFICES ASSUME Mail!Init PROVE OInv
  OBVIOUS
<1>1. /\ notice = [n \in Notices |-> Mail!NoNotice] /\ batch = [w \in Notifiers |-> <<>>]
      /\ outcome = [w \in Notifiers |-> {}] /\ accepted = [n \in Notices |-> 0] /\ errors = 0
  BY DEF Mail!Init
<1>2. Mail!NoNotice \in NoticeRow
  BY DEF Mail!NoNotice, NoticeRow, Mail!Kinds
<1>3. \A w \in Notifiers : DOMAIN batch[w] = {} /\ outcome[w] = {}
  BY <1>1, EmptySeqDomain
<1>4. \A n \in Notices : notice[n] = Mail!NoNotice /\ accepted[n] = 0
  BY <1>1
<1>5. OutboxTypes
  <2>1. notice \in [Notices -> NoticeRow] /\ accepted \in [Notices -> Nat]
    BY <1>1, <1>2
  <2>2. errors \in 0 .. MaxLosses
    BY <1>1, OutboxAssumption
  <2>3. QED
    BY <1>1, <1>3, <1>4, <2>1, <2>2 DEF OutboxTypes, Mail!NoNotice
<1>6. ASSUME NEW n \in Notices PROVE Ledger(n)
  <2>1. Holders(n) = {}
    BY <1>3 DEF Holders
  <2>2. Owing(n) = {} /\ Early(n) = {}
    BY <2>1 DEF Owing, Early
  <2>3. Cardinality(Holders(n)) = 0 /\ Cardinality(Owing(n)) = 0 /\ Cardinality(Early(n)) = 0
    BY <2>1, <2>2, FS_EmptySet
  <2>4. Claimable(n) = 0 /\ notice[n].attempts = 0 /\ accepted[n] = 0
    BY <1>4 DEF Claimable, Mail!NoNotice
  <2>5. Balanced(0, 0, 0, 0, 0, 0, 0)
    BY OutboxAssumption DEF Balanced
  <2>6. QED
    BY <1>1, <2>3, <2>4, <2>5 DEF Ledger
<1>7. QED
  BY <1>5, <1>6 DEF OInv

LEMMA OutboxStep == OInv /\ [Mail!Next]_Mail!vars => OInv'
<1> SUFFICES ASSUME OInv, [Mail!Next]_Mail!vars PROVE OInv'
  OBVIOUS
<1>1. CASE \E n \in Notices, kind \in Mail!Kinds, key \in Keys \cup {Mail!NoKey} :
             Mail!EnqueueNotification(n, kind, key)
  BY <1>1, EnqueueKeeps
<1>2. CASE \E n \in Notices : Mail!ScheduleArrives(n) \/ Mail!ClaimRunsOut(n)
  BY <1>2, DueKeeps
<1>3. CASE (\E n \in Notices : Mail!MarkRead(n)) \/ Mail!MarkAllRead
  BY <1>3, ReadKeeps
<1>4. CASE \E n \in Notices : Mail!PurgeTerminalNotification(n)
  BY <1>4, PurgeKeeps
<1>5. CASE \E w \in Notifiers, ns \in SUBSET Notices : Mail!ClaimPendingNotifications(w, ns)
  BY <1>5, ClaimKeeps
<1>6. CASE \E w \in Notifiers, n \in Notices : Mail!Send(w, n)
  BY <1>6, SendKeeps
<1>7. CASE \E w \in Notifiers : Mail!Record(w)
  BY <1>7, RecordKeeps
<1>8. CASE \E w \in Notifiers : Mail!EndPass(w)
  BY <1>8, EndPassKeeps
<1>9. CASE UNCHANGED Mail!vars
  <2>1. notice' = notice /\ batch' = batch /\ outcome' = outcome /\ accepted' = accepted
        /\ errors' = errors
    BY <1>9 DEF Mail!vars
  <2>2. QED
    BY <2>1, RowsKept DEF OInv, OutboxTypes
<1>10. QED
  BY <1>1, <1>2, <1>3, <1>4, <1>5, <1>6, <1>7, <1>8, <1>9 DEF Mail!Next

LEMMA OutboxInvariant == Mail!Spec => []OInv
  BY OutboxInit, OutboxStep, PTL DEF Mail!Spec

LEMMA LedgerBounds ==
  ASSUME OInv
  PROVE  \A n \in Notices : /\ accepted[n] <= 1 + errors
                            /\ notice[n].attempts <= MaxAttempts + errors
<1> SUFFICES ASSUME NEW n \in Notices
             PROVE  /\ accepted[n] <= 1 + errors
                    /\ notice[n].attempts <= MaxAttempts + errors
  OBVIOUS
<1> DEFINE held == Cardinality(Holders(n))
           owed == Cardinality(Owing(n))
           early == Cardinality(Early(n))
           free == Claimable(n)
           mails == accepted[n]
           tries == notice[n].attempts
<1>1. /\ held \in Nat /\ owed \in Nat /\ early \in Nat /\ free \in {0, 1} /\ mails \in Nat
      /\ tries \in Nat /\ errors \in Nat /\ MaxAttempts \in Nat
  BY OutboxNumbers DEF OInv
<1>2. Balanced(held, owed, early, free, mails, tries, errors)
  BY DEF OInv, Ledger
<1> HIDE DEF held, owed, early, free, mails, tries
<1>3. mails <= 1 + errors /\ tries <= MaxAttempts + errors
  BY <1>1, <1>2 DEF Balanced
<1> USE DEF mails, tries
<1>4. QED
  BY <1>3

\* Of any number of notifiers, claims and records of any order: a mail that
\* goes out again and an attempt beyond the maximum have a fault each.  A late
\* fail_notification that puts a row up under the claim of another is none.
THEOREM MailsArePaid == Mail!Spec => []MailsCostFaults
<1>1. OInv => MailsCostFaults
  BY LedgerBounds DEF MailsCostFaults, Mail!MailsCostFaults
<1>2. QED
  BY <1>1, OutboxInvariant, PTL

\* The outbox keeps its types; the attempts of a row are bounded by its ledger.
THEOREM OutboxKeepsTypes == Mail!Spec => []Mail!TypeOK
<1>1. OInv => Mail!TypeOK
  <2> SUFFICES ASSUME OInv PROVE Mail!TypeOK
    OBVIOUS
  <2>1. ASSUME NEW n \in Notices
        PROVE  /\ notice[n].status \in {"absent", "pending"} \cup Mail!Terminal
               /\ notice[n].kind \in Mail!Kinds /\ notice[n].key \in Keys \cup {Mail!NoKey}
               /\ notice[n].attempts \in 0 .. MaxAttempts + MaxLosses
               /\ notice[n].due => notice[n].status = "pending"
               /\ notice[n].lease \in SUBSET Notifiers
               /\ notice[n].read => notice[n].kind = "feed"
    <3>1. notice[n] \in NoticeRow
      BY DEF OInv, OutboxTypes
    <3>2. notice[n].attempts \in Nat /\ errors \in 0 .. MaxLosses
          /\ notice[n].attempts <= MaxAttempts + errors
      BY <3>1, LedgerBounds DEF OInv, OutboxTypes, NoticeRow
    <3>3. notice[n].attempts \in 0 .. MaxAttempts + MaxLosses
      BY <3>2, OutboxAssumption
    <3>4. QED
      BY <3>1, <3>3 DEF NoticeRow, OInv, OutboxTypes
  <2>2. QED
    BY <2>1 DEF Mail!TypeOK, OInv, OutboxTypes
<1>2. QED
  BY <1>1, OutboxInvariant, PTL

-----------------------------------------------------------------------------
(* Both halves.                                                            *)

LEMMA HalvesRun == PartsSpec => Spec /\ Mail!Spec
<1>1. PartsInit => Init /\ Mail!Init
  BY DEF PartsInit
<1>2. [PartsNext]_<<vars, outboxVars, half>> => [Next]_vars /\ [Mail!Next]_Mail!vars
  <2> USE DEF vars, outboxVars, Mail!vars
  <2>1. CASE half = "sweeps" /\ Next /\ UNCHANGED <<outboxVars, half>>
    BY <2>1
  <2>2. CASE half = "outbox" /\ Mail!Next /\ UNCHANGED <<vars, half>>
    BY <2>2
  <2>3. CASE UNCHANGED <<vars, outboxVars, half>>
    BY <2>3
  <2>4. QED
    BY <2>1, <2>2, <2>3 DEF PartsNext
<1>3. QED
  BY <1>1, <1>2, PTL DEF PartsSpec, Spec, Mail!Spec

\* Clock, listings, reminders, rows, batches and answers keep their types as the
\* two halves are run: for any number of tasks, sweeps, rows and notifiers.
THEOREM NotificationsKeepTypes == PartsSpec => []PartsTypeOK
  BY HalvesRun, RemindersInvariant, ReminderTypes, OutboxKeepsTypes, PTL DEF PartsTypeOK

\* Of the two halves as they are run, the outbox and its bounds for any number
\* of rows, notifiers and faults, and the reminders for any number of sweeps.
THEOREM NotificationsHold == PartsSpec => [](RemindersSpaced /\ MailsCostFaults)
  BY HalvesRun, RemindersKeepApart, MailsArePaid, PTL
=============================================================================
