---------------------------- MODULE TaskRequests ----------------------------
(***************************************************************************)
(* Requests that change or read the tasks of one tenant: Postgres holds    *)
(* the tasks, Redis a version counter, the cached answers (each under the  *)
(* version current when its read began) and the idempotency key of a task  *)
(* creation and its retries.                                               *)
(*                                                                         *)
(* A change is committed first and the version bumped next, so there is a  *)
(* moment when new readers still find old answers; a failure between the   *)
(* two statements makes it last.  A read takes the version, looks for an   *)
(* answer, queries Postgres and stores the answer, in four steps.          *)
(*                                                                         *)
(* The tasks are abstracted to the number of changes committed: a read     *)
(* that returns n has seen the first n changes.                            *)
(***************************************************************************)
EXTENDS Integers, FiniteSets

CONSTANTS Writers,   \* requests that change tasks, each sent once
          Keyed,     \* those that are one creation and its retries
          Readers,   \* readers of one cached answer, again and again
          MaxFaults  \* bound on errors, crashes, lapsed keys and lost Redis

ASSUME TaskRequestsAssumption ==
  /\ IsFiniteSet(Writers)
  /\ Keyed \subseteq Writers
  /\ MaxFaults \in Nat

VARIABLES changes,   \* changes committed
          version,   \* cache:tenant:..:version
          entry,     \* cached answer under each version
          key,       \* the idempotency key of the creation
          lasting,   \* does the key have no expiry?
          writer,    \* where each writer is
          reader,    \* where each reader is
          acked,     \* changes that every reader may count on
          faults,    \* faults so far
          lost       \* has Redis been lost?

redisVars == <<version, entry, key, lasting>>
vars == <<changes, redisVars, writer, reader, acked, faults, lost>>

-----------------------------------------------------------------------------
Changes == 0 .. Cardinality(Writers)

\* No value, and __pending__; a stored response is the number of a change.
Nothing == -1
Pending == 0

\* A writer's `at' is the change it committed, or that of the answer it got.
InFlight == {"claim", "expire", "validate", "second", "commit", "bump", "store", "delete"}
Ended == {"answered", "failed", "conflict", "rejected"}
Writer == [pc : {"start"} \cup InFlight \cup Ended, at : Changes]

Idle == [pc |-> "idle", version |-> 0, value |-> 0, floor |-> 0]
Reader == [pc : {"idle", "lookup", "query", "fill", "done"},
           version : Changes, value : Changes, floor : Changes]

TypeOK ==
  /\ changes \in Changes
  /\ version \in Changes
  /\ entry \in [Changes -> Changes \cup {Nothing}]
  /\ key \in {Nothing} \cup Changes
  /\ lasting \in BOOLEAN
  /\ writer \in [Writers -> Writer]
  /\ reader \in [Readers -> Reader]
  /\ acked \in Changes
  /\ faults \in 0 .. MaxFaults
  /\ lost \in BOOLEAN

Init ==
  /\ changes = 0
  /\ version = 0
  /\ entry = [v \in Changes |-> Nothing]
  /\ key = Nothing
  /\ lasting = FALSE
  /\ writer = [w \in Writers |-> [pc |-> "start", at |-> 0]]
  /\ reader = [r \in Readers |-> Idle]
  /\ acked = 0
  /\ faults = 0
  /\ lost = FALSE

Fault == faults < MaxFaults /\ faults' = faults + 1

Go(w, pc) == writer' = [writer EXCEPT ![w].pc = pc]
Answer(w, at) == writer' = [writer EXCEPT ![w] = [pc |-> "answered", at |-> at]]

-----------------------------------------------------------------------------
(* The idempotency key, before the change.                                 *)

Ready == key \notin {Nothing, Pending}

\* replay_idempotent, at first and after a claim that was refused.
Replay(w, otherwise) ==
  /\ IF Ready THEN Answer(w, key) ELSE Go(w, otherwise)
  /\ UNCHANGED <<changes, redisVars, reader, acked, faults, lost>>

FirstLookup(w) ==
  /\ writer[w].pc = "start" /\ w \in Keyed
  /\ Replay(w, "claim")

SecondLookup(w) ==
  /\ writer[w].pc = "second"
  /\ Replay(w, "conflict")

\* Mutant: the key is set whether or not it exists.
ClaimFree == TRUE

KeyFree == key = Nothing

\* SETNX; the expiry is set by a second command.
ClaimKey(w) ==
  /\ writer[w].pc = "claim"
  /\ IF KeyFree
       THEN key' = Pending /\ lasting' = TRUE /\ Go(w, "expire")
       ELSE UNCHANGED <<key, lasting>> /\ Go(w, "second")
  /\ UNCHANGED <<changes, version, entry, reader, acked, faults, lost>>

\* Mutant: no EXPIRE.
KeyLasts == TRUE

LastsAfterExpire == FALSE

SetExpiry(w) ==
  /\ writer[w].pc = "expire"
  /\ lasting' = LastsAfterExpire
  /\ Go(w, "validate")
  /\ UNCHANGED <<changes, version, entry, key, reader, acked, faults, lost>>

\* A payload that does not validate returns early: the key is left as it is.
Validate(w) ==
  /\ writer[w].pc = "validate"
  /\ \E pc \in {"commit", "rejected"} : Go(w, pc)
  /\ UNCHANGED <<changes, redisVars, reader, acked, faults, lost>>

-----------------------------------------------------------------------------
(* The change: the transaction, then the bump.                             *)

ReadyToCommit(w) == \/ writer[w].pc = "commit"
                    \/ writer[w].pc = "start" /\ w \notin Keyed

Commit(w) ==
  /\ ReadyToCommit(w)
  /\ changes' = changes + 1
  /\ writer' = [writer EXCEPT ![w] = [pc |-> "bump", at |-> changes + 1]]
  /\ UNCHANGED <<redisVars, reader, acked, faults, lost>>

OnError(w) == IF w \in Keyed THEN "delete" ELSE "failed"

\* The database refuses the change, a project or member that is gone.
RefuseChange(w) ==
  /\ ReadyToCommit(w)
  /\ Go(w, OnError(w))
  /\ UNCHANGED <<changes, redisVars, reader, acked, faults, lost>>

\* Mutants: the version is left alone, or bumped twice.
SameVersion == version
TwiceBumped == version + 2

NextVersion == version + 1

\* From here on every reader may count on the change.
Bump(w) ==
  /\ writer[w].pc = "bump"
  /\ version' = NextVersion
  /\ acked' = IF writer[w].at > acked THEN writer[w].at ELSE acked
  /\ Go(w, IF w \in Keyed THEN "store" ELSE "answered")
  /\ UNCHANGED <<changes, entry, key, lasting, reader, faults, lost>>

\* INCR fails, executed or not: the committed change is reported as an error.
BumpFails(w) ==
  /\ Fault
  /\ writer[w].pc = "bump"
  /\ version' \in {version, NextVersion}
  /\ Go(w, OnError(w))
  /\ UNCHANGED <<changes, entry, key, lasting, reader, acked, lost>>

\* The response replaces whatever the key holds.
StoreResponse(w) ==
  /\ writer[w].pc = "store"
  /\ key' = writer[w].at
  /\ lasting' = FALSE
  /\ Go(w, "answered")
  /\ UNCHANGED <<changes, version, entry, reader, acked, faults, lost>>

\* DEL: of the key, whoever claimed it.
DeleteKey(w) ==
  /\ writer[w].pc = "delete"
  /\ key' = Nothing
  /\ lasting' = FALSE
  /\ Go(w, "failed")
  /\ UNCHANGED <<changes, version, entry, reader, acked, faults, lost>>

-----------------------------------------------------------------------------
(* Cached reads. *)

ReadVersion(r) ==
  /\ reader[r].pc = "idle"
  /\ reader' = [reader EXCEPT ![r] = [pc |-> "lookup", version |-> version,
                                      value |-> 0, floor |-> acked]]
  /\ UNCHANGED <<changes, redisVars, writer, acked, faults, lost>>

LookupEntry(r) ==
  LET cached == entry[reader[r].version]
  IN  /\ reader[r].pc = "lookup"
      /\ reader' = [reader EXCEPT ![r] =
                      IF cached = Nothing THEN [@ EXCEPT !.pc = "query"]
                      ELSE [@ EXCEPT !.pc = "done", !.value = cached]]
      /\ UNCHANGED <<changes, redisVars, writer, acked, faults, lost>>

QueryTasks(r) ==
  /\ reader[r].pc = "query"
  /\ reader' = [reader EXCEPT ![r].pc = "fill", ![r].value = changes]
  /\ UNCHANGED <<changes, redisVars, writer, acked, faults, lost>>

\* Mutant: the key is made with the version at the time of the fill.
LatestVersion(r) == version

FillVersion(r) == reader[r].version

FillEntry(r) ==
  /\ reader[r].pc = "fill"
  /\ entry' = [entry EXCEPT ![FillVersion(r)] = reader[r].value]
  /\ reader' = [reader EXCEPT ![r].pc = "done"]
  /\ UNCHANGED <<changes, version, key, lasting, writer, acked, faults, lost>>

ReturnAnswer(r) ==
  /\ reader[r].pc = "done"
  /\ reader' = [reader EXCEPT ![r] = Idle]
  /\ UNCHANGED <<changes, redisVars, writer, acked, faults, lost>>

-----------------------------------------------------------------------------
(* Time and faults. *)

EntryExpires(v) ==
  /\ entry[v] # Nothing
  /\ entry' = [entry EXCEPT ![v] = Nothing]
  /\ UNCHANGED <<changes, version, key, lasting, writer, reader, acked, faults, lost>>

ClaimedBy(w) == w \in Keyed /\ writer[w].pc \in InFlight \ {"claim", "second"}

InProgress == \E w \in Keyed : ClaimedBy(w)

\* The key expires; while its request is still at work that is a fault.
KeyExpires ==
  /\ key # Nothing /\ ~lasting
  /\ IF InProgress \/ Ready THEN Fault ELSE UNCHANGED faults
  /\ key' = Nothing
  /\ UNCHANGED <<changes, version, entry, lasting, writer, reader, acked, lost>>

\* The process dies, or a command to Redis fails, and nothing is undone.
LoseWriter(w) ==
  /\ Fault
  /\ writer[w].pc \in InFlight
  /\ Go(w, "failed")
  /\ UNCHANGED <<changes, redisVars, reader, acked, lost>>

LoseRedis ==
  /\ Fault
  /\ version' = 0
  /\ entry' = [v \in Changes |-> Nothing]
  /\ key' = Nothing
  /\ lasting' = FALSE
  /\ lost' = TRUE
  /\ UNCHANGED <<changes, writer, reader, acked>>

WriterNext(w) ==
  \/ FirstLookup(w) \/ ClaimKey(w) \/ SetExpiry(w) \/ SecondLookup(w) \/ Validate(w)
  \/ Commit(w) \/ RefuseChange(w) \/ Bump(w) \/ StoreResponse(w) \/ DeleteKey(w)

ReaderNext(r) ==
  \/ ReadVersion(r) \/ LookupEntry(r) \/ QueryTasks(r) \/ FillEntry(r) \/ ReturnAnswer(r)

Next ==
  \/ \E w \in Writers : WriterNext(w) \/ BumpFails(w) \/ LoseWriter(w)
  \/ \E r \in Readers : ReaderNext(r)
  \/ \E v \in Changes : EntryExpires(v)
  \/ KeyExpires
  \/ LoseRedis

Spec == Init /\ [][Next]_vars

(***************************************************************************)
(* Requests run on and time passes; clients owe nothing, faults are not    *)
(* owed either.                                                            *)
(***************************************************************************)
Fairness == WF_vars(KeyExpires) /\ \A w \in Writers : WF_vars(WriterNext(w))

FairSpec == Spec /\ Fairness

-----------------------------------------------------------------------------
\* A reader that starts after a change was answered sees it, in a cached
\* answer or a fresh one, unless Redis was lost: a read that began under an
\* old version never leaves its answer under a newer one.
ReadYourWrites ==
  \A r \in Readers :
    (~lost /\ reader[r].pc = "done") => reader[r].value >= reader[r].floor

\* The key stays pending for ever only if its request died between SETNX and
\* EXPIRE: in every other case it is answered, deleted or expires.
KeyReleased == <>[](key = Pending) => <>[](lasting /\ faults > 0)

\* What the documentation says of a retry: it may be refused as in progress
\* while the original request is; so a pending key has a request at work.
PendingMeansInProgress == key = Pending => InProgress
=============================================================================
