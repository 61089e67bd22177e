------------------------- MODULE TaskRequestsProofs -------------------------
(***************************************************************************)
(* Cached reads for any number of requests and readers.  The version does  *)
(* not move without making room for new answers, and what readers may      *)
(* count on does not move without the version: so all that is stored under *)
(* a version has seen what was acknowledged while it was current.          *)
(*                                                                         *)
(* Creations for any number of requests with one key: see further down.    *)
(***************************************************************************)
EXTENDS TenantRequests, FiniteSetTheorems, TLAPS

PreCommit == {"start", "claim", "expire", "validate", "second", "commit"}
PreBump == PreCommit \cup {"bump"}

Uncommitted == {w \in Writers : writer[w].pc \in PreCommit}
Unbumped == {w \in Writers : writer[w].pc \in PreBump}

\* Every request commits once and bumps once.
Room ==
  /\ changes + Cardinality(Uncommitted) <= Cardinality(Writers)
  /\ version + Cardinality(Unbumped) <= Cardinality(Writers)

TInv == TypeOK /\ Room

-----------------------------------------------------------------------------
(* Counting. *)

LEMMA Sizes ==
  /\ Cardinality(Writers) \in Nat
  /\ Uncommitted \subseteq Unbumped
  /\ IsFiniteSet(Uncommitted) /\ Cardinality(Uncommitted) \in Nat
  /\ IsFiniteSet(Unbumped) /\ Cardinality(Unbumped) \in Nat
<1>1. IsFiniteSet(Writers)
  BY TaskRequestsAssumption
<1>2. Uncommitted \in SUBSET Writers /\ Unbumped \in SUBSET Writers
  BY DEF Uncommitted, Unbumped
<1>3. QED
  BY <1>1, <1>2, FS_Subset, FS_CardinalityType DEF Uncommitted, Unbumped, PreBump

LEMMA Fewer ==
  ASSUME NEW A, IsFiniteSet(A), NEW B \in SUBSET A
  PROVE  Cardinality(B) \in Nat /\ Cardinality(B) <= Cardinality(A)
  BY FS_Subset, FS_CardinalityType

LEMMA OneFewer ==
  ASSUME NEW A, IsFiniteSet(A), NEW x \in A, NEW B \in SUBSET (A \ {x})
  PROVE  /\ Cardinality(A) \in Nat /\ Cardinality(B) \in Nat
         /\ Cardinality(B) + 1 <= Cardinality(A)
<1>1. /\ IsFiniteSet(A \ {x}) /\ Cardinality(A \ {x}) = Cardinality(A) - 1
      /\ Cardinality(A) \in Nat
  BY FS_RemoveElement, FS_CardinalityType
<1>2. Cardinality(B) \in Nat /\ Cardinality(B) <= Cardinality(A \ {x})
  BY <1>1, Fewer
<1>3. QED
  BY <1>1, <1>2

\* A writer goes where it is no nearer to its commit, or its bump, again.
LEMMA WriterMoves ==
  ASSUME TInv, NEW w \in Writers, NEW k \in Writer,
         writer' = [writer EXCEPT ![w] = k],
         k.pc \in PreCommit => writer[w].pc \in PreCommit,
         k.pc \in PreBump => writer[w].pc \in PreBump,
         UNCHANGED <<changes, version>>
  PROVE  writer' \in [Writers -> Writer] /\ Room'
<1>1. writer' \in [Writers -> Writer] /\ writer'[w] = k
      /\ \A v \in Writers \ {w} : writer'[v] = writer[v]
  BY DEF TInv, TypeOK
<1>2. Uncommitted' \in SUBSET Uncommitted /\ Unbumped' \in SUBSET Unbumped
  BY <1>1 DEF Uncommitted, Unbumped
<1>3. /\ Cardinality(Uncommitted') \in Nat /\ Cardinality(Unbumped') \in Nat
      /\ Cardinality(Uncommitted') <= Cardinality(Uncommitted)
      /\ Cardinality(Unbumped') <= Cardinality(Unbumped)
  BY <1>2, Sizes, Fewer
<1>4. changes \in Nat /\ version \in Nat
  BY Sizes DEF TInv, TypeOK, Changes
<1>5. QED
  BY <1>1, <1>3, <1>4, Sizes DEF TInv, Room

LEMMA WriterGoes ==
  ASSUME TInv, NEW w \in Writers, NEW pc \in {"start"} \cup InFlight \cup Ended,
         Go(w, pc),
         pc \in PreCommit => writer[w].pc \in PreCommit,
         pc \in PreBump => writer[w].pc \in PreBump,
         UNCHANGED <<changes, version>>
  PROVE  writer' \in [Writers -> Writer] /\ Room'
<1>1. writer[w] \in Writer
  BY DEF TInv, TypeOK
<1>2. PICK k : k = [writer[w] EXCEPT !.pc = pc]
  OBVIOUS
<1>3. k \in Writer /\ k.pc = pc
  BY <1>1, <1>2 DEF Writer
<1>4. writer' = [writer EXCEPT ![w] = k]
  BY <1>2 DEF Go
<1>5. QED
  BY <1>3, <1>4, WriterMoves

LEMMA WriterAnswers ==
  ASSUME TInv, NEW w \in Writers, NEW at \in Changes, Answer(w, at),
         UNCHANGED <<changes, version>>
  PROVE  writer' \in [Writers -> Writer] /\ Room'
<1>1. [pc |-> "answered", at |-> at] \in Writer
  BY DEF Writer, Ended
<1>2. "answered" \notin PreBump /\ "answered" \notin PreCommit
  BY DEF PreBump, PreCommit
<1>3. QED
  BY <1>1, <1>2, WriterMoves DEF Answer

-----------------------------------------------------------------------------
(* Types. *)

\* The change of a writer that is about to commit, or to bump, has room.
LEMMA RoomToCommit ==
  ASSUME TInv, NEW w \in Writers, writer[w].pc \in PreCommit
  PROVE  changes + 1 \in Changes
<1>1. w \in Uncommitted
  BY DEF Uncommitted
<1>2. Cardinality(Uncommitted) >= 1
  <2>1. {} \in SUBSET (Uncommitted \ {w}) /\ Cardinality({}) = 0
    BY FS_EmptySet
  <2>2. Cardinality({}) + 1 <= Cardinality(Uncommitted)
    BY <1>1, <2>1, Sizes, OneFewer
  <2>3. QED
    BY <2>1, <2>2
<1>3. QED
  BY <1>2, Sizes DEF TInv, TypeOK, Room, Changes

LEMMA CommitType ==
  ASSUME TInv, NEW w \in Writers, Commit(w)
  PROVE  /\ writer' \in [Writers -> Writer] /\ Room'
         /\ changes' \in Changes
<1>1. writer[w].pc \in PreCommit /\ changes' = changes + 1 /\ version' = version
  BY DEF Commit, ReadyToCommit, PreCommit, redisVars
<1>2. changes + 1 \in Changes
  BY <1>1, RoomToCommit
<1>3. [pc |-> "bump", at |-> changes + 1] \in Writer
  BY <1>2 DEF Writer, InFlight
<1>4. /\ writer'[w] = [pc |-> "bump", at |-> changes + 1]
      /\ writer' \in [Writers -> Writer]
      /\ \A v \in Writers \ {w} : writer'[v] = writer[v]
  BY <1>3 DEF Commit, TInv, TypeOK
<1>5. /\ w \in Uncommitted /\ Uncommitted' \in SUBSET (Uncommitted \ {w})
      /\ Unbumped' \in SUBSET Unbumped
  BY <1>1, <1>4 DEF Uncommitted, Unbumped, PreCommit, PreBump
<1>6. /\ Cardinality(Uncommitted') \in Nat
      /\ Cardinality(Uncommitted') + 1 <= Cardinality(Uncommitted)
      /\ Cardinality(Unbumped') \in Nat
      /\ Cardinality(Unbumped') <= Cardinality(Unbumped)
  BY <1>5, Sizes, Fewer, OneFewer
<1>7. changes \in Nat /\ version \in Nat
  BY Sizes DEF TInv, TypeOK, Changes
<1>8. Room'
  BY <1>1, <1>6, <1>7, Sizes DEF TInv, Room
<1>9. QED
  BY <1>1, <1>2, <1>4, <1>8

\* Bumping, whether or not the request learns of it.
LEMMA BumpType ==
  ASSUME TInv, NEW w \in Writers, writer[w].pc = "bump",
         NEW pc \in {"store", "answered", "delete", "failed"}, Go(w, pc),
         version' \in {version, NextVersion}, UNCHANGED changes
  PROVE  writer' \in [Writers -> Writer] /\ Room' /\ version' \in Changes
<1>1. writer[w] \in Writer
  BY DEF TInv, TypeOK
<1>2. PICK k : k = [writer[w] EXCEPT !.pc = pc]
  OBVIOUS
<1>3. k \in Writer /\ k.pc = pc
  BY <1>1, <1>2 DEF Writer, InFlight, Ended
<1>4. /\ writer'[w] = k /\ writer' \in [Writers -> Writer]
      /\ \A v \in Writers \ {w} : writer'[v] = writer[v]
  BY <1>2, <1>3 DEF Go, TInv, TypeOK
<1>5. /\ w \in Unbumped /\ Unbumped' \in SUBSET (Unbumped \ {w})
      /\ Uncommitted' \in SUBSET Uncommitted
  BY <1>3, <1>4 DEF Uncommitted, Unbumped, PreCommit, PreBump
<1>6. /\ Cardinality(Unbumped') \in Nat
      /\ Cardinality(Unbumped') + 1 <= Cardinality(Unbumped)
      /\ Cardinality(Uncommitted') \in Nat
      /\ Cardinality(Uncommitted') <= Cardinality(Uncommitted)
  BY <1>5, Sizes, Fewer, OneFewer
<1>7. changes \in Nat /\ version \in Nat
  BY Sizes DEF TInv, TypeOK, Changes
<1>8. Room' /\ version' \in Changes
  BY <1>6, <1>7, Sizes DEF TInv, Room, NextVersion, Changes
<1>9. QED
  BY <1>4, <1>8

LEMMA TypeStep == TInv /\ [Next]_vars => TInv'
<1> SUFFICES ASSUME TInv, [Next]_vars PROVE TInv'
  OBVIOUS
<1> USE TaskRequestsAssumption
<1>z. 0 \in Changes /\ Changes \subseteq Nat
  BY Sizes DEF Changes
<1>f. ASSUME Fault PROVE faults' \in 0 .. MaxFaults
  BY <1>f DEF Fault, TInv, TypeOK
<1>1. ASSUME NEW w \in Writers, NEW otherwise \in {"claim", "conflict"},
             writer[w].pc \in {"start", "second"}, Replay(w, otherwise)
      PROVE  TInv'
  <2>1. writer' \in [Writers -> Writer] /\ Room'
    <3>1. UNCHANGED <<changes, version>>
      BY <1>1 DEF Replay, redisVars
    <3>2. CASE Ready
      <4>1. key \in Changes
        BY <3>2 DEF Ready, TInv, TypeOK
      <4>2. QED
        BY <1>1, <3>1, <3>2, <4>1, WriterAnswers DEF Replay
    <3>3. CASE ~Ready
      BY <1>1, <3>1, <3>3, WriterGoes DEF Replay, InFlight, Ended, PreCommit, PreBump
    <3>4. QED
      BY <3>2, <3>3
  <2>2. QED
    BY <1>1, <2>1 DEF Replay, TInv, TypeOK, redisVars
<1>2. ASSUME NEW w \in Writers, FirstLookup(w) PROVE TInv'
  BY <1>1, <1>2 DEF FirstLookup
<1>3. ASSUME NEW w \in Writers, SecondLookup(w) PROVE TInv'
  BY <1>1, <1>3 DEF SecondLookup
<1>4. ASSUME NEW w \in Writers, ClaimKey(w) PROVE TInv'
  <2>1. writer' \in [Writers -> Writer] /\ Room'
    <3>1. PICK pc \in {"expire", "second"} : Go(w, pc)
      BY <1>4 DEF ClaimKey
    <3>2. QED
      BY <1>4, <3>1, WriterGoes DEF ClaimKey, InFlight, PreCommit, PreBump
  <2>2. key' \in {Nothing} \cup Changes /\ lasting' \in BOOLEAN
    BY <1>4, <1>z DEF ClaimKey, TInv, TypeOK, Pending
  <2>3. QED
    BY <1>4, <2>1, <2>2 DEF ClaimKey, TInv, TypeOK
<1>5. ASSUME NEW w \in Writers, SetExpiry(w) PROVE TInv'
  <2>1. writer' \in [Writers -> Writer] /\ Room'
    BY <1>5, WriterGoes DEF SetExpiry, InFlight, PreCommit, PreBump
  <2>2. QED
    BY <1>5, <2>1 DEF SetExpiry, LastsAfterExpire, TInv, TypeOK
<1>6. ASSUME NEW w \in Writers, Validate(w) PROVE TInv'
  <2>1. PICK pc \in {"commit", "rejected"} : Go(w, pc)
    BY <1>6 DEF Validate
  <2>2. writer' \in [Writers -> Writer] /\ Room'
    BY <1>6, <2>1, WriterGoes
       DEF Validate, InFlight, Ended, PreCommit, PreBump, redisVars
  <2>3. QED
    BY <1>6, <2>2 DEF Validate, TInv, TypeOK, redisVars
<1>7. ASSUME NEW w \in Writers, Commit(w) PROVE TInv'
  BY <1>7, CommitType DEF Commit, TInv, TypeOK, redisVars
<1>8. ASSUME NEW w \in Writers, RefuseChange(w) PROVE TInv'
  <2>1. writer' \in [Writers -> Writer] /\ Room'
    <3>1. OnError(w) \in {"delete", "failed"}
      BY DEF OnError
    <3>2. QED
      BY <1>8, <3>1, WriterGoes
         DEF RefuseChange, InFlight, Ended, PreCommit, PreBump, redisVars
  <2>2. QED
    BY <1>8, <2>1 DEF RefuseChange, TInv, TypeOK, redisVars
<1>9. ASSUME NEW w \in Writers, Bump(w) PROVE TInv'
  <2>1. PICK pc \in {"store", "answered"} : Go(w, pc)
    BY <1>9 DEF Bump
  <2>2. writer' \in [Writers -> Writer] /\ Room' /\ version' \in Changes
    BY <1>9, <2>1, BumpType DEF Bump
  <2>3. acked' \in Changes
    BY <1>9 DEF Bump, TInv, TypeOK, Writer
  <2>4. QED
    BY <1>9, <2>2, <2>3 DEF Bump, TInv, TypeOK
<1>10. ASSUME NEW w \in Writers, BumpFails(w) PROVE TInv'
  <2>1. OnError(w) \in {"delete", "failed"}
    BY DEF OnError
  <2>2. writer' \in [Writers -> Writer] /\ Room' /\ version' \in Changes
    BY <1>10, <2>1, BumpType DEF BumpFails
  <2>3. QED
    BY <1>10, <1>f, <2>2 DEF BumpFails, TInv, TypeOK
<1>11. ASSUME NEW w \in Writers, StoreResponse(w) PROVE TInv'
  <2>1. writer' \in [Writers -> Writer] /\ Room'
    BY <1>11, WriterGoes DEF StoreResponse, InFlight, Ended, PreCommit, PreBump
  <2>2. key' \in Changes
    BY <1>11 DEF StoreResponse, TInv, TypeOK, Writer
  <2>3. QED
    BY <1>11, <2>1, <2>2 DEF StoreResponse, TInv, TypeOK
<1>12. ASSUME NEW w \in Writers, DeleteKey(w) PROVE TInv'
  <2>1. writer' \in [Writers -> Writer] /\ Room'
    BY <1>12, WriterGoes DEF DeleteKey, InFlight, Ended, PreCommit, PreBump
  <2>2. QED
    BY <1>12, <2>1 DEF DeleteKey, TInv, TypeOK
<1>13. ASSUME NEW w \in Writers, LoseWriter(w) PROVE TInv'
  <2>1. writer' \in [Writers -> Writer] /\ Room'
    BY <1>13, WriterGoes
       DEF LoseWriter, InFlight, Ended, PreCommit, PreBump, redisVars
  <2>2. QED
    BY <1>13, <1>f, <2>1 DEF LoseWriter, TInv, TypeOK, redisVars
<1>14. ASSUME UNCHANGED <<changes, writer>>, version' \in {0, version}
       PROVE  Room'
  <2>1. Uncommitted' = Uncommitted /\ Unbumped' = Unbumped
    BY <1>14 DEF Uncommitted, Unbumped
  <2>2. version \in Nat /\ changes \in Nat
    BY <1>z DEF TInv, TypeOK
  <2>3. QED
    BY <1>14, <2>1, <2>2, Sizes DEF TInv, Room
<1>15. ASSUME NEW r \in Readers, ReaderNext(r) PROVE TInv'
  <2>1. reader[r] \in Reader
    BY DEF TInv, TypeOK
  <2>2. CASE ReadVersion(r)
    <3>1. [pc |-> "lookup", version |-> version, value |-> 0, floor |-> acked] \in Reader
      BY <1>z DEF TInv, TypeOK, Reader
    <3>2. QED
      BY <1>14, <2>2, <3>1 DEF ReadVersion, TInv, TypeOK, redisVars
  <2>3. CASE LookupEntry(r)
    <3>1. entry[reader[r].version] = Nothing \/ entry[reader[r].version] \in Changes
      BY <2>1 DEF TInv, TypeOK, Reader
    <3>2. reader' \in [Readers -> Reader]
      BY <2>1, <2>3, <3>1 DEF LookupEntry, TInv, TypeOK, Reader
    <3>3. QED
      BY <1>14, <2>3, <3>2 DEF LookupEntry, TInv, TypeOK, redisVars
  <2>4. CASE QueryTasks(r)
    <3>1. reader' \in [Readers -> Reader]
      BY <2>1, <2>4 DEF QueryTasks, TInv, TypeOK, Reader
    <3>2. QED
      BY <1>14, <2>4, <3>1 DEF QueryTasks, TInv, TypeOK, redisVars
  <2>5. CASE FillEntry(r)
    <3>1. /\ reader' \in [Readers -> Reader]
          /\ entry' \in [Changes -> Changes \cup {Nothing}]
      BY <2>1, <2>5 DEF FillEntry, FillVersion, TInv, TypeOK, Reader
    <3>2. QED
      BY <1>14, <2>5, <3>1 DEF FillEntry, TInv, TypeOK
  <2>6. CASE ReturnAnswer(r)
    <3>1. Idle \in Reader
      BY <1>z DEF Idle, Reader
    <3>2. QED
      BY <1>14, <2>6, <3>1 DEF ReturnAnswer, TInv, TypeOK, redisVars
  <2>7. QED
    BY <1>15, <2>2, <2>3, <2>4, <2>5, <2>6 DEF ReaderNext
<1>16. ASSUME NEW v \in Changes, EntryExpires(v) PROVE TInv'
  BY <1>14, <1>16 DEF EntryExpires, TInv, TypeOK
<1>17. CASE KeyExpires
  <2>1. faults' \in 0 .. MaxFaults
    BY <1>17, <1>f DEF KeyExpires, TInv, TypeOK
  <2>2. QED
    BY <1>14, <1>17, <2>1 DEF KeyExpires, TInv, TypeOK
<1>18. CASE LoseRedis
  BY <1>14, <1>18, <1>f, <1>z DEF LoseRedis, TInv, TypeOK
<1>19. CASE UNCHANGED vars
  BY <1>14, <1>19 DEF vars, TInv, TypeOK, redisVars
<1>20. QED
  BY <1>2, <1>3, <1>4, <1>5, <1>6, <1>7, <1>8, <1>9, <1>10, <1>11, <1>12, <1>13,
     <1>15, <1>16, <1>17, <1>18, <1>19 DEF Next, WriterNext

LEMMA TypeInit == Init => TInv
<1> SUFFICES ASSUME Init PROVE TInv
  OBVIOUS
<1>1. 0 \in Changes
  BY Sizes DEF Changes
<1>2. Uncommitted = Writers /\ Unbumped = Writers
  BY DEF Init, Uncommitted, Unbumped, PreCommit, PreBump
<1>3. Room
  BY <1>2, Sizes DEF Init, Room
<1>4. [pc |-> "start", at |-> 0] \in Writer /\ Idle \in Reader
  BY <1>1 DEF Writer, Idle, Reader
<1>5. faults \in 0 .. MaxFaults
  BY TaskRequestsAssumption DEF Init
<1>6. /\ writer \in [Writers -> Writer] /\ reader \in [Readers -> Reader]
      /\ entry \in [Changes -> Changes \cup {Nothing}]
  BY <1>4 DEF Init
<1>7. QED
  BY <1>1, <1>3, <1>5, <1>6 DEF Init, TInv, TypeOK

\* Every variable keeps its type; in particular no more changes are committed
\* and no more versions used than there are requests.
THEOREM TypeCorrect == Spec => []TypeOK
<1>1. TInv => TypeOK
  BY DEF TInv
<1>2. QED
  BY <1>1, TypeInit, TypeStep, PTL DEF Spec

-----------------------------------------------------------------------------
(***************************************************************************)
(* Reads.  All readers of one version count on the same changes, those     *)
(* acknowledged while it was current; an answer stored under it has seen   *)
(* them; and nothing is stored under versions yet to come.                 *)
(***************************************************************************)
Reading(r) == reader[r].pc # "idle"

BumpsCommitted == \A w \in Writers : writer[w].pc = "bump" => writer[w].at <= changes

EntriesOfCurrent ==
  /\ \A v \in Changes : v > version => entry[v] = Nothing
  /\ entry[version] # Nothing => entry[version] >= acked

ReaderOfVersion(r) ==
  /\ reader[r].version <= version
  /\ reader[r].floor <= acked
  /\ reader[r].version = version => reader[r].floor = acked
  /\ entry[reader[r].version] # Nothing => entry[reader[r].version] >= reader[r].floor
  /\ reader[r].pc \in {"fill", "done"} => reader[r].value >= reader[r].floor

SameVersionSameFloor ==
  \A q, r \in Readers :
    (Reading(q) /\ Reading(r) /\ reader[q].version = reader[r].version)
      => reader[q].floor = reader[r].floor

FInv ==
  /\ TInv
  /\ acked <= changes
  /\ BumpsCommitted
  /\ ~lost => /\ EntriesOfCurrent
              /\ \A r \in Readers : Reading(r) => ReaderOfVersion(r)
              /\ SameVersionSameFloor

LEMMA Numbers ==
  ASSUME TypeOK
  PROVE  /\ changes \in Nat /\ version \in Nat /\ acked \in Nat
         /\ version \in Changes /\ Changes \subseteq Nat
         /\ \A v \in Changes : entry[v] = Nothing \/ entry[v] \in Nat
         /\ \A r \in Readers : /\ reader[r] \in Reader
                               /\ reader[r].version \in Changes
                               /\ reader[r].value \in Nat /\ reader[r].floor \in Nat
  BY Sizes DEF TypeOK, Changes, Reader

\* Steps that readers do not notice.
LEMMA ReadersQuiet ==
  ASSUME FInv, TInv', UNCHANGED <<version, entry, reader, acked, lost>>,
         changes' \in {changes, changes + 1},
         \A w \in Writers : writer'[w].pc = "bump"
            => \/ writer[w].pc = "bump" /\ writer'[w].at = writer[w].at
               \/ writer'[w].at <= changes'
  PROVE  FInv'
<1>1. changes \in Nat /\ acked \in Nat /\ \A w \in Writers : writer[w].at \in Nat
  BY Numbers DEF FInv, TInv, TypeOK, Writer
<1>2. acked' <= changes'
  BY <1>1 DEF FInv
<1>3. BumpsCommitted'
  BY <1>1 DEF FInv, BumpsCommitted
<1>4. QED
  BY <1>2, <1>3
     DEF FInv, EntriesOfCurrent, Reading, ReaderOfVersion, SameVersionSameFloor

\* A new version, with or without more to count on, starts without answers.
LEMMA NewVersion ==
  ASSUME FInv, TInv', UNCHANGED <<changes, entry, reader, lost>>,
         version' = version + 1, acked' >= acked, acked' <= changes,
         \A w \in Writers : writer'[w].pc = "bump"
            => writer[w].pc = "bump" /\ writer'[w].at = writer[w].at
  PROVE  FInv'
<1>1. /\ version \in Nat /\ acked \in Nat /\ acked' \in Nat /\ version + 1 \in Changes
      /\ Changes \subseteq Nat
  BY Numbers DEF FInv, TInv, TypeOK
<1>2. BumpsCommitted'
  BY DEF FInv, BumpsCommitted
<1>3. ASSUME ~lost PROVE EntriesOfCurrent'
  <2>1. entry[version + 1] = Nothing
    BY <1>1, <1>3 DEF FInv, EntriesOfCurrent
  <2>2. ASSUME NEW v \in Changes, v > version + 1 PROVE entry[v] = Nothing
    <3>1. v > version
      BY <1>1, <2>2
    <3>2. QED
      BY <1>3, <3>1 DEF FInv, EntriesOfCurrent
  <2>3. Changes' = Changes
    BY DEF Changes
  <2>4. QED
    BY <2>1, <2>2, <2>3 DEF EntriesOfCurrent
<1>4. ASSUME ~lost, NEW r \in Readers, Reading(r) PROVE ReaderOfVersion(r)'
  <2>1. ReaderOfVersion(r) /\ reader[r].version \in Nat /\ reader[r].floor \in Nat
    BY <1>1, <1>4, Numbers DEF FInv, TInv
  <2>2. QED
    BY <1>1, <2>1 DEF ReaderOfVersion
<1>5. ~lost => SameVersionSameFloor'
  BY DEF FInv, SameVersionSameFloor, Reading
<1>6. QED
  BY <1>2, <1>3, <1>4, <1>5 DEF FInv, Reading

LEMMA ReaderStep ==
  ASSUME FInv, TInv', NEW r \in Readers, ReaderNext(r) PROVE FInv'
<1> DEFINE v == reader[r].version
<1>1. /\ changes \in Nat /\ version \in Nat /\ acked \in Nat /\ v \in Nat /\ v \in Changes
      /\ reader[r] \in Reader /\ reader[r].floor \in Nat /\ reader[r].value \in Nat
      /\ version \in Changes
      /\ \A u \in Changes : entry[u] = Nothing \/ entry[u] \in Nat
  BY Numbers DEF FInv, TInv
<1>2. UNCHANGED <<changes, version, writer, acked, lost>>
  BY DEF ReaderNext, ReadVersion, LookupEntry, QueryTasks, FillEntry, ReturnAnswer,
         redisVars
<1>3. acked' <= changes' /\ BumpsCommitted'
  BY <1>2 DEF FInv, BumpsCommitted
<1>4. \A q \in Readers \ {r} : reader'[q] = reader[q]
  BY DEF ReaderNext, ReadVersion, LookupEntry, QueryTasks, FillEntry, ReturnAnswer,
         FInv, TInv, TypeOK
<1>5. ASSUME ~lost, UNCHANGED entry,
             Reading(r)' => ReaderOfVersion(r)',
             Reading(r)' =>
               \/ reader'[r].version = version
               \/ /\ Reading(r)
                  /\ reader'[r].version = v /\ reader'[r].floor = reader[r].floor
      PROVE  FInv'
  <2>1. EntriesOfCurrent'
    BY <1>2, <1>5 DEF FInv, EntriesOfCurrent
  <2>2. \A q \in Readers : Reading(q)' => ReaderOfVersion(q)'
    BY <1>2, <1>4, <1>5 DEF FInv, Reading, ReaderOfVersion
  <2>3. SameVersionSameFloor'
    <3>1. ASSUME NEW q \in Readers \ {r}, Reading(q)', Reading(r)',
                 reader'[q].version = reader'[r].version
          PROVE  reader'[q].floor = reader'[r].floor
      <4>1. reader'[q] = reader[q] /\ Reading(q)
        BY <1>4, <3>1 DEF Reading
      <4>2. ReaderOfVersion(q)' /\ ReaderOfVersion(r)'
        BY <2>2, <3>1
      <4>3. CASE reader'[r].version = version
        BY <1>2, <3>1, <4>2, <4>3 DEF ReaderOfVersion
      <4>4. CASE reader'[r].version # version
        BY <1>5, <3>1, <4>1, <4>4 DEF FInv, SameVersionSameFloor
      <4>5. QED
        BY <4>3, <4>4
    <3>2. ASSUME NEW p \in Readers \ {r}, NEW q \in Readers \ {r}, Reading(p)', Reading(q)',
                 reader'[p].version = reader'[q].version
          PROVE  reader'[p].floor = reader'[q].floor
      BY <1>4, <1>5, <3>2 DEF FInv, SameVersionSameFloor, Reading
    <3>3. QED
      BY <3>1, <3>2 DEF SameVersionSameFloor
  <2>4. QED
    BY <1>2, <1>3, <2>1, <2>2, <2>3 DEF FInv
<1>6. CASE lost
  BY <1>2, <1>3, <1>6 DEF FInv
<1>7. CASE ~lost /\ ReadVersion(r)
  <2>1. /\ UNCHANGED entry
        /\ reader'[r] = [pc |-> "lookup", version |-> version, value |-> 0, floor |-> acked]
    BY <1>7 DEF ReadVersion, FInv, TInv, TypeOK, redisVars
  <2>2. ReaderOfVersion(r)'
    BY <1>1, <1>2, <1>7, <2>1 DEF FInv, EntriesOfCurrent, ReaderOfVersion
  <2>3. QED
    BY <1>5, <1>7, <2>1, <2>2
<1>8. CASE ~lost /\ Reading(r) /\ (LookupEntry(r) \/ QueryTasks(r))
  <2>0. ReaderOfVersion(r)
    BY <1>8 DEF FInv
  <2>1. /\ UNCHANGED entry
        /\ reader'[r].version = v /\ reader'[r].floor = reader[r].floor
        /\ reader'[r].pc \in {"fill", "done"}
             => \/ reader'[r].value = changes
                \/ reader'[r].value = entry[v] /\ entry[v] # Nothing
    <3>1. UNCHANGED entry
      BY <1>8 DEF LookupEntry, QueryTasks, redisVars
    <3>2. CASE LookupEntry(r) /\ entry[v] = Nothing
      <4>1. reader'[r] = [reader[r] EXCEPT !.pc = "query"]
        BY <3>2 DEF LookupEntry, FInv, TInv, TypeOK
      <4>2. QED
        BY <1>1, <3>1, <4>1 DEF Reader
    <3>3. CASE LookupEntry(r) /\ entry[v] # Nothing
      <4>1. reader'[r] = [reader[r] EXCEPT !.pc = "done", !.value = entry[v]]
        BY <3>3 DEF LookupEntry, FInv, TInv, TypeOK
      <4>2. QED
        BY <1>1, <3>1, <3>3, <4>1 DEF Reader
    <3>4. CASE QueryTasks(r)
      <4>1. reader'[r].pc = "fill" /\ reader'[r].value = changes
            /\ reader'[r].version = v /\ reader'[r].floor = reader[r].floor
        <5>1. reader \in [Readers -> Reader]
          BY DEF FInv, TInv, TypeOK
        <5>2. reader'[r] = [reader[r] EXCEPT !.pc = "fill", !.value = changes]
          BY <3>4, <5>1 DEF QueryTasks
        <5>3. QED
          BY <1>1, <5>2 DEF Reader
      <4>2. QED
        BY <3>1, <4>1
    <3>5. QED
      BY <1>8, <3>2, <3>3, <3>4
  <2>2. ReaderOfVersion(r)'
    BY <1>1, <1>2, <2>0, <2>1 DEF FInv, ReaderOfVersion
  <2>3. QED
    BY <1>5, <1>8, <2>1, <2>2
<1>9. CASE ~lost /\ ReturnAnswer(r)
  <2>1. UNCHANGED entry /\ reader'[r].pc = "idle"
    BY <1>9 DEF ReturnAnswer, FInv, TInv, TypeOK, redisVars, Idle
  <2>2. QED
    BY <1>5, <1>9, <2>1 DEF Reading
<1>10. CASE ~lost /\ FillEntry(r)
  <2>1. /\ reader'[r].version = v /\ reader'[r].floor = reader[r].floor
        /\ reader'[r].value = reader[r].value
        /\ reader[r].pc = "fill" /\ Reading(r)
        /\ entry'[v] = reader[r].value
        /\ \A u \in Changes \ {v} : entry'[u] = entry[u]
    BY <1>1, <1>10 DEF FillEntry, FillVersion, FInv, TInv, TypeOK, Reader, Reading
  <2>2. ReaderOfVersion(r) /\ reader[r].value >= reader[r].floor
    BY <1>10, <2>1 DEF FInv, ReaderOfVersion
  <2>3. EntriesOfCurrent'
    <3>1. EntriesOfCurrent /\ v \in Changes /\ v <= version
      BY <1>1, <1>10, <2>2 DEF FInv, ReaderOfVersion
    <3>2. UNCHANGED <<version, acked>> /\ version \in Changes
      BY <1>2, <1>10 DEF FillEntry, FInv, TInv, TypeOK
    <3>3. ASSUME NEW u \in Changes, u > version PROVE entry'[u] = Nothing
      BY <2>1, <3>1, <3>3, Numbers DEF FInv, TInv, EntriesOfCurrent
    <3>4. entry'[version] # Nothing => entry'[version] >= acked
      <4>1. CASE v = version
        BY <2>1, <2>2, <4>1 DEF ReaderOfVersion
      <4>2. CASE v # version
        BY <2>1, <3>1, <3>2, <4>2 DEF EntriesOfCurrent
      <4>3. QED
        BY <4>1, <4>2
    <3>5. QED
      BY <3>2, <3>3, <3>4 DEF EntriesOfCurrent
  <2>4. ASSUME NEW q \in Readers, Reading(q)' PROVE ReaderOfVersion(q)'
    <3>1. /\ Reading(q) /\ ReaderOfVersion(q)
          /\ reader'[q].version = reader[q].version /\ reader'[q].floor = reader[q].floor
          /\ reader'[q].value = reader[q].value
          /\ reader[q].version \in Changes
          /\ reader'[q].pc \in {"fill", "done"} => reader[q].pc \in {"fill", "done"}
      BY <1>4, <1>10, <2>1, <2>4, Numbers DEF FInv, TInv, Reading
    <3>2. CASE reader[q].version = v
      <4>1. reader[q].floor = reader[r].floor
        BY <1>10, <2>1, <3>1, <3>2 DEF FInv, SameVersionSameFloor
      <4>2. QED
        BY <1>2, <2>1, <2>2, <3>1, <3>2, <4>1 DEF ReaderOfVersion
    <3>3. CASE reader[q].version # v
      BY <1>2, <2>1, <3>1, <3>3 DEF ReaderOfVersion
    <3>4. QED
      BY <3>2, <3>3
  <2>5. SameVersionSameFloor'
    <3>1. ASSUME NEW q \in Readers, Reading(q)'
          PROVE  /\ Reading(q) /\ reader'[q].version = reader[q].version
                 /\ reader'[q].floor = reader[q].floor
      BY <1>4, <2>1, <3>1 DEF Reading
    <3>2. SameVersionSameFloor
      BY <1>10 DEF FInv
    <3>3. QED
      BY <3>1, <3>2 DEF SameVersionSameFloor
  <2>6. QED
    BY <1>2, <1>3, <2>3, <2>4, <2>5 DEF FInv
<1>11. QED
  BY <1>6, <1>7, <1>8, <1>9, <1>10
     DEF ReaderNext, Reading, LookupEntry, QueryTasks

LEMMA ReadStep == FInv /\ [Next]_vars => FInv'
<1> SUFFICES ASSUME FInv, [Next]_vars PROVE FInv'
  OBVIOUS
<1>t. TInv /\ TInv' /\ TypeOK
  BY TypeStep DEF FInv, TInv
<1>n. /\ changes \in Nat /\ version \in Nat /\ acked \in Nat
      /\ \A w \in Writers : writer[w] \in Writer /\ writer[w].at \in Nat
  BY <1>t, Numbers DEF TypeOK, Writer
\* A writer that goes anywhere but to its bump.
<1>1. ASSUME NEW w \in Writers,
             writer'[w].pc # "bump", \A v \in Writers \ {w} : writer'[v] = writer[v],
             UNCHANGED <<changes, version, entry, reader, acked, lost>>
      PROVE  FInv'
  BY <1>1, <1>t, ReadersQuiet
<1>2. ASSUME NEW w \in Writers, NEW pc, pc # "bump", Go(w, pc)
      PROVE  writer'[w].pc # "bump" /\ \A v \in Writers \ {w} : writer'[v] = writer[v]
  BY <1>2, <1>n, <1>t DEF Go, TypeOK, Writer
<1>3. ASSUME NEW w \in Writers, FirstLookup(w) \/ SecondLookup(w) PROVE FInv'
  <2>1. writer'[w].pc # "bump" /\ \A v \in Writers \ {w} : writer'[v] = writer[v]
    <3>1. PICK otherwise \in {"claim", "conflict"} :
            IF Ready THEN Answer(w, key) ELSE Go(w, otherwise)
      BY <1>3 DEF FirstLookup, SecondLookup, Replay
    <3>2. CASE Ready
      BY <1>t, <3>1, <3>2 DEF Answer, TypeOK
    <3>3. CASE ~Ready
      BY <1>2, <3>1, <3>3
    <3>4. QED
      BY <3>2, <3>3
  <2>2. QED
    BY <1>1, <1>3, <2>1 DEF FirstLookup, SecondLookup, Replay, redisVars
<1>4. ASSUME NEW w \in Writers, ClaimKey(w) PROVE FInv'
  <2>1. PICK pc \in {"expire", "second"} : Go(w, pc)
    BY <1>4 DEF ClaimKey
  <2>2. QED
    BY <1>1, <1>2, <1>4, <2>1 DEF ClaimKey
<1>5. ASSUME NEW w \in Writers, SetExpiry(w) PROVE FInv'
  BY <1>1, <1>2, <1>5 DEF SetExpiry
<1>6. ASSUME NEW w \in Writers, Validate(w) PROVE FInv'
  <2>1. PICK pc \in {"commit", "rejected"} : Go(w, pc)
    BY <1>6 DEF Validate
  <2>2. QED
    BY <1>1, <1>2, <1>6, <2>1 DEF Validate, redisVars
<1>7. ASSUME NEW w \in Writers, Commit(w) PROVE FInv'
  <2>1. /\ writer'[w].at = changes + 1 /\ changes' = changes + 1
        /\ \A v \in Writers \ {w} : writer'[v] = writer[v]
    BY <1>7, <1>t DEF Commit, TypeOK
  <2>2. QED
    BY <1>7, <1>t, <1>n, <2>1, ReadersQuiet DEF Commit, redisVars
<1>8. ASSUME NEW w \in Writers, RefuseChange(w) PROVE FInv'
  <2>1. OnError(w) # "bump"
    BY DEF OnError
  <2>2. QED
    BY <1>1, <1>2, <1>8, <2>1 DEF RefuseChange, redisVars
<1>9. ASSUME NEW w \in Writers, Bump(w) PROVE FInv'
  <2>1. PICK pc \in {"store", "answered"} : Go(w, pc)
    BY <1>9 DEF Bump
  <2>2. acked' >= acked /\ acked' <= changes
    BY <1>9, <1>n DEF Bump, FInv, BumpsCommitted
  <2>3. \A v \in Writers : writer'[v].pc = "bump"
          => writer[v].pc = "bump" /\ writer'[v].at = writer[v].at
    BY <1>2, <2>1
  <2>4. QED
    BY <1>9, <1>t, <2>2, <2>3, NewVersion DEF Bump, NextVersion
<1>10. ASSUME NEW w \in Writers, BumpFails(w) PROVE FInv'
  <2>1. OnError(w) # "bump"
    BY DEF OnError
  <2>2. writer'[w].pc # "bump" /\ \A v \in Writers \ {w} : writer'[v] = writer[v]
    BY <1>2, <1>10, <2>1 DEF BumpFails
  <2>3. CASE version' = version
    BY <1>1, <1>10, <2>2, <2>3 DEF BumpFails
  <2>4. CASE version' = version + 1
    <3>1. acked' >= acked /\ acked' <= changes
      BY <1>10, <1>n DEF BumpFails, FInv
    <3>2. QED
      BY <1>10, <1>t, <2>2, <2>4, <3>1, NewVersion DEF BumpFails
  <2>5. QED
    BY <1>10, <2>3, <2>4 DEF BumpFails, NextVersion
<1>11. ASSUME NEW w \in Writers, StoreResponse(w) \/ DeleteKey(w) PROVE FInv'
  <2>1. PICK pc \in {"answered", "failed"} : Go(w, pc)
    BY <1>11 DEF StoreResponse, DeleteKey
  <2>2. QED
    BY <1>1, <1>2, <1>11, <2>1 DEF StoreResponse, DeleteKey
<1>12. ASSUME NEW w \in Writers, LoseWriter(w) PROVE FInv'
  BY <1>1, <1>2, <1>12 DEF LoseWriter, redisVars
<1>13. ASSUME NEW r \in Readers, ReaderNext(r) PROVE FInv'
  BY <1>13, <1>t, ReaderStep
<1>14. ASSUME NEW v \in Changes, EntryExpires(v) PROVE FInv'
  <2>1. /\ UNCHANGED <<changes, version, writer, reader, acked, lost>>
        /\ \A u \in Changes : entry'[u] = entry[u] \/ entry'[u] = Nothing
    BY <1>14, <1>t DEF EntryExpires, TypeOK
  <2>2. version \in Changes /\ \A r \in Readers : reader[r].version \in Changes
    BY <1>t, Numbers
  <2>3. QED
    BY <1>t, <2>1, <2>2
       DEF FInv, BumpsCommitted, EntriesOfCurrent, Reading, ReaderOfVersion,
           SameVersionSameFloor
<1>15. CASE KeyExpires \/ UNCHANGED vars
  <2>1. UNCHANGED <<changes, version, entry, writer, reader, acked, lost>>
    BY <1>15 DEF KeyExpires, vars, redisVars
  <2>2. QED
    BY <1>t, <2>1, ReadersQuiet
<1>16. CASE LoseRedis
  BY <1>16, <1>t DEF LoseRedis, FInv, BumpsCommitted
<1>17. QED
  BY <1>3, <1>4, <1>5, <1>6, <1>7, <1>8, <1>9, <1>10, <1>11, <1>12, <1>13, <1>14,
     <1>15, <1>16 DEF Next, WriterNext

LEMMA ReadInit == Init => FInv
<1> SUFFICES ASSUME Init PROVE FInv
  OBVIOUS
<1>1. TInv
  BY TypeInit
<1>2. BumpsCommitted
  BY DEF Init, BumpsCommitted
<1>3. \A r \in Readers : ~Reading(r)
  BY DEF Init, Reading, Idle
<1>4. \A v \in Changes : entry[v] = Nothing
  BY DEF Init
<1>5. EntriesOfCurrent
  BY <1>1, <1>4, Numbers DEF EntriesOfCurrent, TInv
<1>6. QED
  BY <1>1, <1>2, <1>3, <1>5 DEF Init, FInv, SameVersionSameFloor

\* With any number of requests and readers, failed bumps included: a read
\* that starts after a change was answered sees it, cached or not, as long as
\* Redis keeps its counter.
THEOREM FreshReads == Spec => []ReadYourWrites
<1>1. FInv => ReadYourWrites
  BY DEF FInv, Reading, ReaderOfVersion, ReadYourWrites
<1>2. QED
  BY <1>1, ReadInit, ReadStep, PTL DEF Spec

-----------------------------------------------------------------------------
(* Creations.  Whoever may still create, or has to delete the key, takes   *)
(* up the room of a row, and so does a key that is free or that nobody     *)
(* works for.                                                              *)

MayAdd(pc) == pc \in {"create", "undo"} \/ (pc = "validate" /\ route \in Route!Late)

Weight(pc) == IF MayAdd(pc) THEN 1 ELSE 0

Unsettled == {q \in Requests : MayAdd(request[q].pc)}

KeyRoom ==
  IF rowKey = Route!None \/ (rowKey = Route!Pending /\ ~Route!InProgress) THEN 1 ELSE 0

Untold == {q \in rows : request[q].pc \notin {"follow", "store"} /\ request[q].row # q}

Ask == [pc : Route!AtWork \cup Route!Ended, row : {Route!None} \cup Requests]

RowsCostFaults == Cardinality(rows) + Cardinality(Unsettled) + KeyRoom <= 1 + errors

UntoldCostFaults ==
  /\ Cardinality(Untold) <= errors
  /\ \A q \in rows : request[q].pc \in {"follow", "store", "undo", "failed", "answered"}

PendingCostsFault ==
  (errors = 0 /\ rowKey = Route!Pending /\ ~Route!InProgress)
    => \E q \in Requests : route \in Route!Late /\ request[q].pc = "rejected"

CInv == Route!TypeOK /\ RowsCostFaults /\ UntoldCostFaults /\ PendingCostsFault

LEMMA CreationSizes ==
  ASSUME Route!TypeOK
  PROVE  /\ IsFiniteSet(rows) /\ Cardinality(rows) \in Nat
         /\ IsFiniteSet(Unsettled) /\ Cardinality(Unsettled) \in Nat
         /\ IsFiniteSet(Untold) /\ Cardinality(Untold) \in Nat
         /\ KeyRoom \in {0, 1} /\ errors \in Nat /\ errors <= MaxFaults
<1>1. rows \in SUBSET Requests /\ Unsettled \in SUBSET Requests /\ Untold \in SUBSET Requests
  BY DEF Route!TypeOK, Unsettled, Untold
<1>2. IsFiniteSet(rows) /\ IsFiniteSet(Unsettled) /\ IsFiniteSet(Untold)
  BY <1>1, CreationsAssumption, FS_Subset
<1>3. errors \in Nat /\ errors <= MaxFaults
  BY TaskRequestsAssumption DEF Route!TypeOK
<1>4. QED
  BY <1>2, <1>3, FS_CardinalityType DEF KeyRoom

\* One request moves.
LEMMA RequestMoves ==
  ASSUME Route!TypeOK, NEW q \in Requests, NEW k \in Ask,
         request' = [request EXCEPT ![q] = k], UNCHANGED route
  PROVE  /\ request' \in [Requests -> Ask] /\ request'[q] = k
         /\ \A r \in Requests \ {q} : request'[r] = request[r]
         /\ IsFiniteSet(Unsettled') /\ Cardinality(Unsettled') \in Nat
         /\ Cardinality(Unsettled') = Cardinality(Unsettled)
              - Weight(request[q].pc) + Weight(k.pc)
         /\ k.pc \in Route!Holding => Route!InProgress'
         /\ request[q].pc \in Route!Holding => Route!InProgress
         /\ (request[q].pc \notin Route!Holding /\ k.pc \notin Route!Holding)
              => (Route!InProgress' <=> Route!InProgress)
<1>1. request \in [Requests -> Ask]
  BY DEF Route!TypeOK, Ask
<1>2. /\ request' \in [Requests -> Ask] /\ request'[q] = k
      /\ \A r \in Requests \ {q} : request'[r] = request[r]
  BY <1>1
<1>3. \A pc : MayAdd(pc)' <=> MayAdd(pc)
  BY DEF MayAdd
<1>4. Route!Holding' = Route!Holding
  BY DEF Route!Holding
<1>5. /\ k.pc \in Route!Holding => Route!InProgress'
      /\ request[q].pc \in Route!Holding => Route!InProgress
      /\ (request[q].pc \notin Route!Holding /\ k.pc \notin Route!Holding)
              => (Route!InProgress' <=> Route!InProgress)
  BY <1>2, <1>4 DEF Route!InProgress
<1>6. Unsettled' = IF MayAdd(k.pc) THEN Unsettled \cup {q} ELSE Unsettled \ {q}
  BY <1>2, <1>3 DEF Unsettled
<1>7. q \in Unsettled <=> MayAdd(request[q].pc)
  BY DEF Unsettled
<1>8. IsFiniteSet(Unsettled) /\ Cardinality(Unsettled) \in Nat
  BY CreationSizes
<1>9. /\ IsFiniteSet(Unsettled \cup {q})
      /\ Cardinality(Unsettled \cup {q})
           = IF q \in Unsettled THEN Cardinality(Unsettled) ELSE Cardinality(Unsettled) + 1
  BY <1>8, FS_AddElement
<1>10. /\ IsFiniteSet(Unsettled \ {q})
       /\ Cardinality(Unsettled \ {q})
            = IF q \in Unsettled THEN Cardinality(Unsettled) - 1 ELSE Cardinality(Unsettled)
  BY <1>8, FS_RemoveElement
<1>11. IsFiniteSet(Unsettled') /\ Cardinality(Unsettled') \in Nat
  BY <1>6, <1>9, <1>10, FS_CardinalityType
<1>12. Cardinality(Unsettled') = Cardinality(Unsettled)
         - Weight(request[q].pc) + Weight(k.pc)
  BY <1>6, <1>7, <1>8, <1>9, <1>10 DEF Weight
<1>13. QED
  BY <1>2, <1>5, <1>11, <1>12

LEMMA RequestGoes ==
  ASSUME Route!TypeOK, NEW q \in Requests, NEW pc \in Route!AtWork \cup Route!Ended,
         Route!Go(q, pc)
  PROVE  LET k == [pc |-> pc, row |-> request[q].row]
         IN  k \in Ask /\ request' = [request EXCEPT ![q] = k]
<1>1. request \in [Requests -> Ask]
  BY DEF Route!TypeOK, Ask
<1>2. request[q] \in Ask
  BY <1>1
<1>3. request' = [request EXCEPT ![q].pc = pc]
  BY DEF Route!Go
<1>4. [request[q] EXCEPT !.pc = pc] = [pc |-> pc, row |-> request[q].row]
  BY <1>2 DEF Ask
<1>5. QED
  BY <1>2, <1>3, <1>4 DEF Ask

\* A row that is there stays told, or costs a fault.
LEMMA UntoldMoves ==
  ASSUME CInv, NEW q \in Requests, NEW k \in Ask, request' = [request EXCEPT ![q] = k],
         rows' = rows \/ rows' = rows \cup {q},
         errors' \in Nat, errors <= errors',
         q \in rows' =>
           /\ k.pc \in {"follow", "store", "undo", "failed", "answered"}
           /\ \/ k.pc \in {"follow", "store"} \/ k.row = q \/ q \in Untold
              \/ errors' = errors + 1
  PROVE  UntoldCostFaults'
<1>1. request \in [Requests -> Ask] /\ rows \subseteq Requests
  BY DEF CInv, Route!TypeOK, Ask
<1>2. /\ request'[q] = k
      /\ \A r \in Requests \ {q} : request'[r] = request[r]
  BY <1>1
<1>3. \A r \in rows' : request'[r].pc \in {"follow", "store", "undo", "failed", "answered"}
  BY <1>1, <1>2 DEF CInv, UntoldCostFaults
<1>4. /\ IsFiniteSet(Untold) /\ Cardinality(Untold) \in Nat /\ errors \in Nat
      /\ Cardinality(Untold) <= errors
  BY CreationSizes DEF CInv, UntoldCostFaults
<1>5. Untold' \subseteq Untold \cup {q}
  BY <1>1, <1>2 DEF Untold
<1>6. q \in Untold' => q \in Untold \/ errors' = errors + 1
  BY <1>2 DEF Untold
<1>7. CASE q \in Untold' /\ q \notin Untold
  <2>1. /\ IsFiniteSet(Untold \cup {q})
        /\ Cardinality(Untold \cup {q}) = Cardinality(Untold) + 1
    BY <1>4, <1>7, FS_AddElement
  <2>2. Cardinality(Untold') <= Cardinality(Untold \cup {q}) /\ IsFiniteSet(Untold')
    BY <1>5, <2>1, FS_Subset
  <2>3. Cardinality(Untold') \in Nat
    BY <2>2, FS_CardinalityType
  <2>4. QED
    BY <1>3, <1>4, <1>6, <1>7, <2>1, <2>2, <2>3 DEF UntoldCostFaults
<1>8. CASE q \notin Untold' \/ q \in Untold
  <2>1. Untold' \subseteq Untold
    BY <1>5, <1>8
  <2>2. Cardinality(Untold') <= Cardinality(Untold) /\ IsFiniteSet(Untold')
    BY <1>4, <2>1, FS_Subset
  <2>3. Cardinality(Untold') \in Nat
    BY <2>2, FS_CardinalityType
  <2>4. QED
    BY <1>3, <1>4, <2>2, <2>3 DEF UntoldCostFaults
<1>9. QED
  BY <1>7, <1>8

\* A step of one request that leaves the rows as they are.
LEMMA RequestStep ==
  ASSUME CInv, NEW q \in Requests, NEW k \in Ask, request' = [request EXCEPT ![q] = k],
         UNCHANGED <<route, rows>>, errors' \in 0 .. MaxFaults, errors <= errors',
         rowKey' \in {Route!None, Route!Pending} \cup Requests,
         Weight(k.pc) + KeyRoom' + errors
           <= Weight(request[q].pc) + KeyRoom + errors',
         q \in rows =>
           /\ k.pc \in {"follow", "store", "undo", "failed", "answered"}
           /\ \/ k.pc \in {"follow", "store"} \/ k.row = q \/ q \in Untold
              \/ errors' = errors + 1,
         request[q].pc # "rejected",
         (errors' = 0 /\ rowKey' = Route!Pending /\ rowKey = Route!Pending
                       /\ Route!InProgress /\ ~Route!InProgress')
           => route \in Route!Late /\ k.pc = "rejected",
         (rowKey' = Route!Pending /\ rowKey # Route!Pending) => Route!InProgress'
  PROVE  CInv'
<1>0. Route!TypeOK /\ errors' \in Nat
  BY TaskRequestsAssumption DEF CInv
<1>1. /\ request' \in [Requests -> Ask] /\ request'[q] = k
      /\ \A r \in Requests \ {q} : request'[r] = request[r]
      /\ IsFiniteSet(Unsettled') /\ Cardinality(Unsettled') \in Nat
      /\ Cardinality(Unsettled') = Cardinality(Unsettled)
              - Weight(request[q].pc) + Weight(k.pc)
  BY <1>0, RequestMoves
<1>2. Route!TypeOK'
  BY <1>0, <1>1 DEF Route!TypeOK, Ask, Route!AtWork, Route!Holding
<1>3. UntoldCostFaults'
  BY <1>0, UntoldMoves
<1>4. RowsCostFaults'
  <2> DEFINE m == Weight(request[q].pc)
             n == Weight(k.pc)
             made == Cardinality(rows)
             open == Cardinality(Unsettled)
             left == Cardinality(Unsettled')
             room == KeyRoom
             next == KeyRoom'
             cost == errors'
  <2>1. made \in Nat /\ open \in Nat /\ left \in Nat /\ cost \in Nat /\ errors \in Nat
    BY <1>0, <1>1, CreationSizes
  <2>2. m \in {0, 1} /\ n \in {0, 1} /\ room \in {0, 1} /\ next \in {0, 1}
    BY DEF KeyRoom, Weight
  <2>3. made + open + room <= 1 + errors
    BY DEF CInv, RowsCostFaults
  <2>4. n + next + errors <= m + room + cost
    OBVIOUS
  <2>5. left = open - m + n
    BY <1>1
  <2> HIDE DEF m, n, made, open, left, room, next, cost
  <2>6. made + left + next <= 1 + cost
    BY <2>1, <2>2, <2>3, <2>4, <2>5
  <2>7. QED
    BY <2>6 DEF RowsCostFaults, made, left, next, cost
<1>5. PendingCostsFault'
  <2>1. SUFFICES ASSUME errors' = 0, rowKey' = Route!Pending, ~Route!InProgress'
                 PROVE  \E r \in Requests : route' \in Route!Late /\ request'[r].pc = "rejected"
    BY DEF PendingCostsFault, Route!Pending, Route!Late
  <2>2. rowKey = Route!Pending /\ errors = 0
    BY <1>0, <2>1, CreationSizes
  <2>3. CASE Route!InProgress
    BY <2>1, <2>2, <2>3, <1>1
  <2>4. CASE ~Route!InProgress
    <3>1. PICK r \in Requests : route \in Route!Late /\ request[r].pc = "rejected"
      BY <2>2, <2>4 DEF CInv, PendingCostsFault
    <3>2. r # q
      BY <3>1
    <3>3. QED
      BY <3>1, <3>2, <1>1
  <2>5. QED
    BY <2>3, <2>4
<1>6. QED
  BY <1>2, <1>3, <1>4, <1>5 DEF CInv

\* The row is inserted; the answer of the commit may be lost.
LEMMA RowInserted ==
  ASSUME CInv, NEW q \in Requests, request[q].pc = "create",
         NEW k \in Ask, request' = [request EXCEPT ![q] = k],
         rows' = rows \cup {q}, UNCHANGED <<route, rowKey>>,
         \/ k.pc \in {"follow", "store"} /\ errors' = errors
         \/ k.pc = "undo" /\ errors' = errors + 1 /\ errors < MaxFaults
  PROVE  CInv'
<1>0. Route!TypeOK /\ errors \in Nat /\ errors' \in Nat /\ errors' <= MaxFaults /\ MaxFaults \in Nat
  BY TaskRequestsAssumption, CreationSizes DEF CInv
<1>1. /\ request' \in [Requests -> Ask] /\ request'[q] = k
      /\ \A r \in Requests \ {q} : request'[r] = request[r]
      /\ Cardinality(Unsettled') \in Nat
      /\ Cardinality(Unsettled') = Cardinality(Unsettled)
              - Weight(request[q].pc) + Weight(k.pc)
      /\ k.pc \in Route!Holding => Route!InProgress'
      /\ request[q].pc \in Route!Holding => Route!InProgress
  BY <1>0, RequestMoves
<1>2. Route!InProgress /\ Route!InProgress'
  BY <1>1 DEF Route!Holding
<1>3. Route!TypeOK'
  BY <1>0, <1>1 DEF Route!TypeOK, Ask, Route!AtWork, Route!Holding
<1>4. UntoldCostFaults'
  <2>1. /\ k.pc \in {"follow", "store", "undo", "failed", "answered"}
        /\ k.pc \in {"follow", "store"} \/ errors' = errors + 1
    OBVIOUS
  <2>2. errors <= errors'
    BY <1>0
  <2>3. QED
    BY <1>0, <2>1, <2>2, UntoldMoves
<1>5. PendingCostsFault'
  BY <1>2 DEF PendingCostsFault
<1>6. RowsCostFaults'
  <2>1. q \notin rows
    BY DEF CInv, UntoldCostFaults
  <2>2. Cardinality(rows') = Cardinality(rows) + 1
    BY <1>0, <2>1, CreationSizes, FS_AddElement
  <2>3. Weight(request[q].pc) = 1
    BY DEF MayAdd, Weight
  <2>4. KeyRoom' = KeyRoom
    BY <1>2 DEF KeyRoom, Route!None
  <2>5. Cardinality(rows) + Cardinality(Unsettled) + KeyRoom <= 1 + errors
    BY DEF CInv, RowsCostFaults
  <2> DEFINE made == Cardinality(rows)
             open == Cardinality(Unsettled)
             left == Cardinality(Unsettled')
             room == KeyRoom
             cost == errors'
  <2>6. made \in Nat /\ open \in Nat /\ left \in Nat /\ cost \in Nat /\ room \in {0, 1}
    BY <1>0, <1>1, CreationSizes
  <2>7. \/ left = open - 1 /\ cost = errors
        \/ left = open /\ cost = errors + 1
    <3>1. CASE k.pc \in {"follow", "store"} /\ errors' = errors
      <4>1. Weight(k.pc) = 0
        BY <3>1 DEF MayAdd, Weight
      <4>2. QED
        BY <1>1, <2>3, <2>6, <3>1, <4>1
    <3>2. CASE k.pc = "undo" /\ errors' = errors + 1
      <4>1. Weight(k.pc) = 1
        BY <3>2 DEF MayAdd, Weight
      <4>2. QED
        BY <1>1, <2>3, <2>6, <3>2, <4>1
    <3>3. QED
      BY <3>1, <3>2
  <2>8. made + open + room <= 1 + errors
    BY <2>5
  <2> HIDE DEF made, open, left, room, cost
  <2>9. made + 1 + left + room <= 1 + cost
    BY <1>0, <2>6, <2>7, <2>8
  <2>10. QED
    BY <2>2, <2>4, <2>9 DEF RowsCostFaults, made, left, room, cost
<1>7. QED
  BY <1>3, <1>4, <1>5, <1>6 DEF CInv

-----------------------------------------------------------------------------
(* The steps of a request. *)

\* Nothing but the place of a request that holds nothing changes.
LEMMA Strolls ==
  ASSUME CInv, NEW q \in Requests, NEW k \in Ask, request' = [request EXCEPT ![q] = k],
         UNCHANGED <<route, rows, rowKey, errors>>,
         q \notin rows, request[q].pc # "rejected",
         request[q].pc \notin Route!Holding, k.pc \notin Route!Holding
  PROVE  CInv'
<1>0. Route!TypeOK
  BY DEF CInv
<1>1. Route!InProgress' <=> Route!InProgress
  BY <1>0, RequestMoves
<1>2. Weight(k.pc) = 0 /\ Weight(request[q].pc) = 0
  BY DEF MayAdd, Weight, Route!Holding
<1>3. KeyRoom' = KeyRoom
  BY <1>1 DEF KeyRoom, Route!None, Route!Pending
<1>4. /\ errors \in Nat /\ errors' = errors /\ errors' \in 0 .. MaxFaults /\ KeyRoom \in {0, 1}
      /\ rowKey' \in {Route!None, Route!Pending} \cup Requests
  BY <1>0, CreationSizes DEF Route!TypeOK
<1>5. Weight(k.pc) + KeyRoom' + errors
        <= Weight(request[q].pc) + KeyRoom + errors'
  BY <1>2, <1>3, <1>4
<1>6. /\ errors <= errors'
      /\ (errors' = 0 /\ rowKey' = Route!Pending /\ rowKey = Route!Pending
                      /\ Route!InProgress /\ ~Route!InProgress')
           => route \in Route!Late /\ k.pc = "rejected"
      /\ (rowKey' = Route!Pending /\ rowKey # Route!Pending) => Route!InProgress'
  BY <1>1, <1>4
<1>7. UNCHANGED <<route, rows>>
  OBVIOUS
<1>8. QED
  BY <1>4, <1>5, <1>6, <1>7, RequestStep

LEMMA Validated == ASSUME CInv, NEW q \in Requests, Route!Validate(q) PROVE CInv'
<1>0. Route!TypeOK /\ request[q].pc = "validate" /\ q \notin rows
  BY DEF CInv, UntoldCostFaults, Route!Validate
<1>1. PICK pc \in {IF route \in Route!Late THEN "create" ELSE "lookup", "rejected"} :
        Route!Go(q, pc)
  BY DEF Route!Validate
<1>2. UNCHANGED <<route, rows, rowKey, errors>>
  BY DEF Route!Validate
<1> DEFINE k == [pc |-> pc, row |-> request[q].row]
<1>3. k \in Ask /\ request' = [request EXCEPT ![q] = k] /\ k.pc = pc
  BY <1>0, <1>1, RequestGoes DEF Route!AtWork, Route!Holding, Route!Ended
<1> HIDE DEF k
<1>4. CASE route \notin Route!Late
  BY <1>0, <1>1, <1>2, <1>3, <1>4, Strolls DEF Route!Holding
<1>5. CASE route \in Route!Late
  <2>1. /\ errors \in Nat /\ errors' = errors /\ errors' \in 0 .. MaxFaults
        /\ KeyRoom \in {0, 1} /\ KeyRoom' \in {0, 1}
        /\ rowKey' \in {Route!None, Route!Pending} \cup Requests
    BY <1>0, <1>2, CreationSizes DEF Route!TypeOK, KeyRoom
  <2>2. Weight(request[q].pc) = 1 /\ Weight(k.pc) = IF pc = "create" THEN 1 ELSE 0
    BY <1>0, <1>1, <1>3, <1>5 DEF MayAdd, Weight
  <2>a. Route!InProgress
    BY <1>0, <1>5 DEF Route!InProgress, Route!Holding
  <2>3. pc = "create" => Route!InProgress'
    BY <1>0, <1>2, <1>3, RequestMoves DEF Route!Holding
  <2>4. pc = "create" => KeyRoom' = KeyRoom
    BY <1>2, <2>a, <2>3 DEF KeyRoom, Route!None
  <2>5. Weight(k.pc) + KeyRoom' + errors
          <= Weight(request[q].pc) + KeyRoom + errors'
    <3>1. CASE pc = "create"
      BY <2>1, <2>2, <2>4, <3>1
    <3>2. CASE pc # "create"
      <4> DEFINE room == KeyRoom
                 next == KeyRoom'
      <4>1. Weight(k.pc) = 0 /\ Weight(request[q].pc) = 1
        BY <2>2, <3>2
      <4>2. room \in {0, 1} /\ next \in {0, 1}
        BY <2>1
      <4> HIDE DEF room, next
      <4>3. 0 + next + errors <= 1 + room + errors
        BY <2>1, <4>2
      <4>4. QED
        BY <2>1, <4>1, <4>3 DEF room, next
    <3>3. QED
      BY <3>1, <3>2
  <2>6. /\ errors <= errors'
        /\ (errors' = 0 /\ rowKey' = Route!Pending /\ rowKey = Route!Pending
                        /\ Route!InProgress /\ ~Route!InProgress')
             => route \in Route!Late /\ k.pc = "rejected"
        /\ (rowKey' = Route!Pending /\ rowKey # Route!Pending) => Route!InProgress'
    BY <1>1, <1>2, <1>3, <1>5, <2>1, <2>3
  <2>7. UNCHANGED <<route, rows>> /\ request[q].pc # "rejected" /\ q \notin rows
    BY <1>0, <1>2
  <2>8. QED
    BY <1>3, <2>1, <2>5, <2>6, <2>7, RequestStep
<1>6. QED
  BY <1>4, <1>5

LEMMA Replayed ==
  ASSUME CInv, NEW q \in Requests, NEW pc \in {"claim", "conflict"},
         request[q].pc \in {"lookup", "second"}, Route!Replay(q, pc)
  PROVE  CInv'
<1>0. Route!TypeOK /\ q \notin rows /\ UNCHANGED <<route, rows, rowKey, errors>>
  BY DEF CInv, UntoldCostFaults, Route!Replay
<1>1. CASE rowKey \in Requests
  <2> DEFINE k == [pc |-> "answered", row |-> rowKey]
  <2>1. request' = [request EXCEPT ![q] = k]
    BY <1>1 DEF Route!Replay
  <2>2. k \in Ask /\ k.pc = "answered"
    BY <1>1 DEF Ask, Route!Ended
  <2> HIDE DEF k
  <2>3. QED
    BY <1>0, <2>1, <2>2, Strolls DEF Route!Holding
<1>2. CASE rowKey \notin Requests
  <2> DEFINE k == [pc |-> pc, row |-> request[q].row]
  <2>1. Route!Go(q, pc)
    BY <1>2 DEF Route!Replay
  <2>2. k \in Ask /\ request' = [request EXCEPT ![q] = k] /\ k.pc = pc
    BY <1>0, <2>1, RequestGoes DEF Route!AtWork, Route!Ended
  <2> HIDE DEF k
  <2>3. QED
    BY <1>0, <2>2, Strolls DEF Route!Holding
<1>3. QED
  BY <1>1, <1>2

\* A step that leaves a request in the way of the key: the key's room stays.
LEMMA Stays ==
  ASSUME CInv, NEW q \in Requests, NEW pc \in Route!AtWork \cup Route!Ended,
         request[q].pc \in Route!Holding, pc \in Route!Holding, Route!Go(q, pc),
         UNCHANGED <<route, rows, rowKey>>,
         errors' \in 0 .. MaxFaults,
         errors' = errors \/ errors' = errors + 1,
         errors' = errors => Weight(pc) <= Weight(request[q].pc),
         q \in rows =>
           /\ pc \in {"follow", "store", "undo"}
           /\ pc \in {"follow", "store"} \/ errors' = errors + 1
  PROVE  CInv'
<1>0. Route!TypeOK
  BY DEF CInv
<1> DEFINE k == [pc |-> pc, row |-> request[q].row]
           room == KeyRoom
           next == KeyRoom'
           cost == errors'
           new == Weight(pc)
           old == Weight(request[q].pc)
<1>1. k \in Ask /\ request' = [request EXCEPT ![q] = k] /\ k.pc = pc
  BY <1>0, RequestGoes
<1> HIDE DEF k
<1>2. Route!InProgress /\ Route!InProgress'
  BY <1>0, <1>1, RequestMoves
<1>3. next = room /\ room \in {0, 1}
  BY <1>2 DEF KeyRoom, Route!None
<1>4. errors \in Nat /\ cost \in {errors, errors + 1} /\ new \in {0, 1} /\ old \in {0, 1}
  BY <1>0, CreationSizes DEF Weight
<1>5. cost = errors => new <= old
  OBVIOUS
<1> HIDE DEF room, next, cost, new, old
<1>6. new + next + errors <= old + room + cost /\ errors <= cost
  BY <1>3, <1>4, <1>5
<1>7. /\ Weight(k.pc) + KeyRoom' + errors <= Weight(request[q].pc) + KeyRoom + errors'
      /\ errors <= errors'
  BY <1>1, <1>6 DEF room, next, cost, new, old
<1>8. /\ rowKey' \in {Route!None, Route!Pending} \cup Requests
      /\ request[q].pc # "rejected"
      /\ UNCHANGED <<route, rows>>
  BY <1>0 DEF Route!TypeOK, Route!Holding
<1>9. /\ (errors' = 0 /\ rowKey' = Route!Pending /\ rowKey = Route!Pending
                      /\ Route!InProgress /\ ~Route!InProgress')
           => route \in Route!Late /\ k.pc = "rejected"
      /\ (rowKey' = Route!Pending /\ rowKey # Route!Pending) => Route!InProgress'
  BY <1>2
<1>10. q \in rows =>
         /\ k.pc \in {"follow", "store", "undo", "failed", "answered"}
         /\ \/ k.pc \in {"follow", "store"} \/ k.row = q \/ q \in Untold
            \/ errors' = errors + 1
  BY <1>1
<1>11. QED
  BY <1>1, <1>7, <1>8, <1>9, <1>10, RequestStep

\* A step that ends a request, with the key stored, deleted or abandoned.
LEMMA EndsHolding ==
  ASSUME CInv, NEW q \in Requests, NEW k \in Ask, request' = [request EXCEPT ![q] = k],
         k.pc \in {"answered", "failed"}, request[q].pc # "rejected",
         UNCHANGED <<route, rows>>, errors' \in 0 .. MaxFaults,
         rowKey' \in {Route!None, Route!Pending} \cup Requests,
         \/ rowKey' \in Requests /\ errors' = errors /\ k.row = q
         \/ /\ rowKey' = Route!None /\ errors' = errors
            /\ request[q].pc = "undo" /\ k.row = request[q].row
         \/ errors' = errors + 1 /\ rowKey' = rowKey
  PROVE  CInv'
<1>0. Route!TypeOK
  BY DEF CInv
<1> DEFINE room == KeyRoom
           next == KeyRoom'
           cost == errors'
           old == Weight(request[q].pc)
<1>1. Weight(k.pc) = 0
  BY DEF Weight, MayAdd
<1>2. errors \in Nat /\ room \in {0, 1} /\ next \in {0, 1} /\ old \in {0, 1}
  BY <1>0, CreationSizes DEF Weight, KeyRoom
<1>3. \/ cost = errors /\ next = 0
      \/ cost = errors /\ old = 1
      \/ cost = errors + 1
  <2>1. rowKey' \in Requests => next = 0
    BY CreationsAssumption DEF KeyRoom, Route!None, Route!Pending
  <2>2. request[q].pc = "undo" => old = 1
    BY DEF Weight, MayAdd
  <2>3. QED
    BY <2>1, <2>2
<1>4. (errors' = 0 /\ rowKey' = Route!Pending) => FALSE
  <2>1. errors' = errors + 1 => errors' # 0
    BY <1>2
  <2>2. QED
    BY <2>1, CreationsAssumption DEF Route!None, Route!Pending
<1>5. (rowKey' = Route!Pending /\ rowKey # Route!Pending) => Route!InProgress'
  BY CreationsAssumption DEF Route!None, Route!Pending
<1>6. q \in rows =>
        /\ k.pc \in {"follow", "store", "undo", "failed", "answered"}
        /\ \/ k.pc \in {"follow", "store"} \/ k.row = q \/ q \in Untold
           \/ errors' = errors + 1
  <2>1. q \in rows /\ request[q].pc = "undo" /\ k.row = request[q].row
          => k.row = q \/ q \in Untold
    BY DEF Untold
  <2>2. QED
    BY <2>1
<1> HIDE DEF room, next, cost, old
<1>7. 0 + next + errors <= old + room + cost /\ errors <= cost
  BY <1>2, <1>3
<1>8. /\ Weight(k.pc) + KeyRoom' + errors <= Weight(request[q].pc) + KeyRoom + errors'
      /\ errors <= errors'
  BY <1>1, <1>7 DEF room, next, cost, old
<1>9. QED
  BY <1>4, <1>5, <1>6, <1>8, RequestStep

LEMMA Claimed == ASSUME CInv, NEW q \in Requests, Route!Claim(q) PROVE CInv'
<1>0. /\ Route!TypeOK /\ request[q].pc = "claim" /\ q \notin rows
      /\ UNCHANGED <<route, rows, errors>>
  BY DEF CInv, UntoldCostFaults, Route!Claim
<1>1. CASE rowKey = Route!None
  <2> DEFINE pc == IF route \in Route!Late THEN "validate" ELSE "create"
             k == [pc |-> pc, row |-> request[q].row]
  <2>1. rowKey' = Route!Pending /\ Route!Go(q, pc)
    BY <1>1 DEF Route!Claim, Route!KeyFree
  <2>2. pc \in Route!AtWork /\ pc \in Route!Holding /\ Weight(pc) = 1
    BY DEF Route!AtWork, Route!Holding, Weight, MayAdd
  <2> HIDE DEF pc
  <2>3. k \in Ask /\ request' = [request EXCEPT ![q] = k] /\ k.pc = pc
    BY <1>0, <2>1, <2>2, RequestGoes
  <2> HIDE DEF k
  <2>4. Route!InProgress'
    BY <1>0, <2>2, <2>3, RequestMoves
  <2>5. KeyRoom = 1 /\ KeyRoom' = 0
    BY <1>1, <2>1, <2>4 DEF KeyRoom, Route!None, Route!Pending
  <2>6. Weight(k.pc) = 1 /\ Weight(request[q].pc) = 0
    BY <1>0, <2>2, <2>3 DEF Weight, MayAdd
  <2>7. errors \in Nat /\ errors' = errors /\ errors' \in 0 .. MaxFaults
    BY <1>0, CreationSizes DEF Route!TypeOK
  <2>8. /\ Weight(k.pc) + KeyRoom' + errors <= Weight(request[q].pc) + KeyRoom + errors'
        /\ errors <= errors'
    BY <2>5, <2>6, <2>7
  <2>9. /\ (errors' = 0 /\ rowKey' = Route!Pending /\ rowKey = Route!Pending
                        /\ Route!InProgress /\ ~Route!InProgress')
             => route \in Route!Late /\ k.pc = "rejected"
        /\ (rowKey' = Route!Pending /\ rowKey # Route!Pending) => Route!InProgress'
        /\ rowKey' \in {Route!None, Route!Pending} \cup Requests
    BY <2>1, <2>4
  <2>10. QED
    BY <1>0, <2>3, <2>7, <2>8, <2>9, RequestStep
<1>2. CASE rowKey # Route!None
  <2> DEFINE k == [pc |-> "second", row |-> request[q].row]
  <2>1. UNCHANGED rowKey /\ Route!Go(q, "second")
    BY <1>2 DEF Route!Claim, Route!KeyFree
  <2>2. k \in Ask /\ request' = [request EXCEPT ![q] = k] /\ k.pc = "second"
    BY <1>0, <2>1, RequestGoes DEF Route!AtWork
  <2> HIDE DEF k
  <2>3. UNCHANGED <<route, rows, rowKey, errors>>
    BY <1>0, <2>1
  <2>4. QED
    BY <1>0, <2>2, <2>3, Strolls DEF Route!Holding
<1>3. QED
  BY <1>1, <1>2

LEMMA Stored == ASSUME CInv, NEW q \in Requests, Route!StoreResponse(q) PROVE CInv'
<1> DEFINE k == [pc |-> "answered", row |-> q]
<1>1. /\ request[q].pc = "store" /\ rowKey' = q /\ UNCHANGED <<route, rows, errors>>
      /\ request' = [request EXCEPT ![q] = k]
  BY DEF Route!StoreResponse
<1>2. k \in Ask /\ k.pc = "answered" /\ k.row = q
  BY DEF Ask, Route!Ended
<1> HIDE DEF k
<1>3. errors' \in 0 .. MaxFaults
  BY <1>1 DEF CInv, Route!TypeOK
<1>4. QED
  BY <1>1, <1>2, <1>3, EndsHolding

LEMMA Undone == ASSUME CInv, NEW q \in Requests, Route!DeleteKey(q) PROVE CInv'
<1> DEFINE k == [pc |-> "failed", row |-> request[q].row]
<1>1. /\ request[q].pc = "undo" /\ rowKey' = Route!None /\ UNCHANGED <<route, rows, errors>>
      /\ Route!Go(q, "failed")
  BY DEF Route!DeleteKey
<1>2. k \in Ask /\ request' = [request EXCEPT ![q] = k]
  BY <1>1, RequestGoes DEF Route!Ended, CInv
<1>3. k.pc = "failed" /\ k.row = request[q].row
  OBVIOUS
<1> HIDE DEF k
<1>4. errors' \in 0 .. MaxFaults
  BY <1>1 DEF CInv, Route!TypeOK
<1>5. QED
  BY <1>1, <1>2, <1>3, <1>4, EndsHolding

LEMMA FaultCounted ==
  ASSUME CInv, Route!Fault
  PROVE  errors' = errors + 1 /\ errors' \in 0 .. MaxFaults /\ errors < MaxFaults
<1>1. errors \in Nat /\ MaxFaults \in Nat
  BY CreationSizes, TaskRequestsAssumption DEF CInv
<1>2. QED
  BY <1>1 DEF Route!Fault

LEMMA Lost == ASSUME CInv, NEW q \in Requests, Route!Lose(q) PROVE CInv'
<1> DEFINE k == [pc |-> "failed", row |-> request[q].row]
<1>1. /\ request[q].pc \in Route!AtWork /\ UNCHANGED <<route, rows, rowKey>>
      /\ Route!Go(q, "failed") /\ Route!Fault
  BY DEF Route!Lose
<1>2. k \in Ask /\ request' = [request EXCEPT ![q] = k]
  BY <1>1, RequestGoes DEF Route!Ended, CInv
<1>3. k.pc = "failed" /\ request[q].pc # "rejected"
  BY <1>1 DEF Route!AtWork, Route!Holding
<1> HIDE DEF k
<1>4. errors' = errors + 1 /\ errors' \in 0 .. MaxFaults
  BY <1>1, FaultCounted
<1>5. rowKey' \in {Route!None, Route!Pending} \cup Requests
  BY <1>1 DEF CInv, Route!TypeOK
<1>6. QED
  BY <1>1, <1>2, <1>3, <1>4, <1>5, EndsHolding

LEMMA RowMade ==
  ASSUME CInv, NEW q \in Requests, NEW next \in {"follow", "store"}, Route!Created(q, next)
  PROVE  CInv'
<1> DEFINE k == [pc |-> next, row |-> request[q].row]
<1>1. /\ request[q].pc = "create" /\ rows' = rows \cup {q}
      /\ Route!Go(q, next) /\ UNCHANGED <<route, rowKey, errors>>
  BY DEF Route!Created
<1>2. k \in Ask /\ request' = [request EXCEPT ![q] = k] /\ k.pc = next
  BY <1>1, RequestGoes DEF Route!AtWork, Route!Holding, CInv
<1> HIDE DEF k
<1>3. QED
  BY <1>1, <1>2, RowInserted

LEMMA RowErrs == ASSUME CInv, NEW q \in Requests, Route!CreateErrs(q) PROVE CInv'
<1> DEFINE k == [pc |-> "undo", row |-> request[q].row]
<1>1. /\ request[q].pc = "create" /\ (rows' = rows \/ rows' = rows \cup {q})
      /\ Route!Go(q, "undo") /\ UNCHANGED <<route, rowKey>> /\ Route!Fault
  BY DEF Route!CreateErrs
<1>2. errors' = errors + 1 /\ errors' \in 0 .. MaxFaults /\ errors < MaxFaults
  BY <1>1, FaultCounted
<1>3. "undo" \in Route!AtWork \cup Route!Ended /\ "undo" \in Route!Holding
      /\ request[q].pc \in Route!Holding
  BY <1>1 DEF Route!AtWork, Route!Holding
<1>4. CASE rows' = rows
  <2>1. UNCHANGED <<route, rows, rowKey>>
    BY <1>1, <1>4
  <2>2. errors' # errors
    BY <1>2, CreationSizes DEF CInv
  <2>3. QED
    BY <1>1, <1>2, <1>3, <2>1, <2>2, Stays
<1>5. CASE rows' = rows \cup {q}
  <2>1. k \in Ask /\ request' = [request EXCEPT ![q] = k] /\ k.pc = "undo"
    BY <1>1, <1>3, RequestGoes DEF CInv
  <2> HIDE DEF k
  <2>2. QED
    BY <1>1, <1>2, <1>5, <2>1, RowInserted
<1>6. QED
  BY <1>1, <1>4, <1>5

LEMMA RowFollowed ==
  ASSUME CInv, NEW q \in Requests,
         Route!Refused(q) \/ Route!FollowUp(q) \/ Route!FollowUpFails(q)
  PROVE  CInv'
<1>0. /\ {"undo", "store", "create", "follow"} \subseteq Route!AtWork \cup Route!Ended
      /\ {"undo", "store", "create", "follow"} \subseteq Route!Holding
      /\ Weight("undo") = 1 /\ Weight("create") = 1 /\ Weight("store") = 0 /\ Weight("follow") = 0
  BY DEF Route!AtWork, Route!Holding, Weight, MayAdd
<1>1. errors \in 0 .. MaxFaults
  BY DEF CInv, Route!TypeOK
<1>2. CASE Route!Refused(q)
  <2>1. /\ request[q].pc = "create" /\ Route!Go(q, "undo")
        /\ UNCHANGED <<route, rows, rowKey, errors>>
    BY <1>2 DEF Route!Refused
  <2>2. q \notin rows
    BY <2>1 DEF CInv, UntoldCostFaults
  <2>3. Weight("undo") <= Weight(request[q].pc)
    BY <1>0, <2>1
  <2>4. QED
    BY <1>0, <1>1, <2>1, <2>2, <2>3, Stays
<1>3. CASE Route!FollowUp(q)
  <2>1. /\ request[q].pc = "follow" /\ Route!Go(q, "store")
        /\ UNCHANGED <<route, rows, rowKey, errors>>
    BY <1>3 DEF Route!FollowUp
  <2>2. Weight("store") <= Weight(request[q].pc)
    BY <1>0, <2>1
  <2>3. QED
    BY <1>0, <1>1, <2>1, <2>2, Stays
<1>4. CASE Route!FollowUpFails(q)
  <2>1. /\ request[q].pc = "follow" /\ Route!Go(q, "undo") /\ Route!Fault
        /\ UNCHANGED <<route, rows, rowKey>>
    BY <1>4 DEF Route!FollowUpFails
  <2>2. errors' = errors + 1 /\ errors' \in 0 .. MaxFaults /\ errors' # errors
    BY <2>1, FaultCounted, CreationSizes DEF CInv
  <2>3. QED
    BY <1>0, <2>1, <2>2, Stays
<1>5. QED
  BY <1>2, <1>3, <1>4

LEMMA KeyLapsed == ASSUME CInv, Route!KeyExpires PROVE CInv'
<1>0. /\ Route!TypeOK /\ rowKey # Route!None /\ rowKey' = Route!None
      /\ UNCHANGED <<route, rows, request>>
  BY DEF CInv, Route!KeyExpires
<1> DEFINE made == Cardinality(rows)
           open == Cardinality(Unsettled)
           room == KeyRoom
           cost == errors'
<1>1. Unsettled' = Unsettled /\ Untold' = Untold /\ KeyRoom' = 1
  BY <1>0 DEF Unsettled, MayAdd, Untold, KeyRoom, Route!None
<1>2. \/ cost = errors + 1 /\ errors' \in 0 .. MaxFaults
      \/ cost = errors /\ room = 1 /\ errors' \in 0 .. MaxFaults
  <2>1. CASE Route!InProgress \/ rowKey \in Requests
    BY <2>1, FaultCounted DEF Route!KeyExpires
  <2>2. CASE ~(Route!InProgress \/ rowKey \in Requests)
    BY <1>0, <2>2 DEF Route!KeyExpires, Route!TypeOK, KeyRoom
  <2>3. QED
    BY <2>1, <2>2
<1>3. made + open + room <= 1 + errors /\ Cardinality(Untold) <= errors
  BY DEF CInv, RowsCostFaults, UntoldCostFaults
<1>4. /\ made \in Nat /\ open \in Nat /\ room \in {0, 1} /\ errors \in Nat
      /\ Cardinality(Untold) \in Nat
  BY <1>0, CreationSizes
<1>5. Route!TypeOK'
  BY <1>0, <1>2 DEF Route!TypeOK, Route!AtWork, Route!Holding
<1> HIDE DEF made, open, room, cost
<1>6. made + open + 1 <= 1 + cost /\ Cardinality(Untold) <= cost
  BY <1>2, <1>3, <1>4
<1>7. RowsCostFaults'
  BY <1>0, <1>1, <1>6 DEF RowsCostFaults, made, open, cost
<1>8. UntoldCostFaults'
  BY <1>0, <1>1, <1>6 DEF CInv, UntoldCostFaults, cost
<1>9. PendingCostsFault'
  BY <1>0 DEF PendingCostsFault, Route!None, Route!Pending
<1>10. QED
  BY <1>5, <1>7, <1>8, <1>9 DEF CInv

LEMMA CreationUnchanged == ASSUME CInv, UNCHANGED Route!vars PROVE CInv'
<1>1. UNCHANGED <<route, rows, rowKey, request, errors>>
  BY DEF Route!vars
<1>2. Route!InProgress' <=> Route!InProgress
  BY <1>1 DEF Route!InProgress, Route!Holding
<1>3. Unsettled' = Unsettled /\ Untold' = Untold /\ KeyRoom' = KeyRoom
  BY <1>1, <1>2 DEF Unsettled, MayAdd, Untold, KeyRoom, Route!None, Route!Pending
<1>4. Route!TypeOK'
  BY <1>1 DEF CInv, Route!TypeOK, Route!AtWork, Route!Holding
<1>5. RowsCostFaults' /\ UntoldCostFaults'
  BY <1>1, <1>3 DEF CInv, RowsCostFaults, UntoldCostFaults
<1>6. PendingCostsFault'
  BY <1>1, <1>2 DEF CInv, PendingCostsFault, Route!Pending
<1>7. QED
  BY <1>4, <1>5, <1>6 DEF CInv

LEMMA CreationInit == Route!Init => CInv
<1> SUFFICES ASSUME Route!Init PROVE CInv
  OBVIOUS
<1>1. Route!TypeOK
  BY TaskRequestsAssumption
  DEF Route!Init, Route!TypeOK, Route!Routes, Route!AtWork, Route!Ended
<1>2. Unsettled = {} /\ Untold = {} /\ KeyRoom = 1 /\ rows = {} /\ errors = 0
  BY DEF Route!Init, Unsettled, MayAdd, Untold, KeyRoom
<1>3. RowsCostFaults /\ UntoldCostFaults
  BY <1>2, FS_EmptySet DEF RowsCostFaults, UntoldCostFaults
<1>4. PendingCostsFault
  BY DEF Route!Init, PendingCostsFault, Route!None, Route!Pending
<1>5. QED
  BY <1>1, <1>3, <1>4 DEF CInv

LEMMA CreationStep == CInv /\ [Route!Next]_Route!vars => CInv'
<1> SUFFICES ASSUME CInv, [Route!Next]_Route!vars PROVE CInv'
  OBVIOUS
<1>1. ASSUME NEW q \in Requests, Route!Protocol(q) PROVE CInv'
  <2>1. CASE Route!Lookup(q)
    BY <2>1, Replayed DEF Route!Lookup
  <2>2. CASE Route!SecondLookup(q)
    BY <2>2, Replayed DEF Route!SecondLookup
  <2>3. QED
    BY <1>1, <2>1, <2>2, Validated, Claimed, Stored, Undone, RowErrs, Lost
    DEF Route!Protocol
<1>2. ASSUME NEW q \in Requests, Route!Followed(q) PROVE CInv'
  BY <1>2, RowMade, RowFollowed DEF Route!Followed, Route!Creation
<1>3. ASSUME NEW q \in Requests, Route!Creation(q, "store") PROVE CInv'
  BY <1>3, RowMade DEF Route!Creation
<1>4. ASSUME NEW q \in Requests, Route!Refused(q) PROVE CInv'
  BY <1>4, RowFollowed
<1>5. QED
  BY <1>1, <1>2, <1>3, <1>4, KeyLapsed, CreationUnchanged
  DEF Route!Next, Route!CreateTask, Route!CreateExport, Route!CreateProject,
      Route!CreateLabel, Route!CreateInvitation, Route!CreateTaskComment,
      Route!UploadTaskAttachment, Route!CreateWebhook

LEMMA CreationInvariant == Route!Spec => []CInv
  BY CreationInit, CreationStep, PTL DEF Route!Spec

\* Of one creation and its retries, a row beyond the first costs a fault, and
\* so does a row that nobody was told of; a key that nobody works for stays
\* pending only after a fault or a payload refused past the claim.  For any
\* number of requests, on every route (claim_idempotent, replay_idempotent and
\* the services of the eight routes).
THEOREM CreationsArePaid == Route!Spec => []CreationsCostFaults
<1>1. CInv => CreationsCostFaults
  <2> SUFFICES ASSUME CInv PROVE Route!CreationsCostFaults
    BY DEF CreationsCostFaults
  <2>0. \A S : Route!Cardinality(S) = Cardinality(S)
    BY DEF Route!Cardinality, Cardinality
  <2>1. /\ IsFiniteSet(rows) /\ Cardinality(rows) \in Nat /\ Cardinality(Unsettled) \in Nat
        /\ KeyRoom \in {0, 1} /\ errors \in Nat /\ IsFiniteSet(Untold)
        /\ Cardinality(Untold) \in Nat
    BY CreationSizes DEF CInv
  <2>2. Cardinality(rows) + Cardinality(Unsettled) + KeyRoom <= 1 + errors
        /\ Cardinality(Untold) <= errors
    BY DEF CInv, RowsCostFaults, UntoldCostFaults
  <2>3. Cardinality(rows) <= 1 + errors
    BY <2>1, <2>2
  <2>4. ASSUME \A q \in Requests : request[q].pc \in Route!Ended
        PROVE  Cardinality(rows \ Route!Told) <= errors
    <3>1. ASSUME NEW q \in rows \ Route!Told PROVE q \in Untold
      <4>1. q \in Requests /\ request[q].pc \notin {"follow", "store"}
        BY <2>4 DEF CInv, Route!TypeOK, Route!Ended
      <4>2. request[q].row # q
        BY <4>1, CreationsAssumption DEF Route!Told
      <4>3. QED
        BY <4>1, <4>2 DEF Untold
    <3>2. rows \ Route!Told \subseteq Untold
      BY <3>1
    <3> DEFINE missed == rows \ Route!Told
    <3> HIDE DEF missed
    <3>3. IsFiniteSet(missed) /\ Cardinality(missed) <= Cardinality(Untold)
      BY <2>1, <3>2, FS_Subset DEF missed
    <3>4. Cardinality(missed) \in Nat
      BY <3>3, FS_CardinalityType
    <3>5. QED
      BY <2>1, <2>2, <3>3, <3>4 DEF missed
  <2>5. (rowKey = Route!Pending /\ ~Route!InProgress /\ errors = 0) =>
          \E q \in Requests : route \in Route!Late /\ request[q].pc = "rejected"
    BY DEF CInv, PendingCostsFault
  <2>6. QED
    BY <2>0, <2>3, <2>4, <2>5 DEF Route!CreationsCostFaults
<1>2. QED
  BY <1>1, CreationInvariant, PTL

-----------------------------------------------------------------------------
(* The halves together. *)

LEMMA HalvesRun == PartsSpec => Spec /\ Route!Spec
<1>1. PartsInit => Init /\ Route!Init
  BY DEF PartsInit
<1>2. [PartsNext]_<<vars, creationVars, half>> => [Next]_vars /\ [Route!Next]_Route!vars
  BY DEF PartsNext, vars, creationVars, Route!vars
<1>3. QED
  BY <1>1, <1>2, PTL DEF PartsSpec, Spec, Route!Spec

\* Both halves keep their types.
THEOREM RequestsKeepTypes == PartsSpec => []PartsTypeOK
<1>1. CInv /\ TypeOK => PartsTypeOK
  BY DEF CInv, PartsTypeOK
<1>2. QED
  BY <1>1, HalvesRun, CreationInvariant, TypeCorrect, PTL

\* What the halves promise holds as they are run.
THEOREM RequestsHold == PartsSpec => [](ReadYourWrites /\ CreationsCostFaults)
  BY HalvesRun, FreshReads, CreationsArePaid, PTL
=============================================================================
