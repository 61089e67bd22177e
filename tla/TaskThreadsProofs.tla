------------------------- MODULE TaskThreadsProofs -------------------------
(***************************************************************************)
(* Proofs about the attachments and comments of a task, for any number of  *)
(* calls and items.                                                        *)
(*                                                                         *)
(* A call that inserts has its id to itself (OwnIds), which decides what   *)
(* the calls may rely on between their statements (CallsRelyOn): a call    *)
(* that is to insert finds no row, and its file in place; one that cleans  *)
(* up finds no row but that of an unanswered commit; one that unlinks      *)
(* finds the row deleted.                                                  *)
(***************************************************************************)
EXTENDS TaskThreads, TLAPS, FiniteSetTheorems

Owning == {"put", "insert", "cleanup"}

OwnIds ==
  \A c, d \in Callers :
    c # d /\ doing[c].pc \in Owning /\ doing[d].pc \in Owning
      => doing[c].item # doing[d].item

CallsRelyOn ==
  \A c \in Callers :
    /\ doing[c].pc \in {"put", "cleanup", "unlink"} => doing[c].item \in Files
    /\ doing[c].pc \in {"put", "insert"} => owner[doing[c].item] = "unused"
    /\ doing[c].pc = "put" => doing[c].item \notin stored
    /\ doing[c].pc = "insert" /\ doing[c].item \in Files => doing[c].item \in stored
    /\ doing[c].pc = "cleanup"
         => owner[doing[c].item] = "unused" \/ doing[c].item \in unsure
    /\ doing[c].pc = "unlink" => owner[doing[c].item] = "deleted"

\* A call that is to delete the row is no excuse for a file.
Orphans ==
  \A f \in stored :
    \/ f \in Present \cup faulty
    \/ \E c \in Callers : doing[c] # Free /\ doing[c].pc # "delete" /\ doing[c].item = f

TInv == TypeOK /\ OwnIds /\ CallsRelyOn /\ RowHasFile /\ Orphans /\ DeletionIsToldOnce

\* Ids and marks are apart: what the names of the model are.
Apart == Files \cap Comments = {} /\ "unused" \notin Users /\ "deleted" \notin Users

-----------------------------------------------------------------------------
(* What a step does to the calls.                                          *)

Busy == [pc : {"put", "insert", "cleanup", "delete", "unlink"}, item : Items, by : Users]

LEMMA Shapes ==
  ASSUME TypeOK, NEW c \in Callers
  PROVE  /\ doing[c] # Free => /\ doing[c] \in Busy /\ doing[c].item \in Items
                               /\ doing[c].by \in Users /\ doing[c].pc # "idle"
         /\ doing[c] = Free => doing[c].pc = "idle"
  BY DEF TypeOK, Busy, Free

\* One call moves, to a state of its own.
LEMMA Moves ==
  ASSUME TypeOK, NEW c \in Callers, NEW s \in Busy \cup {Free},
         doing' = [doing EXCEPT ![c] = s]
  PROVE  /\ doing' \in [Callers -> Busy \cup {Free}]
         /\ doing'[c] = s
         /\ \A d \in Callers \ {c} : doing'[d] = doing[d]
  BY DEF TypeOK, Busy

LEMMA Goes ==
  ASSUME TypeOK, NEW c \in Callers, doing[c] # Free,
         NEW pc \in {"put", "insert", "cleanup", "delete", "unlink"}, Goto(c, pc)
  PROVE  /\ doing' \in [Callers -> Busy \cup {Free}]
         /\ doing'[c] = [pc |-> pc, item |-> doing[c].item, by |-> doing[c].by]
         /\ \A d \in Callers \ {c} : doing'[d] = doing[d]
<1>1. doing[c] \in Busy
  BY Shapes
<1>2. [doing[c] EXCEPT !.pc = pc]
        = [pc |-> pc, item |-> doing[c].item, by |-> doing[c].by]
  BY <1>1 DEF Busy
<1>3. doing' = [doing EXCEPT ![c] = [doing[c] EXCEPT !.pc = pc]]
  BY DEF Goto, TypeOK
<1>4. [pc |-> pc, item |-> doing[c].item, by |-> doing[c].by] \in Busy
  BY <1>1 DEF Busy
<1>5. QED
  BY <1>2, <1>3, <1>4, Moves
-----------------------------------------------------------------------------
(* The steps. *)

LEMMA Initially ==
  ASSUME Apart, Init
  PROVE  TInv
  BY DEF Apart, Init, TInv, TypeOK, OwnIds, CallsRelyOn, RowHasFile, Orphans,
         DeletionIsToldOnce, Items, Free, Owning, Attached, Present

\* A call begins with an id that is nobody's, or to delete what is there.
LEMMA Begins ==
  ASSUME TInv, Apart, NEW c \in Callers, doing[c] = Free, NEW s \in Busy,
         doing' = [doing EXCEPT ![c] = s],
         \/ s.pc = "put" /\ s.item \in Files /\ s.item \notin stored /\ Fresh(s.item)
         \/ s.pc = "insert" /\ s.item \in Comments /\ Fresh(s.item)
         \/ s.pc = "delete",
         UNCHANGED <<owner, stored, removals, unsure, faulty>>
  PROVE  TInv'
<1>1. /\ doing' \in [Callers -> Busy \cup {Free}]
      /\ doing'[c] = s
      /\ \A d \in Callers \ {c} : doing'[d] = doing[d]
  BY Moves DEF TInv
<1>2. TypeOK'
  BY <1>1 DEF TInv, TypeOK, Busy
<1>3. \A d \in Callers : doing[d].pc \in Owning => doing[d] # Free
  BY DEF Owning, Free
<1>4. OwnIds'
  BY <1>1, <1>3 DEF TInv, OwnIds, Fresh, Owning
<1>5. CallsRelyOn'
  BY <1>1 DEF TInv, CallsRelyOn, Fresh, Apart
<1>6. Present' = Present /\ Attached' = Attached
  BY DEF Present, Attached
<1>7. RowHasFile'
  BY <1>6 DEF TInv, RowHasFile, Downloadable
<1>8. Orphans'
  BY <1>1, <1>6 DEF TInv, Orphans
<1>9. DeletionIsToldOnce'
  BY DEF TInv, DeletionIsToldOnce
<1>10. QED
  BY <1>2, <1>4, <1>5, <1>7, <1>8, <1>9 DEF TInv

\* The store changes, and the rows do not: the file of a call that uploads,
\* cleans up or unlinks.
LEMMA Stores ==
  ASSUME TInv, Apart, NEW c \in Callers, PutFile(c) \/ CleanUp(c) \/ Unlink(c)
  PROVE  TInv'
<1> DEFINE f == doing[c].item
<1>1. /\ doing[c].pc \in {"put", "cleanup", "unlink"}
      /\ UNCHANGED <<owner, removals, unsure>>
      /\ stored' \in {stored, stored \cup {f}, stored \ {f}}
      /\ faulty' \in {faulty, faulty \cup {f}}
      /\ Leave(c) \/ Goto(c, "insert")
  BY DEF PutFile, CleanUp, Unlink
<1>2. /\ f \in Files /\ doing[c] # Free /\ doing[c] \in Busy
  BY <1>1, Shapes DEF TInv, CallsRelyOn, Free
<1>3. /\ doing' \in [Callers -> Busy \cup {Free}]
      /\ \A d \in Callers \ {c} : doing'[d] = doing[d]
      /\ \/ Leave(c) /\ doing'[c] = Free
         \/ /\ Goto(c, "insert")
            /\ doing'[c] = [pc |-> "insert", item |-> f, by |-> doing[c].by]
  BY <1>1, <1>2, Moves, Goes DEF TInv, Leave
<1>4. Present' = Present /\ Attached' = Attached
  BY <1>1 DEF Present, Attached
<1>5. TypeOK'
  BY <1>1, <1>2, <1>3 DEF TInv, TypeOK, Busy
<1>6. Leave(c) => doing'[c] = Free
  BY <1>2, Moves DEF TInv, Leave
<1>7. doing'[c] # Free => doing[c].pc = "put" /\ f \in stored'
  BY <1>6 DEF PutFile, CleanUp, Unlink
<1>8. stored' # stored \cup {f} /\ stored' # stored => doing[c].pc \in {"cleanup", "unlink"}
  BY DEF PutFile, CleanUp, Unlink
<1>9. OwnIds'
  BY <1>3, <1>7 DEF TInv, OwnIds, Owning, Free
<1>10. CallsRelyOn'
  <2> SUFFICES ASSUME NEW d \in Callers
               PROVE  CallsRelyOn!(d)'
    BY DEF CallsRelyOn
  <2>1. CASE d = c
    BY <1>1, <1>2, <1>3, <1>7, <2>1 DEF TInv, CallsRelyOn, Free
  <2>2. CASE d # c
    <3>1. doing'[d] = doing[d]
      BY <1>3, <2>2
    <3>2. doing[d].pc = "insert" /\ doing[d].item = f => f \in stored'
      BY <1>1, <1>8, <2>2 DEF TInv, OwnIds, Owning, CallsRelyOn
    <3>3. doing[d].pc = "put" => doing[d].item \notin stored'
      <4>1. \/ stored' \subseteq stored
            \/ doing[c].pc = "put" /\ stored' = stored \cup {f}
        BY DEF PutFile, CleanUp, Unlink
      <4>2. QED
        BY <4>1, <2>2 DEF TInv, OwnIds, Owning, CallsRelyOn
    <3>4. QED
      BY <1>1, <3>1, <3>2, <3>3 DEF TInv, CallsRelyOn
  <2>3. QED
    BY <2>1, <2>2
<1>11. RowHasFile'
  <2>1. f \in Attached /\ f \notin stored' => f \in unsure \/ f \notin stored
    BY <1>1, <1>8 DEF TInv, CallsRelyOn, Attached, Present, Apart
  <2>2. QED
    BY <1>1, <1>4, <2>1 DEF TInv, RowHasFile, Downloadable
<1>12. Orphans'
  <2>1. \/ f \notin stored' \/ f \in faulty'
        \/ doing'[c] # Free /\ doing'[c].pc # "delete" /\ doing'[c].item = f
    <3>1. CASE PutFile(c)
      <4>1. f \notin stored
        BY <3>1 DEF PutFile, TInv, CallsRelyOn
      <4>2. \/ Goto(c, "insert")
            \/ f \in faulty'
            \/ stored' = stored
        BY <3>1 DEF PutFile
      <4>3. Goto(c, "insert") => doing'[c] = [pc |-> "insert", item |-> f, by |-> doing[c].by]
        BY <1>2, Goes DEF TInv
      <4>4. QED
        BY <4>1, <4>2, <4>3 DEF Free
    <3>2. CASE CleanUp(c) \/ Unlink(c)
      BY <3>2 DEF CleanUp, Unlink
    <3>3. QED
      BY <3>1, <3>2
  <2>2. QED
    BY <1>1, <1>3, <1>4, <2>1 DEF TInv, Orphans
<1>13. DeletionIsToldOnce'
  BY <1>1 DEF TInv, DeletionIsToldOnce
<1>14. QED
  BY <1>5, <1>9, <1>10, <1>11, <1>12, <1>13 DEF TInv

\* A row is inserted, or seems not to be.
LEMMA Inserts ==
  ASSUME TInv, Apart, NEW c \in Callers, CreateAttachmentRow(c) \/ CreateCommentRow(c)
  PROVE  TInv'
<1> DEFINE x == doing[c].item
<1>1. /\ doing[c].pc = "insert" /\ owner[x] = "unused"
      /\ x \in Files => x \in stored
  BY DEF CreateAttachmentRow, CreateCommentRow, TInv, CallsRelyOn
<1>2. /\ doing[c] # Free /\ doing[c] \in Busy
      /\ x \in Items /\ doing[c].by \in Users
  BY <1>1, Shapes DEF TInv
<1>3. PICK end \in Ends :
        /\ Insert(c, end)
        /\ \/ Leave(c) /\ (x \in Comments \/ end = "done")
           \/ Goto(c, "cleanup") /\ x \in Files /\ end # "done"
  BY DEF CreateAttachmentRow, CreateCommentRow
<1>4. /\ UNCHANGED <<stored, removals, faulty>>
      /\ unsure' = unsure \/ unsure' = unsure \cup {x}
      /\ end = "failed" => owner' = owner
      /\ end # "failed" => owner' = [owner EXCEPT ![x] = doing[c].by]
      /\ end = "unsure" => x \in unsure'
  BY <1>3 DEF Insert
<1>5. /\ owner' \in [Items -> Users \cup {"unused", "deleted"}]
      /\ \A y \in Items \ {x} : owner'[y] = owner[y]
      /\ end # "failed" => owner'[x] \in Users
      /\ owner'[x] # "deleted"
  BY <1>1, <1>2, <1>4 DEF TInv, TypeOK, Apart
<1>6. /\ doing' \in [Callers -> Busy \cup {Free}]
      /\ \A d \in Callers \ {c} : doing'[d] = doing[d]
      /\ \/ doing'[c] = Free /\ (x \in Comments \/ end = "done")
         \/ /\ doing'[c] = [pc |-> "cleanup", item |-> x, by |-> doing[c].by]
            /\ x \in Files /\ end # "done"
  BY <1>2, <1>3, Moves, Goes DEF TInv, Leave
<1>7. TypeOK'
  BY <1>2, <1>4, <1>5, <1>6 DEF TInv, TypeOK, Busy
<1>8. OwnIds'
  BY <1>1, <1>6 DEF TInv, OwnIds, Owning, Free
<1>9. CallsRelyOn'
  <2> SUFFICES ASSUME NEW d \in Callers
               PROVE  CallsRelyOn!(d)'
    BY DEF CallsRelyOn
  <2>1. CASE d = c
    BY <1>1, <1>4, <1>6, <2>1, <1>3 DEF Ends, Free
  <2>2. CASE d # c
    <3>1. doing'[d] = doing[d]
      BY <1>6, <2>2
    <3>2. doing[d].pc \in Owning \cup {"unlink"} => doing[d].item # x
      BY <1>1, <2>2 DEF TInv, OwnIds, CallsRelyOn, Owning
    <3>3. doing[d].pc \in Owning \cup {"unlink"} => doing[d].item \in Items
      BY Shapes DEF TInv, Owning, Free
    <3>4. QED
      BY <1>4, <1>5, <3>1, <3>2, <3>3 DEF TInv, CallsRelyOn, Owning
  <2>3. QED
    BY <2>1, <2>2
<1>10. RowHasFile'
  BY <1>1, <1>4, <1>5 DEF TInv, RowHasFile, Attached, Present, Downloadable
<1>11. Orphans'
  <2> SUFFICES ASSUME NEW f \in stored
               PROVE  Orphans!(f)'
    BY <1>4 DEF Orphans
  <2>1. f \in Items /\ f \notin Comments
    BY DEF TInv, TypeOK, Items, Apart
  <2>2. CASE f = x
    BY <1>2, <1>5, <1>6, <2>1, <2>2 DEF Present, Free
  <2>3. CASE f # x
    BY <1>4, <1>5, <1>6, <2>1, <2>3 DEF TInv, Orphans, Present
  <2>4. QED
    BY <2>2, <2>3
<1>12. DeletionIsToldOnce'
  BY <1>1, <1>4, <1>5 DEF TInv, DeletionIsToldOnce
<1>13. QED
  BY <1>7, <1>8, <1>9, <1>10, <1>11, <1>12 DEF TInv

\* A row is deleted, or seems not to be.
LEMMA Removes ==
  ASSUME TInv, Apart, NEW c \in Callers, DeleteAttachmentRow(c) \/ DeleteCommentRow(c)
  PROVE  TInv'
<1> DEFINE x == doing[c].item
<1>1. doing[c].pc = "delete"
  BY DEF DeleteAttachmentRow, DeleteCommentRow
<1>2. /\ doing[c] # Free /\ doing[c] \in Busy
      /\ x \in Items /\ doing[c].by \in Users
  BY <1>1, Shapes DEF TInv
<1>3. PICK end \in Ends :
        /\ Remove(c, end)
        /\ \/ Leave(c) /\ x \in Comments /\ faulty' = faulty
           \/ Leave(c) /\ end = "unsure" /\ faulty' = faulty \cup {x} /\ x \in Files
           \/ Leave(c) /\ end = "failed" /\ faulty' = faulty
           \/ Goto(c, "unlink") /\ x \in Files /\ end = "done" /\ faulty' = faulty
  BY DEF DeleteAttachmentRow, DeleteCommentRow, Ends
<1>4. /\ UNCHANGED stored
      /\ unsure' = unsure \/ unsure' = unsure \cup {x}
      /\ end = "failed" => owner' = owner /\ removals' = removals
      /\ end # "failed" => /\ owner[x] \in Users
                           /\ owner' = [owner EXCEPT ![x] = "deleted"]
                           /\ removals' = [removals EXCEPT ![x] = @ + 1]
  BY <1>3 DEF Remove, StillThere, Present
<1>5. /\ owner' \in [Items -> Users \cup {"unused", "deleted"}]
      /\ \A y \in Items \ {x} : owner'[y] = owner[y]
      /\ end # "failed" => owner'[x] = "deleted"
  BY <1>2, <1>4 DEF TInv, TypeOK
<1>6. /\ doing' \in [Callers -> Busy \cup {Free}]
      /\ \A d \in Callers \ {c} : doing'[d] = doing[d]
      /\ \/ doing'[c] = Free
         \/ /\ doing'[c] = [pc |-> "unlink", item |-> x, by |-> doing[c].by]
            /\ x \in Files /\ end = "done"
  BY <1>2, <1>3, Moves, Goes DEF TInv, Leave
<1>7. TypeOK'
  <2>1. removals' \in [Items -> Nat]
    BY <1>2, <1>4 DEF TInv, TypeOK
  <2>2. QED
    BY <1>2, <1>3, <1>4, <1>5, <1>6, <2>1 DEF TInv, TypeOK, Busy
<1>8. OwnIds'
  BY <1>1, <1>6 DEF TInv, OwnIds, Owning, Free
<1>9. CallsRelyOn'
  <2> SUFFICES ASSUME NEW d \in Callers
               PROVE  CallsRelyOn!(d)'
    BY DEF CallsRelyOn
  <2>1. CASE d = c
    BY <1>5, <1>6, <2>1 DEF Free
  <2>2. CASE d # c
    <3>1. doing'[d] = doing[d]
      BY <1>6, <2>2
    <3>2. doing[d].item = x /\ end # "failed" /\ doing[d].pc \in Owning
            => doing[d].pc = "cleanup" /\ x \in unsure
      BY <1>4 DEF TInv, CallsRelyOn, Apart, Owning
    <3>3. doing[d].pc \in Owning \cup {"unlink"} => doing[d].item \in Items
      BY Shapes DEF TInv, Owning, Free
    <3>4. QED
      BY <1>4, <1>5, <3>1, <3>2, <3>3 DEF TInv, CallsRelyOn, Owning
  <2>3. QED
    BY <2>1, <2>2
<1>10. RowHasFile'
  BY <1>2, <1>4, <1>5
     DEF TInv, TypeOK, RowHasFile, Attached, Present, Downloadable, Items, Apart
<1>11. Orphans'
  <2> SUFFICES ASSUME NEW f \in stored
               PROVE  Orphans!(f)'
    BY <1>4 DEF Orphans
  <2>1. f \in Items /\ f \notin Comments
    BY DEF TInv, TypeOK, Items, Apart
  <2>2. CASE f = x /\ end # "failed"
    BY <1>2, <1>3, <1>6, <2>1, <2>2, Goes DEF Ends, Free, TInv
  <2>3. CASE f # x \/ end = "failed"
    BY <1>1, <1>3, <1>4, <1>5, <1>6, <2>1, <2>3 DEF TInv, Orphans, Present
  <2>4. QED
    BY <2>2, <2>3
<1>12. DeletionIsToldOnce'
  <2>1. \A y \in Items \ {x} : removals'[y] = removals[y]
    BY <1>4 DEF TInv, TypeOK
  <2>2. end # "failed" => removals[x] = 0 /\ removals'[x] = removals[x] + 1
    BY <1>2, <1>4 DEF TInv, TypeOK, DeletionIsToldOnce, Apart
  <2>3. QED
    BY <1>4, <1>5, <2>1, <2>2 DEF TInv, DeletionIsToldOnce
<1>13. QED
  BY <1>7, <1>8, <1>9, <1>10, <1>11, <1>12 DEF TInv

\* The process goes down in the middle of a call.
LEMMA Crashes ==
  ASSUME TInv, Apart, NEW c \in Callers, Crash(c)
  PROVE  TInv'
<1> DEFINE x == doing[c].item
<1>1. /\ doing' \in [Callers -> Busy \cup {Free}]
      /\ doing'[c] = Free
      /\ \A d \in Callers \ {c} : doing'[d] = doing[d]
  BY Moves DEF TInv, Crash, Leave
<1>2. /\ UNCHANGED <<owner, stored, removals, unsure>>
      /\ faulty' = faulty \cup ({x} \cap stored)
  BY DEF Crash
<1>3. TypeOK'
  BY <1>1, <1>2 DEF TInv, TypeOK, Busy
<1>4. OwnIds'
  BY <1>1 DEF TInv, OwnIds, Owning, Free
<1>5. CallsRelyOn'
  BY <1>1, <1>2 DEF TInv, CallsRelyOn, Free
<1>6. RowHasFile'
  BY <1>2 DEF TInv, RowHasFile, Attached, Present, Downloadable
<1>7. Orphans'
  BY <1>1, <1>2 DEF TInv, Orphans, Present
<1>8. DeletionIsToldOnce'
  BY <1>2 DEF TInv, DeletionIsToldOnce
<1>9. QED
  BY <1>3, <1>4, <1>5, <1>6, <1>7, <1>8 DEF TInv

\* The invariant is inductive.
LEMMA Steps ==
  ASSUME TInv, Apart, [Next]_vars
  PROVE  TInv'
<1>1. ASSUME NEW c \in Callers, NEW u \in Users, NEW f \in Files, UploadAttachment(c, f, u)
      PROVE  TInv'
  <2>1. [pc |-> "put", item |-> f, by |-> u] \in Busy
    BY DEF Busy, Items
  <2>2. QED
    BY <1>1, <2>1, Begins DEF UploadAttachment
<1>2. ASSUME NEW c \in Callers, NEW u \in Users, NEW x \in Comments, CreateComment(c, x, u)
      PROVE  TInv'
  <2>1. [pc |-> "insert", item |-> x, by |-> u] \in Busy
    BY DEF Busy, Items
  <2>2. QED
    BY <1>2, <2>1, Begins DEF CreateComment
<1>3. ASSUME NEW c \in Callers, NEW u \in Users, NEW x \in Items, NEW admin \in BOOLEAN,
             DeleteAttachment(c, x, u, admin) \/ DeleteComment(c, x, u, admin)
      PROVE  TInv'
  <2>1. [pc |-> "delete", item |-> x, by |-> u] \in Busy
    BY DEF Busy
  <2>2. QED
    BY <1>3, <2>1, Begins DEF DeleteAttachment, DeleteComment
<1>4. CASE UNCHANGED vars
  BY <1>4 DEF vars, TInv, TypeOK, OwnIds, CallsRelyOn, RowHasFile, Orphans,
              DeletionIsToldOnce, Attached, Present, Downloadable
<1>5. QED
  BY <1>1, <1>2, <1>3, <1>4, Stores, Inserts, Removes, Crashes DEF Next, Items

-----------------------------------------------------------------------------
(* How many attachments a task can have.                                   *)

\* The uploads that have found room and not yet tried to insert.
Pending == {c \in Callers : doing[c].pc \in {"put", "insert"} /\ doing[c].item \in Files}

WithinCap == Cardinality(Attached) + Cardinality(Pending) <= Cap - 1 + Cardinality(Callers)

\* Finitely many ids and calls, and a cap that lets a first attachment in.
Finitely == IsFiniteSet(Files) /\ IsFiniteSet(Callers) /\ Cap \in Nat \ {0}

LEMMA Countable ==
  ASSUME Finitely
  PROVE  /\ IsFiniteSet(Attached) /\ Cardinality(Attached) \in Nat
         /\ IsFiniteSet(Pending) /\ Cardinality(Pending) \in Nat
         /\ Cardinality(Callers) \in Nat /\ Cardinality(Pending) <= Cardinality(Callers)
<1>1. Attached \subseteq Files /\ Pending \subseteq Callers
  BY DEF Attached, Pending
<1>2. QED
  BY <1>1, FS_Subset, FS_CardinalityType DEF Finitely

\* A step starts an upload that has found room, or moves one from the pending to
\* the attached, or adds to neither.
LEMMA CapMoves ==
  ASSUME TInv, Apart, [Next]_vars
  PROVE  \/ Attached' = Attached /\ HasRoom
         \/ \E c \in Pending, x \in Items :
              Attached' \subseteq Attached \cup {x} /\ Pending' \subseteq Pending \ {c}
         \/ Attached' \subseteq Attached /\ Pending' \subseteq Pending
<1>1. ASSUME NEW c \in Callers, NEW u \in Users, NEW f \in Files, UploadAttachment(c, f, u)
      PROVE  Attached' = Attached /\ HasRoom
  BY <1>1 DEF UploadAttachment, Attached, Present
<1> DEFINE Less == Attached' \subseteq Attached /\ Pending' \subseteq Pending
<1>2. ASSUME NEW c \in Callers, NEW s \in Busy, doing' = [doing EXCEPT ![c] = s],
             s.pc \notin {"put", "insert"} \/ s.item \in Comments, owner' = owner
      PROVE  Less
  BY <1>2, Moves DEF Attached, Present, Pending, TInv, Apart
<1>3. ASSUME NEW c \in Callers, NEW u \in Users, NEW x \in Comments, CreateComment(c, x, u)
      PROVE  Less
  <2>1. [pc |-> "insert", item |-> x, by |-> u] \in Busy
    BY DEF Busy, Items
  <2>2. QED
    BY <1>2, <1>3, <2>1 DEF CreateComment
<1>4. ASSUME NEW c \in Callers, NEW u \in Users, NEW x \in Items, NEW admin \in BOOLEAN,
             DeleteAttachment(c, x, u, admin) \/ DeleteComment(c, x, u, admin)
      PROVE  Less
  <2>1. [pc |-> "delete", item |-> x, by |-> u] \in Busy
    BY DEF Busy
  <2>2. QED
    BY <1>2, <1>4, <2>1 DEF DeleteAttachment, DeleteComment
<1>5. ASSUME NEW c \in Callers, PutFile(c) \/ CleanUp(c) \/ Unlink(c) \/ Crash(c)
      PROVE  Less
  <2>1. doing[c] # Free /\ owner' = owner
    BY <1>5, Shapes DEF PutFile, CleanUp, Unlink, Crash, Free
  <2>2. \/ Leave(c)
        \/ Goto(c, "insert") /\ doing[c].pc = "put"
    BY <1>5 DEF PutFile, CleanUp, Unlink, Crash
  <2> DEFINE r == [pc |-> "insert", item |-> doing[c].item, by |-> doing[c].by]
  <2>3. /\ \A d \in Callers \ {c} : doing'[d] = doing[d]
        /\ \/ doing'[c] = Free
           \/ doing'[c] = r /\ doing[c].pc = "put"
    BY <2>1, <2>2, Moves, Goes DEF TInv, Leave
  <2>4. QED
    BY <2>1, <2>3 DEF Attached, Present, Pending, Free
<1>6. ASSUME NEW c \in Callers, CreateAttachmentRow(c)
      PROVE  \E x \in Items : /\ c \in Pending /\ Attached' \subseteq Attached \cup {x}
                              /\ Pending' \subseteq Pending \ {c}
  <2>1. /\ doing[c].pc = "insert" /\ doing[c].item \in Files /\ doing[c] # Free
        /\ doing[c].item \in Items
    BY <1>6 DEF CreateAttachmentRow, Free, Items
  <2>2. Leave(c) \/ Goto(c, "cleanup")
    BY <1>6 DEF CreateAttachmentRow
  <2> DEFINE r == [pc |-> "cleanup", item |-> doing[c].item, by |-> doing[c].by]
  <2>3. /\ \A d \in Callers \ {c} : doing'[d] = doing[d]
        /\ doing'[c] \in {Free, r}
    BY <2>1, <2>2, Moves, Goes DEF TInv, Leave
  <2>4. owner' = owner \/ owner' = [owner EXCEPT ![doing[c].item] = doing[c].by]
    BY <1>6 DEF CreateAttachmentRow, Insert
  <2>5. Attached' \subseteq Attached \cup {doing[c].item}
    BY <2>4 DEF Attached, Present, TInv, TypeOK
  <2>6. c \in Pending /\ Pending' \subseteq Pending \ {c}
    BY <2>1, <2>3 DEF Pending, Free
  <2>7. QED
    BY <2>1, <2>5, <2>6
<1>7. ASSUME NEW c \in Callers, CreateCommentRow(c)
      PROVE  Less
  <2>1. /\ doing[c].pc = "insert" /\ doing[c].item \in Comments /\ doing[c] # Free
    BY <1>7 DEF CreateCommentRow, Free
  <2>2. /\ \A d \in Callers \ {c} : doing'[d] = doing[d]
        /\ doing'[c] = Free
    BY <1>7, Moves DEF TInv, Leave, CreateCommentRow
  <2>3. owner' = owner \/ owner' = [owner EXCEPT ![doing[c].item] = doing[c].by]
    BY <1>7 DEF CreateCommentRow, Insert
  <2>4. Attached' \subseteq Attached
    BY <2>1, <2>3 DEF Attached, Present, TInv, TypeOK, Apart
  <2>5. Pending' \subseteq Pending
    BY <2>2 DEF Pending, Free
  <2>6. QED
    BY <2>4, <2>5
<1>8. ASSUME NEW c \in Callers, DeleteAttachmentRow(c) \/ DeleteCommentRow(c)
      PROVE  Less
  <2>1. doing[c].pc = "delete" /\ doing[c] # Free
    BY <1>8 DEF DeleteAttachmentRow, DeleteCommentRow, Free
  <2>2. Leave(c) \/ Goto(c, "unlink")
    BY <1>8 DEF DeleteAttachmentRow, DeleteCommentRow
  <2> DEFINE r == [pc |-> "unlink", item |-> doing[c].item, by |-> doing[c].by]
  <2>3. /\ \A d \in Callers \ {c} : doing'[d] = doing[d]
        /\ doing'[c] \in {Free, r}
    BY <2>1, <2>2, Moves, Goes DEF TInv, Leave
  <2>4. owner' = owner \/ owner' = [owner EXCEPT ![doing[c].item] = "deleted"]
    BY <1>8 DEF DeleteAttachmentRow, DeleteCommentRow, Remove
  <2>5. Attached' \subseteq Attached
    BY <2>4 DEF Attached, Present, TInv, TypeOK, Apart
  <2>6. Pending' \subseteq Pending
    BY <2>3 DEF Pending, Free
  <2>7. QED
    BY <2>5, <2>6
<1>9. CASE UNCHANGED vars
  BY <1>9 DEF vars, Attached, Present, Pending
<1>10. QED
  BY <1>1, <1>3, <1>4, <1>5, <1>6, <1>7, <1>8, <1>9 DEF Next, Items

LEMMA CapStep ==
  ASSUME TInv, Apart, Finitely, WithinCap, [Next]_vars
  PROVE  WithinCap'
<1>1. /\ Cardinality(Attached) \in Nat /\ Cardinality(Pending) \in Nat
      /\ IsFiniteSet(Attached) /\ IsFiniteSet(Pending)
      /\ Cardinality(Callers) \in Nat /\ Cap \in Nat \ {0}
  BY Countable DEF Finitely
<1>2. /\ Cardinality(Attached') \in Nat /\ Cardinality(Pending') \in Nat
      /\ Cardinality(Pending') <= Cardinality(Callers)
  <2>1. Attached' \subseteq Files /\ Pending' \subseteq Callers
    BY DEF Attached, Pending
  <2>2. QED
    BY <2>1, FS_Subset, FS_CardinalityType DEF Finitely
<1>3. CASE Attached' = Attached /\ HasRoom
  BY <1>1, <1>2, <1>3 DEF WithinCap, HasRoom
<1>4. ASSUME NEW c \in Pending, NEW x \in Items,
             Attached' \subseteq Attached \cup {x}, Pending' \subseteq Pending \ {c}
      PROVE  WithinCap'
  <2>1. /\ IsFiniteSet(Attached \cup {x})
        /\ \/ Cardinality(Attached \cup {x}) = Cardinality(Attached)
           \/ Cardinality(Attached \cup {x}) = Cardinality(Attached) + 1
    BY <1>1, FS_AddElement
  <2>2. Cardinality(Attached') <= Cardinality(Attached \cup {x})
    BY <1>4, <2>1, FS_Subset
  <2>3. /\ IsFiniteSet(Pending \ {c}) /\ Cardinality(Pending \ {c}) = Cardinality(Pending) - 1
    BY <1>1, FS_RemoveElement
  <2>4. Cardinality(Pending') <= Cardinality(Pending) - 1
    BY <1>4, <2>3, FS_Subset
  <2>5. QED
    BY <1>1, <1>2, <2>1, <2>2, <2>4 DEF WithinCap
<1>5. CASE Attached' \subseteq Attached /\ Pending' \subseteq Pending
  <2>1. /\ Cardinality(Attached') <= Cardinality(Attached)
        /\ Cardinality(Pending') <= Cardinality(Pending)
    BY <1>1, <1>5, FS_Subset
  <2>2. QED
    BY <1>1, <1>2, <2>1 DEF WithinCap
<1>6. QED
  BY <1>3, <1>4, <1>5, CapMoves

LEMMA CapFirst ==
  ASSUME Apart, Finitely, Init
  PROVE  WithinCap
<1>1. Attached = {} /\ Pending = {}
  BY DEF Apart, Init, Attached, Present, Pending, Free, Items
<1>2. QED
  BY <1>1, FS_EmptySet, Countable DEF WithinCap, Finitely

-----------------------------------------------------------------------------
(* The theorems.                                                           *)

LEMMA Invariant ==
  ASSUME Apart
  PROVE  Spec => []TInv
<1>1. Init => TInv
  BY Initially
<1>2. TInv /\ [Next]_vars => TInv'
  BY Steps
<1>3. QED
  BY <1>1, <1>2, PTL DEF Spec

\* However many uploads, comments and deletions overlap, fail between their
\* statements or lose the answer to a commit, rows, files, audit entries and
\* calls keep their types, and an attachment's row has its file unless the
\* commit that inserted it went unanswered (upload_attachment, delete_attachment).
THEOREM RowsHaveFiles ==
  ASSUME Apart
  PROVE  Spec => [](TypeOK /\ RowHasFile)
<1>1. TInv => TypeOK /\ RowHasFile
  BY DEF TInv
<1>2. QED
  BY <1>1, Invariant, PTL

\* A file without a row is one that a call is still to insert or to remove, or
\* that an error or a crash left behind: no order of calls alone loses a file.
THEOREM OrphansAreExplained ==
  ASSUME Apart
  PROVE  Spec => []OrphansCostFaults
<1>1. TInv => OrphansCostFaults
  BY DEF TInv, Orphans, OrphansCostFaults
<1>2. QED
  BY <1>1, Invariant, PTL

\* However many calls delete an attachment or a comment at once, one of them
\* writes the audit entry, in the transaction that deletes the row
\* (delete_attachment and delete_comment look at what their DELETE returned).
THEOREM DeletedOnce ==
  ASSUME Apart
  PROVE  Spec => []DeletionIsToldOnce
<1>1. TInv => DeletionIsToldOnce
  BY DEF TInv
<1>2. QED
  BY <1>1, Invariant, PTL

\* upload_attachment counts the rows before it writes the file and does not
\* count again: with n calls at a time a task has at most n - 1 attachments more
\* than the cap, for every cap and every n.
THEOREM CapOvershoot ==
  ASSUME Apart, Finitely
  PROVE  Spec => []CapExceededByOverlap
<1>1. Init => TInv /\ WithinCap
  BY Initially, CapFirst
<1>2. TInv /\ WithinCap /\ [Next]_vars => TInv' /\ WithinCap'
  BY Steps, CapStep
<1>3. TInv /\ WithinCap => CapExceededByOverlap
  BY Countable DEF WithinCap, CapExceededByOverlap, Finitely
<1>4. QED
  BY <1>1, <1>2, <1>3, PTL DEF Spec
=============================================================================
