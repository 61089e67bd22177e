---------------------------- MODULE TaskThreads ----------------------------
(***************************************************************************)
(* The attachments and the comments of one task.                           *)
(*                                                                         *)
(* An attachment is a row and a file.  The upload counts the rows, writes  *)
(* the file and then inserts the row; a deletion removes the row and then  *)
(* the file.  Rows and their audit entries change in one transaction, but  *)
(* the answer to a commit may be lost: the caller then takes it for an     *)
(* error.  Files are cleaned up at best effort.                            *)
(*                                                                         *)
(* Not told apart: names, sizes and bodies, so that an edit of a comment,  *)
(* which its author alone may make, changes nothing here.  What a comment  *)
(* tells the assignee: Outbox.                                             *)
(***************************************************************************)
EXTENDS Integers, FiniteSets

CONSTANTS Files,      \* ids of attachments
          Comments,   \* ids of comments
          Users, Callers,
          Cap         \* MAX_ATTACHMENTS_PER_TASK

VARIABLES owner,    \* rows: who uploaded or wrote it, "unused" or "deleted"
          stored,   \* the files in the artifact store
          removals, \* how many audit entries tell a deletion
          doing,    \* where each call is
          unsure,   \* history: rows whose commit went unanswered
          faulty    \* history: files that an error or a crash left behind

vars == <<owner, stored, removals, doing, unsure, faulty>>

-----------------------------------------------------------------------------
Items == Files \cup Comments
Free == [pc |-> "idle"]

Present == {x \in Items : owner[x] \in Users}
Attached == Present \cap Files

TypeOK ==
  /\ owner \in [Items -> Users \cup {"unused", "deleted"}]
  /\ stored \subseteq Files
  /\ removals \in [Items -> Nat]
  /\ doing \in [Callers -> [pc : {"put", "insert", "cleanup", "delete", "unlink"},
                            item : Items, by : Users] \cup {Free}]
  /\ unsure \subseteq Items
  /\ faulty \subseteq Files

Init ==
  /\ owner = [x \in Items |-> "unused"]
  /\ stored = {}
  /\ removals = [x \in Items |-> 0]
  /\ doing = [c \in Callers |-> Free]
  /\ unsure = {}
  /\ faulty = {}

Goto(c, pc) == doing' = [doing EXCEPT ![c].pc = pc]
Leave(c) == doing' = [doing EXCEPT ![c] = Free]

\* Ids are made up by the server: nobody else has them.
Fresh(x) == owner[x] = "unused" /\ \A c \in Callers : doing[c] # Free => doing[c].item # x

-----------------------------------------------------------------------------
(* Uploading.                                                              *)

\* Mutant: off by one.
RoomForOneMore == Cardinality(Attached) <= Cap

HasRoom == Cardinality(Attached) < Cap

UploadAttachment(c, f, u) ==
  /\ doing[c] = Free /\ Fresh(f) /\ f \notin stored
  /\ HasRoom
  /\ doing' = [doing EXCEPT ![c] = [pc |-> "put", item |-> f, by |-> u]]
  /\ UNCHANGED <<owner, stored, removals, unsure, faulty>>

\* A write that fails may leave a part of the file; nobody cleans it up.
PutFile(c) ==
  /\ doing[c].pc = "put"
  /\ \/ stored' = stored \cup {doing[c].item} /\ Goto(c, "insert") /\ UNCHANGED faulty
     \/ stored' = stored \cup {doing[c].item} /\ Leave(c)
        /\ faulty' = faulty \cup {doing[c].item}
     \/ Leave(c) /\ UNCHANGED <<stored, faulty>>
  /\ UNCHANGED <<owner, removals, unsure>>

\* What becomes of a transaction: done, failed, or done without an answer.
Ends == {"done", "failed", "unsure"}

\* The row and its audit entry.
Insert(c, end) ==
  LET x == doing[c].item
  IN  /\ owner' = IF end = "failed" THEN owner ELSE [owner EXCEPT ![x] = doing[c].by]
      /\ unsure' = IF end = "unsure" THEN unsure \cup {x} ELSE unsure
      /\ UNCHANGED <<stored, removals, faulty>>

CreateAttachmentRow(c) ==
  /\ doing[c].pc = "insert" /\ doing[c].item \in Files
  /\ \E end \in Ends : /\ Insert(c, end)
                       /\ IF end = "done" THEN Leave(c) ELSE Goto(c, "cleanup")

CreateCommentRow(c) ==
  /\ doing[c].pc = "insert" /\ doing[c].item \in Comments
  /\ \E end \in Ends : Insert(c, end)
  /\ Leave(c)

\* Mutant: the file stays when the insertion fails.
NoCleanUp(c) ==
  /\ doing[c].pc = "cleanup"
  /\ Leave(c)
  /\ UNCHANGED <<owner, stored, removals, unsure, faulty>>

\* The insertion has failed, or seems to have.
CleanUp(c) ==
  /\ doing[c].pc = "cleanup"
  /\ \/ stored' = stored \ {doing[c].item} /\ UNCHANGED faulty
     \/ faulty' = faulty \cup {doing[c].item} /\ UNCHANGED stored
  /\ Leave(c)
  /\ UNCHANGED <<owner, removals, unsure>>

CreateComment(c, x, u) ==
  /\ doing[c] = Free /\ Fresh(x)
  /\ doing' = [doing EXCEPT ![c] = [pc |-> "insert", item |-> x, by |-> u]]
  /\ UNCHANGED <<owner, stored, removals, unsure, faulty>>

-----------------------------------------------------------------------------
(* Deleting.                                                               *)

\* A user may delete what is his own; an owner or admin of the workspace, as the
\* role was when the call came in, everything.
MayDelete(x, u, admin) == x \in Present /\ (u = owner[x] \/ admin)

\* The row has been read, and its deletion allowed.
DeleteAttachment(c, f, u, admin) ==
  /\ doing[c] = Free /\ MayDelete(f, u, admin)
  /\ doing' = [doing EXCEPT ![c] = [pc |-> "delete", item |-> f, by |-> u]]
  /\ UNCHANGED <<owner, stored, removals, unsure, faulty>>

DeleteComment(c, x, u, admin) ==
  /\ doing[c] = Free /\ MayDelete(x, u, admin)
  /\ doing' = [doing EXCEPT ![c] = [pc |-> "delete", item |-> x, by |-> u]]
  /\ UNCHANGED <<owner, stored, removals, unsure, faulty>>

StillThere(x) == x \in Present

\* The row goes and an audit entry tells of it; the second of two calls finds no
\* row and is refused.
Remove(c, end) ==
  LET x == doing[c].item
  IN  /\ end # "failed" => StillThere(x)
      /\ owner' = IF end = "failed" THEN owner ELSE [owner EXCEPT ![x] = "deleted"]
      /\ removals' = IF end = "failed" THEN removals ELSE [removals EXCEPT ![x] = @ + 1]
      /\ unsure' = IF end = "unsure" THEN unsure \cup {x} ELSE unsure
      /\ UNCHANGED stored

\* An error after the commit leaves the file.
DeleteAttachmentRow(c) ==
  /\ doing[c].pc = "delete" /\ doing[c].item \in Files
  /\ \E end \in Ends : /\ Remove(c, end)
                       /\ IF end = "done" THEN Goto(c, "unlink") ELSE Leave(c)
                       /\ faulty' = IF end = "unsure" THEN faulty \cup {doing[c].item}
                                    ELSE faulty

DeleteCommentRow(c) ==
  /\ doing[c].pc = "delete" /\ doing[c].item \in Comments
  /\ \E end \in Ends : Remove(c, end)
  /\ Leave(c)
  /\ UNCHANGED faulty

Unlink(c) ==
  /\ doing[c].pc = "unlink"
  /\ \/ stored' = stored \ {doing[c].item} /\ UNCHANGED faulty
     \/ faulty' = faulty \cup {doing[c].item} /\ UNCHANGED stored
  /\ Leave(c)
  /\ UNCHANGED <<owner, removals, unsure>>

\* The process goes down.
Crash(c) ==
  /\ doing[c] # Free
  /\ faulty' = faulty \cup ({doing[c].item} \cap stored)
  /\ Leave(c)
  /\ UNCHANGED <<owner, stored, removals, unsure>>

Next ==
  \E c \in Callers :
    \/ \E u \in Users :
         \/ \E f \in Files : UploadAttachment(c, f, u)
         \/ \E x \in Comments : CreateComment(c, x, u)
         \/ \E admin \in BOOLEAN :
              \/ \E f \in Files : DeleteAttachment(c, f, u, admin)
              \/ \E x \in Comments : DeleteComment(c, x, u, admin)
    \/ PutFile(c) \/ CreateAttachmentRow(c) \/ CreateCommentRow(c) \/ CleanUp(c)
    \/ DeleteAttachmentRow(c) \/ DeleteCommentRow(c) \/ Unlink(c) \/ Crash(c)

Spec == Init /\ [][Next]_vars

-----------------------------------------------------------------------------
\* What download_attachment answers with the file.
Downloadable(f) == f \in Present /\ f \in stored

\* The README (152) and the frontend contract (318) promise at most Cap
\* attachments of a task.  The code counts and inserts in two statements, and
\* overlapping uploads do exceed the cap; what holds is that of n at a time all
\* but one may go beyond it.
CapExceededByOverlap ==
  Cardinality(Attached) <= Cap - 1 + Cardinality(Callers)

\* A row has its file, or the answer to the upload's commit was lost and the
\* upload deleted the file of a row that it thought was not there.
RowHasFile == \A f \in Attached : Downloadable(f) \/ f \in unsure

\* A file without a row belongs to a call that is still to remove it or to
\* insert the row, or an error or a crash left it.
OrphansCostFaults ==
  \A f \in stored : \/ f \in Present \cup faulty
                    \/ \E c \in Callers : doing[c] # Free /\ doing[c].item = f

\* However many calls delete an item, one audit entry tells of it, and it tells
\* the truth.
DeletionIsToldOnce == \A x \in Items : removals[x] = IF owner[x] = "deleted" THEN 1 ELSE 0
=============================================================================
