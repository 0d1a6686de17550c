------------------------------ MODULE Attachments ------------------------------
(***************************************************************************)
(* PostAttachmentService: the files of a post.  The browser uploads a file *)
(* to a path it was given; confirm looks for it in the object storage and  *)
(* adds a row; remove deletes the row, and then the object.                *)
(*                                                                         *)
(* Rows of different posts never meet, so the module is about one post.    *)
(* The storage is an external service: a set of paths.                     *)
(***************************************************************************)
EXTENDS Integers, FiniteSets

CONSTANTS
  Paths,        (* bound: the upload paths handed out                      *)
  Files,        (* ids of attachment rows                                  *)
  PerPost,      (* ATTACHMENTS_PER_POST                                    *)
  Handlers, None

VARIABLES
  given,     (* paths handed out                                           *)
  stored,    (* paths with an object in the storage                        *)
  file,      (* Attachment.url by row; None where there is no row          *)
  txn
vars == <<given, stored, file, txn>>

Txn == [step: {"idle", "upload", "confirm", "insert", "remove", "remove_object"},
        path: Paths \cup {None}, file: Files \cup {None}]
Idle == [step |-> "idle", path |-> None, file |-> None]

Begin(h, t) == txn[h].step = "idle" /\ txn' = [txn EXCEPT ![h] = t]
Goto(h, to) == txn' = [txn EXCEPT ![h].step = to]
End(h) == txn' = [txn EXCEPT ![h] = Idle]

Rows == {f \in Files : file[f] # None}
Full == Cardinality(Rows) >= PerPost

(* The lock confirm holds on the post's row while it counts and inserts.   *)
LocksPost(h) == txn[h].step = "insert"
WrongPostFree == TRUE
PostFree == \A h \in Handlers : ~LocksPost(h)

-----------------------------------------------------------------------------
(* requestUpload: a fresh path, unless the post is full already.           *)
RequestUpload(p) ==
  /\ ~Full
  /\ p \notin given
  /\ given' = given \cup {p}
  /\ UNCHANGED <<stored, file, txn>>

(* The browser's PUT to the signed URL.                                    *)
Upload(p) ==
  /\ p \in given \ stored
  /\ stored' = stored \cup {p}
  /\ UNCHANGED <<given, file, txn>>

(* confirm: the storage is asked first; a file that is too large is        *)
(* removed from it ...                                                     *)
Confirm(h, p) ==
  /\ p \in given \cap stored
  /\ \/ Begin(h, [Idle EXCEPT !.step = "confirm", !.path = p])
     \/ Begin(h, [Idle EXCEPT !.step = "remove_object", !.path = p])
  /\ UNCHANGED <<given, stored, file>>

(* ... and under the post's lock the path must be new and the post not     *)
(* full ...                                                                *)
ConfirmCount(h) ==
  /\ txn[h].step = "confirm"
  /\ PostFree
  /\ \/ /\ ~Full /\ \A f \in Rows : file[f] # txn[h].path
        /\ Goto(h, "insert")
     \/ /\ Full \/ \E f \in Rows : file[f] = txn[h].path
        /\ End(h)
  /\ UNCHANGED <<given, stored, file>>

(* ... before the row is inserted.                                         *)
ConfirmInsert(h, f) ==
  /\ txn[h].step = "insert"
  /\ file[f] = None
  /\ file' = [file EXCEPT ![f] = txn[h].path]
  /\ End(h)
  /\ UNCHANGED <<given, stored>>

-----------------------------------------------------------------------------
(* remove: the row is read, deleted if it is still there ...               *)
Remove(h, f) ==
  /\ f \in Rows
  /\ Begin(h, [step |-> "remove", path |-> file[f], file |-> f])
  /\ UNCHANGED <<given, stored, file>>

RemoveRow(h) ==
  LET f == txn[h].file
  IN  /\ txn[h].step = "remove"
      /\ \/ /\ f \in Rows
            /\ file' = [file EXCEPT ![f] = None]
            /\ Goto(h, "remove_object")
         \/ /\ f \notin Rows /\ End(h)
            /\ UNCHANGED file
      /\ UNCHANGED <<given, stored>>

(* ... and the object after it; a failure is ignored.                      *)
RemoveObject(h) ==
  /\ txn[h].step = "remove_object"
  /\ stored' \in {stored, stored \ {txn[h].path}}
  /\ End(h)
  /\ UNCHANGED <<given, file>>

(* An error, a timeout or a crash: what has been written stays.            *)
Abort(h) ==
  /\ txn[h].step # "idle"
  /\ End(h)
  /\ UNCHANGED <<given, stored, file>>

Init ==
  /\ given = {} /\ stored = {}
  /\ file = [f \in Files |-> None]
  /\ txn = [h \in Handlers |-> Idle]

Next ==
  \/ \E p \in Paths : RequestUpload(p) \/ Upload(p)
  \/ \E h \in Handlers :
       \/ \E p \in Paths : Confirm(h, p)
       \/ \E f \in Files : ConfirmInsert(h, f) \/ Remove(h, f)
       \/ ConfirmCount(h) \/ RemoveRow(h) \/ RemoveObject(h) \/ Abort(h)

Spec == Init /\ [][Next]_vars

-----------------------------------------------------------------------------
TypeOK ==
  /\ given \subseteq Paths /\ stored \subseteq Paths
  /\ file \in [Files -> Paths \cup {None}]
  /\ txn \in [Handlers -> Txn]

(* A post has at most PerPost files and none of them twice, whatever the   *)
(* order in which several of them are confirmed at once (D57).             *)
FilesWithin ==
  /\ Cardinality(Rows) <= PerPost
  /\ \A f, g \in Rows : file[f] = file[g] => f = g
=============================================================================
