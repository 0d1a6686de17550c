--------------------------------- MODULE Posts ---------------------------------
(***************************************************************************)
(* PostService: posts of headquarters and of one branch.  Titles, contents *)
(* and categories are one edition number; the files of a post are in       *)
(* Attachments.                                                            *)
(***************************************************************************)
EXTENDS BranchGate, Integers

CONSTANTS
  Ids,
  MaxEdits      (* bound: editions and views of a post                     *)

VARIABLES post  (* the Post rows                                           *)
vars == <<contract, txn, post>>

Row == [state: {"ABSENT", "PUBLISHED", "DELETED"}, scope: {"HQ", "BRANCH"},
        edition: 0..MaxEdits, views: 0..MaxEdits]
NoRow == [state |-> "ABSENT", scope |-> "HQ", edition |-> 0, views |-> 0]
Published(i) == post[i].state = "PUBLISHED"

(* create: only a post of the branch to its members is let in by it.       *)
Create(h, i, scope) ==
  /\ post[i] = NoRow
  /\ LET t == [step |-> "create", lock |-> IF scope = "BRANCH" THEN "share" ELSE "none",
               id |-> i, scope |-> scope]
     IN  \/ scope = "BRANCH" /\ LetIn(h, t)
         \/ scope = "HQ" /\ Begin(h, t) /\ UNCHANGED contract
  /\ UNCHANGED post

CreateCommit(h) ==
  /\ txn[h].step = "create"
  /\ post[txn[h].id] = NoRow
  /\ post' = [post EXCEPT ![txn[h].id] =
                [NoRow EXCEPT !.state = "PUBLISHED", !.scope = txn[h].scope]]
  /\ End(h)
  /\ UNCHANGED contract

(* update, softDelete and viewDetail find the post first ...               *)
Find(h, i, what) ==
  /\ Published(i)
  /\ Begin(h, [step |-> what, lock |-> "none", id |-> i])
  /\ UNCHANGED <<contract, post>>

WrongEditable(i) == TRUE
(* ... an update and a deletion apply while it is not deleted ...          *)
Editable(i) == Published(i)

UpdateWrite(h) ==
  LET i == txn[h].id
  IN  /\ txn[h].step = "update"
      /\ \/ /\ Editable(i) /\ post[i].edition < MaxEdits
            /\ post' = [post EXCEPT ![i].edition = @ + 1]
         \/ ~Editable(i) /\ UNCHANGED post
      /\ End(h)
      /\ UNCHANGED contract

DeleteWrite(h) ==
  /\ txn[h].step = "delete"
  /\ post' = IF Published(txn[h].id)
             THEN [post EXCEPT ![txn[h].id].state = "DELETED"] ELSE post
  /\ End(h)
  /\ UNCHANGED contract

(* ... a view counts in any case.                                          *)
ViewWrite(h) ==
  /\ txn[h].step = "view"
  /\ post[txn[h].id].views < MaxEdits
  /\ post' = [post EXCEPT ![txn[h].id].views = @ + 1]
  /\ End(h)
  /\ UNCHANGED contract

Init == GateInit /\ post = [i \in Ids |-> NoRow]

Next ==
  \E h \in Handlers :
    \/ Gate(h) /\ UNCHANGED post
    \/ CreateCommit(h) \/ UpdateWrite(h) \/ DeleteWrite(h) \/ ViewWrite(h)
    \/ \E i \in Ids :
         \/ \E scope \in {"HQ", "BRANCH"} : Create(h, i, scope)
         \/ \E what \in {"update", "delete", "view"} : Find(h, i, what)

Spec == Init /\ [][Next]_vars

-----------------------------------------------------------------------------
TypeOK ==
  /\ GateTypeOK([step: {"create"}, lock: {"none", "share"}, id: Ids,
                 scope: {"HQ", "BRANCH"}]
                \cup [step: {"update", "delete", "view"}, lock: {"none"}, id: Ids])
  /\ post \in [Ids -> Row]

(* A deleted post keeps its text for a dispute: an edit that found it      *)
(* before it was deleted does not change it afterwards (D36).              *)
DeletedStays ==
  \A i \in Ids : post[i].state = "DELETED" =>
    post'[i] = [post[i] EXCEPT !.views = post'[i].views]

(* A branch writes nothing to its members once its contract is terminated, *)
(* headquarters may (D70).                                                 *)
NothingNew ==
  \A i \in Ids : post[i] = NoRow /\ post'[i].state # "ABSENT" /\ post'[i].scope = "BRANCH"
    => contract # "TERMINATED"
=============================================================================
