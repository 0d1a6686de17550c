----------------------------- MODULE MemberAccount -----------------------------
(***************************************************************************)
(* MemberService: the app account of a member.  A member registers in the  *)
(* app and gets both rows at once, or is registered at the desk and links  *)
(* an account later; a withdrawal closes the login, and undoing it opens   *)
(* it again.                                                               *)
(*                                                                         *)
(* Every request reads, and then writes in a transaction of its own.  The  *)
(* writes of one transaction appear together: each of them locks the       *)
(* member's row first, or inserts rows nobody knows.                       *)
(***************************************************************************)
EXTENDS Integers, FiniteSets

CONSTANTS
  Members, Accounts, Emails,
  AtDesk,      (* the members registered at the desk                       *)
  Handlers, None

VARIABLES
  status,    (* Member.status by member; ABSENT before the registration    *)
  account,   (* Member.accountId by member                                 *)
  login,     (* Account rows: [email, active]                              *)
  txn
vars == <<status, account, login, txn>>

Status == {"ABSENT", "ACTIVE", "DORMANT", "WITHDRAWN"}
Login == [email: Emails \cup {None}, active: BOOLEAN]
NoLogin == [email |-> None, active |-> FALSE]
Exists(a) == login[a] # NoLogin

Txn == [step: {"idle", "register", "link", "status"}, member: Members \cup {None},
        account: Accounts \cup {None}, email: Emails \cup {None}, from: Status, to: Status]
Idle == [step |-> "idle", member |-> None, account |-> None, email |-> None,
         from |-> "ABSENT", to |-> "ABSENT"]

Begin(h, t) ==
  /\ txn[h].step = "idle" /\ txn' = [txn EXCEPT ![h] = t]
  /\ UNCHANGED <<status, account, login>>
End(h) == txn' = [txn EXCEPT ![h] = Idle]

(* The index on the emails of active accounts; assertEmailAvailable asks   *)
(* the same.                                                               *)
EmailFree(e, except) == \A a \in Accounts \ {except} : login[a].active => login[a].email # e

-----------------------------------------------------------------------------
Register(h, e) ==
  /\ EmailFree(e, None)
  /\ Begin(h, [Idle EXCEPT !.step = "register", !.email = e])

(* Both rows, or neither.                                                  *)
RegisterCommit(h, m, a) ==
  LET e == txn[h].email
  IN  /\ txn[h].step = "register"
      /\ status[m] = "ABSENT" /\ ~Exists(a)
      /\ EmailFree(e, None)
      /\ login' = [login EXCEPT ![a] = [email |-> e, active |-> TRUE]]
      /\ status' = [status EXCEPT ![m] = "ACTIVE"]
      /\ account' = [account EXCEPT ![m] = a]
      /\ End(h)

-----------------------------------------------------------------------------
(* link: the member proves who they are; nobody links a withdrawn member,  *)
(* or one who has an account ...                                           *)
Link(h, m, e) ==
  /\ status[m] \notin {"ABSENT", "WITHDRAWN"}
  /\ account[m] = None
  /\ EmailFree(e, None)
  /\ Begin(h, [Idle EXCEPT !.step = "link", !.member = m, !.email = e])

WrongLinkCommit(h, a) ==
  LET t == txn[h]
  IN  /\ t.step = "link" /\ ~Exists(a)
      /\ EmailFree(t.email, None)
      /\ login' = [login EXCEPT ![a] = [email |-> t.email, active |-> TRUE]]
      /\ account' = [account EXCEPT ![t.member] = a]
      /\ End(h)
      /\ UNCHANGED status

(* ... and the account is attached if the member still has none, whatever  *)
(* their status is by now.                                                 *)
LinkCommit(h, a) ==
  LET t == txn[h]
  IN  /\ t.step = "link" /\ ~Exists(a)
      /\ account[t.member] = None
      /\ EmailFree(t.email, None)
      /\ login' = [login EXCEPT ![a] = [email |-> t.email, active |-> TRUE]]
      /\ account' = [account EXCEPT ![t.member] = a]
      /\ End(h)
      /\ UNCHANGED status

-----------------------------------------------------------------------------
(* updateStatus: the account is read before the transaction ...            *)
UpdateStatus(h, m, to) ==
  /\ status[m] # "ABSENT" /\ to # "ABSENT"
  /\ Begin(h, [Idle EXCEPT !.step = "status", !.member = m, !.account = account[m],
                           !.from = status[m], !.to = to])

WrongStatusCommit(h) ==
  LET t == txn[h]
      a == t.account
      on == t.to # "WITHDRAWN"
      changes == a # None /\ t.from # t.to
  IN  /\ t.step = "status"
      /\ changes /\ on => EmailFree(login[a].email, a)
      /\ status' = [status EXCEPT ![t.member] = t.to]
      /\ login' = IF changes THEN [login EXCEPT ![a].active = on] ELSE login
      /\ End(h)
      /\ UNCHANGED account

(* ... and opened or closed with the status.  An account whose email has   *)
(* another active owner by now cannot be opened, and the status stays.     *)
StatusCommit(h) ==
  LET t == txn[h]
      a == t.account
      on == t.to # "WITHDRAWN"
  IN  /\ t.step = "status"
      /\ a # None /\ on => EmailFree(login[a].email, a)
      /\ status' = [status EXCEPT ![t.member] = t.to]
      /\ login' = IF a = None THEN login ELSE [login EXCEPT ![a].active = on]
      /\ End(h)
      /\ UNCHANGED account

(* A condition that no longer holds, an error or a crash writes nothing.   *)
Abort(h) ==
  /\ txn[h].step # "idle"
  /\ End(h)
  /\ UNCHANGED <<status, account, login>>

-----------------------------------------------------------------------------
Init ==
  /\ status = [m \in Members |-> IF m \in AtDesk THEN "ACTIVE" ELSE "ABSENT"]
  /\ account = [m \in Members |-> None]
  /\ login = [a \in Accounts |-> NoLogin]
  /\ txn = [h \in Handlers |-> Idle]

Next ==
  \E h \in Handlers :
    \/ \E e \in Emails : Register(h, e)
    \/ \E m \in Members, e \in Emails : Link(h, m, e)
    \/ \E m \in Members, a \in Accounts : RegisterCommit(h, m, a)
    \/ \E a \in Accounts : LinkCommit(h, a)
    \/ \E m \in Members, to \in Status : UpdateStatus(h, m, to)
    \/ StatusCommit(h) \/ Abort(h)

Spec == Init /\ [][Next]_vars

-----------------------------------------------------------------------------
TypeOK ==
  /\ status \in [Members -> Status]
  /\ account \in [Members -> Accounts \cup {None}]
  /\ login \in [Accounts -> Login]
  /\ txn \in [Handlers -> Txn]

(* Every account belongs to exactly one member, although two devices link  *)
(* the same member at once: an attempt that loses leaves no account behind *)
(* that its owner could never use (ADR-MEM-01, ADR-MEM-02).                *)
NoOrphanAccounts ==
  \A a \in Accounts : Exists(a) => Cardinality({m \in Members : account[m] = a}) = 1

(* The login of a member who registered in the app is open exactly while   *)
(* the member is not withdrawn, whatever status changes run at once and    *)
(* however the email is taken by others meanwhile.                         *)
LoginFollowsStatus ==
  \A m \in Members \ AtDesk :
    account[m] # None => (login[account[m]].active <=> status[m] # "WITHDRAWN")

(* D5: a withdrawn member has no open login.  A status change that has     *)
(* read the member before a link commits knows of no account to close.     *)
WithdrawnCannotLogIn ==
  \A m \in Members :
    status[m] = "WITHDRAWN" /\ account[m] # None => ~login[account[m]].active
=============================================================================
