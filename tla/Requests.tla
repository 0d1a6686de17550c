------------------------------- MODULE Requests -----------------------------
(***************************************************************************)
(* What stands before every handler of the API: the account behind the     *)
(* token (JwtStrategy, JwtAuthGuard), its role (RolesGuard), its branch    *)
(* (BranchScopeGuard) and its permissions (PermissionGuard), and the       *)
(* checks some handlers repeat.  Each of them reads the database at a      *)
(* moment of its own, the strategy even at three, and the later ones judge *)
(* with the account as the strategy put it together, while headquarters    *)
(* transfers people, changes their roles and exceptions, closes accounts   *)
(* and deletes documents.                                                  *)
(*                                                                         *)
(* A behaviour follows one person, one route, one permission of the route  *)
(* and one row it names.  What a role may do by default does not change    *)
(* here (Permissions has its cache); what the handler does afterwards is   *)
(* the matter of the module of its component.                              *)
(***************************************************************************)
EXTENDS Naturals, FiniteSets

CONSTANTS
  Branches,
  None,
  MaxMoves    (* changes made by others                                    *)

VARIABLES
  route,      (* what a behaviour's requests ask for: a Signature          *)
  account,    (* the sender's row and, for a person, that of the staff     *)
  row,        (* the row the request names                                 *)
  request,    (* how far the guards are, and the account as read so far    *)
  known,      (* accounts and rows as they were since the request came     *)
  moves

vars == <<route, account, row, request, known, moves>>

HQ == {"SUPER_ADMIN"}
Manager == {"BRANCH_ADMIN"}
Office == HQ \cup Manager
Employees == Manager \cup {"STAFF"}
Anyone == HQ \cup Employees \cup {"MEMBER"}

-----------------------------------------------------------------------------
(* What the permission table governs: feature by feature, the actions that *)
(* may be switched off for a branch administrator and for staff.           *)
Ceiling(manager, staff) == [BRANCH_ADMIN |-> manager, STAFF |-> staff]
PERMISSION_CATALOG ==
  [member |-> Ceiling({"READ", "CREATE", "UPDATE", "EXPORT"}, {}),
   program |-> Ceiling({"READ", "CREATE", "UPDATE", "DELETE"}, {"READ"}),
   reservation |-> Ceiling({"READ", "UPDATE"}, {}),
   payment |-> Ceiling({"READ", "EXPORT"}, {}),
   attendance |-> Ceiling({"READ", "UPDATE", "EXPORT"}, {}),
   leave |-> Ceiling({"READ", "UPDATE"}, {}),
   worklog |-> Ceiling({"READ"}, {}),
   staff |-> Ceiling({"READ", "UPDATE"}, {}),
   branch |-> Ceiling({"READ"}, {}),
   post |-> Ceiling({"READ", "CREATE", "UPDATE", "DELETE"}, {"READ"}),
   facility |-> Ceiling({"READ", "CREATE", "UPDATE"}, {"READ"}),
   instructor |-> Ceiling({"READ", "CREATE", "UPDATE", "DELETE"}, {"READ"}),
   asset |-> Ceiling({"READ", "CREATE", "UPDATE"}, {}),
   document |-> Ceiling({"READ", "CREATE"}, {}),
   support |-> Ceiling({"READ", "CREATE"}, {})]

(* A route asks for one action of a feature, or is exempt from the table.  *)
Exempt == [feature |-> None, action |-> None]
Can(feature, action) == [feature |-> feature, action |-> action]
Governed(cell) ==
  {role \in Employees : cell # Exempt /\ cell.action \in PERMISSION_CATALOG[cell.feature][role]}

(* The row a route names, by the owner its kind has, and who looks at it:  *)
(* BranchScopeGuard before the handler (Owner, or Named where the request  *)
(* carries the branch itself), or the handler.                             *)
OwnerOf(kind) ==
  IF kind \in {"member", "reservation"} THEN "member"
  ELSE IF kind \in {"staff", "leaveRequest", "staffChangeRequest"} THEN "staff"
  ELSE IF kind \in {"document", "post"} THEN kind
  ELSE "branch"
Ref(way, kind) == [way |-> way, of |-> OwnerOf(kind)]
Owner(kind) == Ref("owner", kind)
Named == Ref("named", "branch")
Within(kind) == Ref("within", kind)
Own == Ref("own", "staff")
Nothing == Ref("nothing", "branch")

Route(roles, cells, refs) ==
  {[roles |-> roles, governed |-> Governed(cell), ref |-> ref, open |-> FALSE]
     : cell \in cells, ref \in refs}
List(kind) == {Named, Within(kind)}

-----------------------------------------------------------------------------
(* The routes, as each controller declares them.  Public ones have none of *)
(* the guards; who may write a post is asked by its handler.               *)
MembersController ==
  Route(Office, {Can("member", "READ"), Can("member", "EXPORT")}, List("member"))
  \cup Route(Office \cup {"MEMBER"}, {Can("member", "READ"), Can("member", "UPDATE")}, {Owner("member")})
  \cup Route(Manager, {Can("member", "CREATE"), Can("member", "UPDATE")}, {Owner("member")})
  \cup Route(Manager, {Can("member", "CREATE")}, {Within("staff")})

StaffController ==
  Route(Office, {Can("staff", "READ")}, List("staff") \cup {Owner("staff")})
  \cup Route(Anyone, {Exempt}, {Own})
  \cup Route(Office \cup {"STAFF"}, {Can("staff", "READ")}, {Owner("staff")})
  \cup Route(Manager, {Can("staff", "UPDATE")}, {Owner("staff")})
  \cup Route(Office, {Exempt}, {Owner("staff")})
  \cup Route(HQ, {Exempt}, {Owner("staff"), Nothing})

StaffChangeRequestsController ==
  Route({"STAFF"}, {Exempt}, {Own, Owner("staffChangeRequest")})
  \cup Route(Office, {Can("staff", "READ")}, {Within("staffChangeRequest")})
  \cup Route(Manager, {Can("staff", "UPDATE")}, {Owner("staffChangeRequest")})

AttendanceController ==
  Route(Employees, {Exempt}, {Own})
  \cup Route(Office \cup {"STAFF"}, {Can("attendance", "READ"), Can("worklog", "READ")},
             {Own, Owner("staff")})
  \cup Route(Office, {Can("attendance", "READ"), Can("attendance", "EXPORT")}, {Named})
  \cup Route(Manager, {Can("attendance", "UPDATE")}, {Owner("staff"), Within("staff")})
  \cup Route(Office \cup {"STAFF"}, {Can("leave", "READ")}, {Owner("staff"), Within("leaveRequest")})
  \cup Route(Manager, {Can("leave", "UPDATE")}, {Owner("leaveRequest")})

ReservationsController ==
  Route({"MEMBER"}, {Exempt}, {Within("slot")})
  \cup Route(Office \cup {"MEMBER"}, {Can("reservation", "READ")}, {Within("reservation")})
  \cup Route(Office, {Can("reservation", "READ")}, {Owner("member")})
  \cup Route(Manager \cup {"MEMBER"}, {Can("reservation", "UPDATE")}, {Owner("reservation")})
  \cup Route(Manager, {Can("reservation", "UPDATE")}, {Owner("reservation")})

PaymentsController ==
  Route({"MEMBER"}, {Exempt}, {Owner("reservation")})
  \cup Route(Office, {Can("payment", "READ"), Can("payment", "EXPORT")}, List("payment"))

ProgramsController ==
  Route(Anyone, {Can("program", "READ")}, List("program") \cup {Owner("program")})
  \cup Route(Manager, {Can("program", "CREATE")}, {Owner("program"), Within("instructor"), Within("facility")})
  \cup Route(Manager, {Can("program", "UPDATE"), Can("program", "DELETE")}, {Owner("program")})

PostsController ==
  Route(Anyone, {Can("post", "READ")}, {Ref("visible", "post")})
  \cup Route(Office, {Can("post", "CREATE")}, {Owner("facility"), Within("facility")})
  \cup Route(Anyone, {Can("post", "UPDATE")}, {Ref("author", "post")})
  \cup Route(Anyone, {Can("post", "DELETE")}, {Ref("author or HQ", "post")})

FacilitiesController ==
  Route(Anyone, {Can("facility", "READ")}, List("facility"))
  \cup Route(Manager, {Can("facility", "CREATE")}, {Within("facility")})
  \cup Route(Manager, {Can("facility", "UPDATE")}, {Owner("facility")})

InstructorsController ==
  Route(Anyone, {Can("instructor", "READ")}, List("instructor"))
  \cup Route(Manager, {Can("instructor", "CREATE")}, {Within("instructor")})
  \cup Route(Manager, {Can("instructor", "UPDATE"), Can("instructor", "DELETE")}, {Owner("instructor")})

AssetsController ==
  Route(Office, {Can("asset", "READ")}, List("asset"))
  \cup Route(Office, {Can("asset", "CREATE")}, {Within("asset")})
  \cup Route(Office, {Can("asset", "UPDATE")}, {Owner("asset")})

BranchesController ==
  Route(Anyone, {Can("branch", "READ")}, {Within("branch")})
  \cup Route(HQ, {Exempt}, {Nothing, Named, Owner("contractFile")})
  \cup Route(Office, {Can("branch", "READ")}, {Named, Owner("contractFile")})

DocumentsController ==
  Route(Office, {Can("document", "READ")}, {Named, Within("document"), Owner("document"), Owner("staff")})
  \cup Route(HQ, {Exempt}, {Nothing})
  \cup Route(Office, {Can("document", "CREATE")}, {Owner("staff"), Within("branch")})

SupportRequestsController ==
  Route(Manager, {Can("support", "CREATE")}, {Within("supportRequest")})
  \cup Route(Office, {Can("support", "READ")}, List("supportRequest") \cup {Owner("supportRequest")})
  \cup Route(HQ, {Exempt}, {Owner("supportRequest")})

InboxController == Route(Office \cup {"STAFF"}, {Exempt}, {Within("branch")})
PermissionsController == Route(HQ, {Exempt}, {Nothing})
AuditLogsController == Route(HQ, {Exempt}, {Nothing})

(* One's own name and password: open to a temporary password as well.      *)
AuthController == {[r EXCEPT !.open = TRUE] : r \in Route(Anyone, {Exempt}, {Nothing})}

Signatures ==
  UNION {MembersController, StaffController, StaffChangeRequestsController, AttendanceController,
         ReservationsController, PaymentsController, ProgramsController, PostsController,
         FacilitiesController, InstructorsController, AssetsController, BranchesController,
         DocumentsController, SupportRequestsController, InboxController, PermissionsController,
         AuditLogsController, AuthController}

-----------------------------------------------------------------------------
(* Accounts and rows.  The exception "personal" and the default are those  *)
(* of the permission the behaviour follows; a document of the whole chain  *)
(* and a notice of headquarters have no branch.                            *)
Account ==
  [active: BOOLEAN, role: Anyone, branch: Branches \cup {None}, temp: BOOLEAN,
   personal: BOOLEAN \cup {None}, default: BOOLEAN]
Row == [of: {"member", "staff", "document", "post", "branch"},
        home: Branches \cup {None}, mine: BOOLEAN, hidden: BOOLEAN, gone: BOOLEAN]

Employed(a) == a.role \in Employees

TypeOK ==
  /\ route \in Signatures
  /\ account \in Account
  /\ row \in Row
  /\ request.step \in {"account", "profile", "exceptions", "owner", "permission", "handler",
                      "handled", "refused"}
  /\ request.user \in Account \cup {None}
  /\ account \in known.accounts /\ known.accounts \subseteq Account
  /\ row \in known.rows /\ known.rows \subseteq Row
  /\ moves \in 0..MaxMoves

(* A row of one's own is in one's own branch, and members write nothing.   *)
Possible(a, r) ==
  /\ a.active /\ ~r.gone
  /\ (a.role = "SUPER_ADMIN") = (a.branch = None)
  /\ ~Employed(a) => ~a.temp
  /\ ~Employed(a) \/ route.governed = {} \/ a.temp => a.personal = None /\ a.default
  /\ r.of = route.ref.of
  /\ r.home = None => r.of \in {"document", "post"}
  /\ r.hidden => r.of = "post" /\ r.home = None
  /\ r.mine => \/ r.of = "member" /\ a.role = "MEMBER" /\ r.home = a.branch
               \/ r.of = "staff" /\ Employed(a) /\ r.home = a.branch
               \/ r.of = "post" /\ a.role = "SUPER_ADMIN"
               \/ r.of = "post" /\ a.role = "BRANCH_ADMIN" /\ r.home = a.branch

Init ==
  /\ route \in Signatures
  /\ account \in Account
  /\ row \in Row
  /\ Possible(account, row)
  /\ request = [step |-> "account", user |-> None]
  /\ known = [accounts |-> {account}, rows |-> {row}]
  /\ moves = 0

-----------------------------------------------------------------------------
(* Meanwhile, in transactions of their own.                                *)
Become(a, r) ==
  /\ moves < MaxMoves /\ moves' = moves + 1
  /\ account' = a /\ row' = r
  /\ known' = [accounts |-> known.accounts \cup {a}, rows |-> known.rows \cup {r}]
  /\ UNCHANGED <<route, request>>

(* An assignment moves a person and what is judged by where he works now:  *)
(* his own rows if it is the sender.                                       *)
Moving == row.of = "staff"
Transfer ==
  /\ Employed(account) /\ account.active
  /\ \E b \in Branches \ {account.branch} :
       Become([account EXCEPT !.branch = b],
              IF row.mine /\ Moving THEN [row EXCEPT !.home = b] ELSE row)
MoveRow ==
  /\ Moving /\ ~row.mine
  /\ \E b \in Branches \ {row.home} : Become(account, [row EXCEPT !.home = b])

(* Headquarters makes him an administrator, or no longer; his exceptions   *)
(* stay.                                                                   *)
SwitchRole ==
  /\ Employed(account)
  /\ \E role \in Employees \ {account.role} : Become([account EXCEPT !.role = role], row)

(* He resigns, or a member withdraws.                                      *)
Deactivate == account.role # "SUPER_ADMIN" /\ account.active
              /\ Become([account EXCEPT !.active = FALSE], row)
SetPersonal ==
  /\ Employed(account) /\ account.role \in route.governed /\ ~account.temp
  /\ \E p \in (BOOLEAN \cup {None}) \ {account.personal} :
       Become([account EXCEPT !.personal = p], row)
ChangePassword == account.temp /\ Become([account EXCEPT !.temp = FALSE], row)
Remove == row.of \in {"document", "post"} /\ ~row.gone
          /\ Become(account, [row EXCEPT !.gone = TRUE])

-----------------------------------------------------------------------------
(* One request, guard after guard.                                         *)
Pass(step, user) ==
  /\ request' = [step |-> step, user |-> user]
  /\ UNCHANGED <<route, account, row, known, moves>>
Decide(ok, step, user) == Pass(IF ok THEN step ELSE "refused", user)

(* BranchScopeGuard's judge: headquarters everything; a member his own     *)
(* rows and a member of staff his own where rows are a person's; the       *)
(* others what is of their branch, and documents of no branch.             *)
judge(user, r) ==
  CASE user.role = "SUPER_ADMIN" -> TRUE
    [] user.role = "MEMBER" /\ r.of = "member" -> r.mine
    [] user.role = "STAFF" /\ r.of = "staff" -> r.mine
    [] r.home = None -> r.of = "document"
    [] OTHER -> r.home = user.branch

(* A post is shown to headquarters, to its branch, and to everybody if it  *)
(* is of no branch, unless it is kept from members.                        *)
visibleWhere(user, r) ==
  \/ user.role = "SUPER_ADMIN"
  \/ r.home \in {None, user.branch} /\ ~(user.role = "MEMBER" /\ r.hidden)

(* The account is read anew for every request: the token only names it.    *)
(* Its row, the staff's or member's row behind it and the exceptions are   *)
(* three statements of no transaction, in the order of the include.  The   *)
(* guards then judge what was read at once, BranchScopeGuard the branch a  *)
(* request carries and not yet the row it names.                           *)
JwtAuthGuard(a) == a.active /\ (a.temp => route.open)
RolesGuard(a) == a.role \in route.roles
enforceBranchParam(a) == route.ref.way = "named" => judge(a, row)

buildRequestUser(self, profile, exceptions) ==
  [self EXCEPT !.branch = profile.branch, !.personal = exceptions.personal]
Unread == [branch |-> None, personal |-> None]

ReadAccount ==
  /\ request.step = "account"
  /\ Pass("profile", buildRequestUser(account, Unread, Unread))

ReadProfile ==
  /\ request.step = "profile"
  /\ Pass("exceptions", buildRequestUser(request.user, account, Unread))

ReadExceptions ==
  LET user == buildRequestUser(request.user, request.user, account)
  IN  /\ request.step = "exceptions"
      /\ Decide(JwtAuthGuard(user) /\ RolesGuard(user) /\ enforceBranchParam(user),
                IF route.ref.way = "owner" THEN "owner" ELSE "permission", user)

ReadOwner ==
  /\ request.step = "owner"
  /\ Decide(~row.gone /\ judge(request.user, row), "permission", request.user)

(* Outside the ceiling the table does not govern; inside, one's exception  *)
(* precedes the role's default.  The wrong version looks at the exception  *)
(* first, one left from another role as well.                              *)
WrongAllows(user) ==
  IF user.personal # None THEN user.personal
  ELSE user.role \notin route.governed \/ user.default
allows(user) ==
  \/ user.role \notin route.governed
  \/ IF user.personal # None THEN user.personal ELSE user.default

ReadPermission ==
  /\ request.step = "permission"
  /\ Decide(allows(request.user), "handler", request.user)

(* What handlers check themselves: lists are filtered and new rows pinned  *)
(* by the sender's branch, one's own rows by one's own id, posts by who    *)
(* may see them and who wrote them.                                        *)
InHandler(user) ==
  CASE route.ref.way = "within" -> ~row.gone /\ judge(user, row)
    [] route.ref.way = "own" -> row.mine
    [] route.ref.way = "visible" -> ~row.gone /\ visibleWhere(user, row)
    [] route.ref.way = "author" -> ~row.gone /\ visibleWhere(user, row) /\ row.mine
    [] route.ref.way = "author or HQ" ->
         ~row.gone /\ visibleWhere(user, row) /\ (row.mine \/ user.role = "SUPER_ADMIN")
    [] OTHER -> TRUE

Handle ==
  /\ request.step = "handler"
  /\ Decide(InHandler(request.user), "handled", request.user)

(* The next request of the same kind.                                      *)
Send ==
  /\ request.step \in {"handled", "refused"}
  /\ request' = [step |-> "account", user |-> None]
  /\ known' = [accounts |-> {account}, rows |-> {row}]
  /\ UNCHANGED <<route, account, row, moves>>

Next ==
  \/ Transfer \/ MoveRow \/ SwitchRole \/ Deactivate \/ SetPersonal \/ ChangePassword \/ Remove
  \/ ReadAccount \/ ReadProfile \/ ReadExceptions
  \/ ReadOwner \/ ReadPermission \/ Handle \/ Send

Spec == Init /\ [][Next]_vars

-----------------------------------------------------------------------------
(* What a person may do, as the permission document has it: while his      *)
(* account is open, with a password of his own, within his role, and       *)
(*   - headquarters with every row, an author and a sender "own" with      *)
(*     what is his;                                                        *)
(*   - a member with what is his where rows are members', a member of      *)
(*     staff with what is his where rows are people's;                     *)
(*   - everybody else with his branch's rows and the shared ones,          *)
(* unless an exception, or for want of one the default, says no.           *)
Shared(r) == r.home = None /\ r.of \in {"document", "post"}
Personal(a, r) == <<a.role, r.of>> \in {<<"MEMBER", "member">>, <<"STAFF", "staff">>}
Belongs(a, r) == IF Personal(a, r) THEN r.mine ELSE r.home = a.branch \/ Shared(r)
Admits(a, r) ==
  /\ a.active /\ a.role \in route.roles /\ (route.open \/ ~a.temp)
  /\ a.role \in route.governed => a.personal = TRUE \/ (a.personal = None /\ a.default)
  /\ \/ route.ref.way = "nothing"
     \/ route.ref.way = "own" /\ r.mine
     \/ /\ route.ref.way # "own" /\ ~r.gone
        /\ a.role = "SUPER_ADMIN" \/ (Belongs(a, r) /\ ~(a.role = "MEMBER" /\ r.hidden))
        /\ route.ref.way = "author" => r.mine
        /\ route.ref.way = "author or HQ" => r.mine \/ a.role = "SUPER_ADMIN"

(* A request is handled, or refused, for a role, a branch, an exception    *)
(* and a row each of which was so while it was under way: no answer rests  *)
(* on any of them as it was before the request came, and a change is in    *)
(* force from the next request on without a new login.  They need not have *)
(* been so at the same moment: an administrator who becomes staff and is   *)
(* then transferred may be judged once as the other branch's one.          *)
DecidedAsKnown ==
  /\ request.step = "handled" =>
       \E x, y, z \in known.accounts, r \in known.rows : Admits(buildRequestUser(x, y, z), r)
  /\ request.step = "refused" =>
       \E x, y, z \in known.accounts, r \in known.rows : ~Admits(buildRequestUser(x, y, z), r)
=============================================================================
