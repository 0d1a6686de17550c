--------------------------- MODULE RequestsProofs ---------------------------
(***************************************************************************)
(* Proofs about Requests: DecidedAsKnown for any set of branches, any row, *)
(* every route of the table and any number of changes made meanwhile.      *)
(* What the proofs assume of None is that it is neither a branch nor a     *)
(* truth value.                                                            *)
(***************************************************************************)
EXTENDS Requests, TLAPS

NoneApart == None \notin BOOLEAN \cup Branches

-----------------------------------------------------------------------------
(* What the table of routes gives to rely on: the guards and handlers that *)
(* compare branches see no posts, those for posts nothing else, and a      *)
(* branch in the request is a branch.                                      *)
Judging == {"owner", "named", "within"}
Posting == {"visible", "author", "author or HQ"}
RefOK(ref) ==
  /\ ref.way \in Judging \cup Posting \cup {"own", "nothing"}
  /\ ref.way \in Judging => ref.of # "post"
  /\ ref.way \in Posting => ref.of = "post"
  /\ ref.way = "named" => ref.of = "branch"
AllOK(routes) == \A r \in routes : RefOK(r.ref)

LEMMA RouteOK ==
  ASSUME NEW roles, NEW cells, NEW refs, \A ref \in refs : RefOK(ref)
  PROVE  AllOK(Route(roles, cells, refs))
BY DEF AllOK, Route

(* The references of the table, kind by kind.                              *)
LEMMA RefsOK ==
  /\ \A kind \in {"member", "staff", "staffChangeRequest", "leaveRequest", "reservation",
                  "program", "facility", "instructor", "asset", "contractFile", "document",
                  "supportRequest", "slot", "payment", "branch"} :
       RefOK(Owner(kind)) /\ RefOK(Within(kind))
  /\ RefOK(Named) /\ RefOK(Own) /\ RefOK(Nothing)
  /\ \A way \in Posting : RefOK(Ref(way, "post"))
BY DEF RefOK, Owner, Within, Named, Own, Nothing, Ref, OwnerOf, Judging, Posting

LEMMA ControllersOK ==
  /\ AllOK(MembersController) /\ AllOK(StaffController)
  /\ AllOK(StaffChangeRequestsController) /\ AllOK(AttendanceController)
  /\ AllOK(ReservationsController) /\ AllOK(PaymentsController)
  /\ AllOK(ProgramsController) /\ AllOK(PostsController)
  /\ AllOK(FacilitiesController) /\ AllOK(InstructorsController)
  /\ AllOK(AssetsController) /\ AllOK(BranchesController)
  /\ AllOK(DocumentsController) /\ AllOK(SupportRequestsController)
  /\ AllOK(InboxController) /\ AllOK(PermissionsController)
  /\ AllOK(AuditLogsController) /\ AllOK(AuthController)
<1>1. \A A, B : AllOK(A) /\ AllOK(B) => AllOK(A \cup B)
  BY DEF AllOK
<1>2. \A roles, cells, refs :
        (\A ref \in refs : RefOK(ref)) => AllOK(Route(roles, cells, refs))
  BY RouteOK
<1>3. AllOK(MembersController)
  BY <1>1, <1>2, RefsOK DEF MembersController, List
<1>4. AllOK(StaffController)
  <2>1. AllOK(Route(Office, {Can("staff", "READ")}, List("staff") \cup {Owner("staff")}))
    BY <1>2, RefsOK DEF List
  <2>2. AllOK(Route(Anyone, {Exempt}, {Own}))
    BY <1>2, RefsOK
  <2>3. \A roles, cells : AllOK(Route(roles, cells, {Owner("staff")}))
    BY <1>2, RefsOK
  <2>4. AllOK(Route(HQ, {Exempt}, {Owner("staff"), Nothing}))
    BY <1>2, RefsOK
  <2> QED BY <1>1, <2>1, <2>2, <2>3, <2>4 DEF StaffController
<1>5. AllOK(StaffChangeRequestsController)
  BY <1>1, <1>2, RefsOK DEF StaffChangeRequestsController
<1>6. AllOK(AttendanceController)
  <2>1. \A roles, cells : AllOK(Route(roles, cells, {Own}))
    BY <1>2, RefsOK
  <2>2. \A roles, cells : AllOK(Route(roles, cells, {Own, Owner("staff")}))
    BY <1>2, RefsOK
  <2>3. \A roles, cells : AllOK(Route(roles, cells, {Named}))
    BY <1>2, RefsOK
  <2>4. \A roles, cells : AllOK(Route(roles, cells, {Owner("staff"), Within("staff")}))
    BY <1>2, RefsOK
  <2>5. \A roles, cells : AllOK(Route(roles, cells, {Owner("staff"), Within("leaveRequest")}))
    BY <1>2, RefsOK
  <2>6. \A roles, cells : AllOK(Route(roles, cells, {Owner("leaveRequest")}))
    BY <1>2, RefsOK
  <2> QED BY <1>1, <2>1, <2>2, <2>3, <2>4, <2>5, <2>6 DEF AttendanceController
<1>7. AllOK(ReservationsController)
  BY <1>1, <1>2, RefsOK DEF ReservationsController
<1>8. AllOK(PaymentsController)
  BY <1>1, <1>2, RefsOK DEF PaymentsController, List
<1>9. AllOK(ProgramsController)
  BY <1>1, <1>2, RefsOK DEF ProgramsController, List
<1>10. AllOK(PostsController)
  BY <1>1, <1>2, RefsOK DEF PostsController, Posting
<1>11. AllOK(FacilitiesController)
  BY <1>1, <1>2, RefsOK DEF FacilitiesController, List
<1>12. AllOK(InstructorsController)
  BY <1>1, <1>2, RefsOK DEF InstructorsController, List
<1>13. AllOK(AssetsController)
  BY <1>1, <1>2, RefsOK DEF AssetsController, List
<1>14. AllOK(BranchesController)
  BY <1>1, <1>2, RefsOK DEF BranchesController
<1>15. AllOK(DocumentsController)
  BY <1>1, <1>2, RefsOK DEF DocumentsController
<1>16. AllOK(SupportRequestsController)
  BY <1>1, <1>2, RefsOK DEF SupportRequestsController, List
<1>17. AllOK(InboxController)
  BY <1>2, RefsOK DEF InboxController
<1>18. AllOK(PermissionsController) /\ AllOK(AuditLogsController)
  BY <1>2, RefsOK DEF PermissionsController, AuditLogsController
<1>19. AllOK(AuthController)
  <2>1. AllOK(Route(Anyone, {Exempt}, {Nothing}))
    BY <1>2, RefsOK
  <2>2. \A r \in Route(Anyone, {Exempt}, {Nothing}) : [r EXCEPT !.open = TRUE].ref = r.ref
    BY DEF Route
  <2> QED BY <2>1, <2>2 DEF AuthController, AllOK
<1> QED BY <1>3, <1>4, <1>5, <1>6, <1>7, <1>8, <1>9, <1>10, <1>11, <1>12, <1>13,
           <1>14, <1>15, <1>16, <1>17, <1>18, <1>19

LEMMA SignaturesOK == \A r \in Signatures : RefOK(r.ref)
BY ControllersOK DEF Signatures, AllOK

-----------------------------------------------------------------------------
(* Shapes that no change disturbs: a row is of the kind the route names,   *)
(* only documents and posts are deleted or are nobody's branch's, and only *)
(* posts are kept from members.                                            *)
RowOK(r) ==
  /\ r \in Row /\ r.of = route.ref.of
  /\ r.hidden => r.of = "post"
  /\ r.gone \/ r.home = None => r.of \in {"document", "post"}

Shapes ==
  /\ RefOK(route.ref)
  /\ account \in known.accounts /\ row \in known.rows
  /\ known.accounts \subseteq Account
  /\ \A r \in known.rows : RowOK(r)

(* What a request has read so far of an account, field by field.           *)
Began(step, a) ==
  /\ step = "profile" =>
       \E x \in known.accounts : a = buildRequestUser(x, Unread, Unread)
  /\ step = "exceptions" =>
       \E x, y \in known.accounts : a = buildRequestUser(x, y, Unread)
AsRead(a) == \E x, y, z \in known.accounts : a = buildRequestUser(x, y, z)

(* What a request has passed so far held for an account as read, and rows  *)
(* of the time it has been under way.                                      *)
Passed(step, a) ==
  /\ AsRead(a)
  /\ JwtAuthGuard(a) /\ RolesGuard(a)
  /\ route.ref.way = "named" => \E r \in known.rows : judge(a, r)
  /\ step = "owner" => route.ref.way = "owner"
  /\ step # "owner" /\ route.ref.way = "owner" =>
       \E r \in known.rows : ~r.gone /\ judge(a, r)
  /\ step = "handler" => allows(a)

InFlight == {"owner", "permission", "handler"}
DecisionInv ==
  /\ Shapes
  /\ Began(request.step, request.user)
  /\ request.step \in InFlight => Passed(request.step, request.user)
  /\ DecidedAsKnown

-----------------------------------------------------------------------------
(* The guards and the handlers judge as the permission document does, each *)
(* for the routes that use it.                                             *)
LEMMA JudgeAgrees ==
  ASSUME NEW a, NEW r, RefOK(route.ref), RowOK(r), route.ref.way \in Judging
  PROVE  judge(a, r) <=> (a.role = "SUPER_ADMIN" \/ (Belongs(a, r) /\ ~(a.role = "MEMBER" /\ r.hidden)))
BY DEF judge, Belongs, Personal, Shared, RowOK, RefOK

LEMMA VisibleAgrees ==
  ASSUME NEW a, NEW r, RefOK(route.ref), RowOK(r), route.ref.way \in Posting
  PROVE  visibleWhere(a, r) <=> (a.role = "SUPER_ADMIN" \/ (Belongs(a, r) /\ ~(a.role = "MEMBER" /\ r.hidden)))
BY DEF visibleWhere, Belongs, Personal, Shared, RowOK, RefOK

LEMMA AllowsAgrees ==
  ASSUME NEW a, NoneApart, a \in Account
  PROVE  allows(a) <=> (a.role \in route.governed =>
                          a.personal = TRUE \/ (a.personal = None /\ a.default))
BY DEF allows, Account, NoneApart

(* An account put together from several is one that could be.              *)
LEMMA ReadIsAccount == ASSUME Shapes, NEW a, AsRead(a) PROVE a \in Account
<1>1. PICK x \in known.accounts, y \in known.accounts, z \in known.accounts :
        a = buildRequestUser(x, y, z)
  BY DEF AsRead
<1>2. x \in Account /\ y \in Account /\ z \in Account
  BY DEF Shapes
<1> QED BY <1>1, <1>2 DEF Account, buildRequestUser

(* What a request has decided, in terms of what it has read.               *)
LEMMA Known ==
  ASSUME NEW step,
         step = "handled" => \E a : AsRead(a) /\ \E r \in known.rows : Admits(a, r),
         step = "refused" => \E a : AsRead(a) /\ \E r \in known.rows : ~Admits(a, r)
  PROVE  /\ step = "handled" =>
              \E x, y, z \in known.accounts, r \in known.rows : Admits(buildRequestUser(x, y, z), r)
         /\ step = "refused" =>
              \E x, y, z \in known.accounts, r \in known.rows : ~Admits(buildRequestUser(x, y, z), r)
<1>1. \A a : AsRead(a) => \E x, y, z \in known.accounts : a = buildRequestUser(x, y, z)
  BY DEF AsRead
<1> QED BY <1>1

(* The whole of a request, read against one account and one row.           *)
LEMMA AdmitsAgrees ==
  ASSUME NoneApart, Shapes, NEW a, AsRead(a), NEW r \in known.rows
  PROVE  Admits(a, r) <=>
           /\ JwtAuthGuard(a) /\ RolesGuard(a) /\ allows(a)
           /\ route.ref.way = "named" => judge(a, r)
           /\ route.ref.way = "owner" => ~r.gone /\ judge(a, r)
           /\ route.ref.way = "within" => ~r.gone /\ judge(a, r)
           /\ route.ref.way = "own" => r.mine
           /\ route.ref.way \in Posting => ~r.gone /\ visibleWhere(a, r)
           /\ route.ref.way = "author" => r.mine
           /\ route.ref.way = "author or HQ" => r.mine \/ a.role = "SUPER_ADMIN"
<1>1. a \in Account /\ RowOK(r) /\ RefOK(route.ref)
  BY ReadIsAccount DEF Shapes
<1>2. allows(a) <=> (a.role \in route.governed =>
                       a.personal = TRUE \/ (a.personal = None /\ a.default))
  BY <1>1, AllowsAgrees
<1>3. route.ref.way \in Judging => (judge(a, r) <=>
        (a.role = "SUPER_ADMIN" \/ (Belongs(a, r) /\ ~(a.role = "MEMBER" /\ r.hidden))))
  BY <1>1, JudgeAgrees
<1>4. route.ref.way \in Posting => (visibleWhere(a, r) <=>
        (a.role = "SUPER_ADMIN" \/ (Belongs(a, r) /\ ~(a.role = "MEMBER" /\ r.hidden))))
  BY <1>1, VisibleAgrees
<1>5. route.ref.way = "named" => ~r.gone
  BY <1>1 DEF RowOK, RefOK
<1> QED
  BY <1>1, <1>2, <1>3, <1>4, <1>5
     DEF Admits, JwtAuthGuard, RolesGuard, RefOK, Judging, Posting

-----------------------------------------------------------------------------
LEMMA InitOK == ASSUME NoneApart PROVE Init => DecisionInv
<1> SUFFICES ASSUME Init PROVE DecisionInv
  OBVIOUS
<1>1. RefOK(route.ref)
  BY SignaturesOK DEF Init
<1>2. account \in Account
  BY DEF Init
<1>3. RowOK(row)
  BY DEF Init, Row, Possible, RowOK
<1> QED BY <1>1, <1>2, <1>3 DEF Init, DecisionInv, Shapes, Began, InFlight, DecidedAsKnown

(* What is admitted depends on the route only, which stays.                *)
LEMMA AdmitsSame ==
  ASSUME UNCHANGED route PROVE \A x, y : Admits(x, y)' <=> Admits(x, y)
BY DEF Admits, Belongs, Personal, Shared

(* Changes made by others only add to what has been known.                 *)
LEMMA BecomeOK ==
  ASSUME NoneApart, DecisionInv, NEW a, NEW r, Become(a, r), a \in Account, RowOK(r)
  PROVE  DecisionInv'
<1>1. /\ UNCHANGED <<route, request>>
      /\ known'.accounts = known.accounts \cup {a} /\ known'.rows = known.rows \cup {r}
      /\ account' = a /\ row' = r
  BY DEF Become
<1>2. Shapes'
  BY <1>1 DEF DecisionInv, Shapes, RowOK
<1>3. \A x : AsRead(x) => AsRead(x)'
  BY <1>1 DEF AsRead, buildRequestUser
<1>4. Began(request.step, request.user)'
  BY <1>1 DEF DecisionInv, Began, buildRequestUser, Unread
<1>5. (request.step \in InFlight => Passed(request.step, request.user))'
  BY <1>1, <1>3 DEF DecisionInv, Passed, JwtAuthGuard, RolesGuard, allows, judge, InFlight
<1>6. DecidedAsKnown'
  <2>1. \A x, y : Admits(x, y)' <=> Admits(x, y)
    BY <1>1, AdmitsSame
  <2>2. \A x, y, z : buildRequestUser(x, y, z)' = buildRequestUser(x, y, z)
    BY DEF buildRequestUser
  <2> QED BY <1>1, <2>1, <2>2 DEF DecisionInv, DecidedAsKnown
<1> QED BY <1>2, <1>4, <1>5, <1>6 DEF DecisionInv

LEMMA OthersOK ==
  ASSUME NoneApart, DecisionInv,
         Transfer \/ MoveRow \/ SwitchRole \/ Deactivate \/ SetPersonal \/ ChangePassword \/ Remove
  PROVE  DecisionInv'
<1>1. account \in Account /\ RowOK(row)
  BY DEF DecisionInv, Shapes
<1>2. CASE Transfer
  <2>1. PICK b \in Branches :
          Become([account EXCEPT !.branch = b],
                 IF row.mine /\ Moving THEN [row EXCEPT !.home = b] ELSE row)
    BY <1>2 DEF Transfer
  <2>2. [account EXCEPT !.branch = b] \in Account
    BY <1>1 DEF Account
  <2>3. RowOK(IF row.mine /\ Moving THEN [row EXCEPT !.home = b] ELSE row)
    BY <1>1 DEF RowOK, Row, Moving, NoneApart
  <2> QED BY <2>1, <2>2, <2>3, BecomeOK
<1>3. CASE MoveRow
  <2>1. PICK b \in Branches : Become(account, [row EXCEPT !.home = b])
    BY <1>3 DEF MoveRow
  <2>2. RowOK([row EXCEPT !.home = b])
    BY <1>1, <1>3 DEF MoveRow, RowOK, Row, Moving, NoneApart
  <2> QED BY <1>1, <2>1, <2>2, BecomeOK
<1>4. CASE SwitchRole
  <2>1. PICK role \in Employees : Become([account EXCEPT !.role = role], row)
    BY <1>4 DEF SwitchRole
  <2>2. [account EXCEPT !.role = role] \in Account
    BY <1>1 DEF Account, Anyone
  <2> QED BY <1>1, <2>1, <2>2, BecomeOK
<1>5. CASE Deactivate
  <2>1. [account EXCEPT !.active = FALSE] \in Account
    BY <1>1 DEF Account
  <2> QED BY <1>1, <1>5, <2>1, BecomeOK DEF Deactivate
<1>6. CASE SetPersonal
  <2>1. PICK p \in BOOLEAN \cup {None} : Become([account EXCEPT !.personal = p], row)
    BY <1>6 DEF SetPersonal
  <2>2. [account EXCEPT !.personal = p] \in Account
    BY <1>1 DEF Account
  <2> QED BY <1>1, <2>1, <2>2, BecomeOK
<1>7. CASE ChangePassword
  <2>1. [account EXCEPT !.temp = FALSE] \in Account
    BY <1>1 DEF Account
  <2> QED BY <1>1, <1>7, <2>1, BecomeOK DEF ChangePassword
<1>8. CASE Remove
  <2>1. RowOK([row EXCEPT !.gone = TRUE])
    BY <1>1, <1>8 DEF Remove, RowOK, Row
  <2> QED BY <1>1, <1>8, <2>1, BecomeOK DEF Remove
<1> QED BY <1>2, <1>3, <1>4, <1>5, <1>6, <1>7, <1>8

(* A guard or the handler decides: what it lets pass it has looked at, and *)
(* what it refuses is not admitted for the account it read and the row.    *)
LEMMA DecideOK ==
  ASSUME NoneApart, DecisionInv, NEW ok, NEW step, NEW a, AsRead(a),
         Decide(ok, step, a),
         step \in InFlight \cup {"handled"},
         ok /\ step \in InFlight => Passed(step, a),
         ok /\ step = "handled" => \E r \in known.rows : Admits(a, r),
         ~ok => ~Admits(a, row)
  PROVE  DecisionInv'
<1>1. /\ UNCHANGED <<route, account, row, known>>
      /\ request' = [step |-> IF ok THEN step ELSE "refused", user |-> a]
  BY DEF Decide, Pass
<1>2. Shapes'
  BY <1>1 DEF DecisionInv, Shapes, RowOK, RefOK
<1>5. \A x : AsRead(x)' <=> AsRead(x)
  BY <1>1 DEF AsRead, buildRequestUser
<1>6. Began(request.step, request.user)'
  BY <1>1 DEF Began, InFlight
<1>3. (request.step \in InFlight => Passed(request.step, request.user))'
  <2>1. \A st, x : Passed(st, x)' <=> Passed(st, x)
    BY <1>1, <1>5 DEF Passed, JwtAuthGuard, RolesGuard, allows, judge
  <2>2. request'.step \in InFlight => ok /\ request'.step = step /\ request'.user = a
    BY <1>1 DEF InFlight
  <2> QED BY <2>1, <2>2 DEF InFlight
<1>4. DecidedAsKnown'
  <2>1. \A x, y : Admits(x, y)' <=> Admits(x, y)
    BY <1>1, AdmitsSame
  <2>2. \A x, y, z : buildRequestUser(x, y, z)' = buildRequestUser(x, y, z)
    BY DEF buildRequestUser
  <2>3. request'.step = "handled" => ok /\ step = "handled"
    BY <1>1
  <2>4. request'.step = "refused" => ~ok
    BY <1>1 DEF InFlight
  <2>5. row \in known.rows
    BY DEF DecisionInv, Shapes
  <2>6. /\ request'.step = "handled" => \E x : AsRead(x) /\ \E r \in known.rows : Admits(x, r)
        /\ request'.step = "refused" => \E x : AsRead(x) /\ \E r \in known.rows : ~Admits(x, r)
    BY <2>3, <2>4, <2>5
  <2>7. /\ request'.step = "handled" =>
             \E x, y, z \in known.accounts, r \in known.rows : Admits(buildRequestUser(x, y, z), r)
        /\ request'.step = "refused" =>
             \E x, y, z \in known.accounts, r \in known.rows : ~Admits(buildRequestUser(x, y, z), r)
    BY <2>6, Known
  <2>8. known' = known
    BY <1>1
  <2> QED BY <2>1, <2>2, <2>7, <2>8 DEF DecidedAsKnown
<1> QED BY <1>2, <1>3, <1>4, <1>6 DEF DecisionInv

(* The first two statements read a part each and decide nothing.           *)
LEMMA PartOK ==
  ASSUME DecisionInv, NEW step \in {"profile", "exceptions"}, NEW a, Pass(step, a),
         Began(step, a)
  PROVE  DecisionInv'
<1>1. /\ UNCHANGED <<route, account, row, known>>
      /\ request' = [step |-> step, user |-> a]
  BY DEF Pass
<1>2. Shapes'
  BY <1>1 DEF DecisionInv, Shapes, RowOK, RefOK
<1>3. Began(request.step, request.user)'
  BY <1>1 DEF Began
<1> QED BY <1>1, <1>2, <1>3 DEF DecisionInv, InFlight, DecidedAsKnown

LEMMA ReadAccountOK ==
  ASSUME DecisionInv, ReadAccount PROVE DecisionInv'
<1>1. account \in known.accounts
  BY DEF DecisionInv, Shapes
<1>2. Began("profile", buildRequestUser(account, Unread, Unread))
  BY <1>1 DEF Began
<1> QED BY <1>2, PartOK DEF ReadAccount

LEMMA ReadProfileOK ==
  ASSUME DecisionInv, ReadProfile PROVE DecisionInv'
<1> DEFINE a == buildRequestUser(request.user, account, Unread)
<1>1. PICK x \in known.accounts : request.user = buildRequestUser(x, Unread, Unread)
  BY DEF DecisionInv, Began, ReadProfile
<1>2. account \in known.accounts /\ x \in Account
  BY DEF DecisionInv, Shapes
<1>3. a = buildRequestUser(x, account, Unread)
  BY <1>1, <1>2 DEF Account, buildRequestUser, Unread
<1>4. Began("exceptions", a)
  BY <1>2, <1>3 DEF Began
<1> HIDE DEF a
<1>5. Pass("exceptions", a)
  BY DEF ReadProfile, a
<1> QED BY <1>4, <1>5, PartOK

LEMMA ReadExceptionsOK ==
  ASSUME NoneApart, DecisionInv, ReadExceptions PROVE DecisionInv'
<1> DEFINE a == buildRequestUser(request.user, request.user, account)
           ok == JwtAuthGuard(a) /\ RolesGuard(a) /\ enforceBranchParam(a)
           next == IF route.ref.way = "owner" THEN "owner" ELSE "permission"
<1>1. PICK x \in known.accounts, y \in known.accounts :
        request.user = buildRequestUser(x, y, Unread)
  BY DEF DecisionInv, Began, ReadExceptions
<1>2. account \in known.accounts /\ x \in Account /\ row \in known.rows /\ Shapes
  BY DEF DecisionInv, Shapes
<1>3. a = buildRequestUser(x, y, account)
  BY <1>1, <1>2 DEF Account, buildRequestUser, Unread
<1>4. AsRead(a)
  BY <1>2, <1>3 DEF AsRead
<1>5. Decide(ok, next, a)
  BY DEF ReadExceptions
<1> HIDE DEF a
<1>6. ok => Passed(next, a)
  BY <1>2, <1>4 DEF Passed, enforceBranchParam
<1>7. ~ok => ~Admits(a, row)
  BY <1>2, <1>4, AdmitsAgrees DEF enforceBranchParam
<1>8. next \in InFlight
  BY DEF InFlight
<1> HIDE DEF ok, next
<1> QED BY <1>2, <1>4, <1>5, <1>6, <1>7, <1>8, DecideOK DEF InFlight

LEMMA ReadOwnerOK ==
  ASSUME NoneApart, DecisionInv, ReadOwner PROVE DecisionInv'
<1> DEFINE a == request.user
           ok == ~row.gone /\ judge(a, row)
<1>1. row \in known.rows /\ Shapes /\ Passed("owner", a)
  BY DEF DecisionInv, Shapes, ReadOwner, InFlight
<1>2. AsRead(a) /\ route.ref.way = "owner"
  BY <1>1 DEF Passed
<1>3. ok => Passed("permission", a)
  BY <1>1, <1>2 DEF Passed
<1>4. ~ok => ~Admits(a, row)
  BY <1>1, <1>2, AdmitsAgrees
<1>5. Decide(ok, "permission", a)
  BY DEF ReadOwner
<1> HIDE DEF ok, a
<1> QED BY <1>2, <1>3, <1>4, <1>5, DecideOK DEF InFlight

LEMMA ReadPermissionOK ==
  ASSUME NoneApart, DecisionInv, ReadPermission PROVE DecisionInv'
<1> DEFINE a == request.user
<1>1. row \in known.rows /\ Shapes /\ Passed("permission", a)
  BY DEF DecisionInv, Shapes, ReadPermission, InFlight
<1>2. AsRead(a)
  BY <1>1 DEF Passed
<1>3. allows(a) => Passed("handler", a)
  BY <1>1 DEF Passed
<1>4. ~allows(a) => ~Admits(a, row)
  BY <1>1, <1>2, AdmitsAgrees
<1>5. Decide(allows(a), "handler", a)
  BY DEF ReadPermission
<1> HIDE DEF a
<1> QED BY <1>2, <1>3, <1>4, <1>5, DecideOK DEF InFlight

(* The row that was looked at earlier may have changed by now: a request   *)
(* that is handled is admitted for that one.                               *)
LEMMA HandleOK ==
  ASSUME NoneApart, DecisionInv, Handle PROVE DecisionInv'
<1> DEFINE a == request.user
<1>1. row \in known.rows /\ Shapes /\ Passed("handler", a)
  BY DEF DecisionInv, Shapes, Handle, InFlight
<1>2. AsRead(a)
  BY <1>1 DEF Passed
<1>3. ASSUME NEW r \in known.rows, route.ref.way = "owner" => ~r.gone,
             route.ref.way \in {"owner", "named"}, judge(a, r)
      PROVE  Admits(a, r)
  <2>1. JwtAuthGuard(a) /\ RolesGuard(a) /\ allows(a)
    BY <1>1 DEF Passed
  <2> QED BY <1>1, <1>2, <1>3, <2>1, AdmitsAgrees DEF Posting
<1>4. route.ref.way \in {"owner", "named"} => \E r \in known.rows : Admits(a, r)
  <2>1. route.ref.way \in {"owner", "named"} =>
          \E r \in known.rows : (route.ref.way = "owner" => ~r.gone) /\ judge(a, r)
    BY <1>1 DEF Passed
  <2> QED BY <1>3, <2>1
<1>5. route.ref.way \notin {"owner", "named"} => (InHandler(a) <=> Admits(a, row))
  <2>1. JwtAuthGuard(a) /\ RolesGuard(a) /\ allows(a) /\ RefOK(route.ref)
    BY <1>1 DEF Passed, Shapes
  <2> QED BY <1>1, <1>2, <2>1, AdmitsAgrees DEF InHandler, RefOK, Judging, Posting
<1>6. route.ref.way \in {"owner", "named"} => InHandler(a)
  BY DEF InHandler
<1>7. InHandler(a) => \E r \in known.rows : Admits(a, r)
  BY <1>1, <1>4, <1>5
<1>8. ~InHandler(a) => ~Admits(a, row)
  BY <1>5, <1>6
<1> DEFINE ok == InHandler(a)
<1>9. Decide(ok, "handled", a)
  BY DEF Handle
<1>10. (ok => \E r \in known.rows : Admits(a, r)) /\ (~ok => ~Admits(a, row))
  BY <1>7, <1>8
<1> HIDE DEF a, ok
<1> QED BY <1>2, <1>9, <1>10, DecideOK DEF InFlight

LEMMA SendOK ==
  ASSUME NoneApart, DecisionInv, Send PROVE DecisionInv'
<1>1. Shapes'
  BY DEF Send, DecisionInv, Shapes, RowOK, RefOK
<1> QED BY <1>1 DEF Send, DecisionInv, Began, InFlight, DecidedAsKnown

LEMMA StutterOK ==
  ASSUME DecisionInv, UNCHANGED vars PROVE DecisionInv'
<1>1. UNCHANGED <<route, account, row, request, known>>
  BY DEF vars
<1>2. Shapes'
  BY <1>1 DEF DecisionInv, Shapes, RowOK, RefOK
<1>3. \A x : AsRead(x)' <=> AsRead(x)
  BY <1>1 DEF AsRead, buildRequestUser
<1>4. Began(request.step, request.user)'
  BY <1>1 DEF DecisionInv, Began, buildRequestUser, Unread
<1>5. (request.step \in InFlight => Passed(request.step, request.user))'
  BY <1>1, <1>3 DEF DecisionInv, Passed, JwtAuthGuard, RolesGuard, allows, judge
<1>6. DecidedAsKnown'
  <2>1. \A x, y : Admits(x, y)' <=> Admits(x, y)
    BY <1>1, AdmitsSame
  <2>2. \A x, y, z : buildRequestUser(x, y, z)' = buildRequestUser(x, y, z)
    BY DEF buildRequestUser
  <2> QED BY <1>1, <2>1, <2>2 DEF DecisionInv, DecidedAsKnown
<1> QED BY <1>2, <1>4, <1>5, <1>6 DEF DecisionInv

-----------------------------------------------------------------------------
(* DecisionInv is inductive: what a request has passed was so for an       *)
(* account, in the parts it read, and a row it has met since it came.      *)
LEMMA StepOK ==
  ASSUME NoneApart, DecisionInv, [Next]_vars PROVE DecisionInv'
<1>1. CASE Transfer \/ MoveRow \/ SwitchRole \/ Deactivate \/ SetPersonal
           \/ ChangePassword \/ Remove
  BY <1>1, OthersOK
<1>2. CASE ReadAccount
  BY <1>2, ReadAccountOK
<1>8. CASE ReadProfile
  BY <1>8, ReadProfileOK
<1>9. CASE ReadExceptions
  BY <1>9, ReadExceptionsOK
<1>3. CASE ReadOwner
  BY <1>3, ReadOwnerOK
<1>4. CASE ReadPermission
  BY <1>4, ReadPermissionOK
<1>5. CASE Handle
  BY <1>5, HandleOK
<1>6. CASE Send
  BY <1>6, SendOK
<1>7. CASE UNCHANGED vars
  BY <1>7, StutterOK
<1> QED BY <1>1, <1>2, <1>3, <1>4, <1>5, <1>6, <1>7, <1>8, <1>9 DEF Next

THEOREM Invariance == ASSUME NoneApart PROVE Spec => []DecisionInv
<1>1. Init => DecisionInv
  BY InitOK
<1>2. DecisionInv /\ [Next]_vars => DecisionInv'
  BY StepOK
<1> QED BY <1>1, <1>2, PTL DEF Spec

(* Every request is handled, or refused, for an account and a row each     *)
(* part of which was so while it was under way, on every route of the      *)
(* table.                                                                  *)
THEOREM DecidedForWhatWas == ASSUME NoneApart PROVE Spec => []DecidedAsKnown
<1>1. DecisionInv => DecidedAsKnown
  BY DEF DecisionInv
<1> QED BY <1>1, Invariance, PTL
=============================================================================
