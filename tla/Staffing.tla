------------------------------- MODULE Staffing -------------------------------
(***************************************************************************)
(* Where the staff are dispatched and who looks after which member:        *)
(* StaffService (hire, assign, resign), BranchService.changeContractStatus *)
(* with the dispatches it ends, and MemberService (create, update) as far  *)
(* as it assigns a member to a person.                                     *)
(*                                                                         *)
(* As in Booking, one handler is one request in flight, a transaction's    *)
(* writes become visible with its commit, and the row locks it holds       *)
(* follow from the step it stands at.  A write that waits for another      *)
(* transaction's row lock is a step that is not enabled.                   *)
(***************************************************************************)
EXTENDS Integers, FiniteSets

CONSTANTS
  Staff,         (* people who are or may be hired                       *)
  Members,       (* members who are or may be registered                 *)
  Branches,
  Handlers,      (* requests that can be in flight at once               *)
  None,          (* a field that is not set                              *)
  MemberBranch,  (* Member.branchId                                      *)
  FirstStaff,    (* people dispatched to FirstBranch when we start       *)
  FirstMembers,  (* members registered when we start                     *)
  FirstBranch,
  Teachers,      (* the FirstStaff with an instructor profile there      *)
  ContractAsks   (* bound: the contract statuses headquarters asks for   *)

ContractStatus == {"ACTIVE", "RENEWAL_DUE", "EXPIRED", "TERMINATED"}

ASSUME StaffingAssumption ==
  /\ MemberBranch \in [Members -> Branches]
  /\ FirstStaff \subseteq Staff /\ Teachers \subseteq FirstStaff
  /\ FirstMembers \subseteq Members
  /\ FirstBranch \in Branches
  /\ ContractAsks \subseteq ContractStatus
  /\ None \notin Staff \cup Members \cup Branches

VARIABLES
  contract,   (* Branch.contractStatus                                   *)
  staff,      (* Staff rows, with Account.isActive of the person         *)
  open,       (* branches of a person's StaffAssignments without endDate *)
  teaches,    (* branch of the Instructor profile linked to a person     *)
  registered, (* the members that exist                                  *)
  assigned,   (* Member.assignedStaffId                                  *)
  reported,   (* whom a branch's last termination reported as waiting    *)
              (* for a new dispatch, in its answer and the audit log     *)
  txn

tables == <<contract, staff, open, teaches, registered, assigned, reported>>
vars == <<contract, staff, open, teaches, registered, assigned, reported, txn>>

Person == [status: {"ABSENT", "ACTIVE", "RESIGNED"},
           branch: Branches \cup {None},
           login: BOOLEAN]

HireSteps == {"hire_insert"}
MoveSteps == {"assign_branch", "assign_end", "assign_find", "assign_commit"}
ResignSteps == {"resign_end", "resign_find", "resign_commit"}
EndSteps == {"end_find", "end_update", "end_members", "end_commit"}
MemberSteps == {"member_write", "member_fk"}
RegisterSteps == {"register_insert", "register_fk"}
Steps == {"idle", "contract_set"} \cup HireSteps \cup MoveSteps \cup ResignSteps
           \cup EndSteps \cup MemberSteps \cup RegisterSteps

(* A request in flight: its arguments; the open rows it has ended; whose   *)
(* dispatches, and which members, the lists it read contain.               *)
Txn == [step: Steps,
        staff: Staff \cup {None},
        branch: Branches \cup {None},
        member: Members \cup {None},
        to: ContractStatus \cup {"NONE"},
        rows: SUBSET Branches,
        ended: SUBSET Staff,
        freed: SUBSET Members]
Idle == [step |-> "idle", staff |-> None, branch |-> None, member |-> None,
         to |-> "NONE", rows |-> {}, ended |-> {}, freed |-> {}]

-----------------------------------------------------------------------------
(* Locks.  Operators called Wrong... are versions with a plausible bug.    *)

WrongLocksStaff(h, s) == FALSE
WrongSharesBranch(h, b) ==
  txn[h].step \in HireSteps \cup RegisterSteps /\ txn[h].branch = b
WrongSharesBranchStaffOnly(h, b) ==
  txn[h].step \in HireSteps \cup (MoveSteps \ {"assign_branch"}) /\ txn[h].branch = b

(* lockStaff, lockBranchForShare and lockContract.                         *)
LocksStaff(h, s) == txn[h].step \in MoveSteps \cup ResignSteps /\ txn[h].staff = s
SharesBranch(h, b) ==
  /\ txn[h].step \in HireSteps \cup (MoveSteps \ {"assign_branch"}) \cup RegisterSteps
  /\ txn[h].branch = b
LocksBranch(h, b) ==
  txn[h].step \in {"contract_set"} \cup EndSteps /\ txn[h].branch = b

(* Written but not committed: a person's open dispatch, by the person's    *)
(* own transaction or by a termination; a member row waiting for the       *)
(* foreign key on the person assigned.                                     *)
MovesDispatch(h, s) ==
  /\ txn[h].step \in {"assign_find", "assign_commit", "resign_find", "resign_commit"}
  /\ txn[h].staff = s
EndsDispatch(h, s) ==
  txn[h].step \in {"end_members", "end_commit"} /\ s \in txn[h].ended
WritesMember(h, m) == txn[h].step = "member_fk" /\ txn[h].member = m

StaffFree(s) == \A g \in Handlers : ~LocksStaff(g, s)
BranchShareable(b) == \A g \in Handlers : ~LocksBranch(g, b)
MembersFree(M) == \A g \in Handlers, m \in M : ~WritesMember(g, m)

Start(h, t) == txn[h].step = "idle" /\ txn' = [txn EXCEPT ![h] = t] /\ UNCHANGED tables
Goto(h, to) == txn' = [txn EXCEPT ![h].step = to] /\ UNCHANGED tables
End(h) == txn' = [txn EXCEPT ![h] = Idle]
Refuse(h) == End(h) /\ UNCHANGED tables

-----------------------------------------------------------------------------
(* StaffService.hire: branch share-locked, then person, account and first  *)
(* dispatch in one go.                                                     *)
HireLock(h, s, b) ==
  /\ staff[s].status = "ABSENT"
  /\ \A g \in Handlers : ~(txn[g].step \in HireSteps /\ txn[g].staff = s)
  /\ BranchShareable(b) /\ contract[b] # "TERMINATED"
  /\ Start(h, [Idle EXCEPT !.step = "hire_insert", !.staff = s, !.branch = b])

HireInsert(h) ==
  LET s == txn[h].staff
      b == txn[h].branch
  IN  /\ txn[h].step = "hire_insert"
      /\ staff' = [staff EXCEPT ![s] =
           [status |-> "ACTIVE", branch |-> b, login |-> TRUE]]
      /\ open' = [open EXCEPT ![s] = {b}]
      /\ End(h)
      /\ UNCHANGED <<contract, teaches, registered, assigned, reported>>

-----------------------------------------------------------------------------
(* StaffService.assign                                                     *)

(* lockStaff, then the status under that lock.                             *)
AssignLock(h, s, b) ==
  /\ StaffFree(s) /\ staff[s].status = "ACTIVE"
  /\ Start(h, [Idle EXCEPT !.step = "assign_branch", !.staff = s, !.branch = b])

(* lockBranchForShare and the target's contract status; the branch the     *)
(* person leaves is not looked at.                                         *)
AssignShare(h) ==
  LET b == txn[h].branch
  IN  /\ txn[h].step = "assign_branch"
      /\ BranchShareable(b)
      /\ \/ contract[b] # "TERMINATED" /\ Goto(h, "assign_end")
         \/ contract[b] = "TERMINATED" /\ Refuse(h)

(* Ends the person's open dispatches; waits for a termination that has     *)
(* just done so.                                                           *)
AssignEnd(h) ==
  LET s == txn[h].staff
  IN  /\ txn[h].step = "assign_end"
      /\ \A g \in Handlers \ {h} : ~EndsDispatch(g, s) /\ ~MovesDispatch(g, s)
      /\ txn' = [txn EXCEPT ![h].step = "assign_find", ![h].rows = open[s]]
      /\ UNCHANGED tables

(* The members of other branches the person looks after.                   *)
AssignFind(h) ==
  LET t == txn[h]
  IN  /\ t.step = "assign_find"
      /\ txn' = [txn EXCEPT ![h].step = "assign_commit",
           ![h].freed = {m \in Members : /\ assigned[m] = t.staff
                                         /\ MemberBranch[m] # t.branch}]
      /\ UNCHANGED tables

Free(M) == [m \in Members |-> IF m \in M THEN None ELSE assigned[m]]

(* The trigger staff_branch_move refuses while a member of another branch  *)
(* is still assigned to the person.                                        *)
LeavesBehind(s, b, M) == \E m \in Members \ M : assigned[m] = s /\ MemberBranch[m] # b

WrongAssignCommitKeepsProfile(h) ==
  LET s == txn[h].staff
      b == txn[h].branch
  IN  /\ txn[h].step = "assign_commit"
      /\ open' = [open EXCEPT ![s] = {b}]
      /\ staff' = [staff EXCEPT ![s].branch = b]
      /\ assigned' = Free(txn[h].freed)
      /\ End(h)
      /\ UNCHANGED <<contract, teaches, registered, reported>>
WrongAssignCommitKeepsBranch(h) ==
  LET s == txn[h].staff
      b == txn[h].branch
  IN  /\ txn[h].step = "assign_commit"
      /\ open' = [open EXCEPT ![s] = {b}]
      /\ assigned' = Free(txn[h].freed)
      /\ End(h)
      /\ UNCHANGED <<contract, staff, teaches, registered, reported>>

(* Releases those members and the instructor profile, opens the new        *)
(* dispatch and moves the person.  A second open dispatch of one person    *)
(* would break a unique index.                                             *)
AssignCommit(h) ==
  LET t == txn[h]
      s == t.staff
      b == t.branch
      ok == open[s] \subseteq t.rows /\ ~LeavesBehind(s, b, t.freed)
  IN  /\ t.step = "assign_commit"
      /\ MembersFree(t.freed)
      /\ \/ /\ ok
            /\ open' = [open EXCEPT ![s] = {b}]
            /\ assigned' = Free(t.freed)
            /\ teaches' = [teaches EXCEPT ![s] = IF @ = b THEN b ELSE None]
            /\ staff' = [staff EXCEPT ![s].branch = b]
            /\ End(h)
            /\ UNCHANGED <<contract, registered, reported>>
         \/ ~ok /\ Refuse(h)

-----------------------------------------------------------------------------
(* StaffService.resign.  Headquarters may only do it at a terminated       *)
(* branch, its branch admin at any time, so any active person may go.      *)

ResignLock(h, s) ==
  /\ StaffFree(s) /\ staff[s].status = "ACTIVE"
  /\ Start(h, [Idle EXCEPT !.step = "resign_end", !.staff = s])

(* Person, account and open dispatches.                                    *)
ResignEnd(h) ==
  LET s == txn[h].staff
  IN  /\ txn[h].step = "resign_end"
      /\ \A g \in Handlers \ {h} : ~EndsDispatch(g, s) /\ ~MovesDispatch(g, s)
      /\ txn' = [txn EXCEPT ![h].step = "resign_find", ![h].rows = open[s]]
      /\ UNCHANGED tables

ResignFind(h) ==
  /\ txn[h].step = "resign_find"
  /\ txn' = [txn EXCEPT ![h].step = "resign_commit",
       ![h].freed = {m \in Members : assigned[m] = txn[h].staff}]
  /\ UNCHANGED tables

ResignCommit(h) ==
  LET t == txn[h]
      s == t.staff
  IN  /\ t.step = "resign_commit"
      /\ MembersFree(t.freed)
      /\ staff' = [staff EXCEPT ![s] =
           [@ EXCEPT !.status = "RESIGNED", !.login = FALSE]]
      /\ open' = [open EXCEPT ![s] = @ \ t.rows]
      /\ assigned' = Free(t.freed)
      /\ End(h)
      /\ UNCHANGED <<contract, teaches, registered, reported>>

-----------------------------------------------------------------------------
(* BranchService.changeContractStatus.  The termination agreement it asks  *)
(* for is taken as uploaded.                                               *)

ContractLock(h, b, to) ==
  /\ \A g \in Handlers : ~LocksBranch(g, b) /\ ~SharesBranch(g, b)
  /\ Start(h, [Idle EXCEPT
       !.step = IF to = "TERMINATED" /\ contract[b] # "TERMINATED"
                THEN "end_find" ELSE "contract_set",
       !.branch = b, !.to = to])

(* Restoring a terminated branch does not bring its dispatches back.       *)
ContractSet(h) ==
  /\ txn[h].step = "contract_set"
  /\ contract' = [contract EXCEPT ![txn[h].branch] = txn[h].to]
  /\ End(h)
  /\ UNCHANGED <<staff, open, teaches, registered, assigned, reported>>

(* endAssignmentsAtTerminatedBranch: the open dispatches of the branch,    *)
(* read without locking the people ...                                     *)
EndFind(h) ==
  LET b == txn[h].branch
  IN  /\ txn[h].step = "end_find"
      /\ txn' = [txn EXCEPT ![h].step = "end_update",
                            ![h].ended = {s \in Staff : b \in open[s]}]
      /\ UNCHANGED tables

(* ... ended by their ids, whoever else has ended them meanwhile ...       *)
EndUpdate(h) ==
  /\ txn[h].step = "end_update"
  /\ \A g \in Handlers, s \in txn[h].ended : ~MovesDispatch(g, s)
  /\ Goto(h, "end_members")

(* ... the members those people look after, wherever they are ...          *)
EndMembers(h) ==
  /\ txn[h].step = "end_members"
  /\ txn' = [txn EXCEPT ![h].step = "end_commit",
       ![h].freed = {m \in Members : assigned[m] \in txn[h].ended}]
  /\ UNCHANGED tables

WrongEndCommit(h) ==
  LET t == txn[h]
  IN  /\ t.step = "end_commit"
      /\ MembersFree(t.freed)
      /\ contract' = [contract EXCEPT ![t.branch] = "TERMINATED"]
      /\ assigned' = Free(t.freed)
      /\ reported' = [reported EXCEPT ![t.branch] = t.ended]
      /\ End(h)
      /\ UNCHANGED <<staff, open, teaches, registered>>

(* ... released, the instructor profiles unlinked, and everyone on the     *)
(* list reported.                                                          *)
EndCommit(h) ==
  LET t == txn[h]
      b == t.branch
  IN  /\ t.step = "end_commit"
      /\ MembersFree(t.freed)
      /\ contract' = [contract EXCEPT ![b] = "TERMINATED"]
      /\ open' = [s \in Staff |-> IF s \in t.ended THEN open[s] \ {b} ELSE open[s]]
      /\ teaches' = [s \in Staff |-> IF s \in t.ended THEN None ELSE teaches[s]]
      /\ assigned' = Free(t.freed)
      /\ reported' = [reported EXCEPT ![b] = t.ended]
      /\ End(h)
      /\ UNCHANGED <<staff, registered>>

-----------------------------------------------------------------------------
(* MemberService.update with an assignedStaffId; None takes it away.       *)

(* assertStaffInBranch looks at the branch of the person, nothing else.    *)
InBranch(s, b) == s # None => staff[s].branch = b

AssignMember(h, m, s) ==
  /\ m \in registered
  /\ InBranch(s, MemberBranch[m])
  /\ Start(h, [Idle EXCEPT !.step = "member_write", !.member = m, !.staff = s])

(* The UPDATE: the trigger member_assigned_staff_branch checks the branch  *)
(* again; a changed reference must then wait for whoever has the person    *)
(* locked (the foreign key takes FOR KEY SHARE).                           *)
MemberWrite(h) ==
  LET m == txn[h].member
      s == txn[h].staff
  IN  /\ txn[h].step = "member_write"
      /\ MembersFree({m})
      /\ \/ ~InBranch(s, MemberBranch[m]) /\ Refuse(h)
         \/ /\ InBranch(s, MemberBranch[m])
            /\ \/ s # None /\ s # assigned[m] /\ Goto(h, "member_fk")
               \/ /\ s = None \/ s = assigned[m]
                  /\ assigned' = [assigned EXCEPT ![m] = s]
                  /\ End(h)
                  /\ UNCHANGED <<contract, staff, open, teaches, registered, reported>>

MemberFk(h) ==
  /\ txn[h].step = "member_fk"
  /\ StaffFree(txn[h].staff)
  /\ assigned' = [assigned EXCEPT ![txn[h].member] = txn[h].staff]
  /\ End(h)
  /\ UNCHANGED <<contract, staff, open, teaches, registered, reported>>

(* MemberService.create and register: branch share-locked, the person's    *)
(* branch checked, then the INSERT with the same trigger and foreign key.  *)
Register(h, m, s) ==
  /\ m \notin registered
  /\ \A g \in Handlers : ~(txn[g].step \in RegisterSteps /\ txn[g].member = m)
  /\ LET b == MemberBranch[m]
     IN  /\ BranchShareable(b) /\ contract[b] # "TERMINATED"
         /\ InBranch(s, b)
         /\ Start(h, [Idle EXCEPT !.step = "register_insert", !.member = m,
                                  !.staff = s, !.branch = b])

RegisterInsert(h) ==
  /\ txn[h].step = "register_insert"
  /\ \/ InBranch(txn[h].staff, txn[h].branch) /\ Goto(h, "register_fk")
     \/ ~InBranch(txn[h].staff, txn[h].branch) /\ Refuse(h)

RegisterFk(h) ==
  /\ txn[h].step = "register_fk"
  /\ StaffFree(txn[h].staff)
  /\ registered' = registered \cup {txn[h].member}
  /\ assigned' = [assigned EXCEPT ![txn[h].member] = txn[h].staff]
  /\ End(h)
  /\ UNCHANGED <<contract, staff, open, teaches, reported>>

-----------------------------------------------------------------------------
(* The request dies with everything it wrote: instance, connection or a    *)
(* transaction timeout, or PostgreSQL picks it to break a deadlock.        *)
Abort(h) == txn[h].step # "idle" /\ Refuse(h)

Init ==
  /\ contract = [b \in Branches |-> "ACTIVE"]
  /\ staff = [s \in Staff |->
       IF s \in FirstStaff
       THEN [status |-> "ACTIVE", branch |-> FirstBranch, login |-> TRUE]
       ELSE [status |-> "ABSENT", branch |-> None, login |-> FALSE]]
  /\ open = [s \in Staff |-> IF s \in FirstStaff THEN {FirstBranch} ELSE {}]
  /\ teaches = [s \in Staff |-> IF s \in Teachers THEN FirstBranch ELSE None]
  /\ registered = FirstMembers
  /\ assigned = [m \in Members |-> None]
  /\ reported = [b \in Branches |-> {}]
  /\ txn = [h \in Handlers |-> Idle]

Arrive(h) ==
  \/ \E s \in Staff, b \in Branches : HireLock(h, s, b) \/ AssignLock(h, s, b)
  \/ \E s \in Staff : ResignLock(h, s)
  \/ \E b \in Branches, to \in ContractAsks : ContractLock(h, b, to)
  \/ \E m \in Members, s \in Staff \cup {None} :
       AssignMember(h, m, s) \/ Register(h, m, s)

Proceed(h) ==
  \/ HireInsert(h)
  \/ AssignShare(h) \/ AssignEnd(h) \/ AssignFind(h) \/ AssignCommit(h)
  \/ ResignEnd(h) \/ ResignFind(h) \/ ResignCommit(h)
  \/ ContractSet(h) \/ EndFind(h) \/ EndUpdate(h) \/ EndMembers(h) \/ EndCommit(h)
  \/ MemberWrite(h) \/ MemberFk(h) \/ RegisterInsert(h) \/ RegisterFk(h)

Next == \E h \in Handlers : Arrive(h) \/ Proceed(h) \/ Abort(h)

Spec == Init /\ [][Next]_vars

-----------------------------------------------------------------------------
(* Every variable keeps its shape.                                         *)
TypeOK ==
  /\ contract \in [Branches -> ContractStatus]
  /\ staff \in [Staff -> Person]
  /\ open \in [Staff -> SUBSET Branches]
  /\ teaches \in [Staff -> Branches \cup {None}]
  /\ registered \in SUBSET Members
  /\ assigned \in [Members -> Staff \cup {None}]
  /\ reported \in [Branches -> SUBSET Staff]
  /\ txn \in [Handlers -> Txn]

(* D1: a person's open dispatch, of which there is at most one, is at the  *)
(* branch Staff.branchId caches, whatever transfers and terminations race  *)
(* (ADR-STF-01).                                                           *)
OpenAtHome == \A s \in Staff : open[s] \subseteq {staff[s].branch}

(* D2, D3: whoever resigned has no open dispatch and no active account,    *)
(* even when a dispatch was under way (ADR-STF-01, D70).                   *)
ResignedIsGone ==
  \A s \in Staff : staff[s].status = "RESIGNED" => open[s] = {} /\ ~staff[s].login

(* D4: nobody is dispatched to a branch whose contract is terminated       *)
(* (ADR-STF-07).                                                           *)
NoOpenAtTerminated ==
  \A s \in Staff : \A b \in open[s] : contract[b] # "TERMINATED"

(* A linked instructor profile is at its person's branch (ADR-STF-04).     *)
TeachesAtHome == \A s \in Staff : teaches[s] \in {staff[s].branch, None}

-----------------------------------------------------------------------------
(* The inductive invariant behind these.                                   *)

(* A request refers to rows that are there.                                *)
RequestsPlaced ==
  \A h \in Handlers : LET t == txn[h] IN
    /\ t.step \in HireSteps =>
         /\ t.staff \in Staff /\ t.branch \in Branches
         /\ \A g \in Handlers :
              txn[g].step \in HireSteps /\ txn[g].staff = t.staff => g = h
    /\ t.step \in MoveSteps => t.staff \in Staff /\ t.branch \in Branches
    /\ t.step \in ResignSteps => t.staff \in Staff
    /\ t.step \in EndSteps \cup {"contract_set"} => t.branch \in Branches
    /\ t.step = "contract_set" => t.to \in ContractStatus
    /\ t.step \in MemberSteps \cup RegisterSteps => t.member \in Members
    /\ t.step \in RegisterSteps => t.branch = MemberBranch[t.member]

(* Nobody is dispatched, and nothing taught, before being hired.           *)
StrangersIdle ==
  \A s \in Staff : staff[s].status = "ABSENT" => open[s] = {} /\ teaches[s] = None

(* No two transactions hold locks that exclude each other.                 *)
LocksExclude ==
  \A g, h \in Handlers :
    /\ \A s \in Staff : LocksStaff(g, s) /\ LocksStaff(h, s) => g = h
    /\ \A b \in Branches :
         LocksBranch(g, b) /\ (LocksBranch(h, b) \/ SharesBranch(h, b)) => g = h

(* What a transaction read under its locks is still so when it uses it:    *)
(* the person is employed, the branch it sends them to is not terminated,  *)
(* it has ended every open dispatch, a termination finds its contract not  *)
(* yet terminated and has everyone dispatched there on its list.           *)
ReadsHold ==
  \A h \in Handlers : LET t == txn[h] IN
    /\ t.step \in HireSteps => staff[t.staff].status = "ABSENT"
    /\ t.step \in MoveSteps \cup ResignSteps => staff[t.staff].status = "ACTIVE"
    /\ t.step \in HireSteps \cup (MoveSteps \ {"assign_branch"}) \cup RegisterSteps =>
         contract[t.branch] # "TERMINATED"
    /\ t.step \in {"assign_find", "assign_commit", "resign_find", "resign_commit"} =>
         open[t.staff] \subseteq t.rows
    /\ t.step \in {"end_update", "end_members", "end_commit"} =>
         \A s \in Staff : t.branch \in open[s] => s \in t.ended
    /\ t.step \in EndSteps => contract[t.branch] # "TERMINATED"
    /\ t.step = "contract_set" /\ t.to = "TERMINATED" =>
         contract[t.branch] = "TERMINATED"

StaffingInv ==
  /\ TypeOK /\ RequestsPlaced /\ StrangersIdle /\ LocksExclude /\ ReadsHold
  /\ OpenAtHome /\ ResignedIsGone /\ NoOpenAtTerminated /\ TeachesAtHome

-----------------------------------------------------------------------------
(* A resignation is final: no dispatch, transfer or hire that was under    *)
(* way changes the person's row or gives them a dispatch again.            *)
ResignedStays ==
  [][\A s \in Staff : staff[s].status = "RESIGNED" =>
       staff'[s] = staff[s] /\ open'[s] = {}]_vars

(* No member is registered at a branch whose contract is terminated, even  *)
(* when the termination commits while the registration runs (D70).         *)
NoRegistrationAtTerminated ==
  [][\A m \in registered' \ registered :
       contract[MemberBranch[m]] # "TERMINATED"]_vars

(* Everyone who is dispatched to a branch when it becomes terminated is on *)
(* the list of people to dispatch anew that the termination answers and    *)
(* audits, although it reads the dispatches without locking the people     *)
(* (ADR-STF-07).                                                           *)
EndedAreReported ==
  [][\A b \in Branches :
       /\ contract[b] # "TERMINATED" /\ contract'[b] = "TERMINATED"
       => \A s \in Staff : b \in open[s] => s \in reported'[b]]_vars

(* Seen from outside, hiring, transfers, resignations and terminations     *)
(* happen one at a time and each at once: every step is an entry of the    *)
(* roster, or changes nothing there.                                       *)
Roster == INSTANCE DispatchRoster
RosterSpec == Roster!Spec

-----------------------------------------------------------------------------
(* DI-02: a member's assigned person is of the member's branch.  A         *)
(* transfer and an assignment that overlap each miss the other's write.    *)
AssignedSameBranch ==
  \A m \in Members : InBranch(assigned[m], MemberBranch[m])
=============================================================================
