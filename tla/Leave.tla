--------------------------------- MODULE Leave ---------------------------------
(***************************************************************************)
(* AttendanceService: leave requests, their review, and the annual leave   *)
(* they use up.  Every row belongs to one person and no statement relates  *)
(* two people, so the module is about one person.  Days are numbers.       *)
(* Requests and approvals are transactions, whose writes appear in their   *)
(* last step; a rejection is one statement.                                *)
(***************************************************************************)
EXTENDS Integers, FiniteSets, FiniteSetsExt

CONSTANTS
  Days,
  Leaves,      (* ids of leave requests                                    *)
  LeaveAsks,   (* [type, first, last] of what may be requested             *)
  Handlers, None

VARIABLES
  year,    (* the year today is in: 1, then 2                              *)
  leave,   (* LeaveRequest rows                                            *)
  used,    (* LeaveBalance.usedDays by year; no row counts as 0            *)
  txn
vars == <<year, leave, used, txn>>

LeaveRow == [state: {"ABSENT", "PENDING", "APPROVED", "REJECTED"},
             type: {"ANNUAL", "SICK", None}, first: Days, last: Days]
NoLeave == [state |-> "ABSENT", type |-> None,
            first |-> Min(Days), last |-> Min(Days)]
Asked(ask) == [state |-> "PENDING", type |-> ask.type, first |-> ask.first, last |-> ask.last]

Txn == [step: {"idle", "request_insert", "approve_review", "approve_deduct"},
        leave: Leaves \cup {None}, ask: LeaveRow]
Idle == [step |-> "idle", leave |-> None, ask |-> NoLeave]

Begin(h, t) == txn[h].step = "idle" /\ txn' = [txn EXCEPT ![h] = t]
Goto(h, to) == txn' = [txn EXCEPT ![h].step = to]
End(h) == txn' = [txn EXCEPT ![h] = Idle]

(* Row locks: the person, and the request while its approval is under way. *)
LocksStaff(h) == txn[h].step \in {"request_insert", "approve_review", "approve_deduct"}
LocksLeave(h, r) == txn[h].step = "approve_deduct" /\ txn[h].leave = r
WrongStaffFree == TRUE
StaffFree == \A h \in Handlers : ~LocksStaff(h)
LeaveFree(r) == \A h \in Handlers : ~LocksLeave(h, r)

-----------------------------------------------------------------------------
(* assertNoOverlappingLeave                                                *)
Clashes(first, last, states, except) ==
  \E r \in Leaves \ {except} :
    /\ leave[r].state \in states
    /\ leave[r].first <= last /\ leave[r].last >= first

(* requestLeave: under the person's lock; a balance that does not suffice  *)
(* is only a warning.                                                      *)
Request(h, ask) ==
  /\ StaffFree
  /\ ~Clashes(ask.first, ask.last, {"PENDING", "APPROVED"}, None)
  /\ Begin(h, [Idle EXCEPT !.step = "request_insert", !.ask = Asked(ask)])
  /\ UNCHANGED <<year, leave, used>>

RequestInsert(h, r) ==
  /\ txn[h].step = "request_insert"
  /\ leave[r].state = "ABSENT"
  /\ leave' = [leave EXCEPT ![r] = txn[h].ask]
  /\ End(h)
  /\ UNCHANGED <<year, used>>

(* approveLeaveRequest: under the person's lock, no other approved leave   *)
(* may overlap ...                                                         *)
Approve(h, r) ==
  /\ leave[r].state # "ABSENT"
  /\ StaffFree
  /\ ~Clashes(leave[r].first, leave[r].last, {"APPROVED"}, r)
  /\ Begin(h, [Idle EXCEPT !.step = "approve_review", !.leave = r])
  /\ UNCHANGED <<year, leave, used>>

WrongApproveReview(h) ==
  /\ txn[h].step = "approve_review"
  /\ LeaveFree(txn[h].leave)
  /\ Goto(h, "approve_deduct")
  /\ UNCHANGED <<year, leave, used>>

(* ... the request must still be pending, and stays locked ...             *)
ApproveReview(h) ==
  LET r == txn[h].leave
  IN  /\ txn[h].step = "approve_review"
      /\ LeaveFree(r)
      /\ \/ leave[r].state = "PENDING" /\ Goto(h, "approve_deduct")
         \/ leave[r].state # "PENDING" /\ End(h)
      /\ UNCHANGED <<year, leave, used>>

(* ... and annual leave is taken off the balance of the current year.      *)
Length(r) == leave[r].last - leave[r].first + 1
ApproveDeduct(h) ==
  LET r == txn[h].leave
  IN  /\ txn[h].step = "approve_deduct"
      /\ leave' = [leave EXCEPT ![r].state = "APPROVED"]
      /\ used' = IF leave[r].type = "ANNUAL"
                 THEN [used EXCEPT ![year] = @ + Length(r)] ELSE used
      /\ End(h)
      /\ UNCHANGED year

WrongReject(r) ==
  /\ LeaveFree(r)
  /\ leave[r].state = "PENDING"
  /\ leave' = [leave EXCEPT ![r].state = "REJECTED"]
  /\ used' = [used EXCEPT ![year] = @ - Length(r)]
  /\ UNCHANGED <<year, txn>>

(* rejectLeaveRequest: one conditional statement.                          *)
Reject(r) ==
  /\ LeaveFree(r)
  /\ leave[r].state = "PENDING"
  /\ leave' = [leave EXCEPT ![r].state = "REJECTED"]
  /\ UNCHANGED <<year, used, txn>>

-----------------------------------------------------------------------------
NewYear ==
  /\ year = 1
  /\ year' = 2
  /\ UNCHANGED <<leave, used, txn>>

(* An error, a timeout or a crash rolls the transaction back.              *)
Abort(h) ==
  /\ txn[h].step # "idle"
  /\ End(h)
  /\ UNCHANGED <<year, leave, used>>

(* Before the rule of ADR-ATT-05, pending requests could overlap: any set  *)
(* of requests may be there already.                                       *)
Init ==
  /\ year = 1
  /\ leave \in [Leaves -> {NoLeave} \cup {Asked(a) : a \in LeaveAsks}]
  /\ used = [y \in 1..2 |-> 0]
  /\ txn = [h \in Handlers |-> Idle]

Next ==
  \/ \E h \in Handlers :
       \/ (\E ask \in LeaveAsks : Request(h, ask))
       \/ (\E r \in Leaves : RequestInsert(h, r) \/ Approve(h, r))
       \/ ApproveReview(h) \/ ApproveDeduct(h) \/ Abort(h)
  \/ \E r \in Leaves : Reject(r)
  \/ NewYear

Spec == Init /\ [][Next]_vars

-----------------------------------------------------------------------------
(* Every variable keeps its shape.                                         *)
TypeOK ==
  /\ year \in 1..2
  /\ leave \in [Leaves -> LeaveRow]
  /\ used \in [1..2 -> Nat]
  /\ txn \in [Handlers -> Txn]

(* Nobody is on two approved leaves at once, although pending requests may *)
(* overlap and two managers approve them at once (ADR-ATT-05).             *)
NoOverlap ==
  \A q, r \in Leaves :
    q # r /\ leave[q].state = "APPROVED" /\ leave[r].state = "APPROVED"
    => leave[q].last < leave[r].first \/ leave[r].last < leave[q].first

(* The balance is charged one day for each day the person is granted on    *)
(* annual leave, and for no other: approvals and rejections that race,     *)
(* approvals repeated, and sick leave included (ADR-ATT-01).               *)
AwayDays == UNION {leave[r].first..leave[r].last :
  r \in {q \in Leaves : leave[q].state = "APPROVED" /\ leave[q].type = "ANNUAL"}}
UsedAgrees == used[1] + used[2] = Cardinality(AwayDays)
=============================================================================
