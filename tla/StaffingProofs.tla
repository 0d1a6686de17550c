---------------------------- MODULE StaffingProofs ----------------------------
(***************************************************************************)
(* Proofs about Staffing, for every set of people, members, branches and   *)
(* requests in flight.                                                     *)
(***************************************************************************)
EXTENDS Staffing, TLAPS

LEMMA IdleIsTxn == Idle \in Txn /\ Idle.step = "idle"
BY DEF Idle, Txn, Steps

(* A request keeps its shape through each kind of transaction step.        *)
LEMMA StartType ==
  ASSUME TypeOK, NEW h \in Handlers, NEW t \in Txn, Start(h, t)
  PROVE  TypeOK'
BY DEF TypeOK, Start, tables

LEMMA EndType ==
  ASSUME TypeOK, NEW h \in Handlers, End(h)
  PROVE  txn' \in [Handlers -> Txn]
BY IdleIsTxn DEF TypeOK, End

LEMMA GotoType ==
  ASSUME TypeOK, NEW h \in Handlers, NEW to \in Steps, Goto(h, to)
  PROVE  TypeOK'
BY SMTT(30) DEF TypeOK, Goto, Txn, tables

LEMMA RefuseType == ASSUME TypeOK, NEW h \in Handlers, Refuse(h) PROVE TypeOK'
BY EndType DEF TypeOK, Refuse, tables

(* Releasing members keeps the shape of Member.assignedStaffId.            *)
LEMMA FreeType ==
  ASSUME TypeOK, NEW M
  PROVE  Free(M) \in [Members -> Staff \cup {None}]
BY DEF Free, TypeOK

(* The type invariant is inductive for each arriving request ...           *)
LEMMA ArriveType ==
  ASSUME TypeOK, NEW h \in Handlers, Arrive(h)
  PROVE  TypeOK'
<1> USE StaffingAssumption
<1>1. ASSUME NEW s \in Staff, NEW b \in Branches, HireLock(h, s, b) \/ AssignLock(h, s, b)
      PROVE  TypeOK'
  <2>1. \A st \in {"hire_insert", "assign_branch"} :
          [Idle EXCEPT !.step = st, !.staff = s, !.branch = b] \in Txn
    BY DEF Idle, Txn, Steps, HireSteps, MoveSteps
  <2> QED BY <1>1, <2>1, StartType DEF HireLock, AssignLock
<1>2. ASSUME NEW s \in Staff, ResignLock(h, s)  PROVE TypeOK'
  <2>1. [Idle EXCEPT !.step = "resign_end", !.staff = s] \in Txn
    BY DEF Idle, Txn, Steps, ResignSteps
  <2> QED BY <1>2, <2>1, StartType DEF ResignLock
<1>3. ASSUME NEW b \in Branches, NEW to \in ContractAsks, ContractLock(h, b, to)
      PROVE  TypeOK'
  <2>1. \A st \in {"end_find", "contract_set"} :
          [Idle EXCEPT !.step = st, !.branch = b, !.to = to] \in Txn
    BY DEF Idle, Txn, Steps, EndSteps
  <2> QED BY <1>3, <2>1, StartType DEF ContractLock
<1>4. ASSUME NEW m \in Members, NEW s \in Staff \cup {None},
             AssignMember(h, m, s) \/ Register(h, m, s)
      PROVE  TypeOK'
  <2>1. [Idle EXCEPT !.step = "member_write", !.member = m, !.staff = s] \in Txn
    BY DEF Idle, Txn, Steps, MemberSteps
  <2>2. [Idle EXCEPT !.step = "register_insert", !.member = m, !.staff = s,
                     !.branch = MemberBranch[m]] \in Txn
    BY DEF Idle, Txn, Steps, RegisterSteps
  <2> QED BY <1>4, <2>1, <2>2, StartType DEF AssignMember, Register
<1> QED BY <1>1, <1>2, <1>3, <1>4 DEF Arrive

(* ... for each step of a request in flight ...                            *)
LEMMA ProceedType ==
  ASSUME TypeOK, RequestsPlaced, NEW h \in Handlers, Proceed(h)
  PROVE  TypeOK'
<1> USE StaffingAssumption
<1> DEFINE t == txn[h]
<1>0. /\ t \in Txn /\ t.staff \in Staff \cup {None} /\ t.branch \in Branches \cup {None}
      /\ t.member \in Members \cup {None}
  BY DEF TypeOK, Txn
<1>1. CASE AssignShare(h) \/ EndUpdate(h) \/ RegisterInsert(h)
  <2>1. {"assign_end", "end_members", "register_fk"} \subseteq Steps
    BY DEF Steps, MoveSteps, EndSteps, RegisterSteps
  <2> QED BY <1>1, <2>1, GotoType, RefuseType DEF AssignShare, EndUpdate, RegisterInsert
<1>2. CASE AssignEnd(h) \/ ResignEnd(h)
  <2>1. open[t.staff] \in SUBSET Branches
    BY <1>2 DEF AssignEnd, ResignEnd, RequestsPlaced, MoveSteps, ResignSteps, TypeOK
  <2>2. \A st \in {"assign_find", "resign_find"} :
          [t EXCEPT !.step = st, !.rows = open[t.staff]] \in Txn
    BY <1>0, <2>1 DEF Txn, Steps, MoveSteps, ResignSteps
  <2>3. \E st \in {"assign_find", "resign_find"} :
          txn' = [txn EXCEPT ![h] = [t EXCEPT !.step = st, !.rows = open[t.staff]]]
    BY <1>2 DEF AssignEnd, ResignEnd, TypeOK
  <2> QED BY <1>2, <2>2, <2>3 DEF AssignEnd, ResignEnd, TypeOK, tables
<1>3. CASE AssignFind(h) \/ ResignFind(h) \/ EndMembers(h)
  <2>1. \A st \in {"assign_commit", "resign_commit", "end_commit"}, M \in SUBSET Members :
          [t EXCEPT !.step = st, !.freed = M] \in Txn
    BY <1>0 DEF Txn, Steps, MoveSteps, ResignSteps, EndSteps
  <2>2. \E st \in {"assign_commit", "resign_commit", "end_commit"}, M \in SUBSET Members :
          txn' = [txn EXCEPT ![h] = [t EXCEPT !.step = st, !.freed = M]]
    <3>1. CASE AssignFind(h)
      BY <3>1 DEF AssignFind, TypeOK
    <3>2. CASE ResignFind(h)
      BY <3>2 DEF ResignFind, TypeOK
    <3>3. CASE EndMembers(h)
      BY <3>3 DEF EndMembers, TypeOK
    <3> QED BY <1>3, <3>1, <3>2, <3>3
  <2>3. UNCHANGED tables
    BY <1>3 DEF AssignFind, ResignFind, EndMembers
  <2>4. PICK st \in {"assign_commit", "resign_commit", "end_commit"},
             M \in SUBSET Members :
          txn' = [txn EXCEPT ![h] = [t EXCEPT !.step = st, !.freed = M]]
    BY <2>2
  <2>5. [t EXCEPT !.step = st, !.freed = M] \in Txn
    BY <2>1
  <2>6. txn' \in [Handlers -> Txn]
    BY <2>4, <2>5 DEF TypeOK
  <2> QED BY <2>3, <2>6 DEF TypeOK, tables
<1>4. CASE EndFind(h)
  <2>1. \A S \in SUBSET Staff : [t EXCEPT !.step = "end_update", !.ended = S] \in Txn
    BY <1>0 DEF Txn, Steps, EndSteps
  <2>2. txn' = [txn EXCEPT ![h] = [t EXCEPT !.step = "end_update",
                  !.ended = {s \in Staff : t.branch \in open[s]}]]
    BY <1>4 DEF EndFind, TypeOK
  <2>3. {s \in Staff : t.branch \in open[s]} \in SUBSET Staff
    OBVIOUS
  <2>4. txn' \in [Handlers -> Txn]
    BY <2>1, <2>2, <2>3 DEF TypeOK
  <2> QED BY <1>4, <2>4 DEF EndFind, TypeOK, tables
<1>5. CASE HireInsert(h)
  <2>1. t.staff \in Staff /\ t.branch \in Branches
    BY <1>5 DEF HireInsert, RequestsPlaced, HireSteps
  <2>2. [status |-> "ACTIVE", branch |-> t.branch, login |-> TRUE] \in Person
    BY <2>1 DEF Person
  <2> QED BY <1>5, <2>1, <2>2, EndType DEF HireInsert, TypeOK
<1>6. CASE AssignCommit(h)
  <2>1. CASE Refuse(h)
    BY <2>1, RefuseType
  <2>2. CASE ~Refuse(h)
    <3>1. t.staff \in Staff /\ t.branch \in Branches
      BY <1>6 DEF AssignCommit, RequestsPlaced, MoveSteps
    <3>2. \A s \in Staff : [staff[s] EXCEPT !.branch = t.branch] \in Person
      BY <3>1 DEF TypeOK, Person
    <3>3. staff' \in [Staff -> Person]
      BY <1>6, <2>2, <3>2 DEF AssignCommit, TypeOK
    <3>4. teaches' \in [Staff -> Branches \cup {None}]
      BY <1>6, <2>2, <3>1 DEF AssignCommit, TypeOK
    <3> QED BY <1>6, <2>2, <3>1, <3>3, <3>4, EndType, FreeType DEF AssignCommit, TypeOK
  <2> QED BY <2>1, <2>2
<1>7. CASE ResignCommit(h)
  <2>1. \A s \in Staff : [staff[s] EXCEPT !.status = "RESIGNED", !.login = FALSE] \in Person
    BY ZenonT(60) DEF TypeOK, Person
  <2>2. staff' = [staff EXCEPT ![t.staff] =
          [staff[t.staff] EXCEPT !.status = "RESIGNED", !.login = FALSE]]
    BY <1>7 DEF ResignCommit
  <2>3. staff' \in [Staff -> Person]
    BY <2>1, <2>2 DEF TypeOK
  <2>4. open' \in [Staff -> SUBSET Branches]
    BY <1>7 DEF ResignCommit, TypeOK
  <2> QED BY <1>7, <2>3, <2>4, EndType, FreeType DEF ResignCommit, TypeOK
<1>8. CASE ContractSet(h)
  <2>1. t.to \in ContractStatus
    BY <1>8 DEF ContractSet, RequestsPlaced
  <2> QED BY <1>8, <2>1, EndType DEF ContractSet, TypeOK
<1>9. CASE EndCommit(h)
  <2>1. t.ended \in SUBSET Staff
    BY <1>0 DEF Txn
  <2>2. open' \in [Staff -> SUBSET Branches] /\ teaches' \in [Staff -> Branches \cup {None}]
    BY <1>9 DEF EndCommit, TypeOK
  <2>3. contract' \in [Branches -> ContractStatus] /\ reported' \in [Branches -> SUBSET Staff]
    BY <1>9, <2>1 DEF EndCommit, TypeOK, ContractStatus
  <2> QED BY <1>9, <2>2, <2>3, EndType, FreeType DEF EndCommit, TypeOK
<1>10. CASE MemberWrite(h)
  <2>1. "member_fk" \in Steps
    BY DEF Steps, MemberSteps
  <2>2. CASE Refuse(h) \/ Goto(h, "member_fk")
    BY <2>1, <2>2, RefuseType, GotoType
  <2>3. CASE End(h) /\ ~Refuse(h) /\ ~Goto(h, "member_fk")
    BY <1>0, <1>10, <2>3, EndType DEF MemberWrite, TypeOK
  <2> QED BY <1>10, <2>2, <2>3 DEF MemberWrite
<1>11. CASE MemberFk(h)
  BY <1>0, <1>11, EndType DEF MemberFk, TypeOK
<1>12. CASE RegisterFk(h)
  <2>1. t.member \in Members
    BY <1>12 DEF RegisterFk, RequestsPlaced, RegisterSteps
  <2> QED BY <1>0, <1>12, <2>1, EndType DEF RegisterFk, TypeOK
<1> QED
  BY <1>1, <1>2, <1>3, <1>4, <1>5, <1>6, <1>7, <1>8, <1>9, <1>10, <1>11, <1>12
  DEF Proceed

(* ... and for aborts and idle steps.                                      *)
LEMMA NextType ==
  ASSUME TypeOK, RequestsPlaced, [Next]_vars
  PROVE  TypeOK'
<1>1. CASE UNCHANGED vars
  BY <1>1 DEF vars, TypeOK
<1>2. ASSUME NEW h \in Handlers, Abort(h)  PROVE TypeOK'
  BY <1>2, RefuseType DEF Abort
<1> QED BY <1>1, <1>2, ArriveType, ProceedType DEF Next

-----------------------------------------------------------------------------
(* What a step can do to contracts, people, dispatches and profiles.       *)

Quiet == UNCHANGED <<contract, staff, open, teaches>>

Hired(h, s, b) ==
  /\ txn[h].step = "hire_insert" /\ txn[h].staff = s /\ txn[h].branch = b
  /\ staff[s].status = "ABSENT" /\ contract[b] # "TERMINATED"
  /\ staff' = [staff EXCEPT ![s] = [status |-> "ACTIVE", branch |-> b, login |-> TRUE]]
  /\ open' = [open EXCEPT ![s] = {b}]
  /\ UNCHANGED <<contract, teaches>>

Moved(h, s, b) ==
  /\ txn[h].step = "assign_commit" /\ txn[h].staff = s /\ txn[h].branch = b
  /\ staff[s].status = "ACTIVE" /\ contract[b] # "TERMINATED"
  /\ staff' = [staff EXCEPT ![s].branch = b]
  /\ open' = [open EXCEPT ![s] = {b}]
  /\ teaches' = [teaches EXCEPT ![s] = IF @ = b THEN b ELSE None]
  /\ UNCHANGED contract

Left(h, s) ==
  /\ txn[h].step = "resign_commit" /\ txn[h].staff = s
  /\ staff[s].status = "ACTIVE"
  /\ staff' = [staff EXCEPT ![s] = [@ EXCEPT !.status = "RESIGNED", !.login = FALSE]]
  /\ open' = [open EXCEPT ![s] = {}]
  /\ UNCHANGED <<contract, teaches>>

Recontracted(h, b) ==
  /\ txn[h].step = "contract_set" /\ txn[h].branch = b
  /\ txn[h].to = "TERMINATED" => contract[b] = "TERMINATED"
  /\ contract' = [contract EXCEPT ![b] = txn[h].to]
  /\ UNCHANGED <<staff, open, teaches>>

Closed(h, b) ==
  /\ txn[h].step = "end_commit" /\ txn[h].branch = b
  /\ contract[b] # "TERMINATED"
  /\ contract' = [contract EXCEPT ![b] = "TERMINATED"]
  /\ open' = [s \in Staff |-> open[s] \ {b}]
  /\ teaches' = [s \in Staff |-> IF s \in txn[h].ended THEN None ELSE teaches[s]]
  /\ UNCHANGED staff

Written(h) ==
  \/ \E s \in Staff, b \in Branches : Hired(h, s, b) \/ Moved(h, s, b)
  \/ \E s \in Staff : Left(h, s)
  \/ \E b \in Branches : Recontracted(h, b) \/ Closed(h, b)

(* Every step of a request leaves these tables alone, or is a commit that  *)
(* ends the request.                                                       *)
LEMMA StepEffect ==
  ASSUME StaffingInv, NEW h \in Handlers, Arrive(h) \/ Proceed(h) \/ Abort(h)
  PROVE  Quiet \/ (Written(h) /\ End(h))
<1> USE DEF StaffingInv
<1>1. CASE Refuse(h)
  BY <1>1 DEF Refuse, tables, Quiet
<1>2. CASE Arrive(h) \/ Abort(h)
  <2>1. UNCHANGED tables
    BY <1>2 DEF Arrive, Abort, HireLock, AssignLock, ResignLock, ContractLock,
                AssignMember, Register, Start, Refuse
  <2> QED BY <2>1 DEF tables, Quiet
<1>3. CASE AssignShare(h) \/ AssignEnd(h) \/ AssignFind(h) \/ ResignEnd(h)
            \/ ResignFind(h) \/ EndFind(h) \/ EndUpdate(h) \/ EndMembers(h)
            \/ MemberWrite(h) \/ MemberFk(h) \/ RegisterInsert(h) \/ RegisterFk(h)
  BY <1>3 DEF AssignShare, AssignEnd, AssignFind, ResignEnd, ResignFind, EndFind,
              EndUpdate, EndMembers, MemberWrite, MemberFk, RegisterInsert,
              RegisterFk, Goto, Refuse, tables, Quiet
<1>4. CASE HireInsert(h)
  <2>1. /\ txn[h].staff \in Staff /\ txn[h].branch \in Branches
        /\ staff[txn[h].staff].status = "ABSENT"
        /\ contract[txn[h].branch] # "TERMINATED"
    BY <1>4 DEF HireInsert, RequestsPlaced, ReadsHold, HireSteps
  <2>2. Hired(h, txn[h].staff, txn[h].branch) /\ End(h)
    BY <1>4, <2>1 DEF HireInsert, Hired
  <2> QED BY <2>1, <2>2 DEF Written
<1>5. CASE AssignCommit(h) /\ ~Refuse(h)
  <2>1. /\ txn[h].staff \in Staff /\ txn[h].branch \in Branches
        /\ staff[txn[h].staff].status = "ACTIVE"
        /\ contract[txn[h].branch] # "TERMINATED"
    BY <1>5 DEF AssignCommit, RequestsPlaced, ReadsHold, MoveSteps
  <2>2. Moved(h, txn[h].staff, txn[h].branch) /\ End(h)
    BY <1>5, <2>1 DEF AssignCommit, Moved
  <2> QED BY <2>1, <2>2 DEF Written
<1>6. CASE ResignCommit(h)
  <2>1. /\ txn[h].staff \in Staff
        /\ staff[txn[h].staff].status = "ACTIVE"
        /\ open[txn[h].staff] \subseteq txn[h].rows
    BY <1>6 DEF ResignCommit, RequestsPlaced, ReadsHold, ResignSteps
  <2>2. open[txn[h].staff] \ txn[h].rows = {}
    BY <2>1
  <2>3. open' = [open EXCEPT ![txn[h].staff] = {}]
    BY <1>6, <2>2 DEF ResignCommit
  <2>4. Left(h, txn[h].staff) /\ End(h)
    BY <1>6, <2>1, <2>3 DEF ResignCommit, Left
  <2> QED BY <2>1, <2>4 DEF Written
<1>7. CASE ContractSet(h)
  <2>1. txn[h].branch \in Branches
    BY <1>7 DEF ContractSet, RequestsPlaced
  <2>2. Recontracted(h, txn[h].branch) /\ End(h)
    BY <1>7 DEF ContractSet, ReadsHold, Recontracted
  <2> QED BY <2>1, <2>2 DEF Written
<1>8. CASE EndCommit(h)
  <2>1. txn[h].branch \in Branches /\ contract[txn[h].branch] # "TERMINATED"
    BY <1>8 DEF EndCommit, RequestsPlaced, ReadsHold, EndSteps
  <2>2. \A s \in Staff : txn[h].branch \in open[s] => s \in txn[h].ended
    BY <1>8 DEF EndCommit, ReadsHold
  <2>3. open' = [s \in Staff |-> open[s] \ {txn[h].branch}]
    <3>1. \A s \in Staff :
            (IF s \in txn[h].ended THEN open[s] \ {txn[h].branch} ELSE open[s])
              = open[s] \ {txn[h].branch}
      BY <2>2
    <3> QED BY <1>8, <3>1 DEF EndCommit
  <2>4. Closed(h, txn[h].branch) /\ End(h)
    BY <1>8, <2>1, <2>3 DEF EndCommit, Closed
  <2> QED BY <2>1, <2>4 DEF Written
<1> QED BY <1>1, <1>2, <1>3, <1>4, <1>5, <1>6, <1>7, <1>8 DEF Proceed

(* The same, row by row.                                                   *)
LEMMA RowEffect ==
  ASSUME StaffingInv, NEW h \in Handlers, Written(h), NEW p \in Staff
  PROVE  \/ /\ \/ \E b \in Branches : Hired(h, p, b) \/ Moved(h, p, b)
               \/ Left(h, p)
            /\ contract' = contract
         \/ /\ \/ \E s \in Staff \ {p} :
                    \/ \E b \in Branches : Hired(h, s, b) \/ Moved(h, s, b)
                    \/ Left(h, s)
               \/ \E b \in Branches : Recontracted(h, b)
            /\ staff'[p] = staff[p] /\ open'[p] = open[p] /\ teaches'[p] = teaches[p]
         \/ \E b \in Branches : /\ Closed(h, b)
                                /\ staff'[p] = staff[p] /\ open'[p] = open[p] \ {b}
                                /\ teaches'[p] \in {teaches[p], None}
<1> USE DEF StaffingInv, TypeOK
<1>1. ASSUME NEW s \in Staff, NEW b \in Branches, Hired(h, s, b) \/ Moved(h, s, b)
      PROVE  /\ contract' = contract
             /\ s # p => staff'[p] = staff[p] /\ open'[p] = open[p]
                           /\ teaches'[p] = teaches[p]
  BY <1>1 DEF Hired, Moved
<1>2. ASSUME NEW s \in Staff, Left(h, s)
      PROVE  /\ contract' = contract
             /\ s # p => staff'[p] = staff[p] /\ open'[p] = open[p]
                           /\ teaches'[p] = teaches[p]
  BY <1>2 DEF Left
<1>3. ASSUME NEW b \in Branches, Recontracted(h, b)
      PROVE  staff'[p] = staff[p] /\ open'[p] = open[p] /\ teaches'[p] = teaches[p]
  BY <1>3 DEF Recontracted
<1>4. ASSUME NEW b \in Branches, Closed(h, b)
      PROVE  staff'[p] = staff[p] /\ open'[p] = open[p] \ {b}
               /\ teaches'[p] \in {teaches[p], None}
  BY <1>4 DEF Closed
<1> QED BY <1>1, <1>2, <1>3, <1>4 DEF Written

-----------------------------------------------------------------------------
(* The facts about single people survive every such commit.                *)
RowFacts(p) ==
  /\ open[p] \subseteq {staff[p].branch}
  /\ staff[p].status = "RESIGNED" => open[p] = {} /\ ~staff[p].login
  /\ teaches[p] \in {staff[p].branch, None}
  /\ staff[p].status = "ABSENT" => open[p] = {} /\ teaches[p] = None

LEMMA RowFactsInv ==
  OpenAtHome /\ ResignedIsGone /\ TeachesAtHome /\ StrangersIdle
    <=> \A p \in Staff : RowFacts(p)
BY DEF OpenAtHome, ResignedIsGone, TeachesAtHome, StrangersIdle, RowFacts

LEMMA RowFactsKept ==
  ASSUME StaffingInv, NEW h \in Handlers, Quiet \/ Written(h), NEW p \in Staff
  PROVE  RowFacts(p)'
<1>0. RowFacts(p) /\ TypeOK
  BY RowFactsInv DEF StaffingInv
<1>1. CASE Quiet
  BY <1>0, <1>1 DEF Quiet, RowFacts
<1>2. ASSUME NEW b \in Branches, Hired(h, p, b)  PROVE RowFacts(p)'
  BY <1>0, <1>2 DEF Hired, RowFacts, TypeOK
<1>3. ASSUME NEW b \in Branches, Moved(h, p, b)  PROVE RowFacts(p)'
  <2>1. staff[p] \in Person
    BY <1>0 DEF TypeOK
  <2>2. staff'[p].status = "ACTIVE" /\ staff'[p].branch = b /\ open'[p] = {b}
    BY <1>0, <1>3, <2>1 DEF Moved, TypeOK, Person
  <2>3. teaches'[p] \in {b, None}
    BY <1>0, <1>3 DEF Moved, TypeOK
  <2> QED BY <2>2, <2>3 DEF RowFacts
<1>4. CASE Left(h, p)
  <2>1. staff[p] \in Person
    BY <1>0 DEF TypeOK
  <2>2. /\ staff'[p].status = "RESIGNED" /\ staff'[p].branch = staff[p].branch
        /\ ~staff'[p].login /\ open'[p] = {} /\ teaches'[p] = teaches[p]
    BY <1>0, <1>4, <2>1 DEF Left, TypeOK, Person
  <2> QED BY <1>0, <2>2 DEF RowFacts
<1>5. CASE staff'[p] = staff[p] /\ open'[p] = open[p] /\ teaches'[p] = teaches[p]
  BY <1>0, <1>5 DEF RowFacts
<1>6. ASSUME NEW b \in Branches,
             staff'[p] = staff[p], open'[p] = open[p] \ {b},
             teaches'[p] \in {teaches[p], None}
      PROVE  RowFacts(p)'
  BY <1>0, <1>6 DEF RowFacts
<1> QED BY <1>1, <1>2, <1>3, <1>4, <1>5, <1>6, RowEffect

(* Nobody ends up dispatched to a terminated branch: a dispatch opens only *)
(* at a branch under contract, and a termination ends all that are there.  *)
LEMMA NoOpenKept ==
  ASSUME StaffingInv, NEW h \in Handlers, Quiet \/ Written(h)
  PROVE  NoOpenAtTerminated'
<1> USE DEF StaffingInv, TypeOK
<1> SUFFICES ASSUME NEW p \in Staff, NEW b \in open'[p]
             PROVE  contract'[b] # "TERMINATED"
  BY DEF NoOpenAtTerminated
<1>1. CASE Quiet
  BY <1>1 DEF Quiet, NoOpenAtTerminated
<1>2. ASSUME NEW d \in Branches, Hired(h, p, d) \/ Moved(h, p, d)
      PROVE  contract'[b] # "TERMINATED"
  BY <1>2 DEF Hired, Moved
<1>3. CASE Left(h, p)
  BY <1>3 DEF Left
<1>4. CASE open'[p] = open[p] /\ contract' = contract
  BY <1>4 DEF NoOpenAtTerminated
<1>5. ASSUME NEW d \in Branches, Recontracted(h, d), open'[p] = open[p]
      PROVE  contract'[b] # "TERMINATED"
  <2>1. b \in open[p] /\ b \in Branches /\ contract[b] # "TERMINATED"
    BY <1>5 DEF NoOpenAtTerminated
  <2>2. CASE b = d
    BY <1>5, <2>1, <2>2 DEF Recontracted
  <2>3. CASE b # d
    BY <1>5, <2>1, <2>3 DEF Recontracted
  <2> QED BY <2>2, <2>3
<1>6. ASSUME NEW d \in Branches, Closed(h, d), open'[p] = open[p] \ {d}
      PROVE  contract'[b] # "TERMINATED"
  <2>1. b \in open[p] /\ b # d /\ contract[b] # "TERMINATED"
    BY <1>6 DEF NoOpenAtTerminated
  <2> QED BY <1>6, <2>1 DEF Closed
<1>7. \A s \in Staff, d \in Branches :
        Hired(h, s, d) \/ Moved(h, s, d) \/ Left(h, s) => contract' = contract
  BY DEF Hired, Moved, Left
<1> QED BY <1>1, <1>2, <1>3, <1>4, <1>5, <1>6, <1>7, RowEffect

-----------------------------------------------------------------------------
(* What a step does to the request itself, and what it has found.          *)

Begun(t) ==
  \/ /\ t.step = "hire_insert" /\ t.staff \in Staff /\ t.branch \in Branches
     /\ staff[t.staff].status = "ABSENT" /\ contract[t.branch] # "TERMINATED"
     /\ BranchShareable(t.branch)
     /\ \A g \in Handlers : ~(txn[g].step \in HireSteps /\ txn[g].staff = t.staff)
  \/ /\ t.step = "assign_branch" /\ t.staff \in Staff /\ t.branch \in Branches
     /\ staff[t.staff].status = "ACTIVE" /\ StaffFree(t.staff)
  \/ /\ t.step = "resign_end" /\ t.staff \in Staff
     /\ staff[t.staff].status = "ACTIVE" /\ StaffFree(t.staff)
  \/ /\ t.step \in {"end_find", "contract_set"} /\ t.branch \in Branches
     /\ t.to \in ContractStatus
     /\ t.step = "end_find" => contract[t.branch] # "TERMINATED"
     /\ t.step = "contract_set" /\ t.to = "TERMINATED" =>
          contract[t.branch] = "TERMINATED"
     /\ \A g \in Handlers : ~LocksBranch(g, t.branch) /\ ~SharesBranch(g, t.branch)
  \/ t.step = "member_write" /\ t.member \in Members
  \/ /\ t.step = "register_insert" /\ t.member \in Members
     /\ t.branch = MemberBranch[t.member] /\ contract[t.branch] # "TERMINATED"
     /\ BranchShareable(t.branch)

Advanced(t, u) ==
  /\ u.staff = t.staff /\ u.branch = t.branch /\ u.member = t.member /\ u.to = t.to
  /\ \/ /\ t.step = "assign_branch" /\ u.step = "assign_end"
        /\ BranchShareable(t.branch) /\ contract[t.branch] # "TERMINATED"
     \/ t.step = "assign_end" /\ u.step = "assign_find" /\ u.rows = open[t.staff]
     \/ t.step = "assign_find" /\ u.step = "assign_commit" /\ u.rows = t.rows
     \/ t.step = "resign_end" /\ u.step = "resign_find" /\ u.rows = open[t.staff]
     \/ t.step = "resign_find" /\ u.step = "resign_commit" /\ u.rows = t.rows
     \/ /\ t.step = "end_find" /\ u.step = "end_update"
        /\ u.ended = {s \in Staff : t.branch \in open[s]}
     \/ t.step = "end_update" /\ u.step = "end_members" /\ u.ended = t.ended
     \/ t.step = "end_members" /\ u.step = "end_commit" /\ u.ended = t.ended
     \/ t.step = "member_write" /\ u.step = "member_fk"
     \/ t.step = "register_insert" /\ u.step = "register_fk"

LEMMA Others ==
  ASSUME TypeOK, NEW h \in Handlers, Arrive(h) \/ Proceed(h) \/ Abort(h)
  PROVE  \A g \in Handlers \ {h} : txn'[g] = txn[g]
<1>1. CASE \E t : txn' = [txn EXCEPT ![h] = t]
  BY <1>1 DEF TypeOK
<1>2. CASE End(h) \/ \E st : Goto(h, st)
  BY <1>1, <1>2 DEF End, Goto, TypeOK
<1>3. CASE Arrive(h)
  BY <1>1, <1>3 DEF Arrive, HireLock, AssignLock, ResignLock, ContractLock,
                    AssignMember, Register, Start
<1>4. CASE AssignEnd(h) \/ AssignFind(h)
  BY <1>4 DEF AssignEnd, AssignFind, TypeOK
<1>5. CASE ResignEnd(h) \/ ResignFind(h)
  BY <1>5 DEF ResignEnd, ResignFind, TypeOK
<1>6. CASE EndFind(h) \/ EndMembers(h)
  BY <1>6 DEF EndFind, EndMembers, TypeOK
<1>7. CASE Abort(h)
  BY <1>2, <1>7 DEF Abort, Refuse
<1> HIDE DEF End, Goto
<1>8. CASE Proceed(h) /\ ~AssignEnd(h) /\ ~AssignFind(h) /\ ~ResignEnd(h)
             /\ ~ResignFind(h) /\ ~EndFind(h) /\ ~EndMembers(h)
  BY <1>2, <1>8
  DEF Proceed, HireInsert, AssignShare, AssignCommit, ResignCommit, ContractSet,
      EndUpdate, EndCommit, MemberWrite, MemberFk, RegisterInsert, RegisterFk, Refuse
<1> QED BY <1>3, <1>4, <1>5, <1>6, <1>7, <1>8

LEMMA Begins ==
  ASSUME TypeOK, NEW h \in Handlers, Arrive(h)
  PROVE  UNCHANGED tables /\ Begun(txn'[h])
<1> USE StaffingAssumption DEF TypeOK
<1>1. ASSUME NEW s \in Staff, NEW b \in Branches, HireLock(h, s, b) \/ AssignLock(h, s, b)
      PROVE  UNCHANGED tables /\ Begun(txn'[h])
  <2>1. CASE HireLock(h, s, b)
    <3>1. /\ txn'[h].step = "hire_insert" /\ txn'[h].staff = s /\ txn'[h].branch = b
          /\ UNCHANGED tables
      BY <2>1 DEF HireLock, Start, Idle
    <3> QED BY <2>1, <3>1 DEF HireLock, Begun
  <2>2. CASE AssignLock(h, s, b)
    <3>1. /\ txn'[h].step = "assign_branch" /\ txn'[h].staff = s /\ txn'[h].branch = b
          /\ UNCHANGED tables
      BY <2>2 DEF AssignLock, Start, Idle
    <3> QED BY <2>2, <3>1 DEF AssignLock, Begun
  <2> QED BY <1>1, <2>1, <2>2
<1>2. ASSUME NEW s \in Staff, ResignLock(h, s)  PROVE UNCHANGED tables /\ Begun(txn'[h])
  BY <1>2 DEF ResignLock, Start, Begun, Idle
<1>3. ASSUME NEW b \in Branches, NEW to \in ContractAsks, ContractLock(h, b, to)
      PROVE  UNCHANGED tables /\ Begun(txn'[h])
  BY <1>3 DEF ContractLock, Start, Begun, Idle
<1>4. ASSUME NEW m \in Members, NEW s \in Staff \cup {None},
             AssignMember(h, m, s) \/ Register(h, m, s)
      PROVE  UNCHANGED tables /\ Begun(txn'[h])
  <2>1. CASE AssignMember(h, m, s)
    <3>1. txn'[h].step = "member_write" /\ txn'[h].member = m /\ UNCHANGED tables
      BY <2>1 DEF AssignMember, Start, Idle
    <3> QED BY <2>1, <3>1 DEF AssignMember, Begun
  <2>2. CASE Register(h, m, s)
    <3>1. /\ txn'[h].step = "register_insert" /\ txn'[h].member = m
          /\ txn'[h].branch = MemberBranch[m] /\ UNCHANGED tables
      BY <2>2 DEF Register, Start, Idle
    <3> QED BY <2>2, <3>1 DEF Register, Begun
  <2> QED BY <1>4, <2>1, <2>2
<1> QED BY <1>1, <1>2, <1>3, <1>4 DEF Arrive

LEMMA Advances ==
  ASSUME TypeOK, NEW h \in Handlers, Proceed(h) \/ Abort(h)
  PROVE  \/ End(h) /\ txn'[h] = Idle
         \/ UNCHANGED tables /\ Advanced(txn[h], txn'[h])
<1> USE DEF TypeOK
<1>1. CASE End(h)
  BY <1>1 DEF End
<1>2. CASE AssignShare(h) \/ EndUpdate(h) \/ MemberWrite(h) \/ RegisterInsert(h)
  <2>1. txn[h] \in Txn
    OBVIOUS
  <2>3. ASSUME NEW st, Goto(h, st)
        PROVE  /\ txn'[h].step = st /\ txn'[h].staff = txn[h].staff
               /\ txn'[h].branch = txn[h].branch /\ txn'[h].member = txn[h].member
               /\ txn'[h].to = txn[h].to /\ txn'[h].ended = txn[h].ended
               /\ UNCHANGED tables
    <3>1. txn'[h] = [txn[h] EXCEPT !.step = st] /\ UNCHANGED tables
      BY <2>3 DEF Goto
    <3> QED BY <2>1, <3>1 DEF Txn
  <2> HIDE DEF Goto, TypeOK
  <2>4. CASE AssignShare(h)
    BY <1>1, <2>3, <2>4 DEF AssignShare, Refuse, Advanced
  <2>5. CASE EndUpdate(h)
    BY <1>1, <2>3, <2>5 DEF EndUpdate, Refuse, Advanced
  <2>6. CASE MemberWrite(h)
    BY <1>1, <2>3, <2>6 DEF MemberWrite, Refuse, Advanced
  <2>7. CASE RegisterInsert(h)
    BY <1>1, <2>3, <2>7 DEF RegisterInsert, Refuse, Advanced
  <2> QED BY <1>2, <2>4, <2>5, <2>6, <2>7
<1>3. CASE AssignEnd(h) \/ ResignEnd(h)
  BY <1>3 DEF AssignEnd, ResignEnd, Advanced, Txn
<1>4. CASE AssignFind(h) \/ ResignFind(h)
  BY <1>4 DEF AssignFind, ResignFind, Advanced, Txn
<1>5. CASE EndFind(h) \/ EndMembers(h)
  BY <1>5 DEF EndFind, EndMembers, Advanced, Txn
<1> QED
  BY <1>1, <1>2, <1>3, <1>4, <1>5
  DEF Proceed, Abort, Refuse, HireInsert, AssignCommit, ResignCommit, ContractSet,
      EndCommit, MemberFk, RegisterFk

-----------------------------------------------------------------------------
(* The three facts about requests survive every step of a request.         *)

LEMMA PlacedKept ==
  ASSUME StaffingInv, NEW h \in Handlers, Arrive(h) \/ Proceed(h) \/ Abort(h)
  PROVE  RequestsPlaced'
<1> DEFINE Placed(t) ==
      /\ t.step \in HireSteps => t.staff \in Staff /\ t.branch \in Branches
      /\ t.step \in MoveSteps => t.staff \in Staff /\ t.branch \in Branches
      /\ t.step \in ResignSteps => t.staff \in Staff
      /\ t.step \in EndSteps \cup {"contract_set"} => t.branch \in Branches
      /\ t.step = "contract_set" => t.to \in ContractStatus
      /\ t.step \in MemberSteps \cup RegisterSteps => t.member \in Members
      /\ t.step \in RegisterSteps => t.branch = MemberBranch[t.member]
<1> USE DEF HireSteps, MoveSteps, ResignSteps, EndSteps, MemberSteps, RegisterSteps
<1>1. TypeOK /\ RequestsPlaced /\ Placed(txn[h])
  BY DEF StaffingInv, RequestsPlaced
<1>2. \A g \in Handlers \ {h} : txn'[g] = txn[g]
  BY <1>1, Others
<1>3. Placed(txn'[h])
  <2>1. CASE Arrive(h)
    <3>1. Begun(txn'[h])
      BY <1>1, <2>1, Begins
    <3> QED BY <3>1 DEF Begun
  <2>2. CASE Proceed(h) \/ Abort(h)
    <3>1. CASE txn'[h] = Idle
      BY <3>1 DEF Idle
    <3>2. CASE Advanced(txn[h], txn'[h])
      BY <1>1, <3>2 DEF Advanced
    <3> QED BY <1>1, <2>2, <3>1, <3>2, Advances
  <2> QED BY <2>1, <2>2
<1>4. txn'[h].step \in HireSteps =>
        \A g \in Handlers : ~(txn[g].step \in HireSteps /\ txn[g].staff = txn'[h].staff)
  <2>1. CASE Arrive(h)
    <3>1. Begun(txn'[h])
      BY <1>1, <2>1, Begins
    <3> QED BY <3>1 DEF Begun
  <2>2. CASE Proceed(h) \/ Abort(h)
    <3>1. txn'[h] = Idle \/ Advanced(txn[h], txn'[h])
      BY <1>1, <2>2, Advances
    <3> QED BY <3>1 DEF Advanced, Idle
  <2> QED BY <2>1, <2>2
<1>5. \A k, g \in Handlers :
        /\ txn'[k].step \in HireSteps /\ txn'[g].step \in HireSteps
        /\ txn'[g].staff = txn'[k].staff
        => g = k
  BY <1>1, <1>2, <1>4 DEF RequestsPlaced
<1>6. \A k \in Handlers : Placed(txn'[k])
  BY <1>1, <1>2, <1>3 DEF RequestsPlaced
<1> QED BY <1>5, <1>6 DEF RequestsPlaced

(* A lock is taken only where nothing excludes it.                         *)
LEMMA LocksTaken ==
  ASSUME TypeOK, NEW h \in Handlers, Arrive(h) \/ Proceed(h) \/ Abort(h)
  PROVE  /\ \A s \in Staff : LocksStaff(h, s)' => LocksStaff(h, s) \/ StaffFree(s)
         /\ \A b \in Branches : LocksBranch(h, b)' =>
              \/ LocksBranch(h, b)
              \/ \A g \in Handlers : ~LocksBranch(g, b) /\ ~SharesBranch(g, b)
         /\ \A b \in Branches : SharesBranch(h, b)' =>
              SharesBranch(h, b) \/ BranchShareable(b)
<1> USE DEF HireSteps, MoveSteps, ResignSteps, EndSteps, MemberSteps, RegisterSteps,
            LocksStaff, LocksBranch, SharesBranch
<1>1. CASE Arrive(h)
  <2>1. Begun(txn'[h])
    BY <1>1, Begins
  <2>2. CASE txn'[h].step = "hire_insert"
    BY <2>1, <2>2 DEF Begun
  <2>3. CASE txn'[h].step \in {"assign_branch", "resign_end"}
    BY <2>1, <2>3 DEF Begun
  <2>4. CASE txn'[h].step \in {"end_find", "contract_set"}
    BY <2>1, <2>4 DEF Begun
  <2>5. CASE txn'[h].step \in {"member_write", "register_insert"}
    BY <2>1, <2>5 DEF Begun
  <2> QED BY <2>1, <2>2, <2>3, <2>4, <2>5 DEF Begun
<1>2. CASE Proceed(h) \/ Abort(h)
  <2>1. CASE txn'[h] = Idle
    BY <2>1 DEF Idle
  <2>2. CASE Advanced(txn[h], txn'[h])
    BY <2>2 DEF Advanced
  <2> QED BY <1>2, <2>1, <2>2, Advances
<1> QED BY <1>1, <1>2

LEMMA LocksKept ==
  ASSUME StaffingInv, NEW h \in Handlers, Arrive(h) \/ Proceed(h) \/ Abort(h)
  PROVE  LocksExclude'
<1>1. TypeOK /\ LocksExclude
  BY DEF StaffingInv
<1>2. \A g \in Handlers \ {h} : txn'[g] = txn[g]
  BY <1>1, Others
<1>3. \A g \in Handlers \ {h} :
        /\ \A s \in Staff : LocksStaff(g, s)' <=> LocksStaff(g, s)
        /\ \A b \in Branches : /\ LocksBranch(g, b)' <=> LocksBranch(g, b)
                               /\ SharesBranch(g, b)' <=> SharesBranch(g, b)
  BY <1>2 DEF LocksStaff, LocksBranch, SharesBranch
<1>4. \A f, g \in Handlers, s \in Staff :
        LocksStaff(f, s)' /\ LocksStaff(g, s)' => f = g
  BY <1>1, <1>3, LocksTaken DEF LocksExclude, StaffFree
<1>5. \A f, g \in Handlers, b \in Branches :
        LocksBranch(f, b)' /\ (LocksBranch(g, b)' \/ SharesBranch(g, b)') => f = g
  <2>1. \A g \in Handlers, b \in Branches :
          ~(LocksBranch(g, b)' /\ SharesBranch(g, b)' )
    BY DEF LocksBranch, SharesBranch, HireSteps, MoveSteps, EndSteps, RegisterSteps
  <2>2. \A b \in Branches : LocksBranch(h, b)' =>
              \/ LocksBranch(h, b)
              \/ \A g \in Handlers : ~LocksBranch(g, b) /\ ~SharesBranch(g, b)
    BY <1>1, LocksTaken
  <2>3. \A b \in Branches : SharesBranch(h, b)' =>
              SharesBranch(h, b) \/ \A g \in Handlers : ~LocksBranch(g, b)
    BY <1>1, LocksTaken DEF BranchShareable
  <2> QED BY <1>1, <1>3, <2>1, <2>2, <2>3 DEF LocksExclude
<1> QED BY <1>4, <1>5 DEF LocksExclude

(* What one request has read under its locks.                              *)
Read(t) ==
  /\ t.step \in HireSteps => staff[t.staff].status = "ABSENT"
  /\ t.step \in MoveSteps \cup ResignSteps => staff[t.staff].status = "ACTIVE"
  /\ t.step \in HireSteps \cup (MoveSteps \ {"assign_branch"}) \cup RegisterSteps =>
       contract[t.branch] # "TERMINATED"
  /\ t.step \in {"assign_find", "assign_commit", "resign_find", "resign_commit"} =>
       open[t.staff] \subseteq t.rows
  /\ t.step \in {"end_update", "end_members", "end_commit"} =>
       \A s \in Staff : t.branch \in open[s] => s \in t.ended
  /\ t.step \in EndSteps => contract[t.branch] # "TERMINATED"
  /\ t.step = "contract_set" /\ t.to = "TERMINATED" =>
       contract[t.branch] = "TERMINATED"

LEMMA ReadsHoldIsRead == ReadsHold <=> \A h \in Handlers : Read(txn[h])
BY DEF ReadsHold, Read

(* The request that takes the step reads under the locks it now has.       *)
LEMMA OwnReads ==
  ASSUME StaffingInv, NEW h \in Handlers, Arrive(h) \/ Proceed(h) \/ Abort(h)
  PROVE  Read(txn[h])'
<1> USE DEF HireSteps, MoveSteps, ResignSteps, EndSteps, MemberSteps, RegisterSteps
<1>1. TypeOK /\ Read(txn[h])
  BY ReadsHoldIsRead DEF StaffingInv
<1>2. CASE Arrive(h)
  <2>1. Begun(txn'[h]) /\ UNCHANGED tables
    BY <1>1, <1>2, Begins
  <2> QED BY <2>1 DEF Begun, Read, tables
<1>3. CASE Proceed(h) \/ Abort(h)
  <2>1. CASE txn'[h] = Idle
    BY <2>1 DEF Idle, Read
  <2>2. CASE Advanced(txn[h], txn'[h]) /\ UNCHANGED tables
    BY <1>1, <2>2 DEF Advanced, Read, tables
  <2> QED BY <1>1, <1>3, <2>1, <2>2, Advances
<1> QED BY <1>2, <1>3

(* A commit changes nothing another request has read: not the person it    *)
(* has locked, ...                                                         *)
LEMMA PersonStays ==
  ASSUME StaffingInv, NEW h \in Handlers, Written(h), NEW k \in Handlers \ {h},
         NEW p \in Staff,
         \/ LocksStaff(k, p)
         \/ txn[k].step \in HireSteps /\ txn[k].staff = p
  PROVE  staff'[p] = staff[p] /\ open'[p] \subseteq open[p]
<1> USE DEF StaffingInv
<1>1. CASE staff'[p] = staff[p] /\ \E b \in Branches : open'[p] = open[p] \ {b}
  BY <1>1
<1>2. ASSUME NEW b \in Branches, Hired(h, p, b)  PROVE FALSE
  <2>1. ~LocksStaff(k, p)
    BY <1>2 DEF Hired, LocksStaff, ReadsHold
  <2>2. ~(txn[k].step \in HireSteps /\ txn[k].staff = p)
    BY <1>2 DEF Hired, RequestsPlaced, HireSteps
  <2> QED BY <2>1, <2>2
<1>3. ASSUME Left(h, p) \/ \E b \in Branches : Moved(h, p, b)  PROVE FALSE
  <2>1. ~LocksStaff(k, p)
    BY <1>3 DEF Moved, Left, LocksStaff, LocksExclude, MoveSteps, ResignSteps
  <2>2. ~(txn[k].step \in HireSteps /\ txn[k].staff = p)
    BY <1>3 DEF Moved, Left, ReadsHold
  <2> QED BY <2>1, <2>2
<1> QED BY <1>1, <1>2, <1>3, RowEffect

(* ... not the contract of a branch it has locked or share-locked, ...     *)
LEMMA ContractStays ==
  ASSUME StaffingInv, NEW h \in Handlers, Written(h), NEW k \in Handlers \ {h},
         NEW b \in Branches, LocksBranch(k, b) \/ SharesBranch(k, b)
  PROVE  contract'[b] = contract[b]
<1> USE DEF StaffingInv
<1>1. ASSUME NEW d \in Branches, Recontracted(h, d) \/ Closed(h, d)
      PROVE  contract'[b] = contract[b]
  <2>1. LocksBranch(h, d)
    BY <1>1 DEF Recontracted, Closed, LocksBranch, EndSteps
  <2>2. b # d
    BY <2>1 DEF LocksExclude
  <2> QED BY <1>1, <2>2 DEF Recontracted, Closed, TypeOK
<1>2. ASSUME NEW s \in Staff, NEW d \in Branches,
             Hired(h, s, d) \/ Moved(h, s, d) \/ Left(h, s)
      PROVE  contract' = contract
  BY <1>2 DEF Hired, Moved, Left
<1> QED BY <1>1, <1>2 DEF Written

(* ... and it opens no dispatch at a branch that is being terminated.      *)
LEMMA NobodyArrives ==
  ASSUME StaffingInv, NEW h \in Handlers, Written(h), NEW k \in Handlers \ {h},
         NEW b \in Branches, LocksBranch(k, b), NEW p \in Staff, b \in open'[p]
  PROVE  b \in open[p]
<1> USE DEF StaffingInv
<1>1. ASSUME NEW d \in Branches, Hired(h, p, d) \/ Moved(h, p, d)  PROVE FALSE
  <2>1. b = d
    BY <1>1 DEF Hired, Moved, TypeOK
  <2>2. SharesBranch(h, b)
    BY <1>1, <2>1 DEF Hired, Moved, SharesBranch, HireSteps, MoveSteps
  <2> QED BY <2>2 DEF LocksExclude
<1>2. CASE Left(h, p)
  BY <1>2 DEF Left, TypeOK
<1> QED BY <1>1, <1>2, RowEffect

LEMMA ReadsKept ==
  ASSUME StaffingInv, NEW h \in Handlers, Arrive(h) \/ Proceed(h) \/ Abort(h)
  PROVE  ReadsHold'
<1>1. TypeOK /\ RequestsPlaced /\ \A k \in Handlers : Read(txn[k])
  BY ReadsHoldIsRead DEF StaffingInv
<1>2. \A k \in Handlers \ {h} : txn'[k] = txn[k]
  BY <1>1, Others
<1>3. ASSUME Quiet, NEW k \in Handlers \ {h}  PROVE Read(txn[k])'
  BY <1>1, <1>2, <1>3 DEF Quiet, Read
<1>4. ASSUME Written(h), NEW k \in Handlers \ {h}  PROVE Read(txn[k])'
  <2> DEFINE t == txn[k]
  <2>1. t.step \in HireSteps \cup MoveSteps \cup ResignSteps =>
          /\ t.staff \in Staff
          /\ staff'[t.staff] = staff[t.staff] /\ open'[t.staff] \subseteq open[t.staff]
    BY <1>1, <1>4, PersonStays DEF RequestsPlaced, LocksStaff
  <2>2. t.step \in HireSteps \cup (MoveSteps \ {"assign_branch"}) \cup RegisterSteps
                    \cup EndSteps \cup {"contract_set"} =>
          contract'[t.branch] = contract[t.branch]
    <3>1. ASSUME t.step \in HireSteps \cup (MoveSteps \ {"assign_branch"})
                             \cup RegisterSteps \cup EndSteps \cup {"contract_set"}
          PROVE  t.branch \in Branches
      BY <1>1, <3>1, StaffingAssumption DEF RequestsPlaced, RegisterSteps, MemberSteps
    <3> QED BY <1>4, <3>1, ContractStays DEF LocksBranch, SharesBranch
  <2>3. t.step \in EndSteps =>
          t.branch \in Branches /\ \A s \in Staff : t.branch \in open'[s] => t.branch \in open[s]
    BY <1>1, <1>4, NobodyArrives DEF RequestsPlaced, LocksBranch
  <2> QED
    BY <1>1, <1>2, <2>1, <2>2, <2>3
    DEF Read, HireSteps, MoveSteps, ResignSteps, EndSteps, RegisterSteps
<1>5. \A k \in Handlers : Read(txn[k])'
  BY <1>3, <1>4, OwnReads, StepEffect
<1> QED BY <1>5, ReadsHoldIsRead DEF ReadsHold, Read

-----------------------------------------------------------------------------
LEMMA InitInv == Init => StaffingInv
<1> SUFFICES ASSUME Init PROVE StaffingInv
  OBVIOUS
<1> USE StaffingAssumption DEF Init
<1>1. TypeOK
  BY IdleIsTxn DEF TypeOK, Person, ContractStatus
<1>2. \A h \in Handlers : txn[h] = Idle /\ txn[h].step = "idle"
  BY IdleIsTxn
<1>3. RequestsPlaced /\ LocksExclude /\ ReadsHold
  BY <1>2 DEF RequestsPlaced, LocksExclude, ReadsHold, LocksStaff, LocksBranch,
     HireSteps, MoveSteps, ResignSteps, EndSteps, MemberSteps, RegisterSteps
<1>4. OpenAtHome /\ ResignedIsGone /\ NoOpenAtTerminated /\ TeachesAtHome /\ StrangersIdle
  BY DEF OpenAtHome, ResignedIsGone, NoOpenAtTerminated, TeachesAtHome, StrangersIdle
<1> QED BY <1>1, <1>3, <1>4 DEF StaffingInv

LEMMA NextInv == StaffingInv /\ [Next]_vars => StaffingInv'
<1> SUFFICES ASSUME StaffingInv, [Next]_vars PROVE StaffingInv'
  OBVIOUS
<1>1. TypeOK'
  BY NextType DEF StaffingInv
<1>2. CASE UNCHANGED vars
  BY <1>2 DEF vars, StaffingInv, TypeOK, RequestsPlaced, StrangersIdle, LocksExclude,
     ReadsHold, OpenAtHome, ResignedIsGone, NoOpenAtTerminated, TeachesAtHome,
     LocksStaff, LocksBranch, SharesBranch
<1>3. ASSUME NEW h \in Handlers, Arrive(h) \/ Proceed(h) \/ Abort(h)
      PROVE  StaffingInv'
  <2>1. \A p \in Staff : RowFacts(p)'
    BY <1>3, StepEffect, RowFactsKept
  <2>2. (OpenAtHome /\ ResignedIsGone /\ TeachesAtHome /\ StrangersIdle)'
    BY <2>1 DEF OpenAtHome, ResignedIsGone, TeachesAtHome, StrangersIdle, RowFacts
  <2>3. NoOpenAtTerminated'
    BY <1>3, StepEffect, NoOpenKept
  <2> QED
    BY <1>1, <1>3, <2>2, <2>3, PlacedKept, LocksKept, ReadsKept DEF StaffingInv
<1> QED BY <1>2, <1>3 DEF Next

(* The conjunction that carries everything else holds in every reachable   *)
(* state: what requests have read under their locks stays so until they    *)
(* use it.                                                                 *)
THEOREM Invariance == Spec => []StaffingInv
BY InitInv, NextInv, PTL DEF Spec

(* The tables and the requests in flight keep their types.                 *)
THEOREM TypeCorrect == Spec => []TypeOK
<1>1. StaffingInv => TypeOK
  BY DEF StaffingInv
<1> QED BY <1>1, Invariance, PTL

(* D1: an open dispatch is at the branch the person's row names, however   *)
(* transfers, hires, resignations and terminations overlap.                *)
THEOREM DispatchedAtHome == Spec => []OpenAtHome
<1>1. StaffingInv => OpenAtHome
  BY DEF StaffingInv
<1> QED BY <1>1, Invariance, PTL

(* D2, D3: a person who resigned has neither a dispatch nor a login.       *)
THEOREM ResignedGone == Spec => []ResignedIsGone
<1>1. StaffingInv => ResignedIsGone
  BY DEF StaffingInv
<1> QED BY <1>1, Invariance, PTL

(* D4: nobody is dispatched to a terminated branch, although a termination *)
(* does not lock the people whose dispatches it ends.                      *)
THEOREM TerminatedIsEmpty == Spec => []NoOpenAtTerminated
<1>1. StaffingInv => NoOpenAtTerminated
  BY DEF StaffingInv
<1> QED BY <1>1, Invariance, PTL

(* A linked instructor profile follows its person.                         *)
THEOREM ProfileAtHome == Spec => []TeachesAtHome
<1>1. StaffingInv => TeachesAtHome
  BY DEF StaffingInv
<1> QED BY <1>1, Invariance, PTL

(* Every step commits at most one request's changes to these tables.       *)
LEMMA NextEffect ==
  ASSUME StaffingInv, [Next]_vars
  PROVE  Quiet \/ \E h \in Handlers : Written(h)
<1>1. CASE UNCHANGED vars
  BY <1>1 DEF vars, Quiet
<1> QED BY <1>1, StepEffect DEF Next

(* A resignation is final.                                                 *)
THEOREM ResignationIsFinal == Spec => ResignedStays
<1> DEFINE Stay == \A s \in Staff : staff[s].status = "RESIGNED" =>
                     staff'[s] = staff[s] /\ open'[s] = {}
<1>1. StaffingInv /\ [Next]_vars => [Stay]_vars
  <2> SUFFICES ASSUME StaffingInv, [Next]_vars, NEW s \in Staff,
                      staff[s].status = "RESIGNED"
               PROVE  staff'[s] = staff[s] /\ open'[s] = {}
    OBVIOUS
  <2>1. open[s] = {}
    BY DEF StaffingInv, ResignedIsGone
  <2>2. CASE Quiet
    BY <2>1, <2>2 DEF Quiet
  <2>3. ASSUME NEW h \in Handlers, Written(h)
        PROVE  staff'[s] = staff[s] /\ open'[s] = {}
    <3>1. ~Left(h, s) /\ \A b \in Branches : ~Hired(h, s, b) /\ ~Moved(h, s, b)
      BY DEF Left, Hired, Moved
    <3> QED BY <2>1, <2>3, <3>1, RowEffect
  <2> QED BY <2>2, <2>3, NextEffect
<1> QED BY <1>1, Invariance, PTL DEF Spec, ResignedStays

(* A member is only ever registered at a branch under contract: the share  *)
(* lock on the branch keeps a termination from committing in between.      *)
THEOREM RegistrationGate == Spec => NoRegistrationAtTerminated
<1> DEFINE Gate == \A m \in registered' \ registered :
                     contract[MemberBranch[m]] # "TERMINATED"
<1>1. StaffingInv /\ [Next]_vars => [Gate]_vars
  <2> SUFFICES ASSUME StaffingInv, [Next]_vars PROVE Gate
    OBVIOUS
  <2>1. CASE registered' = registered
    BY <2>1
  <2>2. ASSUME NEW h \in Handlers, RegisterFk(h)  PROVE Gate
    <3>1. registered' \ registered \subseteq {txn[h].member}
      BY <2>2 DEF RegisterFk
    <3>2. contract[MemberBranch[txn[h].member]] # "TERMINATED"
      BY <2>2 DEF RegisterFk, StaffingInv, RequestsPlaced, ReadsHold, RegisterSteps
    <3> QED BY <3>1, <3>2
  <2>3. ASSUME NEW h \in Handlers, Arrive(h) \/ Abort(h)
        PROVE  registered' = registered
    BY <2>3 DEF Arrive, Abort, HireLock, AssignLock, ResignLock, ContractLock,
                AssignMember, Register, Start, Refuse, tables
  <2>4. ASSUME NEW h \in Handlers, Proceed(h), ~RegisterFk(h)
        PROVE  registered' = registered
    <3>1. CASE Refuse(h) \/ \E to : Goto(h, to)
      BY <3>1 DEF Refuse, Goto, tables
    <3>2. CASE ~Refuse(h) /\ \A to : ~Goto(h, to)
      BY <2>4, <3>2
      DEF Proceed, HireInsert, AssignShare, AssignEnd, AssignFind, AssignCommit,
          ResignEnd, ResignFind, ResignCommit, ContractSet, EndFind, EndUpdate,
          EndMembers, EndCommit, MemberWrite, MemberFk, RegisterInsert, tables
    <3> QED BY <3>1, <3>2
  <2>5. CASE UNCHANGED vars
    BY <2>5 DEF vars
  <2> QED BY <2>1, <2>2, <2>3, <2>4, <2>5 DEF Next
<1> QED BY <1>1, Invariance, PTL DEF Spec, NoRegistrationAtTerminated

(* Nobody whose dispatch a termination ends is missing from its list: under*)
(* the lock on the branch no dispatch to it begins, so the list read first *)
(* still holds everyone when the termination commits.                      *)
THEOREM TerminationReports == Spec => EndedAreReported
<1> DEFINE Told == \A b \in Branches :
                     /\ contract[b] # "TERMINATED" /\ contract'[b] = "TERMINATED"
                     => \A s \in Staff : b \in open[s] => s \in reported'[b]
<1>1. StaffingInv /\ [Next]_vars => [Told]_vars
  <2> SUFFICES ASSUME StaffingInv, [Next]_vars PROVE Told
    OBVIOUS
  <2>1. CASE contract' = contract
    BY <2>1
  <2>2. ASSUME NEW h \in Handlers, EndCommit(h)  PROVE Told
    <3>1. /\ contract' = [contract EXCEPT ![txn[h].branch] = "TERMINATED"]
          /\ reported' = [reported EXCEPT ![txn[h].branch] = txn[h].ended]
          /\ txn[h].step = "end_commit"
      BY <2>2 DEF EndCommit
    <3>2. \A s \in Staff : txn[h].branch \in open[s] => s \in txn[h].ended
      BY <3>1 DEF StaffingInv, ReadsHold
    <3> QED BY <3>1, <3>2 DEF StaffingInv, TypeOK
  <2>3. ASSUME NEW h \in Handlers, ContractSet(h)  PROVE Told
    <3>1. CASE contract' = contract
      BY <3>1
    <3>2. CASE /\ contract' = [contract EXCEPT ![txn[h].branch] = txn[h].to]
               /\ txn[h].step = "contract_set"
      BY <3>2 DEF StaffingInv, ReadsHold, TypeOK
    <3> QED BY <2>3, <3>1, <3>2 DEF ContractSet, Refuse, Goto, tables
  <2>4. ASSUME NEW h \in Handlers, Arrive(h) \/ Abort(h)
        PROVE  contract' = contract
    BY <2>4 DEF Arrive, Abort, HireLock, AssignLock, ResignLock, ContractLock,
                AssignMember, Register, Start, Refuse, tables
  <2>5. ASSUME NEW h \in Handlers, Proceed(h), ~EndCommit(h), ~ContractSet(h)
        PROVE  contract' = contract
    <3>1. CASE Refuse(h) \/ \E to : Goto(h, to)
      BY <3>1 DEF Refuse, Goto, tables
    <3>2. CASE ~Refuse(h) /\ \A to : ~Goto(h, to)
      BY <2>5, <3>2
      DEF Proceed, HireInsert, AssignShare, AssignEnd, AssignFind, AssignCommit,
          ResignEnd, ResignFind, ResignCommit, EndFind, EndUpdate,
          EndMembers, MemberWrite, MemberFk, RegisterInsert, RegisterFk, tables
    <3> QED BY <3>1, <3>2
  <2>6. CASE UNCHANGED vars
    BY <2>6 DEF vars
  <2> QED BY <2>1, <2>2, <2>3, <2>4, <2>5, <2>6 DEF Next
<1> QED BY <1>1, Invariance, PTL DEF Spec, EndedAreReported

(* Seen from outside, every request is one entry of the roster.            *)
THEOREM ImplementsRoster == Spec => RosterSpec
<1>1. Init => Roster!Init
  <2> SUFFICES ASSUME Init PROVE Roster!Init
    OBVIOUS
  <2>1. \A s \in Staff : staff[s] =
          [status |-> IF s \in FirstStaff THEN "ACTIVE" ELSE "ABSENT",
           branch |-> IF s \in FirstStaff THEN FirstBranch ELSE None,
           login |-> s \in FirstStaff]
    <3> SUFFICES ASSUME NEW s \in Staff
                 PROVE  staff[s] =
                   [status |-> IF s \in FirstStaff THEN "ACTIVE" ELSE "ABSENT",
                    branch |-> IF s \in FirstStaff THEN FirstBranch ELSE None,
                    login |-> s \in FirstStaff]
      OBVIOUS
    <3>1. CASE s \in FirstStaff
      <4>1. staff[s] = [status |-> "ACTIVE", branch |-> FirstBranch, login |-> TRUE]
        BY <3>1 DEF Init
      <4>2. (s \in FirstStaff) = TRUE
        BY <3>1
      <4> QED BY <3>1, <4>1, <4>2
    <3>2. CASE s \notin FirstStaff
      <4>1. staff[s] = [status |-> "ABSENT", branch |-> None, login |-> FALSE]
        BY <3>2 DEF Init
      <4>2. (s \in FirstStaff) = FALSE
        BY <3>2
      <4> QED BY <3>2, <4>1, <4>2
    <3> QED BY <3>1, <3>2
  <2>2. staff = [s \in Staff |-> staff[s]]
    BY DEF Init
  <2>3. staff = [s \in Staff |->
          [status |-> IF s \in FirstStaff THEN "ACTIVE" ELSE "ABSENT",
           branch |-> IF s \in FirstStaff THEN FirstBranch ELSE None,
           login |-> s \in FirstStaff]]
    BY <2>1, <2>2, Zenon
  <2> QED BY <2>3 DEF Init, Roster!Init
<1>2. StaffingInv /\ [Next]_vars => [Roster!Next]_(Roster!vars)
  <2> SUFFICES ASSUME StaffingInv, [Next]_vars PROVE Roster!Next \/ UNCHANGED Roster!vars
    OBVIOUS
  <2>1. CASE Quiet
    BY <2>1 DEF Quiet, Roster!vars
  <2>2. ASSUME NEW h \in Handlers, NEW s \in Staff, NEW b \in Branches,
               Hired(h, s, b) \/ Moved(h, s, b)
        PROVE  Roster!Next
    <3>1. Roster!Hire(s, b) \/ Roster!Transfer(s, b)
      BY <2>2 DEF Hired, Moved, Roster!Hire, Roster!Transfer
    <3> QED BY <3>1 DEF Roster!Next
  <2>3. ASSUME NEW h \in Handlers, NEW s \in Staff, Left(h, s)  PROVE Roster!Next
    <3>1. Roster!Resign(s)
      BY <2>3 DEF Left, Roster!Resign
    <3> QED BY <3>1 DEF Roster!Next
  <2>4. ASSUME NEW h \in Handlers, NEW b \in Branches, Closed(h, b)  PROVE Roster!Next
    <3>1. Roster!Terminate(b)
      BY <2>4 DEF Closed, Roster!Terminate
    <3> QED BY <3>1 DEF Roster!Next
  <2>5. ASSUME NEW h \in Handlers, NEW b \in Branches, Recontracted(h, b)
        PROVE  Roster!Next
    <3>1. txn[h].to \in ContractStatus
      BY <2>5 DEF Recontracted, StaffingInv, RequestsPlaced
    <3>2. Roster!Recontract(b, txn[h].to)
      BY <2>5 DEF Recontracted, Roster!Recontract
    <3> QED BY <3>1, <3>2 DEF Roster!Next, ContractStatus
  <2> QED BY <2>1, <2>2, <2>3, <2>4, <2>5, NextEffect DEF Written
<1> QED BY <1>1, <1>2, Invariance, PTL DEF Spec, RosterSpec, Roster!Spec
=============================================================================
