----------------------------- MODULE PeopleProofs -----------------------------
(***************************************************************************)
(* Proofs about the desks of Office that serve people: their leave, their  *)
(* attendance, their accounts, the files of their posts and their profiles.*)
(***************************************************************************)
EXTENDS Office, FiniteSetTheorems, TLAPS

-----------------------------------------------------------------------------
(* Leave                                                                   *)

(* Two leaves share no day.                                                *)
Apart(q, r) == q.last < r.first \/ r.last < q.first

(* A manager who approves holds the person, and no approved leave shares a *)
(* day with the one at hand; while it is deducted nobody else decides it.  *)
Approving(h) ==
  /\ txn[h].leave \in Leaves
  /\ x2[txn[h].leave].state # "ABSENT"
  /\ txn[h].step = "approve_deduct" => x2[txn[h].leave].state = "PENDING"
  /\ \A q \in Leaves \ {txn[h].leave} :
       x2[q].state = "APPROVED" => Apart(x2[q], x2[txn[h].leave])

LeaveKept ==
  /\ Lv!TypeOK
  /\ \A r \in Leaves : x2[r].first <= x2[r].last
  /\ \A h \in Handlers : /\ txn[h].ask.first <= txn[h].ask.last
                         /\ txn[h].step = "request_insert" => txn[h].ask.state = "PENDING"
  /\ \A g, h \in Handlers : Lv!LocksStaff(g) /\ Lv!LocksStaff(h) => g = h
  /\ \A h \in Handlers :
       txn[h].step \in {"approve_review", "approve_deduct"} => Approving(h)
  /\ Lv!NoOverlap

LEMMA DaysAreInt == LeaveDays \subseteq Int
BY OfficeAssumption

(* The row of no leave is a row.                                           *)
LEMMA NoLeaveIsRow ==
  /\ Lv!NoLeave \in Lv!LeaveRow /\ Lv!NoLeave.state = "ABSENT"
  /\ Lv!NoLeave.first <= Lv!NoLeave.last
<1>1. Lv!Min(LeaveDays) \in LeaveDays /\ Lv!Min(LeaveDays) \in Int
  BY OfficeAssumption DEF Lv!Min
<1> QED BY <1>1 DEF Lv!NoLeave, Lv!LeaveRow

LEMMA AskedIsRow ==
  ASSUME NEW ask \in LeaveAsks
  PROVE  /\ Lv!Asked(ask) \in Lv!LeaveRow /\ Lv!Asked(ask).state = "PENDING"
         /\ Lv!Asked(ask).first <= Lv!Asked(ask).last
BY OfficeAssumption DEF Lv!Asked, Lv!LeaveRow

(* At the desk of leaves only its handlers work.                           *)
LEMMA LeaveDesk ==
  ASSUME [OfficeNext]_vars, desk = "leave"
  PROVE  desk' = "leave" /\ [Lv!Next]_(Lv!vars)
BY DEF OfficeNext, vars, Lv!vars, From3

LEMMA KeptAtFirst == Lv!Init => LeaveKept
<1> SUFFICES ASSUME Lv!Init PROVE LeaveKept
  OBVIOUS
<1>1. Lv!Idle \in Lv!Txn /\ Lv!Idle.step = "idle" /\ Lv!Idle.ask.first <= Lv!Idle.ask.last
  BY NoLeaveIsRow DEF Lv!Idle, Lv!Txn
<1>2. x2 \in [Leaves -> Lv!LeaveRow] /\ \A r \in Leaves : x2[r].first <= x2[r].last
  BY NoLeaveIsRow, AskedIsRow DEF Lv!Init
<1>3. \A r \in Leaves : x2[r].state \in {"ABSENT", "PENDING"}
  BY NoLeaveIsRow, AskedIsRow DEF Lv!Init
<1> QED
  BY <1>1, <1>2, <1>3 DEF LeaveKept, Lv!Init, Lv!TypeOK, Lv!LocksStaff, Lv!NoOverlap

LEMMA KeptByStep == LeaveKept /\ [Lv!Next]_(Lv!vars) => LeaveKept'
<1> SUFFICES ASSUME LeaveKept, [Lv!Next]_(Lv!vars) PROVE LeaveKept'
  OBVIOUS
<1> USE DEF LeaveKept
<1>0. Lv!Idle \in Lv!Txn /\ Lv!Idle.step = "idle" /\ Lv!Idle.ask.first <= Lv!Idle.ask.last
  BY NoLeaveIsRow DEF Lv!Idle, Lv!Txn
<1>1. ASSUME NEW h \in Handlers, NEW ask \in LeaveAsks, Lv!Request(h, ask)
      PROVE  LeaveKept'
  <2> DEFINE t == [Lv!Idle EXCEPT !.step = "request_insert", !.ask = Lv!Asked(ask)]
  <2>1. /\ t \in Lv!Txn /\ t.step = "request_insert" /\ t.ask.first <= t.ask.last
        /\ t.ask.state = "PENDING"
    BY <1>0, AskedIsRow DEF Lv!Txn
  <2> HIDE DEF t
  <2>2. txn' = [txn EXCEPT ![h] = t] /\ UNCHANGED <<x1, x2, x3>> /\ Lv!StaffFree
    BY <1>1 DEF Lv!Request, Lv!Begin, t
  <2> QED
    BY <2>1, <2>2
    DEF Lv!TypeOK, Lv!StaffFree, Lv!LocksStaff, Approving, Lv!NoOverlap
<1>2. ASSUME NEW h \in Handlers, NEW r \in Leaves, Lv!RequestInsert(h, r)
      PROVE  LeaveKept'
  <2>1. txn' = [txn EXCEPT ![h] = Lv!Idle] /\ x2' = [x2 EXCEPT ![r] = txn[h].ask]
    BY <1>2 DEF Lv!RequestInsert, Lv!End
  <2> QED
    BY <1>0, <1>2, <2>1
    DEF Lv!RequestInsert, Lv!TypeOK, Lv!Txn, Lv!LocksStaff, Approving, Lv!NoOverlap
<1>3. ASSUME NEW h \in Handlers, NEW r \in Leaves, Lv!Approve(h, r)
      PROVE  LeaveKept'
  <2> DEFINE t == [Lv!Idle EXCEPT !.step = "approve_review", !.leave = r]
  <2>1. /\ t \in Lv!Txn /\ t.step = "approve_review" /\ t.leave = r
        /\ t.ask.first <= t.ask.last
    BY <1>0 DEF Lv!Txn
  <2> HIDE DEF t
  <2>2. txn' = [txn EXCEPT ![h] = t] /\ UNCHANGED <<x1, x2, x3>> /\ Lv!StaffFree
    BY <1>3 DEF Lv!Approve, Lv!Begin, t
  <2>3. \A q \in Leaves \ {r} : x2[q].state = "APPROVED" => Apart(x2[q], x2[r])
    BY <1>3, OfficeAssumption DEF Lv!Approve, Lv!Clashes, Apart, Lv!TypeOK, Lv!LeaveRow
  <2> QED
    BY <1>3, <2>1, <2>2, <2>3
    DEF Lv!Approve, Lv!TypeOK, Lv!StaffFree, Lv!LocksStaff, Approving, Lv!NoOverlap
<1>4. ASSUME NEW h \in Handlers, Lv!ApproveReview(h)
      PROVE  LeaveKept'
  <2>1. CASE x2[txn[h].leave].state = "PENDING" /\ Lv!Goto(h, "approve_deduct")
    BY <1>4, <2>1
    DEF Lv!ApproveReview, Lv!Goto, Lv!TypeOK, Lv!Txn, Lv!LocksStaff, Approving, Lv!NoOverlap
  <2>2. CASE Lv!End(h)
    BY <1>0, <1>4, <2>2
    DEF Lv!ApproveReview, Lv!End, Lv!TypeOK, Lv!LocksStaff, Approving, Lv!NoOverlap
  <2> QED BY <1>4, <2>1, <2>2 DEF Lv!ApproveReview
<1>5. ASSUME NEW h \in Handlers, Lv!ApproveDeduct(h)
      PROVE  LeaveKept'
  <2> DEFINE r == txn[h].leave
  <2>1. r \in Leaves /\ Approving(h)
    BY <1>5 DEF Lv!ApproveDeduct, Approving
  <2> HIDE DEF r
  <2>2. /\ txn' = [txn EXCEPT ![h] = Lv!Idle] /\ x1' = x1
        /\ x2' = [x2 EXCEPT ![r].state = "APPROVED"]
    BY <1>5 DEF Lv!ApproveDeduct, Lv!End, r
  <2>3. x2' \in [Leaves -> Lv!LeaveRow]
    BY <2>1, <2>2 DEF Lv!TypeOK, Lv!LeaveRow
  <2>4. x3' \in [1..2 -> Nat]
    <3>1. x2[r].first \in Int /\ x2[r].last \in Int /\ x2[r].first <= x2[r].last
      BY <2>1, DaysAreInt DEF Lv!TypeOK, Lv!LeaveRow
    <3>2. Lv!Length(r) \in Nat
      BY <3>1 DEF Lv!Length
    <3>3. x3' = IF x2[r].type = "ANNUAL" THEN [x3 EXCEPT ![x1] = @ + Lv!Length(r)] ELSE x3
      BY <1>5 DEF Lv!ApproveDeduct, r
    <3> QED BY <3>2, <3>3 DEF Lv!TypeOK
  <2>5. \A q \in Leaves : /\ x2'[q].first = x2[q].first /\ x2'[q].last = x2[q].last
                          /\ x2'[q].state = IF q = r THEN "APPROVED" ELSE x2[q].state
    BY <2>1, <2>2 DEF Lv!TypeOK, Lv!LeaveRow
  <2>6. \A g \in Handlers : ~Lv!LocksStaff(g)'
    BY <1>0, <1>5, <2>2 DEF Lv!ApproveDeduct, Lv!TypeOK, Lv!LocksStaff
  <2>7. Lv!NoOverlap'
    BY <2>1, <2>5 DEF Approving, Apart, Lv!NoOverlap, r
  <2> QED
    BY <1>0, <2>2, <2>3, <2>4, <2>5, <2>6, <2>7 DEF Lv!TypeOK, Lv!LocksStaff
<1>6. ASSUME NEW h \in Handlers, Lv!Abort(h)
      PROVE  LeaveKept'
  BY <1>0, <1>6 DEF Lv!Abort, Lv!End, Lv!TypeOK, Lv!LocksStaff, Approving, Lv!NoOverlap
<1>7. ASSUME NEW r \in Leaves, Lv!Reject(r)
      PROVE  LeaveKept'
  <2>1. x2' = [x2 EXCEPT ![r].state = "REJECTED"] /\ UNCHANGED <<x1, x3, txn>>
    BY <1>7 DEF Lv!Reject
  <2>2. \A q \in Leaves : /\ x2'[q].first = x2[q].first /\ x2'[q].last = x2[q].last
                          /\ x2'[q].state = IF q = r THEN "REJECTED" ELSE x2[q].state
    BY <2>1 DEF Lv!TypeOK, Lv!LeaveRow
  <2>3. x2' \in [Leaves -> Lv!LeaveRow]
    BY <2>1 DEF Lv!TypeOK, Lv!LeaveRow
  <2> QED
    BY <1>7, <2>1, <2>2, <2>3
    DEF Lv!Reject, Lv!LeaveFree, Lv!LocksLeave, Lv!TypeOK, Lv!LocksStaff, Approving, Apart,
        Lv!NoOverlap
<1>8. CASE Lv!NewYear
  BY <1>8 DEF Lv!NewYear, Lv!TypeOK, Lv!LocksStaff, Approving, Lv!NoOverlap
<1>9. CASE UNCHANGED Lv!vars
  BY <1>9 DEF Lv!vars, Lv!TypeOK, Lv!LocksStaff, Approving, Lv!NoOverlap
<1> QED
  BY <1>1, <1>2, <1>3, <1>4, <1>5, <1>6, <1>7, <1>8, <1>9 DEF Lv!Next

(* The instance of Leave counts as the library does.                       *)
LEMMA SameDayCount == \A S : Lv!Cardinality(S) = Cardinality(S)
BY DEF Lv!Cardinality, Cardinality

(* The days charged are the days of approved annual leave.                 *)
Charged == IsFiniteSet(Lv!AwayDays) /\ Lv!UsedAgrees
LeaveInv == LeaveKept /\ Charged

LEMMA LeaveInit == Lv!Init => LeaveInv
<1> SUFFICES ASSUME Lv!Init PROVE LeaveInv
  OBVIOUS
<1>1. \A r \in Leaves : x2[r].state # "APPROVED"
  BY NoLeaveIsRow, AskedIsRow DEF Lv!Init
<1>2. Lv!AwayDays = {}
  BY <1>1 DEF Lv!AwayDays
<1>3. x3[1] + x3[2] = 0
  BY DEF Lv!Init
<1>4. Charged
  <2>1. IsFiniteSet({}) /\ Cardinality({}) = 0
    BY FS_EmptySet
  <2> QED BY <1>2, <1>3, <2>1, SameDayCount DEF Charged, Lv!UsedAgrees
<1> QED BY <1>4, KeptAtFirst DEF LeaveInv

(* A step that approves nothing leaves these days, and the charge, alone.  *)
LEMMA SameDays ==
  ASSUME Charged, x3' = x3,
         \A q \in Leaves : x2'[q].state = "APPROVED" \/ x2[q].state = "APPROVED"
                          => x2'[q] = x2[q]
  PROVE  Charged'
<1>1. Lv!AwayDays' = Lv!AwayDays
  BY DEF Lv!AwayDays
<1> QED BY <1>1 DEF Charged, Lv!UsedAgrees

LEMMA ChargedStep == LeaveKept /\ Charged /\ [Lv!Next]_(Lv!vars) => Charged'
<1> SUFFICES ASSUME LeaveKept, Charged, [Lv!Next]_(Lv!vars) PROVE Charged'
  OBVIOUS
<1>1. ASSUME NEW h \in Handlers, Lv!ApproveDeduct(h)
      PROVE  Charged'
  <2> DEFINE r == txn[h].leave
             D == x2[r].first..x2[r].last
  <2>1. r \in Leaves /\ x2[r].state = "PENDING" /\ Approving(h)
    BY <1>1 DEF Lv!ApproveDeduct, Approving, LeaveKept
  <2>2. x2[r].first \in Int /\ x2[r].last \in Int /\ x2[r].first <= x2[r].last
    BY <2>1, DaysAreInt DEF LeaveKept, Lv!TypeOK, Lv!LeaveRow
  <2>3. IsFiniteSet(D) /\ Cardinality(D) = Lv!Length(r)
    <3> DEFINE a == x2[r].first
               b == x2[r].last
    <3> HIDE DEF r
    <3>1. /\ IsFiniteSet(a..b)
          /\ Cardinality(a..b) = IF a > b THEN 0 ELSE b - a + 1
      BY <2>2, FS_Interval
    <3> QED BY <2>2, <3>1 DEF Lv!Length
  <2>4. D \cap Lv!AwayDays = {}
    <3>1. \A q \in Leaves : x2[q].first \in Int /\ x2[q].last \in Int
      BY DaysAreInt DEF LeaveKept, Lv!TypeOK, Lv!LeaveRow
    <3>2. ASSUME NEW q \in Leaves, x2[q].state = "APPROVED", NEW d \in D
          PROVE  d \notin x2[q].first..x2[q].last
      <4>1. Apart(x2[q], x2[r])
        BY <2>1, <3>2 DEF Approving
      <4> QED BY <2>2, <3>1, <4>1 DEF Apart
    <3> QED BY <3>2 DEF Lv!AwayDays
  <2>5. \A q \in Leaves : /\ x2'[q].first = x2[q].first /\ x2'[q].last = x2[q].last
                          /\ x2'[q].type = x2[q].type
                          /\ x2'[q].state = IF q = r THEN "APPROVED" ELSE x2[q].state
    BY <1>1, <2>1 DEF Lv!ApproveDeduct, LeaveKept, Lv!TypeOK, Lv!LeaveRow
  <2>6. x3 \in [1..2 -> Nat] /\ x1 \in 1..2
    BY DEF LeaveKept, Lv!TypeOK
  <2>7. CASE x2[r].type = "ANNUAL"
    <3>1. Lv!AwayDays' = Lv!AwayDays \cup D
      BY <2>1, <2>5, <2>7 DEF Lv!AwayDays
    <3>2. /\ IsFiniteSet(Lv!AwayDays \cup D)
          /\ Cardinality(Lv!AwayDays \cup D) = Cardinality(Lv!AwayDays) + Lv!Length(r)
      <4>1. Cardinality(Lv!AwayDays \cap D) = 0
        BY <2>4, FS_EmptySet
      <4>2. Cardinality(Lv!AwayDays) \in Nat /\ Lv!Length(r) \in Nat
        BY <2>3, FS_CardinalityType DEF Charged
      <4>3. /\ IsFiniteSet(Lv!AwayDays \cup D)
            /\ Cardinality(Lv!AwayDays \cup D) = Cardinality(Lv!AwayDays)
                 + Cardinality(D) - Cardinality(Lv!AwayDays \cap D)
        BY <2>3, FS_Union DEF Charged
      <4> HIDE DEF D, r
      <4> QED BY <2>3, <4>1, <4>2, <4>3
    <3>3. x3' = [x3 EXCEPT ![x1] = @ + Lv!Length(r)]
      BY <1>1, <2>7 DEF Lv!ApproveDeduct
    <3>4. Lv!Length(r) \in Nat
      BY <2>3, FS_CardinalityType
    <3>5. x3'[1] + x3'[2] = x3[1] + x3[2] + Lv!Length(r)
      <4> HIDE DEF r
      <4> QED BY <2>6, <3>3, <3>4
    <3>6. x3[1] + x3[2] = Cardinality(Lv!AwayDays)
      BY SameDayCount DEF Charged, Lv!UsedAgrees
    <3>7. x3'[1] + x3'[2] = Cardinality(Lv!AwayDays')
      BY <3>1, <3>2, <3>5, <3>6
    <3> QED BY <3>1, <3>2, <3>7, SameDayCount DEF Charged, Lv!UsedAgrees
  <2>8. CASE x2[r].type # "ANNUAL"
    <3>1. Lv!AwayDays' = Lv!AwayDays
      BY <2>1, <2>5, <2>8 DEF Lv!AwayDays
    <3>2. x3' = x3
      BY <1>1, <2>8 DEF Lv!ApproveDeduct
    <3> QED BY <3>1, <3>2 DEF Charged, Lv!UsedAgrees
  <2> QED BY <2>7, <2>8
<1>2. ASSUME NEW h \in Handlers, NEW r \in Leaves, Lv!RequestInsert(h, r)
      PROVE  Charged'
  <2>1. /\ x3' = x3 /\ x2[r].state = "ABSENT" /\ txn[h].ask.state = "PENDING"
        /\ x2' = [x2 EXCEPT ![r] = txn[h].ask]
    BY <1>2 DEF Lv!RequestInsert, LeaveKept
  <2> QED BY <2>1, SameDays DEF LeaveKept, Lv!TypeOK
<1>3. ASSUME NEW r \in Leaves, Lv!Reject(r)
      PROVE  Charged'
  <2>1. /\ x3' = x3 /\ x2[r].state = "PENDING"
        /\ x2' = [x2 EXCEPT ![r].state = "REJECTED"]
    BY <1>3 DEF Lv!Reject
  <2> QED BY <2>1, SameDays DEF LeaveKept, Lv!TypeOK, Lv!LeaveRow
<1>4. CASE UNCHANGED <<x2, x3>>
  BY <1>4, SameDays
<1> QED
  BY <1>1, <1>2, <1>3, <1>4
  DEF Lv!Next, Lv!vars, Lv!Request, Lv!Approve, Lv!ApproveReview, Lv!Abort, Lv!NewYear

LEMMA LeaveStep == LeaveInv /\ [Lv!Next]_(Lv!vars) => LeaveInv'
BY KeptByStep, ChargedStep DEF LeaveInv

(* It holds whenever the desk of leaves is at work.                        *)
LeaveAt == desk = "leave" => LeaveInv
LEMMA LeaveInvariant == OfficeSpec => []LeaveAt
<1>1. OfficeInit => LeaveAt
  BY LeaveInit DEF OfficeInit, LeaveAt
<1>2. LeaveAt /\ [OfficeNext]_vars => LeaveAt'
  <2> SUFFICES ASSUME LeaveAt, [OfficeNext]_vars, desk' = "leave" PROVE LeaveInv'
    BY DEF LeaveAt
  <2>1. desk = "leave"
    BY DEF OfficeNext, vars
  <2> QED BY <2>1, LeaveDesk, LeaveStep DEF LeaveAt
<1> QED BY <1>1, <1>2, PTL DEF OfficeSpec

(* No two approved leaves of a person share a day, whatever days, leaves   *)
(* and requests there are.                                                 *)
THEOREM LeavesApart == OfficeSpec => []NoOverlap
<1>1. LeaveAt => NoOverlap
  BY DEF LeaveAt, LeaveInv, LeaveKept, NoOverlap
<1> QED BY <1>1, LeaveInvariant, PTL

(* The balance is charged one day for each day of approved annual leave,   *)
(* however approvals, rejections and requests interleave.                  *)
THEOREM LeaveCharged == OfficeSpec => []UsedAgrees
<1>1. LeaveAt => UsedAgrees
  BY DEF LeaveAt, LeaveInv, Charged, UsedAgrees
<1> QED BY <1>1, LeaveInvariant, PTL

-----------------------------------------------------------------------------
(* Attachments                                                             *)

(* Who inserts the row of a file holds the post: nobody else does, its     *)
(* path has no row and there is room for it.                               *)
Inserting(h) ==
  /\ txn[h].path \in Paths
  /\ \A f \in Atm!Rows : x3[f] # txn[h].path
  /\ ~Atm!Full

FilesInv ==
  /\ Atm!TypeOK
  /\ \A h \in Handlers : txn[h].step = "confirm" => txn[h].path \in Paths
  /\ \A h \in Handlers : txn[h].step = "insert" => Inserting(h)
  /\ \A g, h \in Handlers : Atm!LocksPost(g) /\ Atm!LocksPost(h) => g = h
  /\ IsFiniteSet(Atm!Rows)
  /\ Atm!FilesWithin

(* At the desk of attachments only its handlers work.                      *)
LEMMA FilesDesk ==
  ASSUME [OfficeNext]_vars, desk = "attachments"
  PROVE  desk' = "attachments" /\ [Atm!Next]_(Atm!vars)
BY DEF OfficeNext, vars, Atm!vars, From3

LEMMA NoneIsNoPath == None \notin Paths /\ None \notin Files /\ PerPost \in Nat
BY OfficeAssumption

(* The module counts as the library does.                                  *)
LEMMA SameCount == \A S : Atm!Cardinality(S) = Cardinality(S)
BY DEF Atm!Cardinality, Cardinality

LEMMA IdleIsFilesTxn == Atm!Idle \in Atm!Txn /\ Atm!Idle.step = "idle"
BY DEF Atm!Idle, Atm!Txn

(* A step that leaves the rows alone and nobody new at the insertion.      *)
LEMMA FilesQuiet ==
  ASSUME FilesInv, x3' = x3, x1' \subseteq Paths, x2' \subseteq Paths,
         NEW h \in Handlers, NEW t \in Atm!Txn, txn' = [txn EXCEPT ![h] = t],
         t.step # "insert", t.step = "confirm" => t.path \in Paths
  PROVE  FilesInv'
<1>1. Atm!Rows' = Atm!Rows /\ (Atm!Full' <=> Atm!Full)
  BY DEF Atm!Rows, Atm!Full
<1> QED
  BY <1>1 DEF FilesInv, Atm!TypeOK, Inserting, Atm!LocksPost, Atm!FilesWithin

LEMMA FilesInit == Atm!Init => FilesInv
<1> SUFFICES ASSUME Atm!Init PROVE FilesInv
  OBVIOUS
<1>1. Atm!Rows = {}
  BY DEF Atm!Init, Atm!Rows
<1>2. IsFiniteSet(Atm!Rows) /\ Cardinality(Atm!Rows) <= PerPost
  BY <1>1, FS_EmptySet, NoneIsNoPath
<1> QED
  BY SameCount, <1>1, <1>2, IdleIsFilesTxn
  DEF FilesInv, Atm!Init, Atm!TypeOK, Atm!LocksPost, Atm!FilesWithin

LEMMA FilesStep == FilesInv /\ [Atm!Next]_(Atm!vars) => FilesInv'
<1> SUFFICES ASSUME FilesInv, [Atm!Next]_(Atm!vars) PROVE FilesInv'
  OBVIOUS
<1> USE IdleIsFilesTxn
<1>1. ASSUME NEW p \in Paths, Atm!RequestUpload(p) \/ Atm!Upload(p)
      PROVE  FilesInv'
  <2>1. /\ UNCHANGED <<x3, txn>> /\ x1' \subseteq Paths /\ x2' \subseteq Paths
    BY <1>1 DEF Atm!RequestUpload, Atm!Upload, FilesInv, Atm!TypeOK
  <2>2. Atm!Rows' = Atm!Rows /\ (Atm!Full' <=> Atm!Full)
    BY <2>1 DEF Atm!Rows, Atm!Full
  <2> QED
    BY <2>1, <2>2 DEF FilesInv, Atm!TypeOK, Inserting, Atm!LocksPost, Atm!FilesWithin
<1>2. ASSUME NEW h \in Handlers, NEW p \in Paths, Atm!Confirm(h, p)
      PROVE  FilesInv'
  <2>1. /\ [Atm!Idle EXCEPT !.step = "confirm", !.path = p] \in Atm!Txn
        /\ [Atm!Idle EXCEPT !.step = "remove_object", !.path = p] \in Atm!Txn
    BY DEF Atm!Idle, Atm!Txn
  <2>2. PICK t \in Atm!Txn : /\ txn' = [txn EXCEPT ![h] = t]
                             /\ t.step # "insert" /\ t.path \in Paths
    BY <1>2, <2>1 DEF Atm!Confirm, Atm!Begin, Atm!Idle
  <2> QED BY <1>2, <2>2, FilesQuiet DEF Atm!Confirm, FilesInv, Atm!TypeOK
<1>3. ASSUME NEW h \in Handlers, Atm!ConfirmCount(h)
      PROVE  FilesInv'
  <2>1. CASE /\ ~Atm!Full /\ \A f \in Atm!Rows : x3[f] # txn[h].path
             /\ Atm!Goto(h, "insert")
    <3>1. txn' = [txn EXCEPT ![h].step = "insert"] /\ UNCHANGED <<x1, x2, x3>>
      BY <1>3, <2>1 DEF Atm!ConfirmCount, Atm!Goto
    <3>2. txn' \in [Handlers -> Atm!Txn]
      BY <3>1 DEF FilesInv, Atm!TypeOK, Atm!Txn
    <3>3. Atm!Rows' = Atm!Rows /\ (Atm!Full' <=> Atm!Full)
      BY <3>1 DEF Atm!Rows, Atm!Full
    <3>4. txn[h].path \in Paths /\ \A g \in Handlers : txn[g].step # "insert"
      BY <1>3 DEF Atm!ConfirmCount, Atm!PostFree, Atm!LocksPost, FilesInv
    <3> QED
      BY <2>1, <3>1, <3>2, <3>3, <3>4
      DEF FilesInv, Atm!TypeOK, Inserting, Atm!LocksPost, Atm!FilesWithin
  <2>2. CASE Atm!End(h)
    BY <1>3, <2>2, FilesQuiet DEF Atm!ConfirmCount, Atm!End, FilesInv, Atm!TypeOK, Atm!Idle
  <2> QED BY <1>3, <2>1, <2>2 DEF Atm!ConfirmCount
<1>4. ASSUME NEW h \in Handlers, NEW f \in Files, Atm!ConfirmInsert(h, f)
      PROVE  FilesInv'
  <2>1. /\ x3' = [x3 EXCEPT ![f] = txn[h].path] /\ txn' = [txn EXCEPT ![h] = Atm!Idle]
        /\ UNCHANGED <<x1, x2>> /\ x3[f] = None /\ txn[h].step = "insert"
    BY <1>4 DEF Atm!ConfirmInsert, Atm!End
  <2>2. Inserting(h) /\ \A g \in Handlers \ {h} : txn[g].step # "insert"
    BY <2>1 DEF FilesInv, Atm!LocksPost
  <2>3. Atm!Rows' = Atm!Rows \cup {f} /\ f \notin Atm!Rows
    BY <2>1, <2>2, NoneIsNoPath DEF Atm!Rows, Inserting, FilesInv, Atm!TypeOK
  <2>4. /\ IsFiniteSet(Atm!Rows') /\ Cardinality(Atm!Rows') = Cardinality(Atm!Rows) + 1
        /\ Cardinality(Atm!Rows) \in Nat
    BY <2>3, FS_AddElement, FS_CardinalityType DEF FilesInv
  <2>5. Cardinality(Atm!Rows') <= PerPost
    BY SameCount, <2>2, <2>4, NoneIsNoPath DEF Inserting, Atm!Full
  <2>6. \A q, r \in Atm!Rows' : x3'[q] = x3'[r] => q = r
    BY <2>1, <2>2, <2>3 DEF Inserting, FilesInv, Atm!FilesWithin, Atm!Rows, Atm!TypeOK
  <2>7. Atm!TypeOK'
    BY <2>1, <2>2 DEF Inserting, FilesInv, Atm!TypeOK
  <2>8. \A g \in Handlers : txn'[g].step # "insert"
    BY <2>1, <2>2 DEF FilesInv, Atm!TypeOK
  <2>9. \A g \in Handlers : txn'[g].step = "confirm" => txn'[g].path \in Paths
    BY <2>1 DEF FilesInv, Atm!TypeOK
  <2> QED
    BY SameCount, <2>4, <2>5, <2>6, <2>7, <2>8, <2>9 DEF FilesInv, Atm!LocksPost, Atm!FilesWithin
<1>5. ASSUME NEW h \in Handlers, NEW f \in Files, Atm!Remove(h, f)
      PROVE  FilesInv'
  <2>1. [step |-> "remove", path |-> x3[f], file |-> f] \in Atm!Txn
    BY DEF Atm!Txn, FilesInv, Atm!TypeOK
  <2> QED BY <1>5, <2>1, FilesQuiet DEF Atm!Remove, Atm!Begin, FilesInv, Atm!TypeOK
<1>6. ASSUME NEW h \in Handlers, Atm!RemoveRow(h)
      PROVE  FilesInv'
  <2>1. CASE txn[h].file \in Atm!Rows /\ x3' = [x3 EXCEPT ![txn[h].file] = None]
                                     /\ Atm!Goto(h, "remove_object")
    <3> DEFINE f == txn[h].file
    <3>1. /\ txn' = [txn EXCEPT ![h].step = "remove_object"] /\ UNCHANGED <<x1, x2>>
          /\ f \in Files /\ x3' = [x3 EXCEPT ![f] = None]
      BY <1>6, <2>1 DEF Atm!RemoveRow, Atm!Goto, Atm!Rows
    <3> HIDE DEF f
    <3>2. Atm!TypeOK'
      BY <3>1 DEF FilesInv, Atm!TypeOK, Atm!Txn
    <3>3. Atm!Rows' \subseteq Atm!Rows /\ \A r \in Atm!Rows' : x3'[r] = x3[r]
      BY <3>1 DEF Atm!Rows, FilesInv, Atm!TypeOK
    <3>4. /\ IsFiniteSet(Atm!Rows') /\ Cardinality(Atm!Rows') <= Cardinality(Atm!Rows)
          /\ Cardinality(Atm!Rows) \in Nat /\ Cardinality(Atm!Rows') \in Nat
      BY <3>3, FS_Subset, FS_CardinalityType DEF FilesInv
    <3>5. (~Atm!Full => ~Atm!Full') /\ Cardinality(Atm!Rows') <= PerPost
      BY SameCount, <3>4, NoneIsNoPath DEF Atm!Full, FilesInv, Atm!FilesWithin
    <3>6. \A g \in Handlers : /\ txn'[g].path = txn[g].path
                              /\ txn'[g].step \in {txn[g].step, "remove_object"}
      BY <3>1 DEF FilesInv, Atm!TypeOK, Atm!Txn
    <3> QED
      BY SameCount, <3>2, <3>3, <3>4, <3>5, <3>6
      DEF FilesInv, Inserting, Atm!LocksPost, Atm!FilesWithin
  <2>2. CASE Atm!End(h) /\ x3' = x3
    BY <1>6, <2>2, FilesQuiet DEF Atm!RemoveRow, Atm!End, FilesInv, Atm!TypeOK, Atm!Idle
  <2> QED BY <1>6, <2>1, <2>2 DEF Atm!RemoveRow
<1>7. ASSUME NEW h \in Handlers, Atm!RemoveObject(h) \/ Atm!Abort(h)
      PROVE  FilesInv'
  BY <1>7, FilesQuiet
  DEF Atm!RemoveObject, Atm!Abort, Atm!End, FilesInv, Atm!TypeOK, Atm!Idle
<1>8. CASE UNCHANGED Atm!vars
  <2>1. Atm!Rows' = Atm!Rows /\ (Atm!Full' <=> Atm!Full)
    BY <1>8 DEF Atm!vars, Atm!Rows, Atm!Full
  <2> QED
    BY <1>8, <2>1
    DEF Atm!vars, FilesInv, Atm!TypeOK, Inserting, Atm!LocksPost, Atm!FilesWithin
<1> QED
  BY <1>1, <1>2, <1>3, <1>4, <1>5, <1>6, <1>7, <1>8 DEF Atm!Next

(* It holds whenever the desk of attachments is at work.                   *)
FilesAt == desk = "attachments" => FilesInv
LEMMA FilesInvariant == OfficeSpec => []FilesAt
<1>1. OfficeInit => FilesAt
  BY FilesInit DEF OfficeInit, FilesAt
<1>2. FilesAt /\ [OfficeNext]_vars => FilesAt'
  <2> SUFFICES ASSUME FilesAt, [OfficeNext]_vars, desk' = "attachments" PROVE FilesInv'
    BY DEF FilesAt
  <2>1. desk = "attachments"
    BY DEF OfficeNext, vars
  <2> QED BY <2>1, FilesDesk, FilesStep DEF FilesAt
<1> QED BY <1>1, <1>2, PTL DEF OfficeSpec

(* A post never has more than PerPost files nor two of them at one path,   *)
(* whatever the limit is and however many confirmations run at once.       *)
THEOREM FilesCounted == OfficeSpec => []FilesWithin
<1>1. FilesAt => FilesWithin
  BY DEF FilesAt, FilesInv, FilesWithin
<1> QED BY <1>1, FilesInvariant, PTL

-----------------------------------------------------------------------------
(* StaffProfiles                                                           *)

(* What a handler may be doing, and a function of them.                    *)
ProfileTxn ==
  {Prf!Idle, [step |-> "resign"]}
  \cup [step: {"count", "insert"}, old: Names, new: Names]
  \cup [step: {"claimed"}, id: ChangeIds, to: {"APPROVED", "REJECTED"}]
  \cup [step: {"approve"}, id: ChangeIds, before: Names]
  \cup [step: {"update"}, partTime: BOOLEAN,
        what: Names \cup {"part_time", "full_time", "off_days"}]
ProfileTypes ==
  /\ x1 \in Prf!Staff
  /\ x2 \in [ChangeIds -> Prf!Request]
  /\ x3 \in Seq(Prf!Entry)
  /\ txn \in [Handlers -> ProfileTxn]

Holds(h) == txn[h].step \in {"count", "insert", "resign"}
Decides(h, i) == txn[h].step \in {"claimed", "approve"} /\ txn[h].id = i

(* One handler holds the person, one decides a request, which is pending   *)
(* meanwhile; one that inserts a request has found none pending.           *)
ProfileLocks ==
  /\ \A g, h \in Handlers : Holds(g) /\ Holds(h) => g = h
  /\ \A h \in Handlers : txn[h].step = "insert" => Prf!Pending = {}
  /\ \A h \in Handlers, i \in ChangeIds : Decides(h, i) => i \in Prf!Pending
  /\ \A g, h \in Handlers, i \in ChangeIds : Decides(g, i) /\ Decides(h, i) => g = h

(* One request is pending, for a name.                                     *)
PendingOnce ==
  /\ \A i, j \in Prf!Pending : i = j
  /\ \A i \in Prf!Pending : x2[i].new \in Names

(* The log has one entry for each approved request and no other.           *)
LogTells ==
  /\ \A n \in 1..Len(x3) : /\ x2[x3[n].id].state = "APPROVED"
                           /\ x3[n].after = x2[x3[n].id].new
  /\ \A m, n \in 1..Len(x3) : x3[m].id = x3[n].id => m = n
  /\ \A i \in ChangeIds : x2[i].state = "APPROVED" =>
       \E n \in 1..Len(x3) : x3[n].id = i

ProfilesInv == ProfileTypes /\ ProfileLocks /\ PendingOnce /\ LogTells

(* At the desk of profiles only its handlers work.                         *)
LEMMA ProfilesDesk ==
  ASSUME [OfficeNext]_vars, desk = "profiles"
  PROVE  desk' = "profiles" /\ [Prf!Next]_(Prf!vars)
BY DEF OfficeNext, vars, Prf!vars, Prf!rows, From3

LEMMA ProfilesInit == Prf!Init => ProfilesInv
<1> SUFFICES ASSUME Prf!Init PROVE ProfilesInv
  OBVIOUS
<1>1. x2 \in [ChangeIds -> Prf!Request] /\ \A i \in ChangeIds : x2[i].state = "ABSENT"
  BY DEF Prf!Init, Prf!NoRequest, Prf!Request
<1>2. x3 \in Seq(Prf!Entry) /\ Len(x3) = 0
  BY DEF Prf!Init
<1>3. Prf!Pending = {}
  BY <1>1 DEF Prf!Pending
<1>4. txn \in [Handlers -> ProfileTxn] /\ \A h \in Handlers : txn[h].step = "idle"
  BY DEF Prf!Init, Prf!Idle, ProfileTxn
<1>5. ProfileTypes
  BY <1>1, <1>2, <1>4 DEF Prf!Init, ProfileTypes, Prf!Staff
<1>6. ProfileLocks /\ PendingOnce
  BY <1>3, <1>4 DEF ProfileLocks, PendingOnce, Holds, Decides
<1>7. LogTells
  BY <1>1, <1>2 DEF LogTells
<1> QED BY <1>5, <1>6, <1>7 DEF ProfilesInv

(* A step of one handler that leaves requests and log alone.               *)
LEMMA ProfilesQuiet ==
  ASSUME ProfilesInv, UNCHANGED <<x2, x3>>, x1' \in Prf!Staff,
         NEW h \in Handlers, NEW t \in ProfileTxn, txn' = [txn EXCEPT ![h] = t],
         t.step \in {"count", "insert", "resign"} => \A g \in Handlers \ {h} : ~Holds(g),
         t.step = "insert" => Prf!Pending = {},
         t.step \in {"claimed", "approve"} =>
           t.id \in Prf!Pending /\ \A g \in Handlers \ {h} : ~Decides(g, t.id)
  PROVE  ProfilesInv'
<1>1. Prf!Pending' = Prf!Pending
  BY DEF Prf!Pending
<1>2. ProfileTypes'
  BY DEF ProfilesInv, ProfileTypes
<1>3. \A g \in Handlers : txn'[g] = IF g = h THEN t ELSE txn[g]
  BY DEF ProfilesInv, ProfileTypes
<1>4. ProfileLocks'
  BY <1>1, <1>3 DEF ProfilesInv, ProfileLocks, Holds, Decides
<1>5. PendingOnce' /\ LogTells'
  BY <1>1 DEF ProfilesInv, PendingOnce, LogTells
<1> QED BY <1>2, <1>4, <1>5 DEF ProfilesInv

(* A decision is written: one pending request leaves, the log may grow.    *)
LEMMA Decided ==
  ASSUME ProfilesInv, NEW i \in Prf!Pending,
         NEW to \in {"APPROVED", "REJECTED", "CANCELLED"},
         x2' = [x2 EXCEPT ![i].state = to],
         NEW e, IF to = "APPROVED"
                THEN e \in Prf!Entry /\ e.id = i /\ e.after = x2[i].new /\ x3' = Append(x3, e)
                ELSE x3' = x3
  PROVE  /\ x2' \in [ChangeIds -> Prf!Request] /\ x3' \in Seq(Prf!Entry)
         /\ Prf!Pending' = {} /\ PendingOnce' /\ LogTells'
<1>1. i \in ChangeIds /\ x2[i].state = "PENDING"
  BY DEF Prf!Pending
<1>2. /\ x2' \in [ChangeIds -> Prf!Request]
      /\ \A j \in ChangeIds : /\ x2'[j].new = x2[j].new
                               /\ x2'[j].state = IF j = i THEN to ELSE x2[j].state
  BY <1>1 DEF ProfilesInv, ProfileTypes, Prf!Request
<1>3. Prf!Pending' = {}
  BY <1>1, <1>2 DEF ProfilesInv, PendingOnce, Prf!Pending
<1>4. x3' \in Seq(Prf!Entry)
  BY DEF ProfilesInv, ProfileTypes
<1>5. \A n \in 1..Len(x3) : x3[n].id \in ChangeIds /\ x3[n].id # i
  <2>1. \A n \in 1..Len(x3) : x3[n] \in Prf!Entry
    BY DEF ProfilesInv, ProfileTypes
  <2> QED BY <1>1, <2>1 DEF ProfilesInv, LogTells, Prf!Entry
<1>6. LogTells'
  <2>1. CASE to = "APPROVED"
    <3>1. /\ Len(x3') = Len(x3) + 1 /\ Len(x3) \in Nat
          /\ \A n \in 1..Len(x3') : x3'[n] = IF n \in 1..Len(x3) THEN x3[n] ELSE e
      BY <2>1 DEF ProfilesInv, ProfileTypes
    <3>2. \A n \in 1..Len(x3) : n \in 1..Len(x3') /\ x3'[n] = x3[n]
      BY <3>1
    <3>3. Len(x3') \in 1..Len(x3') /\ x3'[Len(x3')] = e
      BY <3>1
    <3>4. \A n \in 1..Len(x3') : n \notin 1..Len(x3) => n = Len(x3')
      BY <3>1
    <3>5. \A n \in 1..Len(x3') : x2'[x3'[n].id].state = "APPROVED"
                                /\ x3'[n].after = x2'[x3'[n].id].new
      BY <1>1, <1>2, <1>5, <2>1, <3>1 DEF ProfilesInv, LogTells
    <3>6. \A m, n \in 1..Len(x3') : x3'[m].id = x3'[n].id => m = n
      BY <1>5, <2>1, <3>1, <3>4 DEF ProfilesInv, LogTells
    <3>7. \A j \in ChangeIds : x2'[j].state = "APPROVED" =>
             \E n \in 1..Len(x3') : x3'[n].id = j
      BY <1>2, <2>1, <3>2, <3>3 DEF ProfilesInv, LogTells
    <3> QED BY <3>5, <3>6, <3>7 DEF LogTells
  <2>2. CASE to # "APPROVED"
    BY <1>1, <1>2, <1>5, <2>2 DEF ProfilesInv, LogTells
  <2> QED BY <2>1, <2>2
<1> QED BY <1>2, <1>3, <1>4, <1>6 DEF PendingOnce

LEMMA ProfilesStep == ProfilesInv /\ [Prf!Next]_(Prf!vars) => ProfilesInv'
<1> SUFFICES ASSUME ProfilesInv, [Prf!Next]_(Prf!vars) PROVE ProfilesInv'
  OBVIOUS
<1>0. Prf!Idle \in ProfileTxn /\ Prf!Idle.step = "idle"
  BY DEF ProfileTxn, Prf!Idle
<1>1. ASSUME NEW i \in ChangeIds, Prf!Cancel(i)
      PROVE  ProfilesInv'
  <2>1. /\ i \in Prf!Pending /\ x2' = [x2 EXCEPT ![i].state = "CANCELLED"]
        /\ UNCHANGED <<x1, x3, txn>> /\ \A h \in Handlers : ~Decides(h, i)
    BY <1>1 DEF Prf!Cancel, Prf!Pending, Prf!Deciding, Decides
  <2>2. /\ x2' \in [ChangeIds -> Prf!Request] /\ x3' \in Seq(Prf!Entry)
        /\ Prf!Pending' = {} /\ PendingOnce' /\ LogTells'
    BY <2>1, Decided
  <2>3. \A h \in Handlers, j \in ChangeIds : ~Decides(h, j)
    BY <2>1 DEF ProfilesInv, ProfileLocks, PendingOnce
  <2> QED
    BY <2>1, <2>2, <2>3 DEF ProfilesInv, ProfileTypes, ProfileLocks, Holds, Decides
<1>2. ASSUME NEW h \in Handlers, NEW value \in Names, Prf!Create(h, value)
      PROVE  ProfilesInv'
  <2> DEFINE t == [step |-> "count", old |-> x1.name, new |-> value]
  <2>1. t \in ProfileTxn /\ t.step = "count"
    BY DEF ProfileTxn, ProfilesInv, ProfileTypes, Prf!Staff
  <2>2. /\ txn' = [txn EXCEPT ![h] = t] /\ UNCHANGED <<x1, x2, x3>>
        /\ \A g \in Handlers \ {h} : ~Holds(g)
    BY <1>2 DEF Prf!Create, Prf!Begin, Prf!Quiet, Prf!rows, Prf!StaffFree, Holds
  <2> HIDE DEF t
  <2> QED BY <2>1, <2>2, ProfilesQuiet DEF ProfilesInv, ProfileTypes
<1>3. ASSUME NEW h \in Handlers, Prf!CreateCount(h)
      PROVE  ProfilesInv'
  <2>1. \A g \in Handlers \ {h} : ~Holds(g)
    BY <1>3 DEF Prf!CreateCount, ProfilesInv, ProfileLocks, Holds
  <2>2. CASE Prf!Pending = {} /\ Prf!Goto(h, [txn[h] EXCEPT !.step = "insert"])
    <3> DEFINE t == [txn[h] EXCEPT !.step = "insert"]
    <3>1. txn[h] \in [step: {"count", "insert"}, old: Names, new: Names]
      BY <1>3 DEF Prf!CreateCount, ProfilesInv, ProfileTypes, ProfileTxn, Prf!Idle
    <3>2. t \in ProfileTxn /\ t.step = "insert"
      BY <3>1 DEF ProfileTxn
    <3>3. txn' = [txn EXCEPT ![h] = t] /\ UNCHANGED <<x1, x2, x3>>
      BY <1>3, <2>2 DEF Prf!CreateCount, Prf!Goto, Prf!Quiet, Prf!rows
    <3> HIDE DEF t
    <3> QED
      BY <2>1, <2>2, <3>2, <3>3, ProfilesQuiet DEF ProfilesInv, ProfileTypes
  <2>3. CASE Prf!End(h)
    BY <1>0, <1>3, <2>3, ProfilesQuiet
    DEF Prf!CreateCount, Prf!End, Prf!Quiet, Prf!rows, ProfilesInv, ProfileTypes
  <2> QED BY <1>3, <2>2, <2>3 DEF Prf!CreateCount
<1>4. ASSUME NEW h \in Handlers, NEW i \in ChangeIds, Prf!CreateInsert(h, i)
      PROVE  ProfilesInv'
  <2> DEFINE q == [state |-> "PENDING", old |-> txn[h].old, new |-> txn[h].new]
  <2>1. txn[h] \in [step: {"count", "insert"}, old: Names, new: Names]
    BY <1>4 DEF Prf!CreateInsert, ProfilesInv, ProfileTypes, ProfileTxn, Prf!Idle
  <2>2. q \in Prf!Request /\ q.state = "PENDING" /\ q.new \in Names
    BY <2>1 DEF Prf!Request
  <2>3. /\ x2' = [x2 EXCEPT ![i] = q] /\ txn' = [txn EXCEPT ![h] = Prf!Idle]
        /\ UNCHANGED <<x1, x3>> /\ x2[i].state = "ABSENT"
    BY <1>4 DEF Prf!CreateInsert, Prf!End, Prf!NoRequest
  <2> HIDE DEF q
  <2>4. Prf!Pending = {} /\ \A g \in Handlers \ {h} : ~Holds(g)
    BY <1>4 DEF Prf!CreateInsert, ProfilesInv, ProfileLocks, Holds
  <2>5. ProfileTypes'
    BY <1>0, <2>2, <2>3 DEF ProfilesInv, ProfileTypes
  <2>6. Prf!Pending' = {i} /\ x2'[i].new \in Names
    BY <2>2, <2>3, <2>4 DEF ProfilesInv, ProfileTypes, Prf!Pending
  <2>7. \A g \in Handlers : txn'[g] = IF g = h THEN Prf!Idle ELSE txn[g]
    BY <2>3 DEF ProfilesInv, ProfileTypes
  <2>8. ProfileLocks'
    BY <1>0, <2>4, <2>7 DEF ProfilesInv, ProfileLocks, Holds, Decides
  <2>9. \A n \in 1..Len(x3) : x3[n] \in Prf!Entry /\ x3[n].id # i
    <3>1. \A n \in 1..Len(x3) : x3[n] \in Prf!Entry
      BY DEF ProfilesInv, ProfileTypes
    <3> QED BY <2>3, <3>1 DEF ProfilesInv, LogTells
  <2>10. LogTells'
    BY <2>2, <2>3, <2>9 DEF ProfilesInv, ProfileTypes, LogTells, Prf!Entry
  <2> QED BY <2>5, <2>6, <2>8, <2>10 DEF ProfilesInv, PendingOnce
<1>5. ASSUME NEW h \in Handlers, NEW i \in ChangeIds, NEW to \in {"APPROVED", "REJECTED"},
             Prf!Decide(h, i, to)
      PROVE  ProfilesInv'
  <2> DEFINE t == [step |-> "claimed", id |-> i, to |-> to]
  <2>1. t \in ProfileTxn /\ t.step = "claimed" /\ t.id = i
    BY DEF ProfileTxn
  <2>2. /\ txn' = [txn EXCEPT ![h] = t] /\ UNCHANGED <<x1, x2, x3>>
        /\ i \in Prf!Pending /\ \A g \in Handlers : ~Decides(g, i)
    BY <1>5
    DEF Prf!Decide, Prf!Begin, Prf!Quiet, Prf!rows, Prf!Deciding, Prf!Claimable, Decides,
        Prf!Pending
  <2> HIDE DEF t
  <2> QED BY <2>1, <2>2, ProfilesQuiet DEF ProfilesInv, ProfileTypes
<1>6. ASSUME NEW h \in Handlers, Prf!RejectCommit(h)
      PROVE  ProfilesInv'
  <2> DEFINE i == txn[h].id
  <2>1. txn[h] \in [step: {"claimed"}, id: ChangeIds, to: {"APPROVED", "REJECTED"}]
    BY <1>6 DEF Prf!RejectCommit, ProfilesInv, ProfileTypes, ProfileTxn, Prf!Idle
  <2>2. i \in Prf!Pending /\ Decides(h, i)
    BY <2>1 DEF ProfilesInv, ProfileLocks, Decides
  <2>3. /\ txn' = [txn EXCEPT ![h] = Prf!Idle] /\ UNCHANGED <<x1, x3>>
        /\ x2' = [x2 EXCEPT ![i].state = "REJECTED"]
    BY <1>6 DEF Prf!RejectCommit, Prf!End
  <2> HIDE DEF i
  <2>4. /\ x2' \in [ChangeIds -> Prf!Request] /\ x3' \in Seq(Prf!Entry)
        /\ Prf!Pending' = {} /\ PendingOnce' /\ LogTells'
    BY <2>2, <2>3, Decided
  <2>5. \A g \in Handlers : txn'[g] = IF g = h THEN Prf!Idle ELSE txn[g]
    BY <2>3 DEF ProfilesInv, ProfileTypes
  <2>6. \A g \in Handlers \ {h}, j \in ChangeIds : ~Decides(g, j)
    BY <2>2 DEF ProfilesInv, ProfileLocks, PendingOnce
  <2>7. ProfileLocks'
    BY <1>0, <2>4, <2>5, <2>6 DEF ProfilesInv, ProfileLocks, Holds, Decides
  <2>8. ProfileTypes'
    BY <1>0, <2>3, <2>4 DEF ProfilesInv, ProfileTypes
  <2> QED BY <2>4, <2>7, <2>8 DEF ProfilesInv
<1>7. ASSUME NEW h \in Handlers, Prf!ApproveRead(h)
      PROVE  ProfilesInv'
  <2> DEFINE t == [step |-> "approve", id |-> txn[h].id, before |-> x1.name]
  <2>1. txn[h] \in [step: {"claimed"}, id: ChangeIds, to: {"APPROVED", "REJECTED"}]
    BY <1>7 DEF Prf!ApproveRead, ProfilesInv, ProfileTypes, ProfileTxn, Prf!Idle
  <2>2. t \in ProfileTxn /\ t.step = "approve" /\ t.id = txn[h].id
    BY <2>1 DEF ProfileTxn, ProfilesInv, ProfileTypes, Prf!Staff
  <2>3. t.id \in Prf!Pending /\ \A g \in Handlers \ {h} : ~Decides(g, t.id)
    BY <2>1, <2>2 DEF ProfilesInv, ProfileLocks, Decides
  <2>4. txn' = [txn EXCEPT ![h] = t] /\ UNCHANGED <<x1, x2, x3>>
    BY <1>7 DEF Prf!ApproveRead, Prf!Goto, Prf!Quiet, Prf!rows
  <2> HIDE DEF t
  <2> QED BY <2>2, <2>3, <2>4, ProfilesQuiet DEF ProfilesInv, ProfileTypes
<1>8. ASSUME NEW h \in Handlers, Prf!ApproveCommit(h)
      PROVE  ProfilesInv'
  <2> DEFINE i == txn[h].id
             e == [id |-> i, before |-> txn[h].before, after |-> x2[i].new]
  <2>1. txn[h] \in [step: {"approve"}, id: ChangeIds, before: Names]
    BY <1>8 DEF Prf!ApproveCommit, ProfilesInv, ProfileTypes, ProfileTxn, Prf!Idle
  <2>2. i \in Prf!Pending /\ Decides(h, i)
    BY <2>1 DEF ProfilesInv, ProfileLocks, Decides
  <2>3. /\ txn' = [txn EXCEPT ![h] = Prf!Idle]
        /\ x2' = [x2 EXCEPT ![i].state = "APPROVED"]
        /\ x1' = [x1 EXCEPT !.name = x2[i].new] /\ x3' = Append(x3, e)
    BY <1>8 DEF Prf!ApproveCommit, Prf!End
  <2>4. x2[i].new \in Names /\ e \in Prf!Entry /\ e.id = i /\ e.after = x2[i].new
    BY <2>1, <2>2 DEF ProfilesInv, PendingOnce, Prf!Entry
  <2> HIDE DEF i, e
  <2>5. /\ x2' \in [ChangeIds -> Prf!Request] /\ x3' \in Seq(Prf!Entry)
        /\ Prf!Pending' = {} /\ PendingOnce' /\ LogTells'
    BY <2>2, <2>3, <2>4, Decided
  <2>6. \A g \in Handlers : txn'[g] = IF g = h THEN Prf!Idle ELSE txn[g]
    BY <2>3 DEF ProfilesInv, ProfileTypes
  <2>7. \A g \in Handlers \ {h}, j \in ChangeIds : ~Decides(g, j)
    BY <2>2 DEF ProfilesInv, ProfileLocks, PendingOnce
  <2>8. ProfileLocks'
    BY <1>0, <2>5, <2>6, <2>7 DEF ProfilesInv, ProfileLocks, Holds, Decides
  <2>9. ProfileTypes'
    BY <1>0, <2>3, <2>4, <2>5 DEF ProfilesInv, ProfileTypes, Prf!Staff
  <2> QED BY <2>5, <2>8, <2>9 DEF ProfilesInv
<1>9. ASSUME NEW h \in Handlers,
             NEW what \in Names \cup {"part_time", "full_time", "off_days"},
             Prf!Update(h, what)
      PROVE  ProfilesInv'
  <2> DEFINE t == [step |-> "update", what |-> what, partTime |-> x1.partTime]
  <2>1. t \in ProfileTxn /\ t.step = "update"
    BY DEF ProfileTxn, ProfilesInv, ProfileTypes, Prf!Staff
  <2>2. txn' = [txn EXCEPT ![h] = t] /\ UNCHANGED <<x1, x2, x3>>
    BY <1>9 DEF Prf!Update, Prf!Begin, Prf!Quiet, Prf!rows
  <2> HIDE DEF t
  <2> QED BY <2>1, <2>2, ProfilesQuiet DEF ProfilesInv, ProfileTypes
<1>10. ASSUME NEW h \in Handlers, Prf!UpdateWrite(h)
       PROVE  ProfilesInv'
  <2>1. txn[h] \in [step: {"update"}, partTime: BOOLEAN,
                   what: Names \cup {"part_time", "full_time", "off_days"}]
    BY <1>10 DEF Prf!UpdateWrite, ProfilesInv, ProfileTypes, ProfileTxn, Prf!Idle
  <2>2. Prf!Updated(txn[h]) \in Prf!Staff
    BY <2>1 DEF Prf!Updated, ProfilesInv, ProfileTypes, Prf!Staff
  <2>3. x1' \in Prf!Staff /\ UNCHANGED <<x2, x3>> /\ txn' = [txn EXCEPT ![h] = Prf!Idle]
    BY <1>10, <2>2 DEF Prf!UpdateWrite, Prf!End, ProfilesInv, ProfileTypes
  <2> QED BY <1>0, <2>3, ProfilesQuiet
<1>11. ASSUME NEW h \in Handlers, Prf!Resign(h)
       PROVE  ProfilesInv'
  <2> DEFINE t == [step |-> "resign"]
  <2>1. t \in ProfileTxn /\ t.step = "resign"
    BY DEF ProfileTxn
  <2>2. /\ txn' = [txn EXCEPT ![h] = t] /\ UNCHANGED <<x1, x2, x3>>
        /\ \A g \in Handlers \ {h} : ~Holds(g)
    BY <1>11 DEF Prf!Resign, Prf!Begin, Prf!Quiet, Prf!rows, Prf!StaffFree, Holds
  <2> HIDE DEF t
  <2> QED BY <2>1, <2>2, ProfilesQuiet DEF ProfilesInv, ProfileTypes
<1>12. ASSUME NEW h \in Handlers, Prf!ResignCommit(h)
       PROVE  ProfilesInv'
  <2>1. x1' \in Prf!Staff /\ UNCHANGED <<x2, x3>> /\ txn' = [txn EXCEPT ![h] = Prf!Idle]
    BY <1>12 DEF Prf!ResignCommit, Prf!End, ProfilesInv, ProfileTypes, Prf!Staff
  <2> QED BY <1>0, <2>1, ProfilesQuiet
<1>13. ASSUME NEW h \in Handlers, Prf!Abort(h)
       PROVE  ProfilesInv'
  BY <1>0, <1>13, ProfilesQuiet
  DEF Prf!Abort, Prf!End, Prf!Quiet, Prf!rows, ProfilesInv, ProfileTypes
<1>14. CASE UNCHANGED Prf!vars
  BY <1>14
  DEF Prf!vars, Prf!rows, ProfilesInv, ProfileTypes, ProfileLocks, PendingOnce, LogTells,
      Holds, Decides, Prf!Pending
<1> QED
  BY <1>1, <1>2, <1>3, <1>4, <1>5, <1>6, <1>7, <1>8, <1>9, <1>10, <1>11, <1>12, <1>13, <1>14
  DEF Prf!Next

(* It holds whenever the desk of profiles is at work.                      *)
ProfilesAt == desk = "profiles" => ProfilesInv
LEMMA ProfilesInvariant == OfficeSpec => []ProfilesAt
<1>1. OfficeInit => ProfilesAt
  BY ProfilesInit DEF OfficeInit, ProfilesAt
<1>2. ProfilesAt /\ [OfficeNext]_vars => ProfilesAt'
  <2> SUFFICES ASSUME ProfilesAt, [OfficeNext]_vars, desk' = "profiles" PROVE ProfilesInv'
    BY DEF ProfilesAt
  <2>1. desk = "profiles"
    BY DEF OfficeNext, vars
  <2> QED BY <2>1, ProfilesDesk, ProfilesStep DEF ProfilesAt
<1> QED BY <1>1, <1>2, PTL DEF OfficeSpec

(* A set of at most one element counts at most one.                        *)
LEMMA CountOne ==
  ASSUME NEW S, \A a, b \in S : a = b
  PROVE  Cardinality(S) = IF S = {} THEN 0 ELSE 1
<1>1. CASE S = {}
  BY <1>1, FS_EmptySet
<1>2. CASE S # {}
  <2>1. PICK a \in S : TRUE
    BY <1>2
  <2>2. S = {a}
    BY <2>1
  <2> QED BY <1>2, <2>2, FS_Singleton
<1> QED BY <1>1, <1>2

LEMMA SameProfileCount == \A S : Prf!Cardinality(S) = Cardinality(S)
BY DEF Prf!Cardinality, Cardinality

(* A person never has two open change requests for a field, however many   *)
(* are made, decided and cancelled at once.                                *)
THEOREM OneOpenRequest == OfficeSpec => []OnePending
<1>1. ProfilesAt => OnePending
  <2> SUFFICES ASSUME ProfilesInv PROVE Prf!OnePending
    BY DEF ProfilesAt, OnePending
  <2> QED
    BY CountOne, SameProfileCount DEF ProfilesInv, PendingOnce, Prf!OnePending
<1> QED BY <1>1, ProfilesInvariant, PTL

(* The log of a profile tells of each approved request once, with its own  *)
(* value, and of no other.                                                 *)
LEMMA RequestsApplied == ProfilesInv => Prf!AppliedOnce
<1> SUFFICES ASSUME ProfilesInv, NEW i \in ChangeIds
             PROVE  LET entries == {n \in 1..Len(x3) : x3[n].id = i}
                    IN  /\ Cardinality(entries) = IF x2[i].state = "APPROVED" THEN 1 ELSE 0
                        /\ \A n \in entries : x3[n].after = x2[i].new
  BY SameProfileCount DEF Prf!AppliedOnce
<1> DEFINE entries == {n \in 1..Len(x3) : x3[n].id = i}
<1>1. entries # {} <=> x2[i].state = "APPROVED"
  BY DEF ProfilesInv, LogTells
<1>2. Cardinality(entries) = IF entries = {} THEN 0 ELSE 1
  BY CountOne DEF ProfilesInv, LogTells
<1>3. \A n \in entries : x3[n].after = x2[i].new
  BY DEF ProfilesInv, LogTells
<1> HIDE DEF entries
<1> QED BY <1>1, <1>2, <1>3 DEF entries

LEMMA ProfilesTyped == ProfilesInv => Prf!TypeOK
BY DEF ProfilesInv, ProfileTypes, ProfileTxn, Prf!TypeOK

-----------------------------------------------------------------------------
(* MemberAccount                                                           *)

(* Accounts and the members they belong to: one each, and a member who     *)
(* registered in the app has one from the start.                           *)
Paired ==
  /\ \A a \in Accounts : Acc!Exists(a) => x3[a].email \in Emails
  /\ \A a \in Accounts : Acc!Exists(a) => \E m \in Members : x2[m] = a
  /\ \A m \in Members : x2[m] # None => Acc!Exists(x2[m]) /\ x1[m] # "ABSENT"
  /\ \A m, n \in Members : x2[m] # None /\ x2[m] = x2[n] => m = n
  /\ \A m \in Members \ AtDesk : x1[m] # "ABSENT" => x2[m] # None

(* A status change knows the member's account, or read the member before   *)
(* one was linked.                                                         *)
AccountAsks ==
  \A h \in Handlers :
    LET t == txn[h]
    IN  /\ t.step \in {"register", "link"} => t.email \in Emails
        /\ t.step \in {"link", "status"} => t.member \in Members /\ x1[t.member] # "ABSENT"
        /\ t.step = "status" =>
             /\ t.to # "ABSENT"
             /\ t.account \in {None, x2[t.member]}
             /\ t.member \notin AtDesk => t.account = x2[t.member]

AccountsInv == Acc!TypeOK /\ Paired /\ AccountAsks /\ Acc!LoginFollowsStatus

(* At the desk of accounts only its handlers work.                         *)
LEMMA AccountsDesk ==
  ASSUME [OfficeNext]_vars, desk = "accounts"
  PROVE  desk' = "accounts" /\ [Acc!Next]_(Acc!vars)
BY DEF OfficeNext, vars, Acc!vars, From3

LEMMA NoneIsNoAccount == None \notin Accounts /\ None \notin Emails /\ AtDesk \subseteq Members
BY OfficeAssumption

LEMMA AccountsInit == Acc!Init => AccountsInv
<1> SUFFICES ASSUME Acc!Init PROVE AccountsInv
  OBVIOUS
<1>1. Acc!Idle \in Acc!Txn /\ Acc!Idle.step = "idle"
  BY DEF Acc!Idle, Acc!Txn, Acc!Status
<1>2. Acc!TypeOK
  BY <1>1 DEF Acc!Init, Acc!TypeOK, Acc!Status, Acc!NoLogin, Acc!Login
<1>3. (\A a \in Accounts : ~Acc!Exists(a)) /\ \A m \in Members : x2[m] = None
  BY DEF Acc!Init, Acc!Exists
<1>4. \A m \in Members \ AtDesk : x1[m] = "ABSENT"
  BY DEF Acc!Init
<1>5. \A h \in Handlers : txn[h].step = "idle"
  BY <1>1 DEF Acc!Init
<1> QED
  BY <1>2, <1>3, <1>4, <1>5 DEF AccountsInv, Paired, AccountAsks, Acc!LoginFollowsStatus

(* A step of one handler that leaves the rows alone.                       *)
LEMMA AccountsQuiet ==
  ASSUME AccountsInv, UNCHANGED <<x1, x2, x3>>,
         NEW h \in Handlers, NEW t \in Acc!Txn, txn' = [txn EXCEPT ![h] = t],
         t.step \in {"register", "link"} => t.email \in Emails,
         t.step \in {"link", "status"} => t.member \in Members /\ x1[t.member] # "ABSENT",
         t.step = "status" => t.to # "ABSENT" /\ t.account = x2[t.member]
  PROVE  AccountsInv'
<1>1. \A g \in Handlers : txn'[g] = IF g = h THEN t ELSE txn[g]
  BY DEF AccountsInv, Acc!TypeOK
<1>2. AccountAsks'
  BY <1>1 DEF AccountsInv, AccountAsks
<1>3. Acc!TypeOK' /\ Paired' /\ Acc!LoginFollowsStatus'
  BY DEF AccountsInv, Acc!TypeOK, Paired, Acc!Exists, Acc!LoginFollowsStatus
<1> QED BY <1>2, <1>3 DEF AccountsInv

(* A new account for a member who has none.                                *)
LEMMA AccountAdded ==
  ASSUME AccountsInv, NEW h \in Handlers, NEW m \in Members, NEW a \in Accounts,
         NEW e \in Emails, ~Acc!Exists(a), x2[m] = None,
         NEW s \in Acc!Status \ {"ABSENT", "WITHDRAWN"},
         m \in AtDesk \/ x1[m] = "ABSENT",
         x1' = IF x1[m] = "ABSENT" THEN [x1 EXCEPT ![m] = s] ELSE x1,
         x2' = [x2 EXCEPT ![m] = a],
         x3' = [x3 EXCEPT ![a] = [email |-> e, active |-> TRUE]],
         txn' = [txn EXCEPT ![h] = Acc!Idle]
  PROVE  AccountsInv'
<1> USE NoneIsNoAccount
<1>1. Acc!Idle \in Acc!Txn /\ Acc!Idle.step = "idle"
  BY DEF Acc!Idle, Acc!Txn, Acc!Status
<1>2. Acc!TypeOK'
  BY <1>1 DEF AccountsInv, Acc!TypeOK, Acc!Login
<1>3. \A n \in Members : /\ x2'[n] = IF n = m THEN a ELSE x2[n]
                         /\ n # m => x1'[n] = x1[n]
  BY DEF AccountsInv, Acc!TypeOK
<1>4. x1'[m] # "ABSENT" /\ (x1[m] # "ABSENT" => x1'[m] = x1[m])
  BY DEF AccountsInv, Acc!TypeOK
<1>5. \A b \in Accounts : x3'[b] = IF b = a THEN [email |-> e, active |-> TRUE] ELSE x3[b]
  BY DEF AccountsInv, Acc!TypeOK
<1>6. \A b \in Accounts : Acc!Exists(b)' <=> b = a \/ Acc!Exists(b)
  BY <1>5 DEF Acc!Exists, Acc!NoLogin
<1>7. \A n \in Members : x2[n] # a /\ x2[n] \in Accounts \cup {None}
  BY DEF AccountsInv, Paired, Acc!TypeOK
<1>8. Paired'
  BY <1>3, <1>4, <1>5, <1>6, <1>7 DEF AccountsInv, Paired
<1>9. \A g \in Handlers : txn'[g] = IF g = h THEN Acc!Idle ELSE txn[g]
  BY DEF AccountsInv, Acc!TypeOK
<1>10. AccountAsks'
  <2> SUFFICES ASSUME NEW g \in Handlers, g # h
               PROVE  LET t == txn[g]
                      IN  /\ t.step \in {"register", "link"} => t.email \in Emails
                          /\ t.step \in {"link", "status"} =>
                               t.member \in Members /\ x1'[t.member] # "ABSENT"
                          /\ t.step = "status" =>
                               /\ t.to # "ABSENT"
                               /\ t.account \in {None, x2'[t.member]}
                               /\ t.member \notin AtDesk => t.account = x2'[t.member]
    BY <1>1, <1>9 DEF AccountAsks
  <2> QED BY <1>3, <1>4 DEF AccountsInv, AccountAsks
<1>11. Acc!LoginFollowsStatus'
  <2> SUFFICES ASSUME NEW n \in Members \ AtDesk, x2'[n] # None
               PROVE  x3'[x2'[n]].active <=> x1'[n] # "WITHDRAWN"
    BY DEF Acc!LoginFollowsStatus
  <2>1. CASE n = m
    <3>1. x1'[m] = s
      BY <2>1 DEF AccountsInv, Acc!TypeOK
    <3> QED BY <1>3, <1>5, <2>1, <3>1
  <2>2. CASE n # m
    BY <1>3, <1>5, <1>7, <2>2 DEF AccountsInv, Acc!LoginFollowsStatus
  <2> QED BY <2>1, <2>2
<1> QED BY <1>2, <1>8, <1>10, <1>11 DEF AccountsInv

LEMMA AccountsStep == AccountsInv /\ [Acc!Next]_(Acc!vars) => AccountsInv'
<1> SUFFICES ASSUME AccountsInv, [Acc!Next]_(Acc!vars) PROVE AccountsInv'
  OBVIOUS
<1> USE NoneIsNoAccount
<1>0. Acc!Idle \in Acc!Txn /\ Acc!Idle.step = "idle"
  BY DEF Acc!Idle, Acc!Txn, Acc!Status
<1>1. ASSUME NEW h \in Handlers, NEW e \in Emails, Acc!Register(h, e)
      PROVE  AccountsInv'
  <2> DEFINE t == [Acc!Idle EXCEPT !.step = "register", !.email = e]
  <2>1. t \in Acc!Txn /\ t.step = "register" /\ t.email = e
    BY DEF Acc!Idle, Acc!Txn, Acc!Status
  <2>2. txn' = [txn EXCEPT ![h] = t] /\ UNCHANGED <<x1, x2, x3>>
    BY <1>1 DEF Acc!Register, Acc!Begin
  <2> HIDE DEF t
  <2> QED BY <2>1, <2>2, AccountsQuiet
<1>2. ASSUME NEW h \in Handlers, NEW m \in Members, NEW e \in Emails, Acc!Link(h, m, e)
      PROVE  AccountsInv'
  <2> DEFINE t == [Acc!Idle EXCEPT !.step = "link", !.member = m, !.email = e]
  <2>1. t \in Acc!Txn /\ t.step = "link" /\ t.email = e /\ t.member = m
    BY DEF Acc!Idle, Acc!Txn, Acc!Status
  <2>2. txn' = [txn EXCEPT ![h] = t] /\ UNCHANGED <<x1, x2, x3>> /\ x1[m] # "ABSENT"
    BY <1>2 DEF Acc!Link, Acc!Begin
  <2> HIDE DEF t
  <2> QED BY <2>1, <2>2, AccountsQuiet
<1>3. ASSUME NEW h \in Handlers, NEW m \in Members, NEW a \in Accounts,
             Acc!RegisterCommit(h, m, a)
      PROVE  AccountsInv'
  <2>1. txn[h].email \in Emails
    BY <1>3 DEF Acc!RegisterCommit, AccountsInv, AccountAsks
  <2>2. x2[m] = None /\ ~Acc!Exists(a) /\ x1[m] = "ABSENT"
    BY <1>3 DEF Acc!RegisterCommit, AccountsInv, Paired
  <2>3. "ACTIVE" \in Acc!Status \ {"ABSENT", "WITHDRAWN"}
    BY DEF Acc!Status
  <2>4. /\ x1' = [x1 EXCEPT ![m] = "ACTIVE"] /\ x2' = [x2 EXCEPT ![m] = a]
        /\ x3' = [x3 EXCEPT ![a] = [email |-> txn[h].email, active |-> TRUE]]
        /\ txn' = [txn EXCEPT ![h] = Acc!Idle]
    BY <1>3 DEF Acc!RegisterCommit, Acc!End
  <2> QED BY <2>1, <2>2, <2>3, <2>4, AccountAdded
<1>4. ASSUME NEW h \in Handlers, NEW a \in Accounts, Acc!LinkCommit(h, a)
      PROVE  AccountsInv'
  <2> DEFINE m == txn[h].member
  <2>1. txn[h].email \in Emails /\ m \in Members /\ x1[m] # "ABSENT"
    BY <1>4 DEF Acc!LinkCommit, AccountsInv, AccountAsks
  <2>2. x2[m] = None /\ ~Acc!Exists(a) /\ m \in AtDesk
    BY <1>4, <2>1 DEF Acc!LinkCommit, AccountsInv, Paired
  <2>3. /\ x1' = x1 /\ x2' = [x2 EXCEPT ![m] = a]
        /\ x3' = [x3 EXCEPT ![a] = [email |-> txn[h].email, active |-> TRUE]]
        /\ txn' = [txn EXCEPT ![h] = Acc!Idle]
    BY <1>4 DEF Acc!LinkCommit, Acc!End
  <2>4. "ACTIVE" \in Acc!Status \ {"ABSENT", "WITHDRAWN"}
    BY DEF Acc!Status
  <2> HIDE DEF m
  <2> QED BY <2>1, <2>2, <2>3, <2>4, AccountAdded
<1>5. ASSUME NEW h \in Handlers, NEW m \in Members, NEW to \in Acc!Status,
             Acc!UpdateStatus(h, m, to)
      PROVE  AccountsInv'
  <2> DEFINE t == [Acc!Idle EXCEPT !.step = "status", !.member = m, !.account = x2[m],
                                   !.from = x1[m], !.to = to]
  <2>1. /\ t \in Acc!Txn /\ t.step = "status" /\ t.member = m /\ t.account = x2[m]
        /\ t.to = to
    BY DEF Acc!Idle, Acc!Txn, AccountsInv, Acc!TypeOK
  <2>2. /\ txn' = [txn EXCEPT ![h] = t] /\ UNCHANGED <<x1, x2, x3>>
        /\ x1[m] # "ABSENT" /\ to # "ABSENT"
    BY <1>5 DEF Acc!UpdateStatus, Acc!Begin
  <2> HIDE DEF t
  <2> QED BY <2>1, <2>2, AccountsQuiet
<1>6. ASSUME NEW h \in Handlers, Acc!StatusCommit(h)
      PROVE  AccountsInv'
  <2> DEFINE t == txn[h]
             m == txn[h].member
             a == txn[h].account
             on == txn[h].to # "WITHDRAWN"
  <2>1. /\ m \in Members /\ x1[m] # "ABSENT" /\ t.to \in Acc!Status \ {"ABSENT"}
        /\ a \in {None, x2[m]} /\ (m \notin AtDesk => a = x2[m])
        /\ a \in Accounts \cup {None}
    BY <1>6 DEF Acc!StatusCommit, AccountsInv, AccountAsks, Acc!TypeOK, Acc!Txn
  <2>2. /\ x1' = [x1 EXCEPT ![m] = t.to] /\ x2' = x2
        /\ x3' = IF a = None THEN x3 ELSE [x3 EXCEPT ![a].active = on]
        /\ txn' = [txn EXCEPT ![h] = Acc!Idle]
    BY <1>6 DEF Acc!StatusCommit, Acc!End
  <2> HIDE DEF t, m, a, on
  <2>3. /\ x3' \in [Accounts -> Acc!Login]
        /\ \A b \in Accounts : /\ x3'[b].email = x3[b].email
                               /\ x3'[b].active = IF b = a THEN on ELSE x3[b].active
    <3>1. on \in BOOLEAN
      BY DEF on
    <3> QED BY <2>1, <2>2, <3>1 DEF AccountsInv, Acc!TypeOK, Acc!Login
  <2>4. \A b \in Accounts : Acc!Exists(b)' <=> Acc!Exists(b)
    <3>1. CASE a = None
      BY <2>2, <3>1 DEF Acc!Exists
    <3>2. CASE a # None
      <4>1. Acc!Exists(a) /\ x3[a].email \in Emails
        BY <2>1, <3>2 DEF AccountsInv, Paired
      <4>2. x3'[a].email # None
        BY <2>1, <2>3, <3>2, <4>1
      <4>3. \A b \in Accounts \ {a} : x3'[b] = x3[b]
        BY <2>2, <3>2 DEF AccountsInv, Acc!TypeOK
      <4> QED BY <4>1, <4>2, <4>3 DEF Acc!Exists, Acc!NoLogin
    <3> QED BY <3>1, <3>2
  <2>5. \A n \in Members : x1'[n] = IF n = m THEN t.to ELSE x1[n]
    BY <2>1, <2>2 DEF AccountsInv, Acc!TypeOK
  <2>6. Acc!TypeOK'
    BY <1>0, <2>1, <2>2, <2>3 DEF AccountsInv, Acc!TypeOK
  <2>7. Paired'
    BY <2>1, <2>2, <2>3, <2>4, <2>5 DEF AccountsInv, Paired, Acc!TypeOK
  <2>8. \A g \in Handlers : txn'[g] = IF g = h THEN Acc!Idle ELSE txn[g]
    BY <2>2 DEF AccountsInv, Acc!TypeOK
  <2>9. AccountAsks'
    BY <1>0, <2>1, <2>2, <2>5, <2>8 DEF AccountsInv, AccountAsks
  <2>10. Acc!LoginFollowsStatus'
    <3> SUFFICES ASSUME NEW n \in Members \ AtDesk, x2[n] # None
                 PROVE  x3'[x2[n]].active <=> x1'[n] # "WITHDRAWN"
      BY <2>2 DEF Acc!LoginFollowsStatus
    <3>1. x2[n] \in Accounts
      BY DEF AccountsInv, Acc!TypeOK
    <3>2. CASE n = m
      BY <2>1, <2>3, <2>5, <3>1, <3>2 DEF t, on
    <3>3. CASE n # m
      <4>1. x2[n] # a
        BY <2>1, <3>1, <3>3 DEF AccountsInv, Paired
      <4> QED BY <2>3, <2>5, <3>1, <3>3, <4>1 DEF AccountsInv, Acc!LoginFollowsStatus
    <3> QED BY <3>2, <3>3
  <2> QED BY <2>6, <2>7, <2>9, <2>10 DEF AccountsInv
<1>7. ASSUME NEW h \in Handlers, Acc!Abort(h)
      PROVE  AccountsInv'
  BY <1>0, <1>7, AccountsQuiet DEF Acc!Abort, Acc!End
<1>8. CASE UNCHANGED Acc!vars
  BY <1>8
  DEF Acc!vars, AccountsInv, Acc!TypeOK, Paired, Acc!Exists, AccountAsks,
      Acc!LoginFollowsStatus
<1> QED
  BY <1>1, <1>2, <1>3, <1>4, <1>5, <1>6, <1>7, <1>8 DEF Acc!Next

(* It holds whenever the desk of accounts is at work.                      *)
AccountsAt == desk = "accounts" => AccountsInv
LEMMA AccountsInvariant == OfficeSpec => []AccountsAt
<1>1. OfficeInit => AccountsAt
  BY AccountsInit DEF OfficeInit, AccountsAt
<1>2. AccountsAt /\ [OfficeNext]_vars => AccountsAt'
  <2> SUFFICES ASSUME AccountsAt, [OfficeNext]_vars, desk' = "accounts" PROVE AccountsInv'
    BY DEF AccountsAt
  <2>1. desk = "accounts"
    BY DEF OfficeNext, vars
  <2> QED BY <2>1, AccountsDesk, AccountsStep DEF AccountsAt
<1> QED BY <1>1, <1>2, PTL DEF OfficeSpec

LEMMA SameAccountCount == \A S : Acc!Cardinality(S) = Cardinality(S)
BY DEF Acc!Cardinality, Cardinality

(* Every account belongs to exactly one member, however many devices link  *)
(* members and register at once.                                           *)
THEOREM AccountsOwned == OfficeSpec => []NoOrphanAccounts
<1>1. AccountsAt => NoOrphanAccounts
  <2> SUFFICES ASSUME AccountsInv, NEW a \in Accounts, Acc!Exists(a)
               PROVE  Cardinality({m \in Members : x2[m] = a}) = 1
    BY SameAccountCount DEF AccountsAt, NoOrphanAccounts, Acc!NoOrphanAccounts
  <2> DEFINE owners == {m \in Members : x2[m] = a}
  <2>1. owners # {} /\ \A m, n \in owners : m = n
    BY NoneIsNoAccount DEF AccountsInv, Paired
  <2> HIDE DEF owners
  <2>2. Cardinality(owners) = 1
    BY <2>1, CountOne
  <2> QED BY <2>2 DEF owners
<1> QED BY <1>1, AccountsInvariant, PTL

(* The login of a member who registered in the app is open exactly while   *)
(* the member is not withdrawn, whatever status changes, links and         *)
(* registrations cross each other.                                         *)
THEOREM LoginsFollow == OfficeSpec => []LoginFollowsStatus
<1>1. AccountsAt => LoginFollowsStatus
  BY DEF AccountsAt, AccountsInv, LoginFollowsStatus
<1> QED BY <1>1, AccountsInvariant, PTL

-----------------------------------------------------------------------------
(* Attendance                                                              *)

(* What a request has read.  A check-in and a correction write a record.   *)
(* The days of a confirmation are the branch's as far as it can look: to   *)
(* yesterday, and to today while another midnight may pass before it does. *)
(* The day of a transfer or a termination is today, or yesterday if        *)
(* midnight has passed since.                                              *)
InSight(d) == d < x1 \/ (x8 = FALSE /\ d = x1)
AskOK(t) ==
  /\ t.step \in {"checkin", "correct_lock", "correct_read", "correct_write"} =>
       t.to.status # "NONE"
  /\ t.step \in {"confirm", "confirm_rows", "confirm_today", "confirm_write", "move", "recall"} =>
       t.branch \in Branches
  /\ t.step \in {"confirm_rows", "confirm_today", "confirm_write"} =>
       \A d \in t.days : InSight(d) => Att!WasAt(t.branch, d)
  /\ t.step = "confirm_write" => \A d \in t.days : d < x1
  /\ t.step \in {"move", "recall"} => t.day = x1 \/ (x8 = TRUE /\ t.day = x1 - 1)
DayAsks == \A h \in Handlers : AskOK(txn[h])

(* Who checked in has a record, and so has a day that was confirmed, once, *)
(* which is past.                                                          *)
DayRows ==
  \A d \in Att!Days :
    /\ x5[d].in => Att!Exists(d)
    /\ Len(x6[d]) <= 1
    /\ x6[d] # <<>> => Att!Exists(d) /\ d < x1 /\ Att!WasAt(x6[d][1], d)

AttendanceInv == Att!TypeOK /\ DayAsks /\ DayRows

(* At the desk of attendance only its handlers work.                       *)
LEMMA AttendanceDesk ==
  ASSUME [OfficeNext]_vars, desk = "attendance"
  PROVE  desk' = "attendance" /\ [Att!Next]_(Att!vars)
BY DEF OfficeNext, vars, Att!vars, From3

LEMMA DaysFacts ==
  /\ Att!Days \subseteq Nat /\ 1 \in Att!Days /\ MaxMoves \in Nat
  /\ None \notin Branches
BY OfficeAssumption DEF Att!Days

LEMMA CorrectionsTyped ==
  \A to \in Corrections, b \in Branches :
    [to EXCEPT !.branch = b] \in Att!Record /\ to.status # "NONE"
BY OfficeAssumption DEF Att!Record

LEMMA IdleIsDayTxn == Att!Idle \in Att!Txn /\ Att!Idle.step = "idle"
<1>1. Att!NoRecord \in Att!Record
  BY DEF Att!NoRecord, Att!Record
<1> QED BY <1>1, DaysFacts DEF Att!Idle, Att!Txn

LEMMA AttendanceInit == Att!Init => AttendanceInv
<1> SUFFICES ASSUME Att!Init PROVE AttendanceInv
  OBVIOUS
<1>1. Att!TypeOK
  <2>1. x3 \subseteq Att!Dispatch
    BY DaysFacts DEF Att!Init, Att!Dispatch
  <2>2. x5 \in [Att!Days -> Att!Record]
    BY DEF Att!Init, Att!NoRecord, Att!Record
  <2>3. x6 \in [Att!Days -> Seq(Branches)]
    BY DEF Att!Init
  <2>5. x8 \in BOOLEAN
    BY DEF Att!Init
  <2>4. txn \in [Handlers -> Att!Txn]
    BY IdleIsDayTxn DEF Att!Init
  <2> QED BY <2>1, <2>2, <2>3, <2>4, <2>5, DaysFacts DEF Att!Init, Att!TypeOK
<1>2. \A h \in Handlers : txn[h].step = "idle"
  BY IdleIsDayTxn DEF Att!Init
<1>3. \A d \in Att!Days : x5[d] = Att!NoRecord /\ x6[d] = <<>>
  BY DEF Att!Init
<1> QED BY <1>1, <1>2, <1>3 DEF AttendanceInv, DayAsks, AskOK, DayRows, Att!NoRecord

(* A branch that a person was at by branchOnDate was his then.             *)
LEMMA ReadWasAt ==
  ASSUME x3 \subseteq Att!Dispatch, NEW home, NEW d \in Att!Days,
         NEW b \in Att!branchOnDate(home, d)
  PROVE  Att!WasAt(b, d)
<1> DEFINE at == {r \in x3 : Att!Covers(r, d)}
<1>1. CASE at = {}
  BY <1>1 DEF Att!WasAt
<1>2. CASE at # {}
  <2>1. PICK r \in at : r.branch = b
    BY <1>2 DEF Att!branchOnDate
  <2>2. r.start <= d /\ (Att!Open(r) \/ d < r.end)
    BY <2>1 DEF Att!Covers
  <2>3. r \in Att!Dispatch
    BY <2>1
  <2>4. d \in Nat /\ (Att!Open(r) \/ r.end \in Nat)
    BY <2>3, DaysFacts DEF Att!Dispatch, Att!Open
  <2>5. Att!Open(r) \/ d <= r.end
    BY <2>2, <2>4
  <2> QED BY <2>1, <2>2, <2>5 DEF Att!WasAt
<1> QED BY <1>1, <1>2

(* Ending open dispatches on a day and beginning others on it changes      *)
(* nothing about where a person was up to that day.                        *)
LEMMA EndedWasAt ==
  ASSUME NEW e \in Att!Days, x3 \subseteq Att!Dispatch, x3' \subseteq Att!Dispatch,
         \A r \in x3 : r \in x3' \/ (Att!Open(r) /\ Att!Ended(r, e) \in x3'),
         \A q \in x3' : q \in x3 \/ (\E r \in x3 : Att!Open(r) /\ q = Att!Ended(r, e))
                        \/ q.start = e,
         NEW b, NEW d \in Att!Days, d <= e, Att!WasAt(b, d)
  PROVE  Att!WasAt(b, d)'
<1> USE DaysFacts
<1>1. ASSUME NEW r \in x3, Att!Open(r)
      PROVE  /\ Att!Ended(r, e).branch = r.branch /\ Att!Ended(r, e).start = r.start
             /\ Att!Ended(r, e).end = e
  BY <1>1 DEF Att!Ended, Att!Dispatch
<1>2. CASE \E r \in x3 : r.branch = b /\ r.start <= d /\ (Att!Open(r) \/ d <= r.end)
  <2>1. PICK r \in x3 : r.branch = b /\ r.start <= d /\ (Att!Open(r) \/ d <= r.end)
    BY <1>2
  <2>2. CASE r \in x3'
    BY <2>1, <2>2 DEF Att!WasAt, Att!Open
  <2>3. CASE Att!Open(r) /\ Att!Ended(r, e) \in x3'
    BY <1>1, <2>1, <2>3 DEF Att!WasAt
  <2> QED BY <2>2, <2>3
<1>3. CASE \A r \in x3 : Att!Covers(r, d) => r.start = d
  <2> SUFFICES ASSUME NEW q \in x3', Att!Covers(q, d)' PROVE q.start = d
    BY DEF Att!WasAt
  <2>0. q.start <= d /\ (q.end = None \/ d < q.end)
    BY DEF Att!Covers, Att!Open
  <2>1. CASE q \in x3
    BY <1>3, <2>0, <2>1 DEF Att!Covers, Att!Open
  <2>2. CASE \E r \in x3 : Att!Open(r) /\ q = Att!Ended(r, e)
    <3>1. PICK r \in x3 : Att!Open(r) /\ q = Att!Ended(r, e)
      BY <2>2
    <3>2. Att!Covers(r, d) /\ q.start = r.start
      BY <1>1, <2>0, <3>1 DEF Att!Covers
    <3> QED BY <1>3, <3>2
  <2>3. CASE q.start = e
    BY <2>0, <2>3 DEF Att!Dispatch
  <2> QED BY <2>1, <2>2, <2>3
<1> QED BY <1>2, <1>3 DEF Att!WasAt

(* A step of one handler that leaves the rows alone; the first of a        *)
(* request may be the first since all others have ended.                   *)
Fresh(t) ==
  /\ t.step \notin {"confirm_rows", "confirm_today", "confirm_write"}
  /\ t.step \in {"move", "recall"} => t.day = x1

LEMMA AskSame ==
  ASSUME UNCHANGED <<x1, x3>>, x8' = x8, NEW t
  PROVE  AskOK(t)' <=> AskOK(t)
BY DEF AskOK, InSight, Att!WasAt, Att!Covers, Att!Open

LEMMA AttendanceQuiet ==
  ASSUME AttendanceInv, UNCHANGED <<x1, x2, x3, x4, x5, x6>>, x7' \in 0..MaxMoves,
         NEW h \in Handlers, NEW t \in Att!Txn, txn' = [txn EXCEPT ![h] = t], AskOK(t),
         x8' = x8 \/ (Att!Quiet /\ x8' \in BOOLEAN /\ Fresh(t))
  PROVE  AttendanceInv'
<1>1. \A g \in Handlers : txn'[g] = IF g = h THEN t ELSE txn[g]
  BY DEF AttendanceInv, Att!TypeOK
<1>2. Att!TypeOK'
  BY <1>1 DEF AttendanceInv, Att!TypeOK
<1>3. DayAsks'
  <2> SUFFICES ASSUME NEW g \in Handlers PROVE AskOK(txn[g])'
    BY DEF DayAsks
  <2>1. CASE x8' = x8
    <3>1. \A x : AskOK(x)' <=> AskOK(x)
      BY <2>1, AskSame
    <3>2. AskOK(txn'[g])
      BY <1>1 DEF AttendanceInv, DayAsks
    <3> QED BY <3>1, <3>2
  <2>2. CASE g = h /\ Fresh(t)
    <3>1. txn'[g] = t
      BY <1>1, <2>2
    <3> QED BY <2>2, <3>1 DEF AskOK, Fresh
  <2>3. CASE g # h /\ Att!Quiet
    <3>1. txn'[g].step = "idle"
      BY <1>1, <2>3 DEF Att!Quiet
    <3> QED BY <3>1 DEF AskOK
  <2> QED BY <2>1, <2>2, <2>3
<1>4. DayRows'
  BY DEF AttendanceInv, DayRows, Att!Exists, Att!WasAt, Att!Covers, Att!Open
<1> QED BY <1>2, <1>3, <1>4 DEF AttendanceInv

LEMMA EndsQuietly ==
  ASSUME Att!TypeOK, DayAsks, UNCHANGED <<x1, x3, x8>>,
         txn' = txn \/ \E h \in Handlers : txn' = [txn EXCEPT ![h] = Att!Idle]
  PROVE  DayAsks'
<1> SUFFICES ASSUME NEW g \in Handlers PROVE AskOK(txn[g])'
  BY DEF DayAsks
<1>1. txn'[g] \in {txn[g], Att!Idle}
  BY DEF Att!TypeOK
<1>2. AskOK(Att!Idle) /\ AskOK(txn[g])
  BY IdleIsDayTxn DEF AskOK, DayAsks
<1>3. \A x : AskOK(x)' <=> AskOK(x)
  BY AskSame
<1>4. AskOK(txn'[g])
  BY <1>1, <1>2
<1> QED BY <1>3, <1>4

(* One handler, or nobody, writes one day's record.                        *)
LEMMA RecordWritten ==
  ASSUME AttendanceInv, UNCHANGED <<x1, x2, x3, x4, x6, x7, x8>>,
         NEW day \in Att!Days, NEW r \in Att!Record, r.status # "NONE",
         x5' = [x5 EXCEPT ![day] = r],
         txn' = txn \/ \E h \in Handlers : txn' = [txn EXCEPT ![h] = Att!Idle]
  PROVE  AttendanceInv'
<1>1. \A d \in Att!Days : x5'[d] = IF d = day THEN r ELSE x5[d]
  BY DEF AttendanceInv, Att!TypeOK
<1>2. Att!TypeOK'
  BY IdleIsDayTxn DEF AttendanceInv, Att!TypeOK
<1>3. DayAsks'
  BY EndsQuietly DEF AttendanceInv
<1>4. DayRows'
  BY <1>1 DEF AttendanceInv, DayRows, Att!Exists, Att!WasAt, Att!Covers, Att!Open
<1> QED BY <1>2, <1>3, <1>4 DEF AttendanceInv

(* Dispatches change: by a day that is in nobody's past.                   *)
LEMMA DispatchesChanged ==
  ASSUME AttendanceInv, UNCHANGED <<x1, x4, x5, x6, x7, x8>>, x2' \in Branches,
         NEW h \in Handlers, txn[h].step \in {"move", "recall"},
         txn' = [txn EXCEPT ![h] = Att!Idle],
         x3' \subseteq Att!Dispatch,
         \A r \in x3 : r \in x3' \/ (Att!Open(r) /\ Att!Ended(r, txn[h].day) \in x3'),
         \A q \in x3' : \/ q \in x3 \/ q.start = txn[h].day
                        \/ \E r \in x3 : Att!Open(r) /\ q = Att!Ended(r, txn[h].day)
  PROVE  AttendanceInv'
<1> DEFINE e == txn[h].day
<1>1. /\ x1 \in Nat /\ e \in Att!Days /\ e \in Nat /\ x3 \subseteq Att!Dispatch
      /\ e = x1 \/ (x8 = TRUE /\ e = x1 - 1)
  BY DaysFacts DEF AttendanceInv, Att!TypeOK, Att!Txn, DayAsks, AskOK
<1>2. ASSUME NEW b, NEW d \in Att!Days, InSight(d), Att!WasAt(b, d)
      PROVE  Att!WasAt(b, d)'
  <2>1. d <= e
    BY <1>1, <1>2, DaysFacts DEF InSight
  <2> HIDE DEF e
  <2>2. \A q \in x3' : q \in x3 \/ (\E r \in x3 : Att!Open(r) /\ q = Att!Ended(r, e))
                       \/ q.start = e
    BY DEF e
  <2>3. \A r \in x3 : r \in x3' \/ (Att!Open(r) /\ Att!Ended(r, e) \in x3')
    BY DEF e
  <2> QED BY <1>1, <1>2, <2>1, <2>2, <2>3, EndedWasAt
<1>3. Att!TypeOK'
  BY IdleIsDayTxn DEF AttendanceInv, Att!TypeOK
<1>4. DayAsks'
  <2> SUFFICES ASSUME NEW g \in Handlers PROVE AskOK(txn[g])'
    BY DEF DayAsks
  <2>1. txn'[g] = IF g = h THEN Att!Idle ELSE txn[g]
    BY DEF AttendanceInv, Att!TypeOK
  <2>2. CASE g = h
    BY <2>1, <2>2, IdleIsDayTxn DEF AskOK
  <2>3. CASE g # h
    <3>1. txn'[g] = txn[g] /\ AskOK(txn[g]) /\ txn[g].days \subseteq Att!Days
      BY <2>1, <2>3 DEF AttendanceInv, Att!TypeOK, Att!Txn, DayAsks
    <3>2. \A d : InSight(d)' <=> InSight(d)
      BY DEF InSight
    <3> QED BY <1>2, <3>1, <3>2 DEF AskOK
  <2> QED BY <2>2, <2>3
<1>5. DayRows'
  <2> SUFFICES ASSUME NEW d \in Att!Days, x6[d] # <<>>
               PROVE  Att!WasAt(x6[d][1], d)'
    BY DEF AttendanceInv, DayRows, Att!Exists
  <2>1. InSight(d) /\ Att!WasAt(x6[d][1], d)
    BY DEF AttendanceInv, DayRows, InSight
  <2>2. x6' = x6
    OBVIOUS
  <2> QED BY <1>2, <2>1, <2>2
<1> QED BY <1>3, <1>4, <1>5 DEF AttendanceInv

LEMMA EndedQuietly ==
  ASSUME AttendanceInv, UNCHANGED <<x1, x2, x3, x4, x5, x6, x7, x8>>,
         NEW h \in Handlers, txn' = [txn EXCEPT ![h] = Att!Idle]
  PROVE  AttendanceInv'
<1>1. AskOK(Att!Idle) /\ x7 \in 0..MaxMoves
  BY IdleIsDayTxn DEF AskOK, AttendanceInv, Att!TypeOK
<1> QED BY <1>1, IdleIsDayTxn, AttendanceQuiet

(* A read of a confirmation that leaves some of its days.                  *)
LEMMA Narrowed ==
  ASSUME AttendanceInv, NEW h \in Handlers, NEW step \in {"confirm_rows", "confirm_today"},
         NEW next \in {"confirm_today", "confirm_write"},
         NEW days \in SUBSET txn[h].days, next = "confirm_write" => \A d \in days : d < x1,
         Att!Narrow(h, step, next, days)
  PROVE  AttendanceInv'
<1> DEFINE t == [txn[h] EXCEPT !.step = next, !.days = days]
<1>1. /\ t \in Att!Txn /\ t.step = next /\ t.days = days /\ t.branch = txn[h].branch
      /\ Att!Idle \in Att!Txn /\ Att!Idle.step = "idle"
  BY IdleIsDayTxn DEF AttendanceInv, Att!TypeOK, Att!Txn
<1>2. /\ txn[h].step = step /\ UNCHANGED <<x1, x2, x3, x4, x5, x6, x7, x8>>
      /\ txn' = [txn EXCEPT ![h] = t] \/ txn' = [txn EXCEPT ![h] = Att!Idle]
  BY DEF Att!Narrow, Att!Go, Att!End, Att!Keeps
<1>3. AskOK(txn[h]) /\ x7 \in 0..MaxMoves
  BY DEF AttendanceInv, DayAsks, Att!TypeOK
<1>4. AskOK(t) /\ AskOK(Att!Idle)
  BY <1>1, <1>2, <1>3 DEF AskOK
<1> HIDE DEF t
<1> QED BY <1>1, <1>2, <1>3, <1>4, AttendanceQuiet

LEMMA AttendanceStep == AttendanceInv /\ [Att!Next]_(Att!vars) => AttendanceInv'
<1> SUFFICES ASSUME AttendanceInv, [Att!Next]_(Att!vars) PROVE AttendanceInv'
  OBVIOUS
<1> USE DaysFacts, IdleIsDayTxn
<1>1. ASSUME NEW h \in Handlers, NEW t \in Att!Txn, Att!Begin(h, t), x7' \in 0..MaxMoves,
             AskOK(t), Fresh(t)
      PROVE  AttendanceInv'
  <2>1. x8' = x8 \/ (Att!Quiet /\ x8' \in BOOLEAN)
    BY <1>1 DEF Att!Begin, AttendanceInv, Att!TypeOK
  <2>2. txn' = [txn EXCEPT ![h] = t] /\ UNCHANGED <<x1, x2, x3, x4, x5, x6>>
    BY <1>1 DEF Att!Begin
  <2> QED BY <1>1, <2>1, <2>2, AttendanceQuiet
<1>2. ASSUME NEW h \in Handlers, Att!CheckIn(h)
      PROVE  AttendanceInv'
  <2> DEFINE t == [Att!Idle EXCEPT !.step = "checkin_read", !.day = x1, !.home = x2]
  <2>1. t \in Att!Txn /\ t.step = "checkin_read" /\ x7 \in 0..MaxMoves
    BY DEF Att!Idle, Att!Txn, AttendanceInv, Att!TypeOK
  <2>2. AskOK(t) /\ Fresh(t)
    BY <2>1 DEF AskOK, Fresh
  <2>3. Att!Begin(h, t) /\ x7' = x7
    BY <1>2 DEF Att!CheckIn
  <2> HIDE DEF t
  <2> QED BY <1>1, <2>1, <2>2, <2>3
<1>15. ASSUME NEW h \in Handlers, Att!CheckInRead(h)
       PROVE  AttendanceInv'
  <2>0. /\ UNCHANGED <<x1, x2, x3, x4, x5, x6, x7, x8>> /\ x7 \in 0..MaxMoves
        /\ txn[h] \in Att!Txn /\ txn[h].step = "checkin_read"
    <3>1. /\ UNCHANGED <<x1, x2, x3, x4, x5, x6, x7, x8>>
          /\ txn[h].step = "checkin_read"
      BY ZenonT(60), <1>15 DEF Att!CheckInRead, Att!Keeps
    <3> QED BY <3>1 DEF AttendanceInv, Att!TypeOK
  <2>1. CASE Att!End(h)
    BY <2>0, <2>1, EndedQuietly DEF Att!End, Att!Go
  <2>2. ASSUME NEW b \in Att!branchOnDate(txn[h].home, txn[h].day),
               txn' = [txn EXCEPT ![h] =
                 [txn[h] EXCEPT !.step = "checkin", !.found = Att!Exists(txn[h].day), !.home = None,
                    !.to = [status |-> "NORMAL", in |-> TRUE, out |-> FALSE, branch |-> b]]]
        PROVE  AttendanceInv'
    <3> DEFINE r == [status |-> "NORMAL", in |-> TRUE, out |-> FALSE, branch |-> b]
               t == [txn[h] EXCEPT !.step = "checkin", !.found = Att!Exists(txn[h].day),
                                   !.home = None, !.to = r]
    <3>1. b \in Branches \cup {None}
      BY <2>0, <2>2 DEF Att!branchOnDate, AttendanceInv, Att!TypeOK, Att!Dispatch, Att!Txn
    <3>2. r \in Att!Record /\ r.status # "NONE"
      BY <3>1 DEF Att!Record
    <3>3. Att!Exists(txn[h].day) \in BOOLEAN
      BY DEF Att!Exists
    <3> HIDE DEF r
    <3>4. t \in Att!Txn /\ t.step = "checkin" /\ t.to = r
      BY <2>0, <3>2, <3>3 DEF Att!Txn
    <3>5. AskOK(t)
      BY <3>2, <3>4 DEF AskOK
    <3>6. txn' = [txn EXCEPT ![h] = t]
      BY <2>2 DEF r
    <3> HIDE DEF t
    <3> QED BY <2>0, <3>4, <3>5, <3>6, AttendanceQuiet
  <2> QED BY ZenonT(60), <1>15, <2>1, <2>2 DEF Att!CheckInRead, Att!Go
<1>16. ASSUME NEW h \in Handlers, Att!CheckInWrite(h)
      PROVE  AttendanceInv'
  <2> DEFINE r == [txn[h].to EXCEPT !.out = x5[txn[h].day].out]
  <2>5. txn[h].to \in Att!Record /\ txn[h].day \in Att!Days /\ x5 \in [Att!Days -> Att!Record]
    BY DEF AttendanceInv, Att!TypeOK, Att!Txn
  <2>6. txn[h].to.status # "NONE"
    BY <1>16 DEF Att!CheckInWrite, AttendanceInv, DayAsks, AskOK
  <2>1. r \in Att!Record /\ r.status # "NONE" /\ txn[h].day \in Att!Days
    BY <2>5, <2>6 DEF Att!Record
  <2>2. /\ UNCHANGED <<x1, x2, x3, x4, x6, x7, x8>> /\ txn' = [txn EXCEPT ![h] = Att!Idle]
        /\ x5' = [x5 EXCEPT ![txn[h].day] = r] \/ x5' = x5
    BY <1>16 DEF Att!CheckInWrite, Att!Keeps, Att!End, Att!Go
  <2> HIDE DEF r
  <2>3. CASE x5' = [x5 EXCEPT ![txn[h].day] = r]
    BY <2>1, <2>2, <2>3, RecordWritten
  <2>4. CASE x5' = x5
    BY <2>2, <2>4, EndedQuietly
  <2> QED BY <2>2, <2>3, <2>4
<1>3. ASSUME NEW h \in Handlers, NEW b \in Branches, Att!Confirm(h, b)
      PROVE  AttendanceInv'
  <2> DEFINE t == [Att!Idle EXCEPT !.step = "confirm", !.home = x2, !.branch = b]
  <2>1. t \in Att!Txn /\ t.step = "confirm" /\ t.branch = b /\ x7 \in 0..MaxMoves
    BY DEF Att!Idle, Att!Txn, AttendanceInv, Att!TypeOK
  <2>2. AskOK(t) /\ Fresh(t)
    BY <2>1 DEF AskOK, Fresh
  <2>3. Att!Begin(h, t) /\ x7' = x7
    BY <1>3 DEF Att!Confirm
  <2> HIDE DEF t
  <2> QED BY <1>1, <2>1, <2>2, <2>3
<1>17. ASSUME NEW h \in Handlers, Att!ConfirmRead(h)
       PROVE  AttendanceInv'
  <2>1. PICK days \in SUBSET Att!Days :
          /\ Att!Candidates(txn[h], days)
          /\ txn' = [txn EXCEPT ![h] =
               [txn[h] EXCEPT !.step = "confirm_rows", !.home = None, !.days = days]]
    BY ZenonT(60), <1>17 DEF Att!ConfirmRead, Att!Go
  <2> DEFINE t == [txn[h] EXCEPT !.step = "confirm_rows", !.home = None, !.days = days]
  <2>2. /\ UNCHANGED <<x1, x2, x3, x4, x5, x6, x7, x8>> /\ x7 \in 0..MaxMoves
        /\ txn[h] \in Att!Txn /\ txn[h].step = "confirm" /\ AskOK(txn[h])
    BY <1>17 DEF Att!ConfirmRead, Att!Keeps, AttendanceInv, Att!TypeOK, DayAsks
  <2>3. /\ t \in Att!Txn /\ t.step = "confirm_rows" /\ t.days = days
        /\ t.branch = txn[h].branch
    BY <2>2 DEF Att!Txn
  <2>4. \A d \in days : Att!WasAt(txn[h].branch, d)
    <3>1. \A d \in days : d \in Att!Days /\ txn[h].branch \in Att!branchOnDate(txn[h].home, d)
      BY <2>1 DEF Att!Candidates
    <3>2. x3 \subseteq Att!Dispatch
      BY DEF AttendanceInv, Att!TypeOK
    <3> QED BY <3>1, <3>2, ReadWasAt
  <2>5. AskOK(t)
    BY <2>2, <2>3, <2>4 DEF AskOK
  <2>6. txn' = [txn EXCEPT ![h] = t]
    BY <2>1
  <2> HIDE DEF t
  <2> QED BY <2>2, <2>3, <2>5, <2>6, AttendanceQuiet
<1>18. ASSUME NEW h \in Handlers, Att!ConfirmRows(h) \/ Att!ConfirmToday(h)
       PROVE  AttendanceInv'
  <2>1. CASE Att!ConfirmRows(h)
    <3> DEFINE days == {d \in txn[h].days : ~Att!Exists(d) /\ d \notin x4}
    <3>1. days \in SUBSET txn[h].days
      OBVIOUS
    <3>2. Att!Narrow(h, "confirm_rows", "confirm_today", days)
      BY <2>1 DEF Att!ConfirmRows
    <3> HIDE DEF days
    <3> QED BY <3>1, <3>2, Narrowed
  <2>2. CASE Att!ConfirmToday(h)
    <3> DEFINE days == {d \in txn[h].days : d < x1}
    <3>1. days \in SUBSET txn[h].days /\ \A d \in days : d < x1
      OBVIOUS
    <3>2. Att!Narrow(h, "confirm_today", "confirm_write", days)
      BY <2>2 DEF Att!ConfirmToday
    <3> HIDE DEF days
    <3> QED BY <3>1, <3>2, Narrowed
  <2> QED BY <1>18, <2>1, <2>2
<1>4. ASSUME NEW h \in Handlers, Att!ConfirmWrite(h)
      PROVE  AttendanceInv'
  <2> DEFINE t == txn[h]
             D == Att!Inserted(txn[h])
             r == Att!Absence(txn[h])
  <2>1. /\ t.branch \in Branches /\ D \subseteq Att!Days
        /\ \A d \in D : d < x1 /\ Att!WasAt(t.branch, d) /\ ~Att!Exists(d)
    BY <1>4
    DEF Att!ConfirmWrite, AttendanceInv, DayAsks, AskOK, InSight, Att!Inserted, Att!TypeOK, Att!Txn
  <2>2. r \in Att!Record /\ r.status = "ABSENT" /\ r.in = FALSE
    BY <2>1 DEF Att!Absence, Att!Record
  <2>3. /\ UNCHANGED <<x1, x2, x3, x4, x7, x8>> /\ txn' = [txn EXCEPT ![h] = Att!Idle]
        /\ x5' = [d \in Att!Days |-> IF d \in D THEN r ELSE x5[d]]
        /\ x6' = [d \in Att!Days |-> IF d \in D THEN Append(x6[d], t.branch) ELSE x6[d]]
    BY <1>4 DEF Att!ConfirmWrite, Att!Keeps, Att!End, Att!Go
  <2> HIDE DEF t, D, r
  <2>4. \A d \in D : x6[d] = <<>>
    BY <2>1 DEF AttendanceInv, DayRows
  <2>5. \A d \in D : /\ x6'[d] \in Seq(Branches) /\ Len(x6'[d]) = 1
                     /\ x6'[d][1] = t.branch
    <3> SUFFICES ASSUME NEW d \in D
                 PROVE  x6'[d] \in Seq(Branches) /\ Len(x6'[d]) = 1 /\ x6'[d][1] = t.branch
      OBVIOUS
    <3>1. x6'[d] = Append(<<>>, t.branch)
      BY <2>1, <2>3, <2>4
    <3> QED BY <2>1, <3>1
  <2>6. \A d \in Att!Days \ D : x5'[d] = x5[d] /\ x6'[d] = x6[d]
    BY <2>3
  <2>7. Att!TypeOK'
    <3>1. x6' \in [Att!Days -> Seq(Branches)]
      BY <2>3, <2>5, <2>6 DEF AttendanceInv, Att!TypeOK
    <3> QED BY <2>2, <2>3, <3>1 DEF AttendanceInv, Att!TypeOK
  <2>8. DayAsks'
    BY <2>3, EndsQuietly DEF AttendanceInv
  <2>9. DayRows'
    <3> SUFFICES ASSUME NEW d \in Att!Days
                 PROVE  /\ x5'[d].in => x5'[d].status # "NONE"
                        /\ Len(x6'[d]) <= 1
                        /\ x6'[d] # <<>> => /\ x5'[d].status # "NONE" /\ d < x1
                                            /\ Att!WasAt(x6'[d][1], d)
      BY <2>3 DEF DayRows, Att!Exists, Att!WasAt, Att!Covers, Att!Open
    <3>1. CASE d \in D
      <4>1. x5'[d] = r
        BY <2>3, <3>1
      <4>2. /\ d < x1 /\ Att!WasAt(t.branch, d)
            /\ Len(x6'[d]) = 1 /\ x6'[d][1] = t.branch
        BY <2>1, <2>5, <3>1
      <4> QED BY <2>2, <4>1, <4>2
    <3>2. CASE d \notin D
      BY <2>6, <3>2 DEF AttendanceInv, DayRows, Att!Exists
    <3> QED BY <3>1, <3>2
  <2> QED BY <2>7, <2>8, <2>9 DEF AttendanceInv
<1>5. ASSUME NEW h \in Handlers, NEW d \in Att!Days, NEW to \in Corrections,
             Att!Correct(h, d, to)
      PROVE  AttendanceInv'
  <2> DEFINE r == [to EXCEPT !.branch = x2]
             t == [Att!Idle EXCEPT !.step = "correct_lock", !.day = d, !.home = x2,
                                   !.branch = x2, !.to = r]
  <2>1. r \in Att!Record /\ r.status # "NONE"
    BY CorrectionsTyped DEF AttendanceInv, Att!TypeOK, Att!Record
  <2>2. Att!Begin(h, t) /\ x7' = x7
    BY <1>5 DEF Att!Correct
  <2> HIDE DEF r
  <2>3. t \in Att!Txn /\ t.step = "correct_lock" /\ t.to = r /\ x7 \in 0..MaxMoves
    BY <2>1 DEF Att!Idle, Att!Txn, AttendanceInv, Att!TypeOK
  <2>4. AskOK(t) /\ Fresh(t)
    BY <2>1, <2>3 DEF AskOK, Fresh
  <2> HIDE DEF t
  <2> QED BY <1>1, <2>2, <2>3, <2>4
<1>6. ASSUME NEW h \in Handlers, Att!CorrectLock(h)
      PROVE  AttendanceInv'
  <2> DEFINE t == [txn[h] EXCEPT !.step = "correct_read", !.locked = Att!Exists(txn[h].day)]
  <2>1. Att!Exists(txn[h].day) \in BOOLEAN
    BY DEF Att!Exists
  <2>2. /\ t \in Att!Txn /\ t.step = "correct_read" /\ t.to.status # "NONE"
    BY <1>6, <2>1 DEF Att!CorrectLock, AttendanceInv, Att!TypeOK, Att!Txn, DayAsks, AskOK
  <2>3. txn' = [txn EXCEPT ![h] = t] /\ UNCHANGED <<x1, x2, x3, x4, x5, x6, x7, x8>>
    BY <1>6 DEF Att!CorrectLock, Att!Keeps
  <2>4. AskOK(t) /\ x7 \in 0..MaxMoves
    BY <2>2 DEF AskOK, AttendanceInv, Att!TypeOK
  <2> HIDE DEF t
  <2> QED BY <2>2, <2>3, <2>4, AttendanceQuiet
<1>7. ASSUME NEW h \in Handlers, Att!CorrectRead(h)
      PROVE  AttendanceInv'
  <2> DEFINE t == [txn[h] EXCEPT !.step = "correct_write", !.found = Att!Exists(txn[h].day),
                                 !.home = None]
  <2>1. Att!Exists(txn[h].day) \in BOOLEAN
    BY DEF Att!Exists
  <2>2. /\ t \in Att!Txn /\ t.step = "correct_write" /\ t.to.status # "NONE"
    BY <1>7, <2>1 DEF Att!CorrectRead, AttendanceInv, Att!TypeOK, Att!Txn, DayAsks, AskOK
  <2>3. /\ txn' = [txn EXCEPT ![h] = t] \/ txn' = [txn EXCEPT ![h] = Att!Idle]
        /\ UNCHANGED <<x1, x2, x3, x4, x5, x6, x7, x8>>
    BY <1>7 DEF Att!CorrectRead, Att!Keeps, Att!End, Att!Go
  <2>4. AskOK(t) /\ x7 \in 0..MaxMoves
    BY <2>2 DEF AskOK, AttendanceInv, Att!TypeOK
  <2> HIDE DEF t
  <2> QED BY <2>2, <2>3, <2>4, AttendanceQuiet, EndedQuietly
<1>8. ASSUME NEW h \in Handlers, Att!CorrectWrite(h)
      PROVE  AttendanceInv'
  <2> DEFINE r == Att!Corrected(txn[h])
  <2>1. r \in Att!Record /\ r.status # "NONE" /\ txn[h].day \in Att!Days
    BY ZenonT(60), <1>8
    DEF Att!CorrectWrite, Att!Corrected, AttendanceInv, Att!TypeOK, Att!Txn, Att!Record, DayAsks,
        AskOK
  <2>2. /\ UNCHANGED <<x1, x2, x3, x4, x6, x7, x8>> /\ txn' = [txn EXCEPT ![h] = Att!Idle]
        /\ x5' = [x5 EXCEPT ![txn[h].day] = r] \/ x5' = x5
    BY <1>8 DEF Att!CorrectWrite, Att!Keeps, Att!End, Att!Go
  <2> HIDE DEF r
  <2>3. CASE x5' = [x5 EXCEPT ![txn[h].day] = r]
    BY <2>1, <2>2, <2>3, RecordWritten
  <2>4. CASE x5' = x5
    BY <2>2, <2>4, EndedQuietly
  <2> QED BY <2>2, <2>3, <2>4
<1>9. ASSUME NEW h \in Handlers, Att!Abort(h)
      PROVE  AttendanceInv'
  BY <1>9, EndedQuietly DEF Att!Abort, Att!End, Att!Go, Att!Keeps
<1>10. ASSUME NEW d \in Att!Days, Att!Grant(d)
       PROVE  AttendanceInv'
  <2>1. UNCHANGED <<x1, x2, x3, x5, x6, x7, x8, txn>> /\ x4' \subseteq Att!Days
    BY <1>10 DEF Att!Grant, AttendanceInv, Att!TypeOK
  <2>2. DayAsks'
    BY <2>1, EndsQuietly DEF AttendanceInv
  <2> QED
    BY <2>1, <2>2
    DEF AttendanceInv, Att!TypeOK, DayRows, Att!Exists, Att!WasAt, Att!Covers, Att!Open
<1>11. ASSUME NEW h \in Handlers, NEW b \in Branches, Att!Move(h, b) \/ Att!Recall(h, b)
       PROVE  AttendanceInv'
  <2>1. x7' \in 0..MaxMoves /\ x1 \in Att!Days
    BY <1>11 DEF Att!Move, Att!Recall, AttendanceInv, Att!TypeOK
  <2>2. PICK step \in {"move", "recall"} :
          Att!Begin(h, [Att!Idle EXCEPT !.step = step, !.day = x1, !.branch = b])
    BY <1>11 DEF Att!Move, Att!Recall
  <2> DEFINE t == [Att!Idle EXCEPT !.step = step, !.day = x1, !.branch = b]
  <2>3. t \in Att!Txn /\ t.step = step /\ t.day = x1 /\ t.branch = b
    BY <2>1 DEF Att!Idle, Att!Txn
  <2>4. AskOK(t) /\ Fresh(t)
    BY <2>3 DEF AskOK, Fresh
  <2>5. Att!Begin(h, t)
    BY <2>2
  <2> HIDE DEF t
  <2> QED BY <1>1, <2>1, <2>3, <2>4, <2>5
<1>19. ASSUME NEW h \in Handlers, Att!MoveCommit(h)
       PROVE  AttendanceInv'
  <2> DEFINE new == [branch |-> txn[h].branch, start |-> txn[h].day, end |-> None]
             e == txn[h].day
  <2>1. /\ txn[h].step = "move" /\ txn[h].branch \in Branches /\ e \in Att!Days
        /\ x3 \subseteq Att!Dispatch
    BY <1>19 DEF Att!MoveCommit, AttendanceInv, Att!TypeOK, Att!Txn, DayAsks, AskOK
  <2>2. /\ UNCHANGED <<x1, x4, x5, x6, x7, x8>> /\ txn' = [txn EXCEPT ![h] = Att!Idle]
        /\ x2' = txn[h].branch
        /\ x3' = {IF Att!Open(r) THEN Att!Ended(r, e) ELSE r : r \in x3} \cup {new}
    BY <1>19 DEF Att!MoveCommit, Att!End, Att!Go
  <2>3. new \in Att!Dispatch /\ new.start = e
    BY <2>1 DEF Att!Dispatch
  <2>4. \A r \in x3 : Att!Ended(r, e) \in Att!Dispatch
    BY <2>1 DEF Att!Ended, Att!Dispatch
  <2>5. x3' \subseteq Att!Dispatch
    BY <2>1, <2>2, <2>3, <2>4
  <2>6. \A r \in x3 : r \in x3' \/ (Att!Open(r) /\ Att!Ended(r, e) \in x3')
    BY <2>2
  <2>7. \A q \in x3' : q \in x3 \/ q.start = e \/ \E r \in x3 : Att!Open(r) /\ q = Att!Ended(r, e)
    BY <2>2, <2>3
  <2> HIDE DEF new
  <2> QED BY <2>1, <2>2, <2>5, <2>6, <2>7, DispatchesChanged
<1>20. ASSUME NEW h \in Handlers, Att!RecallCommit(h)
       PROVE  AttendanceInv'
  <2> DEFINE e == txn[h].day
             b == txn[h].branch
  <2>1. /\ txn[h].step = "recall" /\ e \in Att!Days /\ x3 \subseteq Att!Dispatch
        /\ x2 \in Branches
    BY <1>20 DEF Att!RecallCommit, AttendanceInv, Att!TypeOK, Att!Txn
  <2>2. /\ UNCHANGED <<x1, x2, x4, x5, x6, x7, x8>> /\ txn' = [txn EXCEPT ![h] = Att!Idle]
        /\ x3' = {IF Att!Open(r) /\ r.branch = b THEN Att!Ended(r, e) ELSE r : r \in x3}
    BY <1>20 DEF Att!RecallCommit, Att!End, Att!Go
  <2>4. \A r \in x3 : Att!Ended(r, e) \in Att!Dispatch
    BY <2>1 DEF Att!Ended, Att!Dispatch
  <2>5. x3' \subseteq Att!Dispatch
    BY <2>1, <2>2, <2>4
  <2>6. \A r \in x3 : r \in x3' \/ (Att!Open(r) /\ Att!Ended(r, e) \in x3')
    BY <2>2
  <2>7. \A q \in x3' : q \in x3 \/ q.start = e \/ \E r \in x3 : Att!Open(r) /\ q = Att!Ended(r, e)
    BY <2>2
  <2> QED BY <2>1, <2>2, <2>5, <2>6, <2>7, DispatchesChanged
<1>12. ASSUME NEW d \in Att!Days, Att!CheckOut(d)
       PROVE  AttendanceInv'
  <2> DEFINE r == [x5[d] EXCEPT !.out = TRUE]
  <2>1. r \in Att!Record /\ r.status # "NONE"
    BY <1>12 DEF Att!CheckOut, AttendanceInv, Att!TypeOK, Att!Record, DayRows, Att!Exists
  <2>2. x5' = [x5 EXCEPT ![d] = r] /\ UNCHANGED <<x1, x2, x3, x4, x6, x7, x8, txn>>
    BY <1>12 DEF Att!CheckOut, Att!Keeps
  <2> HIDE DEF r
  <2> QED BY <2>1, <2>2, RecordWritten
<1>13. CASE Att!Midnight
  <2>1. UNCHANGED <<x2, x3, x4, x5, x6, x7, txn>> /\ x1' = x1 + 1 /\ x1' \in Att!Days
    BY <1>13, OfficeAssumption DEF Att!Midnight, AttendanceInv, Att!TypeOK, Att!Days
  <2>2. x1 \in Nat /\ x8 \in BOOLEAN /\ (x8 = TRUE => Att!Quiet) /\ x8' = ~Att!Quiet
    BY <1>13 DEF Att!Midnight, AttendanceInv, Att!TypeOK
  <2>3. \A h \in Handlers : txn[h] \in Att!Txn /\ txn[h].days \subseteq Nat
    BY DEF AttendanceInv, Att!TypeOK, Att!Txn
  <2>4. Att!TypeOK'
    BY <2>1, <2>2 DEF AttendanceInv, Att!TypeOK
  <2>5. DayAsks'
    <3> SUFFICES ASSUME NEW h \in Handlers PROVE AskOK(txn[h])'
      BY DEF DayAsks
    <3>1. CASE Att!Quiet
      <4>1. txn'[h].step = "idle"
        BY <2>1, <3>1 DEF Att!Quiet
      <4> QED BY <4>1 DEF AskOK
    <3>2. CASE ~Att!Quiet
      <4>1. x8 = FALSE /\ x8' = TRUE /\ txn'[h] = txn[h] /\ AskOK(txn[h])
        BY <2>1, <2>2, <3>2 DEF AttendanceInv, DayAsks
      <4>2. \A d \in Nat : InSight(d)' => InSight(d)
        BY <2>1, <2>2, <4>1 DEF InSight
      <4>3. \A b, d : Att!WasAt(b, d)' <=> Att!WasAt(b, d)
        BY <2>1 DEF Att!WasAt, Att!Covers, Att!Open
      <4> QED BY <2>1, <2>2, <2>3, <4>1, <4>2, <4>3 DEF AskOK
    <3> QED BY <3>1, <3>2
  <2>6. DayRows'
    BY <2>1, <2>2 DEF AttendanceInv, DayRows, Att!Exists, Att!WasAt, Att!Covers, Att!Open
  <2> QED BY <2>4, <2>5, <2>6 DEF AttendanceInv
<1>14. CASE UNCHANGED Att!vars
  <2>1. UNCHANGED <<x1, x2, x3, x4, x5, x6, x7, x8, txn>>
    BY <1>14 DEF Att!vars
  <2>2. DayAsks'
    BY <2>1, EndsQuietly DEF AttendanceInv
  <2> QED
    BY <2>1, <2>2
    DEF AttendanceInv, Att!TypeOK, DayRows, Att!Exists, Att!WasAt, Att!Covers, Att!Open
<1> QED
  BY <1>2, <1>3, <1>4, <1>5, <1>6, <1>7, <1>8, <1>9, <1>10, <1>11, <1>12, <1>13, <1>14, <1>15,
     <1>16, <1>17, <1>18, <1>19, <1>20
  DEF Att!Next

(* It holds whenever the desk of attendance is at work.                    *)
AttendanceAt == desk = "attendance" => AttendanceInv
LEMMA AttendanceInvariant == OfficeSpec => []AttendanceAt
<1>1. OfficeInit => AttendanceAt
  BY AttendanceInit DEF OfficeInit, AttendanceAt
<1>2. AttendanceAt /\ [OfficeNext]_vars => AttendanceAt'
  <2> SUFFICES ASSUME AttendanceAt, [OfficeNext]_vars, desk' = "attendance" PROVE AttendanceInv'
    BY DEF AttendanceAt
  <2>1. desk = "attendance"
    BY DEF OfficeNext, vars
  <2> QED BY <2>1, AttendanceDesk, AttendanceStep DEF AttendanceAt
<1> QED BY <1>1, <1>2, PTL DEF OfficeSpec

(* Managers who confirm absences at once are never both told that they     *)
(* confirmed a day, and nobody hears of a day spent at another branch but  *)
(* the one of a transfer, however transfers, terminations, check-ins,      *)
(* corrections and midnights cross them.                                   *)
THEOREM AbsencesConfirmedOnce == OfficeSpec => []ConfirmedOnce
<1>1. AttendanceAt => ConfirmedOnce
  BY DEF AttendanceAt, AttendanceInv, DayRows, ConfirmedOnce, Att!ConfirmedOnce
<1> QED BY <1>1, AttendanceInvariant, PTL

(* What a step does to a check-in.                                         *)
LEMMA CheckInKeptStep ==
  ASSUME AttendanceInv, [Att!Next]_(Att!vars)
  PROVE  Att!CheckInKept
<1> SUFFICES ASSUME NEW d \in Att!Days, x5[d].in, x5'[d] # x5[d]
             PROVE  \/ x5'[d] = [x5[d] EXCEPT !.out = TRUE]
                    \/ \E h \in Handlers : Att!Corrects(h, d)
  BY DEF Att!CheckInKept
<1>1. x5 \in [Att!Days -> Att!Record] /\ Att!Exists(d)
  BY DEF AttendanceInv, Att!TypeOK, DayRows
<1>2. x5' # x5
  OBVIOUS
<1>3. ASSUME NEW h \in Handlers, Att!CheckInWrite(h)
      PROVE  FALSE
  BY <1>1, <1>3 DEF Att!CheckInWrite, Att!Fits
<1>4. ASSUME NEW h \in Handlers, Att!ConfirmWrite(h)
      PROVE  FALSE
  BY <1>1, <1>4 DEF Att!ConfirmWrite, Att!Inserted
<1>5. ASSUME NEW h \in Handlers, Att!CorrectWrite(h)
      PROVE  Att!Corrects(h, d)
  <2>1. /\ txn[h].step = "correct_write" /\ txn'[h].step = "idle"
        /\ x5' = [x5 EXCEPT ![txn[h].day] = Att!Corrected(txn[h])]
    BY <1>2, <1>5, IdleIsDayTxn DEF Att!CorrectWrite, Att!End, Att!Go, AttendanceInv, Att!TypeOK
  <2>2. txn[h].day = d
    BY <1>1, <2>1
  <2> QED BY <1>1, <2>1, <2>2 DEF Att!Corrects
<1>6. ASSUME NEW e \in Att!Days, Att!CheckOut(e)
      PROVE  x5'[d] = [x5[d] EXCEPT !.out = TRUE]
  BY <1>1, <1>6 DEF Att!CheckOut
<1>7. ASSUME NEW h \in Handlers,
             \/ Att!CheckIn(h) \/ Att!CheckInRead(h) \/ Att!ConfirmRead(h)
             \/ Att!ConfirmRows(h) \/ Att!ConfirmToday(h) \/ Att!CorrectLock(h)
             \/ Att!CorrectRead(h) \/ Att!MoveCommit(h) \/ Att!RecallCommit(h) \/ Att!Abort(h)
      PROVE  x5' = x5
  BY ZenonT(60), <1>7
  DEF Att!CheckIn, Att!CheckInRead, Att!ConfirmRead, Att!ConfirmRows, Att!ConfirmToday,
      Att!Narrow, Att!CorrectLock, Att!CorrectRead, Att!MoveCommit, Att!RecallCommit,
      Att!Abort, Att!Begin
<1>8. ASSUME NEW h \in Handlers, NEW b \in Branches,
             Att!Confirm(h, b) \/ Att!Move(h, b) \/ Att!Recall(h, b)
      PROVE  x5' = x5
  BY <1>8 DEF Att!Confirm, Att!Move, Att!Recall, Att!Begin
<1>9. ASSUME NEW h \in Handlers, NEW e \in Att!Days, NEW to \in Corrections,
             Att!Correct(h, e, to)
      PROVE  x5' = x5
  BY <1>9 DEF Att!Correct, Att!Begin
<1>10. ASSUME NEW e \in Att!Days, Att!Grant(e)
       PROVE  x5' = x5
  BY <1>10 DEF Att!Grant
<1>11. Att!Midnight \/ UNCHANGED Att!vars => x5' = x5
  BY DEF Att!Midnight, Att!vars
<1> QED
  BY <1>2, <1>3, <1>4, <1>5, <1>6, <1>7, <1>8, <1>9, <1>10, <1>11 DEF Att!Next

(* Only a correction changes or removes a check-in: neither a second       *)
(* check-in nor a confirmed absence does, in any order of the two.         *)
THEOREM CheckInsStay == OfficeSpec => CheckInStays
<1>1. AttendanceAt /\ [OfficeNext]_vars => [desk = "attendance" => Att!CheckInKept]_vars
  BY AttendanceDesk, CheckInKeptStep DEF AttendanceAt
<1> QED BY <1>1, AttendanceInvariant, PTL DEF OfficeSpec, CheckInStays
=============================================================================
