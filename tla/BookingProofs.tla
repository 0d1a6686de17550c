---------------------------- MODULE BookingProofs ----------------------------
(***************************************************************************)
(* Proofs about Booking, for every set of members, slots, rows and         *)
(* handlers, every capacity and every clock.                               *)
(***************************************************************************)
EXTENDS Booking, FiniteSetTheorems, TLAPS

(* The record constants are of their types.                                *)
LEMMA IdleIsTxn == Idle \in Txn /\ Idle.step = "idle"
BY DEF Idle, Txn, Steps

(* A request keeps its shape through each kind of transaction step.        *)
LEMMA StartType ==
  ASSUME TypeOK, NEW h \in Handlers, NEW t \in Txn, Start(h, t)
  PROVE  txn' \in [Handlers -> Txn]
BY DEF TypeOK, Start

LEMMA EndType ==
  ASSUME TypeOK, NEW h \in Handlers, End(h)
  PROVE  txn' \in [Handlers -> Txn]
BY IdleIsTxn DEF TypeOK, End

LEMMA GotoType ==
  ASSUME TypeOK, NEW h \in Handlers, NEW to \in Steps, Goto(h, to)
  PROVE  txn' \in [Handlers -> Txn]
BY DEF TypeOK, Goto, Txn

LEMMA RefuseType == ASSUME TypeOK, NEW h \in Handlers, Refuse(h) PROVE TypeOK'
BY EndType DEF TypeOK, Refuse, tables

(* The type invariant is inductive for each arriving request.              *)
LEMMA ArriveType ==
  ASSUME TypeOK, NEW h \in Handlers, Arrive(h)
  PROVE  TypeOK'
<1> USE BookingAssumption
<1>1. ASSUME NEW m \in Members, NEW s \in Slots, NEW r \in Rsv, CreateLock(h, m, s, r)
      PROVE  TypeOK'
  <2>1. [Idle EXCEPT !.step = "create_program", !.member = m, !.slot = s, !.row = r]
          \in Txn
    BY DEF Idle, Txn, Steps, CreateSteps
  <2>2. txn' \in [Handlers -> Txn]
    BY <1>1, <2>1, StartType DEF CreateLock
  <2> QED BY <1>1, <2>2 DEF CreateLock, TypeOK, tables
<1>2. ASSUME NEW r \in Rsv, PayLock(h, r) \/ CancelLock(h, r) \/ CheckInRead(h, r)
      PROVE  TypeOK'
  <2>1. \A st \in Steps : [Idle EXCEPT !.step = st, !.row = r] \in Txn
    BY DEF Idle, Txn
  <2>2. {"pay_read", "cancel_read", "checkin_update"} \subseteq Steps
    BY DEF Steps, PaySteps, CancelSteps
  <2>3. txn' \in [Handlers -> Txn]
    BY <1>2, <2>1, <2>2, StartType DEF PayLock, CancelLock, CheckInRead
  <2> QED BY <1>2, <2>3 DEF PayLock, CancelLock, CheckInRead, TypeOK, tables
<1>3. ASSUME NEW p \in Programs, NEW to \in ProgramAsks, StatusRead(h, p, to)
      PROVE  TypeOK'
  <2>1. [Idle EXCEPT !.step = "program_update", !.program = p,
                     !.saw = program[p], !.to = to] \in Txn
    BY DEF Idle, Txn, Steps, TypeOK
  <2>2. txn' \in [Handlers -> Txn]
    BY <1>3, <2>1, StartType DEF StatusRead
  <2> QED BY <1>3, <2>2 DEF StatusRead, TypeOK, tables
<1>4. ASSUME NEW b \in Branches, NEW to \in ContractAsks, ContractLock(h, b, to)
      PROVE  TypeOK'
  <2>1. [Idle EXCEPT !.step = "contract_commit", !.branch = b, !.to = to] \in Txn
    BY DEF Idle, Txn, Steps
  <2>2. txn' \in [Handlers -> Txn]
    BY <1>4, <2>1, StartType DEF ContractLock
  <2> QED BY <1>4, <2>2 DEF ContractLock, TypeOK, tables
<1> QED BY <1>1, <1>2, <1>3, <1>4 DEF Arrive

(* ... and for each step of a request in flight.                           *)
LEMMA ProceedType ==
  ASSUME TypeOK, RequestsPlaced, NEW h \in Handlers, Proceed(h)
  PROVE  TypeOK'
<1> USE BookingAssumption
<1>1. CASE CreateReadProgram(h) \/ CreateShareBranch(h) \/ CreateCheck(h) \/ PayRead(h)
  <2>1. {"create_branch", "create_check", "create_insert", "pay_commit"} \subseteq Steps
    BY DEF Steps, CreateSteps, PaySteps
  <2>2. CASE \E to \in Steps : Goto(h, to)
    BY <2>2, GotoType DEF Goto, TypeOK, tables
  <2>3. CASE Refuse(h)
    BY <2>3, RefuseType
  <2> QED
    BY <1>1, <2>1, <2>2, <2>3
    DEF CreateReadProgram, CreateShareBranch, CreateCheck, PayRead
<1>2. CASE CreateInsert(h)
  <2>1. CASE Refuse(h)
    BY <2>1, RefuseType
  <2>2. CASE End(h)
    <3>1. txn' \in [Handlers -> Txn]
      BY <2>2, EndType
    <3>2. /\ txn[h].member \in Members \cup {None}
          /\ txn[h].slot \in Slots \cup {None}
      BY DEF TypeOK, Txn
    <3>3. [status |-> FirstStatus(txn[h].slot), member |-> txn[h].member,
           slot |-> txn[h].slot, cancelledAt |-> 0] \in Row
      BY <3>2 DEF Row, FirstStatus, ReservationStatus, ActiveStatus
    <3>4. FirstPayment(txn[h].slot) \in PaymentStatus \cup {"NONE"}
      BY DEF FirstPayment, PaymentStatus
    <3>5. CASE Refuse(h)
      BY <3>5, RefuseType
    <3>6. CASE ~Refuse(h)
      BY <1>2, <3>1, <3>3, <3>4, <3>6 DEF CreateInsert, TypeOK
    <3> QED BY <3>5, <3>6
  <2> QED BY <1>2, <2>1, <2>2 DEF CreateInsert
<1>3. CASE PayCommit(h)
  <2>1. CASE Refuse(h)
    BY <2>1, RefuseType
  <2>2. CASE ~Refuse(h)
    <3>1. txn' \in [Handlers -> Txn]
      BY <1>3, <2>2, EndType DEF PayCommit
    <3>2. \A r \in Rsv : [reservation[r] EXCEPT !.status = "CONFIRMED"] \in Row
      BY DEF TypeOK, Row, ReservationStatus, ActiveStatus
    <3>3. reservation' \in [Rsv -> Row]
      BY <1>3, <2>2, <3>2 DEF PayCommit, TypeOK
    <3> QED BY <1>3, <2>2, <3>1, <3>3 DEF PayCommit, TypeOK, PaymentStatus
  <2> QED BY <2>1, <2>2
<1>4. CASE CancelRead(h)
  <2>1. txn[h].row \in Rsv /\ txn[h] \in Txn
    BY <1>4 DEF CancelRead, RequestsPlaced, TypeOK, CancelSteps
  <2>2. payment[txn[h].row] \in PaymentStatus \cup {"NONE"}
    BY <2>1 DEF TypeOK
  <2>3. [txn[h] EXCEPT !.step = "cancel_update", !.saw = payment[txn[h].row]] \in Txn
    BY <2>1, <2>2 DEF Txn, Steps, CancelSteps
  <2>4. txn' = [txn EXCEPT ![h] =
                  [txn[h] EXCEPT !.step = "cancel_update", !.saw = payment[txn[h].row]]]
    BY <1>4 DEF CancelRead, TypeOK
  <2>5. txn' \in [Handlers -> Txn]
    BY <2>3, <2>4 DEF TypeOK
  <2> QED BY <1>4, <2>5 DEF CancelRead, TypeOK, tables
<1>9. CASE CancelUpdate(h)
  <2>1. CASE Refuse(h)
    BY <2>1, RefuseType
  <2>2. CASE ~Refuse(h)
    <3>1. [txn[h] EXCEPT !.step = "cancel_commit", !.at = now] \in Txn
      <4>1. txn[h] \in Txn /\ now \in Nat /\ "cancel_commit" \in Steps
        BY DEF TypeOK, Steps, CancelSteps
      <4> QED BY <4>1 DEF Txn
    <3>2. txn' = [txn EXCEPT ![h] = [txn[h] EXCEPT !.step = "cancel_commit", !.at = now]]
      BY <1>9, <2>2 DEF CancelUpdate, TypeOK
    <3>3. txn' \in [Handlers -> Txn]
      BY <3>1, <3>2 DEF TypeOK
    <3> QED BY <1>9, <2>2, <3>3 DEF CancelUpdate, TypeOK, tables
  <2> QED BY <2>1, <2>2
<1>5. CASE CancelCommit(h)
  <2>1. CASE Refuse(h)
    BY <2>1, RefuseType
  <2>2. CASE ~Refuse(h)
    <3>1. txn' \in [Handlers -> Txn]
      BY <1>5, <2>2, EndType DEF CancelCommit
    <3>2. \A r \in Rsv : [reservation[r] EXCEPT !.status = "CANCELLED",
                                                !.cancelledAt = txn[h].at] \in Row
      <4>1. txn[h].at \in Nat
        BY DEF TypeOK, Txn
      <4> QED BY ZenonT(60), <4>1 DEF TypeOK, Row, ReservationStatus, ActiveStatus
    <3>3. reservation' \in [Rsv -> Row]
      <4>1. reservation' = [reservation EXCEPT ![txn[h].row] =
              [reservation[txn[h].row] EXCEPT !.status = "CANCELLED",
                                              !.cancelledAt = txn[h].at]]
        BY <1>5, <2>2 DEF CancelCommit
      <4> QED BY <3>2, <4>1 DEF TypeOK
    <3>4. txn[h].row \in Rsv
      BY <1>5 DEF CancelCommit, RequestsPlaced, CancelSteps
    <3>5. payment' \in [Rsv -> PaymentStatus \cup {"NONE"}]
      <4>1. \/ AfterCancel(txn[h].row, txn[h].saw) = txn[h].saw
            \/ AfterCancel(txn[h].row, txn[h].saw) \in PaymentStatus
        BY DEF AfterCancel, PaymentStatus
      <4> QED BY <1>5, <2>2, <3>4, <4>1 DEF CancelCommit, TypeOK
    <3> QED BY <1>5, <2>2, <3>1, <3>3, <3>5 DEF CancelCommit, TypeOK
  <2> QED BY <2>1, <2>2
<1>6. CASE CheckInUpdate(h)
  <2>1. CASE Refuse(h)
    BY <2>1, RefuseType
  <2>2. CASE ~Refuse(h)
    <3>1. txn' \in [Handlers -> Txn]
      BY <1>6, <2>2, EndType DEF CheckInUpdate
    <3>2. \A r \in Rsv : [reservation[r] EXCEPT !.status = "COMPLETED"] \in Row
      BY DEF TypeOK, Row, ReservationStatus, ActiveStatus
    <3>3. reservation' \in [Rsv -> Row]
      BY <1>6, <2>2, <3>2 DEF CheckInUpdate, TypeOK
    <3> QED BY <1>6, <2>2, <3>1, <3>3 DEF CheckInUpdate, TypeOK
  <2> QED BY <2>1, <2>2
<1>7. CASE StatusUpdate(h)
  <2>1. CASE Refuse(h)
    BY <2>1, RefuseType
  <2>2. CASE ~Refuse(h)
    <3>1. txn' \in [Handlers -> Txn]
      BY <1>7, <2>2, EndType DEF StatusUpdate
    <3>2. txn[h].to \in ProgramStatus
      BY <1>7 DEF StatusUpdate, RequestsPlaced, NextProgramStatus, ProgramStatus
    <3> QED BY <1>7, <2>2, <3>1, <3>2 DEF StatusUpdate, TypeOK
  <2> QED BY <2>1, <2>2
<1>8. CASE ContractCommit(h)
  <2>1. txn[h].to \in ContractStatus
    BY <1>8 DEF ContractCommit, RequestsPlaced
  <2>2. txn' \in [Handlers -> Txn]
    BY <1>8, EndType DEF ContractCommit
  <2> QED BY <1>8, <2>1, <2>2 DEF ContractCommit, TypeOK
<1> QED
  BY <1>1, <1>2, <1>3, <1>4, <1>5, <1>6, <1>7, <1>8, <1>9 DEF Proceed

(* Crashes, the clock and idle steps keep the shapes too.                  *)
LEMMA NextType ==
  ASSUME TypeOK, RequestsPlaced, [Next]_vars
  PROVE  TypeOK'
<1>1. CASE Tick
  BY <1>1 DEF Tick, TypeOK, tables
<1>2. CASE UNCHANGED vars
  BY <1>2 DEF vars, TypeOK
<1>3. ASSUME NEW h \in Handlers, Abort(h)  PROVE TypeOK'
  BY <1>3, RefuseType DEF Abort, Refuse
<1> QED BY <1>1, <1>2, <1>3, ArriveType, ProceedType DEF Next

-----------------------------------------------------------------------------
(* The clock only moves on, and nothing is written as it does.             *)
LEMMA ClockEffect ==
  ASSUME BookingInv, [Next]_vars
  PROVE  \/ now' = now
         \/ now' = now + 1 /\ UNCHANGED <<reservation, payment, contract>>
<1>1. CASE Tick
  BY <1>1, Zenon DEF Tick, tables
<1>2. ASSUME NEW h \in Handlers, Arrive(h) \/ Abort(h)  PROVE now' = now
  BY <1>2 DEF Arrive, Abort, CreateLock, PayLock, CancelLock, CheckInRead,
              StatusRead, ContractLock
<1>3. ASSUME NEW h \in Handlers, Proceed(h)  PROVE now' = now
  BY <1>3 DEF Proceed, Refuse, Goto, CreateReadProgram, CreateShareBranch, CreateCheck,
              CreateInsert, PayRead, PayCommit, CancelRead, CancelUpdate,
              CancelCommit, CheckInUpdate, StatusUpdate, ContractCommit
<1>4. CASE UNCHANGED vars
  BY <1>4 DEF vars
<1> QED BY <1>1, <1>2, <1>3, <1>4, Zenon DEF Next

(* What a step can do to one row of Reservation and its payment.           *)

Kept(r) == reservation'[r] = reservation[r] /\ payment'[r] = payment[r]

Inserted(h, r) ==
  /\ txn[h].step = "create_insert" /\ txn[h].row = r
  /\ reservation[r].status = "ABSENT"
  /\ ~Duplicate(txn[h].member, txn[h].slot)
  /\ reservation' = [reservation EXCEPT ![r] =
       [status |-> FirstStatus(txn[h].slot), member |-> txn[h].member,
        slot |-> txn[h].slot, cancelledAt |-> 0]]
  /\ payment' = [payment EXCEPT ![r] = FirstPayment(txn[h].slot)]

PaidFor(h, r) ==
  /\ txn[h].step = "pay_commit" /\ txn[h].row = r
  /\ reservation[r].status = "REQUESTED" /\ payment[r] = "PENDING"
  /\ reservation' = [reservation EXCEPT ![r].status = "CONFIRMED"]
  /\ payment' = [payment EXCEPT ![r] = "APPROVED"]

CancelledBy(h, r) ==
  /\ txn[h].step = "cancel_commit" /\ txn[h].row = r
  /\ reservation[r].status \in ActiveStatus
  /\ txn[h].at <= now
  /\ reservation' = [reservation EXCEPT ![r] =
       [@ EXCEPT !.status = "CANCELLED", !.cancelledAt = txn[h].at]]
  /\ payment' = [payment EXCEPT ![r] = AfterCancel(r, payment[r])]

UsedUp(h, r) ==
  /\ txn[h].step = "checkin_update" /\ txn[h].row = r
  /\ RowFree(r)
  /\ reservation[r].status = "CONFIRMED"
  /\ reservation' = [reservation EXCEPT ![r].status = "COMPLETED"]
  /\ payment' = payment

Written(h, r) == Inserted(h, r) \/ PaidFor(h, r) \/ CancelledBy(h, r) \/ UsedUp(h, r)

(* Every step either leaves all rows alone, or is the commit of one        *)
(* handler that writes the one row it works on.                            *)
LEMMA StepEffect ==
  ASSUME BookingInv, [Next]_vars
  PROVE  \/ reservation' = reservation /\ payment' = payment
         \/ \E h \in Handlers : /\ txn[h].row \in Rsv
                               /\ Written(h, txn[h].row)
                               /\ End(h)
                               /\ UNCHANGED <<now, program, contract>>
<1> USE DEF BookingInv
<1> DEFINE Still == reservation' = reservation /\ payment' = payment
           Wrote(h) == /\ txn[h].row \in Rsv
                       /\ Written(h, txn[h].row)
                       /\ End(h)
                       /\ UNCHANGED <<now, program, contract>>
<1>1. CASE UNCHANGED vars \/ Tick
  BY <1>1 DEF vars, Tick, tables
<1>2. ASSUME NEW h \in Handlers, Arrive(h) \/ Abort(h)  PROVE Still
  BY <1>2 DEF Arrive, Abort, CreateLock, PayLock, CancelLock, CheckInRead,
              StatusRead, ContractLock, tables
<1>3. ASSUME NEW h \in Handlers, Proceed(h)  PROVE Still \/ Wrote(h)
  <2>1. CASE Refuse(h)
    BY <2>1 DEF Refuse, tables
  <2>2. CASE CreateReadProgram(h) \/ CreateShareBranch(h) \/ CreateCheck(h)
               \/ PayRead(h) \/ CancelRead(h) \/ CancelUpdate(h)
    BY <2>2 DEF CreateReadProgram, CreateShareBranch, CreateCheck, PayRead,
                CancelRead, CancelUpdate, Goto, Refuse, tables
  <2>3. CASE CreateInsert(h) /\ ~Refuse(h)
    <3>1. txn[h].row \in Rsv /\ reservation[txn[h].row].status = "ABSENT"
      BY <2>3 DEF CreateInsert, RequestsPlaced, CreateSteps
    <3> QED BY <2>3, <3>1 DEF CreateInsert, Written, Inserted
  <2>4. CASE PayCommit(h) /\ ~Refuse(h)
    <3>1. txn[h].row \in Rsv
      BY <2>4 DEF PayCommit, RequestsPlaced, PaySteps
    <3>2. payment[txn[h].row] = "PENDING"
      BY <2>4 DEF PayCommit
    <3>3. reservation[txn[h].row].status \in ReservationStatus \cup {"ABSENT"}
      BY <3>1 DEF TypeOK, Row
    <3>4. reservation[txn[h].row].status = "REQUESTED"
      BY <3>1, <3>2, <3>3
      DEF PaymentAgrees, StatusAgrees, PaymentsOf, ReservationStatus, ActiveStatus
    <3> QED BY <2>4, <3>1, <3>2, <3>4 DEF PayCommit, Written, PaidFor
  <2>5. CASE CancelCommit(h) /\ ~Refuse(h)
    <3>1. txn[h].row \in Rsv
      BY <2>5 DEF CancelCommit, RequestsPlaced, CancelSteps
    <3>2. payment[txn[h].row] = txn[h].saw
      BY <2>5 DEF CancelCommit, ReadsHold
    <3>3. reservation[txn[h].row].status \in ActiveStatus /\ txn[h].at <= now
      BY <2>5 DEF CancelCommit, ReadsHold
    <3>4. payment' = [payment EXCEPT ![txn[h].row] =
                        AfterCancel(txn[h].row, payment[txn[h].row])]
      BY <2>5, <3>2 DEF CancelCommit
    <3>5. reservation' = [reservation EXCEPT ![txn[h].row] =
                            [@ EXCEPT !.status = "CANCELLED",
                                      !.cancelledAt = txn[h].at]]
      BY <2>5 DEF CancelCommit
    <3> QED BY <2>5, <3>1, <3>3, <3>4, <3>5 DEF CancelCommit, Written, CancelledBy
  <2>6. CASE CheckInUpdate(h) /\ ~Refuse(h)
    <3>1. txn[h].row \in Rsv
      BY <2>6 DEF CheckInUpdate, RequestsPlaced
    <3> QED BY <2>6, <3>1 DEF CheckInUpdate, Written, UsedUp
  <2>7. CASE (StatusUpdate(h) \/ ContractCommit(h)) /\ ~Refuse(h)
    BY <2>7 DEF StatusUpdate, ContractCommit
  <2> QED BY <1>3, <2>1, <2>2, <2>3, <2>4, <2>5, <2>6, <2>7 DEF Proceed
<1> QED BY <1>1, <1>2, <1>3 DEF Next

(* The row a commit writes, seen by itself, and the rows it leaves alone.  *)
LEMMA RowEffect ==
  ASSUME BookingInv, NEW h \in Handlers, NEW r \in Rsv, Written(h, r)
  PROVE  /\ \A q \in Rsv \ {r} : Kept(q)
         /\ Inserted(h, r) =>
              /\ txn[h].member \in Members /\ txn[h].slot \in Slots
              /\ reservation'[r].status = FirstStatus(txn[h].slot)
              /\ reservation'[r].member = txn[h].member
              /\ reservation'[r].slot = txn[h].slot
              /\ payment'[r] = FirstPayment(txn[h].slot)
         /\ ~Inserted(h, r) =>
              /\ reservation[r].status \in ActiveStatus
              /\ reservation'[r].slot = reservation[r].slot
              /\ reservation'[r].member = reservation[r].member
         /\ PaidFor(h, r) =>
              reservation'[r].status = "CONFIRMED" /\ payment'[r] = "APPROVED"
         /\ CancelledBy(h, r) =>
              /\ reservation'[r].status = "CANCELLED"
              /\ payment'[r] = AfterCancel(r, payment[r])
         /\ UsedUp(h, r) =>
              reservation'[r].status = "COMPLETED" /\ payment'[r] = payment[r]
<1> USE DEF BookingInv, TypeOK
<1>1. reservation[r] \in Row
  OBVIOUS
<1>2. CASE Inserted(h, r)
  <2>1. txn[h].member \in Members /\ txn[h].slot \in Slots
    BY <1>2 DEF Inserted, RequestsPlaced, CreateSteps
  <2>2. ~PaidFor(h, r) /\ ~CancelledBy(h, r) /\ ~UsedUp(h, r)
    BY <1>2 DEF Inserted, PaidFor, CancelledBy, UsedUp
  <2> QED BY <1>2, <2>1, <2>2 DEF Inserted, Kept
<1>3. CASE PaidFor(h, r)
  BY <1>1, <1>3 DEF PaidFor, Inserted, CancelledBy, UsedUp, Kept, Row, ActiveStatus
<1>4. CASE CancelledBy(h, r)
  BY <1>1, <1>4 DEF PaidFor, Inserted, CancelledBy, UsedUp, Kept, Row
<1>5. CASE UsedUp(h, r)
  BY <1>1, <1>5 DEF PaidFor, Inserted, CancelledBy, UsedUp, Kept, Row, ActiveStatus
<1> QED BY <1>2, <1>3, <1>4, <1>5 DEF Written

-----------------------------------------------------------------------------
(* Each conjunct of the invariant is kept by every step.                   *)

LEMMA RowsPlacedStep ==
  ASSUME BookingInv, [Next]_vars
  PROVE  RowsPlaced'
<1> USE DEF BookingInv
<1>1. CASE reservation' = reservation /\ payment' = payment
  BY <1>1 DEF RowsPlaced
<1>2. ASSUME NEW h \in Handlers, txn[h].row \in Rsv, Written(h, txn[h].row)
      PROVE  RowsPlaced'
  <2> DEFINE r == txn[h].row
  <2>1. CASE Inserted(h, r)
    BY <1>2, <2>1, RowEffect
    DEF RowsPlaced, Kept, FirstStatus
  <2>2. CASE ~Inserted(h, r)
    <3>1. reservation'[r].status # "ABSENT"
      BY <1>2, <2>2, RowEffect DEF Written
    <3>2. reservation[r].slot \in Slots /\ reservation[r].member \in Members
      BY <1>2, <2>2, RowEffect DEF RowsPlaced, ActiveStatus
    <3> QED BY <1>2, <2>2, <3>1, <3>2, RowEffect DEF RowsPlaced, Kept
  <2> QED BY <2>1, <2>2
<1> QED BY <1>1, <1>2, StepEffect

LEMMA PaymentAgreesStep ==
  ASSUME BookingInv, [Next]_vars
  PROVE  PaymentAgrees'
<1> USE DEF BookingInv
<1>1. CASE reservation' = reservation /\ payment' = payment
  BY <1>1 DEF PaymentAgrees, StatusAgrees
<1>2. ASSUME NEW h \in Handlers, NEW r \in Rsv, Written(h, r)
      PROVE  PaymentAgrees'
  <2>1. \A q \in Rsv \ {r} : StatusAgrees(q)'
    BY <1>2, RowEffect DEF PaymentAgrees, StatusAgrees, Kept
  <2>2. StatusAgrees(r)'
    <3>1. CASE Inserted(h, r)
      BY <1>2, <3>1, RowEffect DEF StatusAgrees, PaymentsOf, FirstStatus, FirstPayment
    <3>2. CASE PaidFor(h, r)
      BY <1>2, <3>2, RowEffect DEF StatusAgrees, PaymentsOf
    <3>3. CASE CancelledBy(h, r)
      <4>1. reservation[r].status \in ActiveStatus /\ StatusAgrees(r)
        BY <1>2, <3>3 DEF CancelledBy, PaymentAgrees
      <4>2. payment[r] \in {"NONE", "PENDING", "APPROVED"}
        BY <4>1 DEF StatusAgrees, PaymentsOf, ActiveStatus
      <4>3. AfterCancel(r, payment[r]) \in {"NONE", "FAILED", "APPROVED", "REFUNDED"}
        BY <4>2 DEF AfterCancel
      <4> QED BY <1>2, <3>3, <4>3, RowEffect DEF StatusAgrees, PaymentsOf
    <3>4. CASE UsedUp(h, r)
      <4>1. reservation[r].status = "CONFIRMED" /\ StatusAgrees(r)
        BY <1>2, <3>4 DEF UsedUp, PaymentAgrees
      <4> QED BY <1>2, <3>4, <4>1, RowEffect DEF StatusAgrees, PaymentsOf
    <3> QED BY <1>2, <3>1, <3>2, <3>3, <3>4 DEF Written
  <2> QED BY <2>1, <2>2 DEF PaymentAgrees
<1> QED BY <1>1, <1>2, StepEffect

(* A step that inserts nothing takes seats from nobody: it can only make a *)
(* slot's active reservations fewer.                                       *)
LEMMA SeatsEffect ==
  ASSUME BookingInv, [Next]_vars, NEW s \in Slots
  PROVE  \/ Active(s)' \subseteq Active(s)
         \/ \E h \in Handlers : /\ txn[h].step = "create_insert"
                               /\ txn[h].row \in Rsv /\ txn[h].slot = s
                               /\ ~Duplicate(txn[h].member, s)
                               /\ reservation'[txn[h].row].member = txn[h].member
                               /\ Active(s)' = Active(s) \cup {txn[h].row}
<1> USE DEF BookingInv
<1>1. CASE reservation' = reservation /\ payment' = payment
  BY <1>1 DEF Active
<1>2. ASSUME NEW h \in Handlers, txn[h].row \in Rsv, Written(h, txn[h].row)
      PROVE  \/ Active(s)' \subseteq Active(s)
             \/ /\ txn[h].step = "create_insert" /\ txn[h].slot = s
                /\ ~Duplicate(txn[h].member, s)
                /\ reservation'[txn[h].row].member = txn[h].member
                /\ Active(s)' = Active(s) \cup {txn[h].row}
  <2> DEFINE r == txn[h].row
  <2>1. CASE ~Inserted(h, r)
    BY <1>2, <2>1, RowEffect DEF Active, Kept
  <2>2. CASE Inserted(h, r) /\ txn[h].slot # s
    BY <1>2, <2>2, RowEffect DEF Active, Kept
  <2>3. CASE Inserted(h, r) /\ txn[h].slot = s
    <3>1. reservation'[r].status \in ActiveStatus
      BY <1>2, <2>3, RowEffect DEF FirstStatus, ActiveStatus
    <3>2. Active(s)' = Active(s) \cup {r}
      BY <1>2, <2>3, <3>1, RowEffect DEF Active, Kept
    <3> QED BY <1>2, <2>3, <3>2, RowEffect DEF Inserted
  <2> QED BY <2>1, <2>2, <2>3
<1> QED BY <1>1, <1>2, StepEffect

(* Members and slots of rows that exist never change.                      *)
LEMMA RowIdentity ==
  ASSUME BookingInv, [Next]_vars, NEW r \in Rsv, reservation[r].status # "ABSENT"
  PROVE  /\ reservation'[r].member = reservation[r].member
         /\ reservation'[r].slot = reservation[r].slot
         /\ reservation'[r].status # "ABSENT"
<1>1. CASE reservation' = reservation /\ payment' = payment
  BY <1>1
<1>2. ASSUME NEW h \in Handlers, txn[h].row \in Rsv, Written(h, txn[h].row)
      PROVE  /\ reservation'[r].member = reservation[r].member
             /\ reservation'[r].slot = reservation[r].slot
             /\ reservation'[r].status # "ABSENT"
  <2>1. CASE r # txn[h].row
    BY <1>2, <2>1, RowEffect DEF Kept
  <2>2. CASE r = txn[h].row
    <3>1. ~Inserted(h, r)
      BY <2>2 DEF Inserted
    <3> QED BY <1>2, <2>2, <3>1, RowEffect DEF Written
  <2> QED BY <2>1, <2>2
<1> QED BY <1>1, <1>2, StepEffect

(* The seat a booking inserts was still free, because its transaction held *)
(* the slot's row since it counted (ReadsHold).                            *)
LEMMA CapacitiesStep ==
  ASSUME BookingInv, [Next]_vars
  PROVE  Capacities'
<1> SUFFICES ASSUME NEW s \in Slots
             PROVE  IsFiniteSet(Active(s)') /\ Cardinality(Active(s)') <= Capacity[s]
  BY DEF Capacities
<1>1. /\ IsFiniteSet(Active(s)) /\ Cardinality(Active(s)) <= Capacity[s]
      /\ Cardinality(Active(s)) \in Nat /\ Capacity[s] \in Nat
  BY FS_CardinalityType, BookingAssumption DEF BookingInv, Capacities
<1>2. CASE Active(s)' \subseteq Active(s)
  <2>1. IsFiniteSet(Active(s)') /\ Cardinality(Active(s)') <= Cardinality(Active(s))
    BY <1>1, <1>2, FS_Subset
  <2>2. Cardinality(Active(s)') \in Nat
    BY <2>1, FS_CardinalityType
  <2> QED BY <1>1, <2>1, <2>2
<1>3. ASSUME NEW h \in Handlers, txn[h].step = "create_insert", txn[h].slot = s,
             Active(s)' = Active(s) \cup {txn[h].row}
      PROVE  IsFiniteSet(Active(s)') /\ Cardinality(Active(s)') <= Capacity[s]
  <2>1. Cardinality(Active(s)) < Capacity[s]
    BY <1>3 DEF BookingInv, ReadsHold, HasRoom
  <2>2. /\ IsFiniteSet(Active(s)')
        /\ \/ Cardinality(Active(s)') = Cardinality(Active(s))
           \/ Cardinality(Active(s)') = Cardinality(Active(s)) + 1
    <3>1. /\ IsFiniteSet(Active(s) \cup {txn[h].row})
          /\ Cardinality(Active(s) \cup {txn[h].row}) =
               IF txn[h].row \in Active(s) THEN Cardinality(Active(s))
                                           ELSE Cardinality(Active(s)) + 1
      BY <1>1, FS_AddElement, Zenon
    <3> QED BY <1>3, <3>1
  <2> QED BY <1>1, <2>1, <2>2
<1>4. \/ Active(s)' \subseteq Active(s)
      \/ \E h \in Handlers : /\ txn[h].step = "create_insert" /\ txn[h].slot = s
                            /\ Active(s)' = Active(s) \cup {txn[h].row}
  BY SeatsEffect
<1> QED BY <1>2, <1>3, <1>4

LEMMA OneActiveStep ==
  ASSUME BookingInv, [Next]_vars
  PROVE  OneActivePerMember'
<1> SUFFICES ASSUME NEW s \in Slots, NEW q \in Active(s)', NEW r \in Active(s)',
                    reservation'[q].member = reservation'[r].member
             PROVE  q = r
  BY DEF OneActivePerMember
<1>1. \A p \in Active(s) : p \in Rsv /\ reservation'[p].member = reservation[p].member
  BY RowIdentity DEF Active, ActiveStatus
<1>2. CASE Active(s)' \subseteq Active(s)
  BY <1>1, <1>2 DEF BookingInv, OneActivePerMember
<1>3. ASSUME NEW h \in Handlers, ~Duplicate(txn[h].member, s),
             reservation'[txn[h].row].member = txn[h].member,
             Active(s)' = Active(s) \cup {txn[h].row}
      PROVE  q = r
  <2>1. \A p \in Active(s) : reservation'[p].member # txn[h].member
    BY <1>1, <1>3 DEF Duplicate
  <2> QED BY <1>1, <1>3, <2>1 DEF BookingInv, OneActivePerMember
<1> QED BY <1>2, <1>3, SeatsEffect

(* One handler moves: its request becomes t.                               *)
Becomes(h, t) == txn' = [txn EXCEPT ![h] = t]

LEMMA GotoShape ==
  ASSUME TypeOK, NEW h \in Handlers, NEW to, Goto(h, to)
  PROVE  \E t : /\ Becomes(h, t) /\ t.step = to
               /\ t.row = txn[h].row /\ t.slot = txn[h].slot
               /\ t.member = txn[h].member
<1> DEFINE t == [txn[h] EXCEPT !.step = to]
<1>1. /\ t.step = to /\ t.row = txn[h].row /\ t.slot = txn[h].slot
      /\ t.member = txn[h].member
  BY DEF TypeOK, Txn
<1>2. Becomes(h, t)
  BY DEF Goto, Becomes
<1> QED BY <1>1, <1>2

(* A cancellation moves on, on the row it has locked, and writes no table. *)
Cancels(h) ==
  \E t : /\ Becomes(h, t)
         /\ t.step \in {"cancel_update", "cancel_commit"} /\ t.row = txn[h].row
         /\ t.saw \in {txn[h].saw, payment[t.row]}
         /\ CancelRead(h) => t.step = "cancel_update" /\ t.saw = payment[t.row]
         /\ t.step = "cancel_commit" =>
              /\ t.saw = txn[h].saw /\ t.at = now
              /\ txn[h].step = "cancel_update"
              /\ reservation[t.row].status \in ActiveStatus

LEMMA CancelShape ==
  ASSUME TypeOK, NEW h \in Handlers, CancelRead(h) \/ (CancelUpdate(h) /\ ~Refuse(h))
  PROVE  Cancels(h) /\ UNCHANGED <<now, reservation, payment, program, contract>>
<1>1. CASE CancelRead(h)
  <2> DEFINE t == [txn[h] EXCEPT !.step = "cancel_update", !.saw = payment[txn[h].row]]
  <2>1. t.step = "cancel_update" /\ t.row = txn[h].row /\ t.saw = payment[txn[h].row]
    BY DEF TypeOK, Txn
  <2>2. Becomes(h, t) /\ UNCHANGED <<now, tables>>
    BY <1>1 DEF CancelRead, Becomes
  <2> HIDE DEF t
  <2> QED BY <2>1, <2>2 DEF Cancels, tables
<1>2. CASE CancelUpdate(h) /\ ~Refuse(h)
  <2> DEFINE t == [txn[h] EXCEPT !.step = "cancel_commit", !.at = now]
  <2>1. /\ t.step = "cancel_commit" /\ t.row = txn[h].row
        /\ t.saw = txn[h].saw /\ t.at = now
    BY DEF TypeOK, Txn
  <2>2. /\ Becomes(h, t) /\ UNCHANGED <<now, tables>>
        /\ txn[h].step = "cancel_update"
        /\ reservation[txn[h].row].status \in ActiveStatus
    BY <1>2 DEF CancelUpdate, Becomes
  <2> HIDE DEF t
  <2>3. ~CancelRead(h)
    BY <2>2 DEF CancelRead
  <2> QED BY <2>1, <2>2, <2>3 DEF Cancels, tables
<1> QED BY <1>1, <1>2

(* A lock is taken only when no other handler is at a step that holds it.  *)
LEMMA LocksExcludeStep ==
  ASSUME BookingInv, [Next]_vars
  PROVE  LocksExclude'
<1> USE DEF BookingInv, TypeOK
<1>1. CASE txn' = txn
  BY <1>1 DEF LocksExclude, LocksSlot, LocksRow, LocksBranch, SharesBranch
<1>2. ASSUME NEW h \in Handlers, NEW t, Becomes(h, t),
             t.step \in {"idle", "checkin_update", "program_update"}
      PROVE  LocksExclude'
  BY <1>2 DEF LocksExclude, LocksSlot, LocksRow, LocksBranch, SharesBranch, Becomes,
              CreateSteps, PaySteps, CancelSteps
<1>3. ASSUME NEW h \in Handlers, NEW t, Becomes(h, t), t.row = txn[h].row,
             txn[h].step \in PaySteps \cup CancelSteps,
             t.step \in PaySteps \cup CancelSteps
      PROVE  LocksExclude'
  BY <1>3 DEF LocksExclude, LocksSlot, LocksRow, LocksBranch, SharesBranch, Becomes,
              CreateSteps, PaySteps, CancelSteps
<1>4. ASSUME NEW h \in Handlers, NEW r \in Rsv, NEW t, Becomes(h, t), t.row = r,
             RowFree(r), t.step \in PaySteps \cup CancelSteps
      PROVE  LocksExclude'
  BY <1>4 DEF LocksExclude, LocksSlot, LocksRow, LocksBranch, SharesBranch, Becomes, RowFree,
              CreateSteps, PaySteps, CancelSteps
<1>5. ASSUME NEW h \in Handlers, NEW s \in Slots, NEW t, Becomes(h, t), t.slot = s,
             \A g \in Handlers : ~LocksSlot(g, s), t.step = "create_program"
      PROVE  LocksExclude'
  BY <1>5 DEF LocksExclude, LocksSlot, LocksRow, LocksBranch, SharesBranch, Becomes,
              CreateSteps, PaySteps, CancelSteps
<1>6. ASSUME NEW h \in Handlers, NEW t, Becomes(h, t), t.slot = txn[h].slot,
             txn[h].step \in CreateSteps, t.step \in CreateSteps,
             \/ t.step = "create_branch"
             \/ txn[h].step = "create_check"
             \/ \A g \in Handlers : ~LocksBranch(g, SlotBranch(t.slot))
      PROVE  LocksExclude'
  <2>1. \A g \in Handlers, s \in Slots : LocksSlot(g, s)' = LocksSlot(g, s)
    BY <1>6 DEF LocksSlot, Becomes
  <2>2. \A g \in Handlers, r \in Rsv : LocksRow(g, r)' = LocksRow(g, r)
    BY <1>6 DEF LocksRow, Becomes, PaySteps, CancelSteps, CreateSteps
  <2>3. \A g \in Handlers, b \in Branches :
          /\ LocksBranch(g, b)' = LocksBranch(g, b)
          /\ g # h => SharesBranch(g, b)' = SharesBranch(g, b)
          /\ SharesBranch(h, b)' =>
               SharesBranch(h, b) \/ \A f \in Handlers : ~LocksBranch(f, b)
    BY <1>6 DEF LocksBranch, SharesBranch, Becomes, CreateSteps, SlotBranch
  <2> QED BY <2>1, <2>2, <2>3 DEF LocksExclude
<1>7. ASSUME NEW h \in Handlers, NEW b \in Branches, NEW t, Becomes(h, t), t.branch = b,
             t.step = "contract_commit",
             \A g \in Handlers : ~LocksBranch(g, b) /\ ~SharesBranch(g, b)
      PROVE  LocksExclude'
  BY <1>7 DEF LocksExclude, LocksSlot, LocksRow, LocksBranch, SharesBranch, Becomes,
              CreateSteps, PaySteps, CancelSteps
<1>8. ASSUME NEW h \in Handlers, Arrive(h)  PROVE LocksExclude'
  <2>1. ASSUME NEW m \in Members, NEW s \in Slots, NEW r \in Rsv, CreateLock(h, m, s, r)
        PROVE  LocksExclude'
    <3> DEFINE t == [Idle EXCEPT !.step = "create_program", !.member = m,
                                 !.slot = s, !.row = r]
    <3>1. Becomes(h, t) /\ t.step = "create_program" /\ t.slot = s
      BY <2>1 DEF CreateLock, Start, Idle, Becomes
    <3> HIDE DEF t
    <3> QED BY <1>5, <2>1, <3>1 DEF CreateLock
  <2>2. ASSUME NEW r \in Rsv, PayLock(h, r) \/ CancelLock(h, r)
        PROVE  LocksExclude'
    <3>1. \E st \in {"pay_read", "cancel_read"} :
            Becomes(h, [Idle EXCEPT !.step = st, !.row = r])
      BY <2>2 DEF PayLock, CancelLock, Start, Becomes
    <3>2. \A st : [Idle EXCEPT !.step = st, !.row = r].step = st
      BY DEF Idle
    <3>3. \A st : [Idle EXCEPT !.step = st, !.row = r].row = r
      BY DEF Idle
    <3>4. \E t : Becomes(h, t) /\ t.step \in PaySteps \cup CancelSteps /\ t.row = r
      BY <3>1, <3>2, <3>3, Zenon DEF PaySteps, CancelSteps
    <3> QED BY <1>4, <2>2, <3>4 DEF PayLock, CancelLock
  <2>3. ASSUME NEW r \in Rsv, CheckInRead(h, r)  PROVE LocksExclude'
    <3> DEFINE t == [Idle EXCEPT !.step = "checkin_update", !.row = r]
    <3>1. Becomes(h, t) /\ t.step = "checkin_update"
      BY <2>3 DEF CheckInRead, Start, Idle, Becomes
    <3> HIDE DEF t
    <3> QED BY <1>2, <3>1
  <2>4. ASSUME NEW p \in Programs, NEW to \in ProgramAsks, StatusRead(h, p, to)
        PROVE  LocksExclude'
    <3> DEFINE t == [Idle EXCEPT !.step = "program_update", !.program = p,
                                 !.saw = program[p], !.to = to]
    <3>1. Becomes(h, t) /\ t.step = "program_update"
      BY <2>4 DEF StatusRead, Start, Idle, Becomes
    <3> HIDE DEF t
    <3> QED BY <1>2, <3>1
  <2>5. ASSUME NEW b \in Branches, NEW to \in ContractAsks, ContractLock(h, b, to)
        PROVE  LocksExclude'
    <3> DEFINE t == [Idle EXCEPT !.step = "contract_commit", !.branch = b, !.to = to]
    <3>1. Becomes(h, t) /\ t.step = "contract_commit" /\ t.branch = b
      BY <2>5 DEF ContractLock, Start, Idle, Becomes
    <3> HIDE DEF t
    <3> QED BY <1>7, <2>5, <3>1 DEF ContractLock
  <2> QED BY <1>8, <2>1, <2>2, <2>3, <2>4, <2>5 DEF Arrive
<1>9. ASSUME NEW h \in Handlers, Proceed(h) \/ Abort(h)  PROVE LocksExclude'
  <2>1. CASE End(h)
    BY <1>2, <2>1, IdleIsTxn DEF End, Becomes
  <2>2. CASE CreateReadProgram(h) /\ ~End(h)
    <3>1. Goto(h, "create_branch") /\ txn[h].step = "create_program"
      BY <2>2 DEF CreateReadProgram, Refuse
    <3> QED BY <1>6, <3>1, GotoShape DEF CreateSteps
  <2>3. CASE CreateShareBranch(h) /\ ~End(h)
    <3>1. /\ Goto(h, "create_check") /\ txn[h].step = "create_branch"
          /\ \A g \in Handlers : ~LocksBranch(g, SlotBranch(txn[h].slot))
      BY <2>3 DEF CreateShareBranch, Refuse
    <3> QED BY <1>6, <3>1, GotoShape DEF CreateSteps
  <2>4. CASE CreateCheck(h) /\ ~End(h)
    <3>1. Goto(h, "create_insert") /\ txn[h].step = "create_check"
      BY <2>4 DEF CreateCheck, Refuse
    <3> QED BY <1>6, <3>1, GotoShape DEF CreateSteps
  <2>5. CASE PayRead(h) /\ ~End(h)
    <3>1. Goto(h, "pay_commit") /\ txn[h].step = "pay_read"
      BY <2>5 DEF PayRead, Refuse
    <3> QED BY <1>3, <3>1, GotoShape DEF PaySteps
  <2>6. CASE CancelRead(h) \/ (CancelUpdate(h) /\ ~End(h))
    <3>1. Cancels(h) /\ txn[h].step \in CancelSteps
      BY <2>6, CancelShape DEF CancelRead, CancelUpdate, Refuse, CancelSteps
    <3> QED BY <1>3, <3>1 DEF Cancels, CancelSteps
  <2> QED
    BY <1>9, <2>1, <2>2, <2>3, <2>4, <2>5, <2>6
    DEF Proceed, Abort, Refuse, CreateInsert, PayCommit, CancelCommit, CheckInUpdate,
        StatusUpdate, ContractCommit
<1> QED BY <1>1, <1>8, <1>9 DEF Next, Tick, vars

MovesOn(h, st) ==
  \/ CreateReadProgram(h) /\ st = "create_branch"
  \/ CreateShareBranch(h) /\ st = "create_check" /\ ~Refuse(h)
  \/ CreateCheck(h) /\ st = "create_insert" /\ ~Refuse(h)
  \/ PayRead(h) /\ st = "pay_commit" /\ ~Refuse(h)

(* Which requests a step can leave in flight: the old ones, an arrival, or *)
(* one that moved on.                                                      *)
LEMMA Flight ==
  ASSUME BookingInv, [Next]_vars
  PROVE  \/ txn' = txn
         \/ \E h \in Handlers : Becomes(h, Idle) \/ Arrive(h)
         \/ \E h \in Handlers, st \in Steps : Goto(h, st) /\ MovesOn(h, st)
         \/ \E h \in Handlers : CancelRead(h) \/ (CancelUpdate(h) /\ ~Refuse(h))
<1>1. {"create_branch", "create_check", "create_insert", "pay_commit"} \subseteq Steps
  BY DEF Steps, CreateSteps, PaySteps
<1> QED
  BY ZenonT(60), <1>1
  DEF MovesOn, Next, vars, Tick, Proceed, Abort, End, Becomes, Refuse,
      CreateReadProgram, CreateShareBranch, CreateCheck, CreateInsert, PayRead,
      PayCommit, CancelUpdate, CancelCommit, CheckInUpdate, StatusUpdate, ContractCommit

(* What RequestsPlaced says of one handler.                                *)
Placed(h) == LET t == txn[h] IN
  /\ t.step \in CreateSteps =>
       /\ t.member \in Members /\ t.slot \in Slots /\ t.row \in Rsv
       /\ reservation[t.row].status = "ABSENT"
       /\ \A g \in Handlers :
            txn[g].step \in CreateSteps /\ txn[g].row = t.row => g = h
  /\ t.step \in PaySteps \cup CancelSteps \cup {"checkin_update"} =>
       t.row \in Rsv /\ reservation[t.row].status # "ABSENT"
  /\ t.step = "program_update" =>
       /\ t.program \in Programs /\ t.saw \in ProgramStatus
       /\ t.to \in NextProgramStatus[t.saw]
  /\ t.step = "contract_commit" =>
       t.branch \in Branches /\ t.to \in ContractStatus

(* A request that did not move is still placed: nobody else inserts the    *)
(* row it booked, and rows that exist stay.                                *)
LEMMA StillPlaced ==
  ASSUME BookingInv, [Next]_vars, NEW g \in Handlers, txn'[g] = txn[g],
         \A f \in Handlers \ {g} :
           txn'[f].step \in CreateSteps /\ txn'[f].row = txn[g].row =>
             txn[f].step \in CreateSteps /\ txn[f].row = txn[g].row
  PROVE  Placed(g)'
<1> USE DEF BookingInv
<1>1. Placed(g)
  BY DEF RequestsPlaced, Placed
<1>2. CASE txn[g].step \in CreateSteps
  <2>1. /\ txn[g].member \in Members /\ txn[g].slot \in Slots /\ txn[g].row \in Rsv
        /\ reservation[txn[g].row].status = "ABSENT"
        /\ \A f \in Handlers :
             txn[f].step \in CreateSteps /\ txn[f].row = txn[g].row => f = g
    BY <1>1, <1>2 DEF Placed
  <2>2. reservation'[txn[g].row].status = "ABSENT"
    <3>1. CASE reservation' = reservation
      BY <2>1, <3>1
    <3>2. ASSUME NEW h \in Handlers, txn[h].row \in Rsv, Written(h, txn[h].row), End(h)
          PROVE  reservation'[txn[g].row].status = "ABSENT"
      <4>1. h # g
        BY <1>2, <3>2, IdleIsTxn DEF End, CreateSteps, TypeOK
      <4>2. txn[h].row # txn[g].row
        BY <2>1, <3>2, <4>1
        DEF Written, Inserted, PaidFor, CancelledBy, UsedUp, ActiveStatus, CreateSteps
      <4> QED BY <2>1, <3>2, <4>2, RowEffect DEF Kept
    <3> QED BY <3>1, <3>2, StepEffect
  <2>3. \A f \in Handlers :
          txn'[f].step \in CreateSteps /\ txn'[f].row = txn[g].row => f = g
    BY <2>1
  <2> QED BY <1>2, <2>1, <2>2, <2>3 DEF Placed, CreateSteps, PaySteps, CancelSteps
<1>3. CASE txn[g].step \notin CreateSteps
  <2>1. txn[g].step \in PaySteps \cup CancelSteps \cup {"checkin_update"} =>
          txn[g].row \in Rsv /\ reservation'[txn[g].row].status # "ABSENT"
    BY <1>1, RowIdentity DEF Placed
  <2> QED BY <1>1, <1>3, <2>1 DEF Placed
<1> QED BY <1>2, <1>3

LEMMA RequestsPlacedStep ==
  ASSUME BookingInv, [Next]_vars
  PROVE  RequestsPlaced'
<1> USE DEF BookingInv, TypeOK
<1> SUFFICES \A g \in Handlers : Placed(g)'
  BY DEF RequestsPlaced, Placed
<1> DEFINE Ours(f) == \A g \in Handlers \ {f} : Placed(g)'
(* The others stay placed when the one that moved took nobody's row.       *)
<1>1. ASSUME NEW f \in Handlers, NEW t, Becomes(f, t),
             t.step \in CreateSteps =>
               \/ txn[f].step \in CreateSteps /\ t.row = txn[f].row
               \/ \A g \in Handlers : txn[g].row # t.row
      PROVE  Ours(f)
  <2> SUFFICES ASSUME NEW g \in Handlers \ {f}  PROVE Placed(g)'
    OBVIOUS
  <2>1. txn'[g] = txn[g] /\ txn'[f] = t
    BY <1>1 DEF Becomes
  <2>2. \A e \in Handlers \ {f} : txn'[e] = txn[e]
    BY <1>1 DEF Becomes
  <2> QED BY <1>1, <2>1, <2>2, StillPlaced
<1>2. CASE txn' = txn
  BY <1>2, StillPlaced
<1>3. ASSUME NEW h \in Handlers, Becomes(h, Idle)
      PROVE  \A g \in Handlers : Placed(g)'
  <2>1. Ours(h)
    BY <1>1, <1>3, IdleIsTxn DEF CreateSteps
  <2>2. txn'[h].step = "idle"
    BY <1>3, IdleIsTxn DEF Becomes
  <2>3. Placed(h)'
    BY <2>2 DEF Placed, CreateSteps, PaySteps, CancelSteps
  <2> QED BY <2>1, <2>3
<1>4. ASSUME NEW h \in Handlers, Arrive(h)
      PROVE  \A g \in Handlers : Placed(g)'
  <2>1. reservation' = reservation /\ program' = program
    BY <1>4 DEF Arrive, CreateLock, PayLock, CancelLock, CheckInRead, StatusRead,
                ContractLock, tables
  <2>2. ASSUME NEW m \in Members, NEW s \in Slots, NEW r \in Rsv, CreateLock(h, m, s, r)
        PROVE  \A g \in Handlers : Placed(g)'
    <3> DEFINE t == [Idle EXCEPT !.step = "create_program", !.member = m,
                                 !.slot = s, !.row = r]
    <3>1. /\ Becomes(h, t) /\ t.step = "create_program"
          /\ t.member = m /\ t.slot = s /\ t.row = r
      BY <2>2 DEF CreateLock, Start, Idle, Becomes
    <3> HIDE DEF t
    <3>2. reservation[r].status = "ABSENT" /\ \A g \in Handlers : txn[g].row # r
      BY <2>2 DEF CreateLock
    <3>3. Ours(h)
      BY <1>1, <3>1, <3>2
    <3>4. txn'[h] = t /\ \A g \in Handlers \ {h} : txn'[g].row # r
      BY <3>1, <3>2 DEF Becomes
    <3>5. Placed(h)'
      BY <2>1, <3>1, <3>2, <3>4 DEF Placed, CreateSteps, PaySteps, CancelSteps
    <3> QED BY <3>3, <3>5
  <2>3. ASSUME NEW r \in Rsv, PayLock(h, r) \/ CancelLock(h, r) \/ CheckInRead(h, r)
        PROVE  \A g \in Handlers : Placed(g)'
    <3>1. PICK st \in {"pay_read", "cancel_read", "checkin_update"} :
            Becomes(h, [Idle EXCEPT !.step = st, !.row = r])
      BY <2>3 DEF PayLock, CancelLock, CheckInRead, Start, Becomes
    <3> DEFINE t == [Idle EXCEPT !.step = st, !.row = r]
    <3>2. t.step = st /\ t.row = r
      BY DEF Idle
    <3>3. reservation[r].status # "ABSENT"
      BY <2>3 DEF PayLock, CancelLock, CheckInRead
    <3> HIDE DEF t
    <3>4. Ours(h)
      BY <1>1, <3>1, <3>2 DEF CreateSteps, t
    <3>5. txn'[h] = t
      BY <3>1 DEF Becomes, t
    <3>6. Placed(h)'
      BY <2>1, <3>2, <3>3, <3>5 DEF Placed, CreateSteps
    <3> QED BY <3>4, <3>6
  <2>4. ASSUME NEW p \in Programs, NEW to \in ProgramAsks, StatusRead(h, p, to)
        PROVE  \A g \in Handlers : Placed(g)'
    <3> DEFINE t == [Idle EXCEPT !.step = "program_update", !.program = p,
                                 !.saw = program[p], !.to = to]
    <3>1. /\ Becomes(h, t) /\ t.step = "program_update"
          /\ t.program = p /\ t.saw = program[p] /\ t.to = to
      BY <2>4 DEF StatusRead, Start, Idle, Becomes
    <3> HIDE DEF t
    <3>2. Ours(h)
      BY <1>1, <3>1 DEF CreateSteps
    <3>3. txn'[h] = t /\ to \in NextProgramStatus[program[p]]
      BY <2>4, <3>1 DEF Becomes, StatusRead
    <3>4. Placed(h)'
      BY <3>1, <3>3 DEF Placed, CreateSteps, PaySteps, CancelSteps
    <3> QED BY <3>2, <3>4
  <2>5. ASSUME NEW b \in Branches, NEW to \in ContractAsks, ContractLock(h, b, to)
        PROVE  \A g \in Handlers : Placed(g)'
    <3> DEFINE t == [Idle EXCEPT !.step = "contract_commit", !.branch = b, !.to = to]
    <3>1. Becomes(h, t) /\ t.step = "contract_commit" /\ t.branch = b /\ t.to = to
      BY <2>5 DEF ContractLock, Start, Idle, Becomes
    <3> HIDE DEF t
    <3>2. Ours(h)
      BY <1>1, <3>1 DEF CreateSteps
    <3>3. txn'[h] = t
      BY <3>1 DEF Becomes
    <3>4. Placed(h)'
      BY <3>1, <3>3, BookingAssumption DEF Placed, CreateSteps, PaySteps, CancelSteps
    <3> QED BY <3>2, <3>4
  <2> QED BY <1>4, <2>2, <2>3, <2>4, <2>5 DEF Arrive
<1>5. ASSUME NEW h \in Handlers, NEW st \in Steps, Goto(h, st), MovesOn(h, st)
      PROVE  \A g \in Handlers : Placed(g)'
  <2>1. PICK t : /\ Becomes(h, t) /\ t.step = st /\ t.row = txn[h].row
                 /\ t.slot = txn[h].slot /\ t.member = txn[h].member
    BY <1>5, GotoShape
  <2>2. \/ st = "pay_commit" /\ txn[h].step \in PaySteps
        \/ st \in CreateSteps /\ txn[h].step \in CreateSteps
    BY <1>5
    DEF MovesOn, CreateReadProgram, CreateShareBranch, CreateCheck, PayRead,
        PaySteps, CreateSteps
  <2>3. Ours(h)
    BY <1>1, <2>1, <2>2 DEF CreateSteps
  <2>4. Placed(h) /\ txn'[h] = t /\ reservation' = reservation
    BY <1>5, <2>1 DEF RequestsPlaced, Placed, Becomes, Goto, tables
  <2>5. Placed(h)'
    BY <2>1, <2>2, <2>4 DEF Placed, CreateSteps, PaySteps, CancelSteps, Becomes
  <2> QED BY <2>3, <2>5
<1>6. ASSUME NEW h \in Handlers, CancelRead(h) \/ (CancelUpdate(h) /\ ~Refuse(h))
      PROVE  \A g \in Handlers : Placed(g)'
  <2>1. PICK t : /\ Becomes(h, t) /\ t.row = txn[h].row
                 /\ t.step \in {"cancel_update", "cancel_commit"}
    BY <1>6, CancelShape DEF Cancels
  <2>2. txn[h].step \in CancelSteps /\ reservation' = reservation
    BY <1>6, CancelShape DEF CancelRead, CancelUpdate, CancelSteps
  <2>3. Ours(h)
    BY <1>1, <2>1, <2>2 DEF CreateSteps
  <2>4. Placed(h) /\ txn'[h] = t
    BY <2>1, <2>2 DEF RequestsPlaced, Placed, Becomes
  <2>5. Placed(h)'
    BY <2>1, <2>2, <2>4 DEF Placed, CreateSteps, PaySteps, CancelSteps
  <2> QED BY <2>3, <2>5
<1> QED BY <1>2, <1>3, <1>4, <1>5, <1>6, Flight

(* What ReadsHold says of one handler.                                     *)
Holds(h) == LET t == txn[h] IN
  /\ t.step \in {"create_check", "create_insert"} =>
       contract[SlotBranch(t.slot)] # "TERMINATED"
  /\ t.step = "create_insert" => HasRoom(t.slot) /\ ~Duplicate(t.member, t.slot)
  /\ t.step = "pay_commit" => payment[t.row] = "PENDING"
  /\ t.step \in {"cancel_update", "cancel_commit"} => payment[t.row] = t.saw
  /\ t.step = "cancel_commit" =>
       reservation[t.row].status \in ActiveStatus /\ t.at <= now

(* Others cannot spoil a read made under a lock: the slot's seats ...      *)
LEMMA SeatsHeld ==
  ASSUME BookingInv, [Next]_vars, NEW g \in Handlers, txn'[g] = txn[g],
         txn[g].step = "create_insert"
  PROVE  HasRoom(txn[g].slot)' /\ ~Duplicate(txn[g].member, txn[g].slot)'
<1> USE DEF BookingInv
<1> DEFINE s == txn[g].slot
           m == txn[g].member
<1>1. s \in Slots /\ HasRoom(s) /\ ~Duplicate(m, s)
  BY DEF RequestsPlaced, ReadsHold, CreateSteps
<1>2. /\ IsFiniteSet(Active(s))
      /\ Cardinality(Active(s)) \in Nat /\ Capacity[s] \in Nat
  BY <1>1, FS_CardinalityType, BookingAssumption DEF Capacities
<1>3. Active(s)' \subseteq Active(s)
  <2>1. ASSUME NEW h \in Handlers, txn[h].step = "create_insert", txn[h].slot = s,
               Written(h, txn[h].row), End(h)
        PROVE  FALSE
    <3>1. h = g
      BY <1>1, <2>1 DEF LocksExclude, LocksSlot, CreateSteps
    <3> QED BY <2>1, <3>1, IdleIsTxn DEF End, TypeOK
  <2>2. CASE reservation' = reservation
    BY <2>2 DEF Active
  <2>3. ASSUME NEW h \in Handlers, txn[h].row \in Rsv, Written(h, txn[h].row), End(h)
        PROVE  Active(s)' \subseteq Active(s)
    <3>1. Inserted(h, txn[h].row) => txn[h].slot # s
      BY <2>1, <2>3 DEF Inserted
    <3> QED BY <2>3, <3>1, RowEffect DEF Active, Kept
  <2> QED BY <2>2, <2>3, StepEffect
<1>4. /\ \A q \in Active(s) : q \in Rsv /\ reservation'[q].member = reservation[q].member
  BY RowIdentity DEF Active, ActiveStatus
<1>5. Cardinality(Active(s)') <= Cardinality(Active(s)) /\ Cardinality(Active(s)') \in Nat
  <2>1. IsFiniteSet(Active(s)') /\ Cardinality(Active(s)') <= Cardinality(Active(s))
    BY <1>2, <1>3, FS_Subset
  <2> QED BY <2>1, FS_CardinalityType
<1> QED BY <1>1, <1>2, <1>3, <1>4, <1>5 DEF HasRoom, Duplicate

(* ... the row it locked and its payment ...                               *)
LEMMA RowHeld ==
  ASSUME BookingInv, [Next]_vars, NEW g \in Handlers, txn'[g] = txn[g],
         txn[g].step \in PaySteps \cup CancelSteps
  PROVE  Kept(txn[g].row)
<1> USE DEF BookingInv
<1>1. txn[g].row \in Rsv /\ reservation[txn[g].row].status # "ABSENT"
  BY DEF RequestsPlaced
<1>2. CASE reservation' = reservation /\ payment' = payment
  BY <1>2 DEF Kept
<1>3. ASSUME NEW h \in Handlers, txn[h].row \in Rsv, Written(h, txn[h].row), End(h)
      PROVE  Kept(txn[g].row)
  <2>1. h # g
    BY <1>3, IdleIsTxn DEF End, TypeOK, PaySteps, CancelSteps
  <2>2. CASE txn[h].row # txn[g].row
    BY <1>1, <1>3, <2>2, RowEffect
  <2>3. CASE txn[h].row = txn[g].row
    <3>1. ~LocksRow(h, txn[g].row)
      BY <1>1, <2>1, <2>3 DEF LocksExclude, LocksRow
    <3> QED
      BY <1>1, <1>3, <2>3, <3>1
      DEF Written, Inserted, PaidFor, CancelledBy, UsedUp, LocksRow, RowFree,
          PaySteps, CancelSteps
  <2> QED BY <2>2, <2>3
<1> QED BY <1>2, <1>3, StepEffect

(* ... and the contract of the branch it shares.                           *)
LEMMA ContractHeld ==
  ASSUME BookingInv, [Next]_vars, NEW g \in Handlers, NEW b \in Branches,
         SharesBranch(g, b)
  PROVE  contract'[b] = contract[b]
<1> USE DEF BookingInv
<1>1. ASSUME NEW h \in Handlers, ContractCommit(h)
      PROVE  contract'[b] = contract[b]
  <2>1. h # g
    BY <1>1 DEF ContractCommit, SharesBranch
  <2>2. txn[h].branch # b
    BY <1>1, <2>1 DEF ContractCommit, LocksExclude, LocksBranch
  <2> QED BY <1>1, <2>2 DEF ContractCommit, TypeOK
<1>2. CASE contract' = contract
  BY <1>2
<1> QED
  BY ZenonT(60), <1>1, <1>2
  DEF Next, vars, Tick, Arrive, Proceed, Abort, End, Refuse, Goto, tables,
      CreateLock, PayLock, CancelLock, CheckInRead, StatusRead, ContractLock,
      CreateReadProgram, CreateShareBranch, CreateCheck, CreateInsert, PayRead,
      PayCommit, CancelRead, CancelUpdate, CancelCommit, CheckInUpdate, StatusUpdate

LEMMA ReadsHoldStep ==
  ASSUME BookingInv, [Next]_vars
  PROVE  ReadsHold'
<1> USE DEF BookingInv, TypeOK
<1> SUFFICES \A g \in Handlers : Holds(g)'
  BY DEF ReadsHold, Holds
<1>1. ASSUME NEW g \in Handlers, txn'[g] = txn[g]  PROVE Holds(g)'
  <2>1. txn[g].step \in {"create_check", "create_insert"} =>
          contract'[SlotBranch(txn[g].slot)] # "TERMINATED"
    <3> SUFFICES ASSUME txn[g].step \in {"create_check", "create_insert"}
                 PROVE  contract'[SlotBranch(txn[g].slot)] # "TERMINATED"
      OBVIOUS
    <3>1. txn[g].slot \in Slots
      BY DEF RequestsPlaced, CreateSteps
    <3>2. SlotBranch(txn[g].slot) \in Branches
      BY <3>1, BookingAssumption DEF SlotBranch
    <3>3. SharesBranch(g, SlotBranch(txn[g].slot))
      BY DEF SharesBranch
    <3> QED BY <3>2, <3>3, ContractHeld DEF ReadsHold
  <2>2. txn[g].step = "create_insert" =>
          HasRoom(txn[g].slot)' /\ ~Duplicate(txn[g].member, txn[g].slot)'
    BY <1>1, SeatsHeld
  <2>3. /\ txn[g].step = "pay_commit" => payment'[txn[g].row] = "PENDING"
        /\ txn[g].step \in {"cancel_update", "cancel_commit"} =>
             payment'[txn[g].row] = txn[g].saw
    BY <1>1, RowHeld DEF Kept, PaySteps, CancelSteps, ReadsHold
  <2>4. txn[g].step = "cancel_commit" =>
          reservation'[txn[g].row].status \in ActiveStatus /\ txn[g].at <= now'
    <3>1. now <= now' /\ now \in Nat /\ now' \in Nat /\ txn[g].at \in Nat
      BY ClockEffect DEF Txn
    <3> QED BY <1>1, <3>1, RowHeld DEF Kept, CancelSteps, ReadsHold
  <2> QED BY <1>1, <2>1, <2>2, <2>3, <2>4 DEF Holds, HasRoom, Duplicate, Active, SlotBranch
<1>2. ASSUME NEW g \in Handlers,
             txn'[g].step \notin {"create_check", "create_insert", "pay_commit",
                                  "cancel_update", "cancel_commit"}
      PROVE  Holds(g)'
  BY <1>2 DEF Holds
<1>3. ASSUME NEW h \in Handlers, Arrive(h)  PROVE \A g \in Handlers : Holds(g)'
  <2>1. /\ \A g \in Handlers \ {h} : txn'[g] = txn[g]
        /\ txn'[h].step \in {"create_program", "pay_read", "cancel_read",
                             "checkin_update", "program_update", "contract_commit"}
    BY ZenonT(60), <1>3
    DEF Arrive, CreateLock, PayLock, CancelLock, CheckInRead, StatusRead, ContractLock,
        Start, Idle
  <2> QED BY <1>1, <1>2, <2>1
<1>4. ASSUME NEW h \in Handlers, NEW st \in Steps, Goto(h, st), MovesOn(h, st)
      PROVE  \A g \in Handlers : Holds(g)'
  <2>1. PICK t : /\ Becomes(h, t) /\ t.step = st /\ t.row = txn[h].row
                 /\ t.slot = txn[h].slot /\ t.member = txn[h].member
    BY <1>4, GotoShape
  <2>2. /\ \A g \in Handlers \ {h} : txn'[g] = txn[g]
        /\ txn'[h] = t
        /\ reservation' = reservation /\ payment' = payment /\ contract' = contract
    BY <1>4, <2>1 DEF Becomes, Goto, tables
  <2>3. CASE st = "create_branch"
    BY <1>1, <1>2, <2>1, <2>2, <2>3
  <2>4. CASE CreateShareBranch(h) /\ st = "create_check" /\ ~Refuse(h)
    <3>1. contract[SlotBranch(txn[h].slot)] # "TERMINATED"
      BY <2>4 DEF CreateShareBranch
    <3>2. Holds(h)'
      BY <2>1, <2>2, <2>4, <3>1 DEF Holds, SlotBranch
    <3> QED BY <1>1, <2>2, <3>2
  <2>5. CASE CreateCheck(h) /\ st = "create_insert" /\ ~Refuse(h)
    <3>1. /\ contract[SlotBranch(txn[h].slot)] # "TERMINATED"
          /\ HasRoom(txn[h].slot) /\ ~Duplicate(txn[h].member, txn[h].slot)
      BY <2>5 DEF CreateCheck, Bookable, ReadsHold
    <3>2. HasRoom(t.slot)' /\ ~Duplicate(t.member, t.slot)'
      BY <2>1, <2>2, <3>1 DEF HasRoom, Duplicate, Active
    <3>3. Holds(h)'
      BY <2>1, <2>2, <2>5, <3>1, <3>2 DEF Holds, SlotBranch, HasRoom, Duplicate, Active
    <3> QED BY <1>1, <2>2, <3>3
  <2>6. CASE PayRead(h) /\ st = "pay_commit" /\ ~Refuse(h)
    <3>1. payment[txn[h].row] = "PENDING"
      BY <2>6 DEF PayRead
    <3>2. Holds(h)'
      BY <2>1, <2>2, <2>6, <3>1 DEF Holds
    <3> QED BY <1>1, <2>2, <3>2
  <2> QED BY <1>4, <2>3, <2>4, <2>5, <2>6 DEF MovesOn
<1>5. ASSUME NEW h \in Handlers, CancelRead(h) \/ (CancelUpdate(h) /\ ~Refuse(h))
      PROVE  \A g \in Handlers : Holds(g)'
  <2>1. PICK t :
          /\ Becomes(h, t) /\ t.row = txn[h].row
          /\ t.step \in {"cancel_update", "cancel_commit"}
          /\ CancelRead(h) => t.step = "cancel_update" /\ t.saw = payment[t.row]
          /\ t.step = "cancel_commit" =>
               /\ t.saw = txn[h].saw /\ t.at = now
               /\ txn[h].step = "cancel_update"
               /\ reservation[t.row].status \in ActiveStatus
    BY <1>5, CancelShape DEF Cancels
  <2>2. /\ \A g \in Handlers \ {h} : txn'[g] = txn[g]
        /\ txn'[h] = t
        /\ UNCHANGED <<now, reservation, payment>>
    BY <1>5, <2>1, CancelShape DEF Becomes
  <2>3. Holds(h)'
    <3>1. CASE CancelRead(h)
      BY <2>1, <2>2, <3>1 DEF Holds
    <3>2. CASE CancelUpdate(h) /\ ~Refuse(h)
      <4>1. t.step = "cancel_commit"
        BY <2>2, <3>2 DEF CancelUpdate, Txn
      <4>2. payment[t.row] = t.saw
        BY <2>1, <4>1 DEF ReadsHold
      <4> QED BY <2>1, <2>2, <4>1, <4>2 DEF Holds
    <3> QED BY <1>5, <3>1, <3>2
  <2> QED BY <1>1, <2>2, <2>3
<1>6. ASSUME NEW h \in Handlers, Becomes(h, Idle)
      PROVE  \A g \in Handlers : Holds(g)'
  BY <1>1, <1>2, <1>6, IdleIsTxn DEF Becomes
<1>7. CASE txn' = txn
  BY <1>1, <1>7
<1> QED BY <1>3, <1>4, <1>5, <1>6, <1>7, Flight

-----------------------------------------------------------------------------
(* The theorems.                                                           *)

LEMMA BookingInit == Init => BookingInv
<1> SUFFICES ASSUME Init PROVE BookingInv
  OBVIOUS
<1> USE BookingAssumption DEF Init
<1>1. \A h \in Handlers : txn[h] = Idle /\ txn[h].step = "idle"
  BY IdleIsTxn
<1>2. \A r \in Rsv : reservation[r] = NoRow /\ reservation[r].status = "ABSENT"
  BY DEF NoRow
<1>3. TypeOK
  <2>1. NoRow \in Row
    BY DEF NoRow, Row
  <2>2. program \in [Programs -> ProgramStatus]
    BY DEF ProgramStatus
  <2> QED BY <2>1, <2>2, IdleIsTxn DEF TypeOK, ContractStatus
<1>4. RequestsPlaced
  BY <1>1 DEF RequestsPlaced, CreateSteps, PaySteps, CancelSteps
<1>5. RowsPlaced
  BY <1>2 DEF RowsPlaced
<1>6. LocksExclude
  BY <1>1
  DEF LocksExclude, LocksSlot, LocksRow, LocksBranch, SharesBranch, CreateSteps,
      PaySteps, CancelSteps
<1>7. ReadsHold
  BY <1>1 DEF ReadsHold
<1>8. \A s \in Slots : Active(s) = {}
  BY <1>2 DEF Active, ActiveStatus
<1>9. Capacities
  <2>1. IsFiniteSet({}) /\ Cardinality({}) = 0
    BY FS_EmptySet
  <2>2. \A s \in Slots : 0 <= Capacity[s]
    OBVIOUS
  <2> HIDE BookingAssumption DEF Init
  <2> QED BY <1>8, <2>1, <2>2 DEF Capacities
<1>10. OneActivePerMember
  BY <1>8 DEF OneActivePerMember
<1>11. PaymentAgrees
  BY <1>2 DEF PaymentAgrees, StatusAgrees, PaymentsOf
<1> QED BY <1>3, <1>4, <1>5, <1>6, <1>7, <1>9, <1>10, <1>11 DEF BookingInv

LEMMA BookingStep == BookingInv /\ [Next]_vars => BookingInv'
BY NextType, RequestsPlacedStep, RowsPlacedStep, LocksExcludeStep, ReadsHoldStep,
   CapacitiesStep, OneActiveStep, PaymentAgreesStep
DEF BookingInv

(* The conjunction of all of it is inductive: from any state that          *)
(* satisfies it, whatever step any handler takes leads to another.         *)
THEOREM Invariance == Spec => []BookingInv
BY BookingInit, BookingStep, PTL DEF Spec

(* Every variable keeps its shape.                                         *)
THEOREM TypeCorrect == Spec => []TypeOK
<1>1. BookingInv => TypeOK
  BY DEF BookingInv
<1> QED BY <1>1, Invariance, PTL

(* No interleaving of any number of bookings, payments, cancellations and  *)
(* check-ins gives a slot more active reservations than seats (D7).        *)
THEOREM NeverOversold == Spec => []Capacities
<1>1. BookingInv => Capacities
  BY DEF BookingInv
<1> QED BY <1>1, Invariance, PTL

(* ... or gives one member two active reservations of a slot.              *)
THEOREM NeverTwice == Spec => []OneActivePerMember
<1>1. BookingInv => OneActivePerMember
  BY DEF BookingInv
<1> QED BY <1>1, Invariance, PTL

(* ... or separates a reservation's status from its payment's (D8).        *)
THEOREM BooksBalance == Spec => []PaymentAgrees
<1>1. BookingInv => PaymentAgrees
  BY DEF BookingInv
<1> QED BY <1>1, Invariance, PTL

-----------------------------------------------------------------------------
(* What no step may ever do.                                               *)

(* A reservation that appears, appears at a branch that is not terminated: *)
(* the booking has shared the branch row since it read the contract.       *)
THEOREM GateHolds == Spec => NoBookingAtTerminated
<1>1. ASSUME BookingInv, [Next]_vars, NEW r \in Rsv,
             reservation[r].status = "ABSENT", reservation'[r].status # "ABSENT"
      PROVE  contract[SlotBranch(reservation'[r].slot)] # "TERMINATED"
  <2>1. PICK h \in Handlers : txn[h].row \in Rsv /\ Written(h, txn[h].row)
    BY <1>1, StepEffect
  <2>2. r = txn[h].row
    BY <1>1, <2>1, RowEffect DEF Kept
  <2>3. Inserted(h, r)
    BY <1>1, <2>1, <2>2
    DEF Written, PaidFor, CancelledBy, UsedUp, ActiveStatus
  <2>4. reservation'[r].slot = txn[h].slot /\ txn[h].step = "create_insert"
    BY <1>1, <2>1, <2>2, <2>3, RowEffect DEF Inserted
  <2> QED BY <1>1, <2>4 DEF BookingInv, ReadsHold
<1> DEFINE A == \A r \in Rsv :
                  /\ reservation[r].status = "ABSENT"
                  /\ reservation'[r].status # "ABSENT"
                  => contract[SlotBranch(reservation'[r].slot)] # "TERMINATED"
<1>2. BookingInv /\ [Next]_vars => [A]_vars
  BY <1>1
<1> QED BY <1>2, Invariance, PTL DEF Spec, NoBookingAtTerminated

(* A cancelled or completed reservation is never written again.            *)
THEOREM FinalIsFinal == Spec => FinalStays
<1>1. ASSUME BookingInv, [Next]_vars, NEW r \in Rsv,
             reservation[r].status \in {"CANCELLED", "COMPLETED"}
      PROVE  reservation'[r] = reservation[r]
  <2>1. CASE reservation' = reservation
    BY <2>1
  <2>2. ASSUME NEW h \in Handlers, txn[h].row \in Rsv, Written(h, txn[h].row)
        PROVE  reservation'[r] = reservation[r]
    <3>1. r # txn[h].row
      BY <1>1, <2>2
      DEF Written, Inserted, PaidFor, CancelledBy, UsedUp, ActiveStatus
    <3> QED BY <1>1, <2>2, <3>1, RowEffect DEF Kept
  <2> QED BY <1>1, <2>1, <2>2, StepEffect
<1> DEFINE A == \A r \in Rsv : reservation[r].status \in {"CANCELLED", "COMPLETED"} =>
                  reservation'[r] = reservation[r]
<1>2. BookingInv /\ [Next]_vars => [A]_vars
  BY <1>1
<1> QED BY <1>2, Invariance, PTL DEF Spec, FinalStays

(* Payments only move PENDING to APPROVED or FAILED and APPROVED to        *)
(* REFUNDED, the last two together with their reservation's cancellation.  *)
THEOREM MoneyMovesOneWay == Spec => MoneyMoves
<1> DEFINE A == \A r \in Rsv :
       \/ payment'[r] = payment[r]
       \/ payment[r] = "NONE" /\ payment'[r] = "PENDING"
       \/ payment[r] = "PENDING" /\ payment'[r] = "APPROVED"
       \/ /\ <<payment[r], payment'[r]>> \in {<<"PENDING", "FAILED">>,
                                              <<"APPROVED", "REFUNDED">>}
          /\ reservation[r].status \in ActiveStatus
          /\ reservation'[r].status = "CANCELLED"
<1>1. ASSUME BookingInv, [Next]_vars PROVE A
  <2> SUFFICES ASSUME NEW r \in Rsv, payment'[r] # payment[r]
               PROVE  \/ payment[r] = "NONE" /\ payment'[r] = "PENDING"
                      \/ payment[r] = "PENDING" /\ payment'[r] = "APPROVED"
                      \/ /\ <<payment[r], payment'[r]>> \in
                              {<<"PENDING", "FAILED">>, <<"APPROVED", "REFUNDED">>}
                         /\ reservation[r].status \in ActiveStatus
                         /\ reservation'[r].status = "CANCELLED"
    OBVIOUS
  <2>1. PICK h \in Handlers : txn[h].row \in Rsv /\ Written(h, txn[h].row)
    BY <1>1, StepEffect
  <2>2. r = txn[h].row
    BY <1>1, <2>1, RowEffect DEF Kept
  <2>3. CASE Inserted(h, r)
    <3>1. payment[r] = "NONE"
      BY <1>1, <2>3 DEF Inserted, BookingInv, PaymentAgrees, StatusAgrees, PaymentsOf
    <3> QED BY <1>1, <2>1, <2>2, <2>3, <3>1, RowEffect DEF FirstPayment
  <2>4. CASE PaidFor(h, r)
    BY <1>1, <2>1, <2>2, <2>4, RowEffect DEF PaidFor
  <2>5. CASE CancelledBy(h, r)
    <3>1. /\ reservation[r].status \in ActiveStatus
          /\ reservation'[r].status = "CANCELLED"
          /\ payment'[r] = AfterCancel(r, payment[r])
      <4>1. reservation[r].status \in ActiveStatus
        BY <2>5 DEF CancelledBy
      <4> QED BY <1>1, <2>1, <2>2, <2>5, <4>1, RowEffect
    <3> QED BY <3>1 DEF AfterCancel
  <2>6. CASE UsedUp(h, r)
    BY <2>6 DEF UsedUp
  <2> QED BY <2>1, <2>2, <2>3, <2>4, <2>5, <2>6 DEF Written
<1>2. BookingInv /\ [Next]_vars => [A]_vars
  BY <1>1
<1> QED BY <1>2, Invariance, PTL DEF Spec, MoneyMoves

(* A refunded reservation was cancelled in time, and a cancelled one that  *)
(* stays approved is past its deadline: the payment a cancellation read is *)
(* still so when it commits, cancelledAt is no later than the reading the  *)
(* refund goes by, and nothing is written to a cancelled reservation or    *)
(* its payment.                                                            *)
RefundOf(r) ==
  reservation[r].status = "CANCELLED" =>
    LET start == StartAt[reservation[r].slot]
    IN  /\ payment[r] = "REFUNDED" => start - reservation[r].cancelledAt >= Deadline
        /\ payment[r] = "APPROVED" => start - now < Deadline

THEOREM RefundedInTime == Spec => []RefundRule
<1>1. Init => RefundRule
  BY DEF Init, RefundRule, NoRow
<1>2. ASSUME BookingInv, RefundRule, [Next]_vars  PROVE RefundRule'
  <2> SUFFICES ASSUME NEW q \in Rsv  PROVE RefundOf(q)'
    BY DEF RefundRule, RefundOf
  <2>1. RefundOf(q)
    BY <1>2 DEF RefundRule, RefundOf
  <2>4. /\ now \in Nat /\ now' \in Nat /\ now <= now'
        /\ Deadline \in Nat
        /\ \A s \in Slots : StartAt[s] \in Nat
    BY <1>2, ClockEffect, BookingAssumption DEF BookingInv, TypeOK
  <2>5. ASSUME Kept(q)  PROVE RefundOf(q)'
    <3>1. reservation[q].status = "CANCELLED" => reservation[q].slot \in Slots
      BY <1>2 DEF BookingInv, RowsPlaced
    <3> QED BY <2>1, <2>4, <2>5, <3>1 DEF Kept, RefundOf
  <2>2. CASE reservation' = reservation /\ payment' = payment
    BY <2>2, <2>5 DEF Kept
  <2>3. ASSUME NEW h \in Handlers, NEW r \in Rsv, Written(h, r), now' = now
        PROVE  RefundOf(q)'
    <3>1. CASE q # r
      BY <1>2, <2>3, <2>5, <3>1, RowEffect
    <3>2. CASE q = r /\ CancelledBy(h, r)
      <4>1. reservation[r].status \in ActiveStatus /\ StatusAgrees(r)
        BY <1>2, <3>2 DEF CancelledBy, BookingInv, PaymentAgrees
      <4>2. payment[r] \in {"NONE", "PENDING", "APPROVED"}
        BY <4>1 DEF StatusAgrees, PaymentsOf, ActiveStatus
      <4>3. /\ reservation'[r].slot = reservation[r].slot
            /\ payment'[r] = AfterCancel(r, payment[r])
        <5>1. ~Inserted(h, r)
          BY <4>1 DEF Inserted, ActiveStatus
        <5> QED BY <1>2, <2>3, <3>2, <5>1, RowEffect
      <4>4. /\ reservation'[r].cancelledAt = txn[h].at
            /\ txn[h].at \in Nat /\ txn[h].at <= now
        BY <1>2, <3>2 DEF CancelledBy, BookingInv, TypeOK, Row, Txn
      <4>5. reservation[r].slot \in Slots
        BY <1>2, <4>1 DEF BookingInv, RowsPlaced, ActiveStatus
      <4> QED BY <2>3, <2>4, <3>2, <4>2, <4>3, <4>4, <4>5 DEF RefundOf, AfterCancel, Refundable
    <3>3. CASE q = r /\ ~CancelledBy(h, r)
      <4>1. reservation'[r].status # "CANCELLED"
        BY <1>2, <2>3, <3>3, RowEffect DEF Written, FirstStatus
      <4> QED BY <3>3, <4>1 DEF RefundOf
    <3> QED BY <3>1, <3>2, <3>3
  <2> QED BY <1>2, <2>2, <2>3, StepEffect
<1>3. (BookingInv /\ RefundRule) /\ [Next]_vars => RefundRule'
  BY <1>2
<1> QED BY <1>1, <1>3, Invariance, PTL DEF Spec

(* A program moves along its transition table, whatever two managers ask   *)
(* for at once: the update expects the status that was read.               *)
THEOREM ProgramsMoveOn == Spec => ProgramLifecycle
<1> DEFINE A == \A p \in Programs : program'[p] # program[p] =>
                  program'[p] \in NextProgramStatus[program[p]]
<1>1. ASSUME BookingInv, [Next]_vars  PROVE A
  <2>1. CASE program' = program
    BY <2>1
  <2>2. CASE program' # program
    <3>1. PICK h \in Handlers : StatusUpdate(h) /\ ~Refuse(h)
      BY ZenonT(60), <1>1, <2>2
      DEF Next, vars, Tick, Arrive, Proceed, Abort, Refuse, Goto, tables,
         CreateLock, PayLock, CancelLock, CheckInRead, StatusRead, ContractLock,
         CreateReadProgram, CreateShareBranch, CreateCheck, CreateInsert, PayRead, PayCommit,
         CancelRead, CancelUpdate, CancelCommit, CheckInUpdate, StatusUpdate, ContractCommit
    <3>2. /\ txn[h].program \in Programs
          /\ txn[h].to \in NextProgramStatus[txn[h].saw]
      BY <1>1, <3>1 DEF StatusUpdate, BookingInv, RequestsPlaced
    <3>3. /\ program[txn[h].program] = txn[h].saw
          /\ program' = [program EXCEPT ![txn[h].program] = txn[h].to]
      BY <3>1 DEF StatusUpdate
    <3> QED BY <1>1, <3>2, <3>3 DEF BookingInv, TypeOK
  <2> QED BY <2>1, <2>2
<1>2. BookingInv /\ [Next]_vars => [A]_vars
  BY <1>1
<1> QED BY <1>2, Invariance, PTL DEF Spec, ProgramLifecycle

-----------------------------------------------------------------------------
(* The implementation proof.                                               *)

(* The contract moves only when headquarters commits a new status.         *)
LEMMA ContractEffect ==
  ASSUME BookingInv, [Next]_vars
  PROVE  \/ contract' = contract
         \/ /\ UNCHANGED <<now, reservation, payment>>
            /\ \E b \in Branches, c \in ContractStatus :
                 contract' = [contract EXCEPT ![b] = c]
<1>1. ASSUME NEW h \in Handlers, ContractCommit(h)
      PROVE  \E b \in Branches, c \in ContractStatus :
               contract' = [contract EXCEPT ![b] = c]
  BY <1>1 DEF ContractCommit, BookingInv, RequestsPlaced
<1> QED
  BY ZenonT(60), <1>1
  DEF ContractCommit, Next, vars, Tick, Arrive, Proceed, Abort, End, Refuse, Goto,
      tables, CreateLock, PayLock, CancelLock, CheckInRead, StatusRead, ContractLock,
      CreateReadProgram, CreateShareBranch, CreateCheck, CreateInsert, PayRead,
      PayCommit, CancelRead, CancelUpdate, CancelCommit, CheckInUpdate, StatusUpdate

(* Every step of every handler is an atomic entry of the seat ledger, or   *)
(* none: a transaction's reads are as good as made at its commit.          *)
LEMMA LedgerStep == BookingInv /\ [Next]_vars => [Ledger!Next]_(Ledger!vars)
<1> SUFFICES ASSUME BookingInv, [Next]_vars
             PROVE  Ledger!Next \/ UNCHANGED Ledger!vars
  OBVIOUS
<1> USE DEF Ledger!Next, Ledger!vars
<1>1. ASSUME NEW h \in Handlers, txn[h].row \in Rsv, Written(h, txn[h].row), End(h),
             UNCHANGED <<now, program, contract>>
      PROVE  Ledger!Next
  <2> DEFINE r == txn[h].row
  <2>1. CASE Inserted(h, r)
    <3>1. txn[h].member \in Members /\ txn[h].slot \in Slots
      BY <1>1, <2>1, RowEffect
    <3>2. Ledger!Seated(txn[h].slot) = Active(txn[h].slot)
      BY DEF Ledger!Seated, Active, ActiveStatus
    <3>3. HasRoom(txn[h].slot) /\ contract[SlotBranch(txn[h].slot)] # "TERMINATED"
      BY <2>1 DEF Inserted, BookingInv, ReadsHold
    <3>4. Ledger!Book(r, txn[h].member, txn[h].slot)
      <4>1. /\ reservation[r].status = "ABSENT"
            /\ Ledger!Cardinality(Ledger!Seated(txn[h].slot)) < Capacity[txn[h].slot]
            /\ \A q \in Ledger!Seated(txn[h].slot) : reservation[q].member # txn[h].member
        <5>1. Ledger!Cardinality(Active(txn[h].slot)) = Cardinality(Active(txn[h].slot))
          BY DEF Cardinality, Ledger!Cardinality
        <5> QED BY <2>1, <3>2, <3>3, <5>1 DEF Inserted, HasRoom, Duplicate
      <4>2. contract[[s \in Slots |-> SlotBranch(s)][txn[h].slot]] # "TERMINATED"
        BY <3>1, <3>3
      <4>3. /\ FirstStatus(txn[h].slot) = Ledger!Opening(txn[h].slot)
            /\ FirstPayment(txn[h].slot) = Ledger!Due(txn[h].slot)
        BY <3>1 DEF FirstStatus, FirstPayment, Ledger!Opening, Ledger!Due
      <4>4. /\ reservation' = [reservation EXCEPT ![r] =
                 [status |-> Ledger!Opening(txn[h].slot), member |-> txn[h].member,
                  slot |-> txn[h].slot, cancelledAt |-> 0]]
            /\ payment' = [payment EXCEPT ![r] = Ledger!Due(txn[h].slot)]
        BY <2>1, <4>3 DEF Inserted
      <4>5. UNCHANGED <<now, contract>>
        BY <1>1
      <4> QED BY <4>1, <4>2, <4>3, <4>4, <4>5 DEF Ledger!Book
    <3> QED BY <1>1, <3>1, <3>4
  <2>2. CASE PaidFor(h, r)
    BY <1>1, <2>2 DEF PaidFor, Ledger!Pay
  <2>3. CASE CancelledBy(h, r)
    <3>1. Ledger!Settle(r) = AfterCancel(r, payment[r])
      BY DEF Ledger!Settle, AfterCancel, Refundable
    <3>3. txn[h].at \in 0..now
      BY <2>3 DEF CancelledBy, BookingInv, TypeOK, Txn
    <3>2. Ledger!Cancel(r)
      BY <1>1, <2>3, <3>1, <3>3 DEF CancelledBy, Ledger!Cancel, ActiveStatus
    <3> QED BY <1>1, <3>2
  <2>4. CASE UsedUp(h, r)
    <3>1. payment[r] \in {"NONE", "APPROVED"}
      BY <1>1, <2>4
      DEF UsedUp, BookingInv, PaymentAgrees, StatusAgrees, PaymentsOf
    <3> QED BY <1>1, <2>4, <3>1 DEF UsedUp, Ledger!Use
  <2> QED BY <1>1, <2>1, <2>2, <2>3, <2>4 DEF Written
<1>2. CASE reservation' = reservation /\ payment' = payment
  <2>1. CASE contract' # contract
    BY <2>1, ContractEffect DEF Ledger!ChangeContract, ContractStatus
  <2>2. CASE contract' = contract
    BY <1>2, <2>2, ClockEffect DEF Ledger!Pass
  <2> QED BY <2>1, <2>2
<1> QED BY <1>1, <1>2, StepEffect

(* The server implements the atomic seat ledger.                           *)
THEOREM ImplementsLedger == Spec => LedgerSpec
<1>1. Init => Ledger!Init
  BY DEF Init, Ledger!Init, Ledger!Empty, NoRow
<1> QED BY <1>1, LedgerStep, Invariance, PTL DEF Spec, LedgerSpec, Ledger!Spec

=============================================================================
