------------------------------- MODULE Booking -------------------------------
(***************************************************************************)
(* Seat booking of one ERP installation: ReservationService (create,       *)
(* cancel, checkIn), PaymentService.mockPay, ProgramService.updateStatus   *)
(* and the branch-contract gate of BranchService.changeContractStatus,     *)
(* run by any number of server instances against one PostgreSQL database   *)
(* at READ COMMITTED.                                                      *)
(*                                                                         *)
(* One handler is one request in flight.  A handler takes one step per     *)
(* SQL statement that reads what others may write; a transaction's writes  *)
(* become visible in its last step, with its commit.  A row lock is held   *)
(* from the step that takes it to the end of the transaction, so who holds *)
(* a lock follows from where each handler stands.                          *)
(***************************************************************************)
EXTENDS Integers, FiniteSets

CONSTANTS
  Members,      (* members of all branches                               *)
  Slots,        (* schedule slots (ScheduleSlot rows)                    *)
  Programs,     (* programs the slots belong to                          *)
  Branches,     (* branches the programs and the members belong to       *)
  Rsv,          (* ids the database can give to Reservation rows         *)
  Handlers,     (* requests that can be in flight at once                *)
  None,         (* a field that is not set                               *)
  ProgramOf,    (* ScheduleSlot.programId                                *)
  BranchOf,     (* Program.branchId                                      *)
  HomeBranch,   (* Member.branchId                                       *)
  Reservable,   (* programs with pricingType PAID_SESSION                *)
  Paid,         (* programs with price > 0                               *)
  Capacity,     (* ScheduleSlot.capacity                                 *)
  StartAt,      (* hour a slot starts                                    *)
  Deadline,     (* Branch.cancellationDeadlineHours                      *)
  DayHours,     (* hours in a day                                        *)
  MaxNow,       (* bound: the clock stops at this hour                   *)
  ProgramAsks,  (* bound: the program statuses managers ask for          *)
  ContractAsks  (* bound: the contract statuses headquarters asks for    *)

ActiveStatus == {"REQUESTED", "CONFIRMED"}
ReservationStatus == ActiveStatus \cup {"CANCELLED", "COMPLETED"}
PaymentStatus == {"PENDING", "APPROVED", "FAILED", "REFUNDED"}
ProgramStatus == {"PREPARING", "RUNNING", "PAUSED", "ENDED"}
ContractStatus == {"ACTIVE", "RENEWAL_DUE", "EXPIRED", "TERMINATED"}

ASSUME BookingAssumption ==
  /\ ProgramOf \in [Slots -> Programs]
  /\ BranchOf \in [Programs -> Branches]
  /\ HomeBranch \in [Members -> Branches]
  /\ Reservable \subseteq Programs
  /\ Paid \subseteq Programs
  /\ Capacity \in [Slots -> Nat \ {0}]
  /\ StartAt \in [Slots -> Nat]
  /\ Deadline \in Nat
  /\ DayHours \in Nat \ {0}
  /\ MaxNow \in Nat
  /\ ProgramAsks \subseteq ProgramStatus
  /\ ContractAsks \subseteq ContractStatus
  /\ None \notin Members \cup Slots \cup Programs \cup Branches \cup Rsv

VARIABLES
  now,          (* the clock, in hours                                   *)
  reservation,  (* the Reservation table                                 *)
  payment,      (* Payment.status of each reservation                    *)
  program,      (* Program.status                                        *)
  contract,     (* Branch.contractStatus                                 *)
  txn           (* what each handler is doing                            *)

tables == <<reservation, payment, program, contract>>
vars == <<now, reservation, payment, program, contract, txn>>

(* Rows of Reservation; "ABSENT" is an id not used yet, "NONE" a           *)
(* reservation without a Payment row.                                      *)
Row == [status: ReservationStatus \cup {"ABSENT"},
        member: Members \cup {None},
        slot: Slots \cup {None},
        cancelledAt: Nat]
NoRow == [status |-> "ABSENT", member |-> None, slot |-> None,
          cancelledAt |-> 0]

CreateSteps == {"create_program", "create_branch", "create_check",
                "create_insert"}
PaySteps == {"pay_read", "pay_commit"}
CancelSteps == {"cancel_read", "cancel_update", "cancel_commit"}
Steps == {"idle", "checkin_update", "program_update", "contract_commit"}
           \cup CreateSteps \cup PaySteps \cup CancelSteps

(* A request in flight: its next step, its arguments, in `saw' what it     *)
(* read or was asked to write and will use in a later step, and in `at'    *)
(* the cancelledAt a cancellation wrote and has not committed yet.         *)
Txn == [step: Steps,
        member: Members \cup {None},
        slot: Slots \cup {None},
        row: Rsv \cup {None},
        program: Programs \cup {None},
        branch: Branches \cup {None},
        saw: PaymentStatus \cup ProgramStatus \cup {"NONE"},
        to: ProgramStatus \cup ContractStatus \cup {"NONE"},
        at: Nat]
Idle == [step |-> "idle", member |-> None, slot |-> None, row |-> None,
         program |-> None, branch |-> None, saw |-> "NONE", to |-> "NONE",
         at |-> 0]

-----------------------------------------------------------------------------
(* Rows and locks.                                                         *)

Active(s) == {r \in Rsv : /\ reservation[r].slot = s
                          /\ reservation[r].status \in ActiveStatus}

Duplicate(m, s) == \E r \in Active(s) : reservation[r].member = m

SlotBranch(s) == BranchOf[ProgramOf[s]]

(* The operators called Wrong... are versions with a plausible bug: each   *)
(* shows that a property notices it, and is part of no specification.      *)
WrongLocksSlot(h, s) == FALSE
WrongSharesBranch(h, b) == FALSE

(* lockScheduleSlot, lockReservation, lockBranchForShare and lockContract: *)
(* the row each holds, from the step after the lock to the end.            *)
LocksSlot(h, s) == txn[h].step \in CreateSteps /\ txn[h].slot = s
LocksRow(h, r) == txn[h].step \in PaySteps \cup CancelSteps /\ txn[h].row = r
SharesBranch(h, b) == /\ txn[h].step \in {"create_check", "create_insert"}
                      /\ SlotBranch(txn[h].slot) = b
LocksBranch(h, b) == txn[h].step = "contract_commit" /\ txn[h].branch = b

(* A row of Reservation that exists and nobody has locked.                 *)
RowFree(r) == \A g \in Handlers : ~LocksRow(g, r)

Start(h, t) == /\ txn[h].step = "idle"
               /\ txn' = [txn EXCEPT ![h] = t]

Goto(h, to) == /\ txn' = [txn EXCEPT ![h].step = to]
               /\ UNCHANGED <<now, tables>>

(* The transaction ends and gives up its locks: after its commit, on a     *)
(* thrown AppException, or because the instance or the connection died.    *)
End(h) == txn' = [txn EXCEPT ![h] = Idle]
Refuse(h) == End(h) /\ UNCHANGED <<now, tables>>

-----------------------------------------------------------------------------
(* ReservationService.create                                               *)

(* lockScheduleSlot: waits until no other booking of the slot is open.     *)
CreateLock(h, m, s, r) ==
  /\ \A g \in Handlers : ~LocksSlot(g, s)
  /\ reservation[r].status = "ABSENT"
  /\ \A g \in Handlers : txn[g].row # r
  /\ Start(h, [Idle EXCEPT !.step = "create_program", !.member = m,
                           !.slot = s, !.row = r])
  /\ UNCHANGED <<now, tables>>

MayBook(m, p) == /\ p \in Reservable
                 /\ program[p] = "RUNNING"
                 /\ HomeBranch[m] = BranchOf[p]

(* The slot's program and the member, read without a lock.                 *)
CreateReadProgram(h) ==
  /\ txn[h].step = "create_program"
  /\ LET t == txn[h]
     IN  \/ MayBook(t.member, ProgramOf[t.slot]) /\ Goto(h, "create_branch")
         \/ ~MayBook(t.member, ProgramOf[t.slot]) /\ Refuse(h)

(* lockBranchForShare and the contract status under that lock.             *)
CreateShareBranch(h) ==
  /\ txn[h].step = "create_branch"
  /\ LET b == SlotBranch(txn[h].slot)
     IN  /\ \A g \in Handlers : ~LocksBranch(g, b)
         /\ \/ contract[b] # "TERMINATED" /\ Goto(h, "create_check")
            \/ contract[b] = "TERMINATED" /\ Refuse(h)

WrongHasRoom(s) == Cardinality(Active(s)) <= Capacity[s]
HasRoom(s) == Cardinality(Active(s)) < Capacity[s]

(* Slot not started, no active duplicate, a seat left.                     *)
Bookable(m, s) == StartAt[s] > now /\ ~Duplicate(m, s) /\ HasRoom(s)

CreateCheck(h) ==
  /\ txn[h].step = "create_check"
  /\ LET t == txn[h]
     IN  \/ Bookable(t.member, t.slot) /\ Goto(h, "create_insert")
         \/ ~Bookable(t.member, t.slot) /\ Refuse(h)

(* A seat that costs money waits for its payment; a free one is confirmed  *)
(* at once and gets no Payment row.                                        *)
FirstStatus(s) == IF ProgramOf[s] \in Paid THEN "REQUESTED" ELSE "CONFIRMED"
FirstPayment(s) == IF ProgramOf[s] \in Paid THEN "PENDING" ELSE "NONE"

(* Inserts the reservation and its payment and commits.  The partial       *)
(* unique index on active (member, slot) turns a duplicate into            *)
(* ALREADY_RESERVED.                                                       *)
CreateInsert(h) ==
  LET t == txn[h]
  IN  /\ t.step = "create_insert"
      /\ \/ /\ ~Duplicate(t.member, t.slot)
            /\ reservation' = [reservation EXCEPT ![t.row] =
                 [status |-> FirstStatus(t.slot), member |-> t.member,
                  slot |-> t.slot, cancelledAt |-> 0]]
            /\ payment' = [payment EXCEPT ![t.row] = FirstPayment(t.slot)]
            /\ End(h)
            /\ UNCHANGED <<now, program, contract>>
         \/ Duplicate(t.member, t.slot) /\ Refuse(h)

-----------------------------------------------------------------------------
(* PaymentService.mockPay                                                  *)

PayLock(h, r) ==
  /\ reservation[r].status # "ABSENT"
  /\ RowFree(r)
  /\ Start(h, [Idle EXCEPT !.step = "pay_read", !.row = r])
  /\ UNCHANGED <<now, tables>>

WrongPayRead(h) ==
  /\ txn[h].step = "pay_read"
  /\ payment[txn[h].row] = "PENDING" /\ Goto(h, "pay_commit")

PayRead(h) ==
  /\ txn[h].step = "pay_read"
  /\ \/ payment[txn[h].row] = "PENDING" /\ Goto(h, "pay_commit")
     \/ payment[txn[h].row] # "PENDING" /\ Refuse(h)

(* Approves the payment if it is still PENDING and confirms the            *)
(* reservation whatever its status.                                        *)
PayCommit(h) ==
  LET r == txn[h].row
  IN  /\ txn[h].step = "pay_commit"
      /\ \/ /\ payment[r] = "PENDING"
            /\ payment' = [payment EXCEPT ![r] = "APPROVED"]
            /\ reservation' = [reservation EXCEPT ![r].status = "CONFIRMED"]
            /\ End(h)
            /\ UNCHANGED <<now, program, contract>>
         \/ /\ payment[r] # "PENDING"
            /\ Refuse(h)

-----------------------------------------------------------------------------
(* ReservationService.cancel                                               *)

CancelLock(h, r) ==
  /\ reservation[r].status # "ABSENT"
  /\ RowFree(r)
  /\ Start(h, [Idle EXCEPT !.step = "cancel_read", !.row = r])
  /\ UNCHANGED <<now, tables>>

(* Reads the reservation with its payment, under the lock.                 *)
CancelRead(h) ==
  /\ txn[h].step = "cancel_read"
  /\ txn' = [txn EXCEPT ![h].step = "cancel_update",
                        ![h].saw = payment[txn[h].row]]
  /\ UNCHANGED <<now, tables>>

(* The conditional UPDATE to CANCELLED, with the clock's first reading as  *)
(* cancelledAt; nobody sees it before the commit.                          *)
CancelUpdate(h) ==
  /\ txn[h].step = "cancel_update"
  /\ \/ /\ reservation[txn[h].row].status \in ActiveStatus
        /\ txn' = [txn EXCEPT ![h].step = "cancel_commit", ![h].at = now]
        /\ UNCHANGED <<now, tables>>
     \/ reservation[txn[h].row].status \notin ActiveStatus /\ Refuse(h)

(* The refund is decided by a second reading of the clock.                 *)
WrongRefundable(r) == StartAt[reservation[r].slot] - now > Deadline
Refundable(r) == StartAt[reservation[r].slot] - now >= Deadline

WrongAfterCancelLeavesOpen(r, seen) ==
  IF seen = "APPROVED" /\ Refundable(r) THEN "REFUNDED" ELSE seen
WrongAfterCancelFailsLate(r, seen) ==
  IF seen = "PENDING" THEN "FAILED"
  ELSE IF seen = "APPROVED"
       THEN IF Refundable(r) THEN "REFUNDED" ELSE "FAILED"
       ELSE seen
(* The payment status a cancellation writes, given the one it read; when   *)
(* the two are equal it leaves the payment alone.                          *)
AfterCancel(r, seen) ==
  IF seen = "PENDING" THEN "FAILED"
  ELSE IF seen = "APPROVED" /\ Refundable(r) THEN "REFUNDED" ELSE seen

(* The payment is only changed from the status that was read, or all of it *)
(* is rolled back; then the cancellation commits.                          *)
CancelCommit(h) ==
  LET r == txn[h].row
      seen == txn[h].saw
      ok == AfterCancel(r, seen) = seen \/ payment[r] = seen
  IN  /\ txn[h].step = "cancel_commit"
      /\ \/ /\ ok
            /\ reservation' = [reservation EXCEPT ![r] =
                 [@ EXCEPT !.status = "CANCELLED", !.cancelledAt = txn[h].at]]
            /\ payment' = [payment EXCEPT ![r] =
                 IF AfterCancel(r, seen) = seen THEN @ ELSE AfterCancel(r, seen)]
            /\ End(h)
            /\ UNCHANGED <<now, program, contract>>
         \/ ~ok /\ Refuse(h)

-----------------------------------------------------------------------------
(* ReservationService.checkIn: an unlocked read, then one UPDATE.          *)

DayOf(t) == t \div DayHours

CheckInRead(h, r) ==
  /\ reservation[r].status # "ABSENT"
  /\ DayOf(StartAt[reservation[r].slot]) = DayOf(now)
  /\ Start(h, [Idle EXCEPT !.step = "checkin_update", !.row = r])
  /\ UNCHANGED <<now, tables>>

WrongCheckInUpdateActive(h) ==
  /\ txn[h].step = "checkin_update"
  /\ RowFree(txn[h].row)
  /\ reservation[txn[h].row].status \in ActiveStatus
  /\ reservation' = [reservation EXCEPT ![txn[h].row].status = "COMPLETED"]
  /\ End(h)
  /\ UNCHANGED <<now, payment, program, contract>>

CheckInUpdate(h) ==
  LET r == txn[h].row
  IN  /\ txn[h].step = "checkin_update"
      /\ RowFree(r)
      /\ \/ /\ reservation[r].status = "CONFIRMED"
            /\ reservation' = [reservation EXCEPT ![r].status = "COMPLETED"]
            /\ End(h)
            /\ UNCHANGED <<now, payment, program, contract>>
         \/ /\ reservation[r].status # "CONFIRMED"
            /\ Refuse(h)

-----------------------------------------------------------------------------
(* ProgramService.updateStatus: an unlocked read, then an UPDATE that      *)
(* expects the status that was read.                                       *)

NextProgramStatus ==
  [PREPARING |-> {"RUNNING", "ENDED"}, RUNNING |-> {"PAUSED", "ENDED"},
   PAUSED |-> {"RUNNING", "ENDED"}, ENDED |-> {}]

StatusRead(h, p, to) ==
  /\ to \in NextProgramStatus[program[p]]
  /\ Start(h, [Idle EXCEPT !.step = "program_update", !.program = p,
                           !.saw = program[p], !.to = to])
  /\ UNCHANGED <<now, tables>>

WrongStatusUpdate(h) ==
  /\ txn[h].step = "program_update"
  /\ program' = [program EXCEPT ![txn[h].program] = txn[h].to]
  /\ End(h)
  /\ UNCHANGED <<now, reservation, payment, contract>>

StatusUpdate(h) ==
  LET p == txn[h].program
  IN  /\ txn[h].step = "program_update"
      /\ \/ /\ program[p] = txn[h].saw
            /\ program' = [program EXCEPT ![p] = txn[h].to]
            /\ End(h)
            /\ UNCHANGED <<now, reservation, payment, contract>>
         \/ /\ program[p] # txn[h].saw
            /\ Refuse(h)

-----------------------------------------------------------------------------
(* BranchService.changeContractStatus, as far as booking sees it: the      *)
(* branch row locked FOR UPDATE, then written.                             *)

ContractLock(h, b, to) ==
  /\ \A g \in Handlers : ~LocksBranch(g, b) /\ ~SharesBranch(g, b)
  /\ Start(h, [Idle EXCEPT !.step = "contract_commit", !.branch = b, !.to = to])
  /\ UNCHANGED <<now, tables>>

ContractCommit(h) ==
  /\ txn[h].step = "contract_commit"
  /\ contract' = [contract EXCEPT ![txn[h].branch] = txn[h].to]
  /\ End(h)
  /\ UNCHANGED <<now, reservation, payment, program>>

-----------------------------------------------------------------------------
(* The instance dies, the connection drops or the transaction times out:   *)
(* nothing it wrote is kept.                                               *)
Abort(h) == txn[h].step # "idle" /\ End(h) /\ UNCHANGED <<now, tables>>

Tick == /\ now < MaxNow
        /\ now' = now + 1
        /\ UNCHANGED <<tables, txn>>

Init ==
  /\ now = 0
  /\ reservation = [r \in Rsv |-> NoRow]
  /\ payment = [r \in Rsv |-> "NONE"]
  /\ program \in [Programs -> {"PREPARING", "RUNNING"}]
  /\ contract = [b \in Branches |-> "ACTIVE"]
  /\ txn = [h \in Handlers |-> Idle]

(* A new request arrives.                                                  *)
Arrive(h) ==
  \/ \E m \in Members, s \in Slots, r \in Rsv : CreateLock(h, m, s, r)
  \/ \E r \in Rsv : PayLock(h, r) \/ CancelLock(h, r) \/ CheckInRead(h, r)
  \/ \E p \in Programs, to \in ProgramAsks : StatusRead(h, p, to)
  \/ \E b \in Branches, to \in ContractAsks : ContractLock(h, b, to)

(* A request in flight takes its next step.                                *)
Proceed(h) ==
  \/ CreateReadProgram(h) \/ CreateShareBranch(h)
  \/ CreateCheck(h) \/ CreateInsert(h)
  \/ PayRead(h) \/ PayCommit(h)
  \/ CancelRead(h) \/ CancelUpdate(h) \/ CancelCommit(h)
  \/ CheckInUpdate(h) \/ StatusUpdate(h) \/ ContractCommit(h)

Next == Tick \/ \E h \in Handlers : Arrive(h) \/ Proceed(h) \/ Abort(h)

Spec == Init /\ [][Next]_vars

(* PostgreSQL queues lock waiters, so a request that can go on again and   *)
(* again goes on; arrivals, crashes and the clock owe nothing.             *)
FairSpec == Spec /\ \A h \in Handlers : SF_vars(Proceed(h))

-----------------------------------------------------------------------------
(* Every variable keeps its shape.                                         *)
TypeOK ==
  /\ now \in Nat
  /\ reservation \in [Rsv -> Row]
  /\ payment \in [Rsv -> PaymentStatus \cup {"NONE"}]
  /\ program \in [Programs -> ProgramStatus]
  /\ contract \in [Branches -> ContractStatus]
  /\ txn \in [Handlers -> Txn]

(* D7: the active reservations of a slot never outnumber its seats,        *)
(* however many bookings of the slot run at once (ADR-RSV-01).             *)
Capacities ==
  \A s \in Slots : IsFiniteSet(Active(s)) /\ Cardinality(Active(s)) <= Capacity[s]

(* A member has at most one active reservation of a slot, whoever books,   *)
(* cancels and books again at once (ADR-RSV-02).                           *)
OneActivePerMember ==
  \A s \in Slots : \A q, r \in Active(s) :
    reservation[q].member = reservation[r].member => q = r

(* D8, and more: a reservation and its payment tell one story.  An unpaid  *)
(* seat waits for its payment, a paid one was approved, a cancelled one    *)
(* left no payment open, and a free one never had a payment.               *)
PaymentsOf ==
  [ABSENT    |-> {"NONE"},
   REQUESTED |-> {"PENDING"},
   CONFIRMED |-> {"NONE", "APPROVED"},
   COMPLETED |-> {"NONE", "APPROVED"},
   CANCELLED |-> {"NONE", "FAILED", "APPROVED", "REFUNDED"}]

StatusAgrees(r) == payment[r] \in PaymentsOf[reservation[r].status]

PaymentAgrees == \A r \in Rsv : StatusAgrees(r)

-----------------------------------------------------------------------------
(* The inductive invariant behind the properties above.                    *)

(* A request refers to rows that exist, or, while it books, to an id that  *)
(* is still unused and its own.                                            *)
RequestsPlaced ==
  \A h \in Handlers : LET t == txn[h] IN
    /\ t.step \in CreateSteps =>
         /\ t.member \in Members /\ t.slot \in Slots /\ t.row \in Rsv
         /\ reservation[t.row].status = "ABSENT"
         /\ \A g \in Handlers :
              txn[g].step \in CreateSteps /\ txn[g].row = t.row => g = h
    /\ t.step \in PaySteps \cup CancelSteps \cup {"checkin_update"} =>
         t.row \in Rsv /\ reservation[t.row].status # "ABSENT"
    /\ t.step = "program_update" =>
         /\ t.program \in Programs /\ t.saw \in ProgramStatus
         /\ t.to \in NextProgramStatus[t.saw]
    /\ t.step = "contract_commit" =>
         t.branch \in Branches /\ t.to \in ContractStatus

RowsPlaced ==
  \A r \in Rsv : IF reservation[r].status = "ABSENT"
                 THEN reservation[r] = NoRow
                 ELSE reservation[r].slot \in Slots /\ reservation[r].member \in Members

(* No two transactions hold locks that exclude each other.                 *)
LocksExclude ==
  \A g, h \in Handlers :
    /\ \A s \in Slots : LocksSlot(g, s) /\ LocksSlot(h, s) => g = h
    /\ \A r \in Rsv : LocksRow(g, r) /\ LocksRow(h, r) => g = h
    /\ \A b \in Branches :
         LocksBranch(g, b) /\ (LocksBranch(h, b) \/ SharesBranch(h, b)) => g = h

(* What a transaction read under its locks is still so when it uses it:    *)
(* the seat is free, the member has no other, the branch is not            *)
(* terminated, the payment is in the status that was read, and a           *)
(* reservation being cancelled is still active.                            *)
ReadsHold ==
  \A h \in Handlers : LET t == txn[h] IN
    /\ t.step \in {"create_check", "create_insert"} =>
         contract[SlotBranch(t.slot)] # "TERMINATED"
    /\ t.step = "create_insert" => HasRoom(t.slot) /\ ~Duplicate(t.member, t.slot)
    /\ t.step = "pay_commit" => payment[t.row] = "PENDING"
    /\ t.step \in {"cancel_update", "cancel_commit"} => payment[t.row] = t.saw
    /\ t.step = "cancel_commit" =>
         reservation[t.row].status \in ActiveStatus /\ t.at <= now

BookingInv ==
  /\ TypeOK /\ RequestsPlaced /\ RowsPlaced /\ LocksExclude /\ ReadsHold
  /\ Capacities /\ OneActivePerMember /\ PaymentAgrees

-----------------------------------------------------------------------------
(* A refunded reservation was cancelled in time, and a cancelled one whose *)
(* payment stays approved is past its deadline: an approval that lands     *)
(* while the cancellation runs is neither lost nor refunded late (A-6,     *)
(* R1).  It is not said that every cancelledAt in time was refunded: the   *)
(* refund goes by a later reading of the clock, and the deadline can pass  *)
(* between the two.                                                        *)
RefundRule ==
  \A r \in Rsv : reservation[r].status = "CANCELLED" =>
    LET start == StartAt[reservation[r].slot]
    IN  /\ payment[r] = "REFUNDED" => start - reservation[r].cancelledAt >= Deadline
        /\ payment[r] = "APPROVED" => start - now < Deadline

(* No reservation appears at a branch whose contract is terminated, even   *)
(* when the termination commits while the booking runs (D70).              *)
NoBookingAtTerminated ==
  [][\A r \in Rsv :
       /\ reservation[r].status = "ABSENT"
       /\ reservation'[r].status # "ABSENT"
       => contract[SlotBranch(reservation'[r].slot)] # "TERMINATED"]_vars

(* Cancelled and completed are final, although mockPay confirms a          *)
(* reservation whatever its status and checkIn takes no lock.              *)
FinalStays ==
  [][\A r \in Rsv : reservation[r].status \in {"CANCELLED", "COMPLETED"} =>
       reservation'[r] = reservation[r]]_vars

(* Money moves one way: a payment is approved or fails once, an approved   *)
(* payment can only be refunded, and a refund only follows its             *)
(* reservation's cancellation (ADR-RSV-07).                                *)
MoneyMoves ==
  [][\A r \in Rsv :
       \/ payment'[r] = payment[r]
       \/ payment[r] = "NONE" /\ payment'[r] = "PENDING"
       \/ payment[r] = "PENDING" /\ payment'[r] = "APPROVED"
       \/ /\ <<payment[r], payment'[r]>> \in {<<"PENDING", "FAILED">>,
                                              <<"APPROVED", "REFUNDED">>}
          /\ reservation[r].status \in ActiveStatus
          /\ reservation'[r].status = "CANCELLED"]_vars

(* Seen from outside, bookings, payments, cancellations and check-ins      *)
(* happen one at a time: every step of every handler is an entry of the    *)
(* atomic seat ledger, or changes nothing there.                           *)
Ledger == INSTANCE SeatLedger WITH
            SiteOf <- [s \in Slots |-> SlotBranch(s)],
            Priced <- {s \in Slots : ProgramOf[s] \in Paid}
LedgerSpec == Ledger!Spec

(* A program only moves along its transition table, whatever two managers  *)
(* ask for at once; an ended program stays ended (PROGRAM rule 2).         *)
ProgramLifecycle ==
  [][\A p \in Programs : program'[p] # program[p] =>
       program'[p] \in NextProgramStatus[program[p]]]_vars

(* No request waits for ever: the lock orders slot, branch and row cannot  *)
(* close a circle (R1 was such a circle).                                  *)
RequestsEnd == \A h \in Handlers : txn[h].step # "idle" ~> txn[h].step = "idle"

(* A seat counts as sold once its reservation is confirmed or used.        *)
Sold(s) == {r \in Rsv : /\ reservation[r].slot = s
                        /\ reservation[r].status \in {"CONFIRMED", "COMPLETED"}}

(* Domain rule 1 read as "no seat is sold twice": confirmed and used seats *)
(* never outnumber the capacity.  The code does not keep it: checkIn       *)
(* accepts the whole day of the slot, and create does not count COMPLETED. *)
NoSeatSoldTwice == \A s \in Slots : Cardinality(Sold(s)) <= Capacity[s]
=============================================================================
