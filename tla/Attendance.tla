------------------------------ MODULE Attendance ------------------------------
(***************************************************************************)
(* AttendanceService: check-in and check-out, absences confirmed by a      *)
(* manager, and corrections.                                               *)
(*                                                                         *)
(* Every row belongs to one person and no statement relates two people, so *)
(* the module is about one person, employed throughout.  Days are the days *)
(* they work, by number; others are never candidates for an absence.       *)
(* Corrections, transfers and terminations are transactions; what they     *)
(* write appears in their last step.                                       *)
(***************************************************************************)
EXTENDS Integers, Sequences

CONSTANTS
  LastDay,      (* bound: days 1..LastDay                                  *)
  MaxMoves,     (* bound: transfers and recalls                            *)
  Branches,
  Corrections,  (* what a manager may correct a day to                     *)
  Handlers, None

Days == 1..LastDay

VARIABLES
  today,
  late,       (* midnight has passed while requests were under way, and    *)
              (* there has been no moment without one since                *)
  branch,     (* Staff.branchId                                            *)
  dispatches, (* StaffAssignment rows                                      *)
  onLeave,    (* the days covered by an approved leave (module Leave)      *)
  record,     (* AttendanceRecord rows by day                              *)
  confirmed,  (* by day, the branches told that they confirmed an absence  *)
  moves,      (* how many transfers and terminations were asked for        *)
  txn
vars == <<today, late, branch, dispatches, moves, onLeave, record, confirmed, txn>>

(* Times are kept only as far as there is one; NORMAL stands for LATE and  *)
(* EARLY_LEAVE, too.                                                       *)
Record == [status: {"NONE", "NORMAL", "ABSENT", "ON_LEAVE"},
           in: BOOLEAN, out: BOOLEAN, branch: Branches \cup {None}]
NoRecord == [status |-> "NONE", in |-> FALSE, out |-> FALSE, branch |-> None]
Exists(d) == record[d].status # "NONE"

(* A dispatch lasts from its start to the day before its end; 0 stands for *)
(* any day before the first.                                               *)
Dispatch == [branch: Branches, start: Days \cup {0}, end: Days \cup {None}]
Open(r) == r.end = None
Covers(r, d) == r.start <= d /\ (Open(r) \/ d < r.end)

Txn == [step: {"idle", "checkin_read", "checkin",
               "confirm", "confirm_rows", "confirm_today", "confirm_write",
               "correct_lock", "correct_read", "correct_write", "move", "recall"},
        day: Days, locked: BOOLEAN, days: SUBSET Days, home: Branches \cup {None},
        branch: Branches \cup {None}, found: BOOLEAN, to: Record]
Idle == [step |-> "idle", day |-> 1, locked |-> FALSE, days |-> {}, home |-> None,
         branch |-> None, found |-> FALSE, to |-> NoRecord]

Quiet == \A h \in Handlers : txn[h].step = "idle"
Begin(h, t) ==
  /\ txn[h].step = "idle" /\ txn' = [txn EXCEPT ![h] = t]
  /\ late' = (late /\ ~Quiet)
  /\ UNCHANGED <<today, branch, dispatches, onLeave, record, confirmed>>
Go(h, t) == txn' = [txn EXCEPT ![h] = t]
End(h) == Go(h, Idle)
Keeps == UNCHANGED <<today, late, branch, dispatches, moves, onLeave>>

(* The lock a correction holds on the day's record.                         *)
LocksRecord(h, d) ==
  txn[h].step \in {"correct_read", "correct_write"} /\ txn[h].day = d /\ txn[h].locked
RecordFree(d) == \A h \in Handlers : ~LocksRecord(h, d)

-----------------------------------------------------------------------------
(* branchOnDate, falling back to the branch the staff row named: of the    *)
(* dispatches that cover the day the one that began last, and any of them  *)
(* if several began on one day, which the query does not order.            *)
branchOnDate(home, d) ==
  LET at == {r \in dispatches : Covers(r, d)}
  IN  IF at = {} THEN {home}
      ELSE {r.branch : r \in {l \in at : \A r \in at : r.start <= l.start}}

(* The staff row and the day, then the day's record and the dispatches.    *)
CheckIn(h) ==
  /\ Begin(h, [Idle EXCEPT !.step = "checkin_read", !.day = today, !.home = branch])
  /\ UNCHANGED moves

CheckInRead(h) ==
  LET t == txn[h]
  IN  /\ t.step = "checkin_read"
      /\ \/ record[t.day].in /\ End(h)
         \/ /\ ~record[t.day].in
            /\ \E b \in branchOnDate(t.home, t.day) :
                 Go(h, [t EXCEPT !.step = "checkin", !.found = Exists(t.day), !.home = None,
                          !.to = [status |-> "NORMAL", in |-> TRUE, out |-> FALSE, branch |-> b]])
      /\ Keeps /\ UNCHANGED <<record, confirmed>>

(* The update asks again for a row without a check-in; the insert relies   *)
(* on the unique index.                                                    *)
WrongFits(t) == t.found \/ ~Exists(t.day)
Fits(t) == IF t.found THEN ~record[t.day].in ELSE ~Exists(t.day)
CheckInWrite(h) ==
  LET t == txn[h]
  IN  /\ t.step = "checkin"
      /\ RecordFree(t.day)
      /\ \/ Fits(t) /\ record' = [record EXCEPT ![t.day] =
                                 [t.to EXCEPT !.out = record[t.day].out]]
         \/ ~Fits(t) /\ UNCHANGED record
      /\ End(h)
      /\ Keeps /\ UNCHANGED confirmed

(* The day may be over when the update has waited for its row.             *)
CheckOut(d) ==
  /\ d = today \/ (late /\ d = today - 1)
  /\ RecordFree(d)
  /\ record[d].in /\ ~record[d].out
  /\ record' = [record EXCEPT ![d].out = TRUE]
  /\ Keeps /\ UNCHANGED <<confirmed, txn>>

-----------------------------------------------------------------------------
(* previewAbsences: past working days at this branch without a record or   *)
(* an approved leave.  confirmAbsences computes them again, read by read:  *)
(* people who are of the branch or were dispatched to it, their            *)
(* dispatches, their records and leaves, and the day it is.  (Of the two   *)
(* parallel reads only the leaves need a moment of their own: the insert   *)
(* skips whatever record there is by then.)                                *)
Confirm(h, b) ==
  /\ branch = b \/ \E r \in dispatches : r.branch = b
  /\ Begin(h, [Idle EXCEPT !.step = "confirm", !.home = branch, !.branch = b])
  /\ UNCHANGED moves

WrongCandidates(t, days) == days = IF t.home = t.branch THEN Days ELSE {}
Candidates(t, days) ==
  /\ \A d \in days : t.branch \in branchOnDate(t.home, d)
  /\ \A d \in Days \ days : branchOnDate(t.home, d) # {t.branch}

ConfirmRead(h) ==
  /\ txn[h].step = "confirm"
  /\ \E days \in SUBSET Days :
       /\ Candidates(txn[h], days)
       /\ Go(h, [txn[h] EXCEPT !.step = "confirm_rows", !.home = None, !.days = days])
  /\ Keeps /\ UNCHANGED <<record, confirmed>>

(* One more read of a request, and what it leaves of the candidates.       *)
Narrow(h, step, next, days) ==
  /\ txn[h].step = step
  /\ IF days = {} THEN End(h)
     ELSE Go(h, [txn[h] EXCEPT !.step = next, !.days = days])
  /\ Keeps /\ UNCHANGED <<record, confirmed>>

ConfirmRows(h) ==
  Narrow(h, "confirm_rows", "confirm_today",
         {d \in txn[h].days : ~Exists(d) /\ d \notin onLeave})
ConfirmToday(h) ==
  Narrow(h, "confirm_today", "confirm_write", {d \in txn[h].days : d < today})

(* ... and inserts those that still have no record, which it returns.      *)
WrongInserted(t) == t.days
Inserted(t) == {d \in t.days : ~Exists(d)}
Absence(t) == [status |-> "ABSENT", in |-> FALSE, out |-> FALSE, branch |-> t.branch]

ConfirmWrite(h) ==
  LET t == txn[h]
  IN  /\ t.step = "confirm_write"
      /\ record' = [d \in Days |-> IF d \in Inserted(t) THEN Absence(t) ELSE record[d]]
      /\ confirmed' = [d \in Days |-> IF d \in Inserted(t)
                                      THEN Append(confirmed[d], t.branch) ELSE confirmed[d]]
      /\ End(h)
      /\ Keeps

-----------------------------------------------------------------------------
(* correct: asked by a manager of the person's branch ...                  *)
Correct(h, d, to) ==
  /\ d <= today
  /\ Begin(h, [Idle EXCEPT !.step = "correct_lock", !.day = d, !.home = branch,
                           !.branch = branch, !.to = [to EXCEPT !.branch = branch]])
  /\ UNCHANGED moves

(* ... the day's record is locked, if there is one ...                     *)
CorrectLock(h) ==
  LET t == txn[h]
  IN  /\ t.step = "correct_lock"
      /\ RecordFree(t.day)
      /\ txn' = [txn EXCEPT ![h] = [t EXCEPT !.step = "correct_read",
                                            !.locked = Exists(t.day)]]
      /\ Keeps /\ UNCHANGED <<record, confirmed>>

(* ... and read by another statement, which may find one that appeared in  *)
(* between.  The day must have been worked at that branch; nothing is      *)
(* written when nothing changes.                                           *)
CorrectRead(h) ==
  LET t == txn[h]
      old == record[t.day]
      at == IF Exists(t.day) THEN {old.branch} ELSE branchOnDate(t.home, t.day)
  IN  /\ t.step = "correct_read"
      /\ \/ /\ t.branch \in at
            /\ Go(h, [t EXCEPT !.step = "correct_write", !.found = Exists(t.day), !.home = None])
         \/ (at # {t.branch} \/ old = t.to) /\ End(h)
      /\ Keeps /\ UNCHANGED <<record, confirmed>>

(* The update, which leaves the branch alone, or the insert, and the audit *)
(* entry; a row that appeared meanwhile refuses the insert.                *)
Corrected(t) ==
  IF t.found THEN [t.to EXCEPT !.branch = record[t.day].branch] ELSE t.to
CorrectWrite(h) ==
  LET t == txn[h]
  IN  /\ t.step = "correct_write"
      /\ t.locked \/ RecordFree(t.day)
      /\ \/ /\ t.found \/ ~Exists(t.day)
            /\ record' = [record EXCEPT ![t.day] = Corrected(t)]
         \/ /\ ~t.found /\ Exists(t.day)
            /\ UNCHANGED record
      /\ End(h)
      /\ Keeps /\ UNCHANGED confirmed

-----------------------------------------------------------------------------
(* StaffService.assign, a transfer, and the termination of a branch: the   *)
(* day is read before the transaction waits for its locks.  Either ends    *)
(* the person's open dispatch on that day, the latter only one at its      *)
(* branch; Staffing has the rest of both.  The table refuses an end before *)
(* the start, and the transaction rolls back (Abort).                      *)
Move(h, to) ==
  /\ moves < MaxMoves /\ moves' = moves + 1
  /\ Begin(h, [Idle EXCEPT !.step = "move", !.day = today, !.branch = to])

Recall(h, b) ==
  /\ moves < MaxMoves /\ moves' = moves + 1
  /\ Begin(h, [Idle EXCEPT !.step = "recall", !.day = today, !.branch = b])

Ended(r, d) == [r EXCEPT !.end = d]

MoveCommit(h) ==
  LET t == txn[h]
  IN  /\ t.step = "move"
      /\ \A r \in dispatches : Open(r) => r.start <= t.day
      /\ branch' = t.branch
      /\ dispatches' = {IF Open(r) THEN Ended(r, t.day) ELSE r : r \in dispatches}
                       \cup {[branch |-> t.branch, start |-> t.day, end |-> None]}
      /\ End(h)
      /\ UNCHANGED <<today, late, moves, onLeave, record, confirmed>>

RecallCommit(h) ==
  LET t == txn[h]
  IN  /\ t.step = "recall"
      /\ \A r \in dispatches : Open(r) /\ r.branch = t.branch => r.start <= t.day
      /\ dispatches' = {IF Open(r) /\ r.branch = t.branch THEN Ended(r, t.day) ELSE r
                         : r \in dispatches}
      /\ End(h)
      /\ UNCHANGED <<today, late, moves, branch, onLeave, record, confirmed>>

(* A leave is approved, for any days, past ones included.                  *)
Grant(d) ==
  /\ onLeave' = onLeave \cup {d}
  /\ UNCHANGED <<today, late, branch, dispatches, moves, record, confirmed, txn>>

(* Requests take seconds: between two midnights there is a moment when     *)
(* none about this person is under way.                                    *)
Midnight ==
  /\ today < LastDay
  /\ late => Quiet
  /\ today' = today + 1 /\ late' = ~Quiet
  /\ UNCHANGED <<branch, dispatches, moves, onLeave, record, confirmed, txn>>

(* An error, a timeout or a crash rolls the transaction back.              *)
Abort(h) ==
  /\ txn[h].step # "idle"
  /\ End(h)
  /\ Keeps /\ UNCHANGED <<record, confirmed>>

Init ==
  /\ today = 1 /\ late = FALSE
  /\ branch \in Branches
  /\ dispatches = {[branch |-> branch, start |-> 0, end |-> None]}
  /\ moves = 0
  /\ onLeave = {}
  /\ record = [d \in Days |-> NoRecord]
  /\ confirmed = [d \in Days |-> <<>>]
  /\ txn = [h \in Handlers |-> Idle]

Next ==
  \/ \E h \in Handlers :
       \/ CheckIn(h) \/ CheckInRead(h) \/ CheckInWrite(h)
       \/ (\E b \in Branches : Confirm(h, b)) \/ ConfirmRead(h)
       \/ ConfirmRows(h) \/ ConfirmToday(h) \/ ConfirmWrite(h)
       \/ (\E d \in Days, to \in Corrections : Correct(h, d, to))
       \/ CorrectLock(h) \/ CorrectRead(h) \/ CorrectWrite(h)
       \/ (\E b \in Branches : Move(h, b) \/ Recall(h, b))
       \/ MoveCommit(h) \/ RecallCommit(h)
       \/ Abort(h)
  \/ \E d \in Days : CheckOut(d) \/ Grant(d)
  \/ Midnight

Spec == Init /\ [][Next]_vars

-----------------------------------------------------------------------------
(* Every variable keeps its shape.                                         *)
TypeOK ==
  /\ today \in Days /\ late \in BOOLEAN
  /\ branch \in Branches
  /\ dispatches \subseteq Dispatch
  /\ moves \in 0..MaxMoves
  /\ onLeave \subseteq Days
  /\ record \in [Days -> Record]
  /\ confirmed \in [Days -> Seq(Branches)]
  /\ txn \in [Handlers -> Txn]

(* Where a person was on a day as his dispatches have it today: at a       *)
(* branch up to the day of leaving it, at any if none was older.           *)
WasAt(b, d) ==
  \/ \E r \in dispatches : r.branch = b /\ r.start <= d /\ (Open(r) \/ d <= r.end)
  \/ \A r \in dispatches : Covers(r, d) => r.start = d

(* Two managers who confirm absences at once are never both told that they *)
(* confirmed the same day, and each only hears of days on which the person *)
(* was dispatched to their branch or had no dispatch from before           *)
(* (ADR-ATT-02, ADR-ATT-03).  The day of a transfer may be either branch's *)
(* if midnight passes before the transfer commits or while the absences    *)
(* are read; no other day may.                                             *)
ConfirmedOnce ==
  \A d \in Days :
    /\ Len(confirmed[d]) <= 1
    /\ confirmed[d] # <<>> => WasAt(confirmed[d][1], d)

(* Whether request h, a correction of day d, writes in this step.          *)
Corrects(h, d) ==
  /\ txn[h].step = "correct_write" /\ txn[h].day = d
  /\ txn'[h].step = "idle" /\ record'[d] = Corrected(txn[h])

(* Only a correction, which leaves an audit entry, changes or removes a    *)
(* check-in: neither a second check-in nor a confirmed absence does.       *)
CheckInKept ==
  \A d \in Days : record[d].in =>
    \/ record'[d] \in {record[d], [record[d] EXCEPT !.out = TRUE]}
    \/ \E h \in Handlers : Corrects(h, d)
CheckInStays == [][CheckInKept]_vars
=============================================================================
