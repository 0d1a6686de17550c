------------------------------ MODULE Facilities ------------------------------
(***************************************************************************)
(* FacilityService: one facility of a branch, the people its desk counted  *)
(* there (setManualCongestion) and the level of crowding.  Every write     *)
(* follows an unlocked read of the row.  The reserved seats an answer adds *)
(* to the count are those of Booking.                                      *)
(***************************************************************************)
EXTENDS BranchGate, Integers

CONSTANTS Sizes, Counts     (* capacities and head counts asked for        *)

VARIABLES facility          (* the Facility row; capacity 0 before it exists *)
vars == <<contract, txn, facility>>

Row == [capacity: Sizes \cup {0}, count: Counts \cup {0}, level: 1..5, active: BOOLEAN]
NoRow == [capacity |-> 0, count |-> 0, level |-> 1, active |-> TRUE]

(* congestionLevel: five steps of twenty per cent.                         *)
Level(count, capacity) ==
  LET ratio == count * 100
      step == {n \in 1..4 : ratio <= 20 * n * capacity}
  IN  IF step = {} THEN 5 ELSE CHOOSE n \in step : \A k \in step : n <= k

(* create: the capacity is at least 1.  Another creation is another row.   *)
Create(h, capacity) ==
  /\ facility = NoRow /\ capacity >= 1
  /\ LetIn(h, [step |-> "create", lock |-> "share", capacity |-> capacity])
  /\ UNCHANGED facility

CreateCommit(h) ==
  /\ txn[h].step = "create"
  /\ facility = NoRow
  /\ facility' = [NoRow EXCEPT !.capacity = txn[h].capacity]
  /\ End(h)
  /\ UNCHANGED contract

(* update: a new capacity, with the level of the count that was read ...   *)
Update(h, capacity) ==
  /\ facility # NoRow /\ capacity >= 1
  /\ Begin(h, [step |-> "update", lock |-> "none", capacity |-> capacity,
               count |-> facility.count])
  /\ UNCHANGED <<contract, facility>>

UpdateWrite(h) ==
  LET t == txn[h]
  IN  /\ t.step = "update"
      /\ facility' = [facility EXCEPT !.capacity = t.capacity,
                                      !.level = Level(t.count, t.capacity)]
      /\ End(h)
      /\ UNCHANGED contract

(* ... or the facility closed or opened again.                             *)
Toggle ==
  /\ facility # NoRow
  /\ facility' = [facility EXCEPT !.active = ~@]
  /\ UNCHANGED <<contract, txn>>

(* setManualCongestion: the row is read ...                                *)
SetCount(h, count) ==
  /\ facility # NoRow
  /\ Begin(h, [step |-> "count", lock |-> "none", count |-> count,
               capacity |-> facility.capacity])
  /\ UNCHANGED <<contract, facility>>

(* ... the branch must not be terminated when its lock is given ...        *)
CountLetIn(h) ==
  /\ txn[h].step = "count"
  /\ Shareable
  /\ \/ contract = "TERMINATED" /\ End(h)
     \/ /\ contract # "TERMINATED"
        /\ txn' = [txn EXCEPT ![h] = [@ EXCEPT !.step = "count_write", !.lock = "share"]]
  /\ UNCHANGED <<contract, facility>>

(* ... and the count is written with the level of the capacity read.       *)
CountWrite(h) ==
  LET t == txn[h]
  IN  /\ t.step = "count_write"
      /\ facility' = [facility EXCEPT !.count = t.count,
                                      !.level = Level(t.count, t.capacity)]
      /\ End(h)
      /\ UNCHANGED contract

Init == GateInit /\ facility = NoRow

Next ==
  \/ Toggle
  \/ \E h \in Handlers :
       \/ Gate(h) /\ UNCHANGED facility
       \/ CreateCommit(h) \/ UpdateWrite(h) \/ CountLetIn(h) \/ CountWrite(h)
       \/ \E n \in Sizes : Create(h, n) \/ Update(h, n)
       \/ \E n \in Counts : SetCount(h, n)

Spec == Init /\ [][Next]_vars

-----------------------------------------------------------------------------
TypeOK ==
  /\ GateTypeOK([step: {"create"}, lock: {"share"}, capacity: Sizes]
                \cup [step: {"update"}, lock: {"none"}, capacity: Sizes,
                      count: Counts \cup {0}]
                \cup [step: {"count"}, lock: {"none"}, count: Counts, capacity: Sizes]
                \cup [step: {"count_write"}, lock: {"share"}, count: Counts,
                      capacity: Sizes])
  /\ facility \in Row

(* ADR-FAC-03: at a terminated branch no facility is registered and nobody *)
(* is counted any more, even by a request that was under way before.       *)
NothingNew ==
  (facility = NoRow /\ facility' # NoRow) \/ facility'.count # facility.count
    => contract # "TERMINATED"
=============================================================================
