------------------------------ MODULE MCBooking ------------------------------
(* Small instances of Booking for TLC.                                     *)
EXTENDS Booking, TLC

CONSTANTS m1, m2, m3, s1, p1, b1, b2

OneProgramOf == [s \in Slots |-> p1]
OneBranchOf == [p \in Programs |-> b1]
AllHome == [m \in Members |-> b1]
SomeAway == [m \in Members |-> IF m = m3 THEN b2 ELSE b1]
OneSeat == [s \in Slots |-> 1]
TwoSeats == [s \in Slots |-> 2]
(* The slot starts at hour 2 of a three-hour day; hour 3 is the next day.  *)
StartsAtTwo == [s \in Slots |-> 2]
StartsAtThree == [s \in Slots |-> 3]

RowSymmetry == Permutations(Rsv) \cup Permutations(Handlers)
=============================================================================
