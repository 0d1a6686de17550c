------------------------------ MODULE SeatLedger ------------------------------
(***************************************************************************)
(* What seat booking promises, with no handlers, locks or stale reads:     *)
(* every change of a reservation is one atomic entry in a ledger.          *)
(***************************************************************************)
EXTENDS Integers, FiniteSets

CONSTANTS
  Members, Slots, Branches, Rsv, None,
  SiteOf,       (* the branch a slot belongs to                          *)
  Priced,       (* the slots that cost money                             *)
  Capacity, StartAt, Deadline

VARIABLES now, reservation, payment, contract
vars == <<now, reservation, payment, contract>>

Seated(s) == {r \in Rsv : /\ reservation[r].slot = s
                          /\ reservation[r].status \in {"REQUESTED", "CONFIRMED"}}

Empty == [status |-> "ABSENT", member |-> None, slot |-> None, cancelledAt |-> 0]

Init == /\ now = 0
        /\ reservation = [r \in Rsv |-> Empty]
        /\ payment = [r \in Rsv |-> "NONE"]
        /\ contract = [b \in Branches |-> "ACTIVE"]

Opening(s) == IF s \in Priced THEN "REQUESTED" ELSE "CONFIRMED"
Due(s) == IF s \in Priced THEN "PENDING" ELSE "NONE"

(* A seat is given out only while one is left, once per member, at a       *)
(* branch under contract; it is confirmed at once when it costs nothing.   *)
Book(r, m, s) ==
  /\ reservation[r].status = "ABSENT"
  /\ Cardinality(Seated(s)) < Capacity[s]
  /\ \A q \in Seated(s) : reservation[q].member # m
  /\ contract[SiteOf[s]] # "TERMINATED"
  /\ reservation' = [reservation EXCEPT ![r] =
       [status |-> Opening(s), member |-> m, slot |-> s, cancelledAt |-> 0]]
  /\ payment' = [payment EXCEPT ![r] = Due(s)]
  /\ UNCHANGED <<now, contract>>

Pay(r) ==
  /\ reservation[r].status = "REQUESTED" /\ payment[r] = "PENDING"
  /\ reservation' = [reservation EXCEPT ![r].status = "CONFIRMED"]
  /\ payment' = [payment EXCEPT ![r] = "APPROVED"]
  /\ UNCHANGED <<now, contract>>

(* An open payment fails with its reservation, an approved one is refunded *)
(* if and only if this entry is made in time.                              *)
Settle(r) ==
  CASE payment[r] = "PENDING" -> "FAILED"
    [] payment[r] = "APPROVED" /\ StartAt[reservation[r].slot] - now >= Deadline
         -> "REFUNDED"
    [] OTHER -> payment[r]

(* The entry carries the time the cancellation was written down, which may *)
(* be earlier than the entry itself.                                       *)
Cancel(r) ==
  /\ reservation[r].status \in {"REQUESTED", "CONFIRMED"}
  /\ \E at \in 0..now : reservation' = [reservation EXCEPT ![r] =
       [@ EXCEPT !.status = "CANCELLED", !.cancelledAt = at]]
  /\ payment' = [payment EXCEPT ![r] = Settle(r)]
  /\ UNCHANGED <<now, contract>>

Use(r) ==
  /\ reservation[r].status = "CONFIRMED" /\ payment[r] \in {"NONE", "APPROVED"}
  /\ reservation' = [reservation EXCEPT ![r].status = "COMPLETED"]
  /\ UNCHANGED <<now, payment, contract>>

ChangeContract(b, c) == /\ contract' = [contract EXCEPT ![b] = c]
                        /\ UNCHANGED <<now, reservation, payment>>

Pass == now' = now + 1 /\ UNCHANGED <<reservation, payment, contract>>

Next ==
  \/ Pass
  \/ \E r \in Rsv : \/ Pay(r) \/ Cancel(r) \/ Use(r)
                    \/ \E m \in Members, s \in Slots : Book(r, m, s)
  \/ \E b \in Branches :
       \E c \in {"ACTIVE", "RENEWAL_DUE", "EXPIRED", "TERMINATED"} :
         ChangeContract(b, c)

Spec == Init /\ [][Next]_vars
=============================================================================
