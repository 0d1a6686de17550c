---------------------------- MODULE DispatchRoster ----------------------------
(***************************************************************************)
(* What the staff records promise, with no transactions: who is employed,  *)
(* and at which branch under contract each person is dispatched.           *)
(***************************************************************************)
CONSTANTS Staff, Branches, None, FirstStaff, FirstBranch

VARIABLES contract, staff, open
vars == <<contract, staff, open>>

Init ==
  /\ contract = [b \in Branches |-> "ACTIVE"]
  /\ staff = [s \in Staff |->
       [status |-> IF s \in FirstStaff THEN "ACTIVE" ELSE "ABSENT",
        branch |-> IF s \in FirstStaff THEN FirstBranch ELSE None,
        login |-> s \in FirstStaff]]
  /\ open = [s \in Staff |-> IF s \in FirstStaff THEN {FirstBranch} ELSE {}]

(* A person is hired for, or moved to, a branch under contract and is then *)
(* dispatched there and nowhere else.                                      *)
Hire(s, b) ==
  /\ staff[s].status = "ABSENT" /\ contract[b] # "TERMINATED"
  /\ staff' = [staff EXCEPT ![s] = [status |-> "ACTIVE", branch |-> b, login |-> TRUE]]
  /\ open' = [open EXCEPT ![s] = {b}]
  /\ UNCHANGED contract

Transfer(s, b) ==
  /\ staff[s].status = "ACTIVE" /\ contract[b] # "TERMINATED"
  /\ staff' = [staff EXCEPT ![s].branch = b]
  /\ open' = [open EXCEPT ![s] = {b}]
  /\ UNCHANGED contract

Resign(s) ==
  /\ staff[s].status = "ACTIVE"
  /\ staff' = [staff EXCEPT ![s] = [@ EXCEPT !.status = "RESIGNED", !.login = FALSE]]
  /\ open' = [open EXCEPT ![s] = {}]
  /\ UNCHANGED contract

(* A termination leaves nobody dispatched to the branch; people keep the   *)
(* branch they were last at.                                               *)
Terminate(b) ==
  /\ contract[b] # "TERMINATED"
  /\ contract' = [contract EXCEPT ![b] = "TERMINATED"]
  /\ open' = [s \in Staff |-> open[s] \ {b}]
  /\ UNCHANGED staff

Recontract(b, to) ==
  /\ to = "TERMINATED" => contract[b] = "TERMINATED"
  /\ contract' = [contract EXCEPT ![b] = to]
  /\ UNCHANGED <<staff, open>>

Next ==
  \/ \E s \in Staff : Resign(s) \/ \E b \in Branches : Hire(s, b) \/ Transfer(s, b)
  \/ \E b \in Branches :
       \/ Terminate(b)
       \/ \E to \in {"ACTIVE", "RENEWAL_DUE", "EXPIRED", "TERMINATED"} : Recontract(b, to)

Spec == Init /\ [][Next]_vars
=============================================================================
