------------------------------ MODULE BranchGate ------------------------------
(***************************************************************************)
(* What everything that adds something to a branch has in common: the      *)
(* contract status is read under a FOR SHARE lock on the branch row        *)
(* (lockBranchForShare), and changeContractStatus writes it under a FOR    *)
(* UPDATE lock.  The modules that extend this one are about one branch;    *)
(* the rest of the contract is in Contracts and what a termination does to *)
(* dispatches in Staffing.                                                 *)
(***************************************************************************)
CONSTANTS Handlers, None

VARIABLES
  contract,     (* Branch.contractStatus                                   *)
  txn           (* what each handler is doing, and the lock it holds       *)

GateStatus == {"ACTIVE", "RENEWAL_DUE", "TERMINATED"}
Locks == {"none", "share", "update"}

Idle == [step |-> "idle", lock |-> "none"]
Begin(h, t) == txn[h] = Idle /\ txn' = [txn EXCEPT ![h] = t]
End(h) == txn' = [txn EXCEPT ![h] = Idle]

WrongShareable == TRUE
Shareable == \A h \in Handlers : txn[h].lock # "update"

(* A request that adds something is let in with its lock, unless the       *)
(* contract is terminated.                                                 *)
LetIn(h, t) ==
  /\ Shareable
  /\ contract # "TERMINATED"
  /\ Begin(h, t)
  /\ UNCHANGED contract

(* changeContractStatus: the lock excludes every other one ...             *)
ContractLock(h, to) ==
  /\ \A g \in Handlers : txn[g].lock = "none"
  /\ Begin(h, [step |-> "contract", lock |-> "update", to |-> to])
  /\ UNCHANGED contract

(* ... and the status is written with the commit.                          *)
ContractCommit(h) ==
  /\ txn[h].step = "contract"
  /\ contract' = txn[h].to
  /\ End(h)

(* A request is refused, fails or dies: nothing it wrote is kept.          *)
Abort(h) == txn[h] # Idle /\ End(h) /\ UNCHANGED contract

Gate(h) ==
  \/ \E to \in {"ACTIVE", "TERMINATED"} : ContractLock(h, to)
  \/ ContractCommit(h) \/ Abort(h)

GateInit == contract = "ACTIVE" /\ txn = [h \in Handlers |-> Idle]

(* What a handler may be doing: Others are the steps of the component.     *)
GateTypeOK(Others) ==
  /\ contract \in GateStatus
  /\ \A h \in Handlers : txn[h] \in
       {Idle} \cup [step: {"contract"}, lock: {"update"}, to: GateStatus] \cup Others
=============================================================================
