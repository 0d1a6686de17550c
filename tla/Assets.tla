-------------------------------- MODULE Assets --------------------------------
(***************************************************************************)
(* AssetService: the assets of one branch, their codes, drawn from the     *)
(* branch's CodeSequence row (allocateBranchCode), and their life cycle    *)
(* with its audit entries.  Names, places and quantities are left out.     *)
(***************************************************************************)
EXTENDS BranchGate, Integers, Sequences

CONSTANTS
  Ids,          (* ids the database can give to Asset rows                 *)
  MaxMoves      (* bound: status changes of an asset                       *)

VARIABLES
  asset,        (* Ids -> [code, status]; code 0 before the row exists     *)
  lastCode,     (* CodeSequence.lastValue                                  *)
  trail         (* Ids -> ASSET_STATUS_CHANGED entries <<before, after>>   *)
rows == <<asset, lastCode, trail>>
vars == <<contract, txn, rows>>

NextStatus ==
  [NORMAL |-> {"REPAIRING", "DISPOSAL_PENDING"},
   REPAIRING |-> {"NORMAL", "DISPOSAL_PENDING"},
   DISPOSAL_PENDING |-> {"NORMAL", "DISPOSED"},
   DISPOSED |-> {}]
Status == DOMAIN NextStatus
Row == [code: Nat, status: Status]
NoRow == [code |-> 0, status |-> "NORMAL"]
Rows == {i \in Ids : asset[i].code # 0}

-----------------------------------------------------------------------------
(* create: under the branch's share lock ...                               *)
Create(h) ==
  /\ LetIn(h, [step |-> "allocate", lock |-> "share"])
  /\ UNCHANGED rows

WrongSequenceFree == TRUE
(* The upsert of allocateSequence holds the sequence row to the commit.    *)
SequenceFree == \A h \in Handlers : txn[h].step # "insert"

(* ... the next code is drawn ...                                          *)
Allocate(h) ==
  /\ txn[h].step = "allocate"
  /\ SequenceFree
  /\ txn' = [txn EXCEPT ![h] = [step |-> "insert", lock |-> "share",
                                code |-> lastCode + 1]]
  /\ UNCHANGED <<contract, rows>>

(* ... and the row is inserted.                                            *)
Insert(h, i) ==
  /\ txn[h].step = "insert"
  /\ i \notin Rows
  /\ asset' = [asset EXCEPT ![i] = [code |-> txn[h].code, status |-> "NORMAL"]]
  /\ lastCode' = txn[h].code
  /\ End(h)
  /\ UNCHANGED <<contract, trail>>

-----------------------------------------------------------------------------
(* updateStatus: the transition is judged on an unlocked read ...          *)
UpdateStatus(h, i, to) ==
  /\ i \in Rows /\ Len(trail[i]) < MaxMoves
  /\ to \in NextStatus[asset[i].status]
  /\ Begin(h, [step |-> "status", lock |-> "none", id |-> i,
               saw |-> asset[i].status, to |-> to])
  /\ UNCHANGED <<contract, rows>>

WrongStill(i, saw) == TRUE
Still(i, saw) == asset[i].status = saw

(* ... made if the status is still the one read, and written down with it. *)
StatusCommit(h) ==
  LET t == txn[h]
  IN  /\ t.step = "status"
      /\ \/ /\ Still(t.id, t.saw) /\ Len(trail[t.id]) < MaxMoves
            /\ asset' = [asset EXCEPT ![t.id].status = t.to]
            /\ trail' = [trail EXCEPT ![t.id] = Append(@, <<t.saw, t.to>>)]
         \/ /\ ~Still(t.id, t.saw)
            /\ UNCHANGED <<asset, trail>>
      /\ End(h)
      /\ UNCHANGED <<contract, lastCode>>

Init ==
  /\ GateInit
  /\ asset = [i \in Ids |-> NoRow]
  /\ lastCode = 0
  /\ trail = [i \in Ids |-> <<>>]

Next ==
  \E h \in Handlers :
    \/ Gate(h) /\ UNCHANGED rows
    \/ Create(h) \/ Allocate(h) \/ StatusCommit(h)
    \/ \E i \in Ids : Insert(h, i) \/ \E to \in Status : UpdateStatus(h, i, to)

Spec == Init /\ [][Next]_vars

-----------------------------------------------------------------------------
TypeOK ==
  /\ GateTypeOK([step: {"allocate"}, lock: {"share"}]
                \cup [step: {"insert"}, lock: {"share"}, code: Nat]
                \cup [step: {"status"}, lock: {"none"}, id: Ids, saw: Status, to: Status])
  /\ asset \in [Ids -> Row] /\ lastCode \in Nat
  /\ trail \in [Ids -> Seq(Status \X Status)]

(* ADR-STF-02, RES-T04: asset codes are given one after the other, none is *)
(* given twice and none is skipped, however many registrations run at once *)
(* and whichever of them fail after they have drawn a code.                *)
CodesInOrder ==
  /\ {asset[i].code : i \in Rows} = 1..lastCode
  /\ \A i, j \in Rows : asset[i].code = asset[j].code => i = j

(* D52: the audit entries of an asset tell its whole story: they start at  *)
(* NORMAL, each starts where the one before ended, follows the life cycle  *)
(* of RES-T02, and the last one says where the asset is now.               *)
TrailTells ==
  \A i \in Rows :
    LET at(n) == IF n = 0 THEN "NORMAL" ELSE trail[i][n][2]
    IN  /\ \A n \in 1..Len(trail[i]) :
             trail[i][n][1] = at(n - 1) /\ trail[i][n][2] \in NextStatus[at(n - 1)]
        /\ asset[i].status = at(Len(trail[i]))

(* D70: no asset appears at a branch whose contract is terminated.         *)
NothingNew == Rows' # Rows => contract # "TERMINATED"
=============================================================================
