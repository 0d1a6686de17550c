---------------------------- MODULE SupportRequests ----------------------------
(***************************************************************************)
(* SupportRequestService: the requests a branch sends to headquarters.     *)
(***************************************************************************)
EXTENDS BranchGate

CONSTANTS Ids, Handling     (* ids of requests; people at headquarters     *)

VARIABLES request           (* Ids -> the SupportRequest row               *)
vars == <<contract, txn, request>>

NextStatus ==
  [REQUESTED |-> {"IN_PROGRESS", "DONE", "REJECTED"},
   IN_PROGRESS |-> {"DONE", "REJECTED"},
   DONE |-> {}, REJECTED |-> {}, ABSENT |-> {}]
Closed == {"DONE", "REJECTED"}

(* status, who handled it, whose answer it carries, is resolvedAt set?     *)
Row == [status: DOMAIN NextStatus, handler: Handling \cup {None},
        response: Handling \cup {None}, resolved: BOOLEAN]
NoRow == [status |-> "ABSENT", handler |-> None, response |-> None, resolved |-> FALSE]

Create(h, i) ==
  /\ request[i] = NoRow
  /\ \A g \in {x \in Handlers : txn[x].step = "create"} : txn[g].id # i
  /\ LetIn(h, [step |-> "create", lock |-> "share", id |-> i])
  /\ UNCHANGED request

CreateCommit(h) ==
  /\ txn[h].step = "create"
  /\ request' = [request EXCEPT ![txn[h].id].status = "REQUESTED"]
  /\ End(h)
  /\ UNCHANGED contract

(* changeStatus: a rejection carries an answer, other changes may; the     *)
(* transition is judged on a read ...                                      *)
ChangeStatus(h, i, to, who, answered) ==
  /\ to = "REJECTED" => answered
  /\ to \in NextStatus[request[i].status]
  /\ Begin(h, [step |-> "change", lock |-> "none", id |-> i, who |-> who,
               saw |-> request[i].status, to |-> to, answered |-> answered])
  /\ UNCHANGED <<contract, request>>

WrongStill(i, saw) == request[i].status # "ABSENT"
Still(i, saw) == request[i].status = saw

(* ... and made if the status is still the one that was read.              *)
ChangeCommit(h) ==
  LET t == txn[h]
  IN  /\ t.step = "change"
      /\ request' = IF Still(t.id, t.saw)
                    THEN [request EXCEPT ![t.id] =
                            [status |-> t.to, handler |-> t.who,
                             response |-> IF t.answered THEN t.who ELSE @.response,
                             resolved |-> t.to \in Closed]]
                    ELSE request
      /\ End(h)
      /\ UNCHANGED contract

Init == GateInit /\ request = [i \in Ids |-> NoRow]

Next ==
  \E h \in Handlers :
    \/ Gate(h) /\ UNCHANGED request
    \/ CreateCommit(h) \/ ChangeCommit(h)
    \/ \E i \in Ids :
         \/ Create(h, i)
         \/ \E to \in DOMAIN NextStatus, who \in Handling, answered \in BOOLEAN :
              ChangeStatus(h, i, to, who, answered)

Spec == Init /\ [][Next]_vars

-----------------------------------------------------------------------------
TypeOK ==
  /\ GateTypeOK([step: {"create"}, lock: {"share"}, id: Ids]
                \cup [step: {"change"}, lock: {"none"}, id: Ids, who: Handling,
                      saw: DOMAIN NextStatus, to: DOMAIN NextStatus, answered: BOOLEAN])
  /\ request \in [Ids -> Row]

(* D56: two people at headquarters who answer a request at once do not     *)
(* overwrite each other: what is closed stays as it was closed, and a      *)
(* rejection carries the answer of the one who rejected it.                *)
ClosedStays ==
  \A i \in Ids :
    /\ request[i].status \in Closed => request'[i] = request[i]
    /\ request'[i].status = "REJECTED" => request'[i].response = request'[i].handler

(* D70: a terminated branch sends no new request.                          *)
NothingNew ==
  \A i \in Ids : request[i] = NoRow /\ request'[i] # NoRow => contract # "TERMINATED"
=============================================================================
