------------------------------ MODULE HrDocuments ------------------------------
(***************************************************************************)
(* DocumentService (create, softDelete) and recalculateHrRetention, which  *)
(* StaffService.resign calls: the documents of one branch, and the day the *)
(* three years of a personnel record count from.  A registration does not  *)
(* lock the person, so a resignation may commit while it runs.  Of the     *)
(* resignation (module Staffing has the rest) the days and the documents   *)
(* are kept.                                                               *)
(***************************************************************************)
EXTENDS BranchGate, Integers

CONSTANTS
  Docs,         (* ids of documents                                        *)
  LastDay       (* bound: the clock stops on this day                      *)

VARIABLES
  today,
  resigned,     (* Staff.resignDate of one person; 0 while at work         *)
  doc           (* the Document rows: base is the day retention counts     *)
                (* from; 0 is a document kept for good                     *)
rows == <<today, resigned, doc>>
vars == <<contract, txn, rows>>

Row == [state: {"ABSENT", "KEPT", "DELETED"}, hr: BOOLEAN, ofBranch: BOOLEAN, base: 0..LastDay]
NoRow == [state |-> "ABSENT", hr |-> FALSE, ofBranch |-> FALSE, base |-> 0]

(* create: of a branch, under its share lock, or of the whole company, at  *)
(* any time; what it reads of the person is not locked ...                 *)
Create(h, d, hr, ofBranch) ==
  /\ doc[d] = NoRow
  /\ \A g \in {x \in Handlers : txn[x].step = "create"} : txn[g].doc # d
  /\ LET t == [step |-> "create", lock |-> IF ofBranch THEN "share" ELSE "none",
               doc |-> d, hr |-> hr, base |-> None]
     IN  \/ ofBranch /\ LetIn(h, t)
         \/ ~ofBranch /\ Begin(h, t) /\ UNCHANGED contract
  /\ UNCHANGED rows

WrongBase(hr) == IF hr THEN resigned ELSE 0
(* retentionUntil, as the day it counts from: the resignation, or today.   *)
Base(hr) == IF ~hr THEN 0 ELSE IF resigned # 0 THEN resigned ELSE today

CreateRead(h) ==
  /\ txn[h].step = "create" /\ txn[h].base = None
  /\ txn' = [txn EXCEPT ![h].base = Base(txn[h].hr)]
  /\ UNCHANGED <<contract, rows>>

(* ... and the row is inserted.                                            *)
CreateInsert(h) ==
  LET t == txn[h]
  IN  /\ t.step = "create" /\ t.base # None
      /\ doc' = [doc EXCEPT ![t.doc] = [state |-> "KEPT", hr |-> t.hr,
                           ofBranch |-> t.lock = "share", base |-> t.base]]
      /\ End(h)
      /\ UNCHANGED <<contract, today, resigned>>

(* softDelete: one conditional update.                                     *)
SoftDelete(d) ==
  /\ doc[d].state = "KEPT"
  /\ doc' = [doc EXCEPT ![d].state = "DELETED"]
  /\ UNCHANGED <<contract, txn, today, resigned>>

(* resign: its day is fixed before it waits for the person's lock ...      *)
Resign(h) ==
  /\ resigned = 0
  /\ \A g \in Handlers : txn[g].step # "resign"
  /\ Begin(h, [step |-> "resign", lock |-> "none", day |-> today])
  /\ UNCHANGED <<contract, rows>>

WrongRecalculated(day) == doc
(* recalculateHrRetention: what it can see of the person's records.        *)
Recalculated(day) ==
  [d \in Docs |-> IF doc[d].hr /\ doc[d].state = "KEPT"
                  THEN [doc[d] EXCEPT !.base = day] ELSE doc[d]]

(* ... and the records that are committed by then count from that day.     *)
ResignCommit(h) ==
  /\ txn[h].step = "resign"
  /\ resigned' = txn[h].day
  /\ doc' = Recalculated(txn[h].day)
  /\ End(h)
  /\ UNCHANGED <<contract, today>>

(* No transaction lasts longer than one midnight.                          *)
Midnight ==
  /\ today < LastDay
  /\ \A h \in {g \in Handlers : txn[g].step = "resign"} : txn[h].day = today
  /\ \A h \in {g \in Handlers : txn[g].step = "create"} :
       txn[h].base \in {None, 0, resigned, today}
  /\ today' = today + 1
  /\ UNCHANGED <<contract, txn, resigned, doc>>

Init ==
  /\ GateInit
  /\ today = 1 /\ resigned = 0
  /\ doc = [d \in Docs |-> NoRow]

Next ==
  \/ Midnight
  \/ \E d \in Docs : SoftDelete(d)
  \/ \E h \in Handlers :
       \/ Gate(h) /\ UNCHANGED rows
       \/ CreateRead(h) \/ CreateInsert(h) \/ Resign(h) \/ ResignCommit(h)
       \/ \E d \in Docs, hr, ofBranch \in BOOLEAN : Create(h, d, hr, ofBranch)

Spec == Init /\ [][Next]_vars

-----------------------------------------------------------------------------
TypeOK ==
  /\ GateTypeOK([step: {"create"}, lock: {"none", "share"}, doc: Docs, hr: BOOLEAN,
                 base: 0..LastDay \cup {None}]
                \cup [step: {"resign"}, lock: {"none"}, day: 1..LastDay])
  /\ today \in 1..LastDay /\ resigned \in 0..LastDay
  /\ doc \in [Docs -> Row]

(* ADR-RES-02: the personnel records of somebody who left are kept for     *)
(* three years from that day.  A record whose registration ran across the  *)
(* resignation and a midnight may count from the day before, never from    *)
(* earlier, and none is left without a day.                                *)
KeptFromLeaving ==
  \A d \in Docs : doc[d].state = "KEPT" /\ doc[d].hr =>
    /\ doc[d].base # 0
    /\ resigned # 0 => doc[d].base >= resigned - 1

(* ADR-RES-01: a terminated branch gets no new document.                   *)
NothingNew ==
  \A d \in Docs : doc[d] = NoRow /\ doc'[d].ofBranch => contract # "TERMINATED"
=============================================================================
