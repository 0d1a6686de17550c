-------------------------------- MODULE Courses --------------------------------
(***************************************************************************)
(* MemberService: enrolments in courses and PT sessions (createEnrollment, *)
(* createPTSession, usePTSession) of the members of one branch.  Dates,    *)
(* programs and notes are left out.                                        *)
(***************************************************************************)
EXTENDS BranchGate, Integers

CONSTANTS
  Enrollments,  (* ids of CourseEnrollment rows                            *)
  Packages,     (* ids of PTSession rows                                   *)
  Sizes         (* sessions a package is bought with                       *)

VARIABLES
  enrolled,     (* the enrolments that exist                               *)
  pt,           (* Packages -> [total, used]; total 0 before it exists     *)
  uses          (* Packages -> how many PTSessionLog rows                  *)
rows == <<enrolled, pt, uses>>
vars == <<contract, txn, rows>>

Row == [total: Sizes \cup {0}, used: Nat]
NoRow == [total |-> 0, used |-> 0]

(* Both registrations read the member and are let in by its branch.        *)
Enroll(h, e) ==
  /\ e \notin enrolled
  /\ \A g \in {x \in Handlers : txn[x].step = "enroll"} : txn[g].id # e
  /\ LetIn(h, [step |-> "enroll", lock |-> "share", id |-> e])
  /\ UNCHANGED rows

EnrollCommit(h) ==
  /\ txn[h].step = "enroll"
  /\ enrolled' = enrolled \cup {txn[h].id}
  /\ End(h)
  /\ UNCHANGED <<contract, pt, uses>>

Buy(h, p, total) ==
  /\ pt[p] = NoRow
  /\ \A g \in {x \in Handlers : txn[x].step = "buy"} : txn[g].id # p
  /\ LetIn(h, [step |-> "buy", lock |-> "share", id |-> p, total |-> total])
  /\ UNCHANGED rows

BuyCommit(h) ==
  /\ txn[h].step = "buy"
  /\ pt' = [pt EXCEPT ![txn[h].id] = [total |-> txn[h].total, used |-> 0]]
  /\ End(h)
  /\ UNCHANGED <<contract, enrolled, uses>>

(* usePTSession, which a terminated contract does not stop: the package is *)
(* read ...                                                                *)
Use(h, p) ==
  /\ pt[p] # NoRow
  /\ Begin(h, [step |-> "use", lock |-> "none", id |-> p, used |-> pt[p].used])
  /\ UNCHANGED <<contract, rows>>

Updating(p) == {h \in Handlers : txn[h].step = "used" /\ txn[h].id = p}

WrongTaken(p, read) == read + 1
(* What the UPDATE makes of usedSessions, whatever was read before it.     *)
Taken(p, read) == pt[p].used + 1

(* ... one session taken off if any is left, under the row's lock ...      *)
UseUpdate(h) ==
  LET t == txn[h]
  IN  /\ t.step = "use"
      /\ Updating(t.id) = {}
      /\ \/ /\ pt[t.id].used < pt[t.id].total
            /\ txn' = [txn EXCEPT ![h] = [t EXCEPT !.step = "used",
                                                   !.used = Taken(t.id, t.used)]]
         \/ /\ pt[t.id].used >= pt[t.id].total
            /\ End(h)
      /\ UNCHANGED <<contract, rows>>

(* ... and committed with its log entry.                                   *)
UseCommit(h) ==
  LET t == txn[h]
  IN  /\ t.step = "used"
      /\ pt' = [pt EXCEPT ![t.id].used = t.used]
      /\ uses' = [uses EXCEPT ![t.id] = @ + 1]
      /\ End(h)
      /\ UNCHANGED <<contract, enrolled>>

Init ==
  /\ GateInit
  /\ enrolled = {}
  /\ pt = [p \in Packages |-> NoRow]
  /\ uses = [p \in Packages |-> 0]

Next ==
  \E h \in Handlers :
    \/ Gate(h) /\ UNCHANGED rows
    \/ EnrollCommit(h) \/ BuyCommit(h) \/ UseUpdate(h) \/ UseCommit(h)
    \/ \E e \in Enrollments : Enroll(h, e)
    \/ \E p \in Packages : Use(h, p) \/ \E n \in Sizes : Buy(h, p, n)

Spec == Init /\ [][Next]_vars

-----------------------------------------------------------------------------
TypeOK ==
  /\ GateTypeOK([step: {"enroll"}, lock: {"share"}, id: Enrollments]
                \cup [step: {"buy"}, lock: {"share"}, id: Packages, total: Sizes]
                \cup [step: {"use", "used"}, lock: {"none"}, id: Packages, used: Nat])
  /\ enrolled \subseteq Enrollments
  /\ pt \in [Packages -> Row] /\ uses \in [Packages -> Nat]

(* ADR-MEM-03: every session that was given is taken off and written down, *)
(* and no package gives more than was paid for, however often the button   *)
(* is pressed at once.                                                     *)
EveryUseCounted == \A p \in Packages : pt[p].used = uses[p] /\ uses[p] <= pt[p].total

(* D70: no enrolment and no package appears at a terminated branch.        *)
NothingNew ==
  enrolled' # enrolled \/ (\E p \in Packages : pt[p] = NoRow /\ pt'[p] # NoRow)
    => contract # "TERMINATED"
=============================================================================
