----------------------------- MODULE StaffProfiles -----------------------------
(***************************************************************************)
(* StaffChangeRequestService and StaffService.update: what is written in   *)
(* the profile of one person.  A person asks for a change of a field (here *)
(* the name) and the branch manager approves it; a manager may also write  *)
(* the profile directly.  Of the resignation only the status is kept.      *)
(***************************************************************************)
EXTENDS Integers, Sequences, FiniteSets

CONSTANTS
  Names,        (* values of the field                                     *)
  Ids,          (* ids of StaffProfileChangeRequest rows                   *)
  Handlers, None

VARIABLES
  staff,        (* [name, working, partTime, offDays]                      *)
  request,      (* Ids -> [state, old, new]                                *)
  log,          (* STAFF_PROFILE_CHANGED entries [id, before, after]       *)
  txn
rows == <<staff, request, log>>
vars == <<rows, txn>>

Staff == [name: Names, working: BOOLEAN, partTime: BOOLEAN, offDays: BOOLEAN]
Request == [state: {"ABSENT", "PENDING", "APPROVED", "REJECTED", "CANCELLED"},
            old: Names \cup {None}, new: Names \cup {None}]
NoRequest == [state |-> "ABSENT", old |-> None, new |-> None]
Entry == [id: Ids, before: Names, after: Names]

Idle == [step |-> "idle"]
Begin(h, t) == txn[h] = Idle /\ txn' = [txn EXCEPT ![h] = t]
Goto(h, t) == txn' = [txn EXCEPT ![h] = t]
End(h) == txn' = [txn EXCEPT ![h] = Idle]
Quiet == UNCHANGED rows

(* The person's row is locked by a request being made and by a resignation;*)
(* a request's row by who is deciding it.                                  *)
WrongStaffFree == TRUE
StaffFree == \A h \in Handlers : txn[h].step \notin {"count", "insert", "resign"}
Deciding(i) == {h \in Handlers : txn[h].step \in {"claimed", "approve"} /\ txn[h].id = i}
Pending == {i \in Ids : request[i].state = "PENDING"}

-----------------------------------------------------------------------------
(* create: the person at work asks for another value ...                   *)
Create(h, value) ==
  /\ StaffFree
  /\ staff.working /\ staff.name # value
  /\ Begin(h, [step |-> "count", old |-> staff.name, new |-> value])
  /\ Quiet

(* ... with no request for the same field still open ...                   *)
CreateCount(h) ==
  /\ txn[h].step = "count"
  /\ \/ Pending = {} /\ Goto(h, [txn[h] EXCEPT !.step = "insert"])
     \/ Pending # {} /\ End(h)
  /\ Quiet

CreateInsert(h, i) ==
  /\ txn[h].step = "insert"
  /\ request[i] = NoRequest
  /\ request' = [request EXCEPT ![i] =
                   [state |-> "PENDING", old |-> txn[h].old, new |-> txn[h].new]]
  /\ End(h)
  /\ UNCHANGED <<staff, log>>

-----------------------------------------------------------------------------
(* cancel: deletes the request while it is pending.                        *)
Cancel(i) ==
  /\ Deciding(i) = {}
  /\ request[i].state = "PENDING"
  /\ request' = [request EXCEPT ![i].state = "CANCELLED"]
  /\ UNCHANGED <<staff, log, txn>>

WrongClaimable(i) == request[i].state \in {"PENDING", "APPROVED", "REJECTED"}
(* claim: waits for who is deciding the request, then expects it pending.  *)
Claimable(i) == request[i].state = "PENDING"

Decide(h, i, to) ==
  /\ request[i].state # "ABSENT"
  /\ Deciding(i) = {}
  /\ Claimable(i)
  /\ Begin(h, [step |-> "claimed", id |-> i, to |-> to])
  /\ Quiet

(* reject: nothing else.                                                   *)
RejectCommit(h) ==
  /\ txn[h].step = "claimed" /\ txn[h].to = "REJECTED"
  /\ request' = [request EXCEPT ![txn[h].id].state = "REJECTED"]
  /\ End(h)
  /\ UNCHANGED <<staff, log>>

(* approve: the profile is read for the audit entry ...                    *)
ApproveRead(h) ==
  /\ txn[h].step = "claimed" /\ txn[h].to = "APPROVED"
  /\ Goto(h, [step |-> "approve", id |-> txn[h].id, before |-> staff.name])
  /\ Quiet

(* ... and written, when nobody else holds the person's row.               *)
ApproveCommit(h) ==
  LET t == txn[h]
      new == request[t.id].new
  IN  /\ t.step = "approve"
      /\ StaffFree
      /\ request' = [request EXCEPT ![t.id].state = "APPROVED"]
      /\ staff' = [staff EXCEPT !.name = new]
      /\ log' = Append(log, [id |-> t.id, before |-> t.before, after |-> new])
      /\ End(h)

-----------------------------------------------------------------------------
(* update: a manager gives a name, or the kind of employment, or off days; *)
(* it reads the kind of employment first ...                               *)
Update(h, what) ==
  /\ Begin(h, [step |-> "update", what |-> what, partTime |-> staff.partTime])
  /\ Quiet

(* ... a part-timer has no off days (and the table refuses them).          *)
Updated(t) ==
  LET partTime == t.what = "part_time" \/ (t.partTime /\ t.what # "full_time")
      row == CASE t.what \in {"part_time", "full_time"} -> [staff EXCEPT !.partTime = partTime]
               [] t.what = "off_days" -> [staff EXCEPT !.offDays = TRUE]
               [] OTHER -> [staff EXCEPT !.name = t.what]
  IN  IF partTime THEN [row EXCEPT !.offDays = FALSE] ELSE row

UpdateWrite(h) ==
  /\ txn[h].step = "update"
  /\ StaffFree
  /\ LET row == Updated(txn[h])
     IN  staff' = IF row.partTime /\ row.offDays THEN staff ELSE row
  /\ End(h)
  /\ UNCHANGED <<request, log>>

Resign(h) ==
  /\ StaffFree /\ staff.working
  /\ Begin(h, [step |-> "resign"])
  /\ Quiet

ResignCommit(h) ==
  /\ txn[h].step = "resign"
  /\ staff' = [staff EXCEPT !.working = FALSE]
  /\ End(h)
  /\ UNCHANGED <<request, log>>

Abort(h) == txn[h] # Idle /\ End(h) /\ Quiet

Init ==
  /\ staff \in [name: Names, working: {TRUE}, partTime: {FALSE}, offDays: BOOLEAN]
  /\ request = [i \in Ids |-> NoRequest]
  /\ log = <<>>
  /\ txn = [h \in Handlers |-> Idle]

Next ==
  \/ \E i \in Ids : Cancel(i)
  \/ \E h \in Handlers :
       \/ \E value \in Names : Create(h, value)
       \/ \E i \in Ids : CreateInsert(h, i)
                         \/ \E to \in {"APPROVED", "REJECTED"} : Decide(h, i, to)
       \/ \E what \in Names \cup {"part_time", "full_time", "off_days"} : Update(h, what)
       \/ CreateCount(h) \/ RejectCommit(h) \/ ApproveRead(h) \/ ApproveCommit(h)
       \/ UpdateWrite(h) \/ Resign(h) \/ ResignCommit(h) \/ Abort(h)

Spec == Init /\ [][Next]_vars

-----------------------------------------------------------------------------
TypeOK ==
  /\ staff \in Staff
  /\ request \in [Ids -> Request]
  /\ log \in Seq(Entry)
  /\ \A h \in Handlers : txn[h] \in
       {Idle, [step |-> "resign"]}
       \cup [step: {"count", "insert"}, old: Names, new: Names]
       \cup [step: {"claimed"}, id: Ids, to: {"APPROVED", "REJECTED"}]
       \cup [step: {"approve"}, id: Ids, before: Names]
       \cup [step: {"update"}, partTime: BOOLEAN,
             what: Names \cup {"part_time", "full_time", "off_days"}]

(* ADR-STF-09: a person has one open request for a field, however often    *)
(* the button is pressed while others decide and cancel.                   *)
OnePending == Cardinality(Pending) <= 1

(* Every request is decided once: a rejected or cancelled one has never    *)
(* been applied, an approved one exactly once and with its own value, and  *)
(* it stays what it was decided to be.                                     *)
AppliedOnce ==
  \A i \in Ids :
    LET entries == {n \in 1..Len(log) : log[n].id = i}
    IN  /\ Cardinality(entries) = IF request[i].state = "APPROVED" THEN 1 ELSE 0
        /\ \A n \in entries : log[n].after = request[i].new
=============================================================================
