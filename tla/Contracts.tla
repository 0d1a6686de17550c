------------------------------- MODULE Contracts -------------------------------
(***************************************************************************)
(* The outsourcing contract of one branch: BranchService (createBranch,    *)
(* renewContract, correctContract, setContractFile, changeContractStatus)  *)
(* and ContractFileService (requestUpload, verify, attach, archive,        *)
(* purge).  Branches share no rows, so the module is about one.            *)
(*                                                                         *)
(* A request that writes the contract locks the branch row, reads the last *)
(* round and then writes.  It begins where it is given the lock, unless it *)
(* was made for a round on the screen, which may change before.  A purge   *)
(* locks the file rows, judges them, removes the objects from the storage  *)
(* and then writes.  A transaction's writes appear with its commit, but    *)
(* what is removed from the storage is gone at once.  Dates are numbers.   *)
(* The dispatches a termination ends are in Staffing.                      *)
(***************************************************************************)
EXTENDS Integers, Sequences, FiniteSets

CONSTANTS
  Paths,          (* bound: upload paths handed out; each names a file row *)
  Dates,          (* dates a contract may start and end at                 *)
  FirstTerm,      (* the [start, end] the branch was registered with       *)
  Terms,          (* bound: the [start, end] it is renewed for             *)
  Fixes,          (* bound: the [start, end] corrections ask for; 0 is a   *)
                  (* field that is not given                               *)
  LastDay,        (* bound: the clock stops on this day                    *)
  MaxRounds,      (* bound: rounds of the branch                           *)
  Retention,      (* CONTRACT_FILE_RETENTION_YEARS, in days of the model   *)
  ContractAsks,   (* bound: the statuses headquarters asks for             *)
  Handlers

VARIABLES
  today,
  contract,   (* Branch.contractStatus                                     *)
  round,      (* ContractRound rows by roundNo; terminatedAt 0 if not set  *)
  file,       (* ContractFile rows by path                                 *)
  audit,      (* CONTRACT_FILE_ARCHIVED and _PURGED entries of a file      *)
  stored,     (* paths with an object in the storage                       *)
  txn
tables == <<contract, round, file, audit>>
vars == <<today, contract, round, file, audit, stored, txn>>

ContractStatus == {"ACTIVE", "RENEWAL_DUE", "EXPIRED", "TERMINATED"}
Round == [start: Dates, end: Dates, terminatedAt: 0..LastDay]
Kinds == {"CONTRACT", "TERMINATION_AGREEMENT"}
File == [round: 0..MaxRounds, kind: Kinds,
         replaced: BOOLEAN, archived: BOOLEAN, purged: BOOLEAN]
NoFile == [round |-> 0, kind |-> "CONTRACT",
           replaced |-> FALSE, archived |-> FALSE, purged |-> FALSE]
Exists(p) == file[p].round # 0

(* A request: what it asks for, the round its screen showed (0 if it does  *)
(* not say), and what it has read: the current round, or the day.          *)
Txn == [op: {"none", "renew", "correct", "attach", "status", "purge"},
        step: {"idle", "lock", "write", "judge", "remove", "commit"},
        paths: SUBSET Paths, kind: Kinds, to: ContractStatus,
        start: Dates \cup {0}, end: Dates \cup {0},
        screen: 0..MaxRounds, current: 0..MaxRounds, day: 0..LastDay]
Idle == [op |-> "none", step |-> "idle", paths |-> {}, kind |-> "CONTRACT",
         to |-> "ACTIVE", start |-> 0, end |-> 0, screen |-> 0, current |-> 0, day |-> 0]

Begin(h, t) == txn[h].step = "idle" /\ txn' = [txn EXCEPT ![h] = t]
Goto(h, to) == txn' = [txn EXCEPT ![h].step = to]
End(h) == txn' = [txn EXCEPT ![h] = Idle]
Refuse(h) == End(h) /\ UNCHANGED <<today, stored, tables>>

(* Locks: lockContract on the branch, purge on the rows it was given.      *)
(* Operators called Wrong... are versions with a plausible bug.            *)
LocksBranch(h) == txn[h].step = "write"
WrongBranchFree == TRUE
BranchFree == \A h \in Handlers : ~LocksBranch(h)
LocksFile(h, p) == txn[h].step \in {"judge", "remove", "commit"} /\ p \in txn[h].paths
WrongFilesFree(P) == TRUE
FilesFree(P) == \A h \in Handlers, p \in P : ~LocksFile(h, p)

Current == Len(round)
InForce(n, kind) ==
  {p \in Paths : file[p].round = n /\ file[p].kind = kind /\ ~file[p].replaced}

-----------------------------------------------------------------------------
(* requestUpload, and the browser's PUT to the fresh path.                 *)
Upload(p) ==
  /\ p \notin stored /\ ~Exists(p)
  /\ stored' = stored \cup {p}
  /\ UNCHANGED <<today, tables, txn>>

(* A field that is not given keeps its value.                              *)
Or(given, old) == IF given = 0 THEN old ELSE given

(* What each request asks of the contract, under the lock.                 *)
MayRenew(term) ==
  contract # "TERMINATED" /\ term.start <= term.end /\ term.start > round[Current].start

MayTerminate == InForce(Current, "TERMINATION_AGREEMENT") # {}

WrongMayCorrect(t) == Or(t.start, round[Current].start) <= Or(t.end, round[Current].end)
MayCorrect(t) ==
  LET start == Or(t.start, round[Current].start)
  IN  /\ start <= Or(t.end, round[Current].end)
      /\ Current > 1 /\ start # round[Current].start => start > round[Current - 1].start

(* lockContract: the last round is read, too.                              *)
Locked(t) == [t EXCEPT !.step = "write", !.current = Current]

(* A request with a file first looks for it in the storage (verify); two   *)
(* of them may name the same one.                                          *)
Renew(h, p, term) ==
  /\ p \in stored
  /\ BranchFree /\ MayRenew(term) /\ Current < MaxRounds
  /\ Begin(h, Locked([Idle EXCEPT !.op = "renew", !.paths = {p},
                                  !.start = term.start, !.end = term.end]))
  /\ UNCHANGED <<today, stored, tables>>

ChangeStatus(h, to) ==
  /\ BranchFree
  /\ to = "TERMINATED" /\ contract # "TERMINATED" => MayTerminate
  /\ Begin(h, Locked([Idle EXCEPT !.op = "status", !.to = to, !.day = today]))
  /\ UNCHANGED <<today, stored, tables>>

(* setContractFile and correctContract name the round the screen showed ...*)
SetFile(h, p, kind) ==
  /\ p \in stored
  /\ Begin(h, [Idle EXCEPT !.op = "attach", !.step = "lock", !.paths = {p},
                           !.kind = kind, !.screen = Current])
  /\ UNCHANGED <<today, stored, tables>>

Correct(h, fix) ==
  /\ Begin(h, [Idle EXCEPT !.op = "correct", !.step = "lock", !.screen = Current,
                           !.start = fix.start, !.end = fix.end])
  /\ UNCHANGED <<today, stored, tables>>

WrongOnScreen(t) == TRUE

(* ... which must still be the last one.                                   *)
OnScreen(t) == t.screen = Current

ScreenLock(h) ==
  LET t == txn[h]
      ok == OnScreen(t) /\ IF t.op = "attach" THEN contract # "TERMINATED" ELSE MayCorrect(t)
  IN  /\ t.step = "lock"
      /\ BranchFree
      /\ IF ok THEN txn' = [txn EXCEPT ![h] = Locked(t)] ELSE End(h)
      /\ UNCHANGED <<today, stored, tables>>

-----------------------------------------------------------------------------
(* attach: the file in force is replaced and the new one inserted; a path  *)
(* that has a row already breaks an index.                                 *)
Attached(p, n, kind) ==
  [q \in Paths |->
     IF q = p THEN [NoFile EXCEPT !.round = n, !.kind = kind]
     ELSE IF q \in InForce(n, kind) THEN [file[q] EXCEPT !.replaced = TRUE]
     ELSE file[q]]

RenewWrite(h) ==
  LET t == txn[h]
      n == t.current + 1
  IN  /\ t.step = "write" /\ t.op = "renew"
      /\ \E p \in t.paths :
           \/ /\ ~Exists(p) /\ n > Len(round)
              /\ round' = Append(round, [start |-> t.start, end |-> t.end,
                                         terminatedAt |-> 0])
              /\ file' = Attached(p, n, "CONTRACT")
              /\ contract' = "ACTIVE"
              /\ End(h)
              /\ UNCHANGED <<today, audit, stored>>
           \/ (Exists(p) \/ n <= Len(round)) /\ Refuse(h)

SetFileWrite(h) ==
  LET t == txn[h]
  IN  /\ t.step = "write" /\ t.op = "attach"
      /\ FilesFree(InForce(t.current, t.kind))
      /\ \E p \in t.paths :
           \/ /\ ~Exists(p)
              /\ file' = Attached(p, t.current, t.kind)
              /\ End(h)
              /\ UNCHANGED <<today, contract, round, audit, stored>>
           \/ Exists(p) /\ Refuse(h)

WrongCorrectWrite(h) ==
  LET t == txn[h]
  IN  /\ t.step = "write" /\ t.op = "correct"
      /\ round' = [round EXCEPT ![t.current] =
           [@ EXCEPT !.start = t.start, !.end = t.end]]
      /\ End(h)
      /\ UNCHANGED <<today, contract, file, audit, stored>>

CorrectWrite(h) ==
  LET t == txn[h]
      n == t.current
      row == round[n]
  IN  /\ t.step = "write" /\ t.op = "correct"
      /\ round' = [round EXCEPT ![n] =
           [row EXCEPT !.start = Or(t.start, row.start), !.end = Or(t.end, row.end)]]
      /\ End(h)
      /\ UNCHANGED <<today, contract, file, audit, stored>>

(* The day of a termination is kept in the round, and cleared when it is   *)
(* taken back.                                                             *)
StatusWrite(h) ==
  LET t == txn[h]
      terminating == t.to = "TERMINATED" /\ contract # "TERMINATED"
      reverting == t.to # "TERMINATED" /\ contract = "TERMINATED"
  IN  /\ t.step = "write" /\ t.op = "status"
      /\ contract' = t.to
      /\ round' = IF terminating \/ reverting
                  THEN [round EXCEPT ![t.current].terminatedAt =
                          IF terminating THEN t.day ELSE 0]
                  ELSE round
      /\ End(h)
      /\ UNCHANGED <<today, file, audit, stored>>

-----------------------------------------------------------------------------
(* archive: one conditional statement and its audit entry.  What it reads  *)
(* of the row before never changes.                                        *)
Archive(p) ==
  /\ Exists(p) /\ FilesFree({p})
  /\ ~file[p].archived /\ ~file[p].purged
  /\ file' = [file EXCEPT ![p].archived = TRUE]
  /\ audit' = [audit EXCEPT ![p] = Append(@, "ARCHIVED")]
  /\ UNCHANGED <<today, contract, round, stored, txn>>

-----------------------------------------------------------------------------
(* contractFileRetentionUntil and retentionState.                          *)
RetentionUntil(n) ==
  (IF round[n].terminatedAt # 0 THEN round[n].terminatedAt ELSE round[n].end) + Retention
RetentionEnded(p, day) == RetentionUntil(file[p].round) < day

(* purge: the rows chosen on the screen are locked ...                     *)
Purge(h, P) ==
  /\ \A p \in P : Exists(p)
  /\ FilesFree(P)
  /\ Begin(h, [Idle EXCEPT !.op = "purge", !.step = "judge", !.paths = P, !.day = today])
  /\ UNCHANGED <<today, stored, tables>>

Purgeable(p, day) == file[p].archived /\ ~file[p].purged /\ RetentionEnded(p, day)

(* ... all of them must be archived and past their retention ...           *)
PurgeJudge(h) ==
  LET t == txn[h]
  IN  /\ t.step = "judge"
      /\ \/ (\A p \in t.paths : Purgeable(p, t.day)) /\ Goto(h, "remove")
         \/ (\E p \in t.paths : ~Purgeable(p, t.day)) /\ End(h)
      /\ UNCHANGED <<today, stored, tables>>

(* ... the objects go, now ...                                             *)
PurgeRemove(h) ==
  /\ txn[h].step = "remove"
  /\ stored' = stored \ txn[h].paths
  /\ Goto(h, "commit")
  /\ UNCHANGED <<today, tables>>

(* ... and the rows say so.                                                *)
PurgeCommit(h) ==
  LET P == txn[h].paths
  IN  /\ txn[h].step = "commit"
      /\ file' = [p \in Paths |->
                    IF p \in P THEN [file[p] EXCEPT !.purged = TRUE] ELSE file[p]]
      /\ audit' = [p \in Paths |-> IF p \in P THEN Append(audit[p], "PURGED") ELSE audit[p]]
      /\ End(h)
      /\ UNCHANGED <<today, contract, round, stored>>

-----------------------------------------------------------------------------
(* An error, a timeout or a crash rolls the rows back, not the storage.    *)
Abort(h) == txn[h].step # "idle" /\ Refuse(h)

Midnight ==
  /\ today < LastDay
  /\ today' = today + 1
  /\ UNCHANGED <<stored, tables, txn>>

(* createBranch has just run: one round and its contract.                  *)
Init ==
  /\ today = 1
  /\ contract = "ACTIVE"
  /\ round = <<[start |-> FirstTerm.start, end |-> FirstTerm.end, terminatedAt |-> 0]>>
  /\ \E p \in Paths :
       /\ file = [q \in Paths |-> IF q = p THEN [NoFile EXCEPT !.round = 1] ELSE NoFile]
       /\ stored = {p}
  /\ audit = [p \in Paths |-> <<>>]
  /\ txn = [h \in Handlers |-> Idle]

Next ==
  \/ Midnight
  \/ \E p \in Paths : Upload(p) \/ Archive(p)
  \/ \E h \in Handlers :
       \/ \E p \in Paths, term \in Terms : Renew(h, p, term)
       \/ \E p \in Paths, kind \in Kinds : SetFile(h, p, kind)
       \/ \E fix \in Fixes : Correct(h, fix)
       \/ \E to \in ContractAsks : ChangeStatus(h, to)
       \/ ScreenLock(h) \/ RenewWrite(h) \/ SetFileWrite(h) \/ CorrectWrite(h) \/ StatusWrite(h)
       \/ \E P \in SUBSET Paths \ {{}} : Purge(h, P)
       \/ PurgeJudge(h) \/ PurgeRemove(h) \/ PurgeCommit(h)
       \/ Abort(h)

Spec == Init /\ [][Next]_vars

-----------------------------------------------------------------------------
(* Every variable keeps its shape.                                         *)
TypeOK ==
  /\ today \in 1..LastDay
  /\ contract \in ContractStatus
  /\ round \in Seq(Round) /\ Len(round) \in 1..MaxRounds
  /\ file \in [Paths -> File]
  /\ audit \in [Paths -> Seq({"ARCHIVED", "PURGED"})]
  /\ stored \subseteq Paths
  /\ txn \in [Handlers -> Txn]

(* A branch is terminated exactly when its last round has the day of its   *)
(* termination, from which retention counts, and then a termination        *)
(* agreement is in force there; no earlier round has one (D69).            *)
TerminationDated ==
  /\ contract = "TERMINATED" <=> round[Current].terminatedAt # 0
  /\ contract = "TERMINATED" => InForce(Current, "TERMINATION_AGREEMENT") # {}
  /\ \A n \in 1..(Current - 1) : round[n].terminatedAt = 0

(* The rounds of a branch follow each other, and none ends before it       *)
(* starts, however renewals and corrections interleave (D68, D69).         *)
RoundsInOrder ==
  /\ \A n \in 1..Current : round[n].start <= round[n].end
  /\ \A n \in 2..Current : round[n - 1].start < round[n].start

(* A correction or a file meant for the round on the screen changes that   *)
(* round only, although a renewal opens another meanwhile (D70).           *)
FilesOf(n) == {p \in Paths : file[p].round = n}
MeantForScreen ==
  \A h \in Handlers :
    LET t == txn[h]
    IN  t.step = "write" /\ t.op \in {"correct", "attach"} /\ txn'[h].step = "idle"
        => \A n \in 1..Current \ {t.screen} :
             round'[n] = round[n] /\ FilesOf(n)' = FilesOf(n)
OnlyTheScreen == [][MeantForScreen]_vars

(* A file is recorded as archived and then as purged, each once, and its   *)
(* object leaves the storage only after it was archived, although purges   *)
(* and archivings run at once and fail half way (D71).                     *)
ArchivedThenPurged ==
  \A p \in Paths :
    /\ audit[p] \in {<<>>, <<"ARCHIVED">>, <<"ARCHIVED", "PURGED">>}
    /\ Exists(p) /\ p \notin stored => audit[p] # <<>>
=============================================================================
