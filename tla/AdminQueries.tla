---------------------------- MODULE AdminQueries ----------------------------
(***************************************************************************)
(* The server state a page of the administrators' web application shows    *)
(* (apps/admin-web: TanStack Query over axios).  A page mounts queries;    *)
(* each reads some facts of the database and is kept under a key.  A write *)
(* changes facts, and its onSuccess names the keys to read again           *)
(* (invalidateQueries, by prefix) or puts its answer under one             *)
(* (setQueryData).  No list couples the two: a key that a write forgets    *)
(* leaves the page with rows from before the write.                        *)
(*                                                                         *)
(* Queries do not affect one another, so a behaviour follows one query of  *)
(* one page that stays on the screen, and the writes of that page that     *)
(* change what it reads: the others can only make it be read again, as the *)
(* focus does.  Facts are the parts of the answers the pages show apart.   *)
(***************************************************************************)
EXTENDS Naturals, Sequences, SequencesExt, FiniteSetsExt

CONSTANTS
  MaxWrites,  (* writes sent while the page is on the screen               *)
  None        (* a value that is nothing else                              *)

VARIABLES
  query,   (* the query followed                                           *)
  writes,  (* those of its page that change the facts it reads             *)
  opened,  (* the form that is open, or None                               *)
  sent,    (* the writes that were sent, in that order                     *)
  db,      (* the changes made to the facts of the query                   *)
  shown,   (* how many of them the rows on the screen have; None: no rows  *)
  fetch,   (* the fetch under way, or None                                 *)
  broken,  (* the last fetch gave up: the page shows an error              *)
  due      (* the changes whose write was answered, but for those answered *)
           (* while a key without rows was read for the first time         *)

vars == <<query, writes, opened, sent, db, shown, fetch, broken, due>>

Query(key, shows) == [key |-> key, shows |-> shows]

(* A write: the facts it changes, the keys it invalidates and those it     *)
(* puts its answer under.  A form closes when its write succeeds, and its  *)
(* user may close it before (components/Modal.tsx); a button is disabled   *)
(* while its write is pending.                                             *)
Write(form, changes, stale, puts) ==
  [form |-> form, changes |-> changes, stale |-> stale, puts |-> puts]
Form(changes, stale) == Write(TRUE, changes, stale, {})
Button(changes, stale) == Write(FALSE, changes, stale, {})

-----------------------------------------------------------------------------
(* The layout: the counts of what waits for this user.  Every page shows   *)
(* it, and every mutation of the application invalidates it.               *)
Inbox == Query(<<"inbox">>, {"support", "contract", "assignment", "retention",
                             "archived", "leave", "change", "reservation",
                             "congestion", "record"})
Always == {<<"inbox">>}

(* Members.                                                                *)
MemberList == Query(<<"members", "branch", "status", "q", "page">>, {"member"})
RegisterMember == Form({"member"}, {<<"members">>})

Member == Query(<<"members", "id">>, {"member", "enrollment", "pt"})
Enrollments == Query(<<"members", "id", "enrollments">>, {"enrollment"})
PtSessions == Query(<<"members", "id", "pt-sessions">>, {"pt"})
Enroll == Form({"enrollment"},
               {<<"members", "id", "enrollments">>, <<"members", "id">>})
PtKeys == {<<"members", "id", "pt-sessions">>, <<"members", "id">>}
BuyPt == Form({"pt"}, PtKeys)
UsePt == Button({"pt"}, PtKeys)
EditMember == Write(TRUE, {"member"}, {<<"members">>}, {<<"members", "id">>})
SetMemberStatus == Write(FALSE, {"member"}, {<<"members">>}, {<<"members", "id">>})
MemberReservations == Query(<<"reservations", "byMember", "id", "page">>,
                            {"reservation", "payment"})

(* Staff.                                                                  *)
StaffList == Query(<<"staff", "list", "tab">>, {"staff", "assignment"})
Me == Query(<<"staff", "me">>, {"staff"})
Hire == Form({"staff", "assignment"},
             {<<"staff">>, <<"permissions">>, <<"branches">>})
MyChanges == Query(<<"staff-change-requests", "mine">>, {"change"})
PendingChanges == Query(<<"staff-change-requests", "pending">>, {"change"})
AskChange == Form({"change"}, {<<"staff-change-requests">>})
CancelChange == Button({"change"}, {<<"staff-change-requests">>})
ReviewChange == Button({"change", "staff"},
                       {<<"staff-change-requests">>, <<"staff">>})

StaffRecord == Query(<<"staff", "detail", "id">>, {"staff"})
Assignments == Query(<<"staff", "id", "assignments">>, {"assignment"})
Records == Query(<<"attendance", "staff", "id", "month">>, {"record"})
HrFiles == Query(<<"documents", "staff", "id">>, {"retention"})
Overrides == Query(<<"permissions", "staff", "id", "overrides">>, {"override"})
WorkLogHistory == Query(<<"work-logs", "staff", "id">>, {"worklog"})
StaffLeave == Query(<<"leave-requests", "staff", "id">>, {"leave"})
EditStaff == Form({"staff"}, {<<"staff">>})
Resign == Form({"staff", "assignment", "assigned", "retention"},
               {<<"staff">>, <<"members">>, <<"permissions">>, <<"branches">>})
Assign == Form({"staff", "assignment", "assigned"},
               {<<"staff">>, <<"members">>, <<"branches">>, <<"permissions">>})
CorrectRecord == Form({"record"}, {<<"attendance">>, <<"attendance-summary">>})
SetOverride == Write(FALSE, {"override"}, {},
                     {<<"permissions", "staff", "id", "overrides">>})

(* Attendance.                                                             *)
MyRecords == Query(<<"attendance", "mine", "month">>, {"record"})
Balance == Query(<<"leave-balance", "staff">>, {"balance", "approved"})
MyLeave == Query(<<"leave-requests", "mine", "staff">>, {"leave"})
WorkLogs == Query(<<"work-logs", "mine", "staff">>, {"worklog"})
Summary == Query(<<"attendance-summary", "month">>, {"record"})
PendingLeave == Query(<<"leave-requests", "pending">>, {"leave"})
Absences == Query(<<"absence-preview", "month">>, {"past", "approved"})
BranchSummary == Query(<<"attendance-summary", "branch", "month">>, {"record"})
BranchAbsences == Query(<<"absence-preview", "branch", "month">>, {"past", "approved"})
AttendanceKeys == {<<"attendance">>, <<"attendance-summary">>}
LeaveKeys == {<<"leave-balance">>, <<"leave-requests">>}
CheckIn == Button({"record"}, AttendanceKeys)
CheckOut == Button({"record"}, AttendanceKeys)
RequestLeave == Button({"leave"}, LeaveKeys)
ReviewLeave == Button({"leave", "approved", "balance"}, LeaveKeys)
KeepWorkLog == Button({"worklog"}, {<<"work-logs">>})
ConfirmAbsences == Form({"record", "past"},
                        {<<"absence-preview">>} \cup AttendanceKeys)

(* Programs, reservations and instructors.                                 *)
Programs == Query(<<"programs">>, {"program"})
FilteredPrograms == Query(<<"programs", "filtered", "qs">>, {"program"})
Timetable == Query(<<"slots", "id">>, {"slot", "booked"})
BranchPrograms == Query(<<"programs", "id">>, {"program"})
ProgramsSummary == Query(<<"programs-summary", "id">>, {"program"})
SaveProgram == Form({"program"}, {<<"programs">>})
SetProgramStatus == Button({"program"}, {<<"programs">>})
EndProgram == Button({"program"}, {<<"programs">>})

Reservations == Query(<<"reservations", "branch", "page">>, {"reservation"})
Payments == Query(<<"payments", "page">>, {"payment"})
Slots == Query(<<"slots", "program">>, {"slot", "booked"})
CancelReservation == Button({"reservation", "payment", "booked"},
                            {<<"reservations">>, <<"slots">>})
(* A reservation checked in is no longer counted as booked.                *)
CheckInReservation == Button({"reservation", "booked"}, {<<"reservations">>})
CreateSlot == Button({"slot"}, {<<"slots", "program">>})

Instructors == Query(<<"instructors">>, {"instructor"})
CreateInstructor == Form({"instructor"}, {<<"instructors">>})
SwitchInstructor == Button({"instructor"}, {<<"instructors">>})

(* Facilities, assets, documents, posts and requests to headquarters.      *)
Facilities == Query(<<"facilities", "tab">>, {"facility", "congestion"})
BranchFacilities == Query(<<"facilities", "id">>, {"facility", "congestion"})
CreateFacility == Form({"facility"}, {<<"facilities">>})
EditFacility == Form({"facility"}, {<<"facilities">>})
CorrectCount == Button({"congestion"}, {<<"facilities">>})
SwitchFacility == Button({"facility"}, {<<"facilities">>})

Assets == Query(<<"assets", "branch", "status", "page">>, {"asset"})
BranchAssets == Query(<<"assets", "id", "unprocessed">>, {"asset"})
CreateAsset == Form({"asset"}, {<<"assets">>})
EditAsset == Form({"asset"}, {<<"assets">>})
MoveAsset == Button({"asset"}, {<<"assets">>})

Documents == Query(<<"documents">>, {"document"})
RetentionAlerts == Query(<<"documents", "alerts">>, {"document"})
UploadDocument == Form({"document", "retention"}, {<<"documents">>})
DeleteDocument == Button({"document", "retention"}, {<<"documents">>})

Board == Query(<<"posts", "scope", "page">>, {"post"})
SavePost == Button({"post"}, {<<"posts">>})
DeletePost == Button({"post"}, {<<"posts">>})

(* Attachments are not mutations: the cached post is changed in place.     *)
Post == Query(<<"posts", "id">>, {"post", "attachment"})
AttachFile == Write(FALSE, {"attachment"}, {}, {<<"posts", "id">>})
RemoveFile == Write(FALSE, {"attachment"}, {}, {<<"posts", "id">>})

SupportRequests == Query(<<"support-requests", "status", "page">>, {"support"})
AskSupport == Form({"support"}, {<<"support-requests">>})
MoveSupport == Form({"support"}, {<<"support-requests">>})

(* Branches, contracts and permissions.                                    *)
Branches == Query(<<"branches">>, {"branch", "contract", "file"})
CreateBranch == Form({"branch", "contract", "audit"},
                     {<<"branches">>, <<"audit-logs">>})
BranchStaff == Query(<<"staff", "id">>, {"staff", "assignment"})
AssignedMembers == Query(<<"members", "id", "assigned", "staff", "page">>,
                         {"assigned"})
Rounds == Query(<<"contract-rounds", "id">>,
                {"round", "terms", "file", "archived"})
History == Query(<<"audit-logs", "Branch", "id">>, {"audit"})
AuditLogs == Query(<<"audit-logs", "action", "page">>, {"audit"})
Performance == Query(<<"branch-performance", "id">>, {"performance"})
ChangeContract == Form({"contract", "round", "assignment", "assigned", "audit"},
                       {<<"branches">>, <<"staff">>, <<"members">>,
                        <<"instructors">>, <<"audit-logs">>})
EditContract == Form({"contract", "terms", "file", "audit"},
                     {<<"branches">>, <<"contract-rounds", "id">>,
                      <<"audit-logs">>})
AddFile == Form({"file", "audit"},
                {<<"branches">>, <<"contract-rounds", "id">>, <<"audit-logs">>})
ArchiveFile == Button({"archived", "audit"},
                      {<<"contract-rounds", "id">>, <<"contract-retention">>,
                       <<"inbox">>, <<"audit-logs">>})
Retention == Query(<<"contract-retention">>, {"archived", "file"})
PurgeFiles == Button({"file", "archived"},
                     {<<"contract-retention">>, <<"contract-rounds">>, <<"inbox">>})

StaffRoles == Query(<<"permissions", "staff">>, {"role"})
RoleDefaults == Query(<<"permissions", "roles">>, {"default"})
SwitchRole == Button({"role"}, {<<"permissions", "staff">>})
SetRoleDefault == Write(FALSE, {"default"}, {}, {<<"permissions", "roles">>})

(* The pages: what each mounts inside the layout, and what can be written  *)
(* there.  Those that only read are here for their own filters and pages.  *)
Page(queries, mutations) == [queries |-> queries \cup {Inbox}, writes |-> mutations]

MembersPage == Page({MemberList, Branches}, {RegisterMember})
MemberDetailPage ==
  Page({Member, Enrollments, PtSessions, MemberReservations, Programs, Instructors},
       {Enroll, BuyPt, UsePt, EditMember, SetMemberStatus})
StaffPage == Page({StaffList, Me, MyChanges, PendingChanges},
                  {Hire, AskChange, CancelChange, ReviewChange})
StaffDetailPage ==
  Page({StaffRecord, Assignments, Records, HrFiles, Overrides, WorkLogHistory,
        Balance, StaffLeave, Branches},
       {EditStaff, Resign, Assign, CorrectRecord, SetOverride})
AttendancePage ==
  Page({MyRecords, Balance, MyLeave, WorkLogs, Summary, PendingLeave, Absences},
       {CheckIn, CheckOut, RequestLeave, ReviewLeave, KeepWorkLog, ConfirmAbsences})
HqAttendancePage == Page({Branches, BranchSummary, BranchAbsences}, {})
ProgramsPage == Page({Programs, FilteredPrograms, Timetable, Instructors, Facilities},
                     {SaveProgram, SetProgramStatus, EndProgram})
ReservationsPage == Page({Reservations, Payments, Slots, Programs},
                         {CancelReservation, CheckInReservation, CreateSlot})
InstructorsPage == Page({Instructors}, {CreateInstructor, SwitchInstructor})
FacilitiesPage == Page({Facilities},
                       {CreateFacility, EditFacility, CorrectCount, SwitchFacility})
AssetsPage == Page({Assets, Branches}, {CreateAsset, EditAsset, MoveAsset})
DocumentsPage == Page({Documents, RetentionAlerts}, {UploadDocument, DeleteDocument})
BoardPage == Page({Board}, {})
PostDetailPage == Page({Post}, {RemoveFile, DeletePost})
PostEditorPage == Page({Post, Branches, BranchFacilities},
                       {SavePost, AttachFile, RemoveFile})
SupportRequestsPage == Page({SupportRequests}, {AskSupport, MoveSupport})
DashboardPage == Page({Branches}, {CreateBranch})
BranchDetailPage ==
  Page({Branches, BranchStaff, BranchPrograms, ProgramsSummary, BranchFacilities,
        Performance, BranchAssets, AssignedMembers, Rounds, History},
       {ChangeContract, EditContract, AddFile, ArchiveFile})
ContractRetentionPage == Page({Retention}, {PurgeFiles})
PermissionsPage == Page({StaffRoles, RoleDefaults}, {SwitchRole, SetRoleDefault})
AuditLogsPage == Page({AuditLogs, Branches}, {})

Pages == {
  MembersPage, MemberDetailPage, StaffPage, StaffDetailPage, AttendancePage,
  HqAttendancePage, ProgramsPage, ReservationsPage, InstructorsPage, FacilitiesPage,
  AssetsPage, DocumentsPage, BoardPage, PostDetailPage, PostEditorPage,
  SupportRequestsPage, DashboardPage, BranchDetailPage, ContractRetentionPage,
  PermissionsPage, AuditLogsPage}

-----------------------------------------------------------------------------
Sent == [step |-> "sent", version |-> 0]

Init ==
  /\ \E page \in Pages :
       /\ query \in page.queries
       /\ writes = {w \in page.writes : w.changes \cap query.shows # {}}
  /\ opened = None
  /\ sent = <<>>
  /\ db = 0
  /\ shown = None
  /\ fetch = Sent
  /\ broken = FALSE
  /\ due = 0

unread == <<db, shown, fetch, broken, due>>   (* what forms leave alone     *)

Matches(key) == IsPrefix(key, query.key)

(* Mutations that failed, and attachments, invalidate nothing.             *)
WrongStale(w) == w.stale
Stale(w) == w.stale \cup Always

-----------------------------------------------------------------------------
(* The query.  The window gets the focus: rows are read again (staleTime   *)
(* 0), unless a fetch is under way.                                        *)
Focus ==
  /\ fetch = None
  /\ fetch' = Sent
  /\ UNCHANGED <<query, writes, opened, sent, db, shown, broken, due>>

(* Another page, filter, tab or month is chosen: its rows have another key *)
(* and are read, whether or not some of an earlier visit are at hand.  The *)
(* pager waits for the rows under way; that a filter does is a bound.      *)
Chosen == {"page", "status", "q", "tab", "month", "scope", "action", "branch", "qs"}
Turn ==
  /\ Range(query.key) \cap Chosen # {}
  /\ fetch = None
  /\ shown' \in {None} \cup 0..db
  /\ fetch' = Sent
  /\ broken' = FALSE
  /\ UNCHANGED <<query, writes, opened, sent, db, due>>

(* The server answers with the rows as they are now.                       *)
Read ==
  /\ fetch # None /\ fetch.step = "sent"
  /\ fetch' = [step |-> "read", version |-> db]
  /\ UNCHANGED <<query, writes, opened, sent, db, shown, broken, due>>

(* The answer arrives and its rows are shown, whatever is shown by now.    *)
Arrive ==
  /\ fetch # None /\ fetch.step = "read"
  /\ shown' = fetch.version
  /\ fetch' = None
  /\ broken' = FALSE
  /\ UNCHANGED <<query, writes, opened, sent, db, due>>

(* The fetch fails; after the retries the page shows the error.            *)
FetchFails ==
  /\ fetch # None
  /\ \/ fetch' = Sent /\ UNCHANGED broken
     \/ fetch' = None /\ broken' = TRUE
  /\ UNCHANGED <<query, writes, opened, sent, db, shown, due>>

-----------------------------------------------------------------------------
(* The writes.                                                             *)
Open(w) ==
  /\ w.form /\ opened = None
  /\ opened' = w
  /\ UNCHANGED <<query, writes, sent, unread>>

Close ==
  /\ opened # None
  /\ opened' = None
  /\ sent' = [i \in DOMAIN sent |-> [sent[i] EXCEPT !.live = FALSE]]
  /\ UNCHANGED <<query, writes, unread>>

(* The button of a write is disabled while it is pending, in the form that *)
(* sent it: a form opened again is a new one.                              *)
Pending(w) ==
  \E i \in DOMAIN sent :
    sent[i].write = w /\ sent[i].live /\ sent[i].step \in {"sent", "committed"}

Submit(w) ==
  /\ w.form => opened = w
  /\ ~Pending(w)
  /\ Len(sent) < MaxWrites
  /\ sent' = Append(sent, [write |-> w, live |-> TRUE, step |-> "sent", version |-> 0])
  /\ UNCHANGED <<query, writes, opened, unread>>

(* The server commits the write; its answer has the row as it is then.     *)
Commit(i) ==
  /\ sent[i].step = "sent"
  /\ db' = db + 1
  /\ sent' = [sent EXCEPT ![i].step = "committed", ![i].version = db']
  /\ UNCHANGED <<query, writes, opened, shown, fetch, broken, due>>

Ended(i, how) ==
  [sent EXCEPT ![i] = [@ EXCEPT !.step = how, !.live = FALSE, !.version = 0]]

(* invalidateQueries of TanStack Query 5: a stale key is read again, and a *)
(* fetch under way cancelled for that, but only if the key has rows: its   *)
(* first fetch goes on, whatever the server read for it.                   *)
First == shown = None /\ fetch # None
WrongInvalidated(w) ==
  IF fetch = None /\ \E key \in Stale(w) : Matches(key) THEN Sent ELSE fetch
Invalidated(w) ==
  IF ~First /\ \E key \in Stale(w) : Matches(key) THEN Sent ELSE fetch

(* onSuccess: the answer is put under its keys, the stale keys are read    *)
(* again, the form closes.                                                 *)
Answer(i) ==
  LET w == sent[i].write IN
  /\ sent[i].step = "committed"
  /\ sent' = Ended(i, "answered")
  /\ due' = IF First THEN due ELSE Max({due, sent[i].version})
  /\ shown' = IF query.key \in w.puts /\ shown # None THEN sent[i].version ELSE shown
  /\ fetch' = Invalidated(w)
  /\ opened' = IF opened = w THEN None ELSE opened
  /\ UNCHANGED <<query, writes, db, broken>>

(* The write is refused, or its answer is lost: the form shows the error   *)
(* and stays.                                                              *)
WriteFails(i) ==
  /\ sent[i].step \in {"sent", "committed"}
  /\ sent' = Ended(i, "failed")
  /\ UNCHANGED <<query, writes, opened, unread>>

Next ==
  \/ Focus \/ Turn \/ Read \/ Arrive \/ FetchFails
  \/ \E w \in writes : Open(w) \/ Submit(w)
  \/ Close
  \/ \E i \in DOMAIN sent : Commit(i) \/ Answer(i) \/ WriteFails(i)

Spec == Init /\ [][Next]_vars

-----------------------------------------------------------------------------
Settled == fetch = None /\ ~broken

(* Left stale until the window gets the focus again or the page is opened  *)
(* again: a key the write does not invalidate; or a row put in place while *)
(* a fetch is under way, whose older answer overwrites it.                 *)
Forgotten == {<<CancelReservation, Payments>>, <<CheckInReservation, Slots>>,
              <<ReviewLeave, Absences>>, <<Resign, HrFiles>>,
              <<ChangeContract, Rounds>>}
Overtaken == {<<SetOverride, Overrides>>, <<SetRoleDefault, RoleDefaults>>,
              <<AttachFile, Post>>, <<RemoveFile, Post>>}

(* When nothing is being fetched, the page shows at least the rows its own *)
(* answered writes left, apart from the pairs above and from a write that  *)
(* was answered during the first fetch of the key.                         *)
ShownAfterWrite ==
  Settled /\ (\A i \in DOMAIN sent :
                <<sent[i].write, query>> \notin Forgotten \cup Overtaken)
  => shown >= due
=============================================================================
