-------------------------------- MODULE Office --------------------------------
(***************************************************************************)
(* The components of the API that share no rows with each other, side by   *)
(* side: a behaviour belongs to one desk, the component at work, whose     *)
(* handlers are in txn and whose rows are in x1, x2, ... in the order of   *)
(* its INSTANCE.  The other variables are not used then.                   *)
(***************************************************************************)
EXTENDS Integers, Sequences, FiniteSets

CONSTANTS
  Desks,         (* the components at work                                 *)
  Handlers, None,
  (* Attendance *)
  Branches, AttendanceDays, MaxMoves, Corrections,
  (* Leave *)
  LeaveDays, Leaves, LeaveAsks,
  (* MemberAccount *)
  Members, Accounts, Emails, AtDesk,
  (* Attachments, and paths for Contracts *)
  Paths, Files, PerPost,
  (* Contracts; LastDay is the last of HrDocuments, too *)
  Dates, FirstTerm, Terms, Fixes, LastDay, MaxRounds, Retention, ContractAsks,
  (* Programs *)
  Visitors, Slots, Prices, Capacities,
  (* Permissions *)
  Envs, Serial, Lifetime, ReadLimit, LastTick, MaxChanges,
  (* StaffProfiles *)
  ChangeIds, Names,
  (* Assets, Facilities, SupportRequests, HrDocuments *)
  AssetIds, AssetMoves, RoomSizes, Counts, SupportIds, Handling, Docs,
  (* Courses, Posts *)
  Enrollments, Packages, PackageSizes, PostIds, MaxEdits

(* What no row ever holds is told apart from what it may hold, numbers are *)
(* numbers, and what requests ask for has passed the checks of their DTOs  *)
(* and of the lines that come before a component's first read: a leave and *)
(* a contract end no earlier than they start (days <= 0 and checkPeriod    *)
(* are refused).                                                           *)
ASSUME OfficeAssumption ==
  /\ None \notin Nat /\ None \notin Branches /\ None \notin Leaves
  /\ None \notin Accounts /\ None \notin Emails
  /\ None \notin Paths /\ None \notin Files
  /\ None \notin {"FREE_ACCESS", "PAID_SESSION", "PT_PACKAGE"}
  /\ AttendanceDays \in Nat \ {0} /\ MaxMoves \in Nat
  /\ Corrections \subseteq
       [status: {"NORMAL", "ABSENT", "ON_LEAVE"},
        in: BOOLEAN, out: BOOLEAN, branch: {None}]
  /\ LeaveDays \subseteq Int /\ \E d \in LeaveDays : \A e \in LeaveDays : d <= e
  /\ LeaveAsks \subseteq [type: {"ANNUAL", "SICK"}, first: LeaveDays, last: LeaveDays]
  /\ \A ask \in LeaveAsks : ask.first <= ask.last
  /\ AtDesk \subseteq Members
  /\ PerPost \in Nat
  /\ Dates \subseteq Nat \ {0}
  /\ FirstTerm \in [start: Dates, end: Dates] /\ FirstTerm.start <= FirstTerm.end
  /\ Terms \subseteq [start: Dates, end: Dates]
  /\ Fixes \subseteq [start: Dates \cup {0}, end: Dates \cup {0}]
  /\ LastDay \in Nat \ {0} /\ MaxRounds \in Nat \ {0} /\ Retention \in Nat
  /\ ContractAsks \subseteq {"ACTIVE", "RENEWAL_DUE", "EXPIRED", "TERMINATED"}
  /\ Prices \subseteq Nat /\ Capacities \subseteq Nat
  /\ Serial \subseteq Envs
  /\ Lifetime \in Nat /\ ReadLimit \in Nat /\ LastTick \in Nat /\ MaxChanges \in Nat
  /\ AssetMoves \in Nat /\ MaxEdits \in Nat
  /\ RoomSizes \subseteq Nat /\ Counts \subseteq Nat /\ PackageSizes \subseteq Nat

VARIABLES desk, txn, x1, x2, x3, x4, x5, x6, x7, x8

From3 == <<x3, x4, x5, x6, x7, x8>>
From4 == <<x4, x5, x6, x7, x8>>
From5 == <<x5, x6, x7, x8>>
From7 == <<x7, x8>>
vars == <<desk, txn, x1, x2, From3>>

Att == INSTANCE Attendance WITH
         today <- x1, branch <- x2, dispatches <- x3, onLeave <- x4, record <- x5,
         confirmed <- x6, moves <- x7, late <- x8, LastDay <- AttendanceDays
Lv == INSTANCE Leave WITH year <- x1, leave <- x2, used <- x3, Days <- LeaveDays
Acc == INSTANCE MemberAccount WITH status <- x1, account <- x2, login <- x3
Atm == INSTANCE Attachments WITH given <- x1, stored <- x2, file <- x3
Con == INSTANCE Contracts WITH
         today <- x1, contract <- x2, round <- x3, file <- x4, audit <- x5, stored <- x6
Prg == INSTANCE Programs WITH
         program <- x1, slot <- x2, booked <- x3, report <- x4, Members <- Visitors
Prm == INSTANCE Permissions WITH
         kind <- x1, clock <- x2, roleLog <- x3, roleRow <- x4, ownLog <- x5, own <- x6,
         cache <- x7, applied <- x8
Prf == INSTANCE StaffProfiles WITH
         staff <- x1, request <- x2, log <- x3, Ids <- ChangeIds
(* The components behind the gate of a branch; x1 is its contract.         *)
Ast == INSTANCE Assets WITH
         contract <- x1, asset <- x2, lastCode <- x3, trail <- x4,
         Ids <- AssetIds, MaxMoves <- AssetMoves
Fac == INSTANCE Facilities WITH contract <- x1, facility <- x2, Sizes <- RoomSizes
Sup == INSTANCE SupportRequests WITH contract <- x1, request <- x2, Ids <- SupportIds
Hrd == INSTANCE HrDocuments WITH contract <- x1, today <- x2, resigned <- x3, doc <- x4
Crs == INSTANCE Courses WITH
         contract <- x1, enrolled <- x2, pt <- x3, uses <- x4, Sizes <- PackageSizes
Pos == INSTANCE Posts WITH contract <- x1, post <- x2, Ids <- PostIds

-----------------------------------------------------------------------------
Blank7 == x7 = None /\ x8 = None
Blank5 == x5 = None /\ x6 = None /\ Blank7
Blank4 == x4 = None /\ Blank5
Blank3 == x3 = None /\ Blank4

OfficeInit ==
  /\ desk \in Desks
  /\ \/ desk = "attendance" /\ Att!Init
     \/ desk = "leave" /\ Lv!Init /\ Blank4
     \/ desk = "accounts" /\ Acc!Init /\ Blank4
     \/ desk = "attachments" /\ Atm!Init /\ Blank4
     \/ desk = "contracts" /\ Con!Init /\ Blank7
     \/ desk = "programs" /\ Prg!Init /\ Blank5
     \/ desk = "permissions" /\ Prm!Init
     \/ desk = "profiles" /\ Prf!Init /\ Blank4
     \/ desk = "assets" /\ Ast!Init /\ Blank5
     \/ desk = "facilities" /\ Fac!Init /\ Blank3
     \/ desk = "support" /\ Sup!Init /\ Blank3
     \/ desk = "documents" /\ Hrd!Init /\ Blank5
     \/ desk = "courses" /\ Crs!Init /\ Blank5
     \/ desk = "posts" /\ Pos!Init /\ Blank3

OfficeNext ==
  /\ UNCHANGED desk
  /\ \/ desk = "attendance" /\ Att!Next
     \/ desk = "leave" /\ Lv!Next /\ UNCHANGED From4
     \/ desk = "accounts" /\ Acc!Next /\ UNCHANGED From4
     \/ desk = "attachments" /\ Atm!Next /\ UNCHANGED From4
     \/ desk = "contracts" /\ Con!Next /\ UNCHANGED From7
     \/ desk = "programs" /\ Prg!Next /\ UNCHANGED From5
     \/ desk = "permissions" /\ Prm!Next
     \/ desk = "profiles" /\ Prf!Next /\ UNCHANGED From4
     \/ desk = "assets" /\ Ast!Next /\ UNCHANGED From5
     \/ desk = "facilities" /\ Fac!Next /\ UNCHANGED From3
     \/ desk = "support" /\ Sup!Next /\ UNCHANGED From3
     \/ desk = "documents" /\ Hrd!Next /\ UNCHANGED From5
     \/ desk = "courses" /\ Crs!Next /\ UNCHANGED From5
     \/ desk = "posts" /\ Pos!Next /\ UNCHANGED From3

OfficeSpec == OfficeInit /\ [][OfficeNext]_vars

-----------------------------------------------------------------------------
(* Every variable of the desk at work keeps its shape.                     *)
OfficeTypeOK ==
  /\ desk = "attendance" => Att!TypeOK
  /\ desk = "leave" => Lv!TypeOK
  /\ desk = "accounts" => Acc!TypeOK
  /\ desk = "attachments" => Atm!TypeOK
  /\ desk = "contracts" => Con!TypeOK
  /\ desk = "programs" => Prg!TypeOK
  /\ desk = "permissions" => Prm!TypeOK
  /\ desk = "profiles" => Prf!TypeOK
  /\ desk = "assets" => Ast!TypeOK
  /\ desk = "facilities" => Fac!TypeOK
  /\ desk = "support" => Sup!TypeOK
  /\ desk = "documents" => Hrd!TypeOK
  /\ desk = "courses" => Crs!TypeOK
  /\ desk = "posts" => Pos!TypeOK

(* Two managers who confirm absences at once are never both told that they *)
(* confirmed the same day, and hear of no day spent at another branch but, *)
(* across a midnight, that of a transfer (ADR-ATT-02, ADR-ATT-03).         *)
ConfirmedOnce == desk = "attendance" => Att!ConfirmedOnce

(* Only a correction changes or removes a check-in.                        *)
CheckInStays == [][desk = "attendance" => Att!CheckInKept]_vars

(* Nobody is on two approved leaves at once (ADR-ATT-05).                  *)
NoOverlap == desk = "leave" => Lv!NoOverlap

(* The balance is charged one day for each day of approved annual leave    *)
(* (ADR-ATT-01).                                                           *)
UsedAgrees == desk = "leave" => Lv!UsedAgrees

(* Every account belongs to exactly one member (ADR-MEM-01, ADR-MEM-02).   *)
NoOrphanAccounts == desk = "accounts" => Acc!NoOrphanAccounts

(* A login registered in the app is open while its member is not withdrawn.*)
LoginFollowsStatus == desk = "accounts" => Acc!LoginFollowsStatus

(* D5: a withdrawn member has no open login (not so: see MemberAccount).   *)
WithdrawnCannotLogIn == desk = "accounts" => Acc!WithdrawnCannotLogIn

(* A post has at most PerPost files and none of them twice (D57).          *)
FilesWithin == desk = "attachments" => Atm!FilesWithin

(* A branch is terminated exactly when its last round says since when, and *)
(* its rounds follow each other, however renewals, corrections and         *)
(* terminations interleave (D68, D69).                                     *)
ContractDates == desk = "contracts" => Con!TerminationDated /\ Con!RoundsInOrder

(* A file's object leaves the storage once, after it was archived (D71).   *)
ArchivedThenPurged == desk = "contracts" => Con!ArchivedThenPurged

(* What is meant for the round on the screen changes no other round (D70). *)
OnlyTheScreen == [][desk = "contracts" => Con!MeantForScreen]_vars

(* Price and capacity fit the pricing of a program whatever two managers   *)
(* change at once (ADR-PRG-01).                                            *)
PricingAgrees == desk = "programs" => Prg!PricingAgrees

(* A change of a role's cell reaches every environment within the life of  *)
(* a cached map and of one read (D60 leaves the read out: WithinLifetime   *)
(* of Permissions), and at once where requests do not overlap.             *)
RoleChangeReaches == desk = "permissions" => Prm!StaleBounded /\ Prm!SerialApplies

(* What the audit log says of a role's cell and of an asset is what        *)
(* happened to it, each entry starting where the one before ended.  A      *)
(* change request is applied once if it was approved, else never, and its  *)
(* entry says the value it asked for; the value before may be an older one *)
(* (staff-change-request.service.ts:91 reads it without a lock).           *)
AuditTellsAll ==
  /\ desk = "permissions" => Prm!AuditChain
  /\ desk = "assets" => Ast!TrailTells
  /\ desk = "profiles" => Prf!AppliedOnce

(* A person has one open change request for a field (ADR-STF-09).          *)
OnePending == desk = "profiles" => Prf!OnePending

(* Asset codes are given one after the other, once each and none skipped.  *)
CodesInOrder == desk = "assets" => Ast!CodesInOrder

(* Personnel records are kept from the day their person left (ADR-RES-02). *)
KeptFromLeaving == desk = "documents" => Hrd!KeptFromLeaving

(* Every PT session given is taken off and written down (ADR-MEM-03).      *)
EveryUseCounted == desk = "courses" => Crs!EveryUseCounted

(* A closed support request and a deleted post stay as they were, whatever *)
(* an answer or an edition under way meant to write (D56, D36).            *)
FinalKept ==
  [][/\ desk = "support" => Sup!ClosedStays
     /\ desk = "posts" => Pos!DeletedStays]_vars

(* Once a contract is terminated no asset, facility, head count, support   *)
(* request, document, course or post appears at its branch, even by a      *)
(* request that was let in before (D70, ADR-FAC-03, ADR-RES-01).           *)
NothingNewAtTerminated ==
  [][/\ desk = "assets" => Ast!NothingNew
     /\ desk = "facilities" => Fac!NothingNew
     /\ desk = "support" => Sup!NothingNew
     /\ desk = "documents" => Hrd!NothingNew
     /\ desk = "courses" => Crs!NothingNew
     /\ desk = "posts" => Pos!NothingNew]_vars
=============================================================================
