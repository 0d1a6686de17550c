# sports-erp: models and proofs

The repository is an ERP for a company that runs sports facilities in many
branches (지점): an API server (`src/apps/api`, NestJS, Prisma, PostgreSQL), a web
application for the staff (`src/apps/admin-web`), one for the members
(`src/apps/member-web`) and an edge worker in front of them.

Up to ten instances of the server run in parallel (Lambda) against one database
at READ COMMITTED, or one that serves requests at once (`main.ts`). So what is
hard about the server is the order in which the statements of overlapping
transactions take effect: which rows a transaction locks, what it read before it
locked them, what becomes of its writes when the instance dies, and what is
decided outside a transaction altogether. What is hard about the two web
applications is the order of answers: loads and writes that overtake one another,
caches filled by hand-written keys, a session restored while its token is being
exchanged. The models are about these.

## 1. The system and its parts

| Part | State | Operations | Meets | What is hard | What makes it correct |
|---|---|---|---|---|---|
| Reservations, mock payments | `Reservation`, `Payment` | create, mockPay, cancel, checkIn | slot, branch and reservation row locks; program status and contract, read while others write them | two bookings for the last seat; a payment and a cancellation of one reservation; a termination during a booking; a check-in that takes no lock | seats never oversold; reservation and payment agree; no refund out of time and none kept back after a decision in time; final states final |
| Programs, slots | `Program`, `ScheduleSlot` | create, update, updateStatus, createSlot | bookings, which read the status without a lock | two managers, each writing fields from the row it read; a pause during a booking | the transition table; price and capacity fit the pricing; the pausing manager is told of everyone affected |
| Branches | `Branch.contractStatus`, `ContractRound` | changeContractStatus, renewContract, correctContract | FOR UPDATE against the FOR SHARE of everything that adds something; ends dispatches | what started under the old status; a correction meant for a round that is no longer the last | nothing new appears at a terminated branch; rounds follow each other; a termination has its day and its agreement |
| Contract files | `ContractFile`, objects in the storage | requestUpload, setContractFile, archive, purge | branch lock, file row locks, the object storage, the retention of the round | objects are removed before the rows are committed; purges and archivings at once | no file is removed before it was archived; each removal is recorded once |
| Staff | `Staff`, `StaffAssignment`, `Account.isActive`, instructor link | hire, assign, resign, update | staff row lock, branch lock, member rows, two triggers, a unique index | a transfer or resignation while the branch is terminated, which does not lock the people | an open dispatch is where the person is; a resignation is final |
| Change requests | `StaffProfileChangeRequest` | create, cancel, approve, reject | the profile, which managers also write directly | one request decided twice | one pending request per field; a decision is carried out once |
| Members | `Member`, enrolments, PT packages | register, link, update, updateStatus, enrol, use a session | staff, branch, accounts | check and write with a transfer in between; two devices linking; the last session used at two tills | assigned staff of the same branch; one member per account; login follows status; every use counted |
| Attendance, leave | `AttendanceRecord`, `LeaveRequest`, `LeaveBalance` | checkIn, checkOut, confirmAbsences, correct, requestLeave, approve, reject | dispatch history, approved leave | absences computed first and stored later; two approvals | a check-in only changes by a correction; leaves do not overlap; the balance is charged once |
| Sessions | `RefreshToken`, `Account.password` | login, refresh, logout, changePassword | the member web client | every statement on its own: only the conditional update orders two refreshes | one usable token per login; a revoked token stays revoked |
| Request guards | nothing of their own | JwtStrategy, JwtAuthGuard, RolesGuard, BranchScopeGuard, PermissionGuard, the handlers' own checks | accounts, roles, branches, exceptions that headquarters changes meanwhile | the parts of the account, the row's owner and the permission are read at different moments | a decision rests on parts each of which was so while the request was under way |
| Permission matrix | `RolePermission`, `AccountPermission`, a cache in each environment | setRoleCell, setStaffCell, allows | the audit log | a cache filled by a read from before a change | a change reaches every environment within the cache's life and one read; the log tells what happened |
| Assets, facilities, support, documents, posts | one row each, code sequences, head counts, retention dates | create, update, change status, delete | the branch lock, the sequence row, a resignation | read first, write later; a file registered while its person resigns | codes in order; final states stay final; records kept from the day of leaving |
| Attachments | `PostAttachment`, objects in the storage | requestUpload, confirm, remove | the object storage | several confirms at once | the limit per post |
| Member web | `localStorage`, a tab's view, the page cache | restore, shared refresh, login, logout, loads | Sessions, the API | reloads, lost answers, late answers | no refresh refused needlessly; restoring ends; a reload shows nothing older |
| Admin web | the cache of server state | every query and every write of its pages | the API | the keys a write makes stale are listed by hand | once a page's writes are answered, its rows show them, save for the pairs listed |

Row locks (`prisma/integrity.ts`), indexes and triggers (`schema.prisma`,
`migrations/`) are part of the actions that meet them.

### Not modelled, and why

- **Presentation** of both applications: tables, help texts, labels, filters that
  only choose what is asked for, exports, validation of forms. It holds no state
  another part reads. Of the administrators' pages the queries, writes, forms and
  pagers are modelled; of the member's pages the loads.
- **Steps within one page of the member web** that only lead from one screen to
  the next; React Router carries what they hand over in `location.state`.
- **Work logs** (one row, written under an advisory lock), **updateRole**, **an
  instructor's fields**, **an asset's fields**: single writes of
  fields no rule relates to others. Roles that change are part of `Requests`.
- **createBranch**: its only conflict is a unique code; the new branch is the
  initial state of `Contracts`. The **limit on linking attempts** counts rows of
  `MemberLinkAttempt` before a link, which a failed attempt adds; no other rule
  reads them.
- **Inbox**, lists, summaries, `contract-retention` overviews: reads.
- **HTTP layer**, DTO validation, error filter, Lambda wiring: no state. That an
  environment behind `lambda.ts` serves one request at a time is used in
  `Permissions`.
- **Edge worker**: a stateless proxy. **Seeds, fixtures, demo data, types, tests,
  scripts, slide decks**: no behaviour of the system.
- **Deadlock of a transfer and an assignment** in their foreign key: PostgreSQL
  ends one of them, which is an `Abort`.

## 2. How the code is modelled

- **A handler is one request in flight** (`Handlers`), with a record `txn[h]` (in
  `Sessions`, `req[h]`) of the step it stands at and what it has read. One step
  is one SQL statement that reads or locks what others may write.
- **A transaction's writes appear with its commit**, in its last step. That is
  READ COMMITTED: others see none of them before, all of them after. Statements
  outside a transaction take effect one by one.
- **A row lock is held from the step that takes it to the end**, so the holder
  follows from the step (`LocksSlot`, `LocksStaff`, `SharesBranch`, ...). A
  statement that waits for a lock is a step that is not enabled. Writes that
  collide with an uncommitted write of the row wait too (`MovesDispatch`,
  `EndsDispatch`, `WritesMember` in `Staffing`), as does a foreign key whose row
  is locked (`MemberFk`, `RegisterFk`).
- **A check that fails** rolls back and frees the handler (`Refuse`, `End`).
- **`Abort(h)`, `Crash(h)`**: at any step the instance dies, the connection drops,
  the transaction times out, or PostgreSQL breaks a deadlock: nothing is kept of
  a transaction, and what single statements wrote stays.
- Time is a clock or a day that others advance; ids are members of small sets.
- Operators called `Wrong...` are versions with a plausible bug. They belong to no
  specification; they serve to show that a property notices.

| Module | Models | Correspondence |
|---|---|---|
| `Booking` | `reservation.service.ts`, `payment.service.ts`, updateStatus of `program.service.ts`, changeContractStatus | `Create*`: lockScheduleSlot, unlocked reads, lockBranchForShare, checks, insert; `Pay*`, `Cancel*`: lockReservation, read, conditional write; a cancellation reads the clock in `CancelUpdate` (`cancelledAt`) and again in `CancelCommit` (the refund); `CheckIn*`, `Status*`: read, then one conditional UPDATE |
| `SeatLedger` | what Booking promises | one atomic entry per change of a reservation, no handlers |
| `Programs` | `program.service.ts`, `programs.controller.ts` | one program; every write is one statement after an unlocked read. A booking keeps its read and its insert |
| `Staffing` | `staff.service.ts`, `terminated-branch-assignments.ts`, create and update of `member.service.ts`, the branch triggers | `Hire*`, `Assign*`, `Resign*`, `End*` (a termination), `Member*`, `Register*` |
| `DispatchRoster` | what Staffing promises | hire, transfer, resign, terminate, each at once |
| `StaffProfiles` | `staff-change-request.service.ts`, update of `staff.service.ts` | one person, one field; requests, decisions and direct writes |
| `Contracts` | `branch.service.ts`, `contract-file.service.ts`, `contract-retention.ts` | one branch: `Renew`, `Correct`, `SetFile`, `ChangeStatus` up to the branch lock, `...Write` to the commit; `ScreenLock` for requests that name a round; `Purge*`: lock and judge the rows, remove the objects, commit |
| `BranchGate` | lockBranchForShare, lockContract | what the next five extend: a request is let in under the share lock; the contract changes under the exclusive one |
| `Assets`, `Facilities`, `SupportRequests`, `HrDocuments`, `Courses`, `Posts` | the service of that name (`document.service.ts`, enrolments and PT sessions of `member.service.ts`, `post.service.ts`) | one branch each (`Posts` headquarters too): let in, write; read, conditional write |
| `Attendance`, `Leave` | `attendance.service.ts`; for `Attendance` also the dispatches `assign` and a termination write | one person each: no statement relates two people. `CheckIn*`, `Confirm*`, `Correct*`: one step for each read; `Move`, `Recall`: the day is read before the locks, and the dispatches change at the commit; `Midnight` between any two steps, but not two midnights within one busy stretch: requests take seconds. LATE and EARLY_LEAVE count as NORMAL |
| `MemberAccount` | register, link, updateStatus of `member.service.ts` | read, then a transaction |
| `Attachments` | `post-attachment.service.ts` | one post |
| `Permissions` | `permission.service.ts`, `permission-admin.service.ts` | one cell of the matrix, one person, environments with a cache each; a cached map is known by how many changes it has seen |
| `Requests` | the guards, `scope-owners.ts`, `permission-catalog.ts`, the routes all controllers declare | one person, one route, one row the route names: `ReadAccount`, `ReadProfile`, `ReadExceptions` (the SELECTs of one `include`), `ReadOwner`, `ReadPermission`, `Handle`, while `Transfer`, `SwitchRole`, `Deactivate`, ... go on |
| `Sessions` | `auth.service.ts` | `Refresh`, `RefreshAccount`, `RefreshRevoke`, `Purge`, `Create`: the five statements of a refresh |
| `KeyRing` | what Sessions promises | a session has one key, which changes hands |
| `MemberWeb` | `member-web/src/lib/api.ts`, `auth-context.tsx` | a browser on top of `Sessions`: `Open`, `Retry` (the shared refresh), `Answered`, `Lost`; `Greeted`, `Denied`, `Unheard`: the load of the user that ends a restoration; `SignOut`, ... |
| `PageLoads` | `use-load.ts`, the cache in `auth-context.tsx` and `MobileLayout.tsx` | the loads of one address: a screen is rendered and its effect runs later; reload, pull down, leave, sign in and out |
| `AdminQueries` | the pages and components of `admin-web` | a table of every page's queries (key, facts shown) and writes (facts changed, keys invalidated or filled); fetches, focus, forms and retries around one query |
| `Office` | `Programs`, `StaffProfiles`, `Contracts`, the six behind the gate, `Attendance`, `Leave`, `MemberAccount`, `Attachments`, `Permissions` | a desk for each; their properties |
| `Clients` | `Sessions`, `MemberWeb`, `PageLoads`, `AdminQueries`, `Requests` | the same |
| `BookingProofs`, `StaffingProofs` | | theorems and proofs of that module |
| `PeopleProofs`, `GateProofs`, `OfficeProofs` | | of `Office`: leave, attendance, accounts, attachments, profiles; what is behind the branch gate; programs, permissions, contracts, and the properties of several desks |
| `SessionsProofs`, `RequestsProofs`, `ClientsProofs` | | of `Sessions` and `MemberWeb`; of `Requests`; of `Clients` |
| `MCBooking`, `MCStaffing`, `MCSessions`, `MCOffice`, `MCClients` | | values of the constants for TLC |

`Office` puts fourteen components side by side, and `Clients` five. They share
no rows, so a product of their state spaces would say nothing; the variable `desk`
picks one of them in the initial state, and the variables `x1`, ... `x8` (`y1`, ...
`y9`) stand for those of the component at work. The constants of all of them are
those of `Office` and of `Clients`, with what the proofs assume of them
(`OfficeAssumption`, `ClientsAssumption`); `MCOffice` and `MCClients` only give them
values. Where two components meet, they
meet in one module: bookings with programs and contracts in `Booking` and
`Programs`, dispatches with contracts, members and instructors in `Staffing`,
resignations with records in `HrDocuments`, the browser with the server of its
sessions in `MemberWeb`, which extends `Sessions`.

`Sessions` keeps with each token two things that are no column: the login it
descends from and the password that login was made with. They record history for
the properties, as do `reported` in `Staffing`, `confirmed` in `Attendance`,
`report` in `Programs` (what a response said), `known` in `Requests` and `due` in
`AdminQueries`; no action reads them to decide.

## 3. What each run checks

| Run | Instance | Shows |
|---|---|---|
| `booking_seats` | 2 requests, 2 members, 1 paid seat, 3 reservation ids, clock to the start hour, a contract that is terminated, all program statuses | `Capacities`, `PaymentAgrees`, `NoBookingAtTerminated`; `ProgramLifecycle` when two managers race; the refinement `LedgerSpec` |
| `booking_clock` | 2 seats, clock past the deadline | `RefundRule` at and around the boundary, also when the deadline passes between the cancellation's two readings of the clock; every request ends (`RequestsEnd`) |
| `staffing_dispatch` | 2 people, 2 branches, contracts ended and restored, a member registered and assigned meanwhile | `OpenAtHome`, `ResignedIsGone`, `NoOpenAtTerminated`, `NoRegistrationAtTerminated`, `EndedAreReported`; the refinement `RosterSpec` |
| `office` | `MCOffice`: 14 components, 2 requests in each | see below |
| `clients` | `MCClients`: sessions, browser, loads, pages, guards | see below |

| Desk of `office` | Shows |
|---|---|
| attendance | `ConfirmedOnce`: two managers are never both told that they confirmed one day, and a day belongs to the branch of the one who did (the day of a transfer to either); `CheckInStays`: only a correction takes a check-in away |
| leave | `NoOverlap`: granted leaves share no day; `UsedAgrees`: the balance is charged one day for each day of annual leave |
| accounts | `NoOrphanAccounts`: every login belongs to a member; `LoginFollowsStatus` |
| attachments | `FilesWithin`: several confirms at once stay within the limit |
| contracts | `ContractDates`: rounds follow each other, a termination has its day; `ArchivedThenPurged`; `OnlyTheScreen`: a correction changes only the round the screen showed |
| programs | `PricingAgrees`: what is paid, for how much and for how many fits together in every row, for all three kinds of pricing |
| permissions | `RoleChangeReaches`: a change is in force within the cache's life and the time of one read; at once where requests do not overlap |
| profiles | `OnePending`: one open request per person and field |
| assets | `CodesInOrder`: codes without gaps or repetition although creations abort |
| permissions, assets, profiles | `AuditTellsAll`: the log tells what happened; of a role's cell and an asset each entry starts where the one before ended; a change request is applied once with its own value, or not at all |
| documents | `KeptFromLeaving`: a record registered while its person resigns is kept from that day |
| courses | `EveryUseCounted`: sessions used add up to the package |
| support, posts | `FinalKept`: a closed request and a deleted post stay as they are |
| assets, facilities, support, documents, courses, posts | `NothingNewAtTerminated`: nothing appears at a terminated branch |
| all of them | `OfficeTypeOK` |

| Desk of `clients` | Shows |
|---|---|
| server (`Sessions`) | `RevokedStays`: no refresh, sign-out or crash revives a token; `SessionsAreKeyRings`: the refinement to `KeyRing` |
| browser (`MemberWeb`) | `NoNeedlessRefusal`: no refresh is refused because of another by the same tab; `RestoreSafe`: a tab that waits for a refresh has one under way, and one that got no answer as it restored keeps its token, unless another tab was opened since or the load of its user came back 401 |
| loads (`PageLoads`) | `ReloadIsNew`: what a reload shows is not older than the reload, and what the screen waits for is on its way |
| admin (`AdminQueries`) | `ShownAfterWrite`: once the writes of a page are answered and its fetches are done, no row shows what was before them, save for the pairs named in `Forgotten` and `Overtaken` and for writes answered during a key's first fetch |
| requests (`Requests`) | `DecidedAsKnown`: whatever a handler does for a sender was allowed by a role, a branch, exceptions and a row each of which was so while the request was under way, if not at one moment |

Seven runs end in a violation, and are expected to: the code does something else
than its comments or documents say.

| Run | Violated | How |
|---|---|---|
| `booking_sold_twice` | `NoSeatSoldTwice` | Check-in is possible all day, and COMPLETED does not count as a taken seat. Book, pay and check in before the slot starts; the one seat is then sold to someone else. |
| `staffing_other_branch` | `AssignedSameBranch` | A member is assigned to a person whose transfer is under way. The check, the trigger and the transfer's list of members each see the state before the other's commit. |
| `sessions_old_password` | `ChangeEndsSessions` | A password change revokes the tokens there are. A login or refresh in flight stores one more afterwards, which goes on working. |
| `office_withdrawn` | `WithdrawnCannotLogIn` | `updateStatus` reads the account before its transaction. A link that commits in between leaves a withdrawn member with an open login. |
| `programs_left_out` | `NobodyLeftOut` | A pause answers with the reservations it affects. A booking that read RUNNING before inserts after that list was read. |
| `permissions_at_once` | `AppliedAtOnce` | A fill reads the matrix, a change commits and empties the cache, the fill stores its map: the environment that made the change judges by the old map until it expires. It takes overlapping requests in one environment (`main.ts`); behind `lambda.ts` it does not happen. |
| `permissions_late` | `WithinLifetime` | A fill reads the matrix, a change commits, the answer takes its time and the map is stamped when it arrives: it is used for the full 30 seconds from then, longer after the change than D60 says. |

### Bounds, and why they are enough

- **Two handlers.** Every property is about what two requests do to each other
  (and to rows, whose number is bounded separately); a third would have to matter
  to a conflict between two that hold, between them, all locks there are. The
  theorems of section 5 remove this bound and all others, for every property of
  these runs but `RequestsEnd`.
- **Seats, members, ids.** One seat for two members is the smallest full slot;
  three ids allow booking, cancelling and booking again. Two seats in
  `booking_clock` let one member try to hold both.
- **Clock.** Slots start at hour 2 or 3 with a deadline of 2 hours, so the
  clock is once before, at and after the deadline, and at the start.
  `DayHours` = 3 puts hour 3 on the next day, for check-in.
- **Two people, two branches.** One to stay, one to move, from and to a branch
  that may be terminated. One member suffices to be left behind.
- **Three tokens**: one presented twice and two answers. **One password change.**
- **One tab, two opens, one loss**: a reload with an answer still to come. With
  two tabs, the one whose refresh is refused clears what the other stored; the
  code says nothing else (section 6).
- **Leave** on days 1 to 3: two annual leaves that overlap in a day, and sick leave
  inside both; three requests; the year turns once. **Attendance**: two days and the
  one before, one transfer or termination. **Accounts**: two members, one of them registered at the desk,
  two accounts, two emails. **Attachments**: three paths and a limit of two (five in
  the code).
- **Contracts**: a branch registered for day 1 and renewed once, for day 2, and
  corrections that move a start back or a whole period forward: the least that
  can put two rounds out of order. Three files: a contract, its replacement
  or the next round's, an agreement. Retention ends on day 2 at the
  earliest and the clock goes to day 3, so that a purge comes before, at and after it.
- **Programs**: one member, one slot, prices and capacities 0 and 1: enough for a
  free program, a paid one, a seat and none.
- **Permissions**: one environment that serves requests one by one and one that
  overlaps them; two changes; entries live for two ticks and a read of the table
  may take one, and the clock goes to 3, past the life of the first entry
  (`permissions_late`: a read of two ticks, a clock to 4, one change).
- **StaffProfiles**: two requests about one field with two names: one to be
  decided, one to be opened meanwhile. **Assets**: two ids, two moves. **Facilities**: sizes 2 and
  3, counts 0 and 3, so that a new size makes a count too large. **Support**:
  one request with two who handle it. **HrDocuments**: two documents, three days,
  before, at and after the day of leaving. **Courses**: packages of one and two
  sessions. **Posts**: one post, two editions, two views.
- **PageLoads**: one address, two loads, two users, one change of what the
  server holds, two reloads; entries live for two ticks.
- **AdminQueries**: one query and two writes (`MaxWrites`), for every pair of the
  table. The filter is changed only
  between two fetches; so is the page, by the code itself.
- **Requests**: one sender, one route, one row, two branches. `MaxMoves` = 2 lets
  both the sender and the row move, once each, between any two reads. A person
  whose password is temporary has no exceptions in the initial state.
- `ProgramAsks`, `ContractAsks` are what managers ask for in a run; between
  them the runs use every status.

Symmetry is over handlers, row ids, tokens and branches, which the
specifications treat alike, and is not used where a liveness property is
checked. Deadlock is not checked in runs whose bounds end a behaviour (no id
left, clock at its end, requests refused); `RequestsEnd` says that no
request is stuck.

### Fairness

Only `booking_clock` assumes any: `FairSpec` gives each handler strong fairness of
`Proceed(h)`. PostgreSQL queues those who wait for a row lock, and holders are
bounded by the transaction timeout, so a step that is enabled again and again is
taken. Nothing is assumed of arrivals, the clock or crashes. `RequestsEnd`
then shows that the lock orders (slot before branch; reservation alone; branch
alone) close no circle.

## 4. Hazards

`PROJECT.json` lists 40 of them, each with its line and the properties that
would catch it. Three have none: a member released by a termination who was
assigned just before (no document promises anything of it), the deadlock of
a transfer and an assignment in their foreign key (PostgreSQL ends one, which is
an `Abort`), and the payments that a cancellation leaves on the screen (named in
`Forgotten`; section 6). Two more are known and not listed: two tabs that share a stored
token (`member-web/src/lib/api.ts:89`), and an attachment's row that is deleted
before its object (`post-attachment.service.ts:92`).

## 5. What is proved, and what is only model-checked

Every property of the five passing runs is a theorem too, except `RequestsEnd`: the
run shows it on a small instance, the theorem for any number of requests, rows,
people, branches, tabs, prices and days. The theorems assume of the constants
what the named assumptions say and no more: `BookingAssumption`,
`StaffingAssumption`, `OfficeAssumption`, `ClientsAssumption`, `MemberWebAssumption`
(and, in `RequestsProofs`, `NoneApart`). They say that bounds are numbers, that `None`
is none of the things it stands beside, and that what is asked for passes the
validation of its DTO; TLC evaluates them in every run.

| Module | Theorems |
|---|---|
| `BookingProofs` | `Invariance`, `TypeCorrect`, `NeverOversold`, `NeverTwice`, `BooksBalance`, `RefundedInTime`; `GateHolds`, `FinalIsFinal`, `MoneyMovesOneWay`, `ProgramsMoveOn` (action properties); `ImplementsLedger`: `Spec => LedgerSpec` |
| `StaffingProofs` | `Invariance`, `TypeCorrect`, `DispatchedAtHome`, `ResignedGone`, `TerminatedIsEmpty`, `ProfileAtHome`; `ResignationIsFinal`, `RegistrationGate`, `TerminationReports` (action properties); `ImplementsRoster`: `Spec => RosterSpec` |
| `PeopleProofs` | `AbsencesConfirmedOnce`, `CheckInsStay`, `LeavesApart`, `LeaveCharged`, `AccountsOwned`, `LoginsFollow`, `FilesCounted`, `OneOpenRequest` |
| `GateProofs` | `AssetCodesInOrder`, `RecordsKept`, `UsesCounted`, `FinalStays`, `TerminatedStaysEmpty` |
| `OfficeProofs` | `PricingFits`, `RoleChangesArrive`, `ContractsDated`, `PurgesFollowArchives`, `ScreensAreMeant`, `AuditsTell`, `OfficeTyped` |
| `SessionsProofs` | `OneKeyASession`, `SessionsAreRings`: `Spec => KeyRingSpec`, `RevokedForGood`; `BrowserIsAClient`: `WebSpec => Spec`, `RestoringIsSafe`, `RefusalsNeeded` |
| `RequestsProofs` | `Invariance`, `DecidedForWhatWas` |
| `ClientsProofs` | `ClientsAreRings`, `RevokedUnderClients`, `ReloadsAreNew`, `RowsAfterWrites`, `DecidedAtTheDesk` |

### The argument

Hardly any of the properties is inductive: a request that has checked for a free
seat inserts without looking again. What carries the induction is, nearly
everywhere, the same three things:

1. *what a request refers to is there*: rows that exist, or one that is its own and
   still unused;
2. *locks exclude each other*: of two transactions only one is between the step
   that takes a lock and its commit;
3. *what was read under a lock still holds when it is written*. This needs 2:
   whoever could make it false is waiting for the lock.

Where the code takes no lock, 3 is replaced by the condition its single
statement repeats (a conditional update, a unique index, a sequence row), or by
what can be said of something stale: that it was so once.

**Booking, Staffing.** `RequestsPlaced`, `RowsPlaced`, `StrangersIdle`; `LocksExclude`;
`ReadsHold`. In `Staffing` the last one covers the list of dispatches a termination
reads without locking the people: nobody can be added to it, because hires and
transfers hold the branch's share lock, and whoever leaves it meanwhile does no
harm. The proofs describe steps by their effect (at most one reservation
changes, in one of four ways; at most one handler moves, by beginning, advancing
or ending) and then show each conjunct from those effects. The refinements follow
from the invariant: in a reachable state every commit satisfies the guard of one
entry of the ledger. `RefundedInTime` rests on the payment that a
cancellation read being the same when it commits, and on `cancelledAt` being no
later than the clock that decides.

**Office.** The desk never changes, so each invariant has the form `desk = d => Inv`,
and only the handlers of `d` need a look.

- `LeaveInv`: whoever approves has the person's lock, and no approved leave shares a
  day with the one at hand (`Approving`), which gives `NoOverlap`. `Charged` then follows:
  the days just approved are none of those charged before, so the number of days
  of approved annual leave grows by the length of the request.
- `FilesInv`: who inserts a file holds the post (`Inserting`). `ProfilesInv`: who decides a request holds it
  while it is pending (`ProfileLocks`), one is pending, and the log has one entry for
  each that was approved. `AccountsInv`: `Paired`, one member for an
  account and one account for a member. `AttendanceInv`: what a confirmation
  computed was the branch's as far as it can look, that is to yesterday, and to today
  until midnight (`InSight`); transfers and terminations begin and end dispatches
  today, or yesterday once midnight has passed (`AskOK`), so that they take no day but
  their own to another branch (`WasAt`); a day that was confirmed has a record, which
  keeps it from being inserted again. It rests on `Midnight`: requests take seconds, so
  between two midnights there is a moment with none about the person under way.
- `Gated`: a request let in shares the branch, so no termination commits before it
  does. On top of it, `AssetInv`: a code drawn is the last one and its drawer holds the
  sequence row (`CodeDrawn`); `CourseInv`, `DocInv`, `SupportInv`, `PostInv`, `FacilityInv`:
  what the conditional writes of these rows keep.
- `ProgramInv`: the triple of price, capacity and pricing that a request is about to
  write fits together by itself, whatever became of the row it was read from.
- `PermissionInv`: a version of the log that a fill has read was the newest at the time
  of its read (`NewestAt`), which was not longer ago than a read may take
  (`TxnFresh`, `CacheFresh`), and in an environment that serves one request at a time
  it has seen every change applied there. `StaleBounded` and `SerialApplies` follow.
- `ContractInv`: what the writer of the branch was let through for still holds when it
  writes (`MayWrite`); files under a purge have rows that no other purge holds
  (`HasFiles`, `ContractLocks`), and the entries of a file say what its row says
  (`FileTold`).

**Sessions and the browser.** `SessInv` adds to `OneKey` that rows handed out name a
session that was handed out (`RowsKept`) and that requests refer to such rows
(`RequestsKept`). `OneKey` counts a key on its way like one that is stored, which is
what makes it inductive between the revocation of a token and the insertion of the
next. The browser is a client of the server: every step of `WebNext` is one
of `Next` or leaves the server alone, so its proofs add only what the tabs
hold (`ClientKept`: a page that restores, and waits for a refresh or for the load of its
user, has a token, or another tab was opened, or that load came back 401, without
which no second refresh is sent). For `NoNeedlessRefusal` the invariant (`Serial`) is that of a single page: one
refresh at a time, none while a login is awaited, and every token that is
presented, brought or stored is the last of its session, or being exchanged
(`PresentsAt`, `BringsAt`, `StoresAt`).

**Requests.** `DecidedAsKnown` is not inductive, since a guard only looks at its own
part and the row may have moved when the handler runs. `DecisionInv` adds what of the
account a request has read and that each part was so since it came (`Began`,
`AsRead`), what it has passed so far, and for which of the rows it has met
(`Passed`), and the shapes of rows (`RowOK`). `RefsOK` and `ControllersOK` go
through the table of routes: guards that compare branches meet no posts, and those for posts nothing else.
`AdmitsAgrees` then says that the guards and handlers of a route, read together for
one account and one row, admit what the permission document admits.
`DecidedAtTheDesk` carries the theorem over to the run.

**Pages.** `PageKept`: a load that is still wanted belongs to the page's own nonce and
was sent after the user asked. `AdminKept`: unless a write of `Forgotten` or `Overtaken`
was sent, rows at rest and answers under way are as new as the last answered write
that changed them (one answered during the key's first fetch does not count). That
every write invalidates or fills the queries it changes, `Covers`, is shown page by
page from the table (`PagesCovered`).

### Only model-checked

- `RequestsEnd`: liveness under fairness and `ENABLED` are out of the prover's reach.
- The counterexamples of the seven runs that end in a violation.

Two statements were given the form they have so that they can be proved: `UsedAgrees`
counts the days of approved leave instead of adding up lengths by recursion (what
a recursive definition computes for every input is out of the prover's reach),
and says more, since a day in two approved leaves counts once; and
`OfflineKeepsToken` says of several tabs what was only meant for one. With one tab it
says that a page that is offline has its token, unless the load of its user came
back 401 as it restored.

Proved beyond the runs: `BookingInv`, `StaffingInv` and the other inductive
invariants, `NeverTwice`, `FinalIsFinal`, `MoneyMovesOneWay`, `ResignationIsFinal`,
`ProfileAtHome`, `OneKeyASession`, `SessionsAreRings`, `BrowserIsAClient`. The payments of
free seats are covered by `BooksBalance`, which holds for paid and free programs
alike.

## 6. Remarks met on the way

Not listed as findings, but worth knowing.

Server:

- A cancellation takes `cancelledAt` before it decides on the refund
  (`reservation.service.ts:167`, `:185`). When the deadline passes in between, the
  row says that it was cancelled in time and the money is kept, against
  예약및결제.md:377 ("시작 24시간 전 취소는 전액 환불", a cancellation in time is refunded in
  full). `RefundRule` therefore says: a refunded reservation was cancelled in
  time, and one whose payment stays approved is past its deadline by now.
- An approval of a change request reads the value before without a lock
  (`staff-change-request.service.ts:91`). A manager's direct write or another
  approval in between makes the `before` of its audit entry stale; `AuditTellsAll`
  leaves it out for change requests.
- A transfer and a termination read the day before they wait for their locks
  (`staff.service.ts:234`, `branch.service.ts:56`). Across midnight a dispatch begins
  or ends on the day before; so does an absence list read before midnight. Only
  the day of the transfer itself can come to either branch (`ConfirmedOnce`), and
  the table's check (`StaffAssignment_period_ck`) refuses a transfer whose day is
  before the start of the dispatch it would end.
- mockPay confirms a reservation whatever its status. It is harmless because a
  cancellation always closes a pending payment (`PaymentAgrees`).
- Annual leave is taken off the balance of the year it is approved in, not of
  the year it begins in; `UsedAgrees` therefore adds up both years.
- Someone who has resigned can be assigned to members again: `assertStaffInBranch`
  compares branches only, and a resignation keeps the branch. The check D6 of
  `data-integrity.md` counts such rows; two requests one after the other suffice,
  which a plain test shows.
- A purge judges retention by the round as it is at that moment. A correction of
  the round, or a termination taken back, may come before it commits; the
  outcome is that of the purge coming first.
- A correction reads the day's record in a second statement, after it tried to
  lock it: a record that appears in between is updated without a lock.
- Two managers who change a program each write price, capacity and pricing as a
  whole: the triple always fits together (`PricingAgrees`), and one change is lost.
- A new program is deliberately not held up by the branch's contract
  (강사프로그램게시.md:174); its bookings are.
- The stored `level` of a facility may be older than its count; answers compute
  it again.
- `setStaffCell` and `updateRole` (`staff.service.ts:300`) write into the log a
  value from before, which they read without a lock. Two administrators at once
  make it stale; of personal exceptions `AuditTellsAll` only says that the last
  entry holds.
- `PostService.viewDetail` finds the post and counts the view in a statement of
  its own; a post deleted in between is shown once more and counted (`ViewWrite`).
- The account of a request is read by several statements, since `include` is not
  one join: a branch administrator who is made staff and then transferred may,
  in one request, be judged as an administrator of the new branch.
- A request whose sender and row change branches between two reads is handled
  although at no one moment they were in the same branch; and a manager whose
  transfer commits between guard and handler still finishes at the old branch.
  `DecidedAsKnown` says what holds instead.
- Exceptions stay when a role changes; `allows` passes over those outside the
  ceiling of the new role. The routes that change or delete a post name no
  role: its author may go on doing so after a change of role.

Web:

- An answer to a refresh that arrives after a sign-out is stored all the same,
  and a load in flight then fills the page cache again (`auth-context.tsx:94`).
- With two tabs, the one whose refresh is refused clears the token the other has
  just stored.
- `use-load.ts:52`: between a change of address and its effect one render shows
  the rows of the address before.
- The refresh button of `CongestionCard` stays disabled after an error.
- Forms for changes send all fields as they were when the form was opened: of two
  administrators' changes one is lost. Forms for creation sent again after a
  lost answer create a second row. An answer that is late closes the form that
  was opened after it.
- The comment at `ReservationsPage.tsx:203` says that the payments are refreshed by
  their prefix; the cancel button (`:44`) invalidates reservations and slots only.
- `Forgotten` in `AdminQueries` names the rows a write leaves as they were until
  the window has the focus again: payments after a cancellation, slots after a
  check-in, absences after a review of leave, personnel records after a
  resignation, rounds after a change of contract. `Overtaken` names the rows that
  a fetch started before the write may fill in after it: the two permission
  tables, and a post with its files.
- A key left while its fetch is under way and returned to may show the older
  answer; `Turn` leaves this out.
- An invalidation does not cancel the first fetch of a key (TanStack Query 5
  cancels only when the key has data): rows read before a write that was answered
  meanwhile are shown until the next fetch. `AdminQueries` has it (`Invalidated`), and
  `ShownAfterWrite` does not count such a write. After a filter or page is chosen
  (`Turn`, `keepPreviousData`) it takes one more click while the rows load.
- A restoration whose second refresh gets no answer (after the load of the user
  came back 401) has its token cleared by the retry (`api.ts:89`) and is then shown as
  offline; "try again" finds no token. So does a restoration answered with a 5xx: it
  clears the token (`auth-context.tsx:60`), although the comment above it speaks only
  of a refusal by the server (`:52-53`). `RestoreSafe` excludes the first; the second
  is part of `Lost` and `Unheard`.
- `AbsenceConfirmSection` does not fetch its preview again after a review of leave.

## 7. Plan

Done, in this order: Booking and its proofs; Staffing and its proofs; Sessions
and KeyRing; MemberWeb; Attendance, Leave, MemberAccount, Attachments;
Contracts; Programs; Permissions; StaffProfiles; BranchGate and the five
components behind it; HrDocuments; Posts; PageLoads; AdminQueries; Requests.

Left to model: work logs, the fields of assets and instructors, the walk
through the screens of the member web.

Theorems worth proving next: abstract specifications for the components of
`Office` whose promise is more than an invariant (a cache of the permission
matrix that lags by a bounded time; a package of sessions as a counter), and
their refinement; what the guards of all routes admit, compared with the
permission document cell by cell.
