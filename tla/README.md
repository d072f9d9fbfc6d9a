# Formal model of cinema-vagtplan

cinema-vagtplan is the roster, absence, time-registration and payroll system of
a chain of cinemas: a NestJS backend over PostgreSQL (Prisma), a Next.js
frontend, three scheduled jobs. Many requests run at once over one database,
and the rules the business relies on (nobody works two shifts at once, a traded
shift has one taker, an absence keeps its employee off the roster) are kept
mostly by a handful of PostgreSQL advisory locks, each handler choosing its own,
in a few places by serializable transactions, hardly ever by unique indexes. That is what this
project models: the handlers as sequences of steps, the locks, what is read and
when, and what is written at commit.

## 1. Inventory

Paths are relative to `src/backend/src` unless they start with `src/`.

| Component | State it keeps | Operations | Interacts with | Hard behaviour | What makes it correct |
|---|---|---|---|---|---|
| Shifts (`shifts`) | `Shift` rows: assignee, cinema, period | create, update, delete; month removal and replacement | closes trades and staffing requests of a shift it reassigns, moves or deletes; is frozen by a time entry | conflict check and write under a user lock (56001); record lock (56002) then user locks in id order | no double booking, no deadlock, no offer outlives its shift |
| Shift trades (`shift-trades`) | `ShiftTrade`, `ShiftTradeDecline` | offer, accept, decline (pool / direct), withdraw | reassigns the shift | offer under 53001, accept and decline under 56002, withdrawal under none | one open offer per shift; one taker; decliner and taker differ; closed stays closed |
| Staffing requests (`staffing-requests`) | `StaffingRequest`, `StaffingRequestDecline` | create (shift and request in two writes), accept, decline, reject, cancel; AI batch | assigns an unassigned shift, cancels its sibling requests | acceptance is a conditional update under 56002; the others take no lock | one winner, who gets the shift; closed stays closed; decliner and winner differ |
| Leave requests (`leave-requests`) | `LeaveRequest` | create, approve, reject, cancel; hourly expiry | reads shifts on approval; is read by every assignment | creation and status change under 54001 / 54002, expiry without | no overlapping absences; settled stays settled; no shift during approved leave |
| Time entries (`time-entries`) | `TimeEntry` | clock in and out, manual entry, edit, approve, unapprove, send back, void; nightly auto-fill | reads and freezes shifts; belongs to a payroll period | period lock keyed by cinema and period start; clock-out without it | entry and shift belong to one employee; a locked period's entries stay as they were |
| Payroll periods (`payroll`) | `PayrollPeriod`, calculation runs, `PayrollAdjustment` | lock, reopen, export; adjustments | freezes time entries; every entry mutation reads its period | locking takes the period lock, reopening and exporting take none | a locked period's run pays its approved minutes; an exported period stays exported; every entry it paid stays balanced by adjustments |
| Payroll configuration (`payroll/payroll-versioning.service.ts`) | versions with half-open validity of the payroll mode, of each member's rate and of each pay rule; `PayRule` | insert a version, cancel one, deactivate a rule, create, copy and archive rules | recalculates closed periods and writes money adjustments for them, which later locks include | one advisory lock for each mode, rate and rule; closed periods are looked up before the transaction | versions form a chain; nothing that has applied is taken back; closed periods plus adjustments follow the configuration, and each entry is paid it once |
| Planning drafts (`shift-planning-drafts`, `shifts/helpers/shift-planning-*`) | the shared month plan, drafts with items and a day snapshot, wish rounds and wishes | prepare, save, create, copy, open, update, delete a draft; open and close a round, enable an item, wish, withdraw, assign; publish, replace and remove | writes shifts in bulk, closes their trades and staffing requests | serializable publication and replacement beside read-committed removal, clocking, offering and draft editing; status checks before transactions that write by id | no slot becomes two shifts; nobody is planned twice at once; worked shifts stay; published items and items under a wish round stay; wishes decide who is assigned |
| Staffing AI (`staffing-ai`) | suggestions | five-minute monitor, generation | inserts shifts and requests | no transaction around a batch | no shift twice for one need |
| Users and memberships (`users`, the default cinema of `auth`) | `User`: role, `isActive`, `defaultCinemaId`; `UserCinemaMembership` | create an account or link it to a cinema; end, begin, replace and manage memberships; choose a default; block; edit; log in | memberships are read by every guard | link under the lock of the directory, the rest under the lock of the account; login reads without any | the default follows the memberships; a MASTER has none; who is blocked keeps the default |
| Modules of a cinema (`cinema-modules`) | `CinemaModuleSetting` rows, which may be missing; the catalogue and its dependencies are code | update several switches, list (creates missing rows), ask whether a module is enabled | the guard of every route of a module asks | updates take a lock, lists and questions none; the guard reads one row after the other | updates are granted whole or turned down; whoever is let in asked for a module that was enabled |
| Messages (`messages`, `src/frontend/app/hooks/useMessages.ts`) | `Message`, `MessageRecipient`; the scrolled inbox in the browser | write, broadcast, answer, read, delete, restore, recall; load and scroll the inbox | triggers on memberships and accounts keep the receipts | reads before writes without locks; a cursor over rows that move; retention by the clock | answers stay in the conversation; receipts count members; a deletion is its recipient's own; what is gone stays gone; scrolling skips nothing |
| Cinemas, job functions, templates, notifications, documents, audit | master data and side records | CRUD, fan-out | read by the guards above | mostly single writes | out of the core, see section 6 |
| Frontend, deploy, scripts | none shared | UI, operations | send the requests | | out of scope |

Scheduled jobs: leave expiry (hourly), time-entry auto-fill (nightly), staffing
monitor (five minutes). They run in the same process as the handlers and
interleave with them.

`PROJECT.json` lists every component with its status and, under `hazards`, each
point of this code where something can go wrong that a test would hardly reach.

## 2. Plan

1. **Shift assignment** (done): `ShiftStore` and one module per component that
   decides who works which shift: `Shifts`, `ShiftTrades`, `StaffingRequests`,
   `LeaveRequests`, `ClockIns`; composed in `ShiftAssignment`; abstract
   specification `TradeLedger`.
2. **Payroll** (done): minutes in `PayrollStore`, `PayrollPeriods` and
   `TimeEntries`, composed in `Payroll`; money in `PayrollVersions` and
   `PayrollConfiguration`. Left: special days, the nightly auto-fill, and an
   abstract book of settled minutes per entry which the composition implements
   where `PaidEntriesBalance` holds.
3. **Planning** (done): `PlanningStore`, `PlanningDrafts`, `PlanningWishes`,
   `PlannedShifts`, composed in `ShiftPlanning`.
4. **Staffing AI and the AI staffing flow**: batches without transactions.
5. **What surrounds them** (done): `Accounts`, `CinemaModules` with the abstract
   specification `ModuleSwitches`, `Messages`. Sessions and permissions are left.
6. **Pure algorithms**: the calculation of a period from a date, the weekly
   templates, checked against reference definitions.
7. **Proofs**. Done: type correctness of every store; trades, staffing requests,
   absences, frozen periods, the chains of versions, accounts, modules, messages
   and the plan; the properties of the shift assignment, of planning and of
   payroll that some race breaks, for all requests but those (section 5). So
   each property of a passing run is a theorem, but for liveness.

## 3. How the model corresponds to the code

There are seven stores. The handlers of shifts, trades, staffing and absence meet
in `ShiftStore`, those of time entries and payroll in `PayrollStore`, those of
the month plan, its drafts and the shifts made of them in `PlanningStore`, those
of the payroll configuration in `PayrollVersions`, those of accounts and
memberships in `Accounts`, those of module switches in `CinemaModules` and those
of messages in `Messages`. Where a handler touches
two of them each store models what it means there: clocking in freezes the shift
in `ClockIns` and `PlannedShifts` and belongs to a period in `TimeEntries`;
locking a period fixes minutes in `PayrollPeriods` and money in
`PayrollConfiguration`.

**Tables.** `ShiftStore` holds the columns of `Shift`, `ShiftTrade`,
`StaffingRequest`, `LeaveRequest` and `TimeEntry` that the handlers' guards and
writes distinguish. A row is "unused" until an INSERT takes it; deleted shifts
stay deleted. SQL NULL is `None`.

**Requests.** Each element of `Session` is a request in flight. A handler is a
sequence of actions of its session, `<Handler>Begin`, `...Lock`, `...Check` or
`...Read`, `...Commit`. Reads that follow each other with no lock acquisition or
write between them are one action; every write of a transaction is in its
commit action, since PostgreSQL runs the handlers at READ COMMITTED and shows
nothing before COMMIT. What a session read is kept in its record (`oldUser`,
`oldIvl`, ...) and may be stale when it commits. A failed guard rolls back.
Handlers that close the offers of a shift look them up first and update those
ids later (`shift-linked-actions.ts:126`): finding them is a step of its own
(`UpdateShiftFind`, `DeleteShiftFind`, `AcceptRequestFind`), `foundTrades` and
`foundRequests` are what it found, and an offer made since is not closed.

**Conditional writes.** `updateMany({ where: { id, status: 'OPEN' } })` takes
the row lock and re-evaluates its condition on the newest committed row, so its
condition is a guard of the commit action; a count of zero is a rollback.
Writes by id alone have no such guard.

**Payroll rows.** A period's row carries the calculation run it was last locked
with: `lines` and `deltas` are the minutes the run pays for each entry and each
adjustment, `run` counts the runs of the period and stands for `lockedAt`,
`lockedCalculationRunId` and its checksum, which an export compares. `ref` is
the period of an entry's reference date, which decides where it is counted;
`link` is `payrollPeriodId`, which need not agree. An UPDATE is an `EXCEPT` on
the row as it is at commit, touching the columns the handler names.

**Planning rows.** A slot is a period a template of the month plan asks a shift
for; `workspace` is the set of slots of the plan the planners share. A draft
holds an item for each slot it was generated from, its day snapshot `days`, its
wish round and the wishes of each item, and `gen` counts how often its items
were exchanged. Handlers read, then commit, in two steps of the session; a copy
reads the draft, its items and its days in three (`CopyDraftRead`, `CopyItems`,
`CopyDaysCommit`), since nothing keeps its source as it is in between.

**Serializable transactions.** Publication and replacement run at SERIALIZABLE:
their first step keeps what they read as their snapshot, and two of them that
overlap cannot both commit, since each reads and writes the same month: the
first to commit dooms the others. Beside read-committed handlers only row
conflicts count: the transaction aborts when a row it locks or writes was
changed since its snapshot. PostgreSQL would let two serializable transactions
of one month commit when neither reads what the other writes; the model aborts
the later one always, which a client cannot tell from other conflicts.

**Payroll configuration.** A scope (the mode, one member's rate, a rule) maps
dates to versions, since `(scope, validFrom)` is unique, cancelled rows
included. A period is one date with one approved entry, worked on it. Its cost
is the rate in force plus the supplements of the matching rules; the lines of
its locked run and the sums of the money adjustments (`due`, by original period,
entry and settlement period) are amounts. Rules stack and match all day; which
minutes of a day a rule matches (windows, weekdays, special days) decides how
much a supplement is, not how versions, runs and adjustments relate. The `id` of
a period tells in which order periods were first locked, and a change adjusts
closed periods in that order (`payroll-versioning.service.ts:196`). `Matching`
does not ask whether a version is enabled, because the calculation does not. A
cancellation compares the clock and commits in one step, so a day that turns
between those two is not covered; that the version has no calculation lines and
no adjustments, which a deletion asks too, holds of one that has not begun.

**Accounts.** A user is an email address, which is unique. ADMIN and EMPLOYEE
are one role, `MEMBER`: no handler modelled tells them apart. A withdrawal reads
the account when it has its lock and the memberships in a later step, so that a
link can commit in between; what it writes is decided there and written at its
commit. `crossed` is an auxiliary variable, which no guard reads: it remembers
the accounts that were linked while a withdrawal was in flight, until a default
is chosen for them.

**Modules.** A row is "none" where it is missing, which counts as enabled;
`Usable` is what `applyDisabledDependencies` leaves enabled. A question reads
one row in a step, and `seen`, which no guard reads, collects what was enabled
since it was asked.

**Messages.** A message has its id before its row can be seen, so ids may become
visible out of order. Its conversation is named by the message that began it.
Handlers look, then write with one statement; recalling needs nothing that could
change in between and is one step. `Leave` is the end of a membership or of an
account with the trigger that excludes its receipts. Days stand for the times of
deletion and `Retention` for the 60 days. The browser is `inbox`: the merged
pages, the cursor of the next one and whether there is one; loading starts
afresh, as every realtime event makes it do. `missed` and `steady` are auxiliary.

**Advisory locks.** `pg_advisory_xact_lock(namespace, id)` is `Acquire`: it
waits until no other session holds the key; COMMIT, ROLLBACK or the loss of the
connection (`Crash`) releases every key of the session.

| Namespace in the code | Key in the model | Taken by |
|---|---|---|
| 56001 | `UserLock(u)` | create and update of a shift |
| 56002 | `RecordLock(s)` | update, delete, trade acceptance and decline, request acceptance |
| 53001 | `OfferLock(s)` | offering a trade |
| 54001 | `LeaveUserLock(u)` | asking for and deciding absence |
| 54002 | `LeaveLock(l)` | deciding absence |
| 1431658342, user id | `lock[u]` in `Accounts` | every change of an account or its memberships, except |
| 1431658343 | `directory` in `Accounts` | creating and linking an account; before the lock of the account, edits that may change the email |
| 8302026, scope id | `held` in `PayrollVersions` | each change of the payroll configuration, for its mode, rate or rule; creating a rule for the cinema |
| `CINEMA_MODULE_LOCK_NAMESPACE`, cinema id | `moduleLock` in `CinemaModules` | updating the modules of a cinema |
| cinema id, period start | `PeriodLock(c)` in `ShiftStore`, `held[self]` in `PayrollStore` | clocking in, creating, editing, approving, unapproving, sending back and voiding an entry, locking a period |

**Time.** `now` counts hours; a calendar day has `DayLength` of them. Leave
expiry, "already started" and "today" are read from it.

| Module | Models |
|---|---|
| `ShiftStore` | tables, locks, sessions, the checks the handlers share, the closing of a shift's offers |
| `Shifts` | `createShiftFlow`, `updateShiftFlow`, `deleteShiftFlow` |
| `ShiftTrades` | `createShiftTrade`, `acceptShiftTrade`, `rejectShiftTrade`, `cancelShiftTrade` |
| `StaffingRequests` | creation for a shift or a period, `acceptStaffingRequest`, `rejectStaffingRequest`, `cancelStaffingRequest` |
| `LeaveRequests` | `createLeaveRequestFlow`, `updateLeaveRequestStatusFlow`, the expiry job |
| `ClockIns` | `clockInTimeEntry`, `clockOutTimeEntry` |
| `ShiftAssignment` | all of them over one store; the properties; the refinement mapping |
| `TradeLedger` | what trading promises, with atomic steps and no locks |
| `PayrollStore` | periods with their runs, entries, adjustments, period locks, sessions |
| `PayrollPeriods` | `lockPayrollPeriod`, `unlockPayrollPeriod`, the exports |
| `TimeEntries` | `submitManualTimeEntry` and `clockInTimeEntry` as `createEntry`, `clockOutTimeEntry`, `updateOwnTimeEntry`, `updateAdminTimeEntry`, approve, unapprove, reject, void, and `createOrUpdateTimeEntryPayrollAdjustment` |
| `Payroll` | both over one store; the properties |
| `PlanningStore` | month plan, drafts, wish rounds, shifts as planning sees them, serializable and read-committed commits |
| `PlanningDrafts` | `prepareMonth`, saving, creating, copying, opening, updating and deleting a draft, `upsertMonthPlanDay` |
| `PlanningWishes` | `openRound`, `closeRound`, `setItemWishEnabled`, `createWish`, `withdrawWish`, `assignWish` |
| `PlannedShifts` | `publishDraft`, `replacePlanningShifts`, `removePlanningShifts`; clocking in, offering, creating a shift and approving leave as planning meets them |
| `ShiftPlanning` | all of them over one store; the properties |
| `PayrollVersions` | versions, planned insertions, the version in force, what a period costs, the adjustment a change calls for |
| `PayrollConfiguration` | the handlers of `PayrollVersioningService`; locking, reopening and exporting a period as they meet it; the properties |
| `Accounts` | `createUserFlow`, the membership services, `updateAuthDefaultCinemaFlow`, the status and edit flows, what `login` does to the default; the properties |
| `CinemaModules` | `updateForCinema`, `findForCinema` with `ensureCatalogRows`, the guard's `isEnabledWithDependencies`; the properties |
| `ModuleSwitches` | what the switches promise: one atomic update, granted whole or refused |
| `Messages` | the handlers of `messages/helpers`, the receipt triggers, `useMessages`; the properties |
| `MCShiftAssignment`, `MCRequests`, `MCPayroll`, `MCPeriods`, `MCShiftPlanning`, `MCPayrollConfiguration`, `MCSupport` | intervals, operation sets, scenarios and symmetry of the instances |
| `ShiftAssignmentProofs`, `RequestProofs`, `PayrollProofs`, `VersionProofs`, `PlanningProofs`, `CinemaProofs`, `MessageProofs` | the machine-checked proofs, by what they are about |
| `SetProofs` | lemmas those proofs share: least and greatest numbers, induction over finite sets, what a change of one term does to a sum |

A definition whose comment begins with "Mutant of" is a plausible bug of the
definition that follows it; no specification uses it. It is there to show that
the property it is paired with in `PROJECT.json` would notice.

## 4. What the runs check

An instance limits what clients send, which is a bound and not a behaviour: with
all handlers at once it would be out of reach. `Ops` does so for a whole run. A
run that asks several questions of one component has *scenarios* instead: its
initial state chooses one, and `SendRequest` in the MC module says what clients
send in it. In `MCRequests` and `MCPeriods` the chosen scenario is told by a row
the program may well start with (an absence turned down earlier, a time entry
voided earlier), so that those modules add no variable; in `MCShiftPlanning` it
is a variable that never changes. Every step is a step of the component's own
`Next`, and every start a state of the program.

| Run | Instance | Shows |
|---|---|---|
| `trades` | `MCRequests`, 2 sessions, 2 users. Scenarios: *trades* (edits, offers, answers), *leaves* (absences asked for, decided and expired by the hourly job, shifts created, the clock running) | `TypeOK`; `OneOpenTrade`; `TradeDeclinerNeverAccepts`; `LeaveExclusive`; `SettledLeaveStaysSettled`; `ImplementsLedger`: every behaviour is one of the ledger |
| `admin` | `MCShiftAssignment`, 2 sessions, 2 users, 2 shifts, disjoint periods that shifts are moved between | `NoDoubleBooking`; `RequestsFinish` |
| `staffing` | `MCRequests`, 2 sessions. Scenarios: *offers* (edits, deletions, offers and their answers), *staffing* (2 requests that may be for one shift, against edits), *all* (one request at a time, of every kind) | `StaffingWinnerTakesShift`, `ClosedRequestStaysClosed`; `OpenTradeFollowsShift`, `EntryOnOwnShift`, `NoShiftDuringApprovedLeave` |
| `periods` | `MCPeriods`, 2 periods. Scenarios: *freeze* (2 sessions, every entry mutation but clock-out against lock and reopen), *settle* (1 session, one entry of up to 2 minutes, 2 adjustments, withdrawal and voiding after export) | `TypeOK`, `FrozenWhileLocked`, `PaidEntriesBalance`, `ExportedStaysExported` |
| `planning` | `MCShiftPlanning`, 3 slots, 2 drafts, 4 shifts, up to 3 requests in flight. Scenarios: *shifts*, *edits*, *drafts*, *wishes*, *round* | `PlanningTypeOK`, `OneShiftPerDemand`, `PlanBooksOnce`, `OpenOfferHasShift`, `DaysMatchItems`, `WorkedShiftsStay`, `PublishedItemsFrozen`, `RoundFreezesItems`, `AssignsAWisher` |
| `versions` | `MCPayrollConfiguration`, 2 sessions, 2 rules, 3 days | `TypeOK`, `VersionsChain`, `PastChangesByInsertionOnly`, `ClosedPeriodsFollow` |
| `support` | `MCSupport`, which has parts that share no state. *accounts*: 3 sessions, 1 account, 2 cinemas; *modules*: 2 callers, 3 modules of which one requires another; *memberships*, *mailboxes*, *scrolling*: 3 persons, 2 or 3 messages, 2 requests | `DefaultFollowsMemberships`, `MasterHasNoMembership`, `BlockedKeepsDefault`; `AllowedWasEnabled`, `ImplementsSwitches`; `AnswersStayInside`, `ReceiptsOfMembers`, `OwnDeletionsOnly`, `GoneForGood`, `InboxComplete` |
| `accept_races_edit` | `MCShiftAssignment`, 2 sessions | **violated**: accepting a trade races an edit into a double booking |
| `reopen_races_export` | `MCPayroll`, 2 sessions | **violated**: a period is exported between the check and the write of reopening it |
| `late_withdrawal` | `MCPayroll`, 1 session | **violated**: an entry approved after export, paid by an adjustment, is withdrawn without a correction |
| `replacement_ignores_leave` | `MCShiftPlanning`, 1 request at a time | **violated**: replacing the shifts of a period gives an employee a shift during approved leave |
| `adjustment_taken_back` | `MCPayrollConfiguration`, 1 session, 4 days | **violated**: the second change of a rate after a correction was settled takes the correction back |

The properties of the scenario *all*, and `ExportedStaysExported` in *settle*,
hold when requests come one at a time and fail when two handlers that share no
lock meet; the `*_races_*` runs are the smallest such meetings. Both facts are
worth having: the first says each handler's own checks are right, the second
which pairs of handlers do not exclude each other.

**Bounds.** Two sessions are enough for every race between two handlers, which
is the form of all the hazards listed; two users give an old and a new
assignee, the pair for which lock order matters; two rows of the table a
property quantifies over are the least that can violate it. Rows are not
reused, so the row sets bound the number of inserts of a behaviour.

In `trades` and `staffing` at most one of two concurrent requests is an
administrator's edit (`OneAdministrator`), because two of them are what `admin`
is about, and a staffing request is created while nothing else is in flight
(its race is with its answers). In *offers* no shift is offered while one is
edited or deleted (`OffersApart`), since those handlers close only the offers
they have found; *trades* has that overlap too. In *leaves* shifts are only created. In *all*
one staffing request is created, and none of absence, clocking in and a second
absence follow each other in every order, which only multiplies states. `admin`
has no clock: no shift edit reads one that a period far enough ahead would not
answer alike.

The payroll properties speak of one entry at a time and entries meet only in
the check that all of a period are resolved, so one entry is the interesting
case; two periods are a paid one and one that settles; `MaxLocks` 2 lets a
period be locked, reopened and locked again; two adjustments are one that has
been included and one that corrects it. *freeze* has no adjustments, since it
exports nothing and adjustments answer exports.

In `planning` two of the slots ask for one employee at overlapping times on two
days and the third is nobody's, so drafts can be combined into a double booking,
a shift in the past and an item to wish for; a third request lets a publication
and a replacement be overtaken by a third handler. Drafts a scenario starts with
are what `saveNamedDraft` makes of their slots. TLC checks no deadlock there,
since a scenario ends when its tables are full.

`KnownRaces` in `MCShiftPlanning` are pairs of handlers that the code does not
keep apart and that each break a property of the run; they do not overlap in
it, so that it says what holds beside them:

| Pair | What happens when they overlap |
|---|---|
| remove, clock in | the counts of time entries are older than the row locks (`shift-planning-removal.ts:297`): a shift is removed under a new time entry |
| remove, offer | likewise an open trade of a shift that is gone |
| publish, assign a wish | the item is assigned by id after it was published |
| publish, delete the draft | the items of the published draft are deleted; the two lock item and draft in opposite order |
| open a round, update the draft | the round's items are exchanged and its wishes lost |
| withdraw, assign a wish | an employee is assigned whose wish is withdrawn |
| copy, update the draft | the copy has the items from before and the days from after (`shift-planning-named-draft-workspace.ts:688`, `:730`, `:776`) |
| copy, delete the draft | likewise the copy has the items, or nothing, and no days |

Nor is the month plan edited while a draft of it is saved (`SavingPlan`): items
and day snapshot come from two reads of it and may then differ.

In `versions` the member has a rate from the first day; two more versions can
come, which are a change of a closed period and a second one that finds the
adjustments of the first, or a version and its cancellation beside another
insertion. Three days give an insertion between two versions, before the first
and after the last. `MCPayrollConfiguration` also names what the code does not
survive:

- Concurrent changes change the same part (`SameScope`): each transaction
  recalculates closed periods without the other's uncommitted version, so a new
  rate and a new percent rule miss the supplement of both.
- Periods are locked, reopened and exported between requests: a change looks its
  closed periods up before its transaction
  (`payroll-versioning.service.ts:185`), and one that is locked in between gets
  neither the new version nor an adjustment.
- Periods with adjustments are not reopened (`Untouched`): the new run pays what
  the adjustment, which nothing voids, pays again.
- Rules are copied before their versions apply (`CopiesFutureOnly`): a copy
  applies from its source's dates on, and no adjustment is made for it.
- Periods are first locked in the order of their dates (`LockInOrder`): a change
  goes through the closed periods in that order and corrects an entry once, so a
  later period that was locked first, and has since settled an adjustment of an
  earlier entry, takes it back, and the entry's own period is then skipped
  (`payroll-versioning.service.ts:196`).
- Rules are archived while no request gives them a version (`ArchivesAlone`):
  the count and the update of `archivePayRule` are in no transaction.

In the part *accounts* every property speaks of one account, and handlers of two accounts
share nothing but the directory; two cinemas are one that goes and one that
stays or comes, and three sessions let a link and a login overtake a withdrawal.
The proof covers the rest. In *modules* every state of the rows is a start, since
older versions left any. Of messages, *memberships* has three persons, so that an
answer can reach an outsider, and one request at a time beside those who come and
go; *mailboxes* two messages of one or two conversations, two days and a
retention of one; *scrolling* three messages, the least that two conversations of
which one moves need, on pages of one, while two requests write out of order.

**Seen in the model, without a run of its own.** The same modules show more,
by adding the operation or session named here to an instance:

- Acceptance of a trade looks for conflicting shifts in the trade's own cinema
  (`shift-trade-accept-flow.ts:272`), checks on edits in every cinema: with two
  cinemas, one request at a time double-books an employee.
- An offer is inserted after an edit or a deletion of its shift has looked up
  the open ones (53001 against 56002; `shift-linked-actions.ts:126`): it stays
  OPEN on a shift of somebody else, or with `shiftId` null, and
  `OpenTradeFollowsShift` fails with two sessions. `ImplementsLedger` says that
  nobody can take it there; if its maker gets the shift back, it is good again.
- A clock-in is inserted after its shift was reassigned (period lock against
  56002): `EntryOnOwnShift` fails with two sessions.
- A staffing request that is made while another for the shift is being accepted
  is not found and stays PENDING on a shift that is taken.
- A rule that was deactivated goes on paying: the new version has `isEnabled`
  false and the value of the old one (`payroll-versioning.service.ts:1246`), and
  `payroll-calculation.ts:418` never reads `isEnabled`. The settings page calls
  such a rule deactivated (`CinemaSettingsAdvancedPayRulesSection.tsx:570`).
- An absence is approved while a shift is created in it: 54001/54002 and 56001
  are different locks, each check misses the other's row, and
  `NoShiftDuringApprovedLeave` fails with two sessions.
- An account is linked to a second cinema under the lock of the directory
  (`user-create-flow.ts:314`, which leaves its default as it was read) while its
  first membership ends under the lock of the account
  (`user-cinema-membership-status.service.ts:120`, which sees no other membership
  and clears the default): it keeps an active membership and has no default
  cinema until its next login. `DefaultFollowsMemberships` exempts such accounts.
- An employee can decline a broadcast staffing request while his acceptance of
  it is past its check (`staffing-request-status-flow.ts:380` takes no lock) and
  ends as decliner and winner.
- An entry that is approved after the export of its period, withdrawn without
  the correction that `late_withdrawal` misses, and moved to an open period is
  paid in both.
- Clock-out takes no lock and repeats no check (`time-entry-clock-flow.ts:213`):
  one decided before the period of its entry was locked is written after it and
  changes what the locked run has paid, which breaks `FrozenWhileLocked`.
- Withdrawing an entry from an exported period clears its `payrollPeriodId` and
  leaves `payrollLocked` set, so nobody can edit, approve or void it again.
- A correction is addressed to the row of the current period; if that period is
  already locked, no later lock selects the correction after the export.
- A recipient who leaves while a message to him is being written stays in its
  receipt: the trigger ran before the row was there. `ReceiptsOfMembers` exempts
  those (`missed`).
- A page of the inbox that is answered after a realtime event has reloaded the
  first page is merged into the new list (`useMessages.ts:243` has no request
  number), and conversations between the two are skipped; `Messages` loads a page
  in one step and does not show this.
- Two clock-ins of one user that both looked for an open entry before either
  inserted one both insert (`time-entry-clock-flow.ts:71`).
- Two periods locked at once, under different keys, can both include one
  adjustment that is addressed to no period.
- An edit while the period that pays an adjustment is locked, but not exported,
  creates no correction.

**Deadlock checking** is on in every run but those of planning: a client may always send a request,
unless every table of the instance is full, and sessions can always crash, so
TLC's deadlock check says little here; `RequestsFinish` is the property about
waiting.

**Fairness.** `Fairness`, in the specification of `admin`, assumes strong fairness of `Advance(self)` only: the
server goes on with a request whose next step is possible again and again.
Node's event loop resumes every awaited promise, and PostgreSQL queues the
waiters of an advisory lock and grants it in turn, which is what strong (rather
than weak) fairness says of a key that others take and release. Clients, the
clock, crashes and jobs are under no fairness.

## 5. What is proved

`tlapm` checks eight modules to the last leaf, for every value of the constants
that satisfies the named assumptions. For the shift assignment these are
`IdAssumption` and `TimeAssumption` (ids are positive; periods are non-empty and
start at 0 or later); for payroll `PayrollAssumption` (ids are positive, there
is a largest adjustment id, so that "the newest adjustment" exists, and the
bounds are natural numbers); for the payroll configuration `VersionsAssumption`
(there is a date, `mode` and `rate` are no rules, and there are finitely many
rules, so that their supplements have a sum); for planning
`PlanningAssumption` (ids are positive, slots are non-empty periods, the default
of a slot is an employee or nobody); for accounts `AccountsAssumption` (ids of
cinemas are positive), for modules `ModulesAssumption` (modules require modules),
for messages `MessagesAssumption` (the reader is a person, a retention and a page
have at least one day and row). `Spec` is always the specification without the
scenarios, `OneAdministrator`, `KnownRaces` and the other restrictions of an
instance: what is proved holds with every handler beside every other, unless the
theorem names operations that are not in `Ops` or requests that are `Apart`.

- `ShiftAssignmentProofs!TypeCorrect`: `Spec => []TypeOK`. `TypeOK` alone is
  not inductive: a commit copies the session's arguments into rows, and the
  argument `item` ranges over four kinds of id. `TypeInv` adds `SessionOK` (the
  arguments of each handler are of the kind that handler uses and are not NULL
  where it dereferences them) and `RowsOK` (an offer or request in use names a
  shift and its people). One lemma per action, then one per component.
- `ShiftAssignmentProofs!AtMostOneOpenTrade`: `Spec => []OneOpenTrade`. The strengthening
  `OfferInv` says that locks are exclusive, that a session between the check
  and the insert of an offer holds the shift's key 53001, and that no open trade
  of that shift exists from its check on. Other sessions that could insert one
  need the same key; edits, acceptance and withdrawal only close trades.
- `ShiftAssignmentProofs!DeclinersNeverAccept`: `Spec => []TradeDeclinerNeverAccepts`.
  A decline and an acceptance look for each other's row under the record lock of
  the shift, but both have read which shift that is before they took it.
  `AnswerInv` therefore says that a trade in use is about the shift its answers
  have locked or about none any more (its shift was deleted and the foreign key
  set to null), that an acceptance at its write is of nobody who has declined,
  and a decline at its write of nobody who has accepted (`KnowsTrade`). `ClosedRow` is all
  that a handler without that lock does to a trade: it closes it, or separates
  it from its shift. So an answer overtaken by a withdrawal still knows what it
  needs, and one overtaken by a deletion writes nothing.
- `ShiftAssignmentProofs!TradingIsALedger`: `Spec => ImplementsLedger`, the refinement of
  `TradeLedger`, with no request left out. Every step of every handler is shown
  to be a step of the ledger or a stutter: an offer is `Make`, an acceptance
  `Take`, the decline of a trade open to all `Refuse`, a withdrawal and the
  decline of one meant for one person `Close`, an edit `Reassign`, a deletion
  `Remove`, and a new shift or an accepted staffing request `Fill`. An edit and a
  deletion void the offers they have found, any of those that are open (`fs`): one
  made since stays open, and the ledger lets nobody take it unless its maker
  holds the shift. `RecordInv` adds to `AnswerInv` what those need to know of the
  shift: a request past its read that
  holds a record lock holds that of the shift it is about, an edit of a live
  shift still knows its assignee, and nobody has a deleted one.
- `RequestProofs!LeavesNeverOverlap`: `Spec => []LeaveExclusive`, and
  `RequestProofs!SettledLeavesStay`: `Spec => SettledLeaveStaysSettled`.
  `LeaveExclusive` is not inductive: an absence is filed after a look at the
  others. `LeaveInv` adds to `OfferInv` that a filing holds the lock on the
  employee's leave and, past its check, that nothing is in its way (`Filing`),
  and that a decision past its check writes a status that may follow the one it
  read (`Settling`). Decisions and the hourly job do not take part in the
  exclusion; they keep it because they make no absence active (`OpensNoLeave`).
  The handlers of the other components are disposed of by their `Footprint`: the
  tables and the sessions they leave alone.
- `RequestProofs!ClosedRequestsStay`: `Spec => ClosedRequestStaysClosed`, and
  `RequestProofs!WinnersTakeTheShift`: `Spec => StaffingWinnerTakesShift`.
  `RequestInv` says that the request an acceptance is about still is for the
  shift whose lock it holds as long as it is pending. The second is proved from
  `[]RequestsApart`: none is made while one is being accepted, since an acceptance
  cancels the others it has found. `MovesRow` is what any
  step does to a request: a settled one keeps its status, no row goes back to
  unused, and one that stays pending stays with its shift. Handlers that hold no
  lock have it because they write only while the row is pending.
- Three properties of the shift assignment that some pair of handlers breaks are
  proved of all the others. `OpsServed` says that only what clients send runs.
  - `RequestProofs!EditsNeverDoubleBook`: `Spec => []NoDoubleBooking` from
    `{"acceptTrade", "acceptRequest"} \cap Ops = {}`. `BookInv` adds `Booking`: a
    creation or update that gives a shift to somebody holds his key 56001 and,
    past its check, knows that he has none at that time. What writes a shift
    either books nobody or does so under that key (`Books`). The acceptances
    check without it, which `accept_races_edit` exploits.
  - `RequestProofs!OffersFollowShifts`: `OpenTradeFollowsShift` from
    `[]OffersApart`: nothing is offered while a shift is edited or deleted. No
    handler is left out otherwise. An offer is inserted under 53001 after a check
    of a shift that 56002 protects. `FollowInv` adds `Owning`: the employee who is
    about to offer a shift still has it, or it is gone, since acceptances want an
    open trade, of which there is none, or an unassigned shift; and `Finding`: an
    edit or deletion about to take a shift off its owner has found every open
    offer of it.
  - `RequestProofs!EntriesFollowShifts`: `Spec => []EntryOnOwnShift` from
    `{"updateShift", "acceptTrade"} \cap Ops = {}`. `EntryInv` adds `Clocking`,
    the same for a clock-in, which holds the lock of its payroll period alone.
  - `RequestProofs!AbsencesAreKeptFree`: `NoShiftDuringApprovedLeave` from
    `[]ApprovalsApart`: no request is about to give an employee a shift while
    another is about to approve an absence of his, each past its check. That is
    exactly the window in which both miss each other, since no lock is common to
    them; no handler is left out. `AwayInv` adds what the writes trust: whoever
    gives a shift knows of no approved absence of the assignee during the shift
    as it will be written (`Giving`: an update does not change the cinema it has
    read, and nobody changes the shift under an acceptance, which holds its
    record lock), and an approval knows the absence as it is, and no shift during
    it (`Deciding`).
- `PayrollProofs!TypeCorrect`: `Spec => []TypeOK` for payroll. The bound on the
  runs of a period is not kept by its check alone: two locks of one period past
  the check would count twice. `TypeInv` therefore adds `LocksExclude` (no two
  sessions hold one period) and `SessionOK` (a lock past its check holds its
  period, which still has room for a run; every handler's period and entry are
  rows), and `RefsOK` (an entry in use has a reference period).
- `PayrollProofs!LockedPeriodsAreFrozen`: `Spec => []FrozenWhileLocked` from
  `"clockOut" \notin Ops`. The assumption is needed: with clock-out the
  property is false (section 4). `FreezeInv` adds what each handler checked
  under its period locks (`CheckHolds`), that an entry with approved minutes in
  a locked period is linked to it and `payrollLocked` (`LockedEntriesLinked`,
  which is why withdrawal and voiding are refused there although they never
  look at the status of the period), and that unused rows belong to no period.
  `Guarded` is the discipline the handlers share: change entries only in
  periods you hold, move them only into such, lock only such a period.
  `OthersHold` says that a guarded step cannot invalidate what another session
  has checked; each action is then shown to be guarded and to keep its own
  part. Reopening and exporting hold no lock and are still guarded: they only
  end the lock of a period.
- `PayrollProofs!ExportsAreKept`: `ExportedStaysExported` from `[]ReopensApart`
  (no period is reopened while it is exported; `reopen_races_export` shows that
  this is needed). `ExportInv` adds to the type invariant what the write of a
  handler trusts about its period (`StatusKnown`): a lock past its check that it
  is neither locked nor exported, reopening that it is not exported, an export
  past its check that it is locked or exported. `PeriodMove` is what any step
  does to the status of a period, and `OthersKnow` that it leaves what the
  others know: two locks exclude each other, a lock that meets an export
  finds a status it refuses, and only reopening and exporting could disturb each
  other.
- `PayrollProofs!PaidEntriesStayBalanced`: `PaidEntriesBalance`, for every number
  of concurrent requests, although the run sends one at a time. What breaks it
  (section 4) is excluded by name: a clock-out, an administrator's edit of what
  was paid, reopening a period while it is exported (`[]ReopensApart`), and two
  periods that choose at once what they include (`[]LocksApart`). As in the run,
  entries stay in their period (`"move" \notin Ops`). `BalanceInv` says where the minutes are that were paid: an
  entry an exported period has paid for was paid for by that one alone and is
  either as it was paid (`AsPaid`) or was taken back by its only adjustment, which
  waits or is in one period (`TakenBack`, `TakesBack`); only entries of exported
  periods have adjustments (`SettledLate`); and a handler past its check knows what
  was paid (`PaymentKnown`): who withdraws or voids has read exactly the minutes
  of the entry, and whoever else holds a row holds none that was paid for. So the
  three sums of `Paid` have one term each that is not zero (`TotalOfOne`,
  `TotalOfZeros`).
- `VersionProofs!AlwaysChained`: `Spec => []VersionsChain`, and
  `VersionProofs!PastIsKept`: `Spec => PastChangesByInsertionOnly`. Neither
  uses the restrictions of the instance. `InsertionChains` and
  `CancellationChains` show that a planned insertion and a cancellation keep a
  chain if they are planned from the versions they are written to. That they
  are is the heart of `Inv`: `PlanFresh` says that what a request has planned
  is what it would plan now. It survives the other sessions (`OthersHold`)
  because a step changes a scope it has locked and that exists, or one that
  starts to exist (`Guarded`): a rule is created under a lock of the cinema and
  copied under the lock of its source, so only the uniqueness of its name keeps
  two of those apart, and `NewRulesBlank` says that a rule without a row has no
  versions. `PastIsKept` then follows from what each kind of write does to the
  version in force (`InsertionInForce`, `CancellationInForce`).
- `VersionProofs!TypeCorrect`: `Spec => []TypeOK`. The amounts are the point: a
  sum is a number only if each of its terms is one, and a supplement is one only
  where the versions can be calculated with. `AmountTypes` therefore rests on
  `Inv`, which says what a request may plan from. That sums of any size have a
  type, and what a change of one term does to them, is in `SetProofs`: a
  statement about all finite sets is proved there from a counterexample that has
  no smaller one (`SmallestSubset`), which the provers can follow where an
  induction rule with an operator for its parameter is beyond them.
- `VersionProofs!ClosedPeriodsAreFollowed`: `[]ClosedPeriodsFollow` from
  `[](RequestsApart /\ CopiesApart /\ ClosedInOrder)` and `[][PeriodsApart]_vars`. Section 4
  tells what goes wrong without them: two changes for different scopes each
  calculate from the versions the other has not written yet, nothing is adjusted
  for a copied rule, a period that is closed, exported or reopened under a
  request is missing from, or too many in, the periods it has read, and periods
  that were locked out of order are adjusted out of order. `FollowInv`
  adds that no run pays for a later entry (`RunsLookBack`), that nothing is due
  for one nor settled in the period it comes from (`DueLooksBack`), that an open
  period owes nothing (`OpenOwesNothing`), that what a closed period is
  calculated from is there (`ClosedFollow`), and that the adjustments a request
  is about to write make each closed period it knows of follow the versions it
  is about to write (`SettlesAt`). The heart is `DeltasSettle`: the new amount
  minus the run and what was adjusted before is what is missing, although runs
  pay the adjustments of earlier periods too. Locking a period moves amounts due
  to it within their sum (`InclusionMoves`); a commit for one scope leaves other
  requests for it nothing to write (`OthersFollow`), because it holds the scope's
  lock or has created the rule they wanted to create.
- `PlanningProofs!DemandsAreMetOnce`: `Spec => []OneShiftPerDemand`,
  `PlanningProofs!PlansBookOnce`: `Spec => []PlanBooksOnce`, and
  `PlanningProofs!PlanningTypeCorrect`: `Spec => []PlanningTypeOK`. `PlanInv` adds
  `Deciding`: as long as a serializable transaction is not doomed, what it
  will insert is `Compatible` with every planned shift it does not delete, and in
  itself. A commit of one keeps that of another because whatever changes the
  planned shifts that the other read dooms it; handlers at read committed only
  remove shifts, hand them on, or create unplanned ones. No pair of
  `KnownRaces` is left out. An item may also be assigned while
  a replacement that read it is in flight, which no scenario of `planning` has:
  `Deciding` holds then because a transaction inserts the assignees of its
  snapshot (`users`), whoever the items name at its commit
  (`shift-planning-replacement.ts:1067`).
- `PlanningProofs`, for the six properties that a pair of `KnownRaces` breaks:
  each holds as long as the requests of that pair do not overlap
  (`[]Apart(op, other)`), beside all other requests and races:

  | Theorem | Property | Kept apart |
  |---|---|---|
  | `WorkedShiftsAreKept` | `WorkedShiftsStay` | remove, clock in |
  | `OpenOffersHaveShifts` | `OpenOfferHasShift` | remove, offer |
  | `PublishedItemsStay` | `PublishedItemsFrozen` | publish, delete the draft; publish, assign a wish |
  | `RoundsKeepItems` | `RoundFreezesItems` | open a round, update the draft |
  | `AssigneesWish` | `AssignsAWisher` | withdraw, assign a wish |
  | `DaysFollowItems` | `DaysMatchItems` | publish, delete the draft; copy, update the draft; copy, delete the draft; and the month plan is not edited during a save (`PlanLeftAlone`) |

  Each says what a request goes on knowing between its two steps: `Unworked` and
  `Unoffered` of the shifts to be deleted, `Deletable`, `Assignable`, `Recalculable`
  and `Wishing` of a draft and its item, `Saving` of the month plan, `Copying` of the
  draft it copies. For that
  `DraftInv` adds to `PlanInv`, without any condition, that a transaction is alone
  with an editable draft (`HoldsDraft`), that the item a request is about keeps
  its generation or is superseded by a later one, and that a draft which is not
  there is empty. `SessionMoves`, `DraftMoves` and `ShiftMoves` say what any step
  does to one request, one draft and one shift.
- `CinemaProofs`, for accounts: `Spec => []TypeOK`, `Spec => []DefaultFollowsMemberships`,
  `Spec => []MasterHasNoMembership` and `Spec => BlockedKeepsDefault`, from one
  invariant. It says that handlers hold their locks (`LocksHeld`), that what
  they checked of the account still holds (`AccountsChecked`), and what they have
  read or decided is still right: a withdrawal that no link overlaps knows the
  default and leaves one of the memberships that remain (`WithdrawalsOK`), a
  reactivation and a link know whether there is a default (`ReactivationsOK`,
  `LinksOK`), a choice is an active membership (`ChoicesOK`). `RowInv` is the
  step of a handler that owns its account, shared by creation, commits and
  blocking; a link, which owns none, is shown not to disturb the owner.
- `CinemaProofs!AllowedWereEnabled`: `ModulesSpec => []AllowedWasEnabled`, and
  `CinemaProofs!UpdatesAreSwitches`: `ModulesSpec => ImplementsSwitches`. The
  guard reads a module, then those it requires, one at a time. `QuestionOK` says
  why that is enough: the modules that were enabled at some moment since the
  question include all that are now, and include the one asked for once its row was read. `UpdateOK`
  says that an update holding the lock has computed the result from the rows
  that are still there; lists, which take no lock, only create rows that change
  no module. The part of a set of modules that lacks nothing is the largest such
  part (`UsableIsLargest`), which is what the abstract switches ask for.
- `MessageProofs`: `MessagesSpec => []MailTypeOK`, `[]AnswersStayInside`,
  `[]ReceiptsOfMembers`, `[]InboxComplete`, `OwnDeletionsOnly` and `GoneForGood`. `MailInv` says that
  every message begins its conversation or has its persons among those of the
  one that did (`RowInside`), that a request still knows what it read of the
  message it is about (`Knows`), and that no two requests have inserted the same
  row (`OwnIds`). `RowStep` is what any step does to a row: its persons and its
  conversation stay, exclusion from the receipt is for good, and so is a
  deletion past its retention. `OwnDeletionsOnly` follows from `DaysAreOwn`: a
  deletion or restoration writes only rows whose day may move that way, for the
  one who asked, and no other step touches a day. `InboxComplete` needs
  `ScrollInv`: what did not change is in the list as it is now, the browser shows
  no other state of its conversation, and shows it if the pages reached it. A page
  reaches down to where the next begins (`PageReaches`) and replaces only what it
  shows again, since the message a state is named by tells its conversation
  (`StateNamesMail`).

Two theorems are proved instead of listed in a run: `TypeOK` of accounts
(`CinemaProofs!TypeCorrect`) and `MailTypeOK`.

Only model-checked: liveness (`RequestsFinish`), which is beyond these provers.

## 6. What is not modelled, and why

- Authentication, roles and permissions in a cinema: every
  session acts for an authorised, active user. Wrong permissions are not what
  these properties are about. Of accounts: names, profiles and passwords (an
  edit takes its locks and changes nothing the model holds), the columns of a
  membership besides `isActive`, and the switch of cinema within a session.
- Notifications, realtime, push, audit and history: written after commit and
  never read back by a handler, and possibly written in another order than the
  commits they tell of.
- Staffing AI: planned, see section 2. The nightly auto-fill, which decides from
  a shift and entry it read earlier: a reassigned shift gets an entry of its
  former employee, and a clock-out in between is overwritten.
- Of planning: renaming a draft, the preview of a month, the history of
  publications, what weekdays and the film programme make of a template, and
  shifts in other cinemas.
- Of the payroll configuration: special days and the holiday rules that read
  them, `updatePayRule` (stacking, priority and exclusive groups), job functions
  and windows of a rule, entries over midnight and roundings.
- Of payroll periods: the calendar that maps dates to periods (periods are
  numbered), exports for one employee (they mark nothing), and the
  unlocking of a single entry, whose route answers 410 Gone
  (`payroll.controller.ts:157`). Clients confirm the adjustments they are asked
  to confirm; without the confirmation the handler refuses and nothing changes.
- Of time entries: notes and deviations, overlaps between entries, the shift of
  an entry inside `TimeEntries`.
- Master data (job functions, work types, day periods, payroll types),
  templates, month plans, documents, film programme: single-row
  editing without interplay with the core. Qualification is the constant set
  `Qualified`.
- Of messages: the sent and the deleted list, which page like the inbox, targets of
  links, unread counters, texts and system messages.
- The frontend besides `useMessages`, deployment and scripts.
- The collision of the payroll-period key space (cinema id as namespace) with
  the fixed namespaces: it needs cinema ids above 53000.
