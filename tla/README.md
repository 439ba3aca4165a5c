# HRHub in TLA+

HRHub is a multi-tenant HR system: a Fastify/Drizzle backend on Postgres
(`backend/`), a second backend for the employee portal on the same database
(`backend-portal/`), BullMQ workers on Redis, and two web frontends. This
directory holds TLA+ models of the parts whose correctness depends on the
*order* in which requests, jobs and database statements happen, the TLC runs
that check them on small instances, and TLAPS proofs of the properties that
matter most.

Paths below are relative to `src/`; `backend/src/modules/` is written `M/`.

## 1. Reading guide

| Module | What it is |
|---|---|
| `PayrollPeriod` | what payroll for one month promises, without jobs or statements |
| `PayrollRun` | payroll for one tenant and month: run rows, payslips, adjustment ledger, jobs statement by statement, HR requests that race with them |
| `PayrollRunProofs` | safety under any overlap of jobs, how many payslips overlapping jobs can leave, what holds of runs whose jobs did not overlap, and the refinement of `PayrollPeriod`: proved |
| `Loans` | employee loans: request, decision, payments, repayment schedule |
| `PayrollLoans` | payroll's deductions and the loans' own book together |
| `LoansProofs` | the invariants of `Loans` and of `PayrollLoans`, proved |
| `Leave` | leave of one employee: requests, decisions of both backends, balance row, adjustments, cached balance |
| `LeaveProofs` | typing, no overlapping leaves, the entitlement, the days taken, the adjustments: proved |
| `Subscription` | checkout, the webhook that activates what was paid, capacity, and the employees the capacity is for |
| `SubscriptionProofs` | one receipt per payment, receipts are for service, the bound on the staff, proved |
| `Custody` | what assignments of assets promise, without statements |
| `Assets` | assignment, return, loss, maintenance, edit and deletion of assets, statement by statement |
| `AssetsProofs` | one holder at most, held assets are assigned, and the refinement of `Custody`, proved |
| `Recognition` | recognitions from draft to publication, the ledger of points, redemptions |
| `RecognitionProofs` | the ledger of a recognition is that of one award, how far a balance can be overdrawn, proved |
| `Employment` | the checklist that makes an employee active, and exits that terminate one |
| `EmploymentProofs` | the last step, the last clearance item, who has left, decisions on exits, proved |
| `SumProofs` | sums over finite sets: what one element more or fewer does to them, proved |
| `MCPayrollRun`, `MCPayrollLoans`, `MCLeave`, `MCSubscription`, `MCAssets`, `MCRecognition`, `MCEmployment` | the modules above with symmetry sets where they are sound, for TLC |

`PROJECT.json` maps every definition to the lines it translates and lists the
runs, the hazards and the findings. Definitions whose comment starts with
"Mutant:" are wrong on purpose: each is a plausible bug that a property must
notice when it replaces the definition after it. They are part of no
specification.

**What the code leaves open is in the models.** Much of this code reads in one statement
and writes in another, and nothing keeps two requests apart in between. No
model or theorem assumes that requests take turns. Where the code does go wrong when they
do not, the model lets it, and a *history variable* notes what it happened to; the property
then speaks of everything that is not noted. Where a bound can be given on how far it goes
wrong, the property is that bound. History variables decide nothing:
no guard reads them (but for the bound on `Subscription.unchecked`) and no other variable depends on them.

| Variable | Notes |
|---|---|
| `PayrollRun.overlapped` | runs two of whose jobs have been running at a time |
| `Loans.contested` | loans two deciders have been at together |
| `PayrollLoans.backlog` | for each loan, the most installments withheld and not recorded when another was withheld |
| `Leave.unchecked`, `crowd` | requests submitted by the portal, or while another was being submitted, or on a cached balance, or revived by the portal; creators this holds for |
| `Leave.highest` | the most days the employee was ever entitled to |
| `Leave.astray` | columns of the balance row at which two handlers were at the same request or adjustment, a handler died half way, found no row, or the portal decided |
| `Subscription.doubled` | sessions delivered while a handler was still at them |
| `Subscription.ceiling`, `unchecked` | the highest limit so far; employees that came in without a look at the quota |
| `Assets.astray` | assets two writing requests met at, that were edited or sent to maintenance while held, or whose assignment stopped half way |

## 2. Inventory of the system

For each component: state, operations, what is hard, what makes it correct.

**Payroll run and payslips** (`M/payroll/payroll.service.ts`, `payroll.routes.ts`,
`workers/payroll.worker.ts`). State: `payroll_runs` (status, totals; unique per
tenant, year and month), `payslips` (foreign key with cascade). Operations:
create and delete a run, `runPayroll` through a BullMQ job (three attempts, two
executors) or inline when Redis is absent, submit to WPS. Hard: a job is ten
statements with other requests in between; two jobs may work on the same run;
attempts meet what an earlier attempt left. Correct when nobody is paid twice,
totals describe the payslips, what was paid is not lost, runs do not stay in
processing.

**Adjustment ledger** (`M/payroll/adjustments.service.ts`). State:
`payroll_adjustments`, manual rows and rows imported from leaves and loans
(partial unique index on tenant, period and source). Operations: sync
(delete and re-insert the imported rows), create, bulk upsert, edit, delete,
period lock. Called by `runPayroll` and by routes. Hard: concurrent syncs,
lock checked in one statement and used in another. Correct when nothing is
deducted twice and a locked period is closed.

**Loans** (`M/loans/`). State: `employee_loans` (status, balance, installments
paid, start), `loan_payments` (unique per loan and month). Operations: create,
approve, reject, record a payment (row lock), delete, schedule. Hard: decisions
are read-then-write, the calendar, the last installment, two books (payroll's
deductions and the payments). Correct when money is conserved, no month is paid
twice, nobody repays more than was borrowed.

**Leave** (`M/leave/leave.service.ts`, `backend-portal/src/modules/leave/leave.routes.ts`).
State: `leave_requests`, yearly balances (entitled, carried, taken, adjustments),
cached balances, attendance rows. Operations: request, approve, reject, cancel,
adjust, roll the year over, from two backends. Hard: balance checked on a cached
value before the insert; cancellation gives days back from a snapshot; the
portal approves without moving `taken`. Correct when `taken` is the sum of the
approved leaves and leaves of one employee do not overlap.

**Assets** (`M/assets/assets.service.ts`). State: asset status, assignments,
maintenance records. Operations: assign, return, lose, open and close
maintenance, edit, delete. Hard: status and open assignment are two facts kept
together by hand, in two statements without a transaction. Correct when an asset
has at most one holder and is shown as assigned while it has one.

**Exit and offboarding** (`M/exit/exit.service.ts`, `M/offboardingFlow/`). State:
exit requests, clearance items, settlement, employee status. Operations:
initiate, clear items, approve, reject, pay the settlement. Hard: readiness is
read outside the transaction that approves; whoever completes the last item has
to fire what waits for it; an employee may have two exits. Correct when an exit
is decided once, who has left stays terminated, and somebody notices the last
item.

**Onboarding** (`M/onboarding/onboarding.service.ts`). State: one checklist per
employee, its steps, a stored progress. Operations: create from a template, add,
delete and update steps, upload a document. Hard: a change of a step counts all
steps afterwards, in another statement. Correct when the last step makes the
employee active.

**Recognition** (`M/recognition/`). State: recognitions with recipients, an
append-only ledger of points. Operations: create, edit, submit, return, approve,
reject, publish, delete, award, grant, redeem. Hard: three requests publish and
credit the points later, in the background; balances are checked outside the
transaction that spends. Correct when a published recognition is credited once and
in full, and no balance goes below zero.

**Subscription** (`M/subscription/`, and the quota checks of
`M/employees/employees.routes.ts` and `M/recruitment/recruitment.routes.ts`). State: plan,
capacity, end of the term, events. Operations: checkout, webhook, change of the
capacity, adding an employee. Hard: webhooks are repeated, handlers die between the
update and the receipt; the quota is counted and the employee inserted in separate
statements. Correct when what was paid is served and receipted once and the staff
is bounded.

**Attendance** (`M/attendance`). State: punches and daily records. Hard: pairing of
punches, import repeated; a pure algorithm for the most part.

**Employees** (`M/employees`): the record everything else hangs off; here only the
set of employees payroll pays. **Recruitment**, **visa**, **travel**, **profile
changes**: request-and-approve records of the same read-then-write shape as
loans. **Authentication**, **tenants and settings**, **organisation and
catalogues**, **announcements, complaints, documents, notifications**,
**performance and training**: record keeping. **Reports, dashboard, compliance,
audit**: read-only views and an append-only log. **Cache, WebSocket registry,
mail, storage**: infrastructure. **Expiry worker**: daily reminders.
**Frontends**: no state that outlives a page.

Interactions that matter: routes enqueue jobs; jobs call the sync; the sync reads
leaves and loans; loan status changes what the sync imports; leaves approved
write attendance; the two backends share every table and no cache.

## 3. How the models correspond to the code

### PayrollRun

One tenant, one (year, month). Postgres runs at READ COMMITTED and each `await`
outside `db.transaction` is a statement of its own, so:

- `job[p]` is a program counter and the local variables of a job (`p \in Req`) or
  of an HR request that takes several statements (`p \in Handler`). One action per
  statement of `runPayroll`: `Begin` or `Refuse` (the status check, line 776),
  `MarkProcessing` (779), `GetPayableEmployees` (784), `RevertToDraft` (789),
  the sync (795), `ReadTotals` (799 on), `DeletePayslips` and `CommitPayslips` or
  `CommitFails` (the transaction, 816-835), `Acknowledge`.
- A transaction's effect appears at its commit. Its DELETE only reaches rows
  committed when it ran, so the model remembers them (`slips`, `rows`) and the
  commit removes exactly those: this is what makes two overlapping
  "delete and re-insert" transactions add up. Row locks taken in between change
  the order in which such transactions commit, not the outcomes considered.
- `payslips[r]` has a member for each *insert* of payslips: who made it, in which
  attempt, for which employees, from which ledger. Amounts are a function of
  these and are not computed.
- The sync is `SyncNobody`/`SyncStaff`, `ReadLeaves`, `ReadLoans`, `DeleteAutoRows`,
  `InsertAutoRows` or `InsertClashes` (the unique index `uq_payroll_adj_auto`).
- `UpdateStatus` is `UPDATE ... WHERE id`: without a row it does nothing.
- `Fail` is a crash or an error of a statement at any point of a job. `Thrown` is
  BullMQ's answer: wait again, or failed when the attempts are used up. Without
  Redis the route calls the same code once: `Attempts = 1`.
- HR's requests of one statement are one action: `CreatePayrollRun`,
  `DeletePayrollRun`, `SubmitWps`, `UpdateAdjustment`, `DeleteAdjustment`. Requests
  that read the lock first are two: `CheckLockThenWrite` and `WriteAdjustment`,
  `CheckLockThenSync` and the sync. `UpdateAdjustment` and `DeleteAdjustment` write before
  the route looks at the lock, as the code does.
- `Begin` notes in `overlapped` that another job of the run is running.
- `StaffChanges` and `SourceChanges` are the rest of the system: employees
  becoming payable or not, leaves and loans coming and going.

### Loans and PayrollLoans

`approveLoan` and `rejectLoan` read, check and write in two statements
(`ReadPending`, then `WriteApproval` or `WriteRejection`, which ask only for the id).
`recordLoanPayment` holds a row lock and is one action; `Accepts` has both its
checks, of which the first is also the unique index `uq_loan_payments_loan_period`.
Months are numbered; the day of the month is not modelled, since payments are accepted
by month (`ExpectedMonth`) and only the schedule that is displayed adds months to a date.
Amounts are whole units.

`PayrollLoans` adds one step, `RunMonth`: an approved run for the next month
withholds an installment of each loan with status active, deleted or not, capped
at the balance. No code of payroll records a loan payment: the balance moves
when HR posts the month. `backlog` notes how far HR was behind, the loans it can no
longer post for (deleted while active) among them.

### Leave

One employee, one leave type, one year. A handler (`proc[p]`) takes one statement
at a time and keeps what it has read:

- `createLeaveRequest`: `CheckOverlap` (line 117), then `getLeaveBalance` (`CheckCached`
  or `MissCache`, 413; `ReadUsage`, 433; `ReadRow`, 455-502, which also fills the
  cache), then `InsertRequest` (165). A refusal is the handler returning.
- `approveLeave`: `ReadPending` (172), `WriteDecision` or `FindDecided` (203, an UPDATE that
  asks for `pending` again), `AddTaken` (216). `cancelLeave`: `ReadStatus` (277),
  `WriteCancelled` (305, which does not ask), `RestoreTaken` (315).
- `adjustLeaveBalance`: `ReadAdjustment` (630), `WriteAdjustment` or `InsertClashes`, then
  `LogAdjustment` and `getLeaveBalance`. `deleteLeaveAdjustment`: `ReadLive` (707) and
  `UndoAdjustment`, its transaction. `OpenYear` is what `rolloverYear` of the year before
  does to this year's row.
- The portal's handlers read a pending request and write by id: `PortalReadPending`,
  `PortalOverwrite`; `PortalCreate` only inserts.
- `Fail` is a handler that dies between two statements. `Expire` is the time to live of
  the cached balance; `Caching = FALSE` is an installation without Redis.

Only days that count are numbered, so the days of a request are the length of
its range; the portal counts calendar days, which makes its requests longer and
changes no property. An UPDATE of a balance row that does not exist does nothing
(`AddTaken`, `RestoreTaken`), and is noted; a first adjustment without a row creates one that
has accrued nothing, as `WriteAdjustment` says.

### Subscription

One tenant. `tenant` is the row of `tenants` (plan, quota, end of the term); the end of
the term is compared with the day when a limit is read (`Limit`). `session` is Stripe's
side: what is paid is delivered until a delivery is answered (`Deliver` to `Reply`), and
a handler that dies (`Die`) leaves the session paid. `logged[s]` counts the rows of
`subscription_events` with the session's id, which `createCheckoutSession` writes as well:
`CheckSeen` has to tell the two kinds apart (256). `Activate`, `WriteReceipt` and `Reply`
are three statements without a transaction. Stripe may deliver a session again while
a handler is still at it (`Deliver`, which then notes it in `doubled`).

`ReadLimit`, `CountStaff`, `InsertEmployee` are `enforceEmployeeQuota` and the insert after
it. `Restore` and `Import` are restoring an archived employee and the bulk import, which
do not ask for the quota at all. `Term` is the length of a paid month in days.

### Assets

A request reads, then writes two tables: `assignAsset` is `ReadAvailable`,
`InsertAssignment`, `HandOver`; a return or loss is `ReadOpen`, `CloseAssignment`,
`FreeAsset`; maintenance is `ReadForTicket`, `InsertTicket`, `TakeDown` and `ReadTicket`,
`ResolveTicket`, `PutBack`, whose UPDATE (408) alone asks for the status it overwrites.
The edit dialog sends every field back, the status among them (`OpenDialog`,
`SaveDialog`). Any requests may overlap, and any may die between its statements. `Writing`
are the kinds that write the status whatever it has become; `Collides` is a writing request that
begins at an asset where another one is under way, or a maintenance or an edit of
a held asset. `Custody` promises as much of the assets that are not astray, and its step `Stray` gives one up.

### Recognition

`CreatePublished`, `ApproveAsHr` and `ReadForPublish`/`Publish` are the three ways to
publish. Each goes on with `Reread` and `Annotate` (the row again, then its recipients)
and `Award`, the transaction of `recordRecognitionPoints`: recipients that have a row for this
recognition are passed over, a second row of the giver breaks the transaction. `earned` and
`given` are the rows of the ledger that belong to a recognition, `plus` and `minus` the
two sides of a person's balance. `CheckBalance` and `Redeem` are `redeemPoints`, whose check
reads outside the transaction. `S` in `Award` is the set of recipients with an account
at that moment. `balance_after` is written and never read and is not in the model.
The giver of a recognition is fixed: `recognition.routes.ts:144` falls back on whoever publishes
when the recognition has no giver with an account, in which case two publishers
write rows of two givers that do not conflict. Such recognitions are left out.

### Employment

`updateStep` is `UpdateStep`, `CountSteps`, `SaveProgress`, `Graduate`; `addStep` and `deleteStep`
save a progress too and graduate nobody. `updateClearanceItem` is `CompleteItem` and
`CountRemaining`, or `MarkItem` when the item is not completed. `approveExit` is
`ReadReadiness`, outside, and `ApproveExit`, its transaction. An exit and its items are
inserted in two statements, the second of which may fail and be swallowed
(`InstantiateClearances` with no items). A step or item in progress or overdue counts as
pending. The upload that completes a step (`autoAdvanceStepAfterUpload`) is `UpdateStep`,
which sets any status at any time, as HR may by hand. No request dies in this module.

## 4. What the runs check

| Run | Expect | Distinct states | Question |
|---|---|---|---|
| `jobs` | pass | 616,968 | Two executors run the jobs of two requests on up to two runs, overlapping statement by statement, with retries and a crash anywhere: totals foot, no orphaned payslips, approved runs are paid, nobody has more payslips than there are executors; completed jobs of runs whose jobs did not overlap have paid, and the whole implements `PayrollPeriod` |
| `settle` | pass | 166,344 | A job, a sync request, ledger writes and edits, two faults: nothing is deducted twice, and every job ends |
| `loans` | pass | 77,884 | Two decisions race with each other, with payments, deletion and payroll: money conserved, balance on plan, no month twice, payments counted; loans decided on by one at a time close exactly when repaid and are paid in order; what is over-withheld is bounded by the backlog |
| `requests` | pass | 2.97 million | Two people submit requests while the main backend and the portal decide and cancel them, statement by statement: no overlap and nothing beyond the entitlement among the requests submitted alone, `taken` follows the approved days |
| `books` | pass | 1.72 million | Two people of HR adjust and undo while the year is opened, requests of both backends are submitted and decided, balances are cached and a handler dies: adjustments foot, `taken` follows |
| `billing` | pass | 759,996 | A checkout is paid and delivered to two handlers, also at the same time, that die anywhere; two employees are added while the capacity changes and expires: paid means served and receipted, once unless two handlers were at it, and the staff exceeds the limit by no more than the others on their way |
| `custody` | pass | 967,438 | Three people of HR assign, take back, lose, maintain, edit and delete an asset in any overlap, and one request dies: one holder, held is assigned and `Custody` is implemented unless the asset went astray |
| `points` | pass | 384,831 | Two requests publish, edit, return, reject and delete one recognition, grant and redeem, and one dies: credited once, in full, only when published and in the end; balances are overdrawn by one redemption of the other request at most |
| `lifecycle` | pass | 1.53 million | Two requests at a time on a checklist of two steps and on two exits with two items: the last step graduates, the last item is noticed, leavers stay, an exit is decided once |
| `twice` | violation | | Two jobs of one draft: everybody has two payslips |
| `cached` | violation | | Two requests in a row, the second checked against the balance the first one cached |
| `overdraft` | violation | | Two redemptions of one person at a time |

### Where comments and code disagree

The three violation runs each refute what a comment says; `PROJECT.json` quotes the lines.

- `twice`: `payroll.service.ts:816-818` calls the replacement of the payslips atomic and
  idempotent. The route admits a second request while the run is a draft and the worker has two
  executors (`payroll.worker.ts:104`), so the DELETE of each transaction may come before the
  COMMIT of the other. How bad it gets is bounded: `PayslipsBounded` says that nobody has more payslips
  than there are executors.
- `overdraft`: the comment at `recognition.service.ts:915-920` relies on the lock of the new row to
  serialize writers of the ledger, but an insert locks nothing another insert waits for,
  and the balance is compared outside the transaction anyway. `OverdraftBounded` is how
  far it can go.
- `cached`: the comment at `leave.service.ts:144` promises that nobody asks for more days than there
  are. The balance is served from a cache that the insert of a request does not invalidate.
  No concurrency is needed. `AskedWithinEntitlement` is what holds of requests checked on a fresh
  balance.

### What the properties except

What a history variable notes does go wrong in the code, in a few steps each. A property
that excepts it says that the damage stays there:

- a run whose jobs overlapped (`overlapped`) may hold two payslips for everybody, and a completed
  job of it may have had its payslips replaced; `RevertToDraft` does not look at the
  status it overwrites, so a job that found nobody payable reopens a run another job has
  approved, and the paid run can be deleted with its payslips;
- a loan two people decide on at a time (`contested`): approving and rejecting it can both
  succeed, and a late approval reopens a closed loan or moves the start of one that is
  being repaid. Its balance and its payments stay right all the same;
- payroll takes too much of a loan as far as HR is behind (`backlog`): payroll caps at a balance it
  does not reduce, and a deleted active loan is deducted without end
  (`adjustments.service.ts:931` does not look at the deletion);
- two requests for leave submitted at a time (`unchecked`) are each checked without the other,
  the portal checks neither dates nor balance, and its decisions are written by id
  (`backend-portal/src/modules/leave/leave.routes.ts:261`) over what the main backend has decided since,
  so a request that was cancelled may become approved;
- the portal decides without moving `taken`; `cancelLeave` gives days back according to the
  status it read, so an approval in between is never given back and two
  cancellations give back twice; an approval that finds no balance row takes nothing; a handler
  that dies between the decision and its effect leaves the balance behind (all `astray`);
- two adjustments at a time lose one of them, and two concurrent deletions of one adjustment
  take it off twice (`leave.service.ts:728`);
- two handlers of one session both find no receipt and write two (`doubled`);
- two assignments of an asset both read available; a return, a loss or a dialog that overlaps an
  assignment writes the status over it; maintenance of a held asset may be logged (the page offers
  it, `AssetsPage.tsx:725`) and its end offers the asset to a second holder, without any concurrency; an
  assignment that dies between its insert and its update (`assets.service.ts:228-245`)
  leaves a held asset available (all `Assets.astray`);
- restores and bulk imports of employees pass by the quota, although
  `QA_FUNCTIONAL_BUSINESS_DOCUMENTATION.md:695` says the quota "gates employee create/import";
  `SeatsBounded` counts them apart.

### What no property covers

- A crash after `MarkProcessing` leaves a run in processing for good: the retries return at
  line 776. A sync request that overlaps the insert of a job ends the same way.
- The period lock. `adjustments.service.ts:67-71` says that a locked period rejects changes. `PATCH` and
  `DELETE` on adjustments never look at the lock before they write, and a create
  that read it before the run left draft writes after it, so there is no moment from which
  the ledger of a locked period is closed, and nothing weaker that would be worth a run. The model has these
  writes (`settle`), and the properties above hold with them.
- A loan that starts after the 28th is shown with due dates in other months than the server
  accepts (`loans.service.ts:379`); dates are not modelled.
- An award that dies after its recognition is published is lost: publishing again
  answers 409, and nothing else credits it. `PublishedIsCredited` excepts such deaths.
- Waiving the last open clearance item fires no workflow, and deleting the last open
  step makes nobody active; `SomebodyNotices` and `GraduatesWhenDone` leave both out.
- Of two updates of steps the one that counted first may save last, and a progress below
  100 stays although the employee is active; at 200 steps `Math.round` gives 100 one
  step early.
- An upload that found a document missing takes back a completion made since, which
  the comment at `onboarding.routes.ts:117` excludes.
- An exit approved between its insert and that of its items, or whose items could not
  be inserted, finds nothing open and is approved.

### Bounds

- `jobs`: two runs and two requests, enough for delete-and-recreate in a period, for a job that
  outlives its run and for every overlap of two jobs, with as many executors as the worker has,
  three attempts and one fault. `PayslipsBounded` is tight there; the proof has any number of
  executors and requests.
- `settle`: one run, one job and one handler, with the routes that create, edit and sync, one leave and
  one loan (the order of the two reads matters), one manual row with amounts up to 2, two faults: one on
  the first attempt and one on a retry.
- One employee in both: the statements treat employees as a set read at once, so a job
  sees a set that is empty or not; two employees add no case to what the runs
  check. The proofs hold for any number.
- `loans`: one loan (loans share nothing), two deciders, amounts to 4, so that installments divide
  the amount or do not and the last one is shorter; start months 1 to 3, payments recorded for months up to 6
  and five months of payroll, one more than the longest loan needs.
- `requests`: two requests on two days, an entitlement of one day and a carry of none or one, so that
  one request uses it up or two do; two creators, one decider of the main backend, one of the portal. No deaths
  here, no cache.
- `books`: one request of one day, which the portal may submit; two adjustments of one day by two
  adjusters, one creator and one decider, the cache, a row that does not exist at the start, one death.
- `cached`: two requests, three days, two days of entitlement.
- `billing`: one session, since sessions share nothing but the tenant's row; two handlers two deliveries; two
  adders are the smallest overlap, and the proof has any number; one archived and one
  unchecked employee, capacities 1 and 2 over a free 1 and a term that ends within the run, so
  that limits rise and fall; two deaths.
- `custody`: one asset (assets share nothing), given three times, so that it is given, returned
  and given again while a maintenance of it ends; one ticket, because a resolved one may be resolved again;
  three people, so that two collide while the third is at something else; one death.
- `points`: one recognition (they share nothing but balances), two people and two amounts, so
  that an edit can change both between two awards; grants to a balance of one, the smallest that can be
  redeemed twice; one death. `overdraft` has a balance of two.
- `lifecycle`: one employee; two steps and two items are the two last ones of anything;
  two exits for the same employee; two requests at a time.
- Deadlock is checked for payroll (`Quiet` is the stutter of a period in which nobody
  has anything under way; a job that cannot move would be a deadlock). Loans
  may stop: every loan can be repaid, rejected or deleted and every month run; leave,
  assignments, steps, sessions and recognitions may be used up too, hence `CHECK_DEADLOCK FALSE`.

### Fairness

Payroll: only `WF_vars(Execute(q))` for each job: BullMQ keeps handing waiting jobs to
executors, and an executor that has begun a statement finishes it or fails.
Nothing is assumed of HR. Faults are bounded by `MaxFaults`, which stands for
attempts being bounded anyway. Weak fairness is enough because a waiting job
only loses its turn to jobs that end.

Subscription: weak fairness of the deliveries of a session, which Stripe repeats until it has
an answer, and of a handler that has started. Deaths are bounded by `MaxFaults`. Nothing
is assumed of the customer or of HR.

Recognition: weak fairness of a request that has started (`Continue`), which Node goes on with
unless the process stops.

## 5. What is proved

No theorem assumes that requests take turns or that HR keeps to a discipline: each is about
`Spec`, for every value of the constants.

For every set of runs, employees, adjustments, leaves, loans, requests and
handlers, any number of attempts, faults and executors (`PayrollRunProofs`):

- `PayrollTyped`, `PayrollTotalsFoot`, `PayrollNoOrphans`, `PayrollApprovedIsPaid`,
  `PayrollNoDoubleDeduction`.

  `TotalsFoot` is not inductive as it stands: a commit removes the inserts its
  DELETE saw, and the totals must not describe one of those without being
  replaced; the transaction writes both together. `ApprovedIsPaid` and
  `NoOrphans` lean on each other and on the commit requiring the run to exist.
  `NoDoubleDeduction` follows from the clash test: the rows kept are those not
  seen, and none of them has a source that is about to be inserted.

- `PayrollPayslipsBounded`. The invariant `BlindBounded` looks at any set of inserts that are in a run
  together: they and the jobs that are about to commit there and saw none of them are never more than the
  executors. A commit of a job that saw none of them moves it from the second kind to the first
  (`Exchange`); a DELETE sees all that is there; and only a running job commits (`RunningBounded`).

- `PayrollCompletedJobsPaid` and `PayrollImplementsPeriod`, `Spec => PaidOnceForGood`: every step of the
  detailed model is a step of `PayrollPeriod` or a stutter, a run whose jobs have overlapped counting as one
  that is still open.

  The invariant `Serial` has five parts: two jobs of one run that run at a time have been noted; a run that
  is a draft or in processing is unpaid; the run of a job that runs and has not committed is unpaid; a run
  has at most one insert; a job that has committed has its insert in its run, each of runs that were not
  noted. The second part is what makes `Begin`'s check of the status mean "nobody has been
  paid", and the first is what keeps it true until the commit.

For every set of loans and deciders (`LoansProofs`), whatever decisions race: `LoansTyped`,
`LoansBalance`, `LoansMonthsDistinct`, `LoansPaymentsCounted` and `LoansConserved`. The balance
is proved from the shape of one payment (cap, then subtraction): the invariant `Books` says for
each loan that the balance is the one the plan prescribes, that the payments are a finite set with
a row per installment counted, and that a loan not yet requested has none. `LoansConserved` adds
the payments up (`SumProofs`) and moves one installment from the balance to the sum.

Of the loans nobody contested: `LoansClosedWhenRepaid` and `LoansPaidInOrder`. Neither is inductive. `Orderly`
adds that a decision under way is about a loan that is still pending, that the last payment made was
needed (one fewer would not have covered the amount), and that the paid months are those from the start
on; `RacesNoted` is why a decision on a loan that is not contested meets no other.
That `Installments`, a quotient rounded up, is the number of payments needed is
`CeilingBounds`: it is the only number `n` with `(n - 1) * m < a <= n * m`.

With payroll (`PayrollLoans`): `PayrollKeepsLoans`, every step of `PayrollLoans` is a step of
`Loans` or none, so the above holds there too; `PayrollLoansTyped`, with the invariant
`Counted` (no month deducts twice from a loan); and `PayrollOverWithheldBounded`. Its
invariant `Capped` bounds what was withheld by an installment for each deduction as well as by the loan
and the backlog: a deduction is capped at the balance, which `Books` ties to the payments recorded, and
what deductions are ahead of payments has just been noted (`OneMoreDeduction`).

For every set of requests, adjustments and handlers, and any number of handlers
that die (`LeaveProofs`), with any number of creators, deciders, adjusters and users of the portal, with
or without the cache:

- `LeaveTyped`, with `Refers` as the strengthening: a handler that is about to write
  knows what.
- `LeavesNeverOverlap`. `NoOverlap` says nothing of handlers on their way, so the
  invariant adds `Cleared`: from the check of a creator that is alone to its insert, no request that counts
  meets the dates checked. `CrowdNoted` is why nobody else inserts one that counts meanwhile. Every other
  step leaves it alone because none makes a request count (`Quiet`): a decision was pending, a
  cancellation is not, and what the portal submits or revives does not count.
- `LeaveAskedWithinEntitlement`. The balance is read in two statements, so the
  invariant `Covered` says that the requests read as active still include all that count
  (`row`), and that what was found to fit goes on fitting until the insert. Decisions,
  cancellations, deaths, adjustments and the opening of the year do not disturb it (`NothingMoreAsked`),
  since the bound is the highest entitlement so far.
- `LeaveTakenIsApproved`. `Tallied` says by how much the balance is behind between
  a decision and its effect, and that a cancellation on its way has read the status the request
  still has: only then does it give back what was taken. `DecidersApart` is what follows of the column not
  being noted.
- `LeaveAdjustmentsFoot`. `Footed` says by how much the record is behind
  between the balance and its audit row, that a total computed in advance is still right if the
  row is as it was read, and that a balance without a row has no adjustments on record, which is
  why opening the year loses none; `AdjustersApart` is its counterpart.

Sums (`SumProofs`). `SumFunction` is a recursion over subsets. What it does to a set with one element more
(`SumWith`), without one (`SumWithout`), with equal values (`SumSame`) and to a subset (`SumOfSubset`) is
proved by looking at a smallest set on which the claim fails, which a finite set has
(`SmallestSubset`, from the well-foundedness of inclusion in the library): an induction
that needs no theorem with an operator as parameter. That the recursion defines a function at all
(`AdderExists`) is proved the same way. `Leave` and its adjustments are finite sets
(`FiniteAssumption`), as tables are; the payments of a loan are shown to be one.

For every set of sessions and handlers (`SubscriptionProofs`), `TypeCorrect` and

- `OneReceiptAlways` and `ReceiptIsServiceAlways`, however deliveries overlap. The invariant `Settling` says
  what a handler between two statements may rely on: it is the only one at a session that was not noted
  (`Alone`), such a session has no receipt before `WriteReceipt`, and any session was served from `Activate` on.
- `SeatsBoundedAlways`, for any number of adders and whatever becomes of the capacity:
  `Seated` bounds the staff *plus* the adders that have passed the count, each of which
  saw a staff below a limit that was in force once.

For every set of assets, assignments and people, whatever overlaps and dies (`AssetsProofs`):
`TypeCorrect`, `OneHolderAlways`, `HeldIsAssignedAlways` and `AssetsImplementCustody`. The invariant `Kept`
ties the two tables and the program counters of the assets that are not astray together: one writing request is
at such an asset (`Alone`), one that is about to assign it or to write its status has found that nobody
holds it or has closed the assignment (`Vacant`), what it is about to close is an open assignment
of it (`Closing`), and the update that may come at any time, the end of a maintenance, asks for a status a held asset
never has. A death between an insert and the update after it is noted; any other leaves `Kept` as it is.

For every set of recognitions, people and requests (`RecognitionProofs`): `TypeCorrect`,
`BalancedAlways`, `AwardedOnceAlways`, `PublishedForGoodAlways`, `EarnedWasPublishedAlways` (inductive
with `Published`: whoever is about to award has published what stays published), and, for a finite set of
requests, `OverdraftBoundedAlways`. That bound is not inductive: the invariant `Slack` counts the redemptions of a person
that are checked and not yet made, and says that what is redeemed and what they may redeem is covered by
the balance, but for the largest amount for each other request. A check that succeeds has the whole balance in front of
it, which starts the count afresh.

For every set of employees, exits, steps, items and requests (`EmploymentProofs`):
`TypeCorrect`, `GraduatesWhenDoneAlways`, `SomebodyNoticesAlways`, `LeaversStayAlways`, `DecidedOnceAlways`.
`GraduatesWhenDone` says nothing of requests on their way; `Owed` does: while somebody onboarding
has all steps done, a request about them is about to count, or has counted 100 and is about to save
or to graduate. A request that completes a step counts after its own update, so the
last to count sees all of them. `Noticed` is `SomebodyNotices` and that unused items belong to
nobody.

The type invariants that are proved are not checked by the runs a second time.

Only model-checked: liveness (`JobsSettle`, `PaidIsServed`, `PublishedIsCredited`), because
fairness and ENABLED are beyond the prover. Every other property of a passing run has a theorem, for
every value of the constants that meets the modules' assumptions on them (the
bounds are numbers, `NoRun` is no run and the like); no theorem assumes anything else. What the
`twice`, `cached` and `overdraft` runs refute needs no proof: their counterexamples are executions.

## 6. What is left out of the modelled parts

Payslip amounts and the earnings resolution, the WPS file, e-mail and cache
invalidation after a run, the readiness report, notes; matching of spreadsheet
rows and import history; days of the month in loan schedules; binary fractions in amounts (`ceil` of a
quotient in `createLoan` can count an installment too many). BullMQ may hand a
stalled job to a second executor while the first still runs it: its effect is the
overlap of two jobs, which the models have, but the stalled executor itself is not
modelled. For leave: attendance rows marked after an approval, the closing of a year,
expiry of carried days, policies edited during the year, air tickets, offsets,
a cache write that arrives after a later invalidation, and
`softDeleteLeaveRequest`, which no route calls. For subscriptions: enterprise plans, upgrade
requests, reminders, which payment wins when an older one is delivered last. For
recognitions: comments, reactions, the workflow shown next to the status, recognitions
without points. For assets: categories, codes and lists. For exits: the amounts of a settlement,
the exit interview (which may refuse an approval as well) and what the workflows do; requests that
die are not in `Employment`. Other writers of an employee's status (edits by HR, archiving) are
outside it too. Tenants are independent, every query being filtered by tenant.

## 7. Plan

What is left, the most important first:

1. `Leave`, the rest: attendance rows, which an approval marks and a cancellation does not
   take back; the closing of a year against its opening; a bank account of days as the
   abstract specification.
2. Recruitment: stages of a candidate and the conversion into an employee, composed with
   `Employment` (its checklist) and `Subscription` (its seat).
3. Visa, travel and profile changes: request-and-approve records, as one module
   with the statuses of each as constants if their handlers turn out alike.
4. Pure algorithms: the settlement's gratuity bands, pairing of punches, each
   against a reference definition.
5. Proofs: the safety argument of an abstract bank account of days, once `Leave` has one (1).
6. Authentication: refresh tokens and lockout under concurrent logins.

### Not modelled, and why

Record keeping without steps that interact (organisation and catalogues, announcements,
complaints, performance, training), read-only views, and the frontends have no state whose order of
changes a model checker could get wrong; they are most of the repository's lines. Infrastructure
(mail, storage, WebSocket registry) is outside calls. The rest of the list above is not
modelled because it has not been reached.
