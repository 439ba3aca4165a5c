----------------------------- MODULE PayrollRun -----------------------------
(* Payroll for one tenant and one (year, month): the run row, its payslips,  *)
(* the adjustment ledger, the jobs that execute runPayroll and the HR        *)
(* requests that race with them.                                             *)
(*                                                                           *)
(* The database is Postgres at READ COMMITTED and every await outside        *)
(* db.transaction is a statement of its own, so a job is a little program    *)
(* with one action per statement and everybody else may act in between.      *)
(* Inside a transaction the first statement fixes which rows it will         *)
(* replace (the DELETE's snapshot) and the commit publishes all of it.       *)
EXTENDS Naturals, FiniteSets

CONSTANTS
    Run,            \* run rows that may be created for the period
    NoRun,          \* "no run": a job nobody has submitted
    Emp,            \* employees
    Adj,            \* HR-entered (manual) adjustments
    Leave,          \* leaves of the period that call for a deduction
    Loan,           \* loans of the employees
    Req,            \* POST /payroll/:id/run requests, each one a job
    Handler,        \* other HR requests that take several statements
    Routes,         \* which adjustment routes HR uses
    Concurrency,    \* jobs executing at a time
    Attempts,       \* times a job is tried: 3 on the queue, 1 without Redis
    MaxFaults,      \* bound: crashes and database errors
    MaxAmount       \* bound: amounts of a manual adjustment

ASSUME RunAssumption == NoRun \notin Run
ASSUME ProcessAssumption == Req \cap Handler = {}
ASSUME RoutesAssumption == Routes \subseteq {"create", "edit", "sync"}
ASSUME RequestsAssumption == IsFiniteSet(Req)
ASSUME NumbersAssumption ==
    /\ Concurrency \in Nat \ {0}
    /\ Attempts \in Nat \ {0}
    /\ MaxFaults \in Nat
    /\ MaxAmount \in Nat

VARIABLES
    status,     \* status[r] of payroll_runs, "none" before and "deleted" after
    payslips,   \* payslips[r]: one member for each insert of payslip rows
    totals,     \* totals[r]: the insert the run's total columns describe
    manual,     \* manual[a]: amount of adjustment a, 0 when there is none
    auto,       \* auto-imported ledger rows of the period
    payable,    \* active or onboarding employees, not archived
    sources,    \* leaves approved and loans active by now
    job,        \* job[p]: program counter and locals of process p
    faults,     \* faults so far
    overlapped  \* history: runs two of whose jobs have been running at a time

database == <<status, payslips, totals>>
ledger == <<manual, auto>>
world == <<payable, sources>>
past == <<faults, overlapped>>
vars == <<database, ledger, world, job, past>>

Source == Leave \cup Loan
Process == Req \cup Handler
Amount == 0 .. MaxAmount

AutoRow == [src : Source, by : Process, try : 1 .. Attempts]
Book == [manual : [Adj -> Amount], auto : SUBSET Source]
Batch == [by : Req, try : 1 .. Attempts, emps : SUBSET Emp, book : Book]

Status == {"none", "draft", "processing", "approved", "wps_submitted", "deleted"}
Live == Status \ {"none", "deleted"}

\* Program counters at which a job occupies an executor.
Active == {"mark", "employees", "revert", "sync", "leaves", "loans", "swap",
           "fill", "totals", "replace", "commit", "ack"}
PC == Active \cup {"idle", "waiting", "write", "done", "failed"}

EmptyBook == [manual |-> [a \in Adj |-> 0], auto |-> {}]
Idle == [pc |-> "idle", run |-> NoRun, try |-> 1, staff |-> {}, want |-> {},
         rows |-> {}, book |-> EmptyBook, slips |-> {}]

JobState == [pc : PC, run : Run \cup {NoRun}, try : 1 .. Attempts,
             staff : SUBSET Emp, want : SUBSET Source, rows : SUBSET AutoRow,
             book : Book, slips : SUBSET Batch]

TypeOK ==
    /\ status \in [Run -> Status]
    /\ payslips \in [Run -> SUBSET Batch]
    /\ totals \in [Run -> SUBSET Batch]
    /\ manual \in [Adj -> Amount]
    /\ auto \subseteq AutoRow
    /\ payable \subseteq Emp
    /\ sources \subseteq Source
    /\ job \in [Process -> JobState]
    /\ faults \in 0 .. MaxFaults
    /\ overlapped \subseteq Run

Init ==
    /\ status = [r \in Run |-> "none"]
    /\ payslips = [r \in Run |-> {}]
    /\ totals = [r \in Run |-> {}]
    /\ manual = [a \in Adj |-> 0]
    /\ auto = {}
    /\ payable = Emp
    /\ sources \in SUBSET Source
    /\ job = [p \in Process |-> Idle]
    /\ faults = 0
    /\ overlapped = {}

-----------------------------------------------------------------------------
(* Helpers.                                                                  *)

At(p, pc) == job[p].pc = pc
Goto(p, pc) == job' = [job EXCEPT ![p].pc = pc]
Exists(r) == status[r] \in Live

\* UPDATE payroll_runs SET status WHERE id: no row, no effect, no error.
UpdateStatus(r, s) ==
    status' = [status EXCEPT ![r] = IF Exists(r) THEN s ELSE @]

\* isPeriodLocked: the period's run exists and has left draft.
Locked == \E r \in Run : Exists(r) /\ status[r] # "draft"

\* A finished process keeps its result and forgets its locals.
Ended(p, pc) == [Idle EXCEPT !.pc = pc, !.run = job[p].run, !.try = job[p].try]

\* Mutant: attempts are not counted.
ThrownForever(p) == Ended(p, IF p \in Req THEN "waiting" ELSE "failed")

\* The processor threw: BullMQ puts the job back until its attempts run out.
Thrown(p) ==
    IF p \in Req /\ job[p].try < Attempts
    THEN [Ended(p, "waiting") EXCEPT !.try = @ + 1]
    ELSE Ended(p, "failed")

\* Where a process goes once the ledger is in sync.
AfterSync(p) == IF p \in Req THEN [job[p] EXCEPT !.pc = "totals", !.rows = {}]
                             ELSE Ended(p, "done")

-----------------------------------------------------------------------------
(* HR's requests on the run row.                                             *)

CreatePayrollRun(r) ==
    /\ status[r] = "none"
    /\ \A other \in Run : ~Exists(other)    \* payroll_month_year_unique
    /\ status' = [status EXCEPT ![r] = "draft"]
    /\ UNCHANGED <<payslips, totals, ledger, world, job, past>>

\* Mutant: any run may be deleted.
DeleteAnyRun(r) ==
    /\ Exists(r)
    /\ status' = [status EXCEPT ![r] = "deleted"]
    /\ payslips' = [payslips EXCEPT ![r] = {}]
    /\ totals' = [totals EXCEPT ![r] = {}]
    /\ UNCHANGED <<ledger, world, job, past>>

\* Mutant: the foreign key does not cascade.
DeleteKeepsPayslips(r) ==
    /\ status[r] = "draft"
    /\ status' = [status EXCEPT ![r] = "deleted"]
    /\ totals' = [totals EXCEPT ![r] = {}]
    /\ UNCHANGED <<payslips, ledger, world, job, past>>

\* DELETE ... WHERE status = 'draft'; the payslips go with the row.
DeletePayrollRun(r) ==
    /\ status[r] = "draft"
    /\ status' = [status EXCEPT ![r] = "deleted"]
    /\ payslips' = [payslips EXCEPT ![r] = {}]
    /\ totals' = [totals EXCEPT ![r] = {}]
    /\ UNCHANGED <<ledger, world, job, past>>

\* No condition on the status the run is in.
SubmitWps(r) ==
    /\ Exists(r)
    /\ UpdateStatus(r, "wps_submitted")
    /\ UNCHANGED <<payslips, totals, ledger, world, job, past>>

\* The route accepts a run that is a draft when it looks.
AdmitRun(q, r) ==
    /\ At(q, "idle")
    /\ status[r] = "draft"
    /\ job' = [job EXCEPT ![q] = [job[q] EXCEPT !.pc = "waiting", !.run = r]]
    /\ UNCHANGED <<database, ledger, world, past>>

-----------------------------------------------------------------------------
(* runPayroll, one statement at a time.                                      *)

Running == {q \in Req : job[q].pc \in Active}

\* Another job of the same run is running.
Overlaps(q) == \E p \in Running : p # q /\ job[p].run = job[q].run

\* getPayrollRun finds a draft.
Begin(q) ==
    /\ At(q, "waiting")
    /\ Cardinality(Running) < Concurrency
    /\ status[job[q].run] = "draft"
    /\ Goto(q, "mark")
    /\ overlapped' = IF Overlaps(q) THEN overlapped \cup {job[q].run} ELSE overlapped
    /\ UNCHANGED <<database, ledger, world, faults>>

\* ... or anything else, and the worker throws.
Refuse(q) ==
    /\ At(q, "waiting")
    /\ Cardinality(Running) < Concurrency
    /\ status[job[q].run] # "draft"
    /\ job' = [job EXCEPT ![q] = Thrown(q)]
    /\ UNCHANGED <<database, ledger, world, past>>

MarkProcessing(q) ==
    /\ At(q, "mark")
    /\ UpdateStatus(job[q].run, "processing")
    /\ Goto(q, "employees")
    /\ UNCHANGED <<payslips, totals, ledger, world, past>>

GetPayableEmployees(q) ==
    /\ At(q, "employees")
    /\ job' = [job EXCEPT ![q] = [job[q] EXCEPT
                 !.staff = payable,
                 !.pc = IF payable = {} THEN "revert" ELSE "sync"]]
    /\ UNCHANGED <<database, ledger, world, past>>

\* Mutant: the worker takes a reverted run for a completed one.
RevertCompletes(q) ==
    /\ At(q, "revert")
    /\ UpdateStatus(job[q].run, "draft")
    /\ job' = [job EXCEPT ![q] = Ended(q, "done")]
    /\ UNCHANGED <<payslips, totals, ledger, world, past>>

RevertToDraft(q) ==
    /\ At(q, "revert")
    /\ UpdateStatus(job[q].run, "draft")
    /\ job' = [job EXCEPT ![q] = Thrown(q)]
    /\ UNCHANGED <<payslips, totals, ledger, world, past>>

\* getAdjustmentTotalsByEmployee and resolveEmployeeEarnings.
ReadTotals(q) ==
    /\ At(q, "totals")
    /\ job' = [job EXCEPT ![q] = [job[q] EXCEPT
                 !.book = [manual |-> manual, auto |-> {row.src : row \in auto}],
                 !.pc = "replace"]]
    /\ UNCHANGED <<database, ledger, world, past>>

\* The transaction's DELETE reaches the payslips committed by now.
DeletePayslips(q) ==
    /\ At(q, "replace")
    /\ job' = [job EXCEPT ![q] = [job[q] EXCEPT
                 !.slips = payslips[job[q].run], !.pc = "commit"]]
    /\ UNCHANGED <<database, ledger, world, past>>

\* buildPayslipsAndTotals: a payslip for each employee read, none skipped.
BatchOf(q) == [by |-> q, try |-> job[q].try, emps |-> job[q].staff, book |-> job[q].book]

\* Mutant: the payslips of an earlier calculation stay.
CommitKeepsOld(q) ==
    /\ At(q, "commit")
    /\ LET r == job[q].run IN
         /\ Exists(r)
         /\ payslips' = [payslips EXCEPT ![r] = @ \cup {BatchOf(q)}]
         /\ totals' = [totals EXCEPT ![r] = {BatchOf(q)}]
         /\ UpdateStatus(r, "approved")
    /\ Goto(q, "ack")
    /\ UNCHANGED <<ledger, world, past>>

\* Mutant: totals are written for the first calculation only.
CommitKeepsTotals(q) ==
    /\ At(q, "commit")
    /\ LET r == job[q].run IN
         /\ Exists(r)
         /\ payslips' = [payslips EXCEPT ![r] = (@ \ job[q].slips) \cup {BatchOf(q)}]
         /\ totals' = [totals EXCEPT ![r] = IF @ = {} THEN {BatchOf(q)} ELSE @]
         /\ UpdateStatus(r, "approved")
    /\ Goto(q, "ack")
    /\ UNCHANGED <<ledger, world, past>>

\* Mutant: the old payslips are deleted after the new ones are in.
CommitDeletesLast(q) ==
    /\ At(q, "commit")
    /\ LET r == job[q].run IN
         /\ Exists(r)
         /\ payslips' = [payslips EXCEPT ![r] = {}]
         /\ totals' = [totals EXCEPT ![r] = {BatchOf(q)}]
         /\ UpdateStatus(r, "approved")
    /\ Goto(q, "ack")
    /\ UNCHANGED <<ledger, world, past>>

\* INSERT, UPDATE and COMMIT.
CommitPayslips(q) ==
    /\ At(q, "commit")
    /\ LET r == job[q].run IN
         /\ Exists(r)
         /\ payslips' = [payslips EXCEPT ![r] = (@ \ job[q].slips) \cup {BatchOf(q)}]
         /\ totals' = [totals EXCEPT ![r] = {BatchOf(q)}]
         /\ UpdateStatus(r, "approved")
    /\ Goto(q, "ack")
    /\ UNCHANGED <<ledger, world, past>>

\* The INSERT breaks the foreign key to a run deleted meanwhile.
CommitFails(q) ==
    /\ At(q, "commit")
    /\ ~Exists(job[q].run)
    /\ job' = [job EXCEPT ![q] = Thrown(q)]
    /\ UNCHANGED <<database, ledger, world, past>>

\* Cache and e-mail, then the job is acknowledged (or the request answered).
Acknowledge(q) ==
    /\ At(q, "ack")
    /\ job' = [job EXCEPT ![q] = Ended(q, "done")]
    /\ UNCHANGED <<database, ledger, world, past>>

\* A crash, or a statement that fails, while the job runs; an open
\* transaction is rolled back.
Fail(q) ==
    /\ faults < MaxFaults
    /\ q \in Running
    /\ job' = [job EXCEPT ![q] = Thrown(q)]
    /\ faults' = faults + 1
    /\ UNCHANGED <<database, ledger, world, overlapped>>

-----------------------------------------------------------------------------
(* syncAdjustmentsForPeriod, called by runPayroll and by a route.            *)

\* No payable employee: it returns without touching the ledger.
SyncNobody(p) ==
    /\ At(p, "sync")
    /\ payable = {}
    /\ job' = [job EXCEPT ![p] = AfterSync(p)]
    /\ UNCHANGED <<database, ledger, world, past>>

SyncStaff(p) ==
    /\ At(p, "sync")
    /\ payable # {}
    /\ Goto(p, "leaves")
    /\ UNCHANGED <<database, ledger, world, past>>

ReadLeaves(p) ==
    /\ At(p, "leaves")
    /\ job' = [job EXCEPT ![p] = [job[p] EXCEPT
                 !.want = sources \cap Leave, !.pc = "loans"]]
    /\ UNCHANGED <<database, ledger, world, past>>

ReadLoans(p) ==
    /\ At(p, "loans")
    /\ job' = [job EXCEPT ![p] = [job[p] EXCEPT
                 !.want = job[p].want \cup (sources \cap Loan), !.pc = "swap"]]
    /\ UNCHANGED <<database, ledger, world, past>>

DeleteAutoRows(p) ==
    /\ At(p, "swap")
    /\ job' = [job EXCEPT ![p] = [job[p] EXCEPT !.rows = auto, !.pc = "fill"]]
    /\ UNCHANGED <<database, ledger, world, past>>

\* Rows another sync committed after our DELETE looked.
Unseen(p) == auto \ job[p].rows
Clash(p) == \E row \in Unseen(p) : row.src \in job[p].want

\* Mutant: no unique index on the auto rows.
InsertWithoutIndex(p) ==
    /\ At(p, "fill")
    /\ auto' = Unseen(p) \cup
               {[src |-> s, by |-> p, try |-> job[p].try] : s \in job[p].want}
    /\ job' = [job EXCEPT ![p] = AfterSync(p)]
    /\ UNCHANGED <<database, manual, world, past>>

InsertAutoRows(p) ==
    /\ At(p, "fill")
    /\ ~Clash(p)
    /\ auto' = Unseen(p) \cup
               {[src |-> s, by |-> p, try |-> job[p].try] : s \in job[p].want}
    /\ job' = [job EXCEPT ![p] = AfterSync(p)]
    /\ UNCHANGED <<database, manual, world, past>>

\* uq_payroll_adj_auto: one row for each leave or loan of the period.
InsertClashes(p) ==
    /\ At(p, "fill")
    /\ Clash(p)
    /\ job' = [job EXCEPT ![p] = Thrown(p)]
    /\ UNCHANGED <<database, ledger, world, past>>

Sync(p) ==
    \/ SyncNobody(p)
    \/ SyncStaff(p)
    \/ ReadLeaves(p)
    \/ ReadLoans(p)
    \/ DeleteAutoRows(p)
    \/ InsertAutoRows(p)
    \/ InsertClashes(p)

-----------------------------------------------------------------------------
(* HR's requests on the ledger.                                              *)

\* POST /adjustments, POST /adjustments/bulk: the lock is read first ...
CheckLockThenWrite(h) ==
    /\ "create" \in Routes
    /\ At(h, "idle")
    /\ ~Locked
    /\ Goto(h, "write")
    /\ UNCHANGED <<database, ledger, world, past>>

\* ... and the row inserted, or by a bulk upload updated, after it.
WriteAdjustment(h, a, amount) ==
    /\ At(h, "write")
    /\ amount > 0
    /\ manual' = [manual EXCEPT ![a] = amount]
    /\ Goto(h, "done")
    /\ UNCHANGED <<database, auto, world, past>>

\* PATCH /adjustments/:id writes and only then looks at the lock, to log it.
UpdateAdjustment(a, amount) ==
    /\ "edit" \in Routes
    /\ manual[a] > 0 /\ amount > 0
    /\ manual' = [manual EXCEPT ![a] = amount]
    /\ UNCHANGED <<database, auto, world, job, past>>

\* DELETE /adjustments/:id never looks.
DeleteAdjustment(a) ==
    /\ "edit" \in Routes
    /\ manual[a] > 0
    /\ manual' = [manual EXCEPT ![a] = 0]
    /\ UNCHANGED <<database, auto, world, job, past>>

\* POST /adjustments/sync.
CheckLockThenSync(h) ==
    /\ "sync" \in Routes
    /\ At(h, "idle")
    /\ ~Locked
    /\ Goto(h, "sync")
    /\ UNCHANGED <<database, ledger, world, past>>

-----------------------------------------------------------------------------
(* The rest of the system, as payroll sees it.                               *)

\* Employees join, leave and are archived.
StaffChanges(e) ==
    /\ payable' = IF e \in payable THEN payable \ {e} ELSE payable \cup {e}
    /\ UNCHANGED <<database, ledger, sources, job, past>>

\* Leaves are approved or cancelled, loans approved or closed.
SourceChanges(s) ==
    /\ sources' = IF s \in sources THEN sources \ {s} ELSE sources \cup {s}
    /\ UNCHANGED <<database, ledger, payable, job, past>>

\* Nobody has anything under way.
Quiet ==
    /\ \A p \in Process : job[p].pc \in {"idle", "done", "failed"}
    /\ UNCHANGED vars

-----------------------------------------------------------------------------

\* What the executor does with a job, faults aside.
Execute(q) ==
    \/ Begin(q)
    \/ Refuse(q)
    \/ MarkProcessing(q)
    \/ GetPayableEmployees(q)
    \/ RevertToDraft(q)
    \/ Sync(q)
    \/ ReadTotals(q)
    \/ DeletePayslips(q)
    \/ CommitPayslips(q)
    \/ CommitFails(q)
    \/ Acknowledge(q)

Manage(r) ==
    \/ CreatePayrollRun(r)
    \/ DeletePayrollRun(r)
    \/ SubmitWps(r)
    \/ \E q \in Req : AdmitRun(q, r)

Serve(h) ==
    \/ CheckLockThenWrite(h)
    \/ \E a \in Adj, amount \in Amount : WriteAdjustment(h, a, amount)
    \/ CheckLockThenSync(h)
    \/ Sync(h)

Edit(a) ==
    \/ \E amount \in Amount : UpdateAdjustment(a, amount)
    \/ DeleteAdjustment(a)

Next ==
    \/ \E r \in Run : Manage(r)
    \/ \E q \in Req : Execute(q) \/ Fail(q)
    \/ \E h \in Handler : Serve(h)
    \/ \E a \in Adj : Edit(a)
    \/ \E e \in Emp : StaffChanges(e)
    \/ \E s \in Source : SourceChanges(s)
    \/ Quiet

Spec == Init /\ [][Next]_vars

\* The queue keeps serving its jobs; nobody owes us an HR request.
FairSpec == Spec /\ \A q \in Req : WF_vars(Execute(q))

-----------------------------------------------------------------------------
(* Safety that survives any overlap of jobs.                                 *)

\* The totals on a run describe payslips that are there: delete, insert and
\* update of a calculation commit together, so however jobs interleave the
\* last one to finish leaves its own payslips behind its own totals
\* (runPayroll's transaction).
TotalsFoot == \A r \in Run : totals[r] \subseteq payslips[r]

\* No payslip hangs off a run that is gone, even when the run is deleted
\* under a job that has read it as a draft (foreign key and cascade).
NoOrphans == \A r \in Run : payslips[r] # {} => Exists(r)

\* A run shown as approved has payslips behind it: neither a late revert nor
\* a second calculation leaves an approved run empty.
ApprovedIsPaid == \A r \in Run : status[r] = "approved" => payslips[r] # {}

\* A leave or loan is deducted at most once from the period, also when two
\* syncs replace the auto rows at the same time (syncAdjustmentsForPeriod).
NoDoubleDeduction == \A x, y \in auto : x.src = y.src => x = y

\* Nobody has more payslips in a run than there are executors: of the inserts
\* that are there together, each was made by a job that had looked for old
\* payslips before the first of the others committed, so their jobs ran at
\* the same time (runPayroll's delete-and-insert, startPayrollWorker's
\* concurrency).
PayslipsBounded == \A r \in Run : Cardinality(payslips[r]) <= Concurrency

-----------------------------------------------------------------------------
(* Safety of a run whose jobs do not overlap.  Nothing in the code keeps     *)
(* them apart: the worker has two executors, and the route admits as many    *)
(* requests for a draft as it is sent.                                       *)

\* Nobody has two payslips in a run: what the transaction's "idempotent"
\* replace is for, and what two overlapping jobs of one run defeat.
OnePayslipEach ==
    \A r \in Run : \A b, c \in payslips[r] : b.emps \cap c.emps # {} => b = c

\* A job reported as completed has paid: its own payslips stay in the run
\* whatever HR, retries and other jobs do afterwards, unless two jobs of the
\* run overlapped.
CompletedJobsPaid ==
    \A q \in Req : At(q, "done") /\ job[q].run \notin overlapped
        => \E b \in payslips[job[q].run] : b.by = q

\* Payroll as a whole: one run at a time for the period, paid once, for good.
\* A run whose jobs overlapped counts as one that is still open: nobody can
\* say what has been paid by it, and the period is taken.
PhaseOf(r) ==
    IF status[r] = "none" THEN "none"
    ELSE IF status[r] = "deleted" THEN "gone"
    ELSE IF payslips[r] # {} /\ r \notin overlapped THEN "paid"
    ELSE "open"

IssuedBy(r) == IF r \in overlapped THEN {} ELSE payslips[r]

Period == INSTANCE PayrollPeriod WITH
    Issue <- Batch,
    issued <- [r \in Run |-> IssuedBy(r)],
    phase <- [r \in Run |-> PhaseOf(r)]

\* Every run whose jobs do not overlap is paid once, by one job, for good,
\* and there is never more than one run of the period.
PaidOnceForGood == Period!Spec

-----------------------------------------------------------------------------
(* Liveness.                                                                 *)

\* Every job comes to an end, done or failed, however often it is retried.
JobsSettle == \A q \in Req : At(q, "waiting") ~> job[q].pc \in {"done", "failed"}
=============================================================================
