--------------------------- MODULE PayrollRunProofs ---------------------------
(* Proofs about PayrollRun, for any sets of runs, employees, adjustments,    *)
(* leaves, loans, requests and handlers, any number of executors and         *)
(* attempts.                                                                 *)
EXTENDS PayrollRun, FiniteSetTheorems, TLAPS

-----------------------------------------------------------------------------
(* The records a process can be set to.                                      *)

LEMMA IdleTyped == Idle \in JobState
BY NumbersAssumption DEF Idle, JobState, PC, EmptyBook, Book, Amount

LEMMA EndedTyped ==
    ASSUME TypeOK, NEW p \in Process, NEW pc \in PC
    PROVE  Ended(p, pc) \in JobState
<1>1. job[p].run \in Run \cup {NoRun} /\ job[p].try \in 1 .. Attempts
    BY DEF TypeOK, JobState
<1>2. QED
    BY <1>1, IdleTyped DEF Ended, JobState

LEMMA ThrownTyped ==
    ASSUME TypeOK, NEW p \in Process
    PROVE  Thrown(p) \in JobState
<1>1. Ended(p, "waiting") \in JobState /\ Ended(p, "failed") \in JobState
    BY EndedTyped DEF PC
<1>2. Ended(p, "waiting").try = job[p].try
    BY DEF Ended, Idle
<1>3. job[p].try \in 1 .. Attempts
    BY DEF TypeOK, JobState
<1>4. CASE p \in Req /\ job[p].try < Attempts
  <2>1. job[p].try + 1 \in 1 .. Attempts
      BY <1>3, <1>4, NumbersAssumption
  <2>2. QED
      BY <1>1, <1>2, <1>4, <2>1 DEF Thrown, JobState
<1>5. CASE ~(p \in Req /\ job[p].try < Attempts)
    BY <1>1, <1>5 DEF Thrown
<1>6. QED
    BY <1>4, <1>5

LEMMA AfterSyncTyped ==
    ASSUME TypeOK, NEW p \in Process
    PROVE  AfterSync(p) \in JobState
<1>1. job[p] \in JobState
    BY DEF TypeOK
<1>2. [job[p] EXCEPT !.pc = "totals", !.rows = {}] \in JobState
    BY <1>1 DEF JobState, PC, Active
<1>3. QED
    BY <1>2, EndedTyped DEF AfterSync, PC

-----------------------------------------------------------------------------
(* The type invariant, with what it needs: a request that has been admitted  *)
(* knows its run.                                                            *)

RequestsHaveRuns == \A q \in Req : job[q].pc # "idle" => job[q].run \in Run

Typed == TypeOK /\ RequestsHaveRuns

(* A step that sets one process to a typed record and keeps its run.         *)
LEMMA JobTyped ==
    ASSUME Typed, NEW p \in Process, NEW j \in JobState,
           p \in Req => j.run \in Run,
           job' = [job EXCEPT ![p] = j]
    PROVE  job' \in [Process -> JobState] /\ RequestsHaveRuns'
<1>1. job' \in [Process -> JobState]
    BY DEF Typed, TypeOK
<1>2. ASSUME NEW q \in Req, job'[q].pc # "idle"
      PROVE  job'[q].run \in Run
  <2>1. q \in Process
      BY DEF Process
  <2>2. CASE q = p
      BY <2>1, <2>2 DEF Typed, TypeOK
  <2>3. CASE q # p
      BY <1>2, <2>1, <2>3 DEF Typed, TypeOK, RequestsHaveRuns
  <2>4. QED
      BY <2>2, <2>3
<1>3. QED
    BY <1>1, <1>2 DEF RequestsHaveRuns

(* The same when nothing else changes.                                       *)
LEMMA OnlyJobTyped ==
    ASSUME Typed, NEW p \in Process, NEW j \in JobState,
           p \in Req => j.run \in Run,
           job' = [job EXCEPT ![p] = j],
           UNCHANGED <<database, ledger, world, past>>
    PROVE  Typed'
BY JobTyped DEF Typed, TypeOK, database, ledger, world, past

LEMMA UpdateStatusTyped ==
    ASSUME Typed, NEW r \in Run, NEW s \in Status, UpdateStatus(r, s)
    PROVE  status' \in [Run -> Status]
BY DEF UpdateStatus, Typed, TypeOK

(* Moving the program counter of a process that has its run.                 *)
LEMMA MovedTyped ==
    ASSUME Typed, NEW p \in Process, NEW pc \in PC, p \in Req => job[p].run \in Run
    PROVE  /\ [job[p] EXCEPT !.pc = pc] \in JobState
           /\ p \in Req => [job[p] EXCEPT !.pc = pc].run \in Run
BY DEF Typed, TypeOK, JobState

(* Ending and throwing keep the run.                                         *)
LEMMA EndKeepsRun ==
    ASSUME NEW p, NEW pc
    PROVE  Ended(p, pc).run = job[p].run /\ Thrown(p).run = job[p].run
BY DEF Ended, Thrown, Idle

LEMMA SyncKeepsRun ==
    ASSUME TypeOK, NEW p \in Process
    PROVE  AfterSync(p).run = job[p].run
<1>1. job[p] \in JobState
    BY DEF TypeOK
<1>2. QED
    BY <1>1, EndKeepsRun DEF AfterSync, JobState

(* A sync keeps the types, in a job and in a route.                          *)
LEMMA SyncTyped ==
    ASSUME Typed, NEW p \in Process, Sync(p)
    PROVE  Typed'
<1> USE DEF Typed
<1>1. job[p] \in JobState
    BY DEF TypeOK
<1>2. p \in Req => job[p].run \in Run
    BY DEF Sync, SyncNobody, SyncStaff, ReadLeaves, ReadLoans, DeleteAutoRows, InsertAutoRows,
           InsertClashes, At, RequestsHaveRuns
<1>3. /\ AfterSync(p) \in JobState
      /\ p \in Req => AfterSync(p).run \in Run
    BY <1>2, AfterSyncTyped, SyncKeepsRun
<1>4. /\ Thrown(p) \in JobState
      /\ p \in Req => Thrown(p).run \in Run
    BY <1>2, ThrownTyped, EndKeepsRun
<1>5. CASE SyncNobody(p)
    BY <1>3, <1>5, OnlyJobTyped DEF SyncNobody
<1>6a. CASE SyncStaff(p)
  <2> DEFINE j == [job[p] EXCEPT !.pc = "leaves"]
  <2>1. j \in JobState /\ j.run = job[p].run
      BY <1>1 DEF JobState, PC, Active
  <2>2. job' = [job EXCEPT ![p] = j] /\ UNCHANGED <<database, ledger, world, past>>
      BY <1>6a DEF SyncStaff, Goto
  <2> HIDE DEF j
  <2>3. QED
      BY <1>2, <2>1, <2>2, OnlyJobTyped
<1>6b. CASE ReadLeaves(p)
  <2> DEFINE j == [job[p] EXCEPT !.want = sources \cap Leave, !.pc = "loans"]
  <2>1. j \in JobState /\ j.run = job[p].run
      BY <1>1 DEF JobState, PC, Active, Source
  <2>2. job' = [job EXCEPT ![p] = j] /\ UNCHANGED <<database, ledger, world, past>>
      BY <1>6b DEF ReadLeaves, Goto
  <2> HIDE DEF j
  <2>3. QED
      BY <1>2, <2>1, <2>2, OnlyJobTyped
<1>6c. CASE ReadLoans(p)
  <2> DEFINE j == [job[p] EXCEPT !.want = job[p].want \cup (sources \cap Loan), !.pc = "swap"]
  <2>1. j \in JobState /\ j.run = job[p].run
      BY <1>1 DEF JobState, PC, Active, Source
  <2>2. job' = [job EXCEPT ![p] = j] /\ UNCHANGED <<database, ledger, world, past>>
      BY <1>6c DEF ReadLoans, Goto
  <2> HIDE DEF j
  <2>3. QED
      BY <1>2, <2>1, <2>2, OnlyJobTyped
<1>7. CASE DeleteAutoRows(p)
  <2> DEFINE j == [job[p] EXCEPT !.rows = auto, !.pc = "fill"]
  <2>1. j \in JobState /\ j.run = job[p].run
      BY <1>1 DEF JobState, PC, Active, TypeOK
  <2>2. job' = [job EXCEPT ![p] = j] /\ UNCHANGED <<database, ledger, world, past>>
      BY <1>7 DEF DeleteAutoRows
  <2> HIDE DEF j
  <2>3. QED
      BY <1>2, <2>1, <2>2, OnlyJobTyped
<1>8. CASE InsertAutoRows(p)
  <2>1. job' \in [Process -> JobState] /\ RequestsHaveRuns'
      BY <1>3, <1>8, JobTyped DEF InsertAutoRows
  <2>2. {[src |-> s, by |-> p, try |-> job[p].try] : s \in job[p].want} \subseteq AutoRow
      BY <1>1 DEF JobState, AutoRow
  <2>3. auto' \subseteq AutoRow
      BY <1>8, <2>2 DEF InsertAutoRows, Unseen, TypeOK
  <2>4. QED
      BY <1>8, <2>1, <2>3 DEF InsertAutoRows, TypeOK, database, world, past
<1>9. CASE InsertClashes(p)
    BY <1>4, <1>9, OnlyJobTyped DEF InsertClashes
<1>10. QED
    BY <1>5, <1>6a, <1>6b, <1>6c, <1>7, <1>8, <1>9 DEF Sync

(* Every statement of a job keeps the types.                                 *)
LEMMA ExecuteTyped ==
    ASSUME Typed, NEW q \in Req, Execute(q) \/ Fail(q)
    PROVE  Typed'
<1> USE DEF Typed
<1>p. q \in Process /\ job[q] \in JobState
    BY DEF TypeOK, Process
<1>r. job[q].run \in Run
    BY DEF Execute, Begin, Refuse, MarkProcessing, GetPayableEmployees, RevertToDraft,
           Sync, SyncNobody, SyncStaff, ReadLeaves, ReadLoans, DeleteAutoRows, InsertAutoRows, InsertClashes,
           ReadTotals, DeletePayslips, CommitPayslips, CommitFails, Acknowledge, Fail,
           Running, Active, At, RequestsHaveRuns
<1>t. Thrown(q) \in JobState /\ Thrown(q).run \in Run
    BY <1>p, <1>r, ThrownTyped, EndKeepsRun
<1>1. CASE Begin(q)
  <2>1. "mark" \in PC
      BY DEF PC, Active
  <2>2. job' \in [Process -> JobState] /\ RequestsHaveRuns'
      BY <1>1, <1>p, <1>r, <2>1, MovedTyped, JobTyped DEF Begin, Goto
  <2>3. overlapped' \subseteq Run
      BY <1>1, <1>r DEF Begin, TypeOK
  <2>4. QED
      BY <1>1, <2>2, <2>3 DEF Begin, TypeOK, database, ledger, world
<1>2. CASE Refuse(q)
    BY <1>2, <1>p, <1>t, OnlyJobTyped DEF Refuse
<1>3. CASE MarkProcessing(q)
  <2>1. "employees" \in PC /\ "processing" \in Status
      BY DEF PC, Active, Status
  <2>2. status' \in [Run -> Status]
      BY <1>3, <1>r, <2>1, UpdateStatusTyped DEF MarkProcessing
  <2>3. job' \in [Process -> JobState] /\ RequestsHaveRuns'
      BY <1>3, <1>p, <1>r, <2>1, MovedTyped, JobTyped DEF MarkProcessing, Goto
  <2>4. QED
      BY <1>3, <2>2, <2>3 DEF MarkProcessing, TypeOK, ledger, world, past
<1>4. CASE GetPayableEmployees(q)
  <2> DEFINE j == [job[q] EXCEPT !.staff = payable,
                                 !.pc = IF payable = {} THEN "revert" ELSE "sync"]
  <2>1. j \in JobState /\ j.run = job[q].run
      BY <1>p DEF JobState, PC, Active, TypeOK
  <2>2. job' = [job EXCEPT ![q] = j] /\ UNCHANGED <<database, ledger, world, past>>
      BY <1>4 DEF GetPayableEmployees
  <2> HIDE DEF j
  <2>3. QED
      BY <1>p, <1>r, <2>1, <2>2, OnlyJobTyped
<1>5. CASE RevertToDraft(q)
  <2>1. "draft" \in Status
      BY DEF Status
  <2>2. status' \in [Run -> Status]
      BY <1>5, <1>r, <2>1, UpdateStatusTyped DEF RevertToDraft
  <2>3. job' \in [Process -> JobState] /\ RequestsHaveRuns'
      BY <1>5, <1>p, <1>t, JobTyped DEF RevertToDraft
  <2>4. QED
      BY <1>5, <2>2, <2>3 DEF RevertToDraft, TypeOK, ledger, world, past
<1>6. CASE Sync(q)
    BY <1>6, <1>p, SyncTyped
<1>7. CASE ReadTotals(q)
  <2> DEFINE b == [manual |-> manual, auto |-> {row.src : row \in auto}]
             j == [job[q] EXCEPT !.book = b, !.pc = "replace"]
  <2>1. b \in Book
      BY DEF Book, TypeOK, AutoRow
  <2>2. j \in JobState /\ j.run = job[q].run
    <3> HIDE DEF b
    <3>1. QED
        BY <1>p, <2>1 DEF JobState, PC, Active
  <2>3. job' = [job EXCEPT ![q] = j] /\ UNCHANGED <<database, ledger, world, past>>
      BY <1>7 DEF ReadTotals
  <2> HIDE DEF j
  <2>4. QED
      BY <1>p, <1>r, <2>2, <2>3, OnlyJobTyped
<1>8. CASE DeletePayslips(q)
  <2> DEFINE j == [job[q] EXCEPT !.slips = payslips[job[q].run], !.pc = "commit"]
  <2>1. payslips[job[q].run] \in SUBSET Batch
      BY <1>r DEF TypeOK
  <2>2. j \in JobState /\ j.run = job[q].run
      BY <1>p, <2>1 DEF JobState, PC, Active
  <2>3. job' = [job EXCEPT ![q] = j] /\ UNCHANGED <<database, ledger, world, past>>
      BY <1>8 DEF DeletePayslips
  <2> HIDE DEF j
  <2>4. QED
      BY <1>p, <1>r, <2>2, <2>3, OnlyJobTyped
<1>9. CASE CommitPayslips(q)
  <2> DEFINE r == job[q].run
  <2>1. "ack" \in PC /\ "approved" \in Status
      BY DEF PC, Active, Status
  <2>2. BatchOf(q) \in Batch
      BY <1>p DEF BatchOf, Batch, JobState
  <2>3. status' \in [Run -> Status]
      BY <1>9, <1>r, <2>1, UpdateStatusTyped DEF CommitPayslips
  <2>4. payslips' \in [Run -> SUBSET Batch] /\ totals' \in [Run -> SUBSET Batch]
      BY <1>9, <1>r, <2>2 DEF CommitPayslips, TypeOK
  <2>5. job' \in [Process -> JobState] /\ RequestsHaveRuns'
      BY <1>9, <1>p, <1>r, <2>1, MovedTyped, JobTyped DEF CommitPayslips, Goto
  <2>6. QED
      BY <1>9, <2>3, <2>4, <2>5 DEF CommitPayslips, TypeOK, ledger, world, past
<1>10. CASE CommitFails(q)
    BY <1>10, <1>p, <1>t, OnlyJobTyped DEF CommitFails
<1>11. CASE Acknowledge(q)
  <2>1. "done" \in PC
      BY DEF PC
  <2>2. Ended(q, "done") \in JobState /\ Ended(q, "done").run \in Run
      BY <1>p, <1>r, <2>1, EndedTyped, EndKeepsRun
  <2>3. QED
      BY <1>11, <1>p, <2>2, OnlyJobTyped DEF Acknowledge
<1>12. CASE Fail(q)
  <2>1. job' \in [Process -> JobState] /\ RequestsHaveRuns'
      BY <1>12, <1>p, <1>t, JobTyped DEF Fail
  <2>2. faults' \in 0 .. MaxFaults
      BY <1>12, NumbersAssumption DEF Fail, TypeOK
  <2>3. QED
      BY <1>12, <2>1, <2>2 DEF Fail, TypeOK, database, ledger, world
<1>13. QED
    BY <1>1, <1>2, <1>3, <1>4, <1>5, <1>6, <1>7, <1>8, <1>9, <1>10, <1>11, <1>12
       DEF Execute

(* HR's requests on the run row keep the types.                              *)
LEMMA ManageTyped ==
    ASSUME Typed, NEW r \in Run, Manage(r)
    PROVE  Typed'
<1> USE DEF Typed
<1>s. {"draft", "deleted", "wps_submitted"} \subseteq Status
    BY DEF Status
<1>1. CASE CreatePayrollRun(r)
    BY <1>1, <1>s DEF CreatePayrollRun, TypeOK, RequestsHaveRuns, ledger, world, past
<1>2. CASE DeletePayrollRun(r)
    BY <1>2, <1>s DEF DeletePayrollRun, TypeOK, RequestsHaveRuns, ledger, world, past
<1>3. CASE SubmitWps(r)
  <2>1. status' \in [Run -> Status]
      BY <1>3, <1>s, UpdateStatusTyped DEF SubmitWps
  <2>2. QED
      BY <1>3, <2>1 DEF SubmitWps, TypeOK, RequestsHaveRuns, ledger, world, past
<1>4. ASSUME NEW q \in Req, AdmitRun(q, r)
      PROVE  Typed'
  <2> DEFINE j == [job[q] EXCEPT !.pc = "waiting", !.run = r]
  <2>1. q \in Process /\ job[q] \in JobState
      BY DEF TypeOK, Process
  <2>2. j \in JobState /\ j.run = r
      BY <2>1 DEF JobState, PC
  <2>3. job' = [job EXCEPT ![q] = j] /\ UNCHANGED <<database, ledger, world, past>>
      BY <1>4 DEF AdmitRun
  <2> HIDE DEF j
  <2>4. QED
      BY <2>1, <2>2, <2>3, OnlyJobTyped
<1>5. QED
    BY <1>1, <1>2, <1>3, <1>4 DEF Manage

(* So do the requests that ask for the lock first ...                        *)
LEMMA ServeTyped ==
    ASSUME Typed, NEW h \in Handler, Serve(h)
    PROVE  Typed'
<1>h. h \in Process /\ h \notin Req
    BY ProcessAssumption DEF Process
<1>c. "write" \in PC /\ "sync" \in PC /\ "done" \in PC
    BY DEF PC, Active
<1>1. CASE CheckLockThenWrite(h)
    BY <1>1, <1>c, <1>h, MovedTyped, OnlyJobTyped DEF CheckLockThenWrite, Goto
<1>2. CASE CheckLockThenSync(h)
    BY <1>2, <1>c, <1>h, MovedTyped, OnlyJobTyped DEF CheckLockThenSync, Goto
<1>3. ASSUME NEW a \in Adj, NEW amount \in Amount, WriteAdjustment(h, a, amount)
      PROVE  Typed'
  <2>1. job' \in [Process -> JobState] /\ RequestsHaveRuns'
      BY <1>3, <1>c, <1>h, MovedTyped, JobTyped DEF WriteAdjustment, Goto
  <2>2. QED
      BY <1>3, <2>1 DEF WriteAdjustment, Typed, TypeOK, database, world, past
<1>4. CASE Sync(h)
    BY <1>4, <1>h, SyncTyped
<1>5. QED
    BY <1>1, <1>2, <1>3, <1>4 DEF Serve

(* ... those that do not, and the world around.                              *)
LEMMA OutsideTyped ==
    ASSUME Typed,
           \/ \E a \in Adj : Edit(a)
           \/ \E e \in Emp : StaffChanges(e)
           \/ \E s \in Source : SourceChanges(s)
           \/ UNCHANGED vars
    PROVE  Typed'
<1> USE DEF Typed, RequestsHaveRuns
<1>1. ASSUME NEW a \in Adj, Edit(a)
      PROVE  Typed'
  <2>1. ASSUME NEW amount \in Amount, UpdateAdjustment(a, amount)
        PROVE  Typed'
      BY <2>1 DEF UpdateAdjustment, TypeOK, database, world, past
  <2>2. CASE DeleteAdjustment(a)
      BY <2>2, NumbersAssumption DEF DeleteAdjustment, TypeOK, Amount, database, world, past
  <2>3. QED
      BY <1>1, <2>1, <2>2 DEF Edit
<1>2. ASSUME NEW e \in Emp, StaffChanges(e)
      PROVE  Typed'
    BY <1>2 DEF StaffChanges, TypeOK, database, ledger, past
<1>3. ASSUME NEW s \in Source, SourceChanges(s)
      PROVE  Typed'
    BY <1>3 DEF SourceChanges, TypeOK, database, ledger, past
<1>4. CASE UNCHANGED vars
    BY <1>4 DEF vars, TypeOK, database, ledger, world, past
<1>5. QED
    BY <1>1, <1>2, <1>3, <1>4

LEMMA InitTyped == Init => Typed
<1> SUFFICES ASSUME Init PROVE Typed
    OBVIOUS
<1>1. job \in [Process -> JobState]
    BY IdleTyped DEF Init
<1>2. RequestsHaveRuns
    BY DEF Init, RequestsHaveRuns, Process, Idle
<1>3. QED
    BY <1>1, <1>2, NumbersAssumption DEF Init, Typed, TypeOK, Status, Amount

LEMMA TypedHolds == Spec => []Typed
<1>1. Typed /\ [Next]_vars => Typed'
    BY ExecuteTyped, ManageTyped, ServeTyped, OutsideTyped DEF Next, Quiet
<1>2. QED
    BY <1>1, InitTyped, PTL DEF Spec

(* Every variable keeps its type, whatever requests, jobs and faults do.     *)
THEOREM PayrollTyped == Spec => []TypeOK
<1>1. Typed => TypeOK
    BY DEF Typed
<1>2. QED
    BY <1>1, TypedHolds, PTL

-----------------------------------------------------------------------------
(* Safety that survives any overlap of jobs.                                 *)

(* The statements that write payroll_runs and payslips; all others leave the *)
(* database alone.                                                           *)
DatabaseStep ==
    \/ \E r \in Run : CreatePayrollRun(r) \/ DeletePayrollRun(r) \/ SubmitWps(r)
    \/ \E q \in Req : MarkProcessing(q) \/ RevertToDraft(q) \/ CommitPayslips(q)

LEMMA OnlyDatabaseSteps ==
    ASSUME [Next]_vars
    PROVE  DatabaseStep \/ UNCHANGED database
<1>1. ASSUME NEW r \in Run, Manage(r)
      PROVE  DatabaseStep \/ UNCHANGED database
    BY <1>1 DEF Manage, AdmitRun, DatabaseStep
<1>2. ASSUME NEW p \in Process, Sync(p)
      PROVE  UNCHANGED database
    BY <1>2 DEF Sync, SyncNobody, SyncStaff, ReadLeaves, ReadLoans, DeleteAutoRows, InsertAutoRows, InsertClashes
<1>3. ASSUME NEW q \in Req, Execute(q) \/ Fail(q)
      PROVE  DatabaseStep \/ UNCHANGED database
  <2>1. q \in Process
      BY DEF Process
  <2>2. QED
      BY <1>2, <1>3, <2>1
         DEF Execute, Begin, Refuse, GetPayableEmployees, ReadTotals, DeletePayslips,
             CommitFails, Acknowledge, Fail, DatabaseStep
<1>4. ASSUME NEW h \in Handler, Serve(h)
      PROVE  UNCHANGED database
  <2>1. h \in Process
      BY DEF Process
  <2>2. QED
      BY <1>2, <1>4, <2>1
         DEF Serve, CheckLockThenWrite, WriteAdjustment, CheckLockThenSync
<1>5. ASSUME \/ \E a \in Adj : Edit(a)
             \/ \E e \in Emp : StaffChanges(e)
             \/ \E s \in Source : SourceChanges(s)
             \/ UNCHANGED vars
      PROVE  UNCHANGED database
    BY <1>5 DEF Edit, UpdateAdjustment, DeleteAdjustment, StaffChanges, SourceChanges, vars
<1>6. QED
    BY <1>1, <1>3, <1>4, <1>5 DEF Next, Quiet

(* The three facts about a run that support each other.                      *)
RunInOrder(r) ==
    /\ totals[r] \subseteq payslips[r]
    /\ payslips[r] # {} => Exists(r)
    /\ status[r] = "approved" => payslips[r] # {}

RunsInOrder == \A r \in Run : RunInOrder(r)

LEMMA RunsInOrderKept == Typed /\ RunsInOrder /\ [Next]_vars => RunsInOrder'
<1> SUFFICES ASSUME Typed, RunsInOrder, [Next]_vars, NEW k \in Run
             PROVE  RunInOrder(k)'
    BY DEF RunsInOrder
<1>k. RunInOrder(k)
    BY DEF RunsInOrder
<1> USE DEF RunInOrder, Exists, Live, Status
<1>t. /\ status \in [Run -> Status]
      /\ payslips \in [Run -> SUBSET Batch]
      /\ totals \in [Run -> SUBSET Batch]
    BY DEF Typed, TypeOK
<1>1. ASSUME NEW r \in Run, CreatePayrollRun(r)
      PROVE  RunInOrder(k)'
    BY <1>1, <1>k, <1>t DEF CreatePayrollRun
<1>2. ASSUME NEW r \in Run, DeletePayrollRun(r)
      PROVE  RunInOrder(k)'
    BY <1>2, <1>k, <1>t DEF DeletePayrollRun
<1>3. ASSUME NEW r \in Run, SubmitWps(r)
      PROVE  RunInOrder(k)'
    BY <1>3, <1>k, <1>t DEF SubmitWps, UpdateStatus
<1>4. ASSUME NEW q \in Req, MarkProcessing(q)
      PROVE  RunInOrder(k)'
    BY <1>4, <1>k, <1>t DEF MarkProcessing, UpdateStatus
<1>5. ASSUME NEW q \in Req, RevertToDraft(q)
      PROVE  RunInOrder(k)'
    BY <1>5, <1>k, <1>t DEF RevertToDraft, UpdateStatus
<1>6. ASSUME NEW q \in Req, CommitPayslips(q)
      PROVE  RunInOrder(k)'
    BY <1>6, <1>k, <1>t DEF CommitPayslips, UpdateStatus
<1>7. CASE UNCHANGED database
    BY <1>7, <1>k DEF database
<1>8. QED
    BY <1>1, <1>2, <1>3, <1>4, <1>5, <1>6, <1>7, OnlyDatabaseSteps DEF DatabaseStep

LEMMA RunsInOrderHold == Spec => []RunsInOrder
<1>1. Init => RunsInOrder
    BY DEF Init, RunsInOrder, RunInOrder
<1>2. QED
    BY <1>1, RunsInOrderKept, TypedHolds, PTL DEF Spec

(* The totals of a run always describe payslips that are there, even when    *)
(* two workers calculate it at the same time.                                *)
THEOREM PayrollTotalsFoot == Spec => []TotalsFoot
<1>1. RunsInOrder => TotalsFoot
    BY DEF RunsInOrder, RunInOrder, TotalsFoot
<1>2. QED
    BY <1>1, RunsInOrderHold, PTL

(* Payslips never outlive their run.                                         *)
THEOREM PayrollNoOrphans == Spec => []NoOrphans
<1>1. RunsInOrder => NoOrphans
    BY DEF RunsInOrder, RunInOrder, NoOrphans
<1>2. QED
    BY <1>1, RunsInOrderHold, PTL

(* An approved run has payslips.                                             *)
THEOREM PayrollApprovedIsPaid == Spec => []ApprovedIsPaid
<1>1. RunsInOrder => ApprovedIsPaid
    BY DEF RunsInOrder, RunInOrder, ApprovedIsPaid
<1>2. QED
    BY <1>1, RunsInOrderHold, PTL

(* Overlapping syncs never leave a leave or a loan in the ledger twice.      *)
THEOREM PayrollNoDoubleDeduction == Spec => []NoDoubleDeduction
<1>1. Init => NoDoubleDeduction
    BY DEF Init, NoDoubleDeduction
<1>2. ASSUME NoDoubleDeduction, NEW p \in Process, Sync(p)
      PROVE  NoDoubleDeduction'
  <2>1. CASE InsertAutoRows(p)
      BY <1>2, <2>1 DEF InsertAutoRows, Unseen, Clash, NoDoubleDeduction
  <2>2. CASE ~InsertAutoRows(p)
      BY <1>2, <2>2
         DEF Sync, SyncNobody, SyncStaff, ReadLeaves, ReadLoans, DeleteAutoRows, InsertClashes, ledger,
             NoDoubleDeduction
  <2>3. QED
      BY <2>1, <2>2
<1>3. ASSUME [Next]_vars, \A p \in Process : ~Sync(p)
      PROVE  UNCHANGED auto
  <2>1. Req \subseteq Process /\ Handler \subseteq Process
      BY DEF Process
  <2>2. QED
      BY <1>3, <2>1
         DEF Next, Manage, CreatePayrollRun, DeletePayrollRun, SubmitWps, AdmitRun,
             Execute, Begin, Refuse, MarkProcessing, GetPayableEmployees, RevertToDraft,
             ReadTotals, DeletePayslips, CommitPayslips, CommitFails, Acknowledge, Fail,
             Serve, CheckLockThenWrite, WriteAdjustment, CheckLockThenSync,
             Edit, UpdateAdjustment, DeleteAdjustment, StaffChanges, SourceChanges,
             Quiet, ledger, vars
<1>4. NoDoubleDeduction /\ [Next]_vars => NoDoubleDeduction'
    BY <1>2, <1>3 DEF NoDoubleDeduction
<1>5. QED
    BY <1>1, <1>4, PTL DEF Spec

-----------------------------------------------------------------------------
(* The jobs' steps.                                                          *)

(* A job changes by its own steps only.                                      *)
LEMMA OwnSteps ==
    ASSUME Typed, [Next]_vars, NEW q \in Req
    PROVE  \/ job'[q] = job[q]
           \/ Execute(q) \/ Fail(q)
           \/ \E r \in Run : AdmitRun(q, r)
<1>q. q \in Process /\ job \in [Process -> JobState]
    BY DEF Typed, TypeOK, Process
<1>o. ASSUME NEW p \in Process, p # q, NEW j, job' = [job EXCEPT ![p] = j]
      PROVE  job'[q] = job[q]
    BY <1>o, <1>q
<1>1. ASSUME NEW p \in Process, p # q, Sync(p)
      PROVE  job'[q] = job[q]
    BY <1>1, <1>o DEF Sync, SyncNobody, SyncStaff, ReadLeaves, ReadLoans, Goto,
       DeleteAutoRows, InsertAutoRows, InsertClashes
<1>2. ASSUME NEW p \in Req, p # q, Execute(p) \/ Fail(p)
      PROVE  job'[q] = job[q]
  <2>1. p \in Process
      BY DEF Process
  <2>2. CASE Sync(p)
      BY <1>1, <1>2, <2>1, <2>2
  <2>3. CASE ~Sync(p)
    <3>1. \E j : job' = [job EXCEPT ![p] = j]
        BY <1>2, <2>1, <2>3 DEF Execute, Begin, Refuse, MarkProcessing,
           GetPayableEmployees, RevertToDraft, ReadTotals, DeletePayslips,
           CommitPayslips, CommitFails, Acknowledge, Fail, Goto
    <3>2. QED
        BY <1>2, <1>o, <2>1, <3>1
  <2>4. QED
      BY <2>2, <2>3
<1>3. ASSUME NEW r \in Run, Manage(r)
      PROVE  job'[q] = job[q] \/ AdmitRun(q, r)
  <2>1. ASSUME NEW p \in Req, p # q, AdmitRun(p, r)
        PROVE  job'[q] = job[q]
    <3>1. p \in Process
        BY DEF Process
    <3>2. QED
        BY <1>o, <2>1, <3>1 DEF AdmitRun
  <2>2. QED
      BY <1>3, <2>1 DEF Manage, CreatePayrollRun, DeletePayrollRun, SubmitWps
<1>4. ASSUME NEW h \in Handler, Serve(h)
      PROVE  job'[q] = job[q]
  <2>1. h \in Process /\ h # q
      BY ProcessAssumption DEF Process
  <2>2. CASE Sync(h)
      BY <1>1, <2>1, <2>2
  <2>3. CASE ~Sync(h)
    <3>1. \E j : job' = [job EXCEPT ![h] = j]
        BY <1>4, <2>3 DEF Serve, CheckLockThenWrite, WriteAdjustment, CheckLockThenSync,
           Goto
    <3>2. QED
        BY <1>o, <2>1, <3>1
  <2>4. QED
      BY <2>2, <2>3
<1>5. ASSUME \/ \E a \in Adj : Edit(a)
             \/ \E e \in Emp : StaffChanges(e)
             \/ \E s \in Source : SourceChanges(s)
             \/ UNCHANGED vars
      PROVE  job'[q] = job[q]
    BY <1>5 DEF Edit, UpdateAdjustment, DeleteAdjustment, StaffChanges, SourceChanges, vars
<1>6. QED
    BY <1>2, <1>3, <1>4, <1>5 DEF Next, Quiet

Paying == Active \ {"ack"}
Paid == {"ack", "done"}

(* Where a job can be after a step, given where it was.                      *)
LEMMA JobSteps ==
    ASSUME Typed, [Next]_vars, NEW q \in Req
    PROVE  \/ job'[q].pc = job[q].pc /\ job'[q].run = job[q].run
           \/ job[q].pc = "idle" /\ job'[q].pc = "waiting"
           \/ Begin(q)
           \/ CommitPayslips(q)
           \/ job[q].pc = "ack" /\ job'[q].pc = "done" /\ job'[q].run = job[q].run
           \/ /\ job[q].pc \in Active \cup {"waiting"}
              /\ job'[q].pc \in {"waiting", "failed"}
           \/ /\ job[q].pc \in Paying /\ job'[q].pc \in Paying
              /\ job'[q].run = job[q].run
<1> DEFINE Goal ==
           \/ job'[q].pc = job[q].pc /\ job'[q].run = job[q].run
           \/ job[q].pc = "idle" /\ job'[q].pc = "waiting"
           \/ Begin(q)
           \/ CommitPayslips(q)
           \/ job[q].pc = "ack" /\ job'[q].pc = "done" /\ job'[q].run = job[q].run
           \/ /\ job[q].pc \in Active \cup {"waiting"}
              /\ job'[q].pc \in {"waiting", "failed"}
           \/ /\ job[q].pc \in Paying /\ job'[q].pc \in Paying
              /\ job'[q].run = job[q].run
<1>q. q \in Process /\ job \in [Process -> JobState]
    BY DEF Typed, TypeOK, Process
<1>r. job[q] \in JobState
    BY <1>q
<1>t. Thrown(q).pc \in {"waiting", "failed"}
    BY DEF Thrown, Ended, Idle
<1>e. Ended(q, "done").pc = "done" /\ Ended(q, "done").run = job[q].run
    BY DEF Ended, Idle
<1>a. AfterSync(q).pc = "totals" /\ AfterSync(q).run = job[q].run
    BY <1>r DEF AfterSync, JobState
<1>1. CASE Execute(q) \/ Fail(q)
  <2>1. CASE MarkProcessing(q) \/ GetPayableEmployees(q) \/ ReadTotals(q) \/ DeletePayslips(q)
    <3>1. CASE MarkProcessing(q)
        BY <1>q, <1>r, <3>1 DEF MarkProcessing, Goto, At, Paying, Active, JobState
    <3>2. CASE GetPayableEmployees(q)
        BY <1>q, <1>r, <3>2 DEF GetPayableEmployees, At, Paying, Active, JobState
    <3>3. CASE ReadTotals(q)
        BY <1>q, <1>r, <3>3 DEF ReadTotals, At, Paying, Active, JobState
    <3>4. CASE DeletePayslips(q)
        BY <1>q, <1>r, <3>4 DEF DeletePayslips, At, Paying, Active, JobState
    <3>5. QED
        BY <2>1, <3>1, <3>2, <3>3, <3>4
  <2>2. CASE Sync(q)
    <3>1. CASE SyncNobody(q) \/ InsertAutoRows(q)
        BY <1>q, <1>a, <3>1 DEF SyncNobody, InsertAutoRows, At, Paying, Active
    <3>2. CASE SyncStaff(q)
        BY <1>q, <1>r, <3>2 DEF SyncStaff, Goto, At, Paying, Active, JobState
    <3>3. CASE ReadLeaves(q)
        BY <1>q, <1>r, <3>3 DEF ReadLeaves, At, Paying, Active, JobState
    <3>4. CASE ReadLoans(q)
        BY <1>q, <1>r, <3>4 DEF ReadLoans, At, Paying, Active, JobState
    <3>5. CASE DeleteAutoRows(q)
        BY <1>q, <1>r, <3>5 DEF DeleteAutoRows, At, Paying, Active, JobState
    <3>6. CASE InsertClashes(q)
        BY <1>q, <1>t, <3>6 DEF InsertClashes, At, Active
    <3>7. QED
        BY <2>2, <3>1, <3>2, <3>3, <3>4, <3>5, <3>6 DEF Sync
  <2>3. CASE Refuse(q) \/ RevertToDraft(q) \/ CommitFails(q) \/ Fail(q)
      BY <1>q, <1>t, <2>3 DEF Refuse, RevertToDraft, CommitFails, Fail, At, Running, Active
  <2>4. CASE Acknowledge(q)
      BY <1>q, <1>e, <2>4 DEF Acknowledge, At
  <2>5. QED
      BY <1>1, <2>1, <2>2, <2>3, <2>4 DEF Execute
<1>2. ASSUME NEW r \in Run, AdmitRun(q, r)
      PROVE  Goal
    BY <1>q, <1>r, <1>2 DEF AdmitRun, At, JobState
<1>3. CASE job'[q] = job[q]
    BY <1>3
<1>4. QED
    BY <1>1, <1>2, <1>3, OwnSteps

-----------------------------------------------------------------------------
(* How many payslips overlapping jobs can leave.  The inserts that are in a  *)
(* run together, with the jobs about to commit that have not seen any of     *)
(* them, are never more than there are executors.                            *)

RunningBounded == Cardinality(Running) <= Concurrency

(* Jobs about to commit to r whose DELETE saw nothing of S.                  *)
Blind(r, S) ==
    {q \in Req : /\ job[q].pc = "commit"
                 /\ job[q].run = r
                 /\ job[q].slips \cap S = {}}

BlindBounded ==
    \A r \in Run : \A S \in SUBSET payslips[r] :
        Cardinality(S) + Cardinality(Blind(r, S)) <= Concurrency

PayslipsFinite == \A r \in Run : IsFiniteSet(payslips[r])

Bounded == RunningBounded /\ BlindBounded /\ PayslipsFinite

LEMMA RequestSetsFinite ==
    ASSUME NEW W, W \subseteq Req
    PROVE  IsFiniteSet(W) /\ Cardinality(W) \in Nat
BY RequestsAssumption, FS_Subset, FS_CardinalityType

LEMMA SmallerIsFewer ==
    ASSUME NEW S, NEW T, IsFiniteSet(S), T \subseteq S
    PROVE  /\ IsFiniteSet(T)
           /\ Cardinality(T) \in Nat /\ Cardinality(S) \in Nat
           /\ Cardinality(T) <= Cardinality(S)
BY FS_Subset, FS_CardinalityType

(* One element more here is one fewer there.                                 *)
LEMMA Exchange ==
    ASSUME NEW S, NEW T, NEW b, IsFiniteSet(S), T \subseteq S \cup {b},
           NEW W, NEW V, NEW q, IsFiniteSet(W), q \in W, V \subseteq W \ {q},
           NEW c \in Nat, Cardinality(S) + Cardinality(W) <= c
    PROVE  Cardinality(T) + Cardinality(V) <= c
<1>1. /\ IsFiniteSet(S \cup {b})
      /\ Cardinality(S \cup {b}) \in Nat
      /\ Cardinality(S \cup {b}) <= Cardinality(S) + 1
      /\ Cardinality(S) \in Nat
  <2>0. Cardinality(S) \in Nat
      BY FS_CardinalityType
  <2>1. CASE b \in S
    <3>1. S \cup {b} = S
        BY <2>1
    <3>2. Cardinality(S) <= Cardinality(S) + 1
        BY <2>0
    <3> QED
        BY <2>0, <3>1, <3>2, Zenon
  <2>2. CASE b \notin S
    <3>1. /\ IsFiniteSet(S \cup {b})
          /\ Cardinality(S \cup {b}) = Cardinality(S) + 1
        BY <2>2, FS_AddElement
    <3>2. QED
        BY <2>0, <3>1
  <2>3. QED
      BY <2>1, <2>2
<1>2. /\ IsFiniteSet(W \ {q}) /\ Cardinality(W) \in Nat
      /\ Cardinality(W \ {q}) = Cardinality(W) - 1
    BY FS_RemoveElement, FS_CardinalityType
<1>3. Cardinality(T) \in Nat /\ Cardinality(T) <= Cardinality(S \cup {b})
    BY <1>1, SmallerIsFewer
<1>4. /\ Cardinality(V) \in Nat /\ Cardinality(W \ {q}) \in Nat
      /\ Cardinality(V) <= Cardinality(W \ {q})
    BY <1>2, SmallerIsFewer
<1>5. QED
    BY <1>1, <1>2, <1>3, <1>4

(* A job that runs after a step ran before it, or has just begun.            *)
LEMMA RanOrBegins ==
    ASSUME Typed, [Next]_vars, NEW q \in Req, job'[q].pc \in Active
    PROVE  job[q].pc \in Active \/ Begin(q)
<1>1. CASE CommitPayslips(q)
    BY <1>1 DEF CommitPayslips, At, Active
<1>2. CASE ~CommitPayslips(q)
    BY <1>2, JobSteps DEF Active, Paying
<1>3. QED
    BY <1>1, <1>2

LEMMA RunningBoundKept ==
    ASSUME Typed, RunningBounded, [Next]_vars
    PROVE  RunningBounded'
<1>f. Running \subseteq Req /\ IsFiniteSet(Running)
    BY RequestsAssumption, FS_Subset DEF Running
<1>1. CASE \E q \in Req : Begin(q)
  <2> PICK q \in Req : Begin(q)
      BY <1>1
  <2>1. Running' \subseteq Running \cup {q}
    <3> SUFFICES ASSUME NEW p \in Req, job'[p].pc \in Active, p # q
                 PROVE  job[p].pc \in Active
        BY DEF Running
    <3>1. job'[p] = job[p]
        BY DEF Begin, Goto, Typed, TypeOK, Process
    <3>2. QED
        BY <3>1
  <2>2. Cardinality(Running) \in Nat /\ Cardinality(Running) < Concurrency
      BY <1>f, FS_CardinalityType DEF Begin
  <2>3. q \notin Running
      BY DEF Begin, At, Running, Active
  <2>4. /\ IsFiniteSet(Running \cup {q})
        /\ Cardinality(Running \cup {q}) = Cardinality(Running) + 1
      BY <1>f, <2>3, FS_AddElement
  <2>5. /\ Cardinality(Running') <= Cardinality(Running \cup {q})
        /\ Cardinality(Running') \in Nat
      BY <2>1, <2>4, SmallerIsFewer
  <2>6. QED
      BY <2>2, <2>4, <2>5, NumbersAssumption DEF RunningBounded
<1>2. CASE ~\E q \in Req : Begin(q)
  <2>1. Running' \subseteq Running
      BY <1>2, RanOrBegins DEF Running
  <2>2. /\ Cardinality(Running') <= Cardinality(Running)
        /\ Cardinality(Running') \in Nat /\ Cardinality(Running) \in Nat
      BY <1>f, <2>1, SmallerIsFewer
  <2>3. QED
      BY <2>2, NumbersAssumption DEF RunningBounded
<1>3. QED
    BY <1>1, <1>2

(* A job gets to its commit by the DELETE and no other way.                  *)
LEMMA CommitSteps ==
    ASSUME Typed, [Next]_vars, NEW q \in Req, job'[q].pc = "commit"
    PROVE  job'[q] = job[q] \/ DeletePayslips(q)
<1>q. q \in Process /\ job \in [Process -> JobState] /\ job[q] \in JobState
    BY DEF Typed, TypeOK, Process
<1>t. Thrown(q).pc # "commit" /\ Ended(q, "done").pc # "commit"
    BY DEF Thrown, Ended, Idle
<1>a. AfterSync(q).pc = "totals"
    BY <1>q DEF AfterSync, JobState
<1>1. CASE Begin(q) \/ MarkProcessing(q) \/ CommitPayslips(q)
    BY <1>1, <1>q DEF Begin, MarkProcessing, CommitPayslips, Goto, JobState
<1>2. CASE GetPayableEmployees(q)
    BY <1>2, <1>q DEF GetPayableEmployees, JobState
<1>3. CASE ReadTotals(q)
    BY <1>3, <1>q DEF ReadTotals, JobState
<1>4. CASE Refuse(q) \/ RevertToDraft(q) \/ CommitFails(q) \/ Fail(q) \/ Acknowledge(q)
    BY <1>4, <1>q, <1>t DEF Refuse, RevertToDraft, CommitFails, Fail, Acknowledge
<1>5. CASE Sync(q)
  <2>1. CASE SyncNobody(q) \/ InsertAutoRows(q) \/ InsertClashes(q)
      BY <1>q, <1>a, <1>t, <2>1 DEF SyncNobody, InsertAutoRows, InsertClashes
  <2>2. CASE SyncStaff(q)
      BY <1>q, <2>2 DEF SyncStaff, Goto, JobState
  <2>3. CASE ReadLeaves(q)
      BY <1>q, <2>3 DEF ReadLeaves, JobState
  <2>4. CASE ReadLoans(q)
      BY <1>q, <2>4 DEF ReadLoans, JobState
  <2>5. CASE DeleteAutoRows(q)
      BY <1>q, <2>5 DEF DeleteAutoRows, JobState
  <2>6. QED
      BY <1>5, <2>1, <2>2, <2>3, <2>4, <2>5 DEF Sync
<1>6. ASSUME NEW r \in Run, AdmitRun(q, r)
      PROVE  FALSE
    BY <1>6, <1>q DEF AdmitRun, JobState
<1>7. QED
    BY <1>1, <1>2, <1>3, <1>4, <1>5, <1>6, OwnSteps DEF Execute

LEMMA BlindBoundKept ==
    ASSUME Typed, Bounded, RunningBounded', [Next]_vars
    PROVE  BlindBounded'
<1> SUFFICES ASSUME NEW r \in Run, NEW T \in SUBSET payslips'[r]
             PROVE  Cardinality(T) + Cardinality(Blind(r, T)') <= Concurrency
    BY DEF BlindBounded
<1>t. /\ payslips \in [Run -> SUBSET Batch] /\ job \in [Process -> JobState]
      /\ Req \subseteq Process /\ Concurrency \in Nat
    BY NumbersAssumption DEF Typed, TypeOK, Process
<1>f. /\ \A S : IsFiniteSet(Blind(r, S)) /\ Cardinality(Blind(r, S)) \in Nat
      /\ IsFiniteSet(Blind(r, T)') /\ Cardinality(Blind(r, T)') \in Nat
  <2>1. \A S : Blind(r, S) \subseteq Req
      BY DEF Blind
  <2>2. Blind(r, T)' \subseteq Req
      BY DEF Blind
  <2>3. QED
      BY <2>1, <2>2, RequestSetsFinite
<1>e. CASE T = {}
  <2>1. Blind(r, T)' \subseteq Running'
      BY DEF Blind, Running, Active
  <2>2. Running' \subseteq Req
      BY DEF Running
  <2>3. IsFiniteSet(Running') /\ Cardinality(Running') \in Nat
      BY <2>2, RequestSetsFinite
  <2>4. Cardinality(Blind(r, T)') <= Cardinality(Running')
      BY <2>1, <2>3, SmallerIsFewer
  <2>5. Cardinality(T) = 0
      BY <1>e, FS_EmptySet
  <2>6. QED
      BY <1>f, <1>t, <2>3, <2>4, <2>5 DEF RunningBounded
<1>1. ASSUME NEW q \in Req, CommitPayslips(q), job[q].run = r
      PROVE  Cardinality(T) + Cardinality(Blind(r, T)') <= Concurrency
  <2> DEFINE b == BatchOf(q)
             S == T \ {b}
  <2>1. payslips'[r] = (payslips[r] \ job[q].slips) \cup {b}
      BY <1>1, <1>t DEF CommitPayslips
  <2>2. S \subseteq payslips[r] /\ job[q].slips \cap S = {}
      BY <2>1
  <2>3. job'[q].pc = "ack" /\ \A p \in Req \ {q} : job'[p] = job[p]
      BY <1>1, <1>t DEF CommitPayslips, Goto, JobState
  <2>4. q \in Blind(r, S)
      BY <1>1, <2>2 DEF Blind, CommitPayslips, At
  <2>5. Blind(r, T)' \subseteq Blind(r, S) \ {q}
      BY <2>3 DEF Blind
  <2>6. IsFiniteSet(S)
      BY <2>2, FS_Subset DEF Bounded, PayslipsFinite
  <2>7. T \subseteq S \cup {b}
      OBVIOUS
  <2>8. Cardinality(S) + Cardinality(Blind(r, S)) <= Concurrency
      BY <2>2 DEF Bounded, BlindBounded
  <2> HIDE DEF S, b
  <2>9. QED
      BY <1>f, <1>t, <2>4, <2>5, <2>6, <2>7, <2>8, Exchange
<1>2. CASE T # {} /\ payslips'[r] \subseteq payslips[r]
  <2>1. T \subseteq payslips[r]
      BY <1>2
  <2>2. Blind(r, T)' \subseteq Blind(r, T)
    <3> SUFFICES ASSUME NEW p \in Req, job'[p].pc = "commit", job'[p].run = r,
                        job'[p].slips \cap T = {}
                 PROVE  p \in Blind(r, T)
        BY DEF Blind
    <3>1. CASE job'[p] = job[p]
        BY <3>1 DEF Blind
    <3>2. CASE DeletePayslips(p)
      <4>1. job[p].run \in Run /\ job[p] \in JobState
          BY <1>t, <3>2 DEF DeletePayslips, At, Typed, RequestsHaveRuns
      <4>2. job'[p].run = job[p].run /\ job'[p].slips = payslips[job[p].run]
          BY <1>t, <3>2, <4>1 DEF DeletePayslips, JobState
      <4>3. QED
          BY <1>2, <2>1, <4>2
    <3>3. QED
        BY <3>1, <3>2, CommitSteps
  <2>3. /\ Cardinality(Blind(r, T)') <= Cardinality(Blind(r, T))
      BY <1>f, <2>2, SmallerIsFewer
  <2>4. IsFiniteSet(T) /\ Cardinality(T) \in Nat
      BY <2>1, SmallerIsFewer DEF Bounded, PayslipsFinite
  <2>5. Cardinality(T) + Cardinality(Blind(r, T)) <= Concurrency
      BY <2>1 DEF Bounded, BlindBounded
  <2>6. QED
      BY <1>f, <1>t, <2>3, <2>4, <2>5
<1>3. ASSUME ~\E q \in Req : CommitPayslips(q) /\ job[q].run = r
      PROVE  payslips'[r] \subseteq payslips[r]
  <2>1. CASE UNCHANGED database
      BY <2>1 DEF database
  <2>2. ASSUME NEW k \in Run, CreatePayrollRun(k) \/ DeletePayrollRun(k) \/ SubmitWps(k)
        PROVE  payslips'[r] \subseteq payslips[r]
      BY <1>t, <2>2 DEF CreatePayrollRun, DeletePayrollRun, SubmitWps
  <2>3. ASSUME NEW q \in Req, MarkProcessing(q) \/ RevertToDraft(q)
        PROVE  payslips'[r] \subseteq payslips[r]
      BY <2>3 DEF MarkProcessing, RevertToDraft
  <2>4. ASSUME NEW q \in Req, CommitPayslips(q)
        PROVE  payslips'[r] \subseteq payslips[r]
      BY <1>3, <1>t, <2>4 DEF CommitPayslips
  <2>5. QED
      BY <2>1, <2>2, <2>3, <2>4, OnlyDatabaseSteps DEF DatabaseStep
<1>4. QED
    BY <1>e, <1>1, <1>2, <1>3

LEMMA PayslipsFiniteKept ==
    ASSUME Typed, PayslipsFinite, [Next]_vars
    PROVE  PayslipsFinite'
<1> SUFFICES ASSUME NEW r \in Run
             PROVE  IsFiniteSet(payslips'[r])
    BY DEF PayslipsFinite
<1>t. payslips \in [Run -> SUBSET Batch] /\ IsFiniteSet(payslips[r])
    BY DEF Typed, TypeOK, PayslipsFinite
<1>1. CASE UNCHANGED database
    BY <1>1, <1>t DEF database
<1>2. ASSUME NEW k \in Run, CreatePayrollRun(k) \/ DeletePayrollRun(k) \/ SubmitWps(k)
      PROVE  IsFiniteSet(payslips'[r])
  <2>1. payslips'[r] = payslips[r] \/ payslips'[r] = {}
      BY <1>2, <1>t DEF CreatePayrollRun, DeletePayrollRun, SubmitWps
  <2>2. QED
      BY <1>t, <2>1, FS_EmptySet
<1>3. ASSUME NEW q \in Req, MarkProcessing(q) \/ RevertToDraft(q)
      PROVE  IsFiniteSet(payslips'[r])
    BY <1>3, <1>t DEF MarkProcessing, RevertToDraft
<1>4. ASSUME NEW q \in Req, CommitPayslips(q)
      PROVE  IsFiniteSet(payslips'[r])
  <2>1. \/ payslips'[r] = payslips[r]
        \/ payslips'[r] = (payslips[r] \ job[q].slips) \cup {BatchOf(q)}
      BY <1>4, <1>t DEF CommitPayslips
  <2>2. IsFiniteSet(payslips[r] \ job[q].slips)
      BY <1>t, FS_Subset
  <2>3. IsFiniteSet((payslips[r] \ job[q].slips) \cup {BatchOf(q)})
      BY <2>2, FS_AddElement
  <2>4. QED
      BY <1>t, <2>1, <2>3
<1>5. QED
    BY <1>1, <1>2, <1>3, <1>4, OnlyDatabaseSteps DEF DatabaseStep

LEMMA InitBounded == Init => Bounded
<1> SUFFICES ASSUME Init PROVE Bounded
    OBVIOUS
<1>1. Cardinality({}) = 0 /\ IsFiniteSet({})
    BY FS_EmptySet
<1>2. Running = {}
    BY DEF Init, Running, Active, Idle, Process
<1>3. \A r \in Run : payslips[r] = {} /\ \A S : Blind(r, S) = {}
    BY DEF Init, Blind, Idle, Process
<1>4. RunningBounded
    BY <1>1, <1>2, NumbersAssumption DEF RunningBounded
<1>5. BlindBounded
  <2> SUFFICES ASSUME NEW r \in Run, NEW S \in SUBSET payslips[r]
               PROVE  Cardinality(S) + Cardinality(Blind(r, S)) <= Concurrency
      BY DEF BlindBounded
  <2>1. S = {} /\ Blind(r, S) = {}
      BY <1>3
  <2>2. QED
      BY <1>1, <2>1, NumbersAssumption
<1>6. PayslipsFinite
    BY <1>1, <1>3 DEF PayslipsFinite
<1>7. QED
    BY <1>4, <1>5, <1>6 DEF Bounded

(* Overlapping jobs leave no more payslips of one employee in a run than     *)
(* there are executors, whatever is retried, crashes or is reverted.         *)
THEOREM PayrollPayslipsBounded == Spec => []PayslipsBounded
<1>1. Typed /\ Bounded /\ [Next]_vars => Bounded'
    BY RunningBoundKept, BlindBoundKept, PayslipsFiniteKept DEF Bounded
<1>2. Bounded => PayslipsBounded
  <2> SUFFICES ASSUME Bounded, NEW r \in Run
               PROVE  Cardinality(payslips[r]) <= Concurrency
      BY DEF PayslipsBounded
  <2>1. Blind(r, payslips[r]) \subseteq Req
      BY DEF Blind
  <2>2. Cardinality(Blind(r, payslips[r])) \in Nat
      BY <2>1, RequestSetsFinite
  <2>3. Cardinality(payslips[r]) \in Nat
      BY FS_CardinalityType DEF Bounded, PayslipsFinite
  <2>4. Cardinality(payslips[r]) + Cardinality(Blind(r, payslips[r])) <= Concurrency
      BY DEF Bounded, BlindBounded
  <2>5. QED
      BY <2>2, <2>3, <2>4, NumbersAssumption
<1>3. QED
    BY <1>1, <1>2, InitBounded, TypedHolds, PTL DEF Spec

-----------------------------------------------------------------------------
(* Runs whose jobs do not overlap: one payslip each, completed jobs have     *)
(* paid, and the whole implements PayrollPeriod.                             *)
(*                                                                           *)
(* While a job of such a run is past its check no other one commits, so what *)
(* it found there (a draft, hence a run nobody was paid by) is still so when *)
(* it commits.                                                               *)

ApartUnlessNoted ==
    \A p, q \in Running : p # q /\ job[p].run = job[q].run => job[p].run \in overlapped

Apart == Run \ overlapped

UnpaidUntilApproved ==
    \A r \in Apart : status[r] \in {"draft", "processing"} => payslips[r] = {}

RunningUnpaid ==
    \A q \in Req : job[q].pc \in Paying /\ job[q].run \in Apart
        => payslips[job[q].run] = {}

OneBatchEach == \A r \in Apart : \A b, c \in payslips[r] : b = c

PaidByItsJob ==
    \A q \in Req : job[q].pc \in Paid /\ job[q].run \in Apart
        => \E b \in payslips[job[q].run] : b.by = q

Serial ==
    /\ ApartUnlessNoted
    /\ UnpaidUntilApproved
    /\ RunningUnpaid
    /\ OneBatchEach
    /\ PaidByItsJob

-----------------------------------------------------------------------------
(* What has overlapped is noted, and stays so.                               *)

LEMMA OverlappedSteps ==
    ASSUME [Next]_vars
    PROVE  overlapped' = overlapped \/ \E q \in Req : Begin(q)
<1>1. ASSUME NEW p \in Process, Sync(p)
      PROVE  overlapped' = overlapped
    BY <1>1 DEF Sync, SyncNobody, SyncStaff, ReadLeaves, ReadLoans, DeleteAutoRows,
                InsertAutoRows, InsertClashes, past
<1>2. ASSUME NEW q \in Req, Execute(q) \/ Fail(q)
      PROVE  overlapped' = overlapped \/ Begin(q)
  <2>1. q \in Process
      BY DEF Process
  <2>2. QED
      BY <1>1, <1>2, <2>1
         DEF Execute, Refuse, MarkProcessing, GetPayableEmployees, RevertToDraft,
             ReadTotals, DeletePayslips, CommitPayslips, CommitFails, Acknowledge, Fail, past
<1>3. ASSUME NEW r \in Run, Manage(r)
      PROVE  overlapped' = overlapped
    BY <1>3 DEF Manage, CreatePayrollRun, DeletePayrollRun, SubmitWps, AdmitRun, past
<1>4. ASSUME NEW h \in Handler, Serve(h)
      PROVE  overlapped' = overlapped
  <2>1. h \in Process
      BY DEF Process
  <2>2. QED
      BY <1>1, <1>4, <2>1
         DEF Serve, CheckLockThenWrite, WriteAdjustment, CheckLockThenSync, past
<1>5. ASSUME \/ \E a \in Adj : Edit(a)
             \/ \E e \in Emp : StaffChanges(e)
             \/ \E s \in Source : SourceChanges(s)
             \/ UNCHANGED vars
      PROVE  overlapped' = overlapped
    BY <1>5 DEF Edit, UpdateAdjustment, DeleteAdjustment, StaffChanges, SourceChanges,
                past, vars
<1>6. QED
    BY <1>2, <1>3, <1>4, <1>5 DEF Next, Quiet

LEMMA ApartBefore ==
    ASSUME [Next]_vars, NEW r \in Apart'
    PROVE  r \in Apart
BY OverlappedSteps DEF Apart, Begin

\* A job that runs, or has paid, keeps its run.
LEMMA RunKept ==
    ASSUME Typed, [Next]_vars, NEW q \in Req, job'[q].pc \in Active \cup {"done"}
    PROVE  job'[q].run = job[q].run
<1>1. q \in Process /\ job \in [Process -> JobState] /\ job[q] \in JobState
    BY DEF Typed, TypeOK, Process
<1>2. CASE Begin(q) \/ CommitPayslips(q)
    BY <1>1, <1>2 DEF Begin, CommitPayslips, Goto, JobState
<1>3. CASE ~Begin(q) /\ ~CommitPayslips(q)
    BY <1>3, JobSteps DEF Active
<1>4. QED
    BY <1>2, <1>3

LEMMA OverlapsNoted ==
    ASSUME Typed, ApartUnlessNoted, [Next]_vars
    PROVE  ApartUnlessNoted'
<1> SUFFICES ASSUME NEW p \in Req, NEW q \in Req, p # q, job'[p].run = job'[q].run,
                    job'[p].pc \in Active, job'[q].pc \in Active
             PROVE  job'[p].run \in overlapped'
    BY DEF ApartUnlessNoted, Running
<1>r. job'[p].run = job[p].run /\ job'[q].run = job[q].run
    BY RunKept
<1>1. ASSUME NEW x \in Req, NEW y \in Req, x # y, Begin(x), job'[y].pc \in Active,
             job[x].run = job[y].run
      PROVE  job[x].run \in overlapped'
  <2>1. job'[y] = job[y]
      BY <1>1 DEF Begin, Goto, Typed, TypeOK, Process
  <2>2. y \in Running
      BY <1>1, <2>1 DEF Running
  <2>3. QED
      BY <1>1, <2>2 DEF Begin, Overlaps
<1>2. CASE Begin(p) \/ Begin(q)
    BY <1>1, <1>2, <1>r
<1>3. CASE ~Begin(p) /\ ~Begin(q)
  <2>1. p \in Running /\ q \in Running
      BY <1>3, RanOrBegins DEF Running
  <2>2. job[p].run \in overlapped
      BY <1>r, <2>1 DEF ApartUnlessNoted
  <2>3. QED
      BY <1>r, <2>2, OverlappedSteps DEF Begin
<1>4. QED
    BY <1>2, <1>3

-----------------------------------------------------------------------------
\* The only steps that touch the payslips of a run whose jobs do not overlap:
\* a job commits to it, and nobody was paid by it before.  When it is deleted
\* it has no payslips.
LEMMA PayslipSteps ==
    ASSUME Typed, Serial, [Next]_vars, NEW k \in Apart
    PROVE  \/ payslips'[k] = payslips[k]
           \/ \E q \in Req :
                /\ CommitPayslips(q)
                /\ job[q].run = k
                /\ payslips[k] = {}
                /\ payslips'[k] = {BatchOf(q)}
<1>t. payslips \in [Run -> SUBSET Batch] /\ k \in Run
    BY DEF Typed, TypeOK, Apart
<1>1. ASSUME NEW r \in Run, DeletePayrollRun(r)
      PROVE  payslips'[k] = payslips[k]
  <2>1. CASE r = k
    <3>1. payslips[k] = {}
        BY <1>1, <2>1 DEF DeletePayrollRun, Serial, UnpaidUntilApproved
    <3>2. QED
        BY <1>1, <1>t, <2>1, <3>1 DEF DeletePayrollRun
  <2>2. CASE r # k
      BY <1>1, <1>t, <2>2 DEF DeletePayrollRun
  <2>3. QED
      BY <2>1, <2>2
<1>2. ASSUME NEW q \in Req, CommitPayslips(q)
      PROVE  \/ payslips'[k] = payslips[k]
             \/ /\ job[q].run = k
                /\ payslips[k] = {}
                /\ payslips'[k] = {BatchOf(q)}
  <2>1. CASE job[q].run = k
    <3>1. payslips[k] = {}
        BY <1>2, <2>1 DEF CommitPayslips, At, Serial, RunningUnpaid, Paying, Active
    <3>2. payslips'[k] = {BatchOf(q)}
        BY <1>2, <1>t, <2>1, <3>1 DEF CommitPayslips
    <3>3. QED
        BY <2>1, <3>1, <3>2
  <2>2. CASE job[q].run # k
      BY <1>2, <1>t, <2>2 DEF CommitPayslips
  <2>3. QED
      BY <2>1, <2>2
<1>3. CASE UNCHANGED database
    BY <1>3 DEF database
<1>4. ASSUME NEW r \in Run, CreatePayrollRun(r) \/ SubmitWps(r)
      PROVE  payslips' = payslips
    BY <1>4 DEF CreatePayrollRun, SubmitWps
<1>5. ASSUME NEW q \in Req, MarkProcessing(q) \/ RevertToDraft(q)
      PROVE  payslips' = payslips
    BY <1>5 DEF MarkProcessing, RevertToDraft
<1>6. QED
    BY <1>1, <1>2, <1>3, <1>4, <1>5, OnlyDatabaseSteps DEF DatabaseStep

-----------------------------------------------------------------------------
(* Serial is inductive.                                                      *)

LEMMA UnpaidKept ==
    ASSUME Typed, RunsInOrder, Serial, [Next]_vars
    PROVE  UnpaidUntilApproved'
<1> SUFFICES ASSUME NEW k \in Apart', status'[k] \in {"draft", "processing"}
             PROVE  payslips'[k] = {}
    BY DEF UnpaidUntilApproved
<1>t. /\ status \in [Run -> Status] /\ payslips \in [Run -> SUBSET Batch]
      /\ k \in Run /\ k \in Apart
    BY ApartBefore DEF Typed, TypeOK, Apart
<1>k. status[k] \in {"draft", "processing"} => payslips[k] = {}
    BY <1>t DEF Serial, UnpaidUntilApproved
<1>1. ASSUME NEW r \in Run, CreatePayrollRun(r)
      PROVE  payslips'[k] = {}
    BY <1>1, <1>k, <1>t DEF CreatePayrollRun, RunsInOrder, RunInOrder, Exists, Live
<1>2. ASSUME NEW r \in Run, DeletePayrollRun(r)
      PROVE  payslips'[k] = {}
    BY <1>2, <1>k, <1>t DEF DeletePayrollRun
<1>3. ASSUME NEW r \in Run, SubmitWps(r)
      PROVE  payslips'[k] = {}
    BY <1>3, <1>k, <1>t DEF SubmitWps, UpdateStatus
<1>4. ASSUME NEW q \in Req, MarkProcessing(q) \/ RevertToDraft(q)
      PROVE  payslips'[k] = {}
  <2>1. job[q].run = k => payslips[k] = {}
      BY <1>4, <1>t DEF MarkProcessing, RevertToDraft, At, Serial, RunningUnpaid, Paying,
         Active
  <2>2. payslips' = payslips /\ (k # job[q].run => status'[k] = status[k])
      BY <1>4, <1>t DEF MarkProcessing, RevertToDraft, UpdateStatus
  <2>3. QED
      BY <1>k, <2>1, <2>2
<1>5. ASSUME NEW q \in Req, CommitPayslips(q)
      PROVE  payslips'[k] = {}
    BY <1>5, <1>k, <1>t DEF CommitPayslips, UpdateStatus
<1>6. CASE UNCHANGED database
    BY <1>6, <1>k DEF database
<1>7. QED
    BY <1>1, <1>2, <1>3, <1>4, <1>5, <1>6, OnlyDatabaseSteps DEF DatabaseStep

LEMMA RunningUnpaidKept ==
    ASSUME Typed, Serial, [Next]_vars
    PROVE  RunningUnpaid'
<1> SUFFICES ASSUME NEW q \in Req, job'[q].pc \in Paying, job'[q].run \in Apart'
             PROVE  payslips'[job'[q].run] = {}
    BY DEF RunningUnpaid
<1>t. payslips \in [Run -> SUBSET Batch]
    BY DEF Typed, TypeOK
<1>r. job'[q].run = job[q].run /\ job[q].run \in Apart
    BY RunKept, ApartBefore DEF Paying
<1>1. CASE Begin(q)
  <2>1. payslips[job[q].run] = {} /\ payslips' = payslips
      BY <1>1, <1>r DEF Begin, Serial, UnpaidUntilApproved, database
  <2>2. QED
      BY <1>r, <2>1
<1>2. CASE CommitPayslips(q)
  <2>1. job'[q].pc = "ack"
      BY <1>2 DEF CommitPayslips, Goto, Typed, TypeOK, Process, JobState
  <2>2. QED
      BY <2>1 DEF Paying
<1>3. CASE ~Begin(q) /\ ~CommitPayslips(q)
  <2>1. job[q].pc \in Paying
      BY <1>3, JobSteps DEF Paying, Active
  <2>2. payslips[job[q].run] = {} /\ q \in Running
      BY <1>r, <2>1 DEF Serial, RunningUnpaid, Paying, Running
  <2>3. ASSUME NEW p \in Req, CommitPayslips(p)
        PROVE  job[p].run # job[q].run
    <3>1. p \in Running
        BY <2>3 DEF CommitPayslips, At, Running, Active
    <3>2. p # q
        BY <1>3, <2>3
    <3>3. QED
        BY <1>r, <2>2, <3>1, <3>2 DEF Serial, ApartUnlessNoted, Apart
  <2>4. QED
      BY <1>r, <2>2, <2>3, PayslipSteps
<1>4. QED
    BY <1>1, <1>2, <1>3

LEMMA OneBatchKept ==
    ASSUME Typed, Serial, [Next]_vars
    PROVE  OneBatchEach'
<1> SUFFICES ASSUME NEW k \in Apart'
             PROVE  \A b, c \in payslips'[k] : b = c
    BY DEF OneBatchEach
<1>1. k \in Apart
    BY ApartBefore
<1>2. QED
    BY <1>1, PayslipSteps DEF OneBatchEach, Serial

LEMMA PaidKept ==
    ASSUME Typed, Serial, [Next]_vars
    PROVE  PaidByItsJob'
<1> SUFFICES ASSUME NEW q \in Req, job'[q].pc \in Paid, job'[q].run \in Apart'
             PROVE  \E b \in payslips'[job'[q].run] : b.by = q
    BY DEF PaidByItsJob
<1>t. payslips \in [Run -> SUBSET Batch]
    BY DEF Typed, TypeOK
<1>r. job'[q].run = job[q].run /\ job[q].run \in Apart
    BY RunKept, ApartBefore DEF Paid, Active
<1>1. CASE CommitPayslips(q)
  <2>1. BatchOf(q) \in payslips'[job[q].run]
      BY <1>1, <1>r, <1>t DEF CommitPayslips, Apart
  <2>2. BatchOf(q).by = q
      BY DEF BatchOf
  <2>3. QED
      BY <1>r, <2>1, <2>2
<1>2. CASE Begin(q)
  <2>1. job'[q].pc = "mark"
      BY <1>2 DEF Begin, Goto, Typed, TypeOK, Process, JobState
  <2>2. QED
      BY <2>1 DEF Paid
<1>3. CASE ~Begin(q) /\ ~CommitPayslips(q)
  <2>1. job[q].pc \in Paid
      BY <1>3, JobSteps DEF Paid, Paying, Active
  <2>2. PICK b \in payslips[job[q].run] : b.by = q
      BY <1>r, <2>1 DEF Serial, PaidByItsJob
  <2>3. payslips'[job[q].run] = payslips[job[q].run]
      BY <1>r, <2>2, PayslipSteps
  <2>4. QED
      BY <1>r, <2>2, <2>3
<1>4. QED
    BY <1>1, <1>2, <1>3

LEMMA SerialHolds == Spec => []Serial
<1>1. Init => Serial
    BY DEF Init, Serial, ApartUnlessNoted, UnpaidUntilApproved, RunningUnpaid,
       OneBatchEach, PaidByItsJob, Running, Apart, Active, Paying, Paid, Idle, Process
<1>2. Typed /\ RunsInOrder /\ Serial /\ [Next]_vars => Serial'
    BY OverlapsNoted, UnpaidKept, RunningUnpaidKept, OneBatchKept, PaidKept DEF Serial
<1>3. QED
    BY <1>1, <1>2, TypedHolds, RunsInOrderHold, PTL DEF Spec

(* A job reported as completed has paid, for good, unless two jobs of its    *)
(* run overlapped; with any number of executors, retries, crashes, reverts   *)
(* and requests.                                                             *)
THEOREM PayrollCompletedJobsPaid == Spec => []CompletedJobsPaid
<1>1. Typed /\ Serial => CompletedJobsPaid
    BY DEF Serial, PaidByItsJob, CompletedJobsPaid, At, Paid, Apart, Typed, RequestsHaveRuns
<1>2. QED
    BY <1>1, SerialHolds, TypedHolds, PTL

-----------------------------------------------------------------------------
(* The refinement: payroll pays a period once, for good.                     *)

LEMMA InitRefines == Init => Period!Init
BY DEF Init, Period!Init, PhaseOf, IssuedBy

\* A step that leaves every phase and every payslip alone.
LEMMA Stutters ==
    ASSUME \A r \in Run : PhaseOf(r)' = PhaseOf(r) /\ IssuedBy(r)' = IssuedBy(r)
    PROVE  UNCHANGED Period!vars
BY DEF Period!vars

LEMMA StatusStutters ==
    ASSUME Typed, NEW r \in Run, NEW s \in {"draft", "processing", "wps_submitted"},
           UpdateStatus(r, s), payslips' = payslips, overlapped' = overlapped
    PROVE  UNCHANGED Period!vars
<1>1. ASSUME NEW k \in Run
      PROVE  PhaseOf(k)' = PhaseOf(k) /\ IssuedBy(k)' = IssuedBy(k)
    BY DEF Typed, TypeOK, UpdateStatus, Exists, Live, Status, PhaseOf, IssuedBy
<1>2. QED
    BY <1>1, Stutters

\* When a second job of a run begins nobody has been paid by it.
LEMMA BeginStutters ==
    ASSUME Typed, Serial, NEW q \in Req, Begin(q)
    PROVE  UNCHANGED Period!vars
<1>1. /\ job[q].run \in Run /\ status[job[q].run] = "draft"
      /\ status' = status /\ payslips' = payslips
      /\ overlapped' = overlapped \/ overlapped' = overlapped \cup {job[q].run}
    BY DEF Begin, At, database, Typed, RequestsHaveRuns
<1>2. job[q].run \in overlapped \/ payslips[job[q].run] = {}
    BY <1>1 DEF Serial, UnpaidUntilApproved, Apart
<1>3. ASSUME NEW k \in Run
      PROVE  PhaseOf(k)' = PhaseOf(k) /\ IssuedBy(k)' = IssuedBy(k)
    BY <1>1, <1>2 DEF PhaseOf, IssuedBy
<1>4. QED
    BY <1>3, Stutters

LEMMA StepRefines ==
    Typed /\ RunsInOrder /\ Serial /\ [Next]_vars => [Period!Next]_(Period!vars)
<1> SUFFICES ASSUME Typed, RunsInOrder, Serial, [Next]_vars
             PROVE  [Period!Next]_(Period!vars)
    OBVIOUS
<1>t. status \in [Run -> Status] /\ payslips \in [Run -> SUBSET Batch]
    BY DEF Typed, TypeOK
<1>b. CASE \E q \in Req : Begin(q)
    BY <1>b, BeginStutters
<1>o. CASE overlapped' = overlapped
  <2>1. ASSUME NEW r \in Run, CreatePayrollRun(r)
        PROVE  Period!Open(r)
    <3>1. payslips[r] = {} /\ payslips' = payslips
        BY <2>1 DEF CreatePayrollRun, RunsInOrder, RunInOrder, Exists, Live
    <3>2. \A k \in Run : PhaseOf(k) \in {"none", "gone"}
        BY <2>1, <1>t DEF CreatePayrollRun, PhaseOf, Exists, Live, Status
    <3>3. PhaseOf(r) = "none" /\ PhaseOf(r)' = "open"
        BY <2>1, <1>t, <3>1 DEF CreatePayrollRun, PhaseOf
    <3>4. \A k \in Run \ {r} : PhaseOf(k)' = PhaseOf(k)
        BY <1>o, <2>1, <1>t, <3>1 DEF CreatePayrollRun, PhaseOf
    <3>5. \A k \in Run : IssuedBy(k)' = IssuedBy(k)
        BY <1>o, <3>1 DEF IssuedBy
    <3>6. QED
        BY <3>2, <3>3, <3>4, <3>5 DEF Period!Open
  <2>2. ASSUME NEW r \in Run, DeletePayrollRun(r)
        PROVE  Period!Discard(r)
    <3>1. status[r] = "draft" /\ status' = [status EXCEPT ![r] = "deleted"]
          /\ payslips' = [payslips EXCEPT ![r] = {}]
        BY <2>2 DEF DeletePayrollRun
    <3>2. r \notin overlapped => payslips[r] = {}
        BY <3>1 DEF Serial, UnpaidUntilApproved, Apart
    <3>3. PhaseOf(r) = "open" /\ PhaseOf(r)' = "gone"
        BY <1>t, <3>1, <3>2 DEF PhaseOf
    <3>4. \A k \in Run \ {r} : PhaseOf(k)' = PhaseOf(k)
        BY <1>o, <1>t, <3>1 DEF PhaseOf
    <3>5. \A k \in Run : IssuedBy(k)' = IssuedBy(k)
        BY <1>o, <1>t, <3>1, <3>2 DEF IssuedBy
    <3>6. QED
        BY <3>3, <3>4, <3>5 DEF Period!Discard
  <2>3. ASSUME NEW r \in Run, SubmitWps(r)
        PROVE  UNCHANGED Period!vars
      BY <1>o, <2>3, StatusStutters DEF SubmitWps
  <2>4. ASSUME NEW q \in Req, MarkProcessing(q) \/ RevertToDraft(q)
        PROVE  UNCHANGED Period!vars
    <3>1. job[q].run \in Run
        BY <2>4 DEF MarkProcessing, RevertToDraft, At, Typed, RequestsHaveRuns
    <3>2. QED
        BY <1>o, <2>4, <3>1, StatusStutters DEF MarkProcessing, RevertToDraft
  <2>5. ASSUME NEW q \in Req, CommitPayslips(q)
        PROVE  [Period!Next]_(Period!vars)
    <3>1. q \in Process
        BY DEF Process
    <3> PICK r \in Run : r = job[q].run
        BY <2>5 DEF CommitPayslips, At, Typed, RequestsHaveRuns
    <3>2. /\ Exists(r) /\ status' = [status EXCEPT ![r] = "approved"]
          /\ payslips' = [payslips EXCEPT ![r] = (@ \ job[q].slips) \cup {BatchOf(q)}]
        BY <2>5 DEF CommitPayslips, UpdateStatus
    <3>3. \A k \in Run \ {r} : PhaseOf(k)' = PhaseOf(k) /\ IssuedBy(k)' = IssuedBy(k)
        BY <1>o, <1>t, <3>2 DEF PhaseOf, IssuedBy
    <3>4. CASE r \in overlapped
      <4>1. PhaseOf(r)' = PhaseOf(r) /\ IssuedBy(r)' = IssuedBy(r)
          BY <1>o, <1>t, <3>2, <3>4 DEF PhaseOf, IssuedBy, Exists, Live
      <4>2. QED
          BY <3>3, <4>1, Stutters
    <3>5. CASE r \notin overlapped
      <4>1. payslips[r] = {}
          BY <2>5, <3>5 DEF CommitPayslips, At, Serial, RunningUnpaid, Paying, Active, Apart
      <4>2. BatchOf(q) \in Batch
        <5>1. job[q] \in JobState
            BY <3>1 DEF Typed, TypeOK
        <5>2. QED
            BY <5>1 DEF BatchOf, Batch, JobState
      <4>3. PhaseOf(r) = "open" /\ PhaseOf(r)' = "paid"
          BY <1>o, <1>t, <3>2, <3>5, <4>1 DEF PhaseOf, Exists, Live
      <4>4. IssuedBy(r)' = {BatchOf(q)}
          BY <1>o, <1>t, <3>2, <3>5, <4>1 DEF IssuedBy
      <4>5. Period!Pay(r, BatchOf(q))
          BY <3>3, <4>3, <4>4 DEF Period!Pay
      <4>6. QED
          BY <4>2, <4>5 DEF Period!Next
    <3>6. QED
        BY <3>4, <3>5
  <2>6. CASE UNCHANGED database
      BY <1>o, <2>6, Stutters DEF database, PhaseOf, IssuedBy
  <2>7. QED
      BY <2>1, <2>2, <2>3, <2>4, <2>5, <2>6, OnlyDatabaseSteps DEF DatabaseStep, Period!Next
<1>1. QED
    BY <1>b, <1>o, OverlappedSteps

(* The jobs, retries, crashes and requests of a period together do no more   *)
(* than PayrollPeriod allows, with any number of executors: a run whose jobs *)
(* do not overlap is paid once, for good, and a run whose jobs do keeps the  *)
(* period to itself.                                                         *)
THEOREM PayrollImplementsPeriod == Spec => PaidOnceForGood
<1>1. QED
    BY InitRefines, StepRefines, SerialHolds, TypedHolds, RunsInOrderHold, PTL
       DEF Spec, PaidOnceForGood, Period!Spec
=============================================================================
