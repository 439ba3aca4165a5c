-------------------------- MODULE EmploymentProofs --------------------------
(* Theorems about Employment, for any number of employees, exits, steps,     *)
(* items and requests.                                                       *)
EXTENDS Employment, FiniteSetTheorems, TLAPS

\* What the rows and the requests refer to.
Refers ==
    /\ \A s \in Task : step[s].status # "none" => step[s].of \in Employee
    /\ \A x \in Exit : exit[x].status # "none" => exit[x].of \in Employee
    /\ \A i \in Item : item[i].status # "none" => item[i].of \in Exit

Attends ==
    /\ \A c \in Clerk :
           proc[c].pc \in {"fill", "count", "add", "save", "graduate"}
               => proc[c].about \in Employee
    /\ \A c \in Clerk :
           proc[c].pc \in {"instantiate", "remaining", "approve"} => proc[c].about \in Exit

Typed == TypeOK /\ Refers /\ Attends

Joining == {"fill", "count", "add", "save", "graduate"}
Leaving == {"instantiate", "remaining", "approve"}

-----------------------------------------------------------------------------
(* Facts about the operators.                                                *)

\* Sets of steps are finite and progress is a number.
LEMMA CountTyped ==
    ASSUME NEW S, S \subseteq Task
    PROVE  IsFiniteSet(S) /\ Cardinality(S) \in Nat /\ (Cardinality(S) = 0 => S = {})
BY TaskAssumption, FS_Subset, FS_CardinalityType, FS_EmptySet

\* Progress is a number.
LEMMA PercentTyped ==
    ASSUME NEW done \in Nat, NEW total \in Nat \ {0}
    PROVE  Percent(done, total) \in Int
<1>1. 200 * done + total \in Int /\ 2 * total \in Int /\ 2 * total > 0
  OBVIOUS
<1> DEFINE a == 200 * done + total
           b == 2 * total
<1>2. Percent(done, total) = IF done = total THEN 100 ELSE a \div b
  BY DEF Percent
<1> HIDE DEF a, b
<1>3. a \in Int /\ b \in Int /\ b > 0
  BY <1>1 DEF a, b
<1>4. a \div b \in Int
  BY <1>3
<1> QED
  BY <1>2, <1>4

\* A handler.
LEMMA WorkTyped ==
    ASSUME NEW pc \in PC, NEW kind \in {"none", "add", "delete", "update", "exit"},
           NEW about \in Employee \cup Exit \cup {Nobody}, NEW progress \in Int
    PROVE  /\ Work(pc, kind, about, progress) \in Handler
           /\ Work(pc, kind, about, progress).pc = pc
           /\ Work(pc, kind, about, progress).kind = kind
           /\ Work(pc, kind, about, progress).about = about
           /\ Work(pc, kind, about, progress).progress = progress
BY DEF Work, Handler

\* The idle handler.
LEMMA IdleTyped == Idle \in Handler /\ Idle.pc = "idle" /\ Idle.kind = "none"
BY WorkTyped DEF Idle, PC

\* A request goes on as another one.
LEMMA GotoTyped ==
    ASSUME Typed, NEW c \in Clerk, NEW h \in Handler, Goto(c, h),
           h.pc \in Joining => h.about \in Employee,
           h.pc \in Leaving => h.about \in Exit
    PROVE  /\ proc' \in [Clerk -> Handler]
           /\ Attends'
           /\ proc'[c] = h
           /\ \A d \in Clerk \ {c} : proc'[d] = proc[d]
BY DEF Typed, TypeOK, Attends, Goto, Joining, Leaving

\* A request ends.
LEMMA ReturnTyped ==
    ASSUME Typed, NEW c \in Clerk, Return(c)
    PROVE  /\ proc' \in [Clerk -> Handler]
           /\ Attends'
           /\ proc'[c] = Idle
           /\ \A d \in Clerk \ {c} : proc'[d] = proc[d]
BY IdleTyped, GotoTyped DEF Return, Joining, Leaving

\* A request goes on about an employee.
LEMMA JoiningTyped ==
    ASSUME Typed, NEW c \in Clerk, NEW pc \in Joining,
           NEW kind \in {"none", "add", "delete", "update", "exit"},
           NEW e \in Employee, NEW progress \in Int, Goto(c, Work(pc, kind, e, progress))
    PROVE  /\ proc' \in [Clerk -> Handler]
           /\ Attends'
           /\ proc'[c] = Work(pc, kind, e, progress)
           /\ \A d \in Clerk \ {c} : proc'[d] = proc[d]
<1> DEFINE h == Work(pc, kind, e, progress)
<1>1. h \in Handler /\ h.pc = pc /\ h.about = e
  BY WorkTyped DEF Joining, PC
<1> HIDE DEF h
<1>2. h.pc \notin Leaving
  BY <1>1 DEF Joining, Leaving
<1>3. Goto(c, h)
  BY DEF h
<1> QED
  BY <1>1, <1>2, <1>3, GotoTyped DEF h

\* A request goes on about an exit.
LEMMA LeavingTyped ==
    ASSUME Typed, NEW c \in Clerk, NEW pc \in Leaving, NEW x \in Exit,
           Goto(c, Work(pc, "exit", x, 0))
    PROVE  /\ proc' \in [Clerk -> Handler]
           /\ Attends'
           /\ proc'[c] = Work(pc, "exit", x, 0)
           /\ \A d \in Clerk \ {c} : proc'[d] = proc[d]
<1> DEFINE h == Work(pc, "exit", x, 0)
<1>1. h \in Handler /\ h.pc = pc /\ h.about = x
  BY WorkTyped DEF Leaving, PC
<1> HIDE DEF h
<1>2. h.pc \notin Joining
  BY <1>1 DEF Joining, Leaving
<1>3. Goto(c, h)
  BY DEF h
<1> QED
  BY <1>1, <1>2, <1>3, GotoTyped DEF h

-----------------------------------------------------------------------------
(* Types.                                                                    *)

LEMMA TypedInit == Init => Typed
<1> SUFFICES ASSUME Init PROVE Typed
  OBVIOUS
<1>1. TypeOK
  BY IdleTyped DEF Init, TypeOK, EmployeeStatus, ChecklistRow, StepRow, ExitRow, ItemRow, NoRow
<1>2. Refers
  BY DEF Init, Refers, NoRow
<1>3. Attends
  BY IdleTyped DEF Init, Attends
<1> QED
  BY <1>1, <1>2, <1>3 DEF Typed

LEMMA TypedOnboard ==
    ASSUME Typed, NEW c \in Clerk, Onboard(c)
    PROVE  Typed'
<1> USE DEF joining, leaving
<1>1. ASSUME NEW e \in Employee, CreateChecklist(c, e)
      PROVE  Typed'
  <2>1. proc' \in [Clerk -> Handler] /\ Attends'
    BY <1>1, JoiningTyped DEF CreateChecklist, Joining
  <2>2. checklist' \in [Employee -> ChecklistRow]
    BY <1>1 DEF CreateChecklist, Typed, TypeOK, ChecklistRow
  <2> QED
    BY <1>1, <2>1, <2>2 DEF CreateChecklist, Typed, TypeOK, Refers
<1>2. ASSUME NEW e \in Employee, ReadSteps(c, e)
      PROVE  Typed'
  <2> DEFINE p == Percent(Cardinality(Done(e)), Cardinality(Steps(e)) + 1)
  <2>1. Cardinality(Done(e)) \in Nat /\ Cardinality(Steps(e)) \in Nat
    BY CountTyped DEF Done, Steps
  <2>2. p \in Int
    BY <2>1, PercentTyped
  <2>3. Goto(c, Work("add", "add", e, p))
    BY <1>2 DEF ReadSteps
  <2> HIDE DEF p
  <2>4. proc' \in [Clerk -> Handler] /\ Attends'
    BY <2>2, <2>3, JoiningTyped DEF Joining
  <2> QED
    BY <1>2, <2>4 DEF ReadSteps, Typed, TypeOK, Refers
<1>3. ASSUME NEW S \in SUBSET Task, FillChecklist(c, S)
      PROVE  Typed'
  <2>1. proc' \in [Clerk -> Handler] /\ Attends'
    BY <1>3, ReturnTyped DEF FillChecklist
  <2>2. Mine(c) \in Employee
    BY <1>3 DEF FillChecklist, At, Mine, Typed, Attends
  <2>3. step' \in [Task -> StepRow]
    BY <1>3, <2>2 DEF FillChecklist, Fill, Typed, TypeOK, StepRow
  <2>4. \A s \in Task : step'[s].status # "none" => step'[s].of \in Employee
    BY <1>3, <2>2 DEF FillChecklist, Fill, Typed, TypeOK, Refers
  <2> QED
    BY <1>3, <2>1, <2>3, <2>4 DEF FillChecklist, Typed, TypeOK, Refers
<1>4. ASSUME NEW s \in Task, AddStep(c, s)
      PROVE  Typed'
  <2>1. Mine(c) \in Employee /\ proc[c].progress \in Int
    BY <1>4 DEF AddStep, At, Mine, Typed, TypeOK, Attends, Handler
  <2>2. proc' \in [Clerk -> Handler] /\ Attends'
    BY <1>4, <2>1, JoiningTyped DEF AddStep, Joining
  <2>3. step' \in [Task -> StepRow]
    BY <1>4, <2>1 DEF AddStep, Fill, Typed, TypeOK, StepRow
  <2>4. \A t \in Task : step'[t].status # "none" => step'[t].of \in Employee
    BY <1>4, <2>1 DEF AddStep, Fill, Typed, TypeOK, Refers
  <2> QED
    BY <1>4, <2>2, <2>3, <2>4 DEF AddStep, Typed, TypeOK, Refers
<1>5. ASSUME NEW s \in Task, DeleteStep(c, s)
      PROVE  Typed'
  <2>1. step[s].of \in Employee
    BY <1>5 DEF DeleteStep, Typed, Refers
  <2>2. proc' \in [Clerk -> Handler] /\ Attends'
    BY <1>5, <2>1, JoiningTyped DEF DeleteStep, Joining
  <2>3. step' \in [Task -> StepRow]
    BY <1>5 DEF DeleteStep, Typed, TypeOK, StepRow
  <2>4. \A t \in Task : step'[t].status # "none" => step'[t].of \in Employee
    BY <1>5, <2>1 DEF DeleteStep, Typed, TypeOK, StepRow, Refers
  <2> QED
    BY <1>5, <2>2, <2>3, <2>4 DEF DeleteStep, Typed, TypeOK, Refers
<1>6. ASSUME NEW s \in Task, NEW status \in {"pending", "completed"}, UpdateStep(c, s, status)
      PROVE  Typed'
  <2>1. step[s].of \in Employee
    BY <1>6 DEF UpdateStep, Typed, Refers
  <2>2. proc' \in [Clerk -> Handler] /\ Attends'
    BY <1>6, <2>1, JoiningTyped DEF UpdateStep, Joining
  <2>3. step' \in [Task -> StepRow]
    BY <1>6 DEF UpdateStep, Typed, TypeOK, StepRow
  <2>4. \A t \in Task : step'[t].status # "none" => step'[t].of \in Employee
    BY <1>6, <2>1 DEF UpdateStep, Typed, TypeOK, StepRow, Refers
  <2> QED
    BY <1>6, <2>2, <2>3, <2>4 DEF UpdateStep, Typed, TypeOK, Refers
<1>7. CASE CountSteps(c)
  <2> DEFINE total == Cardinality(Steps(Mine(c)))
             done == Cardinality(Done(Mine(c)))
             p == IF total = 0 THEN 0 ELSE Percent(done, total)
  <2>1. Mine(c) \in Employee /\ proc[c].kind \in {"none", "add", "delete", "update", "exit"}
    BY <1>7 DEF CountSteps, At, Mine, Typed, TypeOK, Attends, Handler
  <2>2. done \in Nat /\ total \in Nat
    BY CountTyped DEF Done, Steps
  <2>3. p \in Int
    BY <2>2, PercentTyped
  <2>4. Return(c) \/ Goto(c, Work("save", proc[c].kind, Mine(c), p))
    BY <1>7 DEF CountSteps
  <2> HIDE DEF p
  <2>5. proc' \in [Clerk -> Handler] /\ Attends'
    BY <2>1, <2>3, <2>4, JoiningTyped, ReturnTyped DEF Joining
  <2> QED
    BY <1>7, <2>5 DEF CountSteps, Typed, TypeOK, Refers
<1>8. CASE SaveProgress(c)
  <2>1. Mine(c) \in Employee /\ proc[c].progress \in Int
    BY <1>8 DEF SaveProgress, At, Mine, Typed, TypeOK, Attends, Handler
  <2>2. proc' \in [Clerk -> Handler] /\ Attends'
    BY <1>8, <2>1, JoiningTyped, ReturnTyped DEF SaveProgress, Joining
  <2>3. checklist' \in [Employee -> ChecklistRow]
    BY <1>8, <2>1 DEF SaveProgress, Typed, TypeOK, ChecklistRow
  <2> QED
    BY <1>8, <2>2, <2>3 DEF SaveProgress, Typed, TypeOK, Refers
<1>9. CASE Graduate(c)
  <2>1. proc' \in [Clerk -> Handler] /\ Attends'
    BY <1>9, ReturnTyped DEF Graduate
  <2>2. employee' \in [Employee -> EmployeeStatus]
    BY <1>9 DEF Graduate, Typed, TypeOK, EmployeeStatus
  <2> QED
    BY <1>9, <2>1, <2>2 DEF Graduate, Typed, TypeOK, Refers
<1> QED
  BY <1>1, <1>2, <1>3, <1>4, <1>5, <1>6, <1>7, <1>8, <1>9 DEF Onboard

LEMMA TypedOffboard ==
    ASSUME Typed, NEW c \in Clerk, Offboard(c)
    PROVE  Typed'
<1> USE DEF joining, leaving
<1>1. ASSUME NEW x \in Exit, NEW e \in Employee, InitiateExit(c, x, e)
      PROVE  Typed'
  <2>1. proc' \in [Clerk -> Handler] /\ Attends'
    BY <1>1, LeavingTyped DEF InitiateExit, Leaving
  <2>2. exit' \in [Exit -> ExitRow]
    BY <1>1 DEF InitiateExit, Fill, Typed, TypeOK, ExitRow
  <2>3. \A y \in Exit : exit'[y].status # "none" => exit'[y].of \in Employee
    BY <1>1 DEF InitiateExit, Fill, Typed, TypeOK, Refers
  <2> QED
    BY <1>1, <2>1, <2>2, <2>3 DEF InitiateExit, Typed, TypeOK, Refers
<1>2. ASSUME NEW S \in SUBSET Item, InstantiateClearances(c, S)
      PROVE  Typed'
  <2>1. proc' \in [Clerk -> Handler] /\ Attends'
    BY <1>2, ReturnTyped DEF InstantiateClearances
  <2>2. Mine(c) \in Exit
    BY <1>2 DEF InstantiateClearances, At, Mine, Typed, Attends
  <2>3. item' \in [Item -> ItemRow]
    BY <1>2, <2>2 DEF InstantiateClearances, Fill, Typed, TypeOK, ItemRow
  <2>4. \A i \in Item : item'[i].status # "none" => item'[i].of \in Exit
    BY <1>2, <2>2 DEF InstantiateClearances, Fill, Typed, TypeOK, Refers
  <2> QED
    BY <1>2, <2>1, <2>3, <2>4 DEF InstantiateClearances, Typed, TypeOK, Refers
<1>3. ASSUME NEW i \in Item, CompleteItem(c, i)
      PROVE  Typed'
  <2>1. item[i].of \in Exit
    BY <1>3 DEF CompleteItem, Typed, Refers
  <2>2. proc' \in [Clerk -> Handler] /\ Attends'
    BY <1>3, <2>1, LeavingTyped DEF CompleteItem, Leaving
  <2>3. item' \in [Item -> ItemRow]
    BY <1>3 DEF CompleteItem, Typed, TypeOK, ItemRow
  <2>4. \A j \in Item : item'[j].status # "none" => item'[j].of \in Exit
    BY <1>3, <2>1 DEF CompleteItem, Typed, TypeOK, ItemRow, Refers
  <2> QED
    BY <1>3, <2>2, <2>3, <2>4 DEF CompleteItem, Typed, TypeOK, Refers
<1>4. CASE CountRemaining(c)
  <2>1. proc' \in [Clerk -> Handler] /\ Attends'
    BY <1>4, ReturnTyped DEF CountRemaining
  <2>2. Mine(c) \in Exit
    BY <1>4 DEF CountRemaining, At, Mine, Typed, Attends
  <2> QED
    BY <1>4, <2>1, <2>2 DEF CountRemaining, Typed, TypeOK, Refers
<1>5. ASSUME NEW x \in Exit, NEW override \in BOOLEAN, ReadReadiness(c, x, override)
      PROVE  Typed'
  <2>1. proc' \in [Clerk -> Handler] /\ Attends'
    BY <1>5, LeavingTyped DEF ReadReadiness, Leaving
  <2> QED
    BY <1>5, <2>1 DEF ReadReadiness, Typed, TypeOK, Refers
<1>6. CASE ApproveExit(c)
  <2>1. proc' \in [Clerk -> Handler] /\ Attends'
    BY <1>6, ReturnTyped DEF ApproveExit
  <2>2. Mine(c) \in Exit
    BY <1>6 DEF ApproveExit, At, Mine, Typed, Attends
  <2>3. exit' \in [Exit -> ExitRow]
    BY <1>6 DEF ApproveExit, Typed, TypeOK, ExitRow
  <2>4. employee' \in [Employee -> EmployeeStatus]
    BY <1>6 DEF ApproveExit, Terminate, Typed, TypeOK, EmployeeStatus
  <2>5. \A y \in Exit : exit'[y].status # "none" => exit'[y].of \in Employee
    BY <1>6, <2>2 DEF ApproveExit, Typed, TypeOK, ExitRow, Refers
  <2> QED
    BY <1>6, <2>1, <2>3, <2>4, <2>5 DEF ApproveExit, Typed, TypeOK, Refers
<1> QED
  BY <1>1, <1>2, <1>3, <1>4, <1>5, <1>6 DEF Offboard

LEMMA TypedStep == Typed /\ [Next]_vars => Typed'
<1> SUFFICES ASSUME Typed, [Next]_vars PROVE Typed'
  OBVIOUS
<1> USE DEF joining, leaving
<1>1. ASSUME NEW x \in Exit, NEW i \in Item, AddClearanceItem(x, i)
      PROVE  Typed'
  <2>1. item' \in [Item -> ItemRow]
    BY <1>1 DEF AddClearanceItem, Fill, Typed, TypeOK, ItemRow
  <2>2. \A j \in Item : item'[j].status # "none" => item'[j].of \in Exit
    BY <1>1 DEF AddClearanceItem, Fill, Typed, TypeOK, Refers
  <2> QED
    BY <1>1, <2>1, <2>2 DEF AddClearanceItem, Typed, TypeOK, Refers, Attends
<1>2. ASSUME NEW x \in Exit, RejectExit(x) \/ MarkSettlementPaid(x)
      PROVE  Typed'
  <2>1. exit' \in [Exit -> ExitRow]
    BY <1>2 DEF RejectExit, MarkSettlementPaid, Typed, TypeOK, ExitRow
  <2>2. \A y \in Exit : exit'[y].status # "none" => exit'[y].of \in Employee
    BY <1>2 DEF RejectExit, MarkSettlementPaid, Typed, TypeOK, ExitRow, Refers
  <2> QED
    BY <1>2, <2>1, <2>2 DEF RejectExit, MarkSettlementPaid, Typed, TypeOK, Refers, Attends
<1>3. ASSUME NEW i \in Item, NEW status \in {"pending", "waived"}, MarkItem(i, status)
      PROVE  Typed'
  <2>1. item' \in [Item -> ItemRow]
    BY <1>3 DEF MarkItem, Typed, TypeOK, ItemRow
  <2>2. \A j \in Item : item'[j].status # "none" => item'[j].of \in Exit
    BY <1>3 DEF MarkItem, Typed, TypeOK, ItemRow, Refers
  <2> QED
    BY <1>3, <2>1, <2>2 DEF MarkItem, Typed, TypeOK, Refers, Attends
<1>4. CASE UNCHANGED vars
  BY <1>4 DEF vars, Typed, TypeOK, Refers, Attends
<1> QED
  BY <1>1, <1>2, <1>3, <1>4, TypedOnboard, TypedOffboard DEF Next, Decide

\* Every reachable state is well-typed, and rows and requests refer to what is
\* there.
THEOREM TypedHolds == Spec => []Typed
BY TypedInit, TypedStep, PTL DEF Spec

\* Every variable keeps its type.
THEOREM TypeCorrect == Spec => []TypeOK
<1>1. Typed => TypeOK
  BY DEF Typed
<1> QED
  BY <1>1, TypedHolds, PTL

-----------------------------------------------------------------------------
(* Exits.                                                                    *)

\* Requests about checklists and items change no exit.
LEMMA ExitsAlone ==
    ASSUME NEW c \in Clerk,
           \/ Onboard(c)
           \/ \E S \in SUBSET Item : InstantiateClearances(c, S)
           \/ \E i \in Item : CompleteItem(c, i)
           \/ CountRemaining(c)
           \/ \E x \in Exit, override \in BOOLEAN : ReadReadiness(c, x, override)
    PROVE  exit' = exit
BY DEF Onboard, CreateChecklist, FillChecklist, ReadSteps, AddStep, DeleteStep, UpdateStep,
       CountSteps, SaveProgress, Graduate, InstantiateClearances, CompleteItem,
       CountRemaining, ReadReadiness, leaving

\* They make nobody active who is not onboarding.
LEMMA LeaversAlone ==
    ASSUME Typed, NEW c \in Clerk, NEW e \in Employee, employee[e] = "terminated",
           \/ Onboard(c)
           \/ \E S \in SUBSET Item : InstantiateClearances(c, S)
           \/ \E i \in Item : CompleteItem(c, i)
           \/ CountRemaining(c)
           \/ \E x \in Exit, override \in BOOLEAN : ReadReadiness(c, x, override)
    PROVE  employee'[e] = "terminated"
<1>1. CASE Graduate(c)
  BY <1>1 DEF Graduate, Typed, TypeOK
<1>2. CASE employee' = employee
  BY <1>2
<1> QED
  BY <1>1, <1>2
  DEF Onboard, CreateChecklist, FillChecklist, ReadSteps, AddStep, DeleteStep, UpdateStep,
      CountSteps, SaveProgress, InstantiateClearances, CompleteItem, CountRemaining, ReadReadiness

LEMMA LeaversStep == Typed /\ LeaversStay /\ [Next]_vars => LeaversStay'
<1> SUFFICES ASSUME Typed, LeaversStay, [Next]_vars,
                    NEW y \in Exit, exit'[y].status \in {"approved", "completed"}
             PROVE  employee'[exit'[y].of] = "terminated"
  BY DEF LeaversStay
<1>1. exit[y].status # "none" => exit[y].of \in Employee
  BY DEF Typed, Refers
<1>2. ASSUME NEW c \in Clerk,
             \/ Onboard(c)
             \/ \E S \in SUBSET Item : InstantiateClearances(c, S)
             \/ \E i \in Item : CompleteItem(c, i)
             \/ CountRemaining(c)
             \/ \E x \in Exit, override \in BOOLEAN : ReadReadiness(c, x, override)
      PROVE  employee'[exit'[y].of] = "terminated"
  BY <1>1, <1>2, ExitsAlone, LeaversAlone DEF LeaversStay
<1>3. ASSUME NEW c \in Clerk, NEW x \in Exit, NEW e \in Employee, InitiateExit(c, x, e)
      PROVE  employee'[exit'[y].of] = "terminated"
  BY <1>3 DEF InitiateExit, Fill, Typed, TypeOK, LeaversStay
<1>4. ASSUME NEW c \in Clerk, ApproveExit(c)
      PROVE  employee'[exit'[y].of] = "terminated"
  <2>1. Mine(c) \in Exit
    BY <1>4 DEF ApproveExit, At, Mine, Typed, Attends
  <2>2. CASE exit[Mine(c)].status = "pending"
    <3>1. exit[Mine(c)].of \in Employee
      BY <2>1, <2>2 DEF Typed, Refers
    <3>2. CASE y = Mine(c)
      BY <1>4, <2>1, <2>2, <3>1, <3>2 DEF ApproveExit, Terminate, Typed, TypeOK, ExitRow
    <3>3. CASE y # Mine(c)
      BY <1>1, <1>4, <2>1, <2>2, <3>1, <3>3
      DEF ApproveExit, Terminate, Typed, TypeOK, LeaversStay
    <3> QED
      BY <3>2, <3>3
  <2>3. CASE exit[Mine(c)].status # "pending"
    BY <1>4, <2>3 DEF ApproveExit, LeaversStay
  <2> QED
    BY <2>2, <2>3
<1>5. ASSUME NEW x \in Exit, RejectExit(x) \/ MarkSettlementPaid(x)
      PROVE  employee'[exit'[y].of] = "terminated"
  BY <1>1, <1>5 DEF RejectExit, MarkSettlementPaid, Typed, TypeOK, ExitRow, LeaversStay
<1>6. CASE exit' = exit /\ employee' = employee
  BY <1>6 DEF LeaversStay
<1> QED
  BY <1>2, <1>3, <1>4, <1>5, <1>6
  DEF Next, Offboard, Decide, AddClearanceItem, MarkItem, vars, leaving

\* Whose exit is approved or settled stays terminated.
THEOREM LeaversStayAlways == Spec => []LeaversStay
<1>1. Init => LeaversStay
  BY DEF Init, NoRow, LeaversStay
<1> QED
  BY <1>1, LeaversStep, TypedHolds, PTL DEF Spec

LEMMA DecidedStep ==
    ASSUME Typed, [Next]_vars, NEW y \in Exit, exit'[y].status # exit[y].status
    PROVE  <<exit[y].status, exit'[y].status>> \in
               {<<"none", "pending">>, <<"pending", "approved">>,
                <<"pending", "rejected">>, <<"approved", "completed">>}
<1>1. ASSUME NEW c \in Clerk, NEW x \in Exit, NEW e \in Employee, InitiateExit(c, x, e)
      PROVE  exit[y].status = "none" /\ exit'[y].status = "pending"
  BY <1>1 DEF InitiateExit, Unused, Fill, Typed, TypeOK
<1>2. ASSUME NEW c \in Clerk, ApproveExit(c)
      PROVE  exit[y].status = "pending" /\ exit'[y].status = "approved"
  BY <1>2 DEF ApproveExit, Typed, TypeOK, ExitRow
<1>3. ASSUME NEW x \in Exit, RejectExit(x)
      PROVE  exit[y].status = "pending" /\ exit'[y].status = "rejected"
  BY <1>3 DEF RejectExit, Typed, TypeOK, ExitRow
<1>4. ASSUME NEW x \in Exit, MarkSettlementPaid(x)
      PROVE  exit[y].status = "approved" /\ exit'[y].status = "completed"
  BY <1>4 DEF MarkSettlementPaid, Typed, TypeOK, ExitRow
<1>5. exit' # exit
  OBVIOUS
<1> QED
  BY <1>1, <1>2, <1>3, <1>4, <1>5, ExitsAlone
  DEF Next, Offboard, Decide, AddClearanceItem, MarkItem, vars, leaving

\* An exit is decided once, whatever was admitted before.
THEOREM DecidedOnceAlways == Spec => DecidedOnce
<1> DEFINE Decided == \A x \in Exit :
                          exit'[x].status # exit[x].status =>
                              <<exit[x].status, exit'[x].status>> \in
                                  {<<"none", "pending">>, <<"pending", "approved">>,
                                   <<"pending", "rejected">>, <<"approved", "completed">>}
<1>1. Typed /\ [Next]_vars => Decided
  BY DecidedStep
<1> HIDE DEF Decided
<1>2. Spec => [][Decided]_vars
  BY <1>1, TypedHolds, PTL DEF Spec
<1> QED
  BY <1>2 DEF Decided, DecidedOnce

-----------------------------------------------------------------------------
(* Checklists.                                                               *)

\* The request will make the employee active if everything is done.
Due(c) ==
    /\ proc[c].kind = "update"
    /\ \/ proc[c].pc = "count"
       \/ proc[c].pc \in {"save", "graduate"} /\ proc[c].progress = 100

Outstanding(e) == Complete(e) /\ ~Reduced(e) /\ employee[e] = "onboarding"

\* The inductive invariant: somebody is about to make active whose steps are done.
Owed == \A e \in Employee : Outstanding(e) => \E c \in Clerk : Mine(c) = e /\ Due(c)

\* New steps complete nothing.
LEMMA FillOutstanding ==
    ASSUME Typed, NEW S \in SUBSET Task, NEW e \in Employee, Unused(step, S),
           step' = Fill(step, S, e), employee' = employee, NEW f \in Employee,
           Outstanding(f)'
    PROVE  Outstanding(f)
<1>1. \A t \in Task \ S : step'[t] = step[t]
  BY DEF Fill, Typed, TypeOK
<1>2. \A t \in S : step[t].status = "none" /\ step'[t].status = "pending" /\ step'[t].of = e
  BY DEF Fill, Unused, Typed, TypeOK
<1>3. f = e => S = {}
  BY <1>2 DEF Outstanding, Complete, Steps, Done
<1>4. Steps(f)' = Steps(f) /\ Done(f)' = Done(f)
  BY <1>1, <1>2, <1>3 DEF Steps, Done
<1>5. Reduced(f) => Reduced(f)'
  BY <1>1, <1>2 DEF Reduced
<1> QED
  BY <1>4, <1>5 DEF Outstanding, Complete

\* Who is not about to make anybody active may do something else, as long as no
\* employee has to be made active for it.
LEMMA OthersOwe ==
    ASSUME Owed, NEW c \in Clerk, ~Due(c), \A d \in Clerk \ {c} : proc'[d] = proc[d],
           \A e \in Employee :
               Outstanding(e)' => Outstanding(e) \/ (proc'[c].about = e /\ Due(c)')
    PROVE  Owed'
BY DEF Owed, Due, Mine

LEMMA OwedStep == Typed /\ Owed /\ [Next]_vars => Owed'
<1> SUFFICES ASSUME Typed, Owed, [Next]_vars PROVE Owed'
  OBVIOUS
<1> USE DEF joining, leaving
<1>1. ASSUME step' = step, NEW e \in Employee, Outstanding(e)',
             employee'[e] = "onboarding" => employee[e] = "onboarding"
      PROVE  Outstanding(e)
  BY <1>1 DEF Outstanding, Complete, Reduced, Steps, Done
<1>2. ASSUME NEW c \in Clerk, NEW e \in Employee, CreateChecklist(c, e) \/ ReadSteps(c, e)
      PROVE  Owed'
  <2>1. ~Due(c) /\ \A d \in Clerk \ {c} : proc'[d] = proc[d]
    BY <1>2 DEF CreateChecklist, ReadSteps, At, Due, Goto, Typed, TypeOK
  <2> QED
    BY <1>1, <1>2, <2>1, OthersOwe DEF CreateChecklist, ReadSteps
<1>3. ASSUME NEW c \in Clerk, NEW S \in SUBSET Task, FillChecklist(c, S)
      PROVE  Owed'
  <2>1. ~Due(c) /\ \A d \in Clerk \ {c} : proc'[d] = proc[d]
    BY <1>3, ReturnTyped DEF FillChecklist, At, Due
  <2>2. Mine(c) \in Employee
    BY <1>3 DEF FillChecklist, At, Mine, Typed, Attends
  <2> QED
    BY <1>3, <2>1, <2>2, FillOutstanding, OthersOwe DEF FillChecklist
<1>4. ASSUME NEW c \in Clerk, NEW s \in Task, AddStep(c, s)
      PROVE  Owed'
  <2>1. ~Due(c) /\ \A d \in Clerk \ {c} : proc'[d] = proc[d]
    BY <1>4 DEF AddStep, At, Due, Goto, Typed, TypeOK
  <2>2. Mine(c) \in Employee
    BY <1>4 DEF AddStep, At, Mine, Typed, Attends
  <2> QED
    BY <1>4, <2>1, <2>2, FillOutstanding, OthersOwe DEF AddStep
<1>5. ASSUME NEW c \in Clerk, NEW s \in Task, DeleteStep(c, s)
      PROVE  Owed'
  <2>1. ~Due(c) /\ \A d \in Clerk \ {c} : proc'[d] = proc[d]
    BY <1>5 DEF DeleteStep, At, Due, Goto, Typed, TypeOK
  <2>2. ASSUME NEW e \in Employee, Outstanding(e)'
        PROVE  Outstanding(e)
    <3>1. \A t \in Task \ {s} : step'[t] = step[t]
      BY <1>5 DEF DeleteStep, Typed, TypeOK
    <3>2. step'[s].of = step[s].of /\ step'[s].status = "deleted"
      BY <1>5 DEF DeleteStep, Typed, TypeOK, StepRow
    <3>3. step[s].of # e
      BY <2>2, <3>2 DEF Outstanding, Reduced
    <3>4. Steps(e)' = Steps(e) /\ Done(e)' = Done(e)
      BY <3>1, <3>2, <3>3 DEF Steps, Done
    <3>5. Reduced(e) => Reduced(e)'
      BY <3>1, <3>2, <3>3 DEF Reduced
    <3> QED
      BY <1>5, <2>2, <3>4, <3>5 DEF DeleteStep, Outstanding, Complete
  <2> QED
    BY <2>1, <2>2, OthersOwe
<1>6. ASSUME NEW c \in Clerk, NEW s \in Task, NEW status \in {"pending", "completed"},
             UpdateStep(c, s, status)
      PROVE  Owed'
  <2>1. ~Due(c) /\ \A d \in Clerk \ {c} : proc'[d] = proc[d]
    BY <1>6 DEF UpdateStep, At, Due, Goto, Typed, TypeOK
  <2>2. proc'[c] = Work("count", "update", step[s].of, 0)
    BY <1>6 DEF UpdateStep, Goto, Typed, TypeOK
  <2>3. proc'[c].about = step[s].of /\ Due(c)'
    BY <2>2 DEF Work, Due
  <2>4. ASSUME NEW e \in Employee, Outstanding(e)', step[s].of # e
        PROVE  Outstanding(e)
    <3>1. \A t \in Task \ {s} : step'[t] = step[t]
      BY <1>6 DEF UpdateStep, Typed, TypeOK
    <3>2. step'[s].of = step[s].of
      BY <1>6 DEF UpdateStep, Typed, TypeOK, StepRow
    <3>3. Steps(e)' = Steps(e) /\ Done(e)' = Done(e)
      BY <2>4, <3>1, <3>2 DEF Steps, Done
    <3>4. Reduced(e) => Reduced(e)'
      BY <2>4, <3>1, <3>2 DEF Reduced
    <3> QED
      BY <1>6, <2>4, <3>3, <3>4 DEF UpdateStep, Outstanding, Complete
  <2> QED
    BY <2>1, <2>3, <2>4, OthersOwe
<1>7. ASSUME NEW c \in Clerk, CountSteps(c)
      PROVE  Owed'
  <2>1. step' = step /\ employee' = employee
    BY <1>7 DEF CountSteps
  <2>2. \A d \in Clerk \ {c} : proc'[d] = proc[d]
    BY <1>7 DEF CountSteps, Goto, Return, Typed, TypeOK
  <2>3. ASSUME NEW e \in Employee, Outstanding(e), Mine(c) = e, Due(c)
        PROVE  proc'[c].about = e /\ Due(c)'
    <3>1. Cardinality(Steps(e)) # 0 /\ Done(e) = Steps(e)
      BY <2>3, CountTyped DEF Outstanding, Complete, Steps
    <3>2. Percent(Cardinality(Done(e)), Cardinality(Steps(e))) = 100
      BY <3>1 DEF Percent
    <3>3. proc[c].kind = "update"
      BY <2>3 DEF Due
    <3>4. proc'[c] = Work("save", "update", e, 100)
      BY <1>7, <2>3, <3>1, <3>2, <3>3 DEF CountSteps, Goto, Typed, TypeOK
    <3> QED
      BY <3>4 DEF Work, Due
  <2> QED
    BY <1>1, <2>1, <2>2, <2>3 DEF Owed, Due, Mine
<1>8. ASSUME NEW c \in Clerk, SaveProgress(c)
      PROVE  Owed'
  <2>1. step' = step /\ employee' = employee
    BY <1>8 DEF SaveProgress
  <2>2. \A d \in Clerk \ {c} : proc'[d] = proc[d]
    BY <1>8 DEF SaveProgress, Goto, Return, Typed, TypeOK
  <2>3. ASSUME NEW e \in Employee, Mine(c) = e, Due(c)
        PROVE  proc'[c].about = e /\ Due(c)'
    <3>1. proc[c].kind = "update" /\ proc[c].progress = 100
      BY <1>8, <2>3 DEF Due, SaveProgress, At
    <3>2. proc'[c] = Work("graduate", "update", e, 100)
      BY <1>8, <2>3, <3>1 DEF SaveProgress, Goto, Typed, TypeOK
    <3> QED
      BY <3>2 DEF Work, Due
  <2> QED
    BY <1>1, <2>1, <2>2, <2>3 DEF Owed, Due, Mine
<1>9. ASSUME NEW c \in Clerk, Graduate(c)
      PROVE  Owed'
  <2>1. step' = step
    BY <1>9 DEF Graduate
  <2>2. \A d \in Clerk \ {c} : proc'[d] = proc[d]
    BY <1>9 DEF Graduate, Goto, Return, Typed, TypeOK
  <2>3. \A e \in Employee : employee'[e] = "onboarding" => employee[e] = "onboarding" /\ Mine(c) # e
    BY <1>9 DEF Graduate, Typed, TypeOK
  <2> QED
    BY <1>1, <2>1, <2>2, <2>3 DEF Owed, Due, Mine, Outstanding
<1>10. ASSUME NEW c \in Clerk, Offboard(c)
       PROVE  Owed'
  <2>1. step' = step
    BY <1>10 DEF Offboard, InitiateExit, InstantiateClearances, CompleteItem, CountRemaining,
                 ReadReadiness, ApproveExit
  <2>2. \A d \in Clerk \ {c} : proc'[d] = proc[d]
    BY <1>10 DEF Offboard, InitiateExit, InstantiateClearances, CompleteItem, CountRemaining,
                 ReadReadiness, ApproveExit, Goto, Return, Typed, TypeOK
  <2>3. ~Due(c)
    BY <1>10 DEF Offboard, InitiateExit, InstantiateClearances, CompleteItem, CountRemaining,
                 ReadReadiness, ApproveExit, At, Due
  <2>4. \A e \in Employee : employee'[e] = "onboarding" => employee[e] = "onboarding"
    BY <1>10 DEF Offboard, InitiateExit, InstantiateClearances, CompleteItem, CountRemaining,
                 ReadReadiness, ApproveExit, Terminate, Typed, TypeOK
  <2> QED
    BY <1>1, <2>1, <2>2, <2>3, <2>4, OthersOwe
<1>11. CASE step' = step /\ employee' = employee /\ proc' = proc
  BY <1>1, <1>11 DEF Owed, Due, Mine
<1> QED
  BY <1>2, <1>3, <1>4, <1>5, <1>6, <1>7, <1>8, <1>9, <1>10, <1>11
  DEF Next, Onboard, Decide, AddClearanceItem, RejectExit, MarkSettlementPaid, MarkItem, vars

\* An employee whose steps are done is made active by the last request about them.
THEOREM GraduatesWhenDoneAlways == Spec => []GraduatesWhenDone
<1>1. Init => Owed
  BY DEF Init, NoRow, Owed, Outstanding, Complete, Steps
<1>2. Owed => GraduatesWhenDone
  BY DEF Owed, Outstanding, GraduatesWhenDone
<1> QED
  BY <1>1, <1>2, OwedStep, TypedHolds, PTL DEF Spec

-----------------------------------------------------------------------------
(* Clearances.                                                               *)

\* The inductive invariant.
Noticed ==
    /\ SomebodyNotices
    /\ \A i \in Item : item[i].status = "none" => item[i].of = Nobody

\* Requests that are not about to count the items of an exit.
LEMMA OthersNotice ==
    ASSUME Typed, Noticed, NEW c \in Clerk, ~At(c, "remaining"),
           \A d \in Clerk \ {c} : proc'[d] = proc[d], item' = item, notified' = notified
    PROVE  Noticed'
BY DEF Noticed, SomebodyNotices, At, Mine, Items

\* New items are to be completed.
LEMMA FillNotices ==
    ASSUME Typed, Noticed, NEW S \in SUBSET Item, NEW y \in Exit, Unused(item, S),
           item' = Fill(item, S, y), notified' = notified,
           \A d \in Clerk : At(d, "remaining") => At(d, "remaining")' /\ Mine(d)' = Mine(d)
    PROVE  Noticed'
<1>1. \A i \in Item \ S : item'[i] = item[i]
  BY DEF Fill, Typed, TypeOK
<1>2. \A i \in S : /\ item[i].of = Nobody
                   /\ item'[i].status = "pending" /\ item'[i].of = y
  BY DEF Fill, Unused, Typed, TypeOK, Noticed
<1>3. ASSUME NEW x \in Exit, Items(x)' # {},
             \A i \in Items(x)' : item'[i].status = "completed",
             \A d \in Clerk : At(d, "remaining")' => Mine(d)' # x
      PROVE  x \in notified
  <2>1. x = y => S = {}
    BY <1>2, <1>3 DEF Items
  <2>2. Items(x)' = Items(x)
    BY <1>1, <1>2, <2>1, NobodyAssumption DEF Items
  <2>3. \A i \in Items(x) : item[i].status = "completed"
    BY <1>1, <1>2, <1>3, <2>1, <2>2, NobodyAssumption DEF Items
  <2> QED
    BY <1>3, <2>2, <2>3 DEF Noticed, SomebodyNotices
<1>4. \A i \in Item : item'[i].status = "none" => item'[i].of = Nobody
  BY <1>1, <1>2 DEF Noticed
<1> QED
  BY <1>3, <1>4 DEF Noticed, SomebodyNotices

LEMMA NoticedStep == Typed /\ Noticed /\ [Next]_vars => Noticed'
<1> SUFFICES ASSUME Typed, Noticed, [Next]_vars PROVE Noticed'
  OBVIOUS
<1> USE DEF joining, leaving
<1>1. ASSUME NEW c \in Clerk, Onboard(c)
      PROVE  Noticed'
  <2>1. item' = item /\ notified' = notified
    BY <1>1 DEF Onboard, CreateChecklist, FillChecklist, ReadSteps, AddStep, DeleteStep,
                UpdateStep, CountSteps, SaveProgress, Graduate
  <2>2. ~At(c, "remaining")
    BY <1>1 DEF Onboard, CreateChecklist, FillChecklist, ReadSteps, AddStep, DeleteStep,
                UpdateStep, CountSteps, SaveProgress, Graduate, At
  <2>3. \E h : Goto(c, h)
    BY <1>1 DEF Onboard, CreateChecklist, FillChecklist, ReadSteps, AddStep, DeleteStep,
                UpdateStep, CountSteps, SaveProgress, Graduate, Return
  <2>4. \A d \in Clerk \ {c} : proc'[d] = proc[d]
    BY <2>3 DEF Goto, Typed, TypeOK
  <2> QED
    BY <2>1, <2>2, <2>4, OthersNotice
<1>2. ASSUME NEW c \in Clerk,
             \/ \E x \in Exit, e \in Employee : InitiateExit(c, x, e)
             \/ \E x \in Exit, override \in BOOLEAN : ReadReadiness(c, x, override)
             \/ ApproveExit(c)
      PROVE  Noticed'
  <2>1. item' = item /\ notified' = notified /\ ~At(c, "remaining")
    BY <1>2 DEF InitiateExit, ReadReadiness, ApproveExit, At
  <2>2. \A d \in Clerk \ {c} : proc'[d] = proc[d]
    BY <1>2 DEF InitiateExit, ReadReadiness, ApproveExit, Goto, Return, Typed, TypeOK
  <2> QED
    BY <2>1, <2>2, OthersNotice
<1>3. ASSUME NEW c \in Clerk, NEW S \in SUBSET Item, InstantiateClearances(c, S)
      PROVE  Noticed'
  <2>1. Mine(c) \in Exit /\ ~At(c, "remaining")
    BY <1>3 DEF InstantiateClearances, At, Mine, Typed, Attends
  <2>2. \A d \in Clerk \ {c} : proc'[d] = proc[d]
    BY <1>3, ReturnTyped DEF InstantiateClearances
  <2>3. \A d \in Clerk : At(d, "remaining") => At(d, "remaining")' /\ Mine(d)' = Mine(d)
    BY <2>1, <2>2 DEF At, Mine
  <2> QED
    BY <1>3, <2>1, <2>3, FillNotices DEF InstantiateClearances
<1>4. ASSUME NEW c \in Clerk, NEW i \in Item, CompleteItem(c, i)
      PROVE  Noticed'
  <2>1. proc'[c] = Work("remaining", "exit", item[i].of, 0)
    BY <1>4 DEF CompleteItem, Goto, Typed, TypeOK
  <2>2. At(c, "remaining")' /\ Mine(c)' = item[i].of
    BY <2>1 DEF Work, At, Mine
  <2>3. \A d \in Clerk \ {c} : proc'[d] = proc[d]
    BY <1>4 DEF CompleteItem, Goto, Typed, TypeOK
  <2>4. \A j \in Item \ {i} : item'[j] = item[j]
    BY <1>4 DEF CompleteItem, Typed, TypeOK
  <2>5. item'[i].of = item[i].of /\ item'[i].status = "completed"
    BY <1>4 DEF CompleteItem, Typed, TypeOK, ItemRow
  <2>6. ASSUME NEW x \in Exit, Items(x)' # {},
               \A j \in Items(x)' : item'[j].status = "completed",
               \A d \in Clerk : At(d, "remaining")' => Mine(d)' # x
        PROVE  x \in notified'
    <3>1. x # item[i].of
      BY <2>2, <2>6
    <3>2. Items(x)' = Items(x)
      BY <2>4, <2>5 DEF Items
    <3>3. \A j \in Items(x) : item[j].status = "completed"
      BY <2>4, <2>6, <3>1, <3>2 DEF Items
    <3>4. \A d \in Clerk : At(d, "remaining") => Mine(d) # x
      BY <1>4, <2>3, <2>6 DEF CompleteItem, At, Mine
    <3> QED
      BY <1>4, <2>6, <3>2, <3>3, <3>4 DEF CompleteItem, Noticed, SomebodyNotices
  <2> QED
    BY <2>4, <2>5, <2>6 DEF Noticed, SomebodyNotices
<1>5. ASSUME NEW c \in Clerk, CountRemaining(c)
      PROVE  Noticed'
  <2>1. \A d \in Clerk \ {c} : proc'[d] = proc[d]
    BY <1>5, ReturnTyped DEF CountRemaining
  <2>2. notified \subseteq notified'
    BY <1>5 DEF CountRemaining
  <2>3. ASSUME NEW x \in Exit, Items(x)' # {},
               \A j \in Items(x)' : item'[j].status = "completed",
               \A d \in Clerk : At(d, "remaining")' => Mine(d)' # x
        PROVE  x \in notified'
    <3>1. Items(x)' = Items(x) /\ \A j \in Items(x) : item[j].status = "completed"
      BY <1>5, <2>3 DEF CountRemaining, Items
    <3>2. CASE Mine(c) = x
      BY <1>5, <3>1, <3>2 DEF CountRemaining, Open
    <3>3. CASE Mine(c) # x
      <4>1. \A d \in Clerk : At(d, "remaining") => Mine(d) # x
        BY <2>1, <2>3, <3>3 DEF At, Mine
      <4> QED
        BY <2>2, <2>3, <3>1, <4>1 DEF Noticed, SomebodyNotices
    <3> QED
      BY <3>2, <3>3
  <2> QED
    BY <1>5, <2>3 DEF CountRemaining, Noticed, SomebodyNotices
<1>6. ASSUME NEW x \in Exit, NEW i \in Item, AddClearanceItem(x, i)
      PROVE  Noticed'
  BY <1>6, FillNotices DEF AddClearanceItem, At, Mine
<1>7. ASSUME NEW i \in Item, NEW status \in {"pending", "waived"}, MarkItem(i, status)
      PROVE  Noticed'
  <2>1. \A j \in Item \ {i} : item'[j] = item[j]
    BY <1>7 DEF MarkItem, Typed, TypeOK
  <2>2. item'[i].of = item[i].of /\ item'[i].status = status
    BY <1>7 DEF MarkItem, Typed, TypeOK, ItemRow
  <2>3. ASSUME NEW x \in Exit, Items(x)' # {},
               \A j \in Items(x)' : item'[j].status = "completed",
               \A d \in Clerk : At(d, "remaining")' => Mine(d)' # x
        PROVE  x \in notified'
    <3>1. Items(x)' = Items(x)
      BY <2>1, <2>2 DEF Items
    <3>2. \A j \in Items(x) : item[j].status = "completed"
      <4>1. item'[i].status # "completed"
        BY <1>7, <2>2
      <4>2. i \notin Items(x)
        BY <2>3, <3>1, <4>1
      <4> QED
        BY <2>1, <2>3, <3>1, <4>2 DEF Items
    <3>3. \A d \in Clerk : At(d, "remaining") => Mine(d) # x
      BY <1>7, <2>3 DEF MarkItem, At, Mine
    <3> QED
      BY <1>7, <2>3, <3>1, <3>2, <3>3 DEF MarkItem, Noticed, SomebodyNotices
  <2> QED
    BY <2>1, <2>2, <2>3 DEF Noticed, SomebodyNotices
<1>8. CASE item' = item /\ notified' = notified /\ proc' = proc
  BY <1>8 DEF Noticed, SomebodyNotices, Items, At, Mine
<1> QED
  BY <1>1, <1>2, <1>3, <1>4, <1>5, <1>6, <1>7, <1>8
  DEF Next, Offboard, Decide, RejectExit, MarkSettlementPaid, vars

\* When all items of an exit are completed, the workflows waiting for it have
\* been fired or are about to be.
THEOREM SomebodyNoticesAlways == Spec => []SomebodyNotices
<1>1. Init => Noticed
  BY NobodyAssumption DEF Init, NoRow, Noticed, SomebodyNotices, Items
<1>2. Noticed => SomebodyNotices
  BY DEF Noticed
<1> QED
  BY <1>1, <1>2, NoticedStep, TypedHolds, PTL DEF Spec

=============================================================================
