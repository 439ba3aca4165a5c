----------------------------- MODULE Employment -----------------------------
(* How an employment begins and ends: the checklist of an employee, whose    *)
(* last step makes the employee active, and exits with their clearance       *)
(* items, whose approval terminates the employee.                            *)
(*                                                                           *)
(* A change of a step counts the steps afterwards, in a statement of its     *)
(* own, and so does a change of a clearance item: whoever comes last has to  *)
(* do what is due when everything is done.                                   *)
EXTENDS Integers, FiniteSets

CONSTANTS
    Employee,       \* employees
    Exit,           \* exit requests that may be made
    Nobody,         \* a row or a handler that is about no employee and no exit
    Task,           \* steps of checklists that may be added
    Item,           \* clearance items that may be added
    Clerk           \* people of HR and owners of items, one request each

ASSUME NobodyAssumption == Nobody \notin Employee \cup Exit
ASSUME TaskAssumption == IsFiniteSet(Task)

VARIABLES
    employee,       \* rows of employees: the status
    checklist,      \* rows of onboarding_checklists, one per employee
    step,           \* rows of onboarding_steps
    exit,           \* rows of exit_requests
    item,           \* rows of exit_clearance_items
    notified,       \* exits whose workflows on_clearance_complete were fired
    proc            \* requests: program counter and locals

joining == <<checklist, step>>
leaving == <<exit, item, notified>>
vars == <<employee, joining, leaving, proc>>

EmployeeStatus == {"onboarding", "active", "terminated"}
ChecklistRow == [there : BOOLEAN, progress : Int]
StepRow == [of : Employee \cup {Nobody}, status : {"none", "pending", "completed", "deleted"}]
ExitRow == [of : Employee \cup {Nobody},
            status : {"none", "pending", "approved", "rejected", "completed"}]
\* An item in progress is pending as well.
ItemRow == [of : Exit \cup {Nobody}, status : {"none", "pending", "completed", "waived"}]

PC == {"idle", "fill", "count", "add", "save", "graduate", "instantiate", "remaining", "approve"}
Handler == [pc : PC, kind : {"none", "add", "delete", "update", "exit"},
            about : Employee \cup Exit \cup {Nobody}, progress : Int]

Work(pc, kind, about, progress) ==
    [pc |-> pc, kind |-> kind, about |-> about, progress |-> progress]
Idle == Work("idle", "none", Nobody, 0)
NoRow == [of |-> Nobody, status |-> "none"]

TypeOK ==
    /\ employee \in [Employee -> EmployeeStatus]
    /\ checklist \in [Employee -> ChecklistRow]
    /\ step \in [Task -> StepRow]
    /\ exit \in [Exit -> ExitRow]
    /\ item \in [Item -> ItemRow]
    /\ notified \in SUBSET Exit
    /\ proc \in [Clerk -> Handler]

Init ==
    /\ employee \in [Employee -> {"onboarding", "active"}]
    /\ checklist = [e \in Employee |-> [there |-> FALSE, progress |-> 0]]
    /\ step = [s \in Task |-> NoRow]
    /\ exit = [x \in Exit |-> NoRow]
    /\ item = [i \in Item |-> NoRow]
    /\ notified = {}
    /\ proc = [c \in Clerk |-> Idle]

-----------------------------------------------------------------------------
(* Helpers.                                                                  *)

At(c, pc) == proc[c].pc = pc
Mine(c) == proc[c].about
Goto(c, handler) == proc' = [proc EXCEPT ![c] = handler]
Return(c) == Goto(c, Idle)

\* Steps of an employee, items of an exit.
Steps(e) == {s \in Task : step[s].of = e /\ step[s].status \in {"pending", "completed"}}
Done(e) == {s \in Steps(e) : step[s].status = "completed"}
Items(x) == {i \in Item : item[i].of = x}
Open(x) == {i \in Items(x) : item[i].status = "pending"}

Unused(rows, S) == \A s \in S : rows[s].status = "none"
Fill(rows, S, of) ==
    [s \in DOMAIN rows |-> IF s \in S THEN [of |-> of, status |-> "pending"] ELSE rows[s]]

\* 100 * done / total, rounded.
Percent(done, total) ==
    IF done = total THEN 100 ELSE (200 * done + total) \div (2 * total)

-----------------------------------------------------------------------------
(* Onboarding.                                                               *)

\* A second checklist breaks the uniqueness of the employee.
CreateChecklist(c, e) ==
    /\ At(c, "idle")
    /\ ~checklist[e].there
    /\ checklist' = [checklist EXCEPT ![e].there = TRUE]
    /\ Goto(c, Work("fill", "none", e, 0))
    /\ UNCHANGED <<employee, step, leaving>>

\* The steps of the template, that may have none.
FillChecklist(c, S) ==
    /\ At(c, "fill")
    /\ Unused(step, S)
    /\ step' = Fill(step, S, Mine(c))
    /\ Return(c)
    /\ UNCHANGED <<employee, checklist, leaving>>

\* The new progress is that of the steps read now and a new one.
ReadSteps(c, e) ==
    /\ At(c, "idle")
    /\ checklist[e].there
    /\ Goto(c, Work("add", "add", e, Percent(Cardinality(Done(e)), Cardinality(Steps(e)) + 1)))
    /\ UNCHANGED <<employee, joining, leaving>>

AddStep(c, s) ==
    /\ At(c, "add")
    /\ Unused(step, {s})
    /\ step' = Fill(step, {s}, Mine(c))
    /\ Goto(c, Work("save", "add", Mine(c), proc[c].progress))
    /\ UNCHANGED <<employee, checklist, leaving>>

DeleteStep(c, s) ==
    /\ At(c, "idle")
    /\ step[s].status \in {"pending", "completed"}
    /\ step' = [step EXCEPT ![s].status = "deleted"]
    /\ Goto(c, Work("count", "delete", step[s].of, 0))
    /\ UNCHANGED <<employee, checklist, leaving>>

\* By hand, or by the upload of the last document a step asks for.
UpdateStep(c, s, status) ==
    /\ At(c, "idle")
    /\ step[s].status \in {"pending", "completed"}
    /\ status \in {"pending", "completed"}
    /\ step' = [step EXCEPT ![s].status = status]
    /\ Goto(c, Work("count", "update", step[s].of, 0))
    /\ UNCHANGED <<employee, checklist, leaving>>

\* An update of a step while the last one is deleted divides by nothing and fails.
CountSteps(c) ==
    /\ At(c, "count")
    /\ LET total == Cardinality(Steps(Mine(c)))
           done == Cardinality(Done(Mine(c)))
       IN  IF total = 0 /\ proc[c].kind = "update"
             THEN Return(c)
             ELSE Goto(c, Work("save", proc[c].kind, Mine(c),
                               IF total = 0 THEN 0 ELSE Percent(done, total)))
    /\ UNCHANGED <<employee, joining, leaving>>

SaveProgress(c) ==
    /\ At(c, "save")
    /\ checklist' = [checklist EXCEPT ![Mine(c)].progress = proc[c].progress]
    /\ IF proc[c].kind = "update" /\ proc[c].progress = 100
         THEN Goto(c, Work("graduate", "update", Mine(c), 100))
         ELSE Return(c)
    /\ UNCHANGED <<employee, step, leaving>>

\* Mutant: a status is asked for that no employee has.
GraduateProbation(c) ==
    /\ At(c, "graduate")
    /\ IF employee[Mine(c)] = "probation"
         THEN employee' = [employee EXCEPT ![Mine(c)] = "active"]
         ELSE UNCHANGED employee
    /\ Return(c)
    /\ UNCHANGED <<joining, leaving>>

\* Mutant: whatever the status of the employee is.
GraduateAnybody(c) ==
    /\ At(c, "graduate")
    /\ employee' = [employee EXCEPT ![Mine(c)] = "active"]
    /\ Return(c)
    /\ UNCHANGED <<joining, leaving>>

Graduate(c) ==
    /\ At(c, "graduate")
    /\ IF employee[Mine(c)] = "onboarding"
         THEN employee' = [employee EXCEPT ![Mine(c)] = "active"]
         ELSE UNCHANGED employee
    /\ Return(c)
    /\ UNCHANGED <<joining, leaving>>

-----------------------------------------------------------------------------
(* Exits.                                                                    *)

\* Also for an employee who has an exit already or is terminated.
InitiateExit(c, x, e) ==
    /\ At(c, "idle")
    /\ Unused(exit, {x})
    /\ exit' = Fill(exit, {x}, e)
    /\ Goto(c, Work("instantiate", "exit", x, 0))
    /\ UNCHANGED <<employee, joining, item, notified>>

\* The items of the templates; none if there are none or the insert fails.
InstantiateClearances(c, S) ==
    /\ At(c, "instantiate")
    /\ Unused(item, S)
    /\ item' = Fill(item, S, Mine(c))
    /\ Return(c)
    /\ UNCHANGED <<employee, joining, exit, notified>>

AddClearanceItem(x, i) ==
    /\ exit[x].status # "none"
    /\ Unused(item, {i})
    /\ item' = Fill(item, {i}, x)
    /\ UNCHANGED <<employee, joining, exit, notified, proc>>

CompleteItem(c, i) ==
    /\ At(c, "idle")
    /\ item[i].status # "none"
    /\ item' = [item EXCEPT ![i].status = "completed"]
    /\ Goto(c, Work("remaining", "exit", item[i].of, 0))
    /\ UNCHANGED <<employee, joining, exit, notified>>

\* An item that is waived, or opened again, fires nothing.
MarkItem(i, status) ==
    /\ item[i].status # "none"
    /\ status \in {"pending", "waived"}
    /\ item' = [item EXCEPT ![i].status = status]
    /\ UNCHANGED <<employee, joining, exit, notified, proc>>

\* Mutant: the items of all exits are counted.
CountAll(c) ==
    /\ At(c, "remaining")
    /\ notified' = IF \A i \in Item : item[i].status # "pending"
                     THEN notified \cup {Mine(c)} ELSE notified
    /\ Return(c)
    /\ UNCHANGED <<employee, joining, exit, item>>

CountRemaining(c) ==
    /\ At(c, "remaining")
    /\ notified' = IF Open(Mine(c)) = {} THEN notified \cup {Mine(c)} ELSE notified
    /\ Return(c)
    /\ UNCHANGED <<employee, joining, exit, item>>

\* Ready: no item is open. The exit interview, which may refuse the approval
\* as well, is left out. With an override nothing is read.
ReadReadiness(c, x, override) ==
    /\ At(c, "idle")
    /\ exit[x].status # "none"
    /\ override \/ Open(x) = {}
    /\ Goto(c, Work("approve", "exit", x, 0))
    /\ UNCHANGED <<employee, joining, leaving>>

Terminate(x) == employee' = [employee EXCEPT ![exit[x].of] = "terminated"]

\* Mutant: the exit has been pending when the items were looked at.
ApproveAnything(c) ==
    /\ At(c, "approve")
    /\ exit' = [exit EXCEPT ![Mine(c)].status = "approved"]
    /\ Terminate(Mine(c))
    /\ Return(c)
    /\ UNCHANGED <<joining, item, notified>>

ApproveExit(c) ==
    /\ At(c, "approve")
    /\ IF exit[Mine(c)].status = "pending"
         THEN exit' = [exit EXCEPT ![Mine(c)].status = "approved"] /\ Terminate(Mine(c))
         ELSE UNCHANGED <<exit, employee>>
    /\ Return(c)
    /\ UNCHANGED <<joining, item, notified>>

RejectExit(x) ==
    /\ exit[x].status = "pending"
    /\ exit' = [exit EXCEPT ![x].status = "rejected"]
    /\ UNCHANGED <<employee, joining, item, notified, proc>>

MarkSettlementPaid(x) ==
    /\ exit[x].status = "approved"
    /\ exit' = [exit EXCEPT ![x].status = "completed"]
    /\ UNCHANGED <<employee, joining, item, notified, proc>>

-----------------------------------------------------------------------------

Onboard(c) ==
    \/ \E e \in Employee : CreateChecklist(c, e) \/ ReadSteps(c, e)
    \/ \E S \in SUBSET Task : FillChecklist(c, S)
    \/ \E s \in Task : AddStep(c, s) \/ DeleteStep(c, s)
    \/ \E s \in Task, status \in {"pending", "completed"} : UpdateStep(c, s, status)
    \/ CountSteps(c)
    \/ SaveProgress(c)
    \/ Graduate(c)

Offboard(c) ==
    \/ \E x \in Exit, e \in Employee : InitiateExit(c, x, e)
    \/ \E S \in SUBSET Item : InstantiateClearances(c, S)
    \/ \E i \in Item : CompleteItem(c, i)
    \/ CountRemaining(c)
    \/ \E x \in Exit, override \in BOOLEAN : ReadReadiness(c, x, override)
    \/ ApproveExit(c)

Decide(x) ==
    \/ \E i \in Item : AddClearanceItem(x, i)
    \/ RejectExit(x)
    \/ MarkSettlementPaid(x)

Next ==
    \/ \E c \in Clerk : Onboard(c) \/ Offboard(c)
    \/ \E x \in Exit : Decide(x)
    \/ \E i \in Item, status \in {"pending", "waived"} : MarkItem(i, status)

Spec == Init /\ [][Next]_vars

-----------------------------------------------------------------------------
(* Properties.                                                               *)

Complete(e) == Steps(e) # {} /\ Done(e) = Steps(e)
Reduced(e) == \E s \in Task : step[s].of = e /\ step[s].status = "deleted"

\* An employee whose steps are all done is not left onboarding once the
\* requests about the checklist are through, however they overlap. Only the
\* deletion of the last open step makes nobody active.
GraduatesWhenDone ==
    \A e \in Employee :
        Complete(e) /\ ~Reduced(e) /\ (\A c \in Clerk : Mine(c) # e)
            => employee[e] # "onboarding"

\* When all items of an exit are completed somebody has fired the workflows
\* that wait for it, also if the last two were completed at the same time.
SomebodyNotices ==
    \A x \in Exit :
        /\ Items(x) # {}
        /\ \A i \in Items(x) : item[i].status = "completed"
        /\ \A c \in Clerk : At(c, "remaining") => Mine(c) # x
        => x \in notified

\* Who has left stays terminated, whatever is still done about the checklist
\* and however many exits the employee has.
LeaversStay ==
    \A x \in Exit :
        exit[x].status \in {"approved", "completed"} => employee[exit[x].of] = "terminated"

\* An exit is decided once: an approval that was admitted before a rejection
\* or a settlement changes neither.
DecidedOnce ==
    [][\A x \in Exit :
           exit'[x].status # exit[x].status =>
               <<exit[x].status, exit'[x].status>> \in
                   {<<"none", "pending">>, <<"pending", "approved">>,
                    <<"pending", "rejected">>, <<"approved", "completed">>}]_vars
=============================================================================
