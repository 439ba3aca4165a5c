---------------------------- MODULE PayrollLoans ----------------------------
(* Payroll and loans together.  Every month that is run withholds one        *)
(* installment of every active loan (the loan rows of                        *)
(* syncAdjustmentsForPeriod, folded into the payslips); the loan's own       *)
(* balance moves only when HR records a payment.  Nothing in payroll records *)
(* one, and the sync does not look at deleted_at, so what employees lose and *)
(* what loans say drift apart as far as HR is behind.                        *)
EXTENDS Loans

CONSTANT
    LastRun         \* bound: months payroll is run for

ASSUME LastRunAssumption == LastRun \in Nat

VARIABLES
    monthsRun,      \* months payroll has been run for
    withheld,       \* withheld[l]: taken from the employee's pay for loan l
    deductions,     \* deductions[l]: in how many months
    backlog         \* history, backlog[l]: the most installments that were
                    \* withheld and not recorded when another was withheld

payrollVars == <<monthsRun, withheld, deductions, backlog>>
allVars == <<vars, payrollVars>>

PayrollTypeOK ==
    /\ TypeOK
    /\ monthsRun \in 0 .. LastRun
    /\ withheld \in [Loan -> Nat]
    /\ deductions \in [Loan -> 0 .. LastRun]
    /\ backlog \in [Loan -> 0 .. LastRun]

PayrollInit ==
    /\ Init
    /\ monthsRun = 0
    /\ withheld = [l \in Loan |-> 0]
    /\ deductions = [l \in Loan |-> 0]
    /\ backlog = [l \in Loan |-> 0]

\* The sync's query: active, whether or not the loan has been deleted.
Deducted == {l \in Loan : loan[l].status = "active"}

\* Mutant: the last installment is withheld in full.
DeductionUncapped(l) == loan[l].monthly

\* Mutant: deductions are booked with their sign.
DeductionSigned(l) == -Lesser(loan[l].monthly, loan[l].remaining)

\* One installment, capped at the balance.
Deduction(l) == Lesser(loan[l].monthly, loan[l].remaining)

\* Installments withheld that HR has not recorded as payments.
Behind(l) == NotNegative(deductions[l] - loan[l].paid)

\* An approved payroll run for the next month.
RunMonth ==
    /\ monthsRun < LastRun
    /\ monthsRun' = monthsRun + 1
    /\ withheld' = [l \in Loan |->
                      IF l \in Deducted THEN withheld[l] + Deduction(l) ELSE withheld[l]]
    /\ deductions' = [l \in Loan |->
                      IF l \in Deducted THEN deductions[l] + 1 ELSE deductions[l]]
    /\ backlog' = [l \in Loan |->
                      IF l \in Deducted /\ Behind(l) > backlog[l]
                      THEN Behind(l) ELSE backlog[l]]
    /\ UNCHANGED vars

LoanStep ==
    /\ Next
    /\ UNCHANGED payrollVars

PayrollNext == RunMonth \/ LoanStep

PayrollSpec == PayrollInit /\ [][PayrollNext]_allVars

-----------------------------------------------------------------------------

\* What payroll takes for a loan exceeds it by no more than an installment
\* for each month HR has been behind with recording payments, and by nothing
\* if HR never was: every deduction is capped at the balance the loan shows,
\* however decisions race and whatever is deleted (syncAdjustmentsForPeriod,
\* recordLoanPayment).
OverWithheldBounded ==
    \A l \in Loan : withheld[l] <= loan[l].amount + backlog[l] * loan[l].monthly
=============================================================================
