-------------------------------- MODULE Loans --------------------------------
(* Employee loans: request, decision, monthly payments.  approveLoan and     *)
(* rejectLoan read the loan and then write it in a second statement, so a    *)
(* decision is a process of two steps; recordLoanPayment locks the row       *)
(* (SELECT ... FOR UPDATE) and is one step.                                  *)
(* Months are numbered from a January, 1; amounts are whole units.           *)
EXTENDS Integers, FiniteSets, FiniteSetsExt

CONSTANTS
    Loan,           \* loans that may be requested
    NoLoan,         \* a decider with no decision under way
    Decider,        \* HR requests that approve or reject
    LastStart,      \* bound: months a loan may start in
    LastMonth,      \* bound: months payments are recorded for
    MaxAmount       \* bound: amounts of a loan

ASSUME LoanAssumption == NoLoan \notin Loan
ASSUME CalendarAssumption ==
    /\ LastStart \in Nat
    /\ LastMonth \in Nat
    /\ MaxAmount \in Nat

VARIABLES
    loan,       \* rows of employee_loans
    payments,   \* payments[l]: rows of loan_payments
    decider,    \* what each decider has read
    contested   \* history: loans two deciders have been deciding on at a time

vars == <<loan, payments, decider, contested>>

Month == 1 .. LastMonth
Money == 0 .. MaxAmount
LoanStatus == {"none", "pending", "active", "rejected", "completed"}

LoanRow == [status : LoanStatus, deleted : BOOLEAN, amount : Money, monthly : Nat,
            start : Nat, paid : Nat, remaining : Money]
Payment == [month : Month, amount : Money]
DeciderState == [loan : Loan \cup {NoLoan}, verdict : {"approve", "reject"}]

TypeOK ==
    /\ loan \in [Loan -> LoanRow]
    /\ payments \in [Loan -> SUBSET Payment]
    /\ decider \in [Decider -> DeciderState]
    /\ contested \subseteq Loan

NoRow == [status |-> "none", deleted |-> FALSE, amount |-> 0, monthly |-> 0,
          start |-> 0, paid |-> 0, remaining |-> 0]
Undecided == [loan |-> NoLoan, verdict |-> "approve"]

Init ==
    /\ loan = [l \in Loan |-> NoRow]
    /\ payments = [l \in Loan |-> {}]
    /\ decider = [d \in Decider |-> Undecided]
    /\ contested = {}

-----------------------------------------------------------------------------
(* Amounts and months.                                                       *)

Lesser(a, b) == IF a < b THEN a ELSE b
NotNegative(a) == IF a > 0 THEN a ELSE 0

\* totalInstallments, fixed when the loan is created.
Installments(l) ==
    (loan[l].amount + loan[l].monthly - 1) \div loan[l].monthly

PaidMonths(l) == {p.month : p \in payments[l]}

\* The only month recordLoanPayment accepts next.
ExpectedMonth(l) == loan[l].start + loan[l].paid

-----------------------------------------------------------------------------

CreateLoan(l, amount, monthly) ==
    /\ loan[l].status = "none"
    /\ amount > 0 /\ monthly > 0
    /\ loan' = [loan EXCEPT ![l] =
                  [NoRow EXCEPT !.status = "pending", !.amount = amount,
                                !.monthly = monthly, !.remaining = amount]]
    /\ UNCHANGED <<payments, decider, contested>>

\* approveLoan, rejectLoan: the SELECT and its check ...
ReadPending(d, l, verdict) ==
    /\ decider[d].loan = NoLoan
    /\ loan[l].status = "pending" /\ ~loan[l].deleted
    /\ decider' = [decider EXCEPT ![d] = [loan |-> l, verdict |-> verdict]]
    /\ contested' = IF \E e \in Decider : decider[e].loan = l
                    THEN contested \cup {l} ELSE contested
    /\ UNCHANGED <<loan, payments>>

\* Mutant: approving starts the count of payments afresh.
ApprovalRestarts(d, month) ==
    /\ decider[d].loan # NoLoan
    /\ decider[d].verdict = "approve"
    /\ LET l == decider[d].loan IN
         loan' = IF loan[l].deleted THEN loan
                 ELSE [loan EXCEPT ![l] = [@ EXCEPT !.status = "active", !.paid = 0,
                                                    !.start = month]]
    /\ decider' = [decider EXCEPT ![d] = Undecided]
    /\ UNCHANGED <<payments, contested>>

\* ... and the UPDATE, which asks only that the loan is not deleted.  The
\* start is a date of the request, or today.
WriteApproval(d, month) ==
    /\ decider[d].loan # NoLoan
    /\ decider[d].verdict = "approve"
    /\ LET l == decider[d].loan IN
         loan' = IF loan[l].deleted THEN loan
                 ELSE [loan EXCEPT ![l] = [@ EXCEPT !.status = "active", !.start = month]]
    /\ decider' = [decider EXCEPT ![d] = Undecided]
    /\ UNCHANGED <<payments, contested>>

WriteRejection(d) ==
    /\ decider[d].loan # NoLoan
    /\ decider[d].verdict = "reject"
    /\ LET l == decider[d].loan IN
         loan' = IF loan[l].deleted THEN loan
                 ELSE [loan EXCEPT ![l].status = "rejected"]
    /\ decider' = [decider EXCEPT ![d] = Undecided]
    /\ UNCHANGED <<payments, contested>>

\* Mutant: the last payment is not capped at the balance.
InstallmentUncapped(l) == loan[l].monthly

\* What is paid: never more than is owed.
Installment(l) == Lesser(loan[l].monthly, loan[l].remaining)

Balance(l) == NotNegative(loan[l].remaining - Installment(l))

\* Mutant: months already paid are not looked up.
AcceptsAgain(l, month) == month = ExpectedMonth(l)

\* Mutant: months may be skipped.
AcceptsAny(l, month) == month \notin PaidMonths(l)

\* One payment for each month, in order.
Accepts(l, month) ==
    /\ month \notin PaidMonths(l)
    /\ month = ExpectedMonth(l)

\* Mutant: a remainder below one installment is forgiven.
ClosesEarly(l) == Balance(l) < loan[l].monthly

\* The payment that closes the loan.
Closes(l) == Balance(l) = 0

RecordPayment(l, month) ==
    /\ loan[l].status = "active" /\ ~loan[l].deleted
    /\ Accepts(l, month)
    /\ payments' = [payments EXCEPT
                      ![l] = @ \cup {[month |-> month, amount |-> Installment(l)]}]
    /\ loan' = [loan EXCEPT ![l] = [@ EXCEPT
                  !.paid = loan[l].paid + 1,
                  !.remaining = Balance(l),
                  !.status = IF Closes(l) THEN "completed" ELSE "active"]]
    /\ UNCHANGED <<decider, contested>>

\* Whatever the status.
DeleteLoan(l) ==
    /\ loan[l].status # "none" /\ ~loan[l].deleted
    /\ loan' = [loan EXCEPT ![l].deleted = TRUE]
    /\ UNCHANGED <<payments, decider, contested>>

Decide(d) ==
    \/ \E l \in Loan, verdict \in {"approve", "reject"} : ReadPending(d, l, verdict)
    \/ \E month \in 1 .. LastStart : WriteApproval(d, month)
    \/ WriteRejection(d)

Next ==
    \/ \E l \in Loan, amount, monthly \in Money : CreateLoan(l, amount, monthly)
    \/ \E d \in Decider : Decide(d)
    \/ \E l \in Loan, month \in Month : RecordPayment(l, month)
    \/ \E l \in Loan : DeleteLoan(l)

Spec == Init /\ [][Next]_vars

-----------------------------------------------------------------------------
(* What holds however decisions race.                                        *)

\* Money is neither lost nor invented: what was paid and what is left add up
\* to the loan (recordLoanPayment's cap, balance and row lock).
Conserved ==
    \A l \in Loan :
        loan[l].remaining + SumFunction([p \in payments[l] |-> p.amount])
            = loan[l].amount

\* The balance is the one the plan prescribes after that many payments; no
\* interleaving of decisions and payments makes them drift apart.
BalanceFollowsPlan ==
    \A l \in Loan :
        loan[l].remaining = NotNegative(loan[l].amount - loan[l].paid * loan[l].monthly)

\* No month is paid twice, also when a second approval moves the start of a
\* loan that is being repaid: the expected month alone would allow it.
NoMonthPaidTwice ==
    \A l \in Loan : \A p, q \in payments[l] : p.month = q.month => p = q

\* There is one payment row for each installment counted.
PaymentsCounted == \A l \in Loan : Cardinality(payments[l]) = loan[l].paid

-----------------------------------------------------------------------------
(* What holds of a loan on which no two decisions have raced, whatever       *)
(* happens to others.  A decision that comes late reopens a closed loan or   *)
(* moves the start of one that is being repaid.                              *)

\* A loan is closed exactly when it has been repaid, by as many payments as
\* it has installments.
ClosedWhenRepaid ==
    \A l \in Loan \ contested : loan[l].status # "none" =>
        /\ loan[l].status = "completed" <=> loan[l].remaining = 0
        /\ loan[l].status = "completed" => loan[l].paid = Installments(l)

\* The paid months are the first ones of the loan, without a gap.
PaidInOrder ==
    \A l \in Loan \ contested :
        PaidMonths(l) = loan[l].start .. ExpectedMonth(l) - 1
=============================================================================
