----------------------------- MODULE LoansProofs -----------------------------
(* Proofs about Loans, and about PayrollLoans, for any number of loans and   *)
(* deciders and any bounds.                                                  *)
EXTENDS PayrollLoans, SumProofs

(* Paying an installment of m off a balance that follows a plan leaves a     *)
(* balance that follows the plan.                                            *)
LEMMA OneMorePayment ==
    \A a, m, p, r \in Nat :
        r = NotNegative(a - p * m)
            => NotNegative(r - Lesser(m, r)) = NotNegative(a - (p + 1) * m)
<1> SUFFICES ASSUME NEW a \in Nat, NEW m \in Nat, NEW p \in Nat, NEW r \in Nat,
                    r = NotNegative(a - p * m)
             PROVE  NotNegative(r - Lesser(m, r)) = NotNegative(a - (p + 1) * m)
    OBVIOUS
<1>1. (p + 1) * m = p * m + m
    OBVIOUS
<1>2. p * m \in Nat
    OBVIOUS
<1>3. QED
    BY <1>1, <1>2 DEF NotNegative, Lesser

(* Every variable keeps its type: in particular no balance leaves            *)
(* 0 .. MaxAmount, whatever decisions and payments race.                     *)
THEOREM LoansTyped == Spec => []TypeOK
<1>1. Init => TypeOK
    BY CalendarAssumption
       DEF Init, TypeOK, NoRow, Undecided, LoanRow, LoanStatus, Payment,
           DeciderState, Money
<1>2. TypeOK /\ [Next]_vars => TypeOK'
  <2> SUFFICES ASSUME TypeOK, [Next]_vars PROVE TypeOK'
      OBVIOUS
  <2> USE CalendarAssumption
  <2>1. ASSUME NEW l \in Loan, NEW amount \in Money, NEW monthly \in Money,
               CreateLoan(l, amount, monthly)
        PROVE  TypeOK'
    <3>1. NoRow \in LoanRow
        BY DEF NoRow, LoanRow, LoanStatus, Money
    <3>2. monthly \in Nat
        BY DEF Money
    <3>3. [NoRow EXCEPT !.status = "pending", !.amount = amount,
                        !.monthly = monthly, !.remaining = amount] \in LoanRow
        BY <3>1, <3>2 DEF LoanRow, LoanStatus
    <3>4. QED
        BY <2>1, <3>3 DEF CreateLoan, TypeOK
  <2>2. ASSUME NEW d \in Decider, NEW l \in Loan, NEW verdict \in {"approve", "reject"},
               ReadPending(d, l, verdict)
        PROVE  TypeOK'
      BY <2>2 DEF ReadPending, TypeOK, DeciderState
  <2>3. ASSUME NEW d \in Decider, NEW month \in 1 .. LastStart,
               WriteApproval(d, month)
        PROVE  TypeOK'
    <3> DEFINE l == decider[d].loan
    <3>1. l \in Loan
        BY <2>3 DEF WriteApproval, TypeOK, DeciderState
    <3>2. month \in Nat
        OBVIOUS
    <3>3. loan' \in [Loan -> LoanRow]
      <4>1. CASE loan[l].deleted
          BY <2>3, <4>1 DEF WriteApproval, TypeOK
      <4>2. CASE ~loan[l].deleted
          BY <2>3, <4>2, <3>1, <3>2 DEF WriteApproval, TypeOK, LoanRow, LoanStatus
      <4>3. QED
          BY <4>1, <4>2
    <3>4. QED
        BY <2>3, <3>3 DEF WriteApproval, TypeOK, DeciderState, Undecided
  <2>4. ASSUME NEW d \in Decider, WriteRejection(d)
        PROVE  TypeOK'
    <3> DEFINE l == decider[d].loan
    <3>1. l \in Loan
        BY <2>4 DEF WriteRejection, TypeOK, DeciderState
    <3>2. loan' \in [Loan -> LoanRow]
      <4>1. CASE loan[l].deleted
          BY <2>4, <4>1 DEF WriteRejection, TypeOK
      <4>2. CASE ~loan[l].deleted
          BY <2>4, <4>2, <3>1 DEF WriteRejection, TypeOK, LoanRow, LoanStatus
      <4>3. QED
          BY <4>1, <4>2
    <3>3. QED
        BY <2>4, <3>2 DEF WriteRejection, TypeOK, DeciderState, Undecided
  <2>5. ASSUME NEW l \in Loan, NEW month \in Month, RecordPayment(l, month)
        PROVE  TypeOK'
    <3>1. loan[l] \in LoanRow
        BY DEF TypeOK
    <3>2. Installment(l) \in Money /\ Balance(l) \in Money
        BY <3>1 DEF LoanRow, Money, Installment, Balance, Lesser, NotNegative
    <3>3. loan[l].paid + 1 \in Nat
        BY <3>1 DEF LoanRow
    <3> DEFINE row == [loan[l] EXCEPT
                 !.paid = loan[l].paid + 1, !.remaining = Balance(l),
                 !.status = IF Closes(l) THEN "completed" ELSE "active"]
    <3>4. loan' = [loan EXCEPT ![l] = row]
        BY <2>5 DEF RecordPayment
    <3>5. payments' = [payments EXCEPT ![l] = @ \cup {[month |-> month, amount |-> Installment(l)]}]
        BY <2>5 DEF RecordPayment
    <3>6a. row \in LoanRow
        BY <3>1, <3>2, <3>3 DEF LoanRow, LoanStatus
    <3> HIDE DEF row
    <3>6. loan' \in [Loan -> LoanRow]
        BY <3>4, <3>6a DEF TypeOK
    <3>7. payments' \in [Loan -> SUBSET Payment]
        BY <3>2, <3>5 DEF TypeOK, Payment
    <3>8. QED
        BY <2>5, <3>6, <3>7 DEF RecordPayment, TypeOK
  <2>6. ASSUME NEW l \in Loan, DeleteLoan(l)
        PROVE  TypeOK'
      BY <2>6 DEF DeleteLoan, TypeOK, LoanRow
  <2>7. CASE UNCHANGED vars
      BY <2>7 DEF vars, TypeOK
  <2>8. ASSUME NEW d \in Decider, Decide(d)
        PROVE  TypeOK'
      BY <2>2, <2>3, <2>4, <2>8 DEF Decide
  <2>9. QED
      BY <2>1, <2>5, <2>6, <2>7, <2>8 DEF Next
<1>3. QED
    BY <1>1, <1>2, PTL DEF Spec

-----------------------------------------------------------------------------
(* The books of one loan: the four facts that support each other.  A loan    *)
(* nobody has requested has no payments, or creating one would find some.    *)
FreshIsUnpaid(l) == loan[l].status = "none" => payments[l] = {}

BooksOf(l) ==
    /\ FreshIsUnpaid(l)
    /\ loan[l].remaining = NotNegative(loan[l].amount - loan[l].paid * loan[l].monthly)
    /\ \A p, q \in payments[l] : p.month = q.month => p = q
    /\ IsFiniteSet(payments[l])
    /\ Cardinality(payments[l]) = loan[l].paid

Books == \A l \in Loan : BooksOf(l)

(* A step that leaves a loan's money alone leaves its books in order; a      *)
(* decision and a deletion are such steps.                                   *)
LEMMA MoneyUntouched ==
    ASSUME NEW l \in Loan, BooksOf(l),
           loan'[l].amount = loan[l].amount, loan'[l].monthly = loan[l].monthly,
           loan'[l].paid = loan[l].paid, loan'[l].remaining = loan[l].remaining,
           loan'[l].status = "none" => loan[l].status = "none",
           payments'[l] = payments[l]
    PROVE  BooksOf(l)'
BY DEF BooksOf, FreshIsUnpaid

(* A recorded payment keeps the books: the month is new, the balance is the  *)
(* next one of the plan and the counter counts the row inserted.             *)
LEMMA PaymentKeepsBooks ==
    ASSUME TypeOK, NEW l \in Loan, BooksOf(l),
           NEW month \in Month, RecordPayment(l, month)
    PROVE  BooksOf(l)'
<1> DEFINE new == [month |-> month, amount |-> Installment(l)]
<1>1. loan[l] \in LoanRow
    BY DEF TypeOK
<1>2. /\ loan'[l].amount = loan[l].amount
      /\ loan'[l].monthly = loan[l].monthly
      /\ loan'[l].paid = loan[l].paid + 1
      /\ loan'[l].remaining
           = NotNegative(loan[l].remaining - Lesser(loan[l].monthly, loan[l].remaining))
      /\ loan'[l].status # "none"
    BY <1>1 DEF RecordPayment, Balance, Installment, TypeOK, LoanRow
<1>3. payments'[l] = payments[l] \cup {new}
    BY DEF RecordPayment, TypeOK
<1>4. \A p \in payments[l] : p.month # month
    BY DEF RecordPayment, Accepts, PaidMonths
<1>5. new \notin payments[l]
    BY <1>4
<1>6. loan'[l].remaining
        = NotNegative(loan'[l].amount - loan'[l].paid * loan'[l].monthly)
  <2>1. /\ loan[l].amount \in Nat /\ loan[l].monthly \in Nat
        /\ loan[l].paid \in Nat /\ loan[l].remaining \in Nat
      BY <1>1, CalendarAssumption DEF LoanRow, Money
  <2>2. loan[l].remaining = NotNegative(loan[l].amount - loan[l].paid * loan[l].monthly)
      BY DEF BooksOf
  <2>3. NotNegative(loan[l].remaining - Lesser(loan[l].monthly, loan[l].remaining))
          = NotNegative(loan[l].amount - (loan[l].paid + 1) * loan[l].monthly)
    <3> DEFINE a == loan[l].amount
               m == loan[l].monthly
               p == loan[l].paid
               r == loan[l].remaining
    <3>1. a \in Nat /\ m \in Nat /\ p \in Nat /\ r \in Nat
        BY <2>1
    <3>2. r = NotNegative(a - p * m)
        BY <2>2
    <3> HIDE DEF a, m, p, r
    <3>3. NotNegative(r - Lesser(m, r)) = NotNegative(a - (p + 1) * m)
        BY <3>1, <3>2, OneMorePayment
    <3>4. QED
        BY <3>3 DEF a, m, p, r
  <2>4. loan'[l].remaining
          = NotNegative(loan[l].amount - (loan[l].paid + 1) * loan[l].monthly)
      BY <1>2, <2>3
  <2>5. loan'[l].paid * loan'[l].monthly = (loan[l].paid + 1) * loan[l].monthly
      BY <1>2
  <2>6. QED
      BY <1>2, <2>4, <2>5
<1>7. \A p, q \in payments'[l] : p.month = q.month => p = q
  <2>1. new.month = month
      OBVIOUS
  <2>2. \A p, q \in payments[l] : p.month = q.month => p = q
      BY DEF BooksOf
  <2> HIDE DEF new
  <2>3. QED
      BY <1>3, <1>4, <2>1, <2>2
<1>8. IsFiniteSet(payments'[l]) /\ Cardinality(payments'[l]) = loan'[l].paid
  <2>1. IsFiniteSet(payments[l]) /\ Cardinality(payments[l]) = loan[l].paid
      BY DEF BooksOf
  <2> HIDE DEF new
  <2>2. /\ IsFiniteSet(payments[l] \cup {new})
        /\ Cardinality(payments[l] \cup {new}) = Cardinality(payments[l]) + 1
      BY <1>5, <2>1, FS_AddElement, Zenon
  <2>3. QED
      BY <1>2, <1>3, <2>1, <2>2, Zenon
<1>9. QED
    BY <1>2, <1>6, <1>7, <1>8 DEF BooksOf, FreshIsUnpaid

LEMMA BooksStart == Init => Books
<1> SUFFICES ASSUME Init PROVE Books
    OBVIOUS
<1>1. \A l \in Loan : loan[l] = NoRow /\ payments[l] = {}
    BY DEF Init
<1>2. IsFiniteSet({}) /\ Cardinality({}) = 0
    BY FS_EmptySet
<1>3. NotNegative(0 - 0 * 0) = 0
    BY DEF NotNegative
<1>4. QED
    BY <1>1, <1>2, <1>3 DEF Books, BooksOf, FreshIsUnpaid, NoRow

(* All that can happen to one loan in a step.                                *)
LEMMA StepsOfALoan ==
    ASSUME TypeOK, [Next]_vars, NEW k \in Loan
    PROVE  \/ loan'[k] = loan[k] /\ payments'[k] = payments[k]
           \/ \E amount, monthly \in Money : CreateLoan(k, amount, monthly)
           \/ \E d \in Decider, month \in 1 .. LastStart :
                /\ decider[d].loan = k /\ ~loan[k].deleted
                /\ loan'[k] = [loan[k] EXCEPT !.status = "active",
                                              !.start = month]
                /\ payments'[k] = payments[k]
           \/ \E d \in Decider :
                /\ decider[d].loan = k /\ ~loan[k].deleted
                /\ loan'[k] = [loan[k] EXCEPT !.status = "rejected"]
                /\ payments'[k] = payments[k]
           \/ \E month \in Month : RecordPayment(k, month)
           \/ DeleteLoan(k)
<1>k. loan \in [Loan -> LoanRow] /\ loan[k] \in LoanRow
    BY DEF TypeOK
<1>1. ASSUME NEW l \in Loan, l # k, NEW row, loan' = [loan EXCEPT ![l] = row]
      PROVE  loan'[k] = loan[k]
    BY <1>1, <1>k
<1>2. ASSUME NEW l \in Loan, l # k, NEW amount \in Money, NEW monthly \in Money,
             CreateLoan(l, amount, monthly)
      PROVE  loan'[k] = loan[k] /\ payments'[k] = payments[k]
    BY <1>1, <1>2 DEF CreateLoan
<1>3. ASSUME NEW l \in Loan, l # k, NEW month \in Month, RecordPayment(l, month)
      PROVE  loan'[k] = loan[k] /\ payments'[k] = payments[k]
    BY <1>1, <1>3 DEF RecordPayment, TypeOK
<1>4. ASSUME NEW l \in Loan, l # k, DeleteLoan(l)
      PROVE  loan'[k] = loan[k] /\ payments'[k] = payments[k]
    BY <1>k, <1>4 DEF DeleteLoan
<1> DEFINE Kept == loan'[k] = loan[k] /\ payments'[k] = payments[k]
           Approves(d, month) ==
              /\ decider[d].loan = k /\ ~loan[k].deleted
              /\ loan'[k] = [loan[k] EXCEPT !.status = "active", !.start = month]
              /\ payments'[k] = payments[k]
           Rejects(d) ==
              /\ decider[d].loan = k /\ ~loan[k].deleted
              /\ loan'[k] = [loan[k] EXCEPT !.status = "rejected"]
              /\ payments'[k] = payments[k]
<1>5. ASSUME NEW d \in Decider, NEW month \in 1 .. LastStart,
             WriteApproval(d, month)
      PROVE  Kept \/ Approves(d, month)
  <2> DEFINE l == decider[d].loan
             row == [loan[l] EXCEPT !.status = "active", !.start = month]
  <2>1. l \in Loan /\ payments' = payments
      BY <1>5 DEF WriteApproval, TypeOK, DeciderState
  <2>2. loan' = loan \/ (loan' = [loan EXCEPT ![l] = row] /\ ~loan[l].deleted)
      BY <1>5 DEF WriteApproval
  <2> HIDE DEF row
  <2>3. CASE l = k
      BY <1>k, <2>1, <2>2, <2>3 DEF row
  <2>4. CASE l # k
      BY <1>1, <2>1, <2>2, <2>4
  <2>5. QED
      BY <2>3, <2>4
<1>6. ASSUME NEW d \in Decider, WriteRejection(d)
      PROVE  Kept \/ Rejects(d)
  <2> DEFINE l == decider[d].loan
  <2>1. l \in Loan /\ payments' = payments
      BY <1>6 DEF WriteRejection, TypeOK, DeciderState
  <2>2. \/ loan' = loan
        \/ loan' = [loan EXCEPT ![l].status = "rejected"] /\ ~loan[l].deleted
      BY <1>6 DEF WriteRejection
  <2>3. QED
      BY <1>k, <2>1, <2>2
<1>7. ASSUME NEW d \in Decider, NEW l \in Loan, NEW verdict \in {"approve", "reject"},
             ReadPending(d, l, verdict)
      PROVE  Kept
    BY <1>7 DEF ReadPending
<1>8. CASE UNCHANGED vars
    BY <1>8 DEF vars
<1>9. ASSUME NEW d \in Decider, Decide(d)
      PROVE  \/ Kept
             \/ \E month \in 1 .. LastStart : Approves(d, month)
             \/ Rejects(d)
  <2> HIDE DEF Kept, Approves, Rejects
  <2>1. QED
      BY <1>5, <1>6, <1>7, <1>9 DEF Decide
<1>10. CASE \E l \in Loan, amount, monthly \in Money : CreateLoan(l, amount, monthly)
    BY <1>2, <1>10
<1>11. CASE \E l \in Loan, month \in Month : RecordPayment(l, month)
    BY <1>3, <1>11
<1>12. CASE \E l \in Loan : DeleteLoan(l)
    BY <1>4, <1>12
<1>13. CASE \E d \in Decider : Decide(d)
  <2> HIDE DEF Kept, Approves, Rejects
  <2>1. \/ Kept
        \/ \E d \in Decider, month \in 1 .. LastStart :
             Approves(d, month)
        \/ \E d \in Decider : Rejects(d)
      BY <1>9, <1>13
  <2>2. QED
      BY <2>1, Zenon DEF Kept, Approves, Rejects
<1>14. QED
    BY <1>8, <1>10, <1>11, <1>12, <1>13 DEF Next

(* What the statements that move money do to the row they write.             *)
LEMMA CreateRow ==
    ASSUME TypeOK, NEW k \in Loan, NEW amount \in Money, NEW monthly \in Money,
           CreateLoan(k, amount, monthly)
    PROVE  /\ loan[k].status = "none" /\ amount \in Nat /\ monthly \in Nat
           /\ amount > 0 /\ monthly > 0
           /\ loan'[k] = [NoRow EXCEPT !.status = "pending", !.amount = amount,
                                       !.monthly = monthly, !.remaining = amount]
           /\ payments'[k] = payments[k]
BY CalendarAssumption DEF CreateLoan, TypeOK, Money

LEMMA PaymentRow ==
    ASSUME TypeOK, NEW k \in Loan, NEW month \in Month, RecordPayment(k, month)
    PROVE  /\ loan[k].status = "active" /\ ~loan[k].deleted
           /\ month = loan[k].start + loan[k].paid
           /\ loan'[k].amount = loan[k].amount /\ loan'[k].monthly = loan[k].monthly
           /\ loan'[k].deleted = loan[k].deleted /\ loan'[k].start = loan[k].start
           /\ loan'[k].paid = loan[k].paid + 1
           /\ loan'[k].remaining
                = NotNegative(loan[k].remaining - Lesser(loan[k].monthly, loan[k].remaining))
           /\ loan'[k].status = IF loan'[k].remaining = 0 THEN "completed" ELSE "active"
           /\ payments'[k] = payments[k] \cup {[month |-> month, amount |-> Installment(k)]}
<1>1. loan[k] \in LoanRow
    BY DEF TypeOK
<1>2. QED
    BY <1>1 DEF RecordPayment, Accepts, ExpectedMonth, Balance, Closes, Installment, TypeOK, LoanRow

LEMMA BooksKept == TypeOK /\ Books /\ [Next]_vars => Books'
<1> SUFFICES ASSUME TypeOK, Books, [Next]_vars, NEW k \in Loan
             PROVE  BooksOf(k)'
    BY DEF Books
<1>k. BooksOf(k) /\ loan[k] \in LoanRow
    BY DEF Books, TypeOK
<1>1. ASSUME NEW amount \in Money, NEW monthly \in Money, CreateLoan(k, amount, monthly)
      PROVE  BooksOf(k)'
  <2>r. /\ loan[k].status = "none" /\ amount \in Nat /\ monthly \in Nat
        /\ loan'[k] = [NoRow EXCEPT !.status = "pending", !.amount = amount,
                                    !.monthly = monthly, !.remaining = amount]
        /\ payments'[k] = payments[k]
      BY <1>1, CreateRow
  <2>1. /\ loan'[k].amount = amount /\ loan'[k].monthly = monthly
        /\ loan'[k].paid = 0 /\ loan'[k].remaining = amount
        /\ loan'[k].status = "pending" /\ payments'[k] = {}
      BY <1>k, <2>r DEF NoRow, BooksOf, FreshIsUnpaid
  <2>2. amount = NotNegative(amount - 0 * monthly)
      BY <2>r DEF NotNegative
  <2>3. IsFiniteSet({}) /\ Cardinality({}) = 0
      BY FS_EmptySet
  <2>4. QED
      BY <2>1, <2>2, <2>3 DEF BooksOf, FreshIsUnpaid
<1>2. ASSUME NEW month \in Month, RecordPayment(k, month)
      PROVE  BooksOf(k)'
    BY <1>2, <1>k, PaymentKeepsBooks
<1>3. CASE DeleteLoan(k)
  <2>1. payments' = payments /\ loan' = [loan EXCEPT ![k].deleted = TRUE]
      BY <1>3 DEF DeleteLoan
  <2>2. QED
      BY <1>k, <2>1, MoneyUntouched DEF TypeOK, LoanRow
<1>4. ASSUME NEW month \in 1 .. LastStart,
             loan'[k] = [loan[k] EXCEPT !.status = "active", !.start = month],
             payments'[k] = payments[k]
      PROVE  BooksOf(k)'
    BY <1>k, <1>4, MoneyUntouched DEF LoanRow
<1>5. CASE loan'[k] = [loan[k] EXCEPT !.status = "rejected"] /\ payments'[k] = payments[k]
    BY <1>k, <1>5, MoneyUntouched DEF LoanRow
<1>6. CASE loan'[k] = loan[k] /\ payments'[k] = payments[k]
    BY <1>k, <1>6, MoneyUntouched
<1>7. QED
    BY <1>1, <1>2, <1>3, <1>4, <1>5, <1>6, StepsOfALoan

LEMMA BooksHold == Spec => []Books
BY LoansTyped, BooksStart, BooksKept, PTL DEF Spec

(* However approvals, rejections, deletions and payments interleave, the     *)
(* balance is the loan less the installments counted, and never negative.    *)
THEOREM LoansBalance == Spec => []BalanceFollowsPlan
<1>1. Books => BalanceFollowsPlan
    BY DEF Books, BooksOf, BalanceFollowsPlan
<1>2. QED
    BY <1>1, BooksHold, PTL

(* No month of a loan is ever paid twice.                                    *)
THEOREM LoansMonthsDistinct == Spec => []NoMonthPaidTwice
<1>1. Books => NoMonthPaidTwice
    BY DEF Books, BooksOf, NoMonthPaidTwice
<1>2. QED
    BY <1>1, BooksHold, PTL

(* The installment counter counts the payment rows.                          *)
THEOREM LoansPaymentsCounted == Spec => []PaymentsCounted
<1>1. Books => PaymentsCounted
    BY DEF Books, BooksOf, PaymentsCounted
<1>2. QED
    BY <1>1, BooksHold, PTL

-----------------------------------------------------------------------------
(* Conservation.                                                             *)

ConservedFor(l) ==
    loan[l].remaining + SumFunction([p \in payments[l] |-> p.amount]) = loan[l].amount

(* The payment of an installment moves it from the balance to the payments.  *)
LEMMA PaymentConserves ==
    ASSUME TypeOK, NEW l \in Loan, BooksOf(l), ConservedFor(l),
           NEW month \in Month, RecordPayment(l, month)
    PROVE  ConservedFor(l)'
<1> DEFINE new == [month |-> month, amount |-> Installment(l)]
           old == payments[l]
           f == [p \in old |-> p.amount]
           g == [p \in old \cup {new} |-> p.amount]
<1>1. /\ loan'[l].amount = loan[l].amount
      /\ loan'[l].remaining
           = NotNegative(loan[l].remaining - Lesser(loan[l].monthly, loan[l].remaining))
      /\ payments'[l] = old \cup {new}
    BY PaymentRow
<1>2. /\ loan[l].remaining \in Nat /\ loan[l].monthly \in Nat /\ loan[l].amount \in Nat
      /\ \A p \in old : p.amount \in Int
      /\ new.amount = Installment(l) /\ new.month = month /\ Installment(l) \in Int
    BY CalendarAssumption DEF TypeOK, LoanRow, Payment, Money, Installment, Lesser
<1>3. new \notin old
    BY <1>2 DEF RecordPayment, Accepts, PaidMonths
<1>4. IsFiniteSet(old)
    BY DEF BooksOf
<1> HIDE DEF new, old
<1>5. SumFunctionOnSet(g, old \cup {new}) = SumFunctionOnSet(g, old) + g[new]
  <2>1. \A p \in old \cup {new} : g[p] \in Int
      BY <1>2
  <2> HIDE DEF g
  <2>2. QED
      BY <1>3, <1>4, <2>1, SumWith
<1>6. SumFunctionOnSet(g, old) = SumFunctionOnSet(f, old)
  <2>1. \A p \in old : g[p] = f[p]
      OBVIOUS
  <2> HIDE DEF f, g
  <2>2. QED
      BY <1>4, <2>1, SumSame
<1>7. SumFunctionOnSet(f, old) \in Int
  <2>1. \A p \in old : f[p] \in Int
      BY <1>2
  <2> HIDE DEF f
  <2>2. QED
      BY <1>4, <2>1, SumIsInt
<1>8. g[new] = Installment(l)
    BY <1>2
<1>9. loan[l].remaining + SumFunctionOnSet(f, old) = loan[l].amount
    BY DEF ConservedFor, SumFunction, old
<1>10. (SumFunction([p \in payments[l] |-> p.amount]))' = SumFunctionOnSet(g, old \cup {new})
    BY <1>1 DEF SumFunction
<1> HIDE DEF f, g
<1>11. loan'[l].remaining + SumFunctionOnSet(g, old \cup {new}) = loan'[l].amount
    BY <1>1, <1>2, <1>5, <1>6, <1>7, <1>8, <1>9 DEF Installment, NotNegative, Lesser
<1>12. QED
    BY <1>10, <1>11 DEF ConservedFor

(* What was paid and what is left always add up to the loan.                 *)
THEOREM LoansConserved == Spec => []Conserved
<1>0. Conserved <=> \A l \in Loan : ConservedFor(l)
    BY DEF Conserved, ConservedFor
<1>e. SumFunction([p \in {} |-> p.amount]) = 0
  <2>1. DOMAIN [p \in {} |-> p.amount] = {}
      OBVIOUS
  <2>2. QED
      BY <2>1, SumOfNothing DEF SumFunction
<1>1. Init => Conserved
    BY <1>e DEF Init, Conserved, NoRow
<1>2. TypeOK /\ Books /\ Conserved /\ [Next]_vars => Conserved'
  <2> SUFFICES ASSUME TypeOK, Books, Conserved, [Next]_vars, NEW k \in Loan
               PROVE  ConservedFor(k)'
      BY DEF Conserved, ConservedFor
  <2>k. ConservedFor(k) /\ BooksOf(k) /\ loan[k] \in LoanRow
      BY <1>0 DEF Books, TypeOK
  <2>1. ASSUME NEW amount \in Money, NEW monthly \in Money, CreateLoan(k, amount, monthly)
        PROVE  ConservedFor(k)'
    <3>1. /\ loan[k].status = "none" /\ amount \in Nat /\ payments'[k] = payments[k]
          /\ loan'[k] = [NoRow EXCEPT !.status = "pending", !.amount = amount,
                                      !.monthly = monthly, !.remaining = amount]
        BY <2>1, CreateRow
    <3>2. payments'[k] = {}
        BY <2>k, <3>1 DEF BooksOf, FreshIsUnpaid
    <3>3. loan'[k].remaining = amount /\ loan'[k].amount = amount
        BY <3>1 DEF NoRow
    <3>4. (SumFunction([p \in payments[k] |-> p.amount]))' = 0
        BY <1>e, <3>2
    <3>5. QED
        BY <3>1, <3>3, <3>4 DEF ConservedFor
  <2>2. ASSUME NEW month \in Month, RecordPayment(k, month)
        PROVE  ConservedFor(k)'
      BY <2>2, <2>k, PaymentConserves
  <2>3. ASSUME loan'[k].amount = loan[k].amount, loan'[k].remaining = loan[k].remaining,
               payments'[k] = payments[k]
        PROVE  ConservedFor(k)'
      BY <2>3, <2>k DEF ConservedFor
  <2>4. CASE DeleteLoan(k)
    <3>1. payments' = payments /\ loan' = [loan EXCEPT ![k].deleted = TRUE]
        BY <2>4 DEF DeleteLoan
    <3>2. QED
        BY <2>k, <2>3, <3>1 DEF TypeOK, LoanRow
  <2>5. ASSUME NEW month,
               loan'[k] = [loan[k] EXCEPT !.status = "active", !.start = month],
               payments'[k] = payments[k]
        PROVE  ConservedFor(k)'
      BY <2>k, <2>3, <2>5 DEF LoanRow
  <2>6. CASE loan'[k] = [loan[k] EXCEPT !.status = "rejected"] /\ payments'[k] = payments[k]
      BY <2>k, <2>3, <2>6 DEF LoanRow
  <2>7. CASE loan'[k] = loan[k] /\ payments'[k] = payments[k]
      BY <2>3, <2>7
  <2>8. QED
      BY <2>1, <2>2, <2>4, <2>5, <2>6, <2>7, StepsOfALoan
<1>3. QED
    BY <1>1, <1>2, LoansTyped, BooksHold, PTL DEF Spec

-----------------------------------------------------------------------------
(* What needs decisions not to race.  Whoever is about to write a decision   *)
(* on a loan nobody else has been deciding on finds it still pending, so such *)
(* a loan is never approved again while it is repaid, and keeps its start.   *)

\* Two deciders on one loan have been noted.
RacesNoted ==
    \A d, e \in Decider :
        d # e /\ decider[d].loan = decider[e].loan /\ decider[d].loan # NoLoan
            => decider[d].loan \in contested

\* Every payment counted was needed.
LastNeeded(l) == loan[l].paid > 0 => (loan[l].paid - 1) * loan[l].monthly < loan[l].amount

\* Paid for since the start, without a gap.
NoGap(l) == PaidMonths(l) = loan[l].start .. ExpectedMonth(l) - 1

Orderly(l) ==
    /\ loan[l].status # "none" =>
         /\ loan[l].amount > 0 /\ loan[l].monthly > 0
         /\ loan[l].status = "completed" <=> loan[l].remaining = 0
    /\ loan[l].status \in {"none", "pending", "rejected"} => loan[l].paid = 0
    /\ LastNeeded(l)
    /\ NoGap(l)
    /\ \A d \in Decider : decider[d].loan = l => loan[l].status = "pending"

AllOrderly == \A l \in Loan \ contested : Orderly(l)

LEMMA OrderlyStart == Init => AllOrderly /\ RacesNoted
<1>0. Init => RacesNoted
    BY DEF Init, RacesNoted, Undecided
<1> SUFFICES ASSUME Init, NEW l \in Loan PROVE Orderly(l)
    BY <1>0 DEF AllOrderly
<1>1. /\ loan[l] = NoRow /\ payments[l] = {}
      /\ \A d \in Decider : decider[d].loan = NoLoan
    BY DEF Init, Undecided
<1>2. PaidMonths(l) = {} /\ loan[l].start .. ExpectedMonth(l) - 1 = {}
    BY <1>1 DEF PaidMonths, ExpectedMonth, NoRow
<1>3. QED
    BY <1>1, <1>2, LoanAssumption DEF Orderly, LastNeeded, NoGap, NoRow

(* A race, once noted, stays noted, and every race is.                       *)
LEMMA RacesStayNoted ==
    ASSUME TypeOK, RacesNoted, [Next]_vars
    PROVE  contested \subseteq contested' /\ RacesNoted'
<1>t. decider \in [Decider -> DeciderState]
    BY DEF TypeOK
<1>1. CASE UNCHANGED <<decider, contested>>
    BY <1>1 DEF RacesNoted
<1>2. ASSUME NEW d \in Decider, NEW l \in Loan, NEW verdict \in {"approve", "reject"},
             ReadPending(d, l, verdict)
      PROVE  contested \subseteq contested' /\ RacesNoted'
  <2>1. contested \subseteq contested'
      BY <1>2 DEF ReadPending
  <2>2. \A e \in Decider : decider'[e] = IF e = d THEN [loan |-> l, verdict |-> verdict]
                                        ELSE decider[e]
      BY <1>t, <1>2 DEF ReadPending
  <2>3. ASSUME NEW e \in Decider, e # d, decider[e].loan = l
        PROVE  l \in contested'
      BY <1>2, <2>3 DEF ReadPending
  <2>4. QED
      BY <2>1, <2>2, <2>3 DEF RacesNoted
<1>3. ASSUME NEW d \in Decider, decider' = [decider EXCEPT ![d] = Undecided],
             contested' = contested
      PROVE  contested \subseteq contested' /\ RacesNoted'
  <2>1. \A e \in Decider : decider'[e] = IF e = d THEN Undecided ELSE decider[e]
      BY <1>t, <1>3
  <2>2. QED
      BY <1>3, <2>1 DEF RacesNoted, Undecided
<1>4. ASSUME NEW d \in Decider, Decide(d)
      PROVE  contested \subseteq contested' /\ RacesNoted'
  <2>1. ASSUME NEW month \in 1 .. LastStart, WriteApproval(d, month)
        PROVE  contested \subseteq contested' /\ RacesNoted'
      BY <1>3, <2>1 DEF WriteApproval
  <2>2. CASE WriteRejection(d)
      BY <1>3, <2>2 DEF WriteRejection
  <2>3. QED
      BY <1>2, <1>4, <2>1, <2>2 DEF Decide
<1>5. ASSUME Next, \A d \in Decider : ~Decide(d)
      PROVE  UNCHANGED <<decider, contested>>
    BY <1>5 DEF Next, CreateLoan, RecordPayment, DeleteLoan
<1>6. QED
    BY <1>1, <1>4, <1>5 DEF vars

(* A loan about to be decided is pending, unless its decision is contested.  *)
LEMMA DecidedIsPending ==
    ASSUME TypeOK, RacesNoted, AllOrderly, [Next]_vars,
           NEW k \in Loan, k \notin contested', NEW d \in Decider, decider'[d].loan = k
    PROVE  loan'[k].status = "pending"
<1>t. /\ loan \in [Loan -> LoanRow] /\ loan[k] \in LoanRow
      /\ decider \in [Decider -> DeciderState] /\ NoLoan # k
    BY LoanAssumption DEF TypeOK
<1>r. k \notin contested /\ RacesNoted'
    BY RacesStayNoted
<1>p. decider[d].loan = k => loan[k].status = "pending"
    BY <1>r DEF AllOrderly, Orderly
<1>1. ASSUME NEW l \in Loan, NEW amount \in Money, NEW monthly \in Money,
             CreateLoan(l, amount, monthly)
      PROVE  loan'[k].status = "pending"
    BY <1>1, <1>p, <1>t DEF CreateLoan
<1>2. ASSUME NEW l \in Loan, NEW month \in Month, RecordPayment(l, month)
      PROVE  loan'[k].status = "pending"
    BY <1>2, <1>p, <1>t DEF RecordPayment
<1>3. ASSUME NEW l \in Loan, DeleteLoan(l)
      PROVE  loan'[k].status = "pending"
    BY <1>3, <1>p, <1>t DEF DeleteLoan, LoanRow
\* Another decider's write is to another loan.
<1>w. ASSUME NEW e \in Decider, decider[e].loan # NoLoan,
             decider' = [decider EXCEPT ![e] = Undecided], NEW row,
             loan' = loan \/ loan' = [loan EXCEPT ![decider[e].loan] = row]
      PROVE  loan'[k].status = "pending"
  <2>1. e # d
      BY <1>t, <1>w DEF Undecided
  <2>2. decider[d].loan = k
      BY <1>t, <1>w, <2>1
  <2>3. decider[e].loan # k
      BY <1>r, <1>t, <2>1, <2>2 DEF RacesNoted
  <2>4. QED
      BY <1>p, <1>t, <1>w, <2>2, <2>3
<1>4. ASSUME NEW e \in Decider, Decide(e)
      PROVE  loan'[k].status = "pending"
  <2>1. ASSUME NEW l \in Loan, NEW verdict \in {"approve", "reject"}, ReadPending(e, l, verdict)
        PROVE  loan'[k].status = "pending"
      BY <2>1, <1>p, <1>t DEF ReadPending
  <2>2. ASSUME NEW month \in 1 .. LastStart, WriteApproval(e, month)
        PROVE  loan'[k].status = "pending"
      BY <1>w, <2>2 DEF WriteApproval
  <2>3. CASE WriteRejection(e)
      BY <1>w, <2>3 DEF WriteRejection
  <2>4. QED
      BY <1>4, <2>1, <2>2, <2>3 DEF Decide
<1>5. CASE UNCHANGED vars
    BY <1>5, <1>p DEF vars
<1>6. QED
    BY <1>1, <1>2, <1>3, <1>4, <1>5 DEF Next

(* While something is owed and installments are paid, one more is needed.    *)
LEMMA OwedMeansNeeded ==
    \A a, m, p, r \in Nat : r = NotNegative(a - p * m) /\ r # 0 => p * m < a
<1> SUFFICES ASSUME NEW a \in Nat, NEW m \in Nat, NEW p \in Nat, NEW r \in Nat,
                    r = NotNegative(a - p * m), r # 0
             PROVE  p * m < a
    OBVIOUS
<1>1. p * m \in Nat
    OBVIOUS
<1>2. QED
    BY <1>1 DEF NotNegative

LEMMA OrderlyKept ==
    ASSUME TypeOK, Books, RacesNoted, AllOrderly, [Next]_vars
    PROVE  AllOrderly'
<1> SUFFICES ASSUME NEW k \in Loan, k \notin contested' PROVE Orderly(k)'
    BY DEF AllOrderly
<1>r. k \notin contested
    BY RacesStayNoted
<1>k. Orderly(k) /\ BooksOf(k) /\ loan[k] \in LoanRow
    BY <1>r DEF AllOrderly, Books, TypeOK
<1>n. /\ loan[k].amount \in Nat /\ loan[k].monthly \in Nat /\ loan[k].paid \in Nat
      /\ loan[k].remaining \in Nat /\ loan[k].start \in Nat
    BY <1>k, CalendarAssumption DEF LoanRow, Money
<1>d. (\A d \in Decider : decider[d].loan = k => loan[k].status = "pending")'
    BY DecidedIsPending
<1>e. loan[k].paid = 0 => payments[k] = {}
    BY <1>k, FS_EmptySet DEF BooksOf
<1>1. ASSUME NEW amount \in Money, NEW monthly \in Money, CreateLoan(k, amount, monthly)
      PROVE  Orderly(k)'
  <2>1. /\ loan[k].status = "none" /\ amount \in Nat /\ monthly \in Nat
        /\ amount > 0 /\ monthly > 0
        /\ loan'[k] = [NoRow EXCEPT !.status = "pending", !.amount = amount,
                                    !.monthly = monthly, !.remaining = amount]
        /\ payments'[k] = payments[k]
      BY <1>1, CreateRow
  <2>2. /\ loan'[k].status = "pending" /\ loan'[k].amount = amount
        /\ loan'[k].monthly = monthly /\ loan'[k].remaining = amount
        /\ loan'[k].paid = 0 /\ loan'[k].start = 0
      BY <2>1 DEF NoRow
  <2>3. payments'[k] = {}
      BY <1>k, <2>1 DEF BooksOf, FreshIsUnpaid
  <2>4. NoGap(k)'
      BY <2>2, <2>3 DEF NoGap, PaidMonths, ExpectedMonth
  <2>5. QED
      BY <1>d, <2>1, <2>2, <2>4 DEF Orderly, LastNeeded
<1>2. ASSUME NEW month \in Month, RecordPayment(k, month)
      PROVE  Orderly(k)'
  <2>1. /\ loan[k].status = "active"
        /\ month = loan[k].start + loan[k].paid
        /\ loan'[k].amount = loan[k].amount /\ loan'[k].monthly = loan[k].monthly
        /\ loan'[k].start = loan[k].start /\ loan'[k].paid = loan[k].paid + 1
        /\ loan'[k].status = IF loan'[k].remaining = 0 THEN "completed" ELSE "active"
        /\ payments'[k] = payments[k] \cup {[month |-> month, amount |-> Installment(k)]}
      BY <1>2, PaymentRow
  <2>2. loan[k].remaining # 0
      BY <1>k, <2>1 DEF Orderly
  <2>3. loan[k].paid * loan[k].monthly < loan[k].amount
    <3>1. loan[k].remaining = NotNegative(loan[k].amount - loan[k].paid * loan[k].monthly)
        BY <1>k DEF BooksOf
    <3>2. QED
        BY <1>n, <2>2, <3>1, OwedMeansNeeded
  <2>4. LastNeeded(k)'
    <3>1. loan'[k].paid - 1 = loan[k].paid
        BY <1>n, <2>1
    <3>2. QED
        BY <2>1, <2>3, <3>1 DEF LastNeeded
  <2>5. NoGap(k)'
    <3>1. PaidMonths(k)' = PaidMonths(k) \cup {month}
      <4> DEFINE new == [month |-> month, amount |-> Installment(k)]
      <4>1. new.month = month /\ payments'[k] = payments[k] \cup {new}
          BY <2>1
      <4> HIDE DEF new
      <4>2. QED
          BY <4>1 DEF PaidMonths
    <3>2. PaidMonths(k) = loan[k].start .. ExpectedMonth(k) - 1
      <4>1. NoGap(k)
          BY <1>k DEF Orderly
      <4>2. QED
          BY <4>1 DEF NoGap
    <3>3. PaidMonths(k)' = loan[k].start .. loan[k].start + loan[k].paid
      <4> DEFINE a == loan[k].start
                 b == loan[k].paid
      <4>1. a \in Nat /\ b \in Nat /\ month = a + b
          BY <1>n, <2>1
      <4>2. PaidMonths(k)' = (a .. (a + b - 1)) \cup {a + b}
          BY <3>1, <3>2, <4>1 DEF ExpectedMonth
      <4> HIDE DEF a, b
      <4>3. (a .. (a + b - 1)) \cup {a + b} = a .. (a + b)
          BY <4>1
      <4>4. QED
          BY <4>2, <4>3 DEF a, b
    <3>4. ExpectedMonth(k)' - 1 = loan[k].start + loan[k].paid
        BY <1>n, <2>1 DEF ExpectedMonth
    <3>5. QED
        BY <2>1, <3>3, <3>4 DEF NoGap
  <2>6. QED
      BY <1>d, <1>k, <2>1, <2>4, <2>5 DEF Orderly
<1>3. ASSUME loan'[k].amount = loan[k].amount, loan'[k].monthly = loan[k].monthly,
             loan'[k].remaining = loan[k].remaining, loan'[k].paid = loan[k].paid,
             loan'[k].start = loan[k].start, loan'[k].status = loan[k].status,
             payments'[k] = payments[k]
      PROVE  Orderly(k)'
    BY <1>3, <1>d, <1>k DEF Orderly, LastNeeded, NoGap, PaidMonths, ExpectedMonth
<1>4. CASE DeleteLoan(k)
  <2>1. payments' = payments /\ loan' = [loan EXCEPT ![k].deleted = TRUE]
      BY <1>4 DEF DeleteLoan
  <2>2. QED
      BY <1>k, <1>3, <2>1 DEF TypeOK, LoanRow
<1>5. CASE loan'[k] = loan[k] /\ payments'[k] = payments[k]
    BY <1>3, <1>5
<1>6. ASSUME NEW d \in Decider, NEW month \in 1 .. LastStart,
             decider[d].loan = k,
             loan'[k] = [loan[k] EXCEPT !.status = "active", !.start = month],
             payments'[k] = payments[k]
      PROVE  Orderly(k)'
  <2>1. loan[k].status = "pending" /\ loan[k].paid = 0 /\ payments[k] = {}
      BY <1>6, <1>k, <1>e DEF Orderly
  <2>2. /\ loan'[k].amount = loan[k].amount /\ loan'[k].monthly = loan[k].monthly
        /\ loan'[k].remaining = loan[k].remaining /\ loan'[k].paid = 0
        /\ loan'[k].start = month /\ loan'[k].status = "active"
      BY <1>6, <1>k, <2>1 DEF LoanRow
  <2>3. NoGap(k)'
      BY <1>6, <2>1, <2>2 DEF NoGap, PaidMonths, ExpectedMonth
  <2>4. QED
      BY <1>d, <1>k, <2>1, <2>2, <2>3 DEF Orderly, LastNeeded
<1>7. ASSUME NEW d \in Decider, decider[d].loan = k,
             loan'[k] = [loan[k] EXCEPT !.status = "rejected"],
             payments'[k] = payments[k]
      PROVE  Orderly(k)'
  <2>1. loan[k].status = "pending" /\ loan[k].paid = 0
      BY <1>7, <1>k DEF Orderly
  <2>2. /\ loan'[k].amount = loan[k].amount /\ loan'[k].monthly = loan[k].monthly
        /\ loan'[k].remaining = loan[k].remaining /\ loan'[k].paid = 0
        /\ loan'[k].start = loan[k].start /\ loan'[k].status = "rejected"
      BY <1>7, <1>k, <2>1 DEF LoanRow
  <2>3. NoGap(k)'
      BY <1>7, <1>k, <2>1, <2>2 DEF Orderly, NoGap, PaidMonths, ExpectedMonth
  <2>4. QED
      BY <1>d, <1>k, <2>1, <2>2, <2>3 DEF Orderly, LastNeeded
<1>8. QED
    BY <1>1, <1>2, <1>4, <1>5, <1>6, <1>7, StepsOfALoan

LEMMA OrderlyHolds == Spec => []AllOrderly
<1>1. TypeOK /\ Books /\ AllOrderly /\ RacesNoted /\ [Next]_vars
        => AllOrderly' /\ RacesNoted'
    BY OrderlyKept, RacesStayNoted
<1>2. QED
    BY <1>1, OrderlyStart, LoansTyped, BooksHold, PTL DEF Spec

(* What dividing upwards gives: the number of installments.                  *)
LEMMA CeilingBounds ==
    \A a, m \in Nat : m > 0 =>
        LET q == (a + m - 1) \div m IN
        /\ q \in Int
        /\ \A p \in Int : p * m < a => p < q
        /\ \A p \in Int : a <= p * m => q <= p
<1> SUFFICES ASSUME NEW a \in Nat, NEW m \in Nat, m > 0
             PROVE  LET q == (a + m - 1) \div m IN
                    /\ q \in Int
                    /\ \A p \in Int : p * m < a => p < q
                    /\ \A p \in Int : a <= p * m => q <= p
    OBVIOUS
<1> DEFINE q == (a + m - 1) \div m
<1>1. q \in Int /\ m * q <= a + m - 1 /\ a + m - 1 < m * q + m
    BY Z3
<1> HIDE DEF q
<1>2. ASSUME NEW p \in Int, p * m < a, q <= p
      PROVE  FALSE
  <2>1. m * q <= p * m
      BY <1>1, <1>2
  <2>2. QED
      BY <1>1, <1>2, <2>1
<1>3. ASSUME NEW p \in Int, a <= p * m, p < q
      PROVE  FALSE
  <2>1. p * m + m <= m * q
    <3>1. p + 1 <= q
        BY <1>1, <1>3
    <3>2. (p + 1) * m <= q * m
        BY <1>1, <3>1
    <3>3. (p + 1) * m = p * m + m /\ q * m = m * q
        BY <1>1
    <3>4. QED
        BY <3>2, <3>3
  <2>2. p * m \in Int /\ m * q \in Int
      BY <1>1
  <2>3. QED
      BY <1>1, <1>3, <2>1, <2>2
<1>4. QED
    BY <1>1, <1>2, <1>3 DEF q

LEMMA InstallmentsBounds ==
    ASSUME TypeOK, NEW l \in Loan, loan[l].monthly > 0
    PROVE  /\ Installments(l) \in Int
           /\ \A p \in Int : p * loan[l].monthly < loan[l].amount => p < Installments(l)
           /\ \A p \in Int : loan[l].amount <= p * loan[l].monthly => Installments(l) <= p
<1>1. loan[l].amount \in Nat /\ loan[l].monthly \in Nat
    BY CalendarAssumption DEF TypeOK, LoanRow, Money
<1>2. QED
    BY <1>1, CeilingBounds DEF Installments

(* A loan whose decision nobody contested is closed exactly when it has been *)
(* repaid, by the number of installments it was given, whatever happens to   *)
(* other loans.                                                              *)
THEOREM LoansClosedWhenRepaid == Spec => []ClosedWhenRepaid
<1>1. TypeOK /\ Books /\ AllOrderly => ClosedWhenRepaid
  <2> SUFFICES ASSUME TypeOK, Books, AllOrderly,
                      NEW l \in Loan \ contested, loan[l].status # "none"
               PROVE  /\ loan[l].status = "completed" <=> loan[l].remaining = 0
                      /\ loan[l].status = "completed" => loan[l].paid = Installments(l)
      BY DEF ClosedWhenRepaid
  <2>1. Orderly(l) /\ BooksOf(l)
      BY DEF AllOrderly, Books
  <2>2. /\ loan[l].amount \in Nat /\ loan[l].monthly \in Nat
        /\ loan[l].paid \in Nat /\ loan[l].remaining \in Nat
      BY CalendarAssumption DEF TypeOK, LoanRow, Money
  <2>3. /\ loan[l].amount > 0 /\ loan[l].monthly > 0
        /\ loan[l].status = "completed" <=> loan[l].remaining = 0
      BY <2>1 DEF Orderly
  <2>4. ASSUME loan[l].remaining = 0
        PROVE  loan[l].paid = Installments(l)
    <3> DEFINE a == loan[l].amount
               m == loan[l].monthly
               p == loan[l].paid
    <3>1. 0 = NotNegative(a - p * m)
        BY <2>1, <2>4 DEF BooksOf
    <3>2. p > 0 => (p - 1) * m < a
        BY <2>1 DEF Orderly, LastNeeded
    <3>3. a \in Nat /\ m \in Nat /\ p \in Nat /\ a > 0 /\ m > 0
        BY <2>2, <2>3
    <3>4. /\ Installments(l) \in Int
          /\ \A i \in Int : i * m < a => i < Installments(l)
          /\ \A i \in Int : a <= i * m => Installments(l) <= i
        BY <2>3, InstallmentsBounds
    <3> HIDE DEF a, m, p
    <3>5. p * m \in Nat
        BY <3>3
    <3>6. a <= p * m
        BY <3>1, <3>3, <3>5 DEF NotNegative
    <3>7. p > 0
      <4>1. p = 0 => p * m = 0
          BY <3>3
      <4>2. QED
          BY <3>3, <3>6, <4>1
    <3>8. Installments(l) <= p
        BY <3>3, <3>4, <3>6
    <3>9. p - 1 < Installments(l)
        BY <3>2, <3>3, <3>4, <3>7
    <3>10. p = Installments(l)
        BY <3>3, <3>4, <3>8, <3>9
    <3>11. QED
        BY <3>10 DEF p
  <2>5. QED
      BY <2>3, <2>4
<1>2. QED
    BY <1>1, LoansTyped, BooksHold, OrderlyHolds, PTL

(* The paid months of a loan whose decision nobody contested are its first   *)
(* ones.                                                                     *)
THEOREM LoansPaidInOrder == Spec => []PaidInOrder
<1>1. AllOrderly => PaidInOrder
    BY DEF AllOrderly, Orderly, NoGap, PaidInOrder
<1>2. QED
    BY <1>1, OrderlyHolds, PTL

-----------------------------------------------------------------------------
(* Payroll and loans together.                                               *)

(* Payroll does nothing to the loans that Loans does not allow, so all that  *)
(* is proved of Spec holds of PayrollSpec.                                   *)
THEOREM PayrollKeepsLoans == PayrollSpec => Spec
<1>1. PayrollInit => Init
    BY DEF PayrollInit
<1>2. [PayrollNext]_allVars => [Next]_vars
    BY DEF PayrollNext, RunMonth, LoanStep, allVars
<1>3. QED
    BY <1>1, <1>2, PTL DEF PayrollSpec, Spec

\* No more is withheld than an installment for each deduction, nor than the
\* loan and the backlog; nothing for a loan not requested.
Capped(l) ==
    /\ loan[l].status = "none" => withheld[l] = 0 /\ deductions[l] = 0 /\ backlog[l] = 0
    /\ withheld[l] <= loan[l].amount + backlog[l] * loan[l].monthly
    /\ withheld[l] <= deductions[l] * loan[l].monthly

AllCapped == \A l \in Loan : Capped(l)

\* No month deducts twice.
Counted == \A l \in Loan : deductions[l] <= monthsRun

(* After c deductions and p payments of installments of m, of which no more  *)
(* than b deductions were without a payment, one more deduction, capped at   *)
(* what is left, stays within the loan and b installments.                   *)
LEMMA OneMoreDeduction ==
    ASSUME NEW a \in Nat, NEW m \in Nat, NEW p \in Nat, NEW c \in Nat, NEW w \in Nat,
           NEW b \in Nat, c - p <= b, w <= a + b * m, w <= c * m
    PROVE  /\ w + Lesser(m, NotNegative(a - p * m)) <= a + b * m
           /\ w + Lesser(m, NotNegative(a - p * m)) <= (c + 1) * m
<1> DEFINE paid == p * m
           due == c * m
           behind == b * m
<1>1. paid \in Nat /\ due \in Nat /\ behind \in Nat
    OBVIOUS
<1>2. due <= paid + behind
  <2>1. \A k \in Nat : k * m \in Nat
      OBVIOUS
  <2>2. p + b - c \in Nat /\ p + b = c + (p + b - c)
      OBVIOUS
  <2>3. (p + b) * m = c * m + (p + b - c) * m
      BY <2>2
  <2>4. (p + b) * m = p * m + b * m
      OBVIOUS
  <2>5. QED
      BY <1>1, <2>1, <2>2, <2>3, <2>4
<1>3. (c + 1) * m = due + m
    OBVIOUS
<1> HIDE DEF paid, due, behind
<1>4. w <= due /\ w <= a + behind
    BY DEF due, behind
<1>5. w + Lesser(m, NotNegative(a - paid)) <= a + behind
    BY <1>1, <1>2, <1>4 DEF Lesser, NotNegative
<1>6. w + Lesser(m, NotNegative(a - paid)) <= due + m
    BY <1>1, <1>4 DEF Lesser, NotNegative
<1>7. QED
    BY <1>3, <1>5, <1>6 DEF paid, behind

LEMMA CountedStart == PayrollInit => Counted
BY DEF PayrollInit, Counted

(* A deduction is an amount of money, and the months counted for a loan are  *)
(* months payroll was run.                                                   *)
LEMMA PayrollStepTyped ==
    ASSUME PayrollTypeOK, Counted, TypeOK', [PayrollNext]_allVars
    PROVE  PayrollTypeOK' /\ Counted'
<1>1. CASE RunMonth
  <2>1. /\ monthsRun \in Nat /\ monthsRun < LastRun /\ monthsRun' = monthsRun + 1
        /\ withheld \in [Loan -> Nat] /\ deductions \in [Loan -> 0 .. LastRun]
        /\ backlog \in [Loan -> 0 .. LastRun]
      BY <1>1, LastRunAssumption DEF RunMonth, PayrollTypeOK
  <2>2. monthsRun' \in 0 .. LastRun
      BY <2>1, LastRunAssumption
  <2>3. ASSUME NEW l \in Loan
        PROVE  Deduction(l) \in Nat
    <3>1. loan[l].monthly \in Nat /\ loan[l].remaining \in Nat
        BY CalendarAssumption DEF PayrollTypeOK, TypeOK, LoanRow, Money
    <3>2. QED
        BY <3>1 DEF Deduction, Lesser
  <2>4. withheld' \in [Loan -> Nat]
    <3>1. \A l \in Loan : withheld[l] + Deduction(l) \in Nat
        BY <2>1, <2>3
    <3>2. QED
        BY <1>1, <2>1, <3>1 DEF RunMonth
  <2>5. ASSUME NEW l \in Loan
        PROVE  /\ deductions'[l] \in 0 .. LastRun
               /\ deductions'[l] <= monthsRun'
    <3>1. deductions[l] \in Nat /\ deductions[l] <= monthsRun
        BY <2>1 DEF Counted
    <3>2. deductions'[l] = IF l \in Deducted THEN deductions[l] + 1 ELSE deductions[l]
        BY <1>1 DEF RunMonth
    <3>3. QED
        BY <2>1, <3>1, <3>2, LastRunAssumption
  <2>6. deductions' \in [Loan -> 0 .. LastRun]
    <3>1. deductions' = [l \in Loan |-> deductions'[l]]
        BY <1>1 DEF RunMonth
    <3>2. QED
        BY <2>5, <3>1
  <2>7. ASSUME NEW l \in Loan
        PROVE  Behind(l) \in 0 .. LastRun
    <3>1. /\ deductions[l] \in Nat /\ deductions[l] <= LastRun
          /\ loan[l].paid \in Nat
        BY <2>1, LastRunAssumption DEF PayrollTypeOK, TypeOK, LoanRow
    <3>2. QED
        BY <3>1, LastRunAssumption DEF Behind, NotNegative
  <2>8. backlog' \in [Loan -> 0 .. LastRun]
    <3>1. \A l \in Loan : backlog[l] \in 0 .. LastRun
        BY <2>1
    <3>2. QED
        BY <1>1, <2>7, <3>1 DEF RunMonth
  <2>9. QED
      BY <2>2, <2>4, <2>5, <2>6, <2>8 DEF PayrollTypeOK, Counted
<1>2. CASE LoanStep \/ UNCHANGED allVars
    BY <1>2 DEF LoanStep, allVars, payrollVars, PayrollTypeOK, Counted
<1>3. QED
    BY <1>1, <1>2 DEF PayrollNext

(* The amounts withheld are never negative, the rows of the loans are typed  *)
(* as ever, and no month deducts twice from a loan.                          *)
THEOREM PayrollLoansTyped == PayrollSpec => [](PayrollTypeOK /\ Counted)
<1>1. PayrollSpec => []TypeOK
    BY PayrollKeepsLoans, LoansTyped, PTL
<1>2. PayrollInit /\ TypeOK => PayrollTypeOK
    BY LastRunAssumption DEF PayrollInit, PayrollTypeOK
<1>3. QED
    BY <1>1, <1>2, CountedStart, PayrollStepTyped, PTL DEF PayrollSpec

LEMMA CappedStart == PayrollInit => AllCapped
<1> SUFFICES ASSUME PayrollInit, NEW l \in Loan PROVE Capped(l)
    BY DEF AllCapped
<1>1. loan[l] = NoRow /\ withheld[l] = 0 /\ deductions[l] = 0 /\ backlog[l] = 0
    BY DEF PayrollInit, Init
<1>2. QED
    BY <1>1 DEF Capped, NoRow

(* A step of HR's leaves what was withheld, and the terms of a loan.         *)
LEMMA CappedByHR ==
    ASSUME PayrollTypeOK, AllCapped, LoanStep
    PROVE  AllCapped'
<1> SUFFICES ASSUME NEW k \in Loan PROVE Capped(k)'
    BY DEF AllCapped
<1>k. /\ Capped(k) /\ loan[k] \in LoanRow
      /\ withheld'[k] = withheld[k] /\ deductions'[k] = deductions[k]
      /\ backlog'[k] = backlog[k]
      /\ withheld[k] \in Nat /\ deductions[k] \in Nat /\ backlog[k] \in Nat
    BY LastRunAssumption DEF AllCapped, PayrollTypeOK, TypeOK, LoanStep, payrollVars
<1>n. TypeOK /\ [Next]_vars
    BY DEF PayrollTypeOK, LoanStep
<1>0. ASSUME loan'[k].amount = loan[k].amount, loan'[k].monthly = loan[k].monthly,
             loan'[k].status = "none" => loan[k].status = "none"
      PROVE  Capped(k)'
    BY <1>0, <1>k DEF Capped
<1>1. ASSUME NEW amount \in Money, NEW monthly \in Money, CreateLoan(k, amount, monthly)
      PROVE  Capped(k)'
  <2>1. /\ loan[k].status = "none" /\ amount \in Nat /\ monthly \in Nat
        /\ loan'[k] = [NoRow EXCEPT !.status = "pending", !.amount = amount,
                                    !.monthly = monthly, !.remaining = amount]
      BY <1>1, <1>n, CreateRow
  <2>2. /\ loan'[k].amount = amount /\ loan'[k].monthly = monthly
        /\ loan'[k].status = "pending"
      BY <2>1 DEF NoRow
  <2>3. withheld'[k] = 0 /\ deductions'[k] = 0 /\ backlog'[k] = 0
      BY <1>k, <2>1 DEF Capped
  <2>4. 0 * monthly = 0
      BY <2>1
  <2>5. QED
      BY <2>1, <2>2, <2>3, <2>4 DEF Capped
<1>2. ASSUME NEW month \in Month, RecordPayment(k, month)
      PROVE  Capped(k)'
  <2>1. /\ loan'[k].amount = loan[k].amount /\ loan'[k].monthly = loan[k].monthly
        /\ loan[k].status = "active"
        /\ loan'[k].status = IF loan'[k].remaining = 0 THEN "completed" ELSE "active"
      BY <1>2, <1>n, PaymentRow
  <2>2. QED
      BY <1>0, <2>1
<1>3. CASE DeleteLoan(k)
  <2>1. loan'[k] = [loan[k] EXCEPT !.deleted = TRUE]
      BY <1>3, <1>n DEF DeleteLoan, TypeOK
  <2>2. QED
      BY <1>0, <1>k, <2>1 DEF LoanRow
<1>4. ASSUME NEW month,
             loan'[k] = [loan[k] EXCEPT !.status = "active", !.start = month]
      PROVE  Capped(k)'
    BY <1>0, <1>k, <1>4 DEF LoanRow
<1>5. CASE loan'[k] = [loan[k] EXCEPT !.status = "rejected"]
    BY <1>0, <1>k, <1>5 DEF LoanRow
<1>6. CASE loan'[k] = loan[k]
    BY <1>0, <1>6
<1>7. QED
    BY <1>n, <1>1, <1>2, <1>3, <1>4, <1>5, <1>6, StepsOfALoan

(* A month of payroll: the deduction is capped at the balance HR's payments  *)
(* have left, and the backlog is noted.                                      *)
LEMMA CappedByPayroll ==
    ASSUME PayrollTypeOK, AllCapped, Books, RunMonth
    PROVE  AllCapped'
<1> SUFFICES ASSUME NEW k \in Loan PROVE Capped(k)'
    BY DEF AllCapped
<1> DEFINE a == loan[k].amount
           m == loan[k].monthly
           p == loan[k].paid
<1>n. /\ a \in Nat /\ m \in Nat /\ p \in Nat
      /\ withheld[k] \in Nat /\ deductions[k] \in Nat /\ backlog[k] \in Nat
    BY CalendarAssumption, LastRunAssumption DEF PayrollTypeOK, TypeOK, LoanRow, Money
<1>k. /\ Capped(k) /\ BooksOf(k) /\ loan' = loan
      /\ withheld'[k] = IF k \in Deducted THEN withheld[k] + Deduction(k) ELSE withheld[k]
      /\ deductions'[k] = IF k \in Deducted THEN deductions[k] + 1 ELSE deductions[k]
      /\ backlog'[k] = IF k \in Deducted /\ Behind(k) > backlog[k]
                       THEN Behind(k) ELSE backlog[k]
    BY DEF AllCapped, Books, RunMonth, vars
<1>1. CASE k \notin Deducted
    BY <1>k, <1>1 DEF Capped
<1>2. CASE k \in Deducted
  <2>1. loan[k].status # "none"
      BY <1>2 DEF Deducted
  <2>2. /\ backlog'[k] \in Nat /\ backlog[k] <= backlog'[k]
        /\ deductions[k] - p <= backlog'[k]
      BY <1>2, <1>k, <1>n DEF Behind, NotNegative
  <2>3. Deduction(k) = Lesser(m, NotNegative(a - p * m))
      BY <1>k DEF BooksOf, Deduction
  <2>4. withheld[k] <= a + backlog'[k] * m
    <3>1. backlog'[k] * m = backlog[k] * m + (backlog'[k] - backlog[k]) * m
        BY <1>n, <2>2
    <3>2. backlog[k] * m \in Nat /\ (backlog'[k] - backlog[k]) * m \in Nat
        BY <1>n, <2>2
    <3>3. withheld[k] <= a + backlog[k] * m
        BY <1>k DEF Capped
    <3> HIDE DEF a, m
    <3>4. QED
        BY <1>n, <3>1, <3>2, <3>3
  <2>5. withheld[k] <= deductions[k] * m
      BY <1>k DEF Capped
  <2>6. /\ withheld[k] + Deduction(k) <= a + backlog'[k] * m
        /\ withheld[k] + Deduction(k) <= (deductions[k] + 1) * m
    <3> HIDE DEF a, m, p
    <3>1. QED
        BY <1>n, <2>2, <2>3, <2>4, <2>5, OneMoreDeduction
  <2>7. QED
      BY <1>k, <1>2, <2>1, <2>6 DEF Capped
<1>3. QED
    BY <1>1, <1>2

(* What payroll takes for a loan exceeds it by no more than an installment   *)
(* for each deduction that HR had not recorded when the next was made,       *)
(* however many decisions race and whatever is deleted.                      *)
THEOREM PayrollOverWithheldBounded == PayrollSpec => []OverWithheldBounded
<1>1. PayrollSpec => []Books
    BY PayrollKeepsLoans, BooksHold, PTL
<1>2. PayrollTypeOK /\ Books /\ AllCapped /\ [PayrollNext]_allVars => AllCapped'
  <2>1. CASE UNCHANGED allVars /\ AllCapped
      BY <2>1 DEF allVars, vars, payrollVars, AllCapped, Capped
  <2>2. QED
      BY <2>1, CappedByHR, CappedByPayroll DEF PayrollNext
<1>3. AllCapped => OverWithheldBounded
    BY DEF AllCapped, Capped, OverWithheldBounded
<1>4. QED
    BY <1>1, <1>2, <1>3, CappedStart, PayrollLoansTyped, PTL DEF PayrollSpec
=============================================================================
