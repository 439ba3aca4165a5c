---------------------------- MODULE PayrollPeriod ----------------------------
(* What one month's payroll promises, with no jobs, queues or statements in  *)
(* sight: a run is opened for the period, may be discarded while nothing has *)
(* been paid, and is paid at most once, for good.  PayrollRun is shown to    *)
(* implement this, a run two of whose jobs overlapped counting as one that   *)
(* is still open.                                                            *)

CONSTANTS
    Run,        \* payroll run rows HR may create for the period
    Issue       \* every set of payslips one calculation can produce

VARIABLES
    phase,      \* phase[r]: where run r is
    issued      \* issued[r]: the sets of payslips employees can see for r

vars == <<phase, issued>>

Phase == {"none", "open", "paid", "gone"}

Init ==
    /\ phase = [r \in Run |-> "none"]
    /\ issued = [r \in Run |-> {}]

\* A period has one run at a time.
Open(r) ==
    /\ phase[r] = "none"
    /\ \A other \in Run : phase[other] \in {"none", "gone"}
    /\ phase' = [phase EXCEPT ![r] = "open"]
    /\ UNCHANGED issued

\* Only a run nobody has been paid by may disappear.
Discard(r) ==
    /\ phase[r] = "open"
    /\ phase' = [phase EXCEPT ![r] = "gone"]
    /\ UNCHANGED issued

\* Everybody is paid by one calculation, in one step.
Pay(r, slips) ==
    /\ phase[r] = "open"
    /\ phase' = [phase EXCEPT ![r] = "paid"]
    /\ issued' = [issued EXCEPT ![r] = {slips}]

Next ==
    \E r \in Run :
        \/ Open(r)
        \/ Discard(r)
        \/ \E slips \in Issue : Pay(r, slips)

Spec == Init /\ [][Next]_vars
=============================================================================
