---------------------------- MODULE Subscription ----------------------------
(* The subscription of one tenant: checkout sessions at Stripe, the webhook  *)
(* that activates what was paid, HR's own change of the capacity, and the    *)
(* employees the capacity is for.                                            *)
(*                                                                           *)
(* Every await is a statement of its own; nothing here is a transaction.     *)
(* Stripe delivers a paid session until a delivery is answered, so a handler *)
(* that dies is followed by another one for the same session, and a slow one *)
(* may be overtaken by another.                                              *)
EXTENDS Integers, FiniteSetsExt

CONSTANTS
    Session,        \* checkout sessions Stripe may create
    NoSession,      \* a handler with no session at hand
    Buyer,          \* POST /subscription/checkout
    Webhook,        \* POST /subscription/webhook
    Adder,          \* POST /employees, POST /recruitment/.../convert
    Quota,          \* capacities that may be bought
    Free,           \* FREE_PLAN_QUOTA
    Term,           \* days a payment is good for
    LastDay,        \* bound: the last day there is
    MaxArchived,    \* bound: employees archived at a time
    MaxUnchecked,   \* bound: employees that come in without a look at the quota
    MaxFaults       \* bound: handlers that die

ASSUME SessionAssumption == NoSession \notin Session
ASSUME RolesAssumption ==
    /\ Buyer \cap (Webhook \cup Adder) = {}
    /\ Webhook \cap Adder = {}
    /\ IsFiniteSet(Adder)
    /\ Adder # {}
ASSUME PlanAssumption ==
    /\ Quota \subseteq Nat
    /\ Free \in Nat
    /\ Term \in Nat
    /\ LastDay \in Nat
    /\ MaxArchived \in Nat
    /\ MaxUnchecked \in Nat
    /\ MaxFaults \in Nat

VARIABLES
    tenant,     \* the row of tenants
    today,      \* the day
    session,    \* sessions at Stripe
    logged,     \* rows of subscription_events that carry a session's id
    staff,      \* rows of employees that count
    archived,   \* rows of employees that may be restored
    proc,       \* handlers: program counter and locals
    faults,     \* handlers that died so far
    served,     \* history: sessions the tenant was updated for
    doubled,    \* history: sessions delivered while a handler was at them
    ceiling,    \* history: the highest limit so far
    unchecked   \* history: employees that came in without a look at the quota

people == <<staff, archived, unchecked>>
plan == <<tenant, ceiling>>
history == <<served, doubled>>
vars == <<plan, today, session, logged, people, proc, faults, history>>

Process == Buyer \cup Webhook \cup Adder

Tenant == [plan : {"starter", "growth"}, quota : Nat, until : Nat]
\* created: the buyer has no address to pay at yet.  settled: Stripe has its
\* answer and delivers no more.
Purchase == [state : {"none", "created", "open", "paid", "settled"}, quota : Nat]
Events == [checkouts : Nat, receipts : Nat]

PC == {"idle", "log", "seen", "activate", "receipt", "reply", "count", "insert"}
Handler == [pc : PC, session : Session \cup {NoSession}, limit : Nat]

Idle == [pc |-> "idle", session |-> NoSession, limit |-> 0]

TypeOK ==
    /\ tenant \in Tenant
    /\ today \in 0 .. LastDay
    /\ session \in [Session -> Purchase]
    /\ logged \in [Session -> Events]
    /\ staff \in Nat
    /\ archived \in Nat
    /\ proc \in [Process -> Handler]
    /\ faults \in 0 .. MaxFaults
    /\ served \subseteq Session
    /\ doubled \subseteq Session
    /\ ceiling \in Nat
    /\ unchecked \in Nat

Init ==
    /\ tenant = [plan |-> "starter", quota |-> Free, until |-> 0]
    /\ today = 0
    /\ session = [s \in Session |-> [state |-> "none", quota |-> 0]]
    /\ logged = [s \in Session |-> [checkouts |-> 0, receipts |-> 0]]
    /\ staff \in 0 .. Free
    /\ archived = 0
    /\ proc = [p \in Process |-> Idle]
    /\ faults = 0
    /\ served = {}
    /\ doubled = {}
    /\ ceiling = Free
    /\ unchecked = 0

-----------------------------------------------------------------------------
(* Helpers.                                                                  *)

At(p, pc) == proc[p].pc = pc
Step(p, handler) == proc' = [proc EXCEPT ![p] = handler]
Goto(p, pc) == Step(p, [proc[p] EXCEPT !.pc = pc])
Return(p) == Step(p, Idle)

Mine(p) == proc[p].session

\* A paid plan whose term is over is worth no more than the free one.
Limit(t, day) == IF t.plan = "growth" /\ t.until < day THEN Free ELSE t.quota

\* The limits so far, with the one in force from now on.
Raise(limit) == ceiling' = IF limit > ceiling THEN limit ELSE ceiling

\* The tenants row after a payment for a capacity.
Growth(quota) == [plan |-> "growth", quota |-> quota, until |-> today + Term]

SetState(s, state) == session' = [session EXCEPT ![s].state = state]

-----------------------------------------------------------------------------
(* Checkout, and the customer at Stripe.                                     *)

CreateSession(b, s, quota) ==
    /\ At(b, "idle")
    /\ session[s].state = "none"
    /\ session' = [session EXCEPT ![s] = [state |-> "created", quota |-> quota]]
    /\ Step(b, [Idle EXCEPT !.pc = "log", !.session = s])
    /\ UNCHANGED <<plan, today, logged, people, faults, history>>

\* The event is on the log before the buyer is sent to Stripe.
LogCheckout(b) ==
    /\ At(b, "log")
    /\ logged' = [logged EXCEPT ![Mine(b)].checkouts = @ + 1]
    /\ SetState(Mine(b), "open")
    /\ Return(b)
    /\ UNCHANGED <<plan, today, people, faults, history>>

Pay(s) ==
    /\ session[s].state = "open"
    /\ SetState(s, "paid")
    /\ UNCHANGED <<plan, today, logged, people, proc, faults, history>>

-----------------------------------------------------------------------------
(* The webhook: activateProfessionalFromWebhook.                             *)

BeingServed(s) == \E w \in Webhook : Mine(w) = s

Deliver(w, s) ==
    /\ At(w, "idle")
    /\ session[s].state = "paid"
    /\ Step(w, [Idle EXCEPT !.pc = "seen", !.session = s])
    /\ doubled' = IF BeingServed(s) THEN doubled \cup {s} ELSE doubled
    /\ UNCHANGED <<plan, today, session, logged, people, faults, served>>

\* Mutant: any event of the session will do.
CheckSeenAny(w) ==
    /\ At(w, "seen")
    /\ Goto(w, IF logged[Mine(w)].checkouts + logged[Mine(w)].receipts > 0
                 THEN "reply" ELSE "activate")
    /\ UNCHANGED <<plan, today, session, logged, people, faults, history>>

\* Mutant: the session is activated whether it was seen or not.
CheckNothing(w) ==
    /\ At(w, "seen")
    /\ Goto(w, "activate")
    /\ UNCHANGED <<plan, today, session, logged, people, faults, history>>

CheckSeen(w) ==
    /\ At(w, "seen")
    /\ Goto(w, IF logged[Mine(w)].receipts > 0 THEN "reply" ELSE "activate")
    /\ UNCHANGED <<plan, today, session, logged, people, faults, history>>

\* Mutant: the receipt is written first.
ReceiptFirst(w) ==
    /\ At(w, "activate")
    /\ logged' = [logged EXCEPT ![Mine(w)].receipts = @ + 1]
    /\ Goto(w, "receipt")
    /\ UNCHANGED <<plan, today, session, people, faults, history>>

Activate(w) ==
    /\ At(w, "activate")
    /\ tenant' = Growth(session[Mine(w)].quota)
    /\ Raise(session[Mine(w)].quota)
    /\ served' = served \cup {Mine(w)}
    /\ Goto(w, "receipt")
    /\ UNCHANGED <<today, session, logged, people, faults, doubled>>

\* The invoice is mailed next; a mail that fails changes nothing.
WriteReceipt(w) ==
    /\ At(w, "receipt")
    /\ logged' = [logged EXCEPT ![Mine(w)].receipts = @ + 1]
    /\ Goto(w, "reply")
    /\ UNCHANGED <<plan, today, session, people, faults, history>>

Reply(w) ==
    /\ At(w, "reply")
    /\ SetState(Mine(w), "settled")
    /\ Return(w)
    /\ UNCHANGED <<plan, today, logged, people, faults, history>>

Serve(w) == CheckSeen(w) \/ Activate(w) \/ WriteReceipt(w) \/ Reply(w)

-----------------------------------------------------------------------------
(* PATCH /subscription/quota.  The plan never goes back to free, so that it  *)
(* is growth still holds at the update; the event carries no session.        *)

UpdateQuota(quota) ==
    /\ tenant.plan = "growth"
    /\ tenant' = Growth(quota)
    /\ Raise(quota)
    /\ UNCHANGED <<today, session, logged, people, proc, faults, history>>

-----------------------------------------------------------------------------
(* Employees.                                                                *)

ReadLimit(a) ==
    /\ At(a, "idle")
    /\ Step(a, [Idle EXCEPT !.pc = "count", !.limit = Limit(tenant, today)])
    /\ UNCHANGED <<plan, today, session, logged, people, faults, history>>

\* Mutant: one more than the limit will do.
CountLoosely(a) ==
    /\ At(a, "count")
    /\ IF staff <= proc[a].limit THEN Goto(a, "insert") ELSE Return(a)
    /\ UNCHANGED <<plan, today, session, logged, people, faults, history>>

CountStaff(a) ==
    /\ At(a, "count")
    /\ IF staff < proc[a].limit THEN Goto(a, "insert") ELSE Return(a)
    /\ UNCHANGED <<plan, today, session, logged, people, faults, history>>

InsertEmployee(a) ==
    /\ At(a, "insert")
    /\ staff' = staff + 1
    /\ Return(a)
    /\ UNCHANGED <<plan, today, session, logged, archived, unchecked, faults, history>>

Archive ==
    /\ staff > 0
    /\ archived < MaxArchived
    /\ staff' = staff - 1
    /\ archived' = archived + 1
    /\ UNCHANGED <<plan, today, session, logged, unchecked, proc, faults, history>>

\* Neither a restore nor a bulk import asks what the quota is.
Restore ==
    /\ archived > 0
    /\ unchecked < MaxUnchecked
    /\ archived' = archived - 1
    /\ staff' = staff + 1
    /\ unchecked' = unchecked + 1
    /\ UNCHANGED <<plan, today, session, logged, proc, faults, history>>

Import ==
    /\ unchecked < MaxUnchecked
    /\ staff' = staff + 1
    /\ unchecked' = unchecked + 1
    /\ UNCHANGED <<plan, today, session, logged, archived, proc, faults, history>>

-----------------------------------------------------------------------------
(* The day, and processes that die.                                          *)

NextDay ==
    /\ today < LastDay
    /\ today' = today + 1
    /\ Raise(Limit(tenant, today + 1))
    /\ UNCHANGED <<tenant, session, logged, people, proc, faults, history>>

Die(p) ==
    /\ ~At(p, "idle")
    /\ faults < MaxFaults
    /\ faults' = faults + 1
    /\ Return(p)
    /\ UNCHANGED <<plan, today, session, logged, people, history>>

Next ==
    \/ \E b \in Buyer : LogCheckout(b) \/ \E s \in Session, q \in Quota : CreateSession(b, s, q)
    \/ \E s \in Session : Pay(s) \/ \E w \in Webhook : Deliver(w, s)
    \/ \E w \in Webhook : Serve(w)
    \/ \E q \in Quota : UpdateQuota(q)
    \/ \E a \in Adder : ReadLimit(a) \/ CountStaff(a) \/ InsertEmployee(a)
    \/ Archive \/ Restore \/ Import
    \/ NextDay
    \/ \E p \in Process : Die(p)

Spec == Init /\ [][Next]_vars

\* Stripe delivers until it has an answer, and a handler that has started
\* goes on.
Fairness ==
    /\ \A s \in Session : WF_vars(\E w \in Webhook : Deliver(w, s))
    /\ \A w \in Webhook : WF_vars(Serve(w))

FairSpec == Spec /\ Fairness

-----------------------------------------------------------------------------
(* Properties.                                                               *)

\* Stripe delivers a session again whenever a handler died before its answer,
\* also after the receipt was written; still a payment has one receipt (and
\* one invoice) at most, unless it was delivered while another handler was at
\* it: the receipt is looked for and written in two statements.
OneReceipt == \A s \in Session \ doubled : logged[s].receipts <= 1

\* Wherever a handler dies, a session with a receipt was served: the receipt
\* is what stops the next delivery, so it must come after the update.
ReceiptIsService == \A s \in Session : logged[s].receipts > 0 => s \in served

\* What was paid is served and has its receipt in the end, however often the
\* handlers died (a bounded number of times).
PaidIsServed ==
    \A s \in Session :
        session[s].state = "paid" ~> s \in served /\ logged[s].receipts > 0

\* The quota is read, the employees are counted and the new one is inserted in
\* three statements: employees added at the same time can go over the limit,
\* but by no more than the others that were on their way, even if the capacity
\* is lowered, expires or employees go and come back meanwhile.  Only restores
\* and imports come on top, which are not checked at all.
SeatsBounded == staff <= ceiling + unchecked + Cardinality(Adder) - 1
=============================================================================
