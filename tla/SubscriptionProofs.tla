------------------------- MODULE SubscriptionProofs -------------------------
(* Proofs about Subscription, for any sets of sessions and handlers, any     *)
(* capacities and any number of handlers that die.                           *)
EXTENDS Subscription, FiniteSetTheorems, TLAPS

-----------------------------------------------------------------------------
(* Typing.  A handler that is busy knows its session, and only deliveries    *)
(* come past "log".                                                          *)

ServePC == {"seen", "activate", "receipt", "reply"}
AddPC == {"count", "insert"}

Refers(p, h) ==
    /\ p \in Buyer => h.pc \in {"idle", "log"}
    /\ p \in Webhook => h.pc \in {"idle"} \cup ServePC
    /\ p \in Adder => h.pc \in {"idle"} \cup AddPC
    /\ h.pc \in {"idle"} \cup AddPC => h.session = NoSession
    /\ h.pc \in {"log"} \cup ServePC => h.session \in Session

Typed == TypeOK /\ \A p \in Process : Refers(p, proc[p])

LEMMA IdleTyped == Idle \in Handler /\ \A p : Refers(p, Idle)
BY DEF Idle, Handler, Refers, PC, ServePC, AddPC

LEMMA StepTyped ==
    ASSUME Typed, NEW p \in Process, NEW h \in Handler, Refers(p, h), Step(p, h)
    PROVE  proc' \in [Process -> Handler] /\ \A q \in Process : Refers(q, proc'[q])
BY DEF Typed, TypeOK, Step

LEMMA ReturnTyped ==
    ASSUME Typed, NEW p \in Process, Return(p)
    PROVE  proc' \in [Process -> Handler] /\ \A q \in Process : Refers(q, proc'[q])
BY IdleTyped, StepTyped DEF Return

\* A delivery goes on with its session.
LEMMA ServeGotoTyped ==
    ASSUME Typed, NEW w \in Webhook, proc[w].pc \in ServePC,
           NEW pc \in ServePC, Goto(w, pc)
    PROVE  proc' \in [Process -> Handler] /\ \A q \in Process : Refers(q, proc'[q])
<1> DEFINE h == [proc[w] EXCEPT !.pc = pc]
<1>1. w \in Process /\ proc[w] \in Handler /\ Refers(w, proc[w]) /\ pc \in PC
    BY DEF Process, Typed, TypeOK, ServePC, PC
<1>2. h \in Handler /\ h.pc = pc /\ h.session = proc[w].session
    BY <1>1 DEF Handler
<1>3. w \notin Buyer /\ w \notin Adder /\ pc \notin {"idle"} \cup AddPC
    BY RolesAssumption DEF ServePC, AddPC
<1>4. Refers(w, h)
    BY <1>1, <1>2, <1>3 DEF Refers
<1>5. Step(w, h)
    BY DEF Goto
<1>6. QED
    BY <1>1, <1>2, <1>4, <1>5, StepTyped

LEMMA CheckoutTyped ==
    ASSUME Typed, NEW b \in Buyer,
           LogCheckout(b) \/ \E s \in Session, q \in Quota : CreateSession(b, s, q)
    PROVE  Typed'
<1>p. b \in Process /\ proc[b] \in Handler /\ Refers(b, proc[b])
    BY DEF Typed, TypeOK, Process
<1>1. CASE LogCheckout(b)
  <2>1. proc[b].session \in Session
      BY <1>1, <1>p DEF LogCheckout, At, Refers
  <2>2. session' \in [Session -> Purchase]
      BY <1>1, <2>1 DEF LogCheckout, SetState, Mine, Typed, TypeOK, Purchase
  <2>3. logged' \in [Session -> Events]
      BY <1>1, <2>1 DEF LogCheckout, Mine, Typed, TypeOK, Events
  <2>4. QED
      BY <1>1, <1>p, <2>2, <2>3, ReturnTyped
      DEF LogCheckout, Typed, TypeOK, plan, people, history
<1>2. ASSUME NEW s \in Session, NEW q \in Quota, CreateSession(b, s, q)
      PROVE  Typed'
  <2> DEFINE h == [Idle EXCEPT !.pc = "log", !.session = s]
  <2>1. h \in Handler /\ Refers(b, h)
      BY RolesAssumption DEF Idle, Handler, PC, Refers, ServePC, AddPC
  <2>2. proc' \in [Process -> Handler] /\ \A p \in Process : Refers(p, proc'[p])
      BY <1>2, <1>p, <2>1, StepTyped DEF CreateSession
  <2>3. session' \in [Session -> Purchase]
      BY <1>2, PlanAssumption DEF CreateSession, Typed, TypeOK, Purchase
  <2>4. QED
      BY <1>2, <2>2, <2>3 DEF CreateSession, Typed, TypeOK, plan, people, history
<1>3. QED
    BY <1>1, <1>2

LEMMA DeliverTyped ==
    ASSUME Typed, NEW w \in Webhook, NEW s \in Session, Deliver(w, s)
    PROVE  Typed'
<1> DEFINE h == [Idle EXCEPT !.pc = "seen", !.session = s]
<1>1. w \in Process /\ h \in Handler /\ Refers(w, h)
    BY RolesAssumption DEF Process, Idle, Handler, PC, Refers, ServePC, AddPC
<1>2. proc' \in [Process -> Handler] /\ \A p \in Process : Refers(p, proc'[p])
    BY <1>1, StepTyped DEF Deliver
<1>3. QED
    BY <1>2 DEF Deliver, Typed, TypeOK, plan, people, history

LEMMA GrowthTyped ==
    ASSUME Typed, NEW q \in Nat
    PROVE  Growth(q) \in Tenant
BY PlanAssumption DEF Typed, TypeOK, Growth, Tenant

LEMMA RaiseTyped ==
    ASSUME Typed, NEW limit \in Nat, Raise(limit)
    PROVE  ceiling' \in Nat
BY DEF Typed, TypeOK, Raise

LEMMA LimitTyped ==
    ASSUME NEW t \in Tenant, NEW day \in Nat
    PROVE  Limit(t, day) \in Nat
BY PlanAssumption DEF Limit, Tenant

LEMMA ServeTyped ==
    ASSUME Typed, NEW w \in Webhook, Serve(w)
    PROVE  Typed'
<1>p. w \in Process /\ proc[w] \in Handler /\ Refers(w, proc[w])
    BY DEF Typed, TypeOK, Process
<1>1. proc[w].pc \in ServePC /\ proc[w].session \in Session
    BY <1>p DEF Serve, CheckSeen, Activate, WriteReceipt, Reply, At, ServePC, Refers
<1>2. CASE CheckSeen(w)
  <2>1. Goto(w, "reply") \/ Goto(w, "activate")
      BY <1>2 DEF CheckSeen
  <2>2. proc' \in [Process -> Handler] /\ \A p \in Process : Refers(p, proc'[p])
      BY <1>1, <2>1, ServeGotoTyped DEF ServePC
  <2>3. QED
      BY <1>2, <2>2 DEF CheckSeen, Typed, TypeOK, plan, people, history
<1>3. CASE Activate(w)
  <2>1. proc' \in [Process -> Handler] /\ \A p \in Process : Refers(p, proc'[p])
      BY <1>1, <1>3, ServeGotoTyped DEF Activate, ServePC
  <2>2. session[Mine(w)].quota \in Nat
      BY <1>1 DEF Typed, TypeOK, Purchase, Mine
  <2>3. tenant' \in Tenant /\ ceiling' \in Nat
      BY <1>3, <2>2, GrowthTyped, RaiseTyped DEF Activate
  <2>4. served' \subseteq Session
      BY <1>1, <1>3 DEF Activate, Mine, Typed, TypeOK
  <2>5. QED
      BY <1>3, <2>1, <2>3, <2>4 DEF Activate, Typed, TypeOK, people, history
<1>4. CASE WriteReceipt(w)
  <2>1. proc' \in [Process -> Handler] /\ \A p \in Process : Refers(p, proc'[p])
      BY <1>1, <1>4, ServeGotoTyped DEF WriteReceipt, ServePC
  <2>2. logged' \in [Session -> Events]
      BY <1>1, <1>4 DEF WriteReceipt, Mine, Typed, TypeOK, Events
  <2>3. QED
      BY <1>4, <2>1, <2>2 DEF WriteReceipt, Typed, TypeOK, plan, people, history
<1>5. CASE Reply(w)
  <2>1. session' \in [Session -> Purchase]
      BY <1>1, <1>5 DEF Reply, SetState, Mine, Typed, TypeOK, Purchase
  <2>2. QED
      BY <1>p, <1>5, <2>1, ReturnTyped DEF Reply, Typed, TypeOK, plan, people, history
<1>6. QED
    BY <1>2, <1>3, <1>4, <1>5 DEF Serve

LEMMA AdderTyped ==
    ASSUME Typed, NEW a \in Adder, ReadLimit(a) \/ CountStaff(a) \/ InsertEmployee(a)
    PROVE  Typed'
<1>p. a \in Process /\ proc[a] \in Handler /\ Refers(a, proc[a])
    BY DEF Typed, TypeOK, Process
<1>r. a \notin Buyer /\ a \notin Webhook
    BY RolesAssumption
<1>1. CASE ReadLimit(a)
  <2> DEFINE h == [Idle EXCEPT !.pc = "count", !.limit = Limit(tenant, today)]
  <2>1. Limit(tenant, today) \in Nat
      BY LimitTyped, PlanAssumption DEF Typed, TypeOK
  <2>2. h \in Handler /\ Refers(a, h)
      BY <1>r, <2>1 DEF Idle, Handler, PC, Refers, ServePC, AddPC
  <2>3. QED
      BY <1>1, <1>p, <2>2, StepTyped DEF ReadLimit, Typed, TypeOK, plan, people, history
<1>2. CASE CountStaff(a)
  <2> DEFINE h == [proc[a] EXCEPT !.pc = "insert"]
  <2>1. h \in Handler /\ Refers(a, h)
      BY <1>2, <1>p, <1>r DEF CountStaff, At, Handler, PC, Refers, ServePC, AddPC
  <2>2. Step(a, h) \/ Return(a)
      BY <1>2 DEF CountStaff, Goto
  <2>3. proc' \in [Process -> Handler] /\ \A p \in Process : Refers(p, proc'[p])
      BY <1>p, <2>1, <2>2, StepTyped, ReturnTyped
  <2>4. QED
      BY <1>2, <2>3 DEF CountStaff, Typed, TypeOK, plan, people, history
<1>3. CASE InsertEmployee(a)
    BY <1>3, <1>p, ReturnTyped DEF InsertEmployee, Typed, TypeOK, plan, history
<1>4. QED
    BY <1>1, <1>2, <1>3

LEMMA TypedInit == Init => Typed
<1> SUFFICES ASSUME Init PROVE Typed
    OBVIOUS
<1>1. [state |-> "none", quota |-> 0] \in Purchase
    BY DEF Purchase
<1>2. [checkouts |-> 0, receipts |-> 0] \in Events
    BY DEF Events
<1>3. [plan |-> "starter", quota |-> Free, until |-> 0] \in Tenant
    BY PlanAssumption DEF Tenant
<1>4. session \in [Session -> Purchase] /\ logged \in [Session -> Events] /\ tenant \in Tenant
    BY <1>1, <1>2, <1>3 DEF Init
<1>5. proc \in [Process -> Handler] /\ \A p \in Process : Refers(p, proc[p])
    BY IdleTyped DEF Init
<1>6. QED
    BY <1>4, <1>5, PlanAssumption DEF Init, Typed, TypeOK

LEMMA TypedStep == Typed /\ [Next]_vars => Typed'
<1> SUFFICES ASSUME Typed, [Next]_vars PROVE Typed'
    OBVIOUS
<1>1. CASE UNCHANGED vars
    BY <1>1 DEF vars, plan, people, history, Typed, TypeOK
<1>2. ASSUME NEW s \in Session, Pay(s)
      PROVE  Typed'
    BY <1>2 DEF Pay, SetState, Typed, TypeOK, Purchase, plan, people, history
<1>3. ASSUME NEW q \in Quota, UpdateQuota(q)
      PROVE  Typed'
  <2>1. tenant' \in Tenant /\ ceiling' \in Nat
      BY <1>3, GrowthTyped, RaiseTyped, PlanAssumption DEF UpdateQuota
  <2>2. QED
      BY <1>3, <2>1 DEF UpdateQuota, Typed, TypeOK, people, history
<1>4. CASE Archive \/ Restore \/ Import
    BY <1>4 DEF Archive, Restore, Import, Typed, TypeOK, plan, people, history
<1>5. CASE NextDay
  <2>1. today + 1 \in 0 .. LastDay
      BY <1>5, PlanAssumption DEF NextDay, Typed, TypeOK
  <2>2. Limit(tenant, today + 1) \in Nat
      BY <2>1, LimitTyped DEF Typed, TypeOK
  <2>3. ceiling' \in Nat
      BY <1>5, <2>2, RaiseTyped DEF NextDay
  <2>4. QED
      BY <1>5, <2>1, <2>3 DEF NextDay, Typed, TypeOK, people, history
<1>6. ASSUME NEW p \in Process, Die(p)
      PROVE  Typed'
    BY <1>6, ReturnTyped, PlanAssumption DEF Die, Typed, TypeOK, plan, people, history
<1>7. QED
    BY <1>1, <1>2, <1>3, <1>4, <1>5, <1>6, CheckoutTyped, DeliverTyped, ServeTyped,
       AdderTyped DEF Next

\* Every state of the subscription has the type TypeOK states.
THEOREM TypeCorrect == Spec => []TypeOK
<1>1. Typed => TypeOK
    BY DEF Typed
<1>2. QED
    BY <1>1, TypedInit, TypedStep, PTL DEF Spec

THEOREM TypedHolds == Spec => []Typed
BY TypedInit, TypedStep, PTL DEF Spec

-----------------------------------------------------------------------------
(* Receipts.  A delivery writes the receipt after the update; and the only   *)
(* one of its session has found no receipt until it writes one.              *)

Once == Session \ doubled

Alone == \A v, w \in Webhook : Mine(v) = Mine(w) /\ Mine(v) \in Once => v = w

Unreceipted ==
    \A w \in Webhook :
        proc[w].pc \in {"activate", "receipt"} /\ Mine(w) \in Once
            => logged[Mine(w)].receipts = 0

Updated == \A w \in Webhook : At(w, "receipt") => Mine(w) \in served

Settling == Alone /\ Unreceipted /\ Updated /\ OneReceipt /\ ReceiptIsService

\* A step that leaves the receipts and the deliveries alone.
LEMMA ElsewhereSettling ==
    ASSUME Typed, Settling, UNCHANGED <<served, doubled>>,
           \A s \in Session : logged'[s].receipts = logged[s].receipts,
           \A w \in Webhook : proc'[w] = proc[w] \/ proc'[w] = Idle
    PROVE  Settling'
<1>w. \A w \in Webhook : proc'[w].pc \in {"activate", "receipt"} =>
                           proc'[w] = proc[w] /\ proc[w].session \in Session
    BY DEF Typed, Refers, Process, Idle, ServePC
<1>1. Alone'
    BY SessionAssumption DEF Settling, Alone, Mine, Idle, Once
<1>2. Unreceipted'
    BY <1>w DEF Settling, Unreceipted, Mine, Once
<1>3. Updated'
    BY <1>w DEF Settling, Updated, Mine, At
<1>4. OneReceipt' /\ ReceiptIsService'
    BY DEF Settling, OneReceipt, ReceiptIsService
<1>5. QED
    BY <1>1, <1>2, <1>3, <1>4 DEF Settling

\* A delivery to a second handler is noted.
LEMMA DeliverSettling ==
    ASSUME Typed, Settling, NEW w \in Webhook, NEW s \in Session, Deliver(w, s)
    PROVE  Settling'
<1> DEFINE h == [Idle EXCEPT !.pc = "seen", !.session = s]
<1>1. w \in Process /\ Step(w, h) /\ h.pc = "seen" /\ h.session = s
    BY IdleTyped DEF Deliver, Process, Handler
<1>2. proc'[w].pc = "seen" /\ proc'[w].session = s /\ \A v \in Webhook \ {w} : proc'[v] = proc[v]
    BY <1>1 DEF Step, Typed, TypeOK, Process
<1>3. Once' \subseteq Once /\ (s \in Once' => \A v \in Webhook : Mine(v) # s)
    BY DEF Deliver, BeingServed, Once
<1>4. logged' = logged /\ served' = served
    BY DEF Deliver
<1>5. Alone'
    BY <1>2, <1>3 DEF Settling, Alone, Mine
<1>6. Unreceipted' /\ Updated'
    BY <1>2, <1>3, <1>4 DEF Settling, Unreceipted, Updated, Mine, At
<1>7. OneReceipt' /\ ReceiptIsService'
    BY <1>3, <1>4 DEF Settling, OneReceipt, ReceiptIsService, Once
<1>8. QED
    BY <1>5, <1>6, <1>7 DEF Settling

LEMMA ServeSettling ==
    ASSUME Typed, Settling, NEW w \in Webhook, Serve(w)
    PROVE  Settling'
<1>p. w \in Process /\ proc[w] \in Handler /\ Refers(w, proc[w])
    BY DEF Typed, TypeOK, Process
<1>s. Mine(w) \in Session
    BY <1>p DEF Serve, CheckSeen, Activate, WriteReceipt, Reply, At, ServePC, Refers, Mine
<1>d. Once' = Once
    BY DEF Serve, CheckSeen, Activate, WriteReceipt, Reply, history, Once
<1>o. Mine(w) \in Once => \A v \in Webhook \ {w} : Mine(v) # Mine(w)
    BY DEF Settling, Alone
<1>g. ASSUME NEW pc, Goto(w, pc)
      PROVE  /\ proc'[w].pc = pc /\ proc'[w].session = proc[w].session
             /\ \A v \in Webhook \ {w} : proc'[v] = proc[v]
    BY <1>p, <1>g DEF Goto, Step, Typed, TypeOK, Process, Handler
<1>1. CASE CheckSeen(w)
  <2>1. \/ Goto(w, "reply")
        \/ Goto(w, "activate") /\ ~(logged[Mine(w)].receipts > 0)
      BY <1>1 DEF CheckSeen
  <2>2. logged[Mine(w)].receipts \in Nat
      BY <1>s DEF Typed, TypeOK, Events
  <2>3. UNCHANGED <<logged, served, doubled>>
      BY <1>1 DEF CheckSeen, history
  <2>4. Alone' /\ Updated'
      BY <1>d, <1>g, <2>1, <2>3 DEF Settling, Alone, Updated, Mine, At
  <2>5. Unreceipted'
      BY <1>d, <1>g, <2>1, <2>2, <2>3 DEF Settling, Unreceipted, Mine
  <2>6. QED
      BY <2>3, <2>4, <2>5 DEF Settling, OneReceipt, ReceiptIsService
<1>2. CASE Activate(w)
  <2>1. /\ proc[w].pc = "activate" /\ Goto(w, "receipt")
        /\ logged' = logged /\ served' = served \cup {Mine(w)} /\ doubled' = doubled
      BY <1>2 DEF Activate, At
  <2>2. Alone' /\ Updated' /\ Unreceipted'
      BY <1>d, <1>g, <2>1 DEF Settling, Alone, Updated, Unreceipted, Mine, At
  <2>3. QED
      BY <2>1, <2>2 DEF Settling, OneReceipt, ReceiptIsService
<1>3. CASE WriteReceipt(w)
  <2>1. /\ proc[w].pc = "receipt" /\ Goto(w, "reply") /\ UNCHANGED <<served, doubled>>
        /\ logged' = [logged EXCEPT ![Mine(w)].receipts = logged[Mine(w)].receipts + 1]
      BY <1>3 DEF WriteReceipt, At, history
  <2>2. Mine(w) \in served /\ (Mine(w) \in Once => logged[Mine(w)].receipts = 0)
      BY <2>1 DEF Settling, Unreceipted, Updated, At
  <2>3. /\ Mine(w) \in Once => logged'[Mine(w)].receipts = 1
        /\ \A s \in Session \ {Mine(w)} : logged'[s] = logged[s]
      BY <1>s, <2>1, <2>2 DEF Typed, TypeOK, Events
  <2>4. Alone' /\ Updated'
      BY <1>d, <1>g, <2>1 DEF Settling, Alone, Updated, Mine, At
  <2>5. ASSUME NEW v \in Webhook, proc'[v].pc \in {"activate", "receipt"}, Mine(v)' \in Once
        PROVE  logged'[Mine(v)'].receipts = 0
    <3>1. v # w /\ proc'[v] = proc[v]
        BY <1>g, <2>1, <2>5
    <3>2. Mine(v)' = Mine(v) /\ Mine(v) \in Session \ {Mine(w)}
        BY <1>o, <2>5, <3>1 DEF Mine, Once
    <3>3. QED
        BY <2>3, <2>5, <3>1, <3>2 DEF Settling, Unreceipted
  <2>6. Unreceipted'
      BY <1>d, <2>5 DEF Unreceipted
  <2>7. OneReceipt'
    <3>1. OneReceipt /\ Session \ doubled = Once
        BY DEF Settling, Once
    <3>2. QED
        BY <2>1, <2>3, <3>1 DEF OneReceipt
  <2>8. ReceiptIsService'
      BY <2>1, <2>2, <2>3 DEF Settling, ReceiptIsService
  <2>9. QED
      BY <2>4, <2>6, <2>7, <2>8 DEF Settling
<1>4. CASE Reply(w)
  <2>1. \A v \in Webhook : proc'[v] = proc[v] \/ proc'[v] = Idle
      BY <1>p, <1>4 DEF Reply, Return, Step, Typed, TypeOK, Process
  <2>2. QED
      BY <1>4, <2>1, ElsewhereSettling DEF Reply, history
<1>5. QED
    BY <1>1, <1>2, <1>3, <1>4 DEF Serve

LEMMA SettlingInit == Init => Settling
BY SessionAssumption
   DEF Init, Idle, Settling, Alone, Unreceipted, Updated, OneReceipt, ReceiptIsService, Once, Mine,
       At, Process

LEMMA SettlingStep == Typed /\ Settling /\ [Next]_vars => Settling'
<1> SUFFICES ASSUME Typed, Settling, [Next]_vars PROVE Settling'
    OBVIOUS
<1>1. ASSUME NEW p \in Process \ Webhook, NEW h, Step(p, h)
      PROVE  \A w \in Webhook : proc'[w] = proc[w]
    BY <1>1 DEF Step, Typed, TypeOK, Process
<1>2. ASSUME NEW b \in Buyer,
             LogCheckout(b) \/ \E s \in Session, q \in Quota : CreateSession(b, s, q)
      PROVE  Settling'
  <2>1. \A w \in Webhook : proc'[w] = proc[w]
      BY <1>1, <1>2, RolesAssumption DEF LogCheckout, CreateSession, Return, Process
  <2>2. \A s \in Session : logged'[s].receipts = logged[s].receipts
      BY <1>2 DEF LogCheckout, CreateSession, Typed, TypeOK, Events
  <2>3. UNCHANGED <<served, doubled>>
      BY <1>2 DEF LogCheckout, CreateSession, history
  <2>4. QED
      BY <2>1, <2>2, <2>3, ElsewhereSettling
<1>3. ASSUME NEW a \in Adder, ReadLimit(a) \/ CountStaff(a) \/ InsertEmployee(a)
      PROVE  Settling'
  <2>1. \A w \in Webhook : proc'[w] = proc[w]
      BY <1>1, <1>3, RolesAssumption DEF ReadLimit, CountStaff, InsertEmployee, Goto, Return, Process
  <2>2. UNCHANGED <<logged, served, doubled>>
      BY <1>3 DEF ReadLimit, CountStaff, InsertEmployee, history
  <2>3. QED
      BY <2>1, <2>2, ElsewhereSettling
<1>4. ASSUME NEW p \in Process, Die(p)
      PROVE  Settling'
  <2>1. \A w \in Webhook : proc'[w] = proc[w] \/ proc'[w] = Idle
      BY <1>4 DEF Die, Return, Step, Typed, TypeOK, Process
  <2>2. QED
      BY <1>4, <2>1, ElsewhereSettling DEF Die, history
<1>5. ASSUME UNCHANGED <<proc, logged, served, doubled>>
      PROVE  Settling'
    BY <1>5, ElsewhereSettling
<1>6. CASE \/ \E s \in Session : Pay(s)
           \/ \E q \in Quota : UpdateQuota(q)
           \/ Archive \/ Restore \/ Import \/ NextDay \/ UNCHANGED vars
    BY <1>5, <1>6 DEF Pay, UpdateQuota, Archive, Restore, Import, NextDay, vars, history
<1>7. QED
    BY <1>2, <1>3, <1>4, <1>6, DeliverSettling, ServeSettling DEF Next

\* A payment has one receipt at most, wherever handlers die and however often
\* Stripe tries again, unless it was delivered while a handler was at it.
THEOREM OneReceiptAlways == Spec => []OneReceipt
<1>1. Settling => OneReceipt
    BY DEF Settling
<1>2. Settling /\ Typed /\ [Next]_vars => Settling'
    BY SettlingStep
<1>3. QED
    BY <1>1, <1>2, SettlingInit, TypedHolds, PTL DEF Spec

\* A session with a receipt was served, however its deliveries overlap.
THEOREM ReceiptIsServiceAlways == Spec => []ReceiptIsService
<1>1. Settling => ReceiptIsService
    BY DEF Settling
<1>2. Settling /\ Typed /\ [Next]_vars => Settling'
    BY SettlingStep
<1>3. QED
    BY <1>1, <1>2, SettlingInit, TypedHolds, PTL DEF Spec

-----------------------------------------------------------------------------
(* Seats.  Whoever is about to insert an employee has found a seat below the *)
(* highest limit so far; only the others on their way can have taken it.     *)

Inserting == {a \in Adder : At(a, "insert")}

Seated ==
    /\ Limit(tenant, today) <= ceiling
    /\ Free <= ceiling
    /\ \A a \in Adder : proc[a].limit <= ceiling
    /\ staff + Cardinality(Inserting) <= ceiling + unchecked + Cardinality(Adder) - 1

LEMMA InsertingFinite ==
    /\ IsFiniteSet(Inserting)
    /\ Cardinality(Inserting) \in Nat
    /\ Cardinality(Adder) \in Nat \ {0}
    /\ Cardinality(Inserting) <= Cardinality(Adder)
<1>1. Inserting \subseteq Adder
    BY DEF Inserting
<1>2. IsFiniteSet(Inserting) /\ Cardinality(Inserting) <= Cardinality(Adder)
    BY <1>1, RolesAssumption, FS_Subset
<1>3. Cardinality(Adder) # 0
    BY RolesAssumption, FS_EmptySet
<1>4. Cardinality(Inserting) \in Nat /\ Cardinality(Adder) \in Nat
    BY <1>2, RolesAssumption, FS_CardinalityType
<1>5. QED
    BY <1>2, <1>3, <1>4

LEMMA RaiseCeiling ==
    ASSUME Typed, NEW limit \in Nat, Raise(limit)
    PROVE  limit <= ceiling' /\ ceiling <= ceiling' /\ ceiling' \in Nat
BY DEF Typed, TypeOK, Raise

\* Fewer at their insert, a higher ceiling, and no more staff than is excused.
LEMMA Balance ==
    ASSUME NEW s \in Nat, NEW t \in Nat, NEW u \in Nat, NEW v \in Nat, NEW l \in Nat, NEW h \in Nat,
           NEW m \in Nat, NEW n \in Nat, NEW k \in Nat,
           s + m <= l + u + k - 1, n <= m, l <= h, t - v <= s - u
    PROVE  t + n <= h + v + k - 1
OBVIOUS

\* A step of the others raises the ceiling or leaves it; nobody new inserts.
LEMMA ElsewhereSeated ==
    ASSUME Typed, Seated, ceiling' \in Nat, ceiling <= ceiling',
           Limit(tenant', today') <= ceiling',
           staff' \in Nat, unchecked' \in Nat, staff' - unchecked' <= staff - unchecked,
           \A a \in Adder : proc'[a] = proc[a] \/ proc'[a] = Idle
    PROVE  Seated'
<1>1. Inserting' \subseteq Inserting
    BY DEF Inserting, At, Idle
<1>2. Cardinality(Inserting') <= Cardinality(Inserting) /\ Cardinality(Inserting') \in Nat
    BY <1>1, InsertingFinite, FS_Subset, FS_CardinalityType
<1>3. staff' + Cardinality(Inserting') <= ceiling' + unchecked' + Cardinality(Adder) - 1
  <2> DEFINE m == Cardinality(Inserting) n == Cardinality(Inserting') k == Cardinality(Adder)
  <2>1. m \in Nat /\ n \in Nat /\ k \in Nat /\ n <= m
      BY <1>2, InsertingFinite
  <2>2. staff + m <= ceiling + unchecked + k - 1
      BY DEF Seated
  <2>3. staff \in Nat /\ unchecked \in Nat /\ ceiling \in Nat
      BY DEF Typed, TypeOK
  <2> HIDE DEF m, n, k
  <2>4. staff' + n <= ceiling' + unchecked' + k - 1
      BY <2>1, <2>2, <2>3, Balance
  <2>5. QED
      BY <2>4 DEF n, k
<1>4. \A a \in Adder : proc'[a].limit <= ceiling'
  <2> SUFFICES ASSUME NEW a \in Adder PROVE proc'[a].limit <= ceiling'
      OBVIOUS
  <2>1. CASE proc'[a] = proc[a]
      BY <2>1 DEF Seated, Typed, TypeOK, Process, Handler
  <2>2. CASE proc'[a] = Idle
      BY <2>2 DEF Idle
  <2>3. QED
      BY <2>1, <2>2
<1>5. Free <= ceiling'
    BY PlanAssumption DEF Seated, Typed, TypeOK
<1>6. QED
    BY <1>3, <1>4, <1>5 DEF Seated

LEMMA SeatedInit == Init => Seated
<1> SUFFICES ASSUME Init PROVE Seated
    OBVIOUS
<1>1. Inserting = {}
    BY DEF Init, Inserting, At, Idle, Process
<1>2. Cardinality(Inserting) = 0
    BY <1>1, FS_EmptySet
<1>3. Limit(tenant, today) = Free
    BY DEF Init, Limit
<1>4. \A a \in Adder : proc[a].limit = 0
    BY DEF Init, Idle, Process
<1>5. staff \in Nat /\ staff <= Free /\ ceiling = Free /\ unchecked = 0
    BY PlanAssumption DEF Init
<1>6. QED
    BY <1>2, <1>3, <1>4, <1>5, InsertingFinite, PlanAssumption DEF Seated

LEMMA AdderSeated ==
    ASSUME Typed, Seated, NEW a \in Adder, ReadLimit(a) \/ CountStaff(a) \/ InsertEmployee(a)
    PROVE  Seated'
<1>p. a \in Process /\ proc[a] \in Handler
    BY DEF Typed, TypeOK, Process
<1>t. staff \in Nat /\ unchecked \in Nat /\ ceiling \in Nat /\ Limit(tenant, today) \in Nat
    BY LimitTyped, PlanAssumption DEF Typed, TypeOK
<1>o. ASSUME NEW h, Step(a, h)
      PROVE  proc'[a] = h /\ \A b \in Adder \ {a} : proc'[b] = proc[b]
    BY <1>o, <1>p DEF Step, Typed, TypeOK, Process
<1>1. CASE ReadLimit(a)
  <2> DEFINE h == [Idle EXCEPT !.pc = "count", !.limit = Limit(tenant, today)]
  <2>1. h.pc = "count" /\ h.limit = Limit(tenant, today)
      BY IdleTyped DEF Handler
  <2>2. Step(a, h)
      BY <1>1 DEF ReadLimit
  <2>3. proc'[a] = h /\ \A b \in Adder \ {a} : proc'[b] = proc[b]
      BY <1>o, <2>2
  <2>4. \A b \in Adder : proc'[b].limit <= ceiling
      BY <2>1, <2>3 DEF Seated
  <2>5. ~At(a, "insert") /\ ~At(a, "insert")'
      BY <1>1, <2>1, <2>3 DEF ReadLimit, At
  <2>6. Inserting' = Inserting
      BY <2>3, <2>5 DEF Inserting, At
  <2>7. QED
      BY <1>1, <2>4, <2>6 DEF ReadLimit, Seated, plan, people
<1>2. CASE CountStaff(a) /\ staff < proc[a].limit
  <2> DEFINE m == Cardinality(Inserting') k == Cardinality(Adder)
  <2> DEFINE h == [proc[a] EXCEPT !.pc = "insert"]
  <2>1. Step(a, h) /\ h.limit = proc[a].limit
      BY <1>p, <1>2 DEF CountStaff, Goto, Handler
  <2>2. proc'[a] = h /\ \A b \in Adder \ {a} : proc'[b] = proc[b]
      BY <1>o, <2>1
  <2>3. \A b \in Adder : proc'[b].limit <= ceiling
      BY <2>1, <2>2 DEF Seated
  <2>4. Inserting' \subseteq Adder
      BY DEF Inserting
  <2>5. m \in Nat /\ k \in Nat /\ m <= k
      BY <2>4, RolesAssumption, FS_Subset, FS_CardinalityType
  <2>6. staff < ceiling
      BY <1>p, <1>t, <1>2 DEF Seated, Handler
  <2> HIDE DEF m, k
  <2>7. staff + m <= ceiling + unchecked + k - 1
      BY <1>t, <2>5, <2>6
  <2>8. QED
      BY <1>2, <2>3, <2>7 DEF CountStaff, Seated, plan, people, m, k
<1>3. CASE CountStaff(a) /\ ~(staff < proc[a].limit)
  <2>1. \A b \in Adder : proc'[b] = proc[b] \/ proc'[b] = Idle
      BY <1>o, <1>3 DEF CountStaff, Return
  <2>2. QED
      BY <1>t, <1>3, <2>1, ElsewhereSeated DEF CountStaff, Seated, plan, people
<1>4. CASE InsertEmployee(a)
  <2>1. proc'[a] = Idle /\ \A b \in Adder \ {a} : proc'[b] = proc[b]
      BY <1>o, <1>4 DEF InsertEmployee, Return
  <2>2. a \in Inserting /\ Inserting' = Inserting \ {a}
      BY <1>4, <2>1 DEF InsertEmployee, Inserting, At, Idle
  <2>3. Cardinality(Inserting') = Cardinality(Inserting) - 1
      BY <2>2, InsertingFinite, FS_RemoveElement
  <2>4. \A b \in Adder : proc'[b].limit <= ceiling
      BY <1>t, <2>1 DEF Seated, Idle
  <2>5. /\ staff' = staff + 1
        /\ UNCHANGED <<tenant, today, ceiling, unchecked>>
      BY <1>4 DEF InsertEmployee, plan
  <2>6. QED
      BY <1>t, <2>3, <2>4, <2>5, InsertingFinite DEF Seated
<1>5. QED
    BY <1>1, <1>2, <1>3, <1>4

LEMMA SeatedStep == Typed /\ Seated /\ [Next]_vars => Seated'
<1> SUFFICES ASSUME Typed, Seated, [Next]_vars PROVE Seated'
    OBVIOUS
<1>t. staff \in Nat /\ unchecked \in Nat /\ ceiling \in Nat /\ today \in Nat
    BY PlanAssumption DEF Typed, TypeOK
<1>l. Limit(tenant, today) <= ceiling
    BY DEF Seated
<1>1. ASSUME NEW p \in Process \ Adder, NEW h, Step(p, h)
      PROVE  \A a \in Adder : proc'[a] = proc[a]
    BY <1>1 DEF Step, Typed, TypeOK, Process
<1>2. ASSUME NEW b \in Buyer,
             LogCheckout(b) \/ \E s \in Session, q \in Quota : CreateSession(b, s, q)
      PROVE  Seated'
  <2>1. \A a \in Adder : proc'[a] = proc[a]
      BY <1>1, <1>2, RolesAssumption DEF LogCheckout, CreateSession, Return, Process
  <2>2. UNCHANGED <<tenant, today, ceiling, staff, unchecked>>
      BY <1>2 DEF LogCheckout, CreateSession, plan, people
  <2>3. QED
      BY <1>t, <1>l, <2>1, <2>2, ElsewhereSeated
<1>g. ASSUME NEW q \in Nat, tenant' = Growth(q), Raise(q), UNCHANGED <<today, staff, unchecked>>,
             \A a \in Adder : proc'[a] = proc[a]
      PROVE  Seated'
  <2>1. Limit(tenant', today') = q
      BY <1>t, <1>g, PlanAssumption DEF Growth, Limit
  <2>2. q <= ceiling' /\ ceiling <= ceiling' /\ ceiling' \in Nat
      BY <1>g, RaiseCeiling
  <2>3. QED
      BY <1>t, <1>g, <2>1, <2>2, ElsewhereSeated
<1>3. ASSUME NEW w \in Webhook, Serve(w) \/ \E s \in Session : Deliver(w, s)
      PROVE  Seated'
  <2>p. w \in Process \ Adder
      BY RolesAssumption DEF Process
  <2>1. \A a \in Adder : proc'[a] = proc[a]
      BY <1>1, <1>3, <2>p
      DEF Serve, CheckSeen, Activate, WriteReceipt, Reply, Deliver, Goto, Return
  <2>2. CASE Activate(w)
    <3>1. Mine(w) \in Session
        BY <2>2, <2>p DEF Activate, At, Mine, Typed, Refers, ServePC
    <3>2. session[Mine(w)].quota \in Nat
        BY <3>1 DEF Typed, TypeOK, Purchase
    <3>3. QED
        BY <1>g, <2>1, <2>2, <3>2 DEF Activate, people
  <2>3. CASE UNCHANGED <<tenant, today, ceiling, staff, unchecked>>
      BY <1>t, <1>l, <2>1, <2>3, ElsewhereSeated
  <2>4. QED
      BY <1>3, <2>2, <2>3 DEF Serve, CheckSeen, WriteReceipt, Reply, Deliver, plan, people
<1>4. ASSUME NEW p \in Process, Die(p)
      PROVE  Seated'
  <2>1. \A a \in Adder : proc'[a] = proc[a] \/ proc'[a] = Idle
      BY <1>4 DEF Die, Return, Step, Typed, TypeOK, Process
  <2>2. UNCHANGED <<tenant, today, ceiling, staff, unchecked>>
      BY <1>4 DEF Die, plan, people
  <2>3. QED
      BY <1>t, <1>l, <2>1, <2>2, ElsewhereSeated
<1>5. ASSUME NEW q \in Quota, UpdateQuota(q)
      PROVE  Seated'
    BY <1>g, <1>5, PlanAssumption DEF UpdateQuota, people
<1>6. CASE Archive \/ Restore \/ Import
    BY <1>t, <1>l, <1>6, ElsewhereSeated DEF Archive, Restore, Import, plan
<1>7. CASE NextDay
  <2>1. today + 1 \in Nat /\ Limit(tenant, today + 1) \in Nat
      BY <1>t, LimitTyped DEF Typed, TypeOK
  <2>2. /\ Limit(tenant', today') = Limit(tenant, today + 1)
        /\ UNCHANGED <<staff, unchecked, proc>>
      BY <1>7 DEF NextDay, people
  <2>3. Limit(tenant', today') <= ceiling' /\ ceiling <= ceiling' /\ ceiling' \in Nat
      BY <1>7, <2>1, <2>2, RaiseCeiling DEF NextDay
  <2>4. QED
      BY <1>t, <2>2, <2>3, ElsewhereSeated
<1>8. CASE (\E s \in Session : Pay(s)) \/ UNCHANGED vars
  <2>1. UNCHANGED <<tenant, today, ceiling, staff, unchecked, proc>>
      BY <1>8 DEF Pay, vars, plan, people
  <2>2. QED
      BY <1>t, <1>l, <2>1, ElsewhereSeated
<1>9. QED
    BY <1>2, <1>3, <1>4, <1>5, <1>6, <1>7, <1>8, AdderSeated DEF Next

\* However many employees are added at the same time, and whatever happens to
\* the capacity meanwhile, the staff stays below the highest limit so far plus
\* the others on their way and those nobody checked.
THEOREM SeatsBoundedAlways == Spec => []SeatsBounded
<1>1. Typed /\ Seated => SeatsBounded
  <2> SUFFICES ASSUME Typed, Seated PROVE SeatsBounded
      OBVIOUS
  <2> DEFINE m == Cardinality(Inserting) k == Cardinality(Adder)
  <2>1. m \in Nat /\ k \in Nat /\ staff + m <= ceiling + unchecked + k - 1
      BY InsertingFinite DEF Seated
  <2>2. staff \in Nat /\ unchecked \in Nat /\ ceiling \in Nat
      BY DEF Typed, TypeOK
  <2> HIDE DEF m, k
  <2>3. staff <= ceiling + unchecked + k - 1
      BY <2>1, <2>2
  <2>4. QED
      BY <2>3 DEF SeatsBounded, k
<1>2. QED
    BY <1>1, SeatedInit, SeatedStep, TypedHolds, PTL DEF Spec
=============================================================================
