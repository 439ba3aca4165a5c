-------------------------------- MODULE Leave --------------------------------
(* Leave of one employee, one leave type and one year: requests, decisions   *)
(* and cancellations of the main backend and of the employee portal, the     *)
(* balance row, HR's adjustments of it, and the cached balance.              *)
(*                                                                           *)
(* Every await is a statement of its own at READ COMMITTED; the only         *)
(* transaction is the one that deletes an adjustment.  A request handler is  *)
(* a process that takes one statement at a time, and may die in between.     *)
(* Only days that count are numbered, so a leave takes as many days as its   *)
(* range is long.                                                            *)
EXTENDS Integers, FiniteSets, FiniteSetsExt

CONSTANTS
    Leave,          \* leave requests that may be submitted
    NoLeave,        \* a handler with no request at hand
    Adj,            \* adjustments HR may make
    NoAdj,          \* a handler with no adjustment at hand
    Creator,        \* main backend: POST /leave
    Decider,        \* main backend: POST /leave/:id/approve, /cancel
    Adjuster,       \* main backend: adjust the balance, delete an adjustment
    PortalUser,     \* portal: POST /leave/:id/approve, /cancel
    PortalRoutes,   \* what the portal is used for
    LastDay,        \* bound: days of the year
    Yearly,         \* daysPerYear of the policy
    Carry,          \* days that may be carried forward into the year
    Delta,          \* amounts of an adjustment
    Opened,         \* whether the balance row is there from the start
    Caching,        \* whether there is a Redis to cache balances in
    MaxFaults       \* bound: handlers that die

ASSUME FiniteAssumption == IsFiniteSet(Leave) /\ IsFiniteSet(Adj)
ASSUME NothingAssumption == NoLeave \notin Leave /\ NoAdj \notin Adj
ASSUME RolesAssumption ==
    /\ Creator \cap (Decider \cup Adjuster \cup PortalUser) = {}
    /\ Decider \cap (Adjuster \cup PortalUser) = {}
    /\ Adjuster \cap PortalUser = {}
ASSUME YearAssumption ==
    /\ PortalRoutes \subseteq {"create", "decide"}
    /\ LastDay \in Nat
    /\ Yearly \in Nat
    /\ Carry \subseteq Nat
    /\ Delta \subseteq Int
    /\ Opened \in BOOLEAN
    /\ Caching \in BOOLEAN
    /\ MaxFaults \in Nat

VARIABLES
    request,    \* rows of leave_requests
    row,        \* the row of leave_balances
    log,        \* rows of leave_adjustments
    cache,      \* {}, or the balance that is cached
    proc,       \* handlers: program counter and locals
    faults,     \* handlers that died so far
    \* History, for what the code leaves to chance:
    unchecked,  \* requests not checked against all others, or revived later
    crowd,      \* creators that were not alone, or were shown a cached balance
    highest,    \* the most days the employee was ever entitled to
    astray      \* columns of the row that handlers may have got wrong

tables == <<request, row, log>>
history == <<unchecked, crowd, highest, astray>>
vars == <<tables, cache, proc, faults, history>>

Process == Creator \cup Decider \cup Adjuster \cup PortalUser
Date == 0 .. LastDay

Status == {"none", "pending", "approved", "rejected", "cancelled"}
Request == [status : Status, first : Date, last : Date]
Row == [exists : BOOLEAN, accrued : Nat, carried : Nat, taken : Nat, adjustment : Int]
\* A balance: what the row gives and the requests that use it.
Balance == [entitled : Int, used : SUBSET Leave]
Entry == [state : {"none", "live", "deleted"}, delta : Int]

PC == {"idle", "check", "usage", "row", "insert", "decide", "take", "cancel",
       "restore", "write", "log", "undo", "overwrite"}

\* status: the status a handler has read, or is going to write.
Handler == [pc : PC, leave : Leave \cup {NoLeave}, first : Date, last : Date,
            status : Status, used : SUBSET Leave,
            adj : Adj \cup {NoAdj}, delta : Int, known : BOOLEAN, total : Int]

NoRequest == [status |-> "none", first |-> 0, last |-> 0]
NoRow == [exists |-> FALSE, accrued |-> 0, carried |-> 0, taken |-> 0, adjustment |-> 0]
NoEntry == [state |-> "none", delta |-> 0]
Idle == [pc |-> "idle", leave |-> NoLeave, first |-> 0, last |-> 0,
         status |-> "none", used |-> {},
         adj |-> NoAdj, delta |-> 0, known |-> FALSE, total |-> 0]

\* The row the year-end rollover opens a year with.
OpeningRow(carried) ==
    [exists |-> TRUE, accrued |-> Yearly, carried |-> carried, taken |-> 0, adjustment |-> 0]

TypeOK ==
    /\ request \in [Leave -> Request]
    /\ row \in Row
    /\ log \in [Adj -> Entry]
    /\ cache \subseteq Balance
    /\ proc \in [Process -> Handler]
    /\ faults \in 0 .. MaxFaults
    /\ unchecked \subseteq Leave
    /\ crowd \subseteq Process
    /\ highest \in Int
    /\ astray \subseteq {"taken", "adjustment"}

-----------------------------------------------------------------------------
(* Helpers.                                                                  *)

At(p, pc) == proc[p].pc = pc
Step(p, handler) == proc' = [proc EXCEPT ![p] = handler]
Goto(p, pc) == Step(p, [proc[p] EXCEPT !.pc = pc])
Return(p) == Step(p, Idle)

NotNegative(n) == IF n > 0 THEN n ELSE 0

Days(first, last) == NotNegative(last - first + 1)
DaysOf(l) == Days(request[l].first, request[l].last)
SumDays(leaves) == SumFunction([l \in leaves |-> DaysOf(l)])

Approved == {l \in Leave : request[l].status = "approved"}
Active == {l \in Leave : request[l].status \in {"pending", "approved"}}
Checked == Active \ unchecked

Meets(l, first, last) == request[l].first <= last /\ first <= request[l].last

\* Without a balance row the policy alone counts; with one, the row alone.
Entitled ==
    IF row.exists THEN row.accrued + row.carried + row.adjustment ELSE Yearly

\* What is left of a balance.
Available(balance) == NotNegative(balance.entitled - SumDays(balance.used))

Higher(a, b) == IF a > b THEN a ELSE b

SetStatus(l, s) == request' = [request EXCEPT ![l].status = s]

Init ==
    /\ request = [l \in Leave |-> NoRequest]
    /\ IF Opened THEN \E carried \in Carry : row = OpeningRow(carried) ELSE row = NoRow
    /\ log = [a \in Adj |-> NoEntry]
    /\ cache = {}
    /\ proc = [p \in Process |-> Idle]
    /\ faults = 0
    /\ unchecked = {} /\ crowd = {} /\ highest = Entitled /\ astray = {}

-----------------------------------------------------------------------------
(* getLeaveBalance, called with a cache miss at "usage".                     *)

\* Whether a creator's request still fits.
Fits(p, balance) == Days(proc[p].first, proc[p].last) <= Available(balance)

CheckCached(p) ==
    /\ At(p, "check")
    /\ cache # {}
    /\ \E balance \in cache :
         IF Fits(p, balance) THEN Goto(p, "insert") ELSE Return(p)
    /\ crowd' = crowd \cup {p}
    /\ UNCHANGED <<tables, cache, faults, unchecked, highest, astray>>

MissCache(p) ==
    /\ At(p, "check")
    /\ cache = {}
    /\ Goto(p, "usage")
    /\ UNCHANGED <<tables, cache, faults, history>>

\* Mutant: pending requests are not counted.
ReadTaken(p) ==
    /\ At(p, "usage")
    /\ Step(p, [proc[p] EXCEPT !.used = Approved, !.pc = "row"])
    /\ UNCHANGED <<tables, cache, faults, history>>

ReadUsage(p) ==
    /\ At(p, "usage")
    /\ Step(p, [proc[p] EXCEPT !.used = Active, !.pc = "row"])
    /\ UNCHANGED <<tables, cache, faults, history>>

\* Only a creator goes on; everybody else wanted to see the balance.
ReadRow(p) ==
    /\ At(p, "row")
    /\ LET balance == [entitled |-> Entitled, used |-> proc[p].used] IN
         /\ cache' = IF Caching THEN {balance} ELSE {}
         /\ IF p \in Creator /\ Fits(p, balance) THEN Goto(p, "insert") ELSE Return(p)
    /\ UNCHANGED <<tables, faults, history>>

GetLeaveBalance(p) == CheckCached(p) \/ MissCache(p) \/ ReadUsage(p) \/ ReadRow(p)

\* The cached balance is forgotten after two minutes.
Expire ==
    /\ cache # {}
    /\ cache' = {}
    /\ UNCHANGED <<tables, proc, faults, history>>

-----------------------------------------------------------------------------
(* createLeaveRequest.                                                       *)

\* Requests being submitted besides c's.
Busy(c) == {o \in Creator \ {c} : ~At(o, "idle")}

NoteCrowd(c) == crowd' = IF Busy(c) = {} THEN crowd \ {c} ELSE crowd \cup Busy(c) \cup {c}

\* Mutant: only pending requests are looked at.
CheckPendingOverlap(c, first, last) ==
    /\ At(c, "idle")
    /\ first <= last
    /\ \A l \in Active \ Approved : ~Meets(l, first, last)
    /\ Step(c, [Idle EXCEPT !.pc = "check", !.first = first, !.last = last])
    /\ NoteCrowd(c)
    /\ UNCHANGED <<tables, cache, faults, unchecked, highest, astray>>

CheckOverlap(c, first, last) ==
    /\ At(c, "idle")
    /\ first <= last
    /\ \A l \in Active : ~Meets(l, first, last)
    /\ Step(c, [Idle EXCEPT !.pc = "check", !.first = first, !.last = last])
    /\ NoteCrowd(c)
    /\ UNCHANGED <<tables, cache, faults, unchecked, highest, astray>>

InsertRequest(c, l) ==
    /\ At(c, "insert")
    /\ request[l].status = "none"
    /\ request' = [request EXCEPT ![l] =
                     [status |-> "pending", first |-> proc[c].first, last |-> proc[c].last]]
    /\ Return(c)
    /\ unchecked' = IF c \in crowd THEN unchecked \cup {l} ELSE unchecked
    /\ crowd' = crowd \ {c}
    /\ UNCHANGED <<row, log, cache, faults, highest, astray>>

Create(c) ==
    \/ \E first, last \in 1 .. LastDay : CheckOverlap(c, first, last)
    \/ GetLeaveBalance(c)
    \/ \E l \in Leave : InsertRequest(c, l)

-----------------------------------------------------------------------------
(* approveLeave: the decision is made by an UPDATE of a pending request, the *)
(* balance follows in a statement of its own.                                *)

\* A column that another handler is at work on.
Note(column, clash) == astray' = IF clash THEN astray \cup {column} ELSE astray

\* Somebody else is deciding on the request, or cancelling it.
DecidedElsewhere(d, l) == \E e \in Decider \ {d} : proc[e].leave = l

ReadPending(d, l, verdict) ==
    /\ At(d, "idle")
    /\ request[l].status = "pending"
    /\ Step(d, [Idle EXCEPT !.pc = "decide", !.leave = l, !.status = verdict])
    /\ Note("taken", DecidedElsewhere(d, l))
    /\ UNCHANGED <<tables, cache, faults, unchecked, crowd, highest>>

WriteDecision(d) ==
    /\ At(d, "decide")
    /\ request[proc[d].leave].status = "pending"
    /\ SetStatus(proc[d].leave, proc[d].status)
    /\ IF proc[d].status = "approved" THEN Goto(d, "take") ELSE Return(d)
    /\ UNCHANGED <<row, log, cache, faults, history>>

\* Somebody else was faster: 404.
FindDecided(d) ==
    /\ At(d, "decide")
    /\ request[proc[d].leave].status # "pending"
    /\ Return(d)
    /\ UNCHANGED <<tables, cache, faults, history>>

\* An UPDATE without a row to update does nothing.
AddTaken(d) ==
    /\ At(d, "take")
    /\ row' = IF row.exists THEN [row EXCEPT !.taken = @ + DaysOf(proc[d].leave)] ELSE row
    /\ cache' = {}
    /\ Return(d)
    /\ Note("taken", ~row.exists)
    /\ UNCHANGED <<request, log, faults, unchecked, crowd, highest>>

-----------------------------------------------------------------------------
(* cancelLeave: whatever the status; days are given back if the request was  *)
(* approved when it was read.                                                *)

ReadStatus(d, l) ==
    /\ At(d, "idle")
    /\ request[l].status # "none"
    /\ Step(d, [Idle EXCEPT !.pc = "cancel", !.leave = l, !.status = request[l].status])
    /\ Note("taken", DecidedElsewhere(d, l))
    /\ UNCHANGED <<tables, cache, faults, unchecked, crowd, highest>>

\* Mutant: the days stay taken.
CancelForgets(d) ==
    /\ At(d, "cancel")
    /\ SetStatus(proc[d].leave, "cancelled")
    /\ Return(d)
    /\ UNCHANGED <<row, log, cache, faults, history>>

WriteCancelled(d) ==
    /\ At(d, "cancel")
    /\ SetStatus(proc[d].leave, "cancelled")
    /\ IF proc[d].status = "approved" THEN Goto(d, "restore") ELSE Return(d)
    /\ UNCHANGED <<row, log, cache, faults, history>>

RestoreTaken(d) ==
    /\ At(d, "restore")
    /\ row' = IF row.exists
              THEN [row EXCEPT !.taken = NotNegative(@ - DaysOf(proc[d].leave))] ELSE row
    /\ cache' = {}
    /\ Return(d)
    /\ Note("taken", ~row.exists)
    /\ UNCHANGED <<request, log, faults, unchecked, crowd, highest>>

Decide(d) ==
    \/ \E l \in Leave, verdict \in {"approved", "rejected"} : ReadPending(d, l, verdict)
    \/ WriteDecision(d)
    \/ FindDecided(d)
    \/ AddTaken(d)
    \/ \E l \in Leave : ReadStatus(d, l)
    \/ WriteCancelled(d)
    \/ RestoreTaken(d)

-----------------------------------------------------------------------------
(* adjustLeaveBalance, deleteLeaveAdjustment, GET /leave/balance.            *)

\* Another handler is changing the adjustment.
AdjustedElsewhere(h) == \E g \in Adjuster \ {h} : proc[g].pc \in {"write", "log", "undo"}

ReadAdjustment(h, a, delta) ==
    /\ At(h, "idle")
    /\ log[a].state = "none"
    /\ \A other \in Adjuster : proc[other].adj # a
    /\ Step(h, [Idle EXCEPT !.pc = "write", !.adj = a, !.delta = delta,
                            !.known = row.exists, !.total = row.adjustment + delta])
    /\ Note("adjustment", AdjustedElsewhere(h))
    /\ UNCHANGED <<tables, cache, faults, unchecked, crowd, highest>>

\* Mutant: the new total is taken for the change.
AddTotal(h) ==
    /\ At(h, "write")
    /\ proc[h].known = row.exists
    /\ row' = [row EXCEPT !.exists = TRUE, !.adjustment = @ + proc[h].total]
    /\ Goto(h, "log")
    /\ highest' = Higher(highest, Entitled')
    /\ UNCHANGED <<request, log, cache, faults, unchecked, crowd, astray>>

\* The UPDATE of the row found, or the INSERT of a row with nothing accrued.
WriteAdjustment(h) ==
    /\ At(h, "write")
    /\ proc[h].known = row.exists
    /\ row' = [row EXCEPT !.exists = TRUE, !.adjustment = proc[h].total]
    /\ Goto(h, "log")
    /\ highest' = Higher(highest, Entitled')
    /\ UNCHANGED <<request, log, cache, faults, unchecked, crowd, astray>>

\* uniq_leave_balances_emp_type_year: a row has appeared meanwhile.
InsertClashes(h) ==
    /\ At(h, "write")
    /\ proc[h].known # row.exists
    /\ Return(h)
    /\ UNCHANGED <<tables, cache, faults, history>>

\* The audit row; the cache is dropped and the new balance shown.
LogAdjustment(h) ==
    /\ At(h, "log")
    /\ log' = [log EXCEPT ![proc[h].adj] = [state |-> "live", delta |-> proc[h].delta]]
    /\ cache' = {}
    /\ Step(h, [Idle EXCEPT !.pc = "usage"])
    /\ UNCHANGED <<request, row, faults, history>>

ReadLive(h, a) ==
    /\ At(h, "idle")
    /\ log[a].state = "live"
    /\ Step(h, [Idle EXCEPT !.pc = "undo", !.adj = a])
    /\ Note("adjustment", AdjustedElsewhere(h))
    /\ UNCHANGED <<tables, cache, faults, unchecked, crowd, highest>>

\* One transaction, on the ids alone; the cache is left as it is.
UndoAdjustment(h) ==
    /\ At(h, "undo")
    /\ row' = IF row.exists
              THEN [row EXCEPT !.adjustment = @ - log[proc[h].adj].delta] ELSE row
    /\ log' = [log EXCEPT ![proc[h].adj].state = "deleted"]
    /\ Return(h)
    /\ highest' = Higher(highest, Entitled')
    /\ UNCHANGED <<request, cache, faults, unchecked, crowd, astray>>

ViewBalance(h) ==
    /\ At(h, "idle")
    /\ cache = {}
    /\ Step(h, [Idle EXCEPT !.pc = "usage"])
    /\ UNCHANGED <<tables, cache, faults, history>>

Adjust(h) ==
    \/ \E a \in Adj, delta \in Delta : ReadAdjustment(h, a, delta)
    \/ WriteAdjustment(h)
    \/ InsertClashes(h)
    \/ LogAdjustment(h)
    \/ \E a \in Adj : ReadLive(h, a)
    \/ UndoAdjustment(h)
    \/ ViewBalance(h)
    \/ GetLeaveBalance(h)

\* rolloverYear of the year before: ON CONFLICT DO NOTHING.
OpenYear(carried) ==
    /\ ~row.exists
    /\ row' = OpeningRow(carried)
    /\ highest' = Higher(highest, Entitled')
    /\ UNCHANGED <<request, log, cache, proc, faults, unchecked, crowd, astray>>

-----------------------------------------------------------------------------
(* The portal: no overlap or balance check, no balance row, no cache.        *)

PortalCreate(l, first, last) ==
    /\ "create" \in PortalRoutes
    /\ first <= last
    /\ request[l].status = "none"
    /\ request' = [request EXCEPT ![l] =
                     [status |-> "pending", first |-> first, last |-> last]]
    /\ unchecked' = unchecked \cup {l}
    /\ UNCHANGED <<row, log, cache, proc, faults, crowd, highest, astray>>

PortalReadPending(p, l, verdict) ==
    /\ "decide" \in PortalRoutes
    /\ At(p, "idle")
    /\ request[l].status = "pending"
    /\ Step(p, [Idle EXCEPT !.pc = "overwrite", !.leave = l, !.status = verdict])
    /\ UNCHANGED <<tables, cache, faults, history>>

\* By the id alone: a decision made meanwhile is overwritten, and the row
\* does not learn of an approval that comes or goes.
PortalOverwrite(p) ==
    /\ At(p, "overwrite")
    /\ SetStatus(proc[p].leave, proc[p].status)
    /\ Return(p)
    /\ LET old == request[proc[p].leave].status IN
         /\ unchecked' = IF old = "pending" THEN unchecked ELSE unchecked \cup {proc[p].leave}
         /\ Note("taken", "approved" \in {old, proc[p].status})
    /\ UNCHANGED <<row, log, cache, faults, crowd, highest>>

Portal(p) ==
    \/ \E l \in Leave, first, last \in 1 .. LastDay : PortalCreate(l, first, last)
    \/ \E l \in Leave, verdict \in {"approved", "rejected", "cancelled"} :
         PortalReadPending(p, l, verdict)
    \/ PortalOverwrite(p)

-----------------------------------------------------------------------------

\* A handler dies between two statements.
Fail(p) ==
    /\ faults < MaxFaults
    /\ ~At(p, "idle")
    /\ Return(p)
    /\ faults' = faults + 1
    /\ astray' = astray \cup (IF proc[p].pc \in {"take", "restore"} THEN {"taken"}
                             ELSE IF At(p, "log") THEN {"adjustment"} ELSE {})
    /\ UNCHANGED <<tables, cache, unchecked, crowd, highest>>

Next ==
    \/ \E c \in Creator : Create(c)
    \/ \E d \in Decider : Decide(d)
    \/ \E h \in Adjuster : Adjust(h)
    \/ \E p \in PortalUser : Portal(p)
    \/ \E p \in Process : Fail(p)
    \/ \E carried \in Carry : OpenYear(carried)
    \/ Expire

Spec == Init /\ [][Next]_vars

-----------------------------------------------------------------------------
(* Properties.                                                               *)

\* The employee is never away twice on one day: the check before the insert
\* holds however decisions and cancellations of other requests race with it,
\* among the requests that were submitted in the main backend while no other
\* was (nothing makes checkOverlap and the INSERT one step), whatever the rest
\* do.
NoOverlap ==
    \A l, k \in Checked :
        l # k => ~Meets(l, request[k].first, request[k].last)

\* Nobody has asked for more days than there are, as the comment on the
\* balance check says.  It goes wrong when the balance comes from the cache.
WithinEntitlement == SumDays(Active) <= Entitled

\* The requests submitted one at a time, on a balance read from the tables,
\* never come to more than the employee was once entitled to: the balance is
\* read in two statements, decided upon and adjusted meanwhile, and still holds
\* when the request is inserted; requests that raced only make it stricter.
AskedWithinEntitlement == SumDays(Checked) <= highest

\* taken counts the approved days, once nobody is between the decision and
\* its effect on the balance, unless a handler died there, two handlers were
\* at one request, one of them found no balance row or the portal decided.
TakenIsApproved ==
    ("taken" \notin astray /\ \A d \in Decider : ~At(d, "take") /\ ~At(d, "restore"))
        => row.taken = SumDays(Approved)

\* The adjustment on the balance is the sum of the adjustments on record, when
\* nobody is adjusting, unless a handler died between the two or two handlers
\* were changing it at a time (the total is read and written back).
AdjustmentsFoot ==
    ("adjustment" \notin astray /\ \A h \in Adjuster : ~At(h, "log"))
        => row.adjustment =
             SumFunction([a \in {b \in Adj : log[b].state = "live"} |-> log[a].delta])
=============================================================================
