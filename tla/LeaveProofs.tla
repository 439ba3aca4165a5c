----------------------------- MODULE LeaveProofs -----------------------------
(* Proofs about Leave, for any sets of requests, adjustments and handlers,   *)
(* any calendar and any number of handlers that die.                         *)
EXTENDS Leave, SumProofs

-----------------------------------------------------------------------------
(* Typing.  A handler that is about to write knows what to write.            *)

AboutLeave == {"decide", "take", "cancel", "restore", "overwrite"}
AboutAdj == {"write", "log", "undo"}

Refers(h) ==
    /\ h.pc \in AboutLeave => h.leave \in Leave
    /\ h.pc \in AboutAdj => h.adj \in Adj
    /\ h.pc \in {"decide", "overwrite"} => h.status # "none"

StateOK ==
    /\ request \in [Leave -> Request]
    /\ row \in Row
    /\ log \in [Adj -> Entry]
    /\ cache \subseteq Balance
    /\ proc \in [Process -> Handler]
    /\ faults \in 0 .. MaxFaults

Typed == StateOK /\ \A p \in Process : Refers(proc[p])

LEMMA IdleTyped == Idle \in Handler /\ Refers(Idle)
BY YearAssumption DEF Idle, Handler, Refers, AboutLeave, AboutAdj, PC, Status, Date

LEMMA StepTyped ==
    ASSUME Typed, NEW p \in Process, NEW h \in Handler, Refers(h), Step(p, h)
    PROVE  proc' \in [Process -> Handler] /\ \A q \in Process : Refers(proc'[q])
BY DEF Typed, StateOK, Step

LEMMA ReturnTyped ==
    ASSUME Typed, NEW p \in Process, Return(p)
    PROVE  proc' \in [Process -> Handler] /\ \A q \in Process : Refers(proc'[q])
BY IdleTyped, StepTyped DEF Return

\* Going on with what the handler has at hand.
LEMMA GotoTyped ==
    ASSUME Typed, NEW p \in Process, NEW pc \in PC,
           pc \in AboutLeave => proc[p].leave \in Leave,
           pc \in AboutAdj => proc[p].adj \in Adj,
           pc \notin {"decide", "overwrite"},
           Goto(p, pc)
    PROVE  proc' \in [Process -> Handler] /\ \A q \in Process : Refers(proc'[q])
<1> DEFINE h == [proc[p] EXCEPT !.pc = pc]
<1>1. h \in Handler /\ h.pc = pc /\ h.leave = proc[p].leave /\ h.adj = proc[p].adj
    BY DEF Typed, StateOK, Handler
<1>2. Refers(h)
    BY <1>1 DEF Refers
<1>3. Step(p, h)
    BY DEF Goto
<1>4. QED
    BY <1>1, <1>2, <1>3, StepTyped

LEMMA OnlyProcTyped ==
    ASSUME Typed, UNCHANGED <<tables, cache, faults>>,
           proc' \in [Process -> Handler] /\ \A q \in Process : Refers(proc'[q])
    PROVE  Typed'
BY DEF Typed, StateOK, tables, Active

LEMMA StatusTyped ==
    ASSUME Typed, NEW l \in Leave, NEW s \in Status, SetStatus(l, s)
    PROVE  request' \in [Leave -> Request]
BY DEF Typed, StateOK, SetStatus, Request

LEMMA DaysTyped ==
    ASSUME Typed, NEW l \in Leave
    PROVE  DaysOf(l) \in Nat
<1>1. request[l].first \in Int /\ request[l].last \in Int
    BY YearAssumption DEF Typed, StateOK, Request, Date
<1>2. QED
    BY <1>1 DEF DaysOf, Days, NotNegative

LEMMA EntitledTyped == Typed => Entitled \in Int
BY YearAssumption DEF Typed, StateOK, Entitled, Row

LEMMA BalanceTyped ==
    ASSUME Typed, NEW p \in Process, GetLeaveBalance(p)
    PROVE  Typed'
<1>p. proc[p] \in Handler /\ Refers(proc[p])
    BY DEF Typed, StateOK
<1>c. {"usage", "row", "insert"} \subseteq PC \ (AboutLeave \cup AboutAdj)
    BY DEF PC, AboutLeave, AboutAdj
<1>1. CASE CheckCached(p)
  <2>1. Goto(p, "insert") \/ Return(p)
      BY <1>1 DEF CheckCached
  <2>2. QED
      BY <1>1, <1>c, <2>1, GotoTyped, ReturnTyped, OnlyProcTyped DEF CheckCached
<1>2. CASE MissCache(p)
    BY <1>2, <1>c, GotoTyped, OnlyProcTyped DEF MissCache
<1>3. CASE ReadUsage(p)
  <2> DEFINE h == [proc[p] EXCEPT !.used = Active, !.pc = "row"]
  <2>1. Active \in SUBSET Leave
      BY DEF Active
  <2>2. h \in Handler /\ Refers(h)
      BY <1>p, <1>c, <2>1 DEF Handler, Refers
  <2>3. Step(p, h)
      BY <1>3 DEF ReadUsage
  <2>4. QED
      BY <1>3, <2>2, <2>3, StepTyped, OnlyProcTyped DEF ReadUsage
<1>4. CASE ReadRow(p)
  <2>1. Goto(p, "insert") \/ Return(p)
      BY <1>4 DEF ReadRow
  <2>2. proc' \in [Process -> Handler] /\ \A q \in Process : Refers(proc'[q])
      BY <1>c, <2>1, GotoTyped, ReturnTyped
  <2>3. [entitled |-> Entitled, used |-> proc[p].used] \in Balance
      BY <1>p, EntitledTyped DEF Balance, Handler
  <2>4. cache' \subseteq Balance
      BY <1>4, <2>3 DEF ReadRow
  <2>5. QED
      BY <1>4, <2>2, <2>4 DEF ReadRow, Typed, StateOK, tables
<1>5. QED
    BY <1>1, <1>2, <1>3, <1>4 DEF GetLeaveBalance

LEMMA CreateTyped ==
    ASSUME Typed, NEW c \in Creator, Create(c)
    PROVE  Typed'
<1>p. c \in Process /\ proc[c] \in Handler
    BY DEF Typed, StateOK, Process
<1>1. ASSUME NEW first \in 1 .. LastDay, NEW last \in 1 .. LastDay,
             CheckOverlap(c, first, last)
      PROVE  Typed'
  <2> DEFINE h == [Idle EXCEPT !.pc = "check", !.first = first, !.last = last]
  <2>1. first \in Date /\ last \in Date
      BY YearAssumption DEF Date
  <2>2. h \in Handler /\ Refers(h)
      BY <2>1, IdleTyped DEF Handler, Refers, PC, AboutLeave, AboutAdj
  <2>3. Step(c, h)
      BY <1>1 DEF CheckOverlap
  <2>4. QED
      BY <1>p, <1>1, <2>2, <2>3, StepTyped, OnlyProcTyped DEF CheckOverlap
<1>2. ASSUME NEW l \in Leave, InsertRequest(c, l)
      PROVE  Typed'
  <2>1. [status |-> "pending", first |-> proc[c].first, last |-> proc[c].last] \in Request
      BY <1>p DEF Handler, Request, Status
  <2>2. request' \in [Leave -> Request]
      BY <1>2, <2>1 DEF InsertRequest, Typed, StateOK
  <2>3. QED
      BY <1>p, <1>2, <2>2, ReturnTyped DEF InsertRequest, Typed, StateOK
<1>3. QED
    BY <1>p, <1>1, <1>2, BalanceTyped DEF Create

LEMMA DecideTyped ==
    ASSUME Typed, NEW d \in Decider, Decide(d)
    PROVE  Typed'
<1>p. d \in Process /\ proc[d] \in Handler /\ Refers(proc[d])
    BY DEF Typed, StateOK, Process
<1>c. {"take", "restore"} \subseteq (PC \cap AboutLeave) \ AboutAdj
    BY DEF PC, AboutLeave, AboutAdj
<1>1. ASSUME NEW l \in Leave, NEW verdict \in {"approved", "rejected"},
             ReadPending(d, l, verdict)
      PROVE  Typed'
  <2> DEFINE h == [Idle EXCEPT !.pc = "decide", !.leave = l, !.status = verdict]
  <2>1. h \in Handler /\ Refers(h)
      BY IdleTyped DEF Handler, Refers, PC, Status, AboutLeave, AboutAdj
  <2>2. Step(d, h)
      BY <1>1 DEF ReadPending
  <2>3. QED
      BY <1>p, <1>1, <2>1, <2>2, StepTyped, OnlyProcTyped DEF ReadPending
<1>2. CASE WriteDecision(d)
  <2>1. proc[d].leave \in Leave /\ proc[d].status \in Status
      BY <1>p, <1>2 DEF WriteDecision, At, Refers, AboutLeave, Handler
  <2>2. request' \in [Leave -> Request]
      BY <1>2, <2>1, StatusTyped DEF WriteDecision
  <2>3. Goto(d, "take") \/ Return(d)
      BY <1>2 DEF WriteDecision
  <2>4. proc' \in [Process -> Handler] /\ \A q \in Process : Refers(proc'[q])
      BY <1>p, <1>c, <2>1, <2>3, GotoTyped, ReturnTyped
  <2>5. QED
      BY <1>2, <2>2, <2>4 DEF WriteDecision, Typed, StateOK
<1>3. CASE FindDecided(d)
    BY <1>p, <1>3, ReturnTyped, OnlyProcTyped DEF FindDecided
<1>4. CASE AddTaken(d)
  <2>1. DaysOf(proc[d].leave) \in Nat
      BY <1>p, <1>4, DaysTyped DEF AddTaken, At, Refers, AboutLeave
  <2>2. row' \in Row
      BY <1>4, <2>1 DEF AddTaken, Typed, StateOK, Row
  <2>3. QED
      BY <1>p, <1>4, <2>2, ReturnTyped DEF AddTaken, Typed, StateOK
<1>5. ASSUME NEW l \in Leave, ReadStatus(d, l)
      PROVE  Typed'
  <2> DEFINE h == [Idle EXCEPT !.pc = "cancel", !.leave = l, !.status = request[l].status]
  <2>1. request[l].status \in Status
      BY DEF Typed, StateOK, Request
  <2>2. h \in Handler /\ Refers(h)
      BY <2>1, IdleTyped DEF Handler, Refers, PC, AboutLeave, AboutAdj
  <2>3. Step(d, h)
      BY <1>5 DEF ReadStatus
  <2>4. QED
      BY <1>p, <1>5, <2>2, <2>3, StepTyped, OnlyProcTyped DEF ReadStatus
<1>6. CASE WriteCancelled(d)
  <2>1. proc[d].leave \in Leave /\ "cancelled" \in Status
      BY <1>p, <1>6 DEF WriteCancelled, At, Refers, AboutLeave, Status
  <2>2. request' \in [Leave -> Request]
      BY <1>6, <2>1, StatusTyped DEF WriteCancelled
  <2>3. Goto(d, "restore") \/ Return(d)
      BY <1>6 DEF WriteCancelled
  <2>4. proc' \in [Process -> Handler] /\ \A q \in Process : Refers(proc'[q])
      BY <1>p, <1>c, <2>1, <2>3, GotoTyped, ReturnTyped
  <2>5. QED
      BY <1>6, <2>2, <2>4 DEF WriteCancelled, Typed, StateOK
<1>7. CASE RestoreTaken(d)
  <2>1. DaysOf(proc[d].leave) \in Nat
      BY <1>p, <1>7, DaysTyped DEF RestoreTaken, At, Refers, AboutLeave
  <2>2. row' \in Row
      BY <1>7, <2>1 DEF RestoreTaken, Typed, StateOK, Row, NotNegative
  <2>3. QED
      BY <1>p, <1>7, <2>2, ReturnTyped DEF RestoreTaken, Typed, StateOK
<1>8. QED
    BY <1>1, <1>2, <1>3, <1>4, <1>5, <1>6, <1>7 DEF Decide

LEMMA AdjustTyped ==
    ASSUME Typed, NEW h \in Adjuster, Adjust(h)
    PROVE  Typed'
<1>p. h \in Process /\ proc[h] \in Handler /\ Refers(proc[h])
    BY DEF Typed, StateOK, Process
<1>r. row \in Row /\ row.adjustment \in Int /\ row.exists \in BOOLEAN
    BY DEF Typed, StateOK, Row
<1>l. proc[h].delta \in Int /\ proc[h].total \in Int
    BY <1>p DEF Handler
<1>1. ASSUME NEW a \in Adj, NEW delta \in Delta, ReadAdjustment(h, a, delta)
      PROVE  Typed'
  <2> DEFINE g == [Idle EXCEPT !.pc = "write", !.adj = a, !.delta = delta,
                               !.known = row.exists, !.total = row.adjustment + delta]
  <2>1. delta \in Int /\ row.adjustment + delta \in Int
      BY <1>r, YearAssumption
  <2>2. g \in Handler /\ Refers(g)
      BY <1>r, <2>1, IdleTyped DEF Handler, Refers, PC, AboutLeave, AboutAdj
  <2>3. Step(h, g)
      BY <1>1 DEF ReadAdjustment
  <2>4. QED
      BY <1>p, <1>1, <2>2, <2>3, StepTyped, OnlyProcTyped DEF ReadAdjustment
<1>2. CASE WriteAdjustment(h)
  <2>1. proc[h].adj \in Adj /\ "log" \in PC \ AboutLeave
      BY <1>p, <1>2 DEF WriteAdjustment, At, Refers, AboutAdj, AboutLeave, PC
  <2>2. row' \in Row
      BY <1>2, <1>r, <1>l DEF WriteAdjustment, Row
  <2>3. proc' \in [Process -> Handler] /\ \A q \in Process : Refers(proc'[q])
      BY <1>p, <1>2, <2>1, GotoTyped DEF WriteAdjustment
  <2>4. QED
      BY <1>2, <2>2, <2>3 DEF WriteAdjustment, Typed, StateOK
<1>3. CASE InsertClashes(h)
    BY <1>p, <1>3, ReturnTyped, OnlyProcTyped DEF InsertClashes
<1>u. LET g == [Idle EXCEPT !.pc = "usage"] IN g \in Handler /\ Refers(g)
    BY IdleTyped DEF Handler, Refers, PC, AboutLeave, AboutAdj
<1>4. CASE LogAdjustment(h)
  <2>1. [state |-> "live", delta |-> proc[h].delta] \in Entry
      BY <1>l DEF Entry
  <2>2. log' \in [Adj -> Entry]
      BY <1>4, <2>1 DEF LogAdjustment, Typed, StateOK
  <2>3. proc' \in [Process -> Handler] /\ \A q \in Process : Refers(proc'[q])
      BY <1>p, <1>4, <1>u, StepTyped DEF LogAdjustment
  <2>4. QED
      BY <1>4, <2>2, <2>3 DEF LogAdjustment, Typed, StateOK
<1>5. ASSUME NEW a \in Adj, ReadLive(h, a)
      PROVE  Typed'
  <2> DEFINE g == [Idle EXCEPT !.pc = "undo", !.adj = a]
  <2>1. g \in Handler /\ Refers(g)
      BY IdleTyped DEF Handler, Refers, PC, AboutLeave, AboutAdj
  <2>2. Step(h, g)
      BY <1>5 DEF ReadLive
  <2>3. QED
      BY <1>p, <1>5, <2>1, <2>2, StepTyped, OnlyProcTyped DEF ReadLive
<1>6. CASE UndoAdjustment(h)
  <2>1. proc[h].adj \in Adj
      BY <1>p, <1>6 DEF UndoAdjustment, At, Refers, AboutAdj
  <2>2. log[proc[h].adj].delta \in Int
      BY <2>1 DEF Typed, StateOK, Entry
  <2>3. row' \in Row
      BY <1>6, <1>r, <2>2 DEF UndoAdjustment, Row
  <2>4. log' \in [Adj -> Entry]
      BY <1>6, <2>1 DEF UndoAdjustment, Typed, StateOK, Entry
  <2>5. QED
      BY <1>p, <1>6, <2>3, <2>4, ReturnTyped DEF UndoAdjustment, Typed, StateOK
<1>7. CASE ViewBalance(h)
    BY <1>p, <1>7, <1>u, StepTyped, OnlyProcTyped DEF ViewBalance
<1>8. QED
    BY <1>p, <1>1, <1>2, <1>3, <1>4, <1>5, <1>6, <1>7, BalanceTyped DEF Adjust

LEMMA PortalTyped ==
    ASSUME Typed, NEW p \in PortalUser, Portal(p)
    PROVE  Typed'
<1>p. p \in Process /\ proc[p] \in Handler /\ Refers(proc[p])
    BY DEF Typed, StateOK, Process
<1>1. ASSUME NEW l \in Leave, NEW first \in 1 .. LastDay, NEW last \in 1 .. LastDay,
             PortalCreate(l, first, last)
      PROVE  Typed'
  <2>1. [status |-> "pending", first |-> first, last |-> last] \in Request
      BY YearAssumption DEF Request, Status, Date
  <2>2. QED
      BY <1>1, <2>1 DEF PortalCreate, Typed, StateOK
<1>2. ASSUME NEW l \in Leave, NEW verdict \in {"approved", "rejected", "cancelled"},
             PortalReadPending(p, l, verdict)
      PROVE  Typed'
  <2> DEFINE h == [Idle EXCEPT !.pc = "overwrite", !.leave = l, !.status = verdict]
  <2>1. h \in Handler /\ Refers(h)
      BY IdleTyped DEF Handler, Refers, PC, Status, AboutLeave, AboutAdj
  <2>2. Step(p, h)
      BY <1>2 DEF PortalReadPending
  <2>3. QED
      BY <1>p, <1>2, <2>1, <2>2, StepTyped, OnlyProcTyped DEF PortalReadPending
<1>3. CASE PortalOverwrite(p)
  <2>1. proc[p].leave \in Leave /\ proc[p].status \in Status
      BY <1>p, <1>3 DEF PortalOverwrite, At, Refers, AboutLeave, Handler
  <2>2. request' \in [Leave -> Request]
      BY <1>3, <2>1, StatusTyped DEF PortalOverwrite
  <2>3. QED
      BY <1>p, <1>3, <2>2, ReturnTyped DEF PortalOverwrite, Typed, StateOK
<1>4. QED
    BY <1>1, <1>2, <1>3 DEF Portal

LEMMA OpeningTyped ==
    ASSUME NEW carried \in Carry
    PROVE  OpeningRow(carried) \in Row
BY YearAssumption DEF OpeningRow, Row

LEMMA InitTyped == Init => Typed
<1> SUFFICES ASSUME Init PROVE Typed
    OBVIOUS
<1>1. row \in Row
  <2>1. NoRow \in Row
      BY DEF NoRow, Row
  <2>2. QED
      BY <2>1, OpeningTyped DEF Init
<1>2. NoRequest \in Request /\ NoEntry \in Entry
    BY YearAssumption DEF NoRequest, NoEntry, Request, Entry, Status, Date
<1>3. QED
    BY <1>1, <1>2, IdleTyped, YearAssumption DEF Init, Typed, StateOK

LEMMA NextTyped == Typed /\ [Next]_vars => Typed'
<1> SUFFICES ASSUME Typed, [Next]_vars PROVE Typed'
    OBVIOUS
<1>1. ASSUME NEW p \in Process, Fail(p)
      PROVE  Typed'
  <2>1. faults' \in 0 .. MaxFaults
      BY <1>1, YearAssumption DEF Fail, Typed, StateOK
  <2>2. QED
      BY <1>1, <2>1, ReturnTyped DEF Fail, Typed, StateOK, tables
<1>2. ASSUME NEW carried \in Carry, OpenYear(carried)
      PROVE  Typed'
    BY <1>2, OpeningTyped DEF OpenYear, Typed, StateOK
<1>3. CASE Expire
    BY <1>3 DEF Expire, Typed, StateOK, tables
<1>4. CASE UNCHANGED vars
    BY <1>4 DEF vars, Typed, StateOK, tables
<1>5. QED
    BY <1>1, <1>2, <1>3, <1>4, CreateTyped, DecideTyped, AdjustTyped, PortalTyped DEF Next

LEMMA TypedHolds == Spec => []Typed
BY InitTyped, NextTyped, PTL DEF Spec

-----------------------------------------------------------------------------
(* The history.                                                              *)

HistoryOK ==
    /\ unchecked \subseteq Leave
    /\ crowd \subseteq Process
    /\ highest \in Int
    /\ astray \subseteq {"taken", "adjustment"}

(* What is noted stays noted, and highest is what it says.                   *)
Grows ==
    /\ unchecked \subseteq unchecked' /\ astray \subseteq astray'
    /\ \/ highest' = highest /\ Entitled' = Entitled
       \/ highest' = Higher(highest, Entitled')

LEMMA CreateGrows ==
    ASSUME NEW c \in Process, c \in Creator => Create(c), c \notin Creator => GetLeaveBalance(c)
    PROVE  Grows /\ (HistoryOK => HistoryOK')
<1> SUFFICES ASSUME Create(c) \/ GetLeaveBalance(c)
             PROVE  Grows /\ (HistoryOK => HistoryOK')
    OBVIOUS
<1>1. row' = row /\ highest' = highest /\ astray' = astray
    BY DEF Create, CheckOverlap, InsertRequest, GetLeaveBalance, CheckCached, MissCache, ReadUsage,
           ReadRow, tables, history
<1>2. unchecked' = unchecked \/ \E l \in Leave : unchecked' = unchecked \cup {l}
    BY DEF Create, CheckOverlap, InsertRequest, GetLeaveBalance, CheckCached, MissCache, ReadUsage,
           ReadRow, history
<1>3. crowd \subseteq Process => crowd' \subseteq Process
  <2>1. Busy(c) \subseteq Process
      BY DEF Busy, Process
  <2>2. QED
      BY <2>1 DEF Create, CheckOverlap, InsertRequest, GetLeaveBalance, CheckCached, MissCache,
           ReadUsage, ReadRow, NoteCrowd, history
<1>4. Entitled' = Entitled
    BY <1>1 DEF Entitled
<1>5. QED
    BY <1>1, <1>2, <1>3, <1>4 DEF Grows, HistoryOK

LEMMA DecideGrows ==
    ASSUME Typed, NEW d \in Decider, Decide(d)
    PROVE  Grows /\ (HistoryOK => HistoryOK')
<1>1. UNCHANGED <<unchecked, crowd, highest>>
    BY DEF Decide, ReadPending, WriteDecision, FindDecided, AddTaken, ReadStatus, WriteCancelled,
           RestoreTaken, history
<1>2. astray' \in {astray, astray \cup {"taken"}}
    BY DEF Decide, ReadPending, WriteDecision, FindDecided, AddTaken, ReadStatus, WriteCancelled,
           RestoreTaken, Note, history
<1>3. /\ row'.exists = row.exists /\ row'.accrued = row.accrued
      /\ row'.carried = row.carried /\ row'.adjustment = row.adjustment
    BY DEF Typed, StateOK, Row, Decide, ReadPending, WriteDecision, FindDecided, AddTaken, ReadStatus,
           WriteCancelled, RestoreTaken, tables
<1>4. Entitled' = Entitled
    BY <1>3 DEF Entitled
<1>5. QED
    BY <1>1, <1>2, <1>4 DEF Grows, HistoryOK

LEMMA AdjustGrows ==
    ASSUME Typed, Typed', NEW h \in Adjuster, Adjust(h)
    PROVE  Grows /\ (HistoryOK => HistoryOK')
<1>e. Entitled' \in Int
  <2>1. Typed' => Entitled' \in Int
      BY YearAssumption DEF Typed, StateOK, Entitled, Row
  <2>2. QED
      BY <2>1
<1>1. CASE GetLeaveBalance(h)
    BY <1>1, CreateGrows, RolesAssumption DEF Process
<1>2. CASE ~GetLeaveBalance(h)
  <2>1. UNCHANGED <<unchecked, crowd>>
      BY <1>2 DEF Adjust, ReadAdjustment, WriteAdjustment, InsertClashes, LogAdjustment, ReadLive,
             UndoAdjustment, ViewBalance, history
  <2>2. astray' \in {astray, astray \cup {"adjustment"}}
      BY <1>2 DEF Adjust, ReadAdjustment, WriteAdjustment, InsertClashes, LogAdjustment, ReadLive,
             UndoAdjustment, ViewBalance, Note, history
  <2>3. \/ highest' = highest /\ row' = row
        \/ highest' = Higher(highest, Entitled')
      BY <1>2 DEF Adjust, ReadAdjustment, WriteAdjustment, InsertClashes, LogAdjustment, ReadLive,
             UndoAdjustment, ViewBalance, history, tables
  <2>4. row' = row => Entitled' = Entitled
      BY DEF Entitled
  <2>5. highest \in Int => Higher(highest, Entitled') \in Int
      BY <1>e DEF Higher
  <2> HIDE DEF Entitled
  <2>6. QED
      BY <2>1, <2>2, <2>3, <2>4, <2>5 DEF Grows, HistoryOK
<1>3. QED
    BY <1>1, <1>2

LEMMA PortalGrows ==
    ASSUME Typed, NEW p \in PortalUser, Portal(p)
    PROVE  Grows /\ (HistoryOK => HistoryOK')
<1>1. row' = row /\ UNCHANGED <<crowd, highest>>
    BY DEF Portal, PortalCreate, PortalReadPending, PortalOverwrite, tables, history
<1>2. unchecked' = unchecked \/ \E l \in Leave : unchecked' = unchecked \cup {l}
  <2>1. At(p, "overwrite") => proc[p].leave \in Leave
      BY DEF Typed, Refers, AboutLeave, At, Process
  <2>2. QED
      BY <2>1 DEF Portal, PortalCreate, PortalReadPending, PortalOverwrite, history
<1>3. astray' \in {astray, astray \cup {"taken"}}
    BY DEF Portal, PortalCreate, PortalReadPending, PortalOverwrite, Note, history
<1>4. Entitled' = Entitled
    BY <1>1 DEF Entitled
<1>5. QED
    BY <1>1, <1>2, <1>3, <1>4 DEF Grows, HistoryOK

LEMMA HistoryGrows ==
    ASSUME Typed, [Next]_vars
    PROVE  Grows /\ (HistoryOK => HistoryOK')
<1>t. Typed'
    BY NextTyped
<1>e. Entitled' \in Int
  <2>1. Typed' => Entitled' \in Int
      BY YearAssumption DEF Typed, StateOK, Entitled, Row
  <2>2. QED
      BY <1>t, <2>1
<1>1. ASSUME NEW p \in Process, Fail(p)
      PROVE  Grows /\ (HistoryOK => HistoryOK')
  <2>1. Entitled' = Entitled
      BY <1>1 DEF Fail, tables, Entitled
  <2>2. QED
      BY <1>1, <2>1 DEF Fail, Grows, HistoryOK
<1>2. ASSUME NEW carried \in Carry, OpenYear(carried)
      PROVE  Grows /\ (HistoryOK => HistoryOK')
  <2>1. highest \in Int => Higher(highest, Entitled') \in Int
      BY <1>e DEF Higher
  <2> HIDE DEF Entitled
  <2>2. QED
      BY <1>2, <2>1 DEF OpenYear, Grows, HistoryOK
<1>3. CASE Expire \/ UNCHANGED vars
  <2>1. UNCHANGED <<row, unchecked, crowd, highest, astray>>
      BY <1>3 DEF Expire, vars, tables, history
  <2>2. Entitled' = Entitled
      BY <2>1 DEF Entitled
  <2>3. QED
      BY <2>1, <2>2 DEF Grows, HistoryOK
<1>4. ASSUME NEW c \in Creator, Create(c)
      PROVE  Grows /\ (HistoryOK => HistoryOK')
    BY <1>4, CreateGrows DEF Process
<1>5. QED
    BY <1>t, <1>1, <1>2, <1>3, <1>4, DecideGrows, AdjustGrows, PortalGrows DEF Next

LEMMA HistoryHolds == Spec => []HistoryOK
<1>1. Init => HistoryOK
  <2> SUFFICES ASSUME Init PROVE HistoryOK
      OBVIOUS
  <2>1. Entitled \in Int
      BY InitTyped, EntitledTyped
  <2>2. QED
      BY <2>1 DEF Init, HistoryOK
<1>2. QED
    BY <1>1, HistoryGrows, TypedHolds, PTL DEF Spec

\* Every variable keeps its type; in particular taken is never negative,
\* whatever order days are counted and given back in.
THEOREM LeaveTyped == Spec => []TypeOK
<1>1. Typed /\ HistoryOK => TypeOK
    BY DEF Typed, StateOK, HistoryOK, TypeOK
<1>2. QED
    BY <1>1, TypedHolds, HistoryHolds, PTL

-----------------------------------------------------------------------------
(* Overlaps.  What a creator that is alone has checked stays true until it   *)
(* inserts: only its own insert makes a request active that counts.          *)

Submitting == {"check", "usage", "row", "insert"}

\* Creators that are not alone have been noted.
CrowdNoted ==
    \A b, c \in Creator : b # c /\ ~At(b, "idle") /\ ~At(c, "idle") => c \in crowd

Cleared ==
    \A c \in Creator \ crowd :
        proc[c].pc \in Submitting => \A l \in Checked : ~Meets(l, proc[c].first, proc[c].last)

NoneTwice == NoOverlap /\ Cleared

\* A step after which no more requests count than before, on the same dates.
NoneAdded ==
    \A l \in Checked' : /\ l \in Checked
                        /\ request'[l].first = request[l].first
                        /\ request'[l].last = request[l].last

\* Besides, no creator that is alone has more to insert.
Quiet ==
    /\ NoneAdded
    /\ \A c \in Creator \ crowd' :
          proc'[c].pc \in Submitting =>
              /\ c \notin crowd /\ proc[c].pc \in Submitting
              /\ proc'[c].first = proc[c].first
              /\ proc'[c].last = proc[c].last

LEMMA QuietKeeps ==
    ASSUME NoneTwice, Quiet
    PROVE  NoneTwice'
BY DEF NoneTwice, NoOverlap, Cleared, Quiet, NoneAdded, Meets

LEMMA SetStatusKeepsDates ==
    ASSUME Typed, NEW l \in Leave, NEW s \in Status, SetStatus(l, s),
           unchecked \subseteq unchecked',
           \/ s \in {"cancelled", "rejected"} \/ request[l].status = "pending"
           \/ l \in unchecked'
    PROVE  NoneAdded
BY DEF Typed, StateOK, SetStatus, Request, Checked, Active, NoneAdded

LEMMA SameRequests ==
    ASSUME request' = request, unchecked' = unchecked
    PROVE  Active' = Active /\ Checked' = Checked /\ NoneAdded
BY DEF Active, Checked, NoneAdded

LEMMA BalanceQuiet ==
    ASSUME Typed, NEW p \in Process, GetLeaveBalance(p)
    PROVE  Quiet /\ request' = request /\ unchecked' = unchecked /\ crowd \subseteq crowd'
<1>1. request' = request /\ unchecked' = unchecked /\ crowd \subseteq crowd'
    BY DEF GetLeaveBalance, CheckCached, MissCache, ReadUsage, ReadRow, tables, history
<1>2. NoneAdded
    BY <1>1, SameRequests
<1>3. proc \in [Process -> Handler]
    BY DEF Typed, StateOK
<1>4. \A q \in Process \ {p} : proc'[q] = proc[q]
    BY <1>3 DEF GetLeaveBalance, CheckCached, MissCache, ReadUsage, ReadRow,
                Goto, Return, Step
<1>5. proc'[p].pc \in Submitting =>
          /\ proc[p].pc \in Submitting
          /\ proc'[p].first = proc[p].first
          /\ proc'[p].last = proc[p].last
  <2>1. proc[p].pc \in Submitting
      BY DEF GetLeaveBalance, CheckCached, MissCache, ReadUsage, ReadRow, At, Submitting
  <2>2. CASE Return(p)
      BY <1>3, <2>2 DEF Return, Step, Idle, Submitting
  <2>3. ASSUME NEW pc, Goto(p, pc)
        PROVE  proc'[p].first = proc[p].first /\ proc'[p].last = proc[p].last
      BY <1>3, <2>3 DEF Goto, Step, Handler
  <2>4. CASE ReadUsage(p)
      BY <1>3, <2>1, <2>4 DEF ReadUsage, Step, Handler
  <2>5. QED
      BY <2>1, <2>2, <2>3, <2>4 DEF GetLeaveBalance, CheckCached, MissCache, ReadRow
<1>6. \A c \in Creator : c = p \/ proc'[c] = proc[c]
    BY <1>4 DEF Process
<1>7. QED
    BY <1>1, <1>2, <1>5, <1>6 DEF Quiet

LEMMA DecideQuiet ==
    ASSUME Typed, NEW d \in Decider, Decide(d)
    PROVE  Quiet
<1>p. d \in Process /\ proc \in [Process -> Handler] /\ Refers(proc[d])
    BY DEF Typed, StateOK, Process
<1>1. crowd' = crowd /\ unchecked' = unchecked /\ \A c \in Creator : proc'[c] = proc[c]
  <2>1. \A c \in Creator : c # d /\ c \in Process
      BY RolesAssumption DEF Process
  <2>2. QED
      BY <1>p, <2>1 DEF Decide, ReadPending, WriteDecision, FindDecided, AddTaken,
                        ReadStatus, WriteCancelled, RestoreTaken, Goto, Return, Step, history
<1>2. CASE WriteDecision(d)
  <2>1. proc[d].leave \in Leave /\ proc[d].status \in Status
      BY <1>p, <1>2 DEF WriteDecision, At, Refers, AboutLeave, Handler
  <2>2. QED
      BY <1>1, <1>2, <2>1, SetStatusKeepsDates DEF WriteDecision, Quiet
<1>3. CASE WriteCancelled(d)
  <2>1. proc[d].leave \in Leave /\ "cancelled" \in Status
      BY <1>p, <1>3 DEF WriteCancelled, At, Refers, AboutLeave, Status
  <2>2. QED
      BY <1>1, <1>3, <2>1, SetStatusKeepsDates DEF WriteCancelled, Quiet
<1>4. CASE request' = request
    BY <1>1, <1>4, SameRequests DEF Quiet
<1>5. WriteDecision(d) \/ WriteCancelled(d) \/ request' = request
    BY DEF Decide, ReadPending, FindDecided, AddTaken, ReadStatus, RestoreTaken, tables
<1>6. QED
    BY <1>2, <1>3, <1>4, <1>5

LEMMA AdjustQuiet ==
    ASSUME Typed, NEW h \in Adjuster, Adjust(h)
    PROVE  Quiet /\ NoneAdded
<1>p. h \in Process /\ proc \in [Process -> Handler]
    BY DEF Typed, StateOK, Process
<1>c. \A c \in Creator : c # h /\ c \in Process
    BY RolesAssumption DEF Process
<1>1. CASE GetLeaveBalance(h)
    BY <1>p, <1>1, BalanceQuiet DEF Quiet
<1>2. CASE ~GetLeaveBalance(h)
  <2>1. request' = request /\ unchecked' = unchecked /\ crowd' = crowd
      BY <1>2 DEF Adjust, ReadAdjustment, WriteAdjustment, InsertClashes, LogAdjustment,
                  ReadLive, UndoAdjustment, ViewBalance, tables, history
  <2>2. \A c \in Creator : proc'[c] = proc[c]
      BY <1>p, <1>c, <1>2 DEF Adjust, ReadAdjustment, WriteAdjustment, InsertClashes,
                  LogAdjustment, ReadLive, UndoAdjustment, ViewBalance, Goto, Return, Step
  <2>3. NoneAdded
      BY <2>1, SameRequests
  <2>4. QED
      BY <2>1, <2>2, <2>3 DEF Quiet
<1>3. QED
    BY <1>1, <1>2

\* The portal's requests do not count, and neither do those it revives.
LEMMA PortalQuiet ==
    ASSUME Typed, NEW p \in PortalUser, Portal(p)
    PROVE  Quiet
<1>p. /\ p \in Process /\ proc \in [Process -> Handler] /\ Refers(proc[p])
      /\ request \in [Leave -> Request]
    BY DEF Typed, StateOK, Process
<1>1. crowd' = crowd /\ \A c \in Creator : proc'[c] = proc[c]
  <2>1. \A c \in Creator : c # p /\ c \in Process
      BY RolesAssumption DEF Process
  <2>2. QED
      BY <1>p, <2>1 DEF Portal, PortalCreate, PortalReadPending, PortalOverwrite, Return, Step,
                        history
<1>2. ASSUME NEW l \in Leave, NEW first, NEW last, PortalCreate(l, first, last)
      PROVE  NoneAdded
  <2>1. /\ unchecked' = unchecked \cup {l}
        /\ \A k \in Leave \ {l} : request'[k] = request[k]
      BY <1>p, <1>2 DEF PortalCreate
  <2>2. QED
      BY <2>1 DEF NoneAdded, Checked, Active
<1>3. ASSUME PortalOverwrite(p)
      PROVE  NoneAdded
  <2> DEFINE l == proc[p].leave
  <2>1. /\ l \in Leave /\ proc[p].status \in Status /\ SetStatus(l, proc[p].status)
      BY <1>p, <1>3 DEF PortalOverwrite, At, Refers, AboutLeave, Handler
  <2>2. unchecked \subseteq unchecked' /\ (request[l].status = "pending" \/ l \in unchecked')
      BY <1>3 DEF PortalOverwrite
  <2> HIDE DEF l
  <2>3. QED
      BY <2>1, <2>2, SetStatusKeepsDates
<1>4. ASSUME request' = request, unchecked' = unchecked
      PROVE  NoneAdded
    BY <1>4, SameRequests
<1>5. NoneAdded
    BY <1>2, <1>3, <1>4 DEF Portal, PortalReadPending, tables, history
<1>6. QED
    BY <1>1, <1>5 DEF Quiet

\* An insert of a creator that is not alone does not count.
LEMMA InsertInCrowd ==
    ASSUME Typed, NEW c \in Creator, NEW l \in Leave, InsertRequest(c, l), c \in crowd
    PROVE  Quiet
<1>p. c \in Process /\ proc \in [Process -> Handler] /\ request \in [Leave -> Request]
    BY DEF Typed, StateOK, Process
<1>1. unchecked' = unchecked \cup {l} /\ crowd' = crowd \ {c}
    BY DEF InsertRequest
<1>2. \A k \in Leave \ {l} : request'[k] = request[k]
    BY <1>p DEF InsertRequest
<1>3. NoneAdded
    BY <1>1, <1>2 DEF NoneAdded, Checked, Active
<1>4. proc'[c].pc = "idle" /\ \A b \in Creator \ {c} : proc'[b] = proc[b]
    BY <1>p DEF InsertRequest, Return, Step, Idle, Process
<1>5. QED
    BY <1>1, <1>3, <1>4 DEF Quiet, Submitting

LEMMA CreateKeeps ==
    ASSUME Typed, NoneTwice, CrowdNoted, NEW c \in Creator, Create(c)
    PROVE  NoneTwice'
<1>p. c \in Process /\ proc \in [Process -> Handler] /\ Creator \subseteq Process
    BY DEF Typed, StateOK, Process
<1>1. ASSUME NEW first \in 1 .. LastDay, NEW last \in 1 .. LastDay,
             CheckOverlap(c, first, last)
      PROVE  NoneTwice'
  <2>1. request' = request /\ Checked' = Checked /\ Checked \subseteq Active
      BY <1>1, SameRequests DEF CheckOverlap, tables, Checked
  <2>2. NoOverlap'
      BY <2>1 DEF NoneTwice, NoOverlap, Meets
  <2>3. /\ proc'[c].first = first /\ proc'[c].last = last
        /\ \A b \in Creator \ {c} : proc'[b] = proc[b]
      BY <1>p, <1>1 DEF CheckOverlap, Step, Idle
  <2>4. \A l \in Checked : ~Meets(l, first, last)
      BY <1>1, <2>1 DEF CheckOverlap
  <2>5. ASSUME NEW b \in Creator \ crowd', b # c, proc'[b].pc \in Submitting
        PROVE  FALSE
    <3>1. b \in Busy(c)
        BY <2>3, <2>5 DEF Busy, At, Submitting
    <3>2. QED
        BY <1>1, <2>5, <3>1 DEF CheckOverlap, NoteCrowd
  <2>6. Cleared'
      BY <2>1, <2>3, <2>4, <2>5 DEF Cleared, Meets
  <2>7. QED
      BY <2>2, <2>6 DEF NoneTwice
<1>2. ASSUME NEW l \in Leave, InsertRequest(c, l), c \notin crowd
      PROVE  NoneTwice'
  <2>1. request' = [request EXCEPT ![l] = [status |-> "pending", first |-> proc[c].first,
                                           last |-> proc[c].last]]
      BY <1>2 DEF InsertRequest
  <2>2. /\ request'[l].first = proc[c].first /\ request'[l].last = proc[c].last
        /\ \A k \in Leave \ {l} : request'[k] = request[k]
        /\ unchecked' = unchecked
      BY <1>2, <2>1 DEF Typed, StateOK, InsertRequest
  <2>3. \A k \in Checked' \ {l} : k \in Checked /\ k \in Leave
      BY <2>2 DEF Active, Checked
  <2>4. \A k \in Checked : ~Meets(k, proc[c].first, proc[c].last)
      BY <1>2 DEF InsertRequest, At, NoneTwice, Cleared, Submitting
  <2>5. NoOverlap'
      BY <2>2, <2>3, <2>4 DEF NoneTwice, NoOverlap, Meets
  <2>6. \A b \in Creator : proc'[b].pc = "idle"
    <3>1. proc'[c].pc = "idle" /\ \A b \in Creator \ {c} : proc'[b] = proc[b]
        BY <1>p, <1>2 DEF InsertRequest, Return, Step, Idle
    <3>2. \A b \in Creator \ {c} : At(b, "idle")
        BY <1>2 DEF CrowdNoted, InsertRequest, At
    <3>3. QED
        BY <3>1, <3>2 DEF At
  <2>7. Cleared'
      BY <2>6 DEF Cleared, Submitting
  <2>8. QED
      BY <2>5, <2>7 DEF NoneTwice
<1>3. CASE GetLeaveBalance(c)
    BY <1>p, <1>3, BalanceQuiet, QuietKeeps
<1>4. QED
    BY <1>1, <1>2, <1>3, InsertInCrowd, QuietKeeps DEF Create

\* Whoever starts is noted with everybody under way, and whoever goes on was
\* noted before.
LEMMA CrowdStaysNoted == Typed /\ CrowdNoted /\ [Next]_vars => CrowdNoted'
<1> SUFFICES ASSUME Typed, CrowdNoted, [Next]_vars PROVE CrowdNoted'
    OBVIOUS
<1>p. proc \in [Process -> Handler] /\ Creator \subseteq Process
    BY DEF Typed, StateOK, Process
<1>1. ASSUME crowd \subseteq crowd',
             \A c \in Creator : proc'[c] = proc[c] \/ proc'[c].pc = "idle" \/ ~At(c, "idle")
      PROVE  CrowdNoted'
    BY <1>1 DEF CrowdNoted, At
<1>2. ASSUME NEW q \in Process \ Creator, Step(q, proc'[q]) \/ proc' = proc, crowd \subseteq crowd'
      PROVE  CrowdNoted'
  <2>1. \A c \in Creator : proc'[c] = proc[c]
      BY <1>p, <1>2 DEF Step
  <2>2. QED
      BY <1>1, <1>2, <2>1
<1>3. ASSUME NEW c \in Creator, Create(c)
      PROVE  CrowdNoted'
  <2>1. \A b \in Creator \ {c} : proc'[b] = proc[b]
      BY <1>p, <1>3 DEF Create, CheckOverlap, InsertRequest, GetLeaveBalance, CheckCached, MissCache,
             ReadUsage, ReadRow, Goto, Return, Step
  <2>2. ASSUME NEW first \in 1 .. LastDay, NEW last \in 1 .. LastDay, CheckOverlap(c, first, last)
        PROVE  CrowdNoted'
    <3>1. Busy(c) = {b \in Creator \ {c} : ~At(b, "idle")}
        BY DEF Busy
    <3>2. CASE Busy(c) = {}
      <4>1. \A b \in Creator \ {c} : proc'[b].pc = "idle"
          BY <2>1, <3>1, <3>2 DEF At
      <4>2. QED
          BY <4>1 DEF CrowdNoted, At
    <3>3. CASE Busy(c) # {}
      <4>1. crowd' = crowd \cup Busy(c) \cup {c}
          BY <2>2, <3>3 DEF CheckOverlap, NoteCrowd
      <4>2. QED
          BY <2>1, <3>1, <4>1 DEF CrowdNoted, At
    <3>4. QED
        BY <3>2, <3>3
  <2>3. ASSUME NEW l \in Leave, InsertRequest(c, l)
        PROVE  CrowdNoted'
    <3>1. proc'[c].pc = "idle" /\ crowd' = crowd \ {c}
        BY <1>p, <2>3 DEF InsertRequest, Return, Step, Idle
    <3>2. QED
        BY <2>1, <3>1 DEF CrowdNoted, At
  <2>4. CASE GetLeaveBalance(c)
    <3>1. proc[c].pc # "idle"
        BY <2>4 DEF GetLeaveBalance, CheckCached, MissCache, ReadUsage, ReadRow, At
    <3>2. QED
        BY <1>1, <1>p, <2>1, <2>4, <3>1, BalanceQuiet DEF At
  <2>5. QED
      BY <1>3, <2>2, <2>3, <2>4 DEF Create
<1>4. ASSUME NEW d \in Decider, Decide(d)
      PROVE  CrowdNoted'
  <2>1. d \in Process \ Creator
      BY RolesAssumption DEF Process
  <2>2. crowd' = crowd /\ (\A q \in Process \ {d} : proc'[q] = proc[q])
      BY <1>p, <1>4 DEF Decide, ReadPending, WriteDecision, FindDecided, AddTaken,
                        ReadStatus, WriteCancelled, RestoreTaken, Goto, Return, Step, history
  <2>3. QED
      BY <1>1, <1>p, <2>1, <2>2
<1>5. ASSUME NEW h \in Adjuster, Adjust(h)
      PROVE  CrowdNoted'
  <2>1. h \in Process \ Creator
      BY RolesAssumption DEF Process
  <2>2. \A q \in Process \ {h} : proc'[q] = proc[q]
      BY <1>p, <1>5 DEF Adjust, ReadAdjustment, WriteAdjustment, InsertClashes, LogAdjustment,
             ReadLive, UndoAdjustment, ViewBalance, GetLeaveBalance, CheckCached, MissCache,
             ReadUsage, ReadRow, Goto, Return, Step
  <2>3. crowd \subseteq crowd'
      BY <1>5 DEF Adjust, ReadAdjustment, WriteAdjustment, InsertClashes, LogAdjustment,
             ReadLive, UndoAdjustment, ViewBalance, GetLeaveBalance, CheckCached, MissCache,
             ReadUsage, ReadRow, history
  <2>4. QED
      BY <1>1, <1>p, <2>1, <2>2, <2>3
<1>6. ASSUME NEW p \in PortalUser, Portal(p)
      PROVE  CrowdNoted'
  <2>1. p \in Process \ Creator
      BY RolesAssumption DEF Process
  <2>2. crowd' = crowd /\ (\A q \in Process \ {p} : proc'[q] = proc[q])
      BY <1>p, <1>6 DEF Portal, PortalCreate, PortalReadPending, PortalOverwrite, Return, Step, history
  <2>3. QED
      BY <1>1, <1>p, <2>1, <2>2
<1>7. ASSUME NEW p \in Process, Fail(p)
      PROVE  CrowdNoted'
  <2>1. \A c \in Creator : proc'[c] = proc[c] \/ proc'[c].pc = "idle"
      BY <1>p, <1>7 DEF Fail, Return, Step, Idle
  <2>2. QED
      BY <1>1, <1>7, <2>1 DEF Fail
<1>8. CASE (\E carried \in Carry : OpenYear(carried)) \/ Expire \/ UNCHANGED vars
  <2>1. crowd' = crowd /\ proc' = proc
      BY <1>8 DEF OpenYear, Expire, vars, history
  <2>2. QED
      BY <1>1, <2>1
<1>9. QED
    BY <1>3, <1>4, <1>5, <1>6, <1>7, <1>8 DEF Next

LEMMA CrowdNotedHolds == Spec => []CrowdNoted
<1>1. Init => CrowdNoted
    BY DEF Init, CrowdNoted, At, Process, Idle
<1>2. QED
    BY <1>1, CrowdStaysNoted, TypedHolds, PTL DEF Spec

\* All steps but those of creators add nothing that counts.
LEMMA OthersQuiet ==
    ASSUME Typed, [Next]_vars, \A c \in Creator : ~Create(c)
    PROVE  Quiet
<1>1. ASSUME NEW p \in Process, Fail(p)
      PROVE  Quiet
  <2>1. request' = request /\ unchecked' = unchecked /\ crowd' = crowd
      BY <1>1 DEF Fail, tables
  <2>2. \A c \in Creator : proc'[c] = proc[c] \/ proc'[c].pc = "idle"
      BY <1>1 DEF Fail, Return, Step, Idle, Process, Typed, StateOK
  <2>3. QED
      BY <2>1, <2>2, SameRequests DEF Quiet, Submitting
<1>2. CASE (\E carried \in Carry : OpenYear(carried)) \/ Expire \/ UNCHANGED vars
  <2>1. request' = request /\ unchecked' = unchecked /\ crowd' = crowd /\ proc' = proc
      BY <1>2 DEF OpenYear, Expire, vars, tables, history
  <2>2. QED
      BY <2>1, SameRequests DEF Quiet
<1>3. QED
    BY <1>1, <1>2, DecideQuiet, AdjustQuiet, PortalQuiet DEF Next

\* Two requests of one employee never overlap if each was submitted in the
\* main backend while no other was: whatever other requests, decisions,
\* cancellations and the portal do meanwhile and wherever a handler dies, what
\* createLeaveRequest has checked still holds when it inserts.
THEOREM LeavesNeverOverlap == Spec => []NoOverlap
<1>1. Init => NoneTwice
  <2> SUFFICES ASSUME Init PROVE NoneTwice
      OBVIOUS
  <2>1. Checked = {}
      BY DEF Init, Checked, Active, NoRequest
  <2>2. QED
      BY <2>1 DEF NoneTwice, NoOverlap, Cleared
<1>2. Typed /\ NoneTwice /\ CrowdNoted /\ [Next]_vars => NoneTwice'
    BY CreateKeeps, OthersQuiet, QuietKeeps
<1>3. NoneTwice => NoOverlap
    BY DEF NoneTwice
<1>4. QED
    BY <1>1, <1>2, <1>3, TypedHolds, CrowdNotedHolds, PTL DEF Spec

-----------------------------------------------------------------------------
(* Days and processes.  The sums of the model, as sums over rows that are    *)
(* given, so that what holds of them can be said of the rows after a step.   *)

DaysFor(rows, leaves) == SumFunction([l \in leaves |-> Days(rows[l].first, rows[l].last)])
Spans(rows) == [l \in Leave |-> Days(rows[l].first, rows[l].last)]

LEMMA SpansTyped ==
    ASSUME NEW rows \in [Leave -> Request]
    PROVE  \A l \in Leave : /\ Spans(rows)[l] = Days(rows[l].first, rows[l].last)
                            /\ Spans(rows)[l] \in Nat
<1> SUFFICES ASSUME NEW l \in Leave
             PROVE  Days(rows[l].first, rows[l].last) \in Nat
    BY DEF Spans
<1>1. rows[l].first \in Int /\ rows[l].last \in Int
    BY YearAssumption DEF Request, Date
<1>2. QED
    BY <1>1 DEF Days, NotNegative

LEMMA DaysForSpans ==
    ASSUME NEW rows \in [Leave -> Request], NEW leaves, leaves \subseteq Leave
    PROVE  IsFiniteSet(leaves) /\ DaysFor(rows, leaves) = SumFunctionOnSet(Spans(rows), leaves)
<1> DEFINE f == [l \in leaves |-> Days(rows[l].first, rows[l].last)]
<1>1. IsFiniteSet(leaves)
    BY FiniteAssumption, FS_Subset
<1>2. DaysFor(rows, leaves) = SumFunctionOnSet(f, leaves)
    BY DEF DaysFor, SumFunction
<1>3. \A l \in leaves : f[l] = Spans(rows)[l]
    BY DEF Spans
<1> HIDE DEF f
<1>4. QED
    BY <1>1, <1>2, <1>3, SumSame

LEMMA DaysForTyped ==
    ASSUME NEW rows \in [Leave -> Request], NEW leaves, leaves \subseteq Leave
    PROVE  DaysFor(rows, leaves) \in Nat
BY SpansTyped, DaysForSpans, SumOfSubset

(* Fewer requests, on the dates they had, take no more days.                 *)
LEMMA FewerDays ==
    ASSUME NEW before \in [Leave -> Request], NEW after \in [Leave -> Request],
           NEW all, all \subseteq Leave, NEW some, some \subseteq all,
           \A l \in some : /\ after[l].first = before[l].first
                           /\ after[l].last = before[l].last
    PROVE  DaysFor(after, some) <= DaysFor(before, all)
<1>1. \A l \in some : Spans(after)[l] = Spans(before)[l]
    BY DEF Spans
<1>2. SumFunctionOnSet(Spans(after), some) = SumFunctionOnSet(Spans(before), some)
    BY <1>1, DaysForSpans, SumSame
<1>3. SumFunctionOnSet(Spans(before), some) <= SumFunctionOnSet(Spans(before), all)
    BY SpansTyped, DaysForSpans, SumOfSubset
<1>4. QED
    BY <1>2, <1>3, DaysForSpans

LEMMA SameDays ==
    ASSUME NEW before \in [Leave -> Request], NEW after \in [Leave -> Request],
           NEW leaves, leaves \subseteq Leave,
           \A l \in leaves : /\ after[l].first = before[l].first
                             /\ after[l].last = before[l].last
    PROVE  DaysFor(after, leaves) = DaysFor(before, leaves)
<1>1. \A l \in leaves : Spans(after)[l] = Spans(before)[l]
    BY DEF Spans
<1>2. QED
    BY <1>1, DaysForSpans, SumSame

LEMMA OneMoreLeave ==
    ASSUME NEW rows \in [Leave -> Request], NEW leaves, leaves \subseteq Leave,
           NEW l \in Leave, l \notin leaves
    PROVE  DaysFor(rows, leaves \cup {l})
             = DaysFor(rows, leaves) + Days(rows[l].first, rows[l].last)
<1>1. \A k \in leaves \cup {l} : Spans(rows)[k] \in Int
    BY SpansTyped
<1>2. SumFunctionOnSet(Spans(rows), leaves \cup {l})
        = SumFunctionOnSet(Spans(rows), leaves) + Spans(rows)[l]
    BY <1>1, DaysForSpans, SumWith
<1>3. DaysFor(rows, leaves \cup {l}) = SumFunctionOnSet(Spans(rows), leaves \cup {l})
  <2>1. leaves \cup {l} \subseteq Leave
      OBVIOUS
  <2>2. QED
      BY <2>1, DaysForSpans
<1>4. QED
    BY <1>2, <1>3, DaysForSpans, SpansTyped

LEMMA RowsTyped == Typed => request \in [Leave -> Request] /\ row \in Row
BY DEF Typed, StateOK

(* A handler's step leaves the other handlers where they are.                *)
LEMMA OthersStay ==
    ASSUME Typed, NEW p \in Process, NEW q \in Process, q # p,
           Create(p) \/ Decide(p) \/ Adjust(p) \/ Portal(p)
    PROVE  proc'[q] = proc[q]
<1>p. proc \in [Process -> Handler]
    BY DEF Typed, StateOK
<1>1. ASSUME NEW h, Step(p, h)
      PROVE  proc'[q] = proc[q]
    BY <1>p, <1>1 DEF Step
<1>2. (\E h : Step(p, h)) \/ proc' = proc
  <2>1. CASE Create(p)
      BY <2>1 DEF Create, CheckOverlap, InsertRequest, GetLeaveBalance, CheckCached, MissCache,
                  ReadUsage, ReadRow, Goto, Return
  <2>2. CASE Decide(p)
      BY <2>2 DEF Decide, ReadPending, WriteDecision, FindDecided, AddTaken, ReadStatus,
                  WriteCancelled, RestoreTaken, Goto, Return
  <2>3. CASE Adjust(p)
      BY <2>3 DEF Adjust, ReadAdjustment, WriteAdjustment, InsertClashes, LogAdjustment, ReadLive,
                  UndoAdjustment, ViewBalance, GetLeaveBalance, CheckCached, MissCache, ReadUsage,
                  ReadRow, Goto, Return
  <2>4. CASE Portal(p)
      BY <2>4 DEF Portal, PortalCreate, PortalReadPending, PortalOverwrite, Return
  <2>5. QED
      BY <2>1, <2>2, <2>3, <2>4
<1>3. QED
    BY <1>1, <1>2

-----------------------------------------------------------------------------
(* Entitlement.  What a creator that is alone has found to fit goes on       *)
(* fitting what was ever granted: only its own insert makes a request count. *)

Asked(h) == Days(h.first, h.last)

Covered ==
    /\ Entitled <= highest
    /\ SumDays(Checked) <= highest
    /\ \A c \in Creator \ crowd :
        /\ At(c, "row") => Checked \subseteq proc[c].used
        /\ At(c, "insert") => Asked(proc[c]) + SumDays(Checked) <= highest

LEMMA SumChecked ==
    /\ SumDays(Checked) = DaysFor(request, Checked)
    /\ (SumDays(Checked))' = DaysFor(request', Checked')
BY DEF SumDays, DaysOf, DaysFor

LEMMA AskedTyped == Typed => \A p \in Process : Asked(proc[p]) \in Nat
<1> SUFFICES ASSUME Typed, NEW p \in Process PROVE Asked(proc[p]) \in Nat
    OBVIOUS
<1>1. proc[p].first \in Int /\ proc[p].last \in Int
    BY YearAssumption DEF Typed, StateOK, Handler, Date
<1>2. QED
    BY <1>1 DEF Asked, Days, NotNegative

LEMMA HighestGrows ==
    ASSUME Typed, Typed', HistoryOK, Entitled <= highest, Grows
    PROVE  highest <= highest' /\ Entitled' <= highest' /\ highest' \in Int
<1>1. Entitled \in Int /\ highest \in Int
    BY EntitledTyped DEF HistoryOK
<1>2. Entitled' \in Int
  <2>1. Typed' => Entitled' \in Int
      BY YearAssumption DEF Typed, StateOK, Entitled, Row
  <2>2. QED
      BY <2>1
<1> HIDE DEF Entitled
<1>3. QED
    BY <1>1, <1>2 DEF Grows, Higher

\* A step that adds nothing and takes no creator that is alone to its insert.
LEMMA NothingMoreAsked ==
    ASSUME Typed, Typed', HistoryOK, Covered, Grows, NoneAdded,
           \A c \in Creator \ crowd' :
              proc'[c].pc \in {"row", "insert"} => proc'[c] = proc[c] /\ c \notin crowd
    PROVE  Covered'
<1> DEFINE before == DaysFor(request, Checked)
           after == DaysFor(request', Checked')
<1>1. SumDays(Checked) = before /\ (SumDays(Checked))' = after
    BY SumChecked
<1>2. /\ request \in [Leave -> Request] /\ request' \in [Leave -> Request]
      /\ Checked \subseteq Leave /\ Checked' \subseteq Checked
    BY DEF Typed, StateOK, Checked, Active, NoneAdded
<1>3. before \in Nat /\ after \in Nat
    BY <1>2, DaysForTyped
<1>4. after <= before
    BY <1>2, FewerDays DEF NoneAdded
<1>5. highest \in Int /\ highest' \in Int /\ highest <= highest' /\ Entitled' <= highest'
    BY HighestGrows DEF Covered, HistoryOK
<1> HIDE DEF before, after
<1>6. (SumDays(Checked) <= highest)'
    BY <1>1, <1>3, <1>4, <1>5 DEF Covered
<1>7. ASSUME NEW c \in Creator \ crowd'
      PROVE  (/\ At(c, "row") => Checked \subseteq proc[c].used
              /\ At(c, "insert") => Asked(proc[c]) + SumDays(Checked) <= highest)'
  <2>1. CASE proc'[c].pc \notin {"row", "insert"}
      BY <2>1 DEF At
  <2>2. CASE proc'[c] = proc[c] /\ c \notin crowd
    <3>1. At(c, "row") => Checked' \subseteq proc[c].used
        BY <1>2, <2>2 DEF Covered
    <3>2. At(c, "insert") => Asked(proc[c]) + before <= highest
        BY <1>1, <2>2 DEF Covered
    <3>3. Asked(proc[c]) \in Nat
        BY AskedTyped DEF Process
    <3>4. At(c, "insert") => Asked(proc[c]) + after <= highest'
        BY <1>3, <1>4, <1>5, <3>2, <3>3
    <3>5. Asked(proc[c])' = Asked(proc[c])
        BY <2>2 DEF Asked
    <3>6. QED
        BY <1>1, <2>2, <3>1, <3>4, <3>5 DEF At
  <2>3. QED
      BY <1>7, <2>1, <2>2
<1>8. QED
    BY <1>5, <1>6, <1>7 DEF Covered

\* What fits the balance as it was read fits the balance as it is.
LEMMA FitsStill ==
    ASSUME Typed, HistoryOK, Covered, NEW c \in Creator, c \notin crowd, At(c, "row"),
           Fits(c, [entitled |-> Entitled, used |-> proc[c].used])
    PROVE  Asked(proc[c]) + SumDays(Checked) <= highest
<1> DEFINE used == DaysFor(request, proc[c].used)
           checked == DaysFor(request, Checked)
           asked == Asked(proc[c])
<1>1. proc[c] \in Handler
    BY DEF Typed, StateOK, Process
<1>2. asked \in Nat
    BY AskedTyped DEF Process
<1>3. proc[c].used \subseteq Leave /\ Checked \subseteq proc[c].used
    BY <1>1 DEF Handler, Covered
<1>4. used \in Nat /\ checked \in Nat /\ checked <= used
    BY <1>3, RowsTyped, DaysForTyped, FewerDays
<1>5. SumDays(proc[c].used) = used /\ SumDays(Checked) = checked
    BY DEF SumDays, DaysOf, DaysFor
<1>6. Entitled \in Int /\ highest \in Int /\ Entitled <= highest
    BY EntitledTyped DEF HistoryOK, Covered
<1>7. asked <= NotNegative(Entitled - used)
    BY <1>5 DEF Fits, Available, Asked
<1>8. checked <= highest
    BY <1>5 DEF Covered
<1> HIDE DEF used, checked, asked
<1>9. asked + checked <= highest
    BY <1>2, <1>4, <1>6, <1>7, <1>8 DEF NotNegative
<1>10. QED
    BY <1>5, <1>9 DEF asked

LEMMA BalanceCovers ==
    ASSUME Typed, Typed', HistoryOK, Covered, Grows, NEW c \in Creator, GetLeaveBalance(c)
    PROVE  Covered'
<1>p. c \in Process /\ proc \in [Process -> Handler] /\ proc[c] \in Handler
    BY DEF Typed, StateOK, Process
<1>1. /\ NoneAdded /\ crowd \subseteq crowd' /\ request' = request /\ unchecked' = unchecked
    BY <1>p, BalanceQuiet DEF Quiet
<1>2. \A b \in Creator \ {c} : proc'[b] = proc[b]
    BY <1>p, OthersStay DEF Create, Process
<1>3. CASE c \in crowd' \/ proc'[c].pc \notin {"row", "insert"}
    BY <1>1, <1>2, <1>3, NothingMoreAsked
<1>4. CASE c \notin crowd' /\ proc'[c].pc \in {"row", "insert"}
  <2>1. ReadUsage(c) \/ ReadRow(c)
      BY <1>p, <1>4 DEF GetLeaveBalance, CheckCached, MissCache, Goto, Step, Handler
  <2>2. crowd' = crowd /\ row' = row /\ highest' = highest
      BY <2>1 DEF ReadUsage, ReadRow, tables, history
  <2>3. Active' = Active /\ Checked' = Checked /\ (SumDays(Checked))' = SumDays(Checked)
      BY <1>1, SameRequests, SumChecked
  <2>4. Entitled' <= highest' /\ (SumDays(Checked) <= highest)'
      BY <2>2, <2>3 DEF Covered, Entitled
  <2>5. (/\ At(c, "row") => Checked \subseteq proc[c].used
         /\ At(c, "insert") => Asked(proc[c]) + SumDays(Checked) <= highest)'
    <3>1. CASE ReadUsage(c)
      <4>1. proc'[c].used = Active /\ proc'[c].pc = "row"
          BY <1>p, <3>1 DEF ReadUsage, Step, Handler
      <4>2. QED
          BY <2>3, <4>1 DEF At, Checked
    <3>2. CASE ReadRow(c)
      <4>1. /\ At(c, "row") /\ Goto(c, "insert")
            /\ Fits(c, [entitled |-> Entitled, used |-> proc[c].used])
        <5>1. ~Return(c)
            BY <1>p, <1>4 DEF Return, Step, Idle
        <5>2. QED
            BY <3>2, <5>1 DEF ReadRow
      <4>2. Asked(proc[c]) + SumDays(Checked) <= highest
          BY <1>4, <2>2, <4>1, FitsStill
      <4>3. proc'[c].pc = "insert" /\ Asked(proc[c])' = Asked(proc[c])
          BY <1>p, <4>1 DEF Goto, Step, Handler, Asked
      <4>4. QED
          BY <2>2, <2>3, <4>2, <4>3 DEF At
    <3>3. QED
        BY <2>1, <3>1, <3>2
  <2>6. ASSUME NEW b \in Creator \ crowd', b # c
        PROVE  (/\ At(b, "row") => Checked \subseteq proc[b].used
                /\ At(b, "insert") => Asked(proc[b]) + SumDays(Checked) <= highest)'
    <3>1. proc'[b] = proc[b] /\ Asked(proc[b])' = Asked(proc[b]) /\ b \notin crowd
        BY <1>2, <2>2, <2>6 DEF Asked
    <3>2. QED
        BY <2>2, <2>3, <3>1 DEF Covered, At
  <2>7. QED
      BY <2>4, <2>5, <2>6 DEF Covered
<1>5. QED
    BY <1>3, <1>4

\* The insert of a creator that is alone uses what was left for it.
LEMMA InsertCovers ==
    ASSUME Typed, Typed', HistoryOK, Covered, Grows, CrowdNoted,
           NEW c \in Creator, c \notin crowd, NEW l \in Leave, InsertRequest(c, l)
    PROVE  Covered'
<1> DEFINE before == DaysFor(request, Checked)
           after == DaysFor(request', Checked')
           asked == Asked(proc[c])
<1>p. c \in Process /\ proc \in [Process -> Handler] /\ proc[c] \in Handler
    BY DEF Typed, StateOK, Process
<1>1. request \in [Leave -> Request] /\ request' \in [Leave -> Request] /\ Checked \subseteq Leave
    BY DEF Typed, StateOK, Checked, Active
<1>2. /\ request'[l].first = proc[c].first /\ request'[l].last = proc[c].last
      /\ \A k \in Leave \ {l} : request'[k] = request[k]
      /\ unchecked' = unchecked /\ highest' = highest /\ row' = row
    BY <1>1 DEF InsertRequest
<1>3. l \notin Checked /\ Checked' \subseteq Checked \cup {l}
  <2>1. l \notin Checked
      BY DEF InsertRequest, Checked, Active
  <2>2. QED
      BY <1>2, <2>1 DEF Checked, Active
<1>4. DaysFor(request', Checked \cup {l}) = before + asked
  <2>1. \A k \in Checked : request'[k] = request[k]
      BY <1>1, <1>2, <1>3
  <2>2. DaysFor(request', Checked) = before
      BY <1>1, <2>1, SameDays
  <2>3. DaysFor(request', Checked \cup {l})
          = DaysFor(request', Checked) + Days(request'[l].first, request'[l].last)
      BY <1>1, <1>3, OneMoreLeave
  <2>4. QED
      BY <1>2, <2>2, <2>3 DEF Asked
<1>5. after <= DaysFor(request', Checked \cup {l})
  <2>1. Checked \cup {l} \subseteq Leave
      BY <1>1
  <2>2. QED
      BY <1>1, <1>3, <2>1, FewerDays
<1>6. before \in Nat /\ after \in Nat /\ asked \in Nat /\ highest \in Int
  <2>1. Checked' \subseteq Leave
      BY <1>1, <1>3
  <2>2. QED
      BY <1>p, <1>1, <2>1, DaysForTyped, AskedTyped DEF HistoryOK
<1>7. asked + before <= highest
    BY SumChecked DEF InsertRequest, Covered
<1>8. Entitled' <= highest'
    BY <1>2 DEF Entitled, Covered
<1>9. \A b \in Creator : proc'[b].pc = "idle"
  <2>1. proc'[c].pc = "idle" /\ \A b \in Creator \ {c} : proc'[b] = proc[b]
      BY <1>p DEF InsertRequest, Return, Step, Idle, Process
  <2>2. \A b \in Creator \ {c} : At(b, "idle")
      BY DEF CrowdNoted, InsertRequest, At
  <2>3. QED
      BY <2>1, <2>2 DEF At
<1> HIDE DEF before, after, asked
<1>10. after <= highest'
    BY <1>2, <1>4, <1>5, <1>6, <1>7
<1>11. (SumDays(Checked) <= highest)'
    BY <1>10, SumChecked DEF after
<1>12. QED
    BY <1>8, <1>9, <1>11 DEF Covered, At

LEMMA CreateCovers ==
    ASSUME Typed, Typed', HistoryOK, Covered, Grows, CrowdNoted, NEW c \in Creator, Create(c)
    PROVE  Covered'
<1>1. ASSUME NEW first \in 1 .. LastDay, NEW last \in 1 .. LastDay,
             CheckOverlap(c, first, last)
      PROVE  Covered'
  <2>1. proc'[c].pc = "check" /\ \A b \in Creator \ {c} : proc'[b] = proc[b]
      BY <1>1 DEF CheckOverlap, Step, Typed, StateOK, Process, Idle
  <2>2. ASSUME NEW b \in Creator \ crowd'
        PROVE  proc'[b].pc \notin {"row", "insert"}
    <3>1. b = c \/ At(b, "idle")
        BY <1>1, <2>2 DEF CheckOverlap, NoteCrowd, Busy
    <3>2. QED
        BY <2>1, <3>1 DEF At
  <2>3. NoneAdded
      BY <1>1, SameRequests DEF CheckOverlap, tables
  <2>4. QED
      BY <2>2, <2>3, NothingMoreAsked
<1>2. ASSUME NEW l \in Leave, InsertRequest(c, l), c \in crowd
      PROVE  Covered'
  <2>1. NoneAdded
      BY <1>2, InsertInCrowd DEF Quiet
  <2>2. /\ proc'[c].pc = "idle" /\ \A b \in Creator \ {c} : proc'[b] = proc[b]
        /\ crowd' = crowd \ {c}
      BY <1>2 DEF InsertRequest, Return, Step, Idle, Process, Typed, StateOK
  <2>3. QED
      BY <2>1, <2>2, NothingMoreAsked
<1>3. QED
    BY <1>1, <1>2, BalanceCovers, InsertCovers DEF Create

LEMMA OthersCover ==
    ASSUME Typed, Typed', HistoryOK, Covered, Grows, [Next]_vars, \A c \in Creator : ~Create(c)
    PROVE  Covered'
<1>1. NoneAdded
    BY OthersQuiet DEF Quiet
<1>2. ASSUME NEW p \in Process \ Creator, Decide(p) \/ Adjust(p) \/ Portal(p), crowd \subseteq crowd'
      PROVE  Covered'
  <2>1. \A c \in Creator : proc'[c] = proc[c]
      BY <1>2, OthersStay DEF Process
  <2>2. QED
      BY <1>1, <1>2, <2>1, NothingMoreAsked
<1>3. ASSUME NEW p \in Process, Fail(p)
      PROVE  Covered'
  <2>1. crowd' = crowd /\ \A c \in Creator : proc'[c] = proc[c] \/ proc'[c].pc = "idle"
      BY <1>3 DEF Fail, Return, Step, Idle, Process, Typed, StateOK
  <2>2. QED
      BY <1>1, <2>1, NothingMoreAsked
<1>4. CASE (\E carried \in Carry : OpenYear(carried)) \/ Expire \/ UNCHANGED vars
  <2>1. crowd' = crowd /\ proc' = proc
      BY <1>4 DEF OpenYear, Expire, vars, history
  <2>2. QED
      BY <1>1, <2>1, NothingMoreAsked
<1>5. ASSUME NEW d \in Decider, Decide(d)
      PROVE  d \in Process \ Creator /\ crowd \subseteq crowd'
    BY <1>5, RolesAssumption
       DEF Process, Decide, ReadPending, WriteDecision, FindDecided, AddTaken, ReadStatus,
           WriteCancelled, RestoreTaken, history
<1>6. ASSUME NEW h \in Adjuster, Adjust(h)
      PROVE  h \in Process \ Creator /\ crowd \subseteq crowd'
    BY <1>6, RolesAssumption
       DEF Process, Adjust, ReadAdjustment, WriteAdjustment, InsertClashes, LogAdjustment, ReadLive,
           UndoAdjustment, ViewBalance, GetLeaveBalance, CheckCached, MissCache, ReadUsage, ReadRow,
           history
<1>7. ASSUME NEW p \in PortalUser, Portal(p)
      PROVE  p \in Process \ Creator /\ crowd \subseteq crowd'
    BY <1>7, RolesAssumption
       DEF Process, Portal, PortalCreate, PortalReadPending, PortalOverwrite, history
<1>8. QED
    BY <1>2, <1>3, <1>4, <1>5, <1>6, <1>7 DEF Next

\* The requests submitted one at a time on a balance read from the tables
\* never come to more days than the employee was once entitled to: although
\* the balance is read in two statements and the insert is a third, whoever
\* decides, cancels and adjusts meanwhile, in either application, whenever the
\* year is opened and wherever a handler dies.
THEOREM LeaveAskedWithinEntitlement == Spec => []AskedWithinEntitlement
<1>1. Init => Covered
  <2> SUFFICES ASSUME Init PROVE Covered
      OBVIOUS
  <2>1. Checked = {}
      BY DEF Init, Checked, Active, NoRequest
  <2>2. SumDays(Checked) = 0
    <3>1. DaysFor(request, {}) = SumFunctionOnSet(Spans(request), {})
        BY InitTyped, RowsTyped, DaysForSpans
    <3>2. QED
        BY <2>1, <3>1, SumOfNothing, SumChecked
  <2>3. Entitled \in Nat /\ highest = Entitled
      BY YearAssumption DEF Init, Entitled, OpeningRow, NoRow
  <2>4. \A c \in Creator : proc[c].pc = "idle"
      BY DEF Init, Process, Idle
  <2>5. QED
      BY <2>2, <2>3, <2>4 DEF Covered, At
<1>2. Typed /\ HistoryOK /\ CrowdNoted /\ Covered /\ [Next]_vars => Covered'
    BY NextTyped, HistoryGrows, CreateCovers, OthersCover
<1>3. Covered => AskedWithinEntitlement
    BY DEF Covered, AskedWithinEntitlement
<1>4. QED
    BY <1>1, <1>2, <1>3, TypedHolds, HistoryHolds, CrowdNotedHolds, PTL DEF Spec

-----------------------------------------------------------------------------
(* The days taken.  Between a decision and its effect on the balance, a      *)
(* request is counted as it was before the decision.                         *)

Owed == {l \in Leave : \E d \in Decider : At(d, "take") /\ proc[d].leave = l}
Due == {l \in Leave : \E d \in Decider : At(d, "restore") /\ proc[d].leave = l}
Counted == (Approved \ Owed) \cup Due

\* Deciders are at different requests and know what they are doing.
DecidersApart ==
    \A d, e \in Decider : d # e /\ proc[d].leave = proc[e].leave => proc[d].leave = NoLeave

Knows(d) ==
    /\ proc[d].pc \in AboutLeave => request[proc[d].leave].status # "none"
    /\ At(d, "take") => request[proc[d].leave].status = "approved"
    /\ At(d, "cancel") =>
         (proc[d].status = "approved" <=> request[proc[d].leave].status = "approved")
    /\ At(d, "restore") => request[proc[d].leave].status # "approved"

Tallied ==
    /\ DecidersApart
    /\ \A d \in Decider : Knows(d)
    /\ ~row.exists => row.taken = 0
    /\ row.taken = SumDays(Counted)

LEMMA SumCounted ==
    ASSUME Typed, Typed'
    PROVE  /\ SumDays(Counted) = DaysFor(request, Counted)
           /\ (SumDays(Counted))' = DaysFor(request', Counted')
           /\ Counted \subseteq Leave /\ Counted' \subseteq Leave
           /\ request \in [Leave -> Request] /\ request' \in [Leave -> Request]
BY DEF SumDays, DaysOf, DaysFor, Counted, Approved, Due, Typed, StateOK

LEMMA CountedStays ==
    ASSUME Typed, Typed', Counted' = Counted,
           \A l \in Counted : /\ request'[l].first = request[l].first
                              /\ request'[l].last = request[l].last
    PROVE  (SumDays(Counted))' = SumDays(Counted)
BY SumCounted, SameDays

LEMMA OneMoreCounted ==
    ASSUME Typed, Typed', NEW l \in Leave, l \notin Counted, Counted' = Counted \cup {l},
           request' = request
    PROVE  (SumDays(Counted))' = SumDays(Counted) + DaysOf(l)
BY SumCounted, OneMoreLeave DEF DaysOf

LEMMA OneLessCounted ==
    ASSUME Typed, Typed', NEW l \in Leave, l \in Counted, Counted' = Counted \ {l},
           request' = request
    PROVE  SumDays(Counted) = (SumDays(Counted))' + DaysOf(l)
<1>1. Counted = Counted' \cup {l} /\ l \notin Counted'
    OBVIOUS
<1>2. DaysFor(request, Counted' \cup {l}) = DaysFor(request, Counted') + DaysOf(l)
    BY <1>1, SumCounted, OneMoreLeave DEF DaysOf
<1>3. QED
    BY <1>1, <1>2, SumCounted

\* A step of others that touches no approval.
NoneApproved ==
    \A l \in Leave :
        \/ request'[l] = request[l]
        \/ /\ request[l].status # "approved"
           /\ request'[l].status \notin {"none", "approved"}
           /\ request[l].status # "none" => /\ request'[l].first = request[l].first
                                            /\ request'[l].last = request[l].last

LEMMA NothingDecided ==
    ASSUME Typed, Typed', Tallied, NoneApproved,
           row'.taken = row.taken,
           ~row'.exists => ~row.exists,
           \A d \in Decider : proc'[d] = proc[d]
    PROVE  Tallied'
<1>1. ASSUME NEW d \in Decider, proc[d].pc \in AboutLeave
      PROVE  proc[d].leave \in Leave /\ request[proc[d].leave].status # "none"
    BY <1>1 DEF Typed, Process, Refers, Tallied, Knows
<1>2. \A d \in Decider : Knows(d)'
  <2> SUFFICES ASSUME NEW d \in Decider PROVE Knows(d)'
      OBVIOUS
  <2>1. CASE proc[d].pc \in AboutLeave
      BY <1>1, <2>1 DEF Tallied, Knows, NoneApproved, At
  <2>2. CASE proc[d].pc \notin AboutLeave
      BY <2>2 DEF Knows, At, AboutLeave
  <2>3. QED
      BY <2>1, <2>2
<1>3. Owed' = Owed /\ Due' = Due /\ Approved' = Approved
    BY DEF Owed, Due, Approved, NoneApproved, At
<1>4. \A l \in Counted : /\ request'[l].first = request[l].first
                         /\ request'[l].last = request[l].last
  <2>1. \A l \in Counted : l \in Leave /\ request[l].status # "none"
      BY <1>1 DEF Counted, Approved, Due, At, AboutLeave
  <2>2. QED
      BY <2>1 DEF NoneApproved
<1>5. (SumDays(Counted))' = SumDays(Counted)
    BY <1>3, <1>4, CountedStays DEF Counted
<1>6. DecidersApart'
    BY DEF Tallied, DecidersApart
<1>7. QED
    BY <1>2, <1>5, <1>6 DEF Tallied

\* Decisions.  Nobody else is at the request whose status changes.
LEMMA DecideApart ==
    ASSUME Typed, Tallied, NEW d \in Decider, Decide(d), "taken" \notin astray'
    PROVE  DecidersApart' /\ \A e \in Decider : Knows(e)'
<1>p. /\ Decider \subseteq Process /\ proc \in [Process -> Handler] /\ Refers(proc[d])
      /\ request \in [Leave -> Request]
    BY DEF Typed, StateOK, Process
<1>o. \A e \in Decider \ {d} : proc'[e] = proc[e]
    BY <1>p, OthersStay
<1>1. ASSUME proc'[d].leave = NoLeave \/ proc'[d].leave = proc[d].leave
             \/ ~DecidedElsewhere(d, proc'[d].leave)
      PROVE  DecidersApart'
    BY <1>o, <1>1 DEF Tallied, DecidersApart, DecidedElsewhere
<1>2. ASSUME request' = request \/ \E s : SetStatus(proc[d].leave, s), At(d, "decide") \/ At(d, "cancel")
                                    \/ request' = request
      PROVE  \A e \in Decider \ {d} : Knows(e)'
  <2> SUFFICES ASSUME NEW e \in Decider \ {d} PROVE Knows(e)'
      OBVIOUS
  <2>1. CASE proc[e].pc \notin AboutLeave
      BY <1>o, <2>1 DEF Knows, At, AboutLeave
  <2>2. CASE proc[e].pc \in AboutLeave
    <3>1. proc[e].leave \in Leave
        BY <1>p, <2>2 DEF Typed, Refers
    <3>2. proc[d].leave # proc[e].leave
        BY <3>1, NothingAssumption DEF Tallied, DecidersApart
    <3>3. request'[proc[e].leave] = request[proc[e].leave]
        BY <1>p, <1>2, <3>1, <3>2 DEF SetStatus
    <3>4. QED
        BY <1>o, <3>3 DEF Tallied, Knows, At
  <2>3. QED
      BY <2>1, <2>2
<1>3. CASE \E l \in Leave, verdict \in {"approved", "rejected"} : ReadPending(d, l, verdict)
  <2>1. PICK l \in Leave, verdict \in {"approved", "rejected"} : ReadPending(d, l, verdict)
      BY <1>3
  <2>2. request' = request /\ request[l].status = "pending" /\ ~DecidedElsewhere(d, l)
      BY <2>1 DEF ReadPending, tables, Note
  <2>3. proc'[d].pc = "decide" /\ proc'[d].leave = l
      BY <1>p, <2>1 DEF ReadPending, Step, Idle
  <2>4. Knows(d)'
      BY <2>2, <2>3 DEF Knows, At
  <2>5. QED
      BY <1>1, <1>2, <2>2, <2>3, <2>4
<1>4. CASE \E l \in Leave : ReadStatus(d, l)
  <2>1. PICK l \in Leave : ReadStatus(d, l)
      BY <1>4
  <2>2. request' = request /\ request[l].status # "none" /\ ~DecidedElsewhere(d, l)
      BY <2>1 DEF ReadStatus, tables, Note
  <2>3. proc'[d].pc = "cancel" /\ proc'[d].leave = l /\ proc'[d].status = request[l].status
      BY <1>p, <2>1 DEF ReadStatus, Step, Idle
  <2>4. Knows(d)'
      BY <2>2, <2>3 DEF Knows, At
  <2>5. QED
      BY <1>1, <1>2, <2>2, <2>3, <2>4
<1>5. CASE FindDecided(d) \/ AddTaken(d) \/ RestoreTaken(d)
  <2>1. request' = request /\ proc'[d] = Idle
      BY <1>p, <1>5 DEF FindDecided, AddTaken, RestoreTaken, Return, Step, tables
  <2>2. Knows(d)'
      BY <2>1 DEF Knows, At, Idle, AboutLeave
  <2>3. QED
      BY <1>1, <1>2, <2>1, <2>2 DEF Idle
<1>6. ASSUME WriteDecision(d) \/ WriteCancelled(d)
      PROVE  DecidersApart' /\ \A e \in Decider : Knows(e)'
  <2>1. /\ proc[d].leave \in Leave
        /\ \E s : SetStatus(proc[d].leave, s)
        /\ At(d, "decide") \/ At(d, "cancel")
      BY <1>p, <1>6 DEF WriteDecision, WriteCancelled, At, Refers, AboutLeave
  <2>2. CASE Return(d)
    <3>1. proc'[d] = Idle
        BY <1>p, <2>2 DEF Return, Step
    <3>2. Knows(d)'
        BY <3>1 DEF Knows, At, Idle, AboutLeave
    <3>3. QED
        BY <1>1, <1>2, <2>1, <3>1, <3>2 DEF Idle
  <2>3. CASE WriteDecision(d) /\ proc[d].status = "approved" /\ Goto(d, "take")
    <3>1. proc'[d].leave = proc[d].leave /\ proc'[d].pc = "take"
        BY <1>p, <2>3 DEF Goto, Step, Handler
    <3>2. request'[proc[d].leave].status = "approved"
        BY <1>p, <2>1, <2>3 DEF WriteDecision, SetStatus, Request
    <3>3. Knows(d)'
        BY <3>1, <3>2 DEF Knows, At
    <3>4. QED
        BY <1>1, <1>2, <2>1, <3>1, <3>3
  <2>4. CASE WriteCancelled(d) /\ Goto(d, "restore")
    <3>1. proc'[d].leave = proc[d].leave /\ proc'[d].pc = "restore"
        BY <1>p, <2>4 DEF Goto, Step, Handler
    <3>2. request'[proc[d].leave].status = "cancelled"
        BY <1>p, <2>1, <2>4 DEF WriteCancelled, SetStatus, Request
    <3>3. Knows(d)'
        BY <3>1, <3>2 DEF Knows, At
    <3>4. QED
        BY <1>1, <1>2, <2>1, <3>1, <3>3
  <2>5. QED
      BY <1>6, <2>2, <2>3, <2>4 DEF WriteDecision, WriteCancelled
<1>7. QED
    BY <1>3, <1>4, <1>5, <1>6 DEF Decide

LEMMA DecideTallies ==
    ASSUME Typed, Typed', Tallied, NEW d \in Decider, Decide(d), "taken" \notin astray'
    PROVE  Tallied'
<1> DEFINE l == proc[d].leave
<1>p. /\ d \in Process /\ Decider \subseteq Process /\ proc \in [Process -> Handler]
      /\ proc[d] \in Handler /\ Refers(proc[d])
      /\ request \in [Leave -> Request] /\ row \in Row /\ row' \in Row
    BY DEF Typed, StateOK, Process
<1>o. \A e \in Decider \ {d} : proc'[e] = proc[e]
    BY <1>p, OthersStay
<1>k. DecidersApart' /\ \A e \in Decider : Knows(e)'
    BY DecideApart
<1>a. ASSUME l \in Leave
      PROVE  \A e \in Decider \ {d} : proc[e].leave # l
    BY <1>a, NothingAssumption DEF Tallied, DecidersApart
<1>f. SumDays(Counted) \in Nat /\ (SumDays(Counted))' \in Nat /\ row.taken \in Nat
    BY <1>p, SumCounted, DaysForTyped DEF Row
<1>1. ASSUME Counted' = Counted, row' = row,
             \A k \in Counted : /\ request'[k].first = request[k].first
                                /\ request'[k].last = request[k].last
      PROVE  Tallied'
    BY <1>k, <1>1, CountedStays DEF Tallied
<1>2. CASE \/ \E k \in Leave, verdict \in {"approved", "rejected"} : ReadPending(d, k, verdict)
           \/ \E k \in Leave : ReadStatus(d, k)
           \/ FindDecided(d)
  <2>1. request' = request /\ row' = row
      BY <1>2 DEF ReadPending, ReadStatus, FindDecided, tables
  <2>2. proc[d].pc \notin {"take", "restore"} /\ proc'[d].pc \notin {"take", "restore"}
    <3>1. ASSUME NEW k, NEW verdict, ReadPending(d, k, verdict)
          PROVE  proc[d].pc = "idle" /\ proc'[d].pc = "decide"
        BY <1>p, <3>1 DEF ReadPending, At, Step, Idle
    <3>2. ASSUME NEW k, ReadStatus(d, k)
          PROVE  proc[d].pc = "idle" /\ proc'[d].pc = "cancel"
        BY <1>p, <3>2 DEF ReadStatus, At, Step, Idle
    <3>3. FindDecided(d) => proc[d].pc = "decide" /\ proc'[d].pc = "idle"
        BY <1>p DEF FindDecided, At, Return, Step, Idle
    <3>4. QED
        BY <1>2, <3>1, <3>2, <3>3
  <2>3. Owed' = Owed /\ Due' = Due /\ Approved' = Approved
      BY <1>o, <2>1, <2>2 DEF Owed, Due, Approved, At
  <2>4. QED
      BY <1>1, <2>1, <2>3 DEF Counted
<1>3. CASE WriteDecision(d) \/ WriteCancelled(d)
  <2>1. /\ l \in Leave /\ row' = row
        /\ \E s \in Status : SetStatus(l, s)
        /\ proc[d].pc \notin {"take", "restore"}
    <3>1. "cancelled" \in Status
        BY DEF Status
    <3>2. QED
        BY <1>p, <1>3, <3>1 DEF WriteDecision, WriteCancelled, At, Refers, AboutLeave, Handler
  <2> DEFINE s == request'[l].status
  <2>2. /\ \A k \in Leave \ {l} : request'[k] = request[k]
        /\ request'[l].first = request[l].first /\ request'[l].last = request[l].last
      BY <1>p, <2>1 DEF SetStatus, Request
  <2>3. l \notin Owed /\ l \notin Due
      BY <1>a, <2>1 DEF Owed, Due, At
  <2>4. Owed' \ {l} = Owed /\ Due' \ {l} = Due /\ Approved' \ {l} = Approved \ {l}
    <3>1. \A k \in Leave \ {l} : /\ k \in Owed' <=> k \in Owed
                                 /\ k \in Due' <=> k \in Due
                                 /\ k \in Approved' <=> k \in Approved
      <4>1. proc'[d].leave = l \/ proc'[d].pc = "idle"
        <5>1. ASSUME NEW pc, Goto(d, pc)
              PROVE  proc'[d].leave = l
            BY <1>p, <5>1 DEF Goto, Step, Handler
        <5>2. Return(d) => proc'[d].pc = "idle"
            BY <1>p DEF Return, Step, Idle
        <5>3. QED
            BY <1>3, <5>1, <5>2 DEF WriteDecision, WriteCancelled
      <4>2. QED
          BY <1>o, <2>1, <2>2, <4>1 DEF Owed, Due, Approved, At
    <3>2. QED
        BY <2>3, <3>1 DEF Owed, Due, Approved
  <2>5. l \in Counted' <=> l \in Counted
    <3>1. CASE WriteDecision(d) /\ proc[d].status = "approved"
      <4>1. proc'[d].pc = "take" /\ proc'[d].leave = l /\ request[l].status = "pending"
          BY <1>p, <3>1 DEF WriteDecision, Goto, Step, Handler
      <4>2. l \in Owed' /\ l \notin Due' /\ l \notin Approved
          BY <1>o, <1>a, <2>1, <4>1 DEF Owed, Due, Approved, At
      <4>3. QED
          BY <2>3, <4>2 DEF Counted
    <3>2. CASE WriteCancelled(d) /\ proc[d].status = "approved"
      <4>1. proc'[d].pc = "restore" /\ proc'[d].leave = l
          BY <1>p, <3>2 DEF WriteCancelled, Goto, Step, Handler
      <4>2. l \in Due' /\ l \in Approved
          BY <1>p, <2>1, <3>2, <4>1 DEF Due, Approved, At, WriteCancelled, Tallied, Knows
      <4>3. QED
          BY <2>3, <4>2 DEF Counted
    <3>3. CASE proc[d].status # "approved"
      <4>1. proc'[d].pc = "idle" /\ s # "approved"
          BY <1>p, <1>3, <2>1, <3>3
             DEF WriteDecision, WriteCancelled, Return, Step, Idle, SetStatus, Request
      <4>2. l \notin Approved
          BY <1>3, <3>3 DEF Approved, WriteDecision, WriteCancelled, At, Tallied, Knows
      <4>3. l \notin Due' /\ l \notin Approved'
          BY <1>o, <1>a, <2>1, <4>1 DEF Due, Approved, At
      <4>4. QED
          BY <2>3, <4>2, <4>3 DEF Counted
    <3>4. QED
        BY <1>3, <3>1, <3>2, <3>3
  <2>6. Counted' = Counted
      BY <2>3, <2>4, <2>5 DEF Counted
  <2>7. \A k \in Counted : /\ request'[k].first = request[k].first
                           /\ request'[k].last = request[k].last
      BY <2>2 DEF Counted, Approved, Due
  <2>8. QED
      BY <1>1, <2>1, <2>6, <2>7
<1>4. CASE AddTaken(d) \/ RestoreTaken(d)
  <2>1. /\ l \in Leave /\ request' = request /\ proc'[d] = Idle /\ row.exists
        /\ "take" \in AboutLeave /\ "restore" \in AboutLeave
      BY <1>p, <1>4 DEF AddTaken, RestoreTaken, At, Return, Step, Refers, AboutLeave, Note
  <2>2. /\ Owed' = Owed \ {l} /\ Due' = Due \ {l} /\ Approved' = Approved
      BY <1>o, <1>a, <2>1 DEF Owed, Due, Approved, At, Idle
  <2>3. DaysOf(l) \in Nat
      BY <2>1, DaysTyped
  <2>4. CASE AddTaken(d)
    <3>1. l \in Owed /\ l \in Approved /\ l \notin Due
        BY <1>a, <2>1, <2>4 DEF AddTaken, At, Owed, Due, Approved, Tallied, Knows
    <3>2. l \notin Counted /\ Counted' = Counted \cup {l}
        BY <2>2, <3>1 DEF Counted
    <3>3. row'.taken = row.taken + DaysOf(l) /\ row'.exists
        BY <1>p, <2>1, <2>4 DEF AddTaken, Row
    <3>4. (SumDays(Counted))' = SumDays(Counted) + DaysOf(l)
        BY <2>1, <3>2, OneMoreCounted
    <3> HIDE DEF l
    <3>5. QED
        BY <1>k, <3>3, <3>4 DEF Tallied
  <2>5. CASE RestoreTaken(d)
    <3>1. l \in Due /\ l \notin Approved
        BY <2>1, <2>5 DEF RestoreTaken, At, Due, Approved, Tallied, Knows
    <3>2. l \in Counted /\ Counted' = Counted \ {l}
        BY <2>2, <3>1 DEF Counted
    <3>3. row'.taken = NotNegative(row.taken - DaysOf(l)) /\ row'.exists
        BY <1>p, <2>1, <2>5, <1>f, <2>3 DEF RestoreTaken, Row
    <3>4. SumDays(Counted) = (SumDays(Counted))' + DaysOf(l)
        BY <2>1, <3>2, OneLessCounted
    <3>5. row.taken = (SumDays(Counted))' + DaysOf(l)
        BY <3>4 DEF Tallied
    <3> DEFINE days == DaysOf(l)
               sum == (SumDays(Counted))'
    <3> HIDE DEF days, sum
    <3>6. row'.taken = sum
      <4>1. days \in Nat /\ sum \in Nat /\ row.taken = sum + days
          BY <1>f, <2>3, <3>5 DEF days, sum
      <4>2. row'.taken = NotNegative(row.taken - days)
          BY <3>3 DEF days
      <4>3. QED
          BY <4>1, <4>2 DEF NotNegative
    <3> HIDE DEF l
    <3>7. QED
        BY <1>k, <3>3, <3>6 DEF Tallied, sum
  <2>6. QED
      BY <1>4, <2>4, <2>5
<1>5. QED
    BY <1>2, <1>3, <1>4 DEF Decide

LEMMA CreateTallies ==
    ASSUME Typed, Typed', Tallied, NEW c \in Creator, Create(c)
    PROVE  Tallied'
<1>1. row' = row
    BY DEF Create, CheckOverlap, InsertRequest, GetLeaveBalance, CheckCached, MissCache,
           ReadUsage, ReadRow, tables
<1>2. \A d \in Decider : proc'[d] = proc[d]
  <2>1. \A d \in Decider : d \in Process /\ d # c /\ c \in Process
      BY RolesAssumption DEF Process
  <2>2. QED
      BY <2>1, OthersStay
<1>3. NoneApproved
  <2>1. ASSUME NEW k \in Leave, InsertRequest(c, k)
        PROVE  NoneApproved
      BY <2>1, RowsTyped DEF InsertRequest, NoneApproved
  <2>2. QED
      BY <2>1 DEF NoneApproved, Create, CheckOverlap, GetLeaveBalance, CheckCached, MissCache,
                  ReadUsage, ReadRow, tables
<1>4. QED
    BY <1>1, <1>2, <1>3, NothingDecided

LEMMA AdjustTallies ==
    ASSUME Typed, Typed', Tallied, NEW h \in Adjuster, Adjust(h)
    PROVE  Tallied'
<1>1. request' = request
    BY DEF Adjust, ReadAdjustment, WriteAdjustment, InsertClashes, LogAdjustment, ReadLive,
           UndoAdjustment, ViewBalance, GetLeaveBalance, CheckCached, MissCache, ReadUsage,
           ReadRow, tables
<1>2. row'.taken = row.taken /\ (row.exists => row'.exists)
    BY RowsTyped DEF Row, Adjust, ReadAdjustment, WriteAdjustment, InsertClashes,
           LogAdjustment, ReadLive, UndoAdjustment, ViewBalance, GetLeaveBalance, CheckCached,
           MissCache, ReadUsage, ReadRow, tables
<1>3. \A d \in Decider : proc'[d] = proc[d]
  <2>1. \A d \in Decider : d \in Process /\ d # h /\ h \in Process
      BY RolesAssumption DEF Process
  <2>2. QED
      BY <2>1, OthersStay
<1>4. QED
    BY <1>1, <1>2, <1>3, NothingDecided DEF NoneApproved

LEMMA PortalTallies ==
    ASSUME Typed, Typed', Tallied, NEW p \in PortalUser, Portal(p), "taken" \notin astray'
    PROVE  Tallied'
<1>p. /\ p \in Process /\ Refers(proc[p]) /\ request \in [Leave -> Request]
    BY DEF Typed, StateOK, Process
<1>1. row' = row
    BY DEF Portal, PortalCreate, PortalReadPending, PortalOverwrite, tables
<1>2. \A d \in Decider : proc'[d] = proc[d]
  <2>1. \A d \in Decider : d \in Process /\ d # p
      BY RolesAssumption DEF Process
  <2>2. QED
      BY <1>p, <2>1, OthersStay
<1>3. NoneApproved
  <2>1. ASSUME NEW l \in Leave, NEW first, NEW last, PortalCreate(l, first, last)
        PROVE  NoneApproved
      BY <1>p, <2>1 DEF PortalCreate, NoneApproved
  <2>2. CASE PortalOverwrite(p)
    <3>1. /\ proc[p].leave \in Leave /\ proc[p].status # "none"
          /\ SetStatus(proc[p].leave, proc[p].status)
          /\ request[proc[p].leave].status # "approved" /\ proc[p].status # "approved"
        BY <1>p, <2>2 DEF PortalOverwrite, At, Refers, AboutLeave, Note
    <3>2. QED
        BY <1>p, <3>1 DEF SetStatus, Request, NoneApproved
  <2>3. QED
      BY <2>1, <2>2 DEF NoneApproved, Portal, PortalReadPending, tables
<1>4. QED
    BY <1>1, <1>2, <1>3, NothingDecided

\* Whoever dies elsewhere than between the two statements leaves nothing.
LEMMA FailTallies ==
    ASSUME Typed, Typed', Tallied, NEW p \in Process, Fail(p), "taken" \notin astray'
    PROVE  Tallied'
<1>1. /\ UNCHANGED <<request, row>> /\ proc[p].pc \notin {"take", "restore"}
      /\ proc'[p] = Idle /\ \A q \in Process \ {p} : proc'[q] = proc[q]
    BY DEF Fail, Return, Step, tables, Typed, StateOK
<1>2. DecidersApart'
    BY <1>1 DEF Tallied, DecidersApart, Idle, Process
<1>3. \A d \in Decider : Knows(d)'
  <2> SUFFICES ASSUME NEW d \in Decider PROVE Knows(d)'
      OBVIOUS
  <2>1. CASE d = p
      BY <1>1, <2>1 DEF Knows, At, Idle, AboutLeave
  <2>2. CASE d # p
      BY <1>1, <2>2 DEF Tallied, Knows, At, Process
  <2>3. QED
      BY <2>1, <2>2
<1>4. Owed' = Owed /\ Due' = Due /\ Approved' = Approved
    BY <1>1 DEF Owed, Due, Approved, At, Idle, Process
<1>5. (SumDays(Counted))' = SumDays(Counted)
    BY <1>1, <1>4, CountedStays DEF Counted
<1>6. QED
    BY <1>1, <1>2, <1>3, <1>5 DEF Tallied

\* taken is the days of the approved requests whenever nobody is between a
\* decision and its effect on the balance, for any number of managers, unless
\* two of them were at one request, one found no balance row, a handler died
\* in between or the portal gave or took an approval: cancelLeave gives back
\* what approveLeave took, and never what it did not take.
THEOREM LeaveTakenIsApproved == Spec => []TakenIsApproved
<1> DEFINE Reckoned == "taken" \notin astray => Tallied
<1>1. Init => Reckoned
  <2> SUFFICES ASSUME Init PROVE Tallied
      OBVIOUS
  <2>1. \A p \in Process : proc[p] = Idle
      BY DEF Init
  <2>2. DecidersApart /\ \A d \in Decider : Knows(d)
      BY <2>1 DEF DecidersApart, Knows, At, Idle, AboutLeave, Process
  <2>3. Counted = {}
      BY <2>1 DEF Init, Counted, Approved, Due, NoRequest, At, Idle, Process
  <2>4. SumDays(Counted) = 0
    <3>1. DaysFor(request, {}) = SumFunctionOnSet(Spans(request), {})
        BY InitTyped, RowsTyped, DaysForSpans
    <3>2. QED
        BY <2>3, <3>1, SumOfNothing DEF SumDays, DaysOf, DaysFor
  <2>5. row.taken = 0
      BY DEF Init, OpeningRow, NoRow
  <2>6. QED
      BY <2>2, <2>4, <2>5 DEF Tallied
<1>2. Typed /\ Reckoned /\ [Next]_vars => Reckoned'
  <2> SUFFICES ASSUME Typed, Reckoned, [Next]_vars, "taken" \notin astray' PROVE Tallied'
      OBVIOUS
  <2>t. Typed' /\ Tallied
      BY NextTyped, HistoryGrows DEF Grows
  <2>1. ASSUME NEW carried \in Carry, OpenYear(carried)
        PROVE  Tallied'
    <3>1. UNCHANGED <<request, proc>> /\ row'.exists /\ row'.taken = 0 /\ row.taken = 0
        BY <2>t, <2>1 DEF OpenYear, OpeningRow, Tallied
    <3>2. QED
        BY <2>t, <3>1, NothingDecided DEF NoneApproved
  <2>2. CASE Expire \/ UNCHANGED vars
    <3>1. UNCHANGED <<request, row, proc>>
        BY <2>2 DEF Expire, vars, tables
    <3>2. QED
        BY <2>t, <3>1, NothingDecided DEF NoneApproved
  <2>3. QED
      BY <2>t, <2>1, <2>2, DecideTallies, CreateTallies, AdjustTallies, PortalTallies, FailTallies
         DEF Next
<1>3. Reckoned => TakenIsApproved
  <2> SUFFICES ASSUME Tallied, \A d \in Decider : ~At(d, "take") /\ ~At(d, "restore")
               PROVE  row.taken = SumDays(Approved)
      BY DEF TakenIsApproved
  <2>1. Counted = Approved
      BY DEF Counted, Owed, Due
  <2>2. QED
      BY <2>1 DEF Tallied
<1>4. QED
    BY <1>1, <1>2, <1>3, TypedHolds, PTL DEF Spec

-----------------------------------------------------------------------------
(* Adjustments.  Between the write of the balance and its audit row, the     *)
(* record is behind by the adjustment under way.                             *)

Live == {a \in Adj : log[a].state = "live"}
SumLive == SumFunction([a \in Live |-> log[a].delta])

\* Not two of them are changing the adjustment.
AdjustersApart ==
    \A g, h \in Adjuster : g # h /\ proc[g].pc \in AboutAdj => proc[h].pc \notin AboutAdj

Footed ==
    /\ AdjustersApart
    /\ ~row.exists => row.adjustment = 0 /\ Live = {}
    /\ (\A h \in Adjuster : ~At(h, "log")) => row.adjustment = SumLive
    /\ \A h \in Adjuster :
        /\ At(h, "write") =>
             /\ log[proc[h].adj].state = "none"
             /\ proc[h].known => row.exists
             /\ proc[h].known = row.exists => proc[h].total = row.adjustment + proc[h].delta
        /\ At(h, "log") =>
             /\ log[proc[h].adj].state = "none"
             /\ row.exists
             /\ row.adjustment = SumLive + proc[h].delta
        /\ At(h, "undo") => log[proc[h].adj].state = "live"

LiveIn(entries) == {a \in Adj : entries[a].state = "live"}
Changes(entries) == [a \in Adj |-> entries[a].delta]
TotalOf(entries) == SumFunction([a \in LiveIn(entries) |-> entries[a].delta])

LEMMA TotalIsSum ==
    ASSUME NEW entries \in [Adj -> Entry]
    PROVE  /\ IsFiniteSet(LiveIn(entries)) /\ LiveIn(entries) \subseteq Adj
           /\ TotalOf(entries) = SumFunctionOnSet(Changes(entries), LiveIn(entries))
           /\ TotalOf(entries) \in Int
           /\ \A a \in Adj : Changes(entries)[a] = entries[a].delta /\ Changes(entries)[a] \in Int
<1> DEFINE f == [a \in LiveIn(entries) |-> entries[a].delta]
<1>1. IsFiniteSet(LiveIn(entries)) /\ LiveIn(entries) \subseteq Adj
  <2>1. LiveIn(entries) \subseteq Adj
      BY DEF LiveIn
  <2>2. QED
      BY <2>1, FiniteAssumption, FS_Subset
<1>2. \A a \in Adj : Changes(entries)[a] = entries[a].delta /\ Changes(entries)[a] \in Int
    BY DEF Changes, Entry
<1>3. TotalOf(entries) = SumFunctionOnSet(f, LiveIn(entries))
    BY DEF TotalOf, SumFunction
<1>4. \A a \in LiveIn(entries) : f[a] = Changes(entries)[a] /\ f[a] \in Int
    BY <1>1, <1>2
<1> HIDE DEF f
<1>5. TotalOf(entries) = SumFunctionOnSet(Changes(entries), LiveIn(entries))
    BY <1>1, <1>3, <1>4, SumSame
<1>6. TotalOf(entries) \in Int
    BY <1>1, <1>3, <1>4, SumIsInt
<1>7. QED
    BY <1>1, <1>2, <1>5, <1>6

(* One entry more, or one entry less, moves the total by its delta.          *)
LEMMA OneMoreEntry ==
    ASSUME NEW few \in [Adj -> Entry], NEW many \in [Adj -> Entry], NEW a \in Adj,
           LiveIn(many) = LiveIn(few) \cup {a}, a \notin LiveIn(few),
           \A b \in LiveIn(few) : many[b].delta = few[b].delta
    PROVE  TotalOf(many) = TotalOf(few) + many[a].delta
<1> DEFINE S == LiveIn(few)
<1>1. S \subseteq Adj /\ IsFiniteSet(S)
    BY TotalIsSum
<1>2. \A b \in S \cup {a} : Changes(many)[b] \in Int
    BY <1>1, TotalIsSum
<1>3. \A b \in S : Changes(many)[b] = Changes(few)[b]
    BY <1>1 DEF Changes
<1>4. TotalOf(few) = SumFunctionOnSet(Changes(few), S)
    BY TotalIsSum
<1>5. TotalOf(many) = SumFunctionOnSet(Changes(many), S \cup {a})
    BY TotalIsSum
<1>6. a \notin S
    OBVIOUS
<1> HIDE DEF S
<1>7. SumFunctionOnSet(Changes(many), S \cup {a})
        = SumFunctionOnSet(Changes(many), S) + Changes(many)[a]
    BY <1>1, <1>2, <1>6, SumWith
<1>8. SumFunctionOnSet(Changes(many), S) = SumFunctionOnSet(Changes(few), S)
    BY <1>1, <1>3, SumSame
<1>9. Changes(many)[a] = many[a].delta
    BY DEF Changes
<1>10. QED
    BY <1>4, <1>5, <1>7, <1>8, <1>9

LEMMA SumLiveTotals ==
    ASSUME Typed, Typed'
    PROVE  /\ log \in [Adj -> Entry] /\ log' \in [Adj -> Entry]
           /\ SumLive = TotalOf(log) /\ SumLive' = TotalOf(log')
           /\ Live = LiveIn(log) /\ Live' = LiveIn(log')
           /\ TotalOf(log) \in Int /\ TotalOf(log') \in Int
<1>1. log \in [Adj -> Entry] /\ log' \in [Adj -> Entry]
    BY DEF Typed, StateOK
<1>2. QED
    BY <1>1, TotalIsSum DEF SumLive, Live, LiveIn, TotalOf

(* A step nobody adjusts in.                                                 *)
LEMMA NothingAdjusted ==
    ASSUME Footed, log' = log, row'.adjustment = row.adjustment, row.exists => row'.exists,
           row.exists \in BOOLEAN, row'.exists \in BOOLEAN,
           \A h \in Adjuster : proc[h].known \in BOOLEAN,
           \A h \in Adjuster : proc'[h] = proc[h]
    PROVE  Footed'
<1>1. SumLive' = SumLive /\ Live' = Live
    BY DEF SumLive, Live
<1>2. (~row.exists => row.adjustment = 0 /\ Live = {})'
    BY <1>1 DEF Footed
<1>3. ((\A h \in Adjuster : ~At(h, "log")) => row.adjustment = SumLive)'
    BY <1>1 DEF Footed, At
<1>4. ASSUME NEW h \in Adjuster
      PROVE  (/\ At(h, "write") =>
                   /\ log[proc[h].adj].state = "none"
                   /\ proc[h].known => row.exists
                   /\ proc[h].known = row.exists
                        => proc[h].total = row.adjustment + proc[h].delta
              /\ At(h, "log") =>
                   /\ log[proc[h].adj].state = "none"
                   /\ row.exists
                   /\ row.adjustment = SumLive + proc[h].delta
              /\ At(h, "undo") => log[proc[h].adj].state = "live")'
  <2>1. CASE At(h, "write")
    <3>1. /\ log[proc[h].adj].state = "none"
          /\ proc[h].known => row.exists
          /\ proc[h].known = row.exists => proc[h].total = row.adjustment + proc[h].delta
        BY <2>1 DEF Footed
    <3>2. proc'[h] = proc[h] /\ proc[h].pc = "write"
        BY <2>1 DEF At
    <3>3. proc[h].known = row'.exists => proc[h].known = row.exists
        BY <3>1
    <3>4. QED
        BY <3>1, <3>2, <3>3 DEF At
  <2>2. CASE ~At(h, "write")
      BY <1>1, <2>2 DEF Footed, At
  <2>3. QED
      BY <2>1, <2>2
<1>5. AdjustersApart'
    BY DEF Footed, AdjustersApart
<1>6. QED
    BY <1>2, <1>3, <1>4, <1>5 DEF Footed

\* A step of an adjuster that writes nothing.
LEMMA OnlyLooks ==
    ASSUME Footed, NEW h \in Adjuster,
           UNCHANGED <<row, log>>,
           \A g \in Adjuster \ {h} : proc'[g] = proc[g],
           proc[h].pc # "log", proc'[h].pc # "log",
           proc'[h].pc \in AboutAdj => \A g \in Adjuster \ {h} : proc[g].pc \notin AboutAdj,
           proc'[h].pc = "write" =>
               /\ log[proc'[h].adj].state = "none"
               /\ proc'[h].known = row.exists
               /\ proc'[h].total = row.adjustment + proc'[h].delta,
           proc'[h].pc = "undo" => log[proc'[h].adj].state = "live"
    PROVE  Footed'
<1>1. SumLive' = SumLive /\ Live' = Live
    BY DEF SumLive, Live
<1>2. AdjustersApart'
    BY DEF Footed, AdjustersApart
<1>3. ((\A g \in Adjuster : ~At(g, "log")) => row.adjustment = SumLive)'
    BY <1>1 DEF Footed, At
<1>4. QED
    BY <1>1, <1>2, <1>3 DEF Footed, At

LEMMA AdjustFoots ==
    ASSUME Typed, Typed', Footed, NEW h \in Adjuster, Adjust(h), "adjustment" \notin astray'
    PROVE  Footed'
<1> DEFINE a == proc[h].adj
<1>p. /\ h \in Process /\ proc \in [Process -> Handler]
      /\ proc[h] \in Handler /\ Refers(proc[h])
    BY DEF Typed, StateOK, Process
<1>t. row \in Row /\ row.adjustment \in Int /\ row.exists \in BOOLEAN
    BY DEF Typed, StateOK, Row
<1>s. /\ log \in [Adj -> Entry] /\ log' \in [Adj -> Entry]
      /\ SumLive = TotalOf(log) /\ SumLive' = TotalOf(log')
      /\ Live = LiveIn(log) /\ Live' = LiveIn(log')
      /\ TotalOf(log) \in Int /\ TotalOf(log') \in Int
    BY SumLiveTotals
<1>o. \A g \in Adjuster \ {h} : proc'[g] = proc[g]
    BY OthersStay DEF Process
<1>q. ASSUME proc[h].pc \in AboutAdj
      PROVE  \A g \in Adjuster \ {h} : proc'[g].pc \notin {"write", "log", "undo"}
    BY <1>o, <1>q DEF Footed, AdjustersApart, AboutAdj
<1>r. ASSUME proc[h].pc \in AboutAdj
      PROVE  AdjustersApart'
    BY <1>q, <1>r DEF AdjustersApart, AboutAdj
<1>b. {"write", "log", "undo"} = AboutAdj
    BY DEF AboutAdj
<1>1. ASSUME NEW b \in Adj, NEW delta \in Delta, ReadAdjustment(h, b, delta)
      PROVE  Footed'
  <2>1. /\ proc[h].pc = "idle" /\ proc'[h].pc = "write" /\ UNCHANGED <<row, log>>
        /\ proc'[h].adj = b /\ log[b].state = "none" /\ proc'[h].known = row.exists
        /\ proc'[h].total = row.adjustment + proc'[h].delta
      BY <1>p, <1>1 DEF ReadAdjustment, At, Step, Idle, tables
  <2>2. \A g \in Adjuster \ {h} : proc[g].pc \notin AboutAdj
      BY <1>1 DEF ReadAdjustment, Note, AdjustedElsewhere, AboutAdj
  <2>3. QED
      BY <1>o, <2>1, <2>2, OnlyLooks
<1>2. CASE WriteAdjustment(h)
  <2>1. /\ proc[h].pc = "write" /\ proc'[h].pc = "log" /\ proc'[h].adj = a
        /\ proc'[h].delta = proc[h].delta /\ log' = log
        /\ row'.exists /\ row'.adjustment = proc[h].total /\ proc[h].known = row.exists
      BY <1>p, <1>t, <1>2 DEF WriteAdjustment, At, Goto, Step, Handler, Row
  <2>2. log[a].state = "none" /\ proc[h].total = row.adjustment + proc[h].delta
      BY <2>1 DEF Footed, At
  <2>3. row.adjustment = SumLive
      BY <1>o, <1>q, <2>1 DEF Footed, At, AboutAdj
  <2>4. SumLive' = SumLive
      BY <2>1 DEF SumLive, Live
  <2>5. QED
      BY <1>q, <1>r, <1>b, <2>1, <2>2, <2>3, <2>4 DEF Footed, At
<1>3. CASE InsertClashes(h)
  <2>1. proc[h].pc = "write" /\ proc'[h].pc = "idle" /\ UNCHANGED <<row, log>>
      BY <1>p, <1>3 DEF InsertClashes, At, Return, Step, Idle, tables
  <2>2. QED
      BY <1>o, <1>b, <2>1, OnlyLooks
<1>4. CASE LogAdjustment(h)
  <2>1. /\ a \in Adj /\ proc[h].pc = "log" /\ proc'[h].pc = "usage" /\ row' = row
        /\ log' = [log EXCEPT ![a] = [state |-> "live", delta |-> proc[h].delta]]
      BY <1>p, <1>4 DEF LogAdjustment, At, Step, Idle, Refers, AboutAdj
  <2>2. log[a].state = "none" /\ row.exists /\ row.adjustment = SumLive + proc[h].delta
      BY <2>1 DEF Footed, At
  <2>3. /\ log'[a].state = "live" /\ log'[a].delta = proc[h].delta
        /\ \A b \in Adj \ {a} : log'[b] = log[b]
      BY <1>s, <2>1
  <2>4. LiveIn(log') = LiveIn(log) \cup {a} /\ a \notin LiveIn(log)
      BY <2>1, <2>2, <2>3 DEF LiveIn
  <2>5. \A b \in LiveIn(log) : log'[b].delta = log[b].delta
      BY <2>3, <2>4 DEF LiveIn
  <2>6. TotalOf(log') = TotalOf(log) + proc[h].delta
      BY <1>s, <2>1, <2>3, <2>4, <2>5, OneMoreEntry
  <2>7. row'.adjustment = SumLive' /\ row'.exists
      BY <1>s, <2>1, <2>2, <2>6
  <2>8. QED
      BY <1>q, <1>r, <1>b, <2>1, <2>7 DEF Footed, At
<1>5. ASSUME NEW b \in Adj, ReadLive(h, b)
      PROVE  Footed'
  <2>1. /\ proc[h].pc = "idle" /\ proc'[h].pc = "undo" /\ UNCHANGED <<row, log>>
        /\ proc'[h].adj = b /\ log[b].state = "live"
      BY <1>p, <1>5 DEF ReadLive, At, Step, Idle, tables
  <2>2. \A g \in Adjuster \ {h} : proc[g].pc \notin AboutAdj
      BY <1>5 DEF ReadLive, Note, AdjustedElsewhere, AboutAdj
  <2>3. QED
      BY <1>o, <2>1, <2>2, OnlyLooks
<1>6. CASE UndoAdjustment(h)
  <2>1. /\ a \in Adj /\ proc[h].pc = "undo" /\ proc'[h].pc = "idle"
        /\ log' = [log EXCEPT ![a].state = "deleted"]
      BY <1>p, <1>6 DEF UndoAdjustment, At, Return, Step, Idle, Refers, AboutAdj
  <2>2. log[a].state = "live" /\ row.adjustment = SumLive
      BY <1>o, <1>q, <2>1 DEF Footed, At, AboutAdj
  <2>3. a \in LiveIn(log) /\ log[a].delta \in Int
      BY <1>s, <2>1, <2>2 DEF LiveIn, Entry
  <2>4. row.exists
      BY <1>s, <2>3 DEF Footed
  <2>5. /\ log'[a].state = "deleted"
        /\ \A b \in Adj \ {a} : log'[b] = log[b]
      BY <1>s, <2>1 DEF Entry
  <2>6. LiveIn(log) = LiveIn(log') \cup {a} /\ a \notin LiveIn(log')
      BY <2>1, <2>2, <2>5 DEF LiveIn
  <2>7. \A b \in LiveIn(log') : log[b].delta = log'[b].delta
      BY <2>5, <2>6 DEF LiveIn
  <2>8. TotalOf(log) = TotalOf(log') + log[a].delta
    <3>1. a \in Adj /\ log \in [Adj -> Entry] /\ log' \in [Adj -> Entry]
        BY <1>s, <2>1
    <3> HIDE DEF a
    <3>2. QED
        BY <3>1, <2>6, <2>7, OneMoreEntry
  <2>9. row'.adjustment = row.adjustment - log[a].delta /\ row'.exists
      BY <1>t, <1>6, <2>4 DEF UndoAdjustment, Row
  <2>10. row'.adjustment = SumLive'
      BY <1>s, <1>t, <2>2, <2>3, <2>8, <2>9
  <2>11. QED
      BY <1>q, <1>r, <1>b, <2>1, <2>9, <2>10 DEF Footed, At
<1>7. CASE ViewBalance(h)
  <2>1. proc[h].pc = "idle" /\ proc'[h].pc = "usage" /\ UNCHANGED <<row, log>>
      BY <1>p, <1>7 DEF ViewBalance, At, Step, Idle, tables
  <2>2. QED
      BY <1>o, <1>b, <2>1, OnlyLooks
<1>8. CASE GetLeaveBalance(h)
  <2>1. UNCHANGED <<row, log>> /\ proc[h].pc \in {"check", "usage", "row"}
      BY <1>8 DEF GetLeaveBalance, CheckCached, MissCache, ReadUsage, ReadRow, At, tables
  <2>2. proc'[h].pc \in {"idle", "usage", "row", "insert"}
    <3>1. CASE Return(h)
        BY <1>p, <3>1 DEF Return, Step, Idle
    <3>2. ASSUME NEW pc, Goto(h, pc)
          PROVE  proc'[h].pc = pc
        BY <1>p, <3>2 DEF Goto, Step, Handler
    <3>3. CASE ReadUsage(h)
        BY <1>p, <3>3 DEF ReadUsage, Step, Handler
    <3>4. QED
        BY <1>8, <3>1, <3>2, <3>3 DEF GetLeaveBalance, CheckCached, MissCache, ReadRow
  <2>3. QED
      BY <1>o, <1>b, <2>1, <2>2, OnlyLooks
<1>9. QED
    BY <1>1, <1>2, <1>3, <1>4, <1>5, <1>6, <1>7, <1>8 DEF Adjust

\* Whoever dies elsewhere than between the two statements leaves nothing.
LEMMA FailFoots ==
    ASSUME Typed, Typed', Footed, NEW p \in Process, Fail(p), "adjustment" \notin astray'
    PROVE  Footed'
<1>1. /\ UNCHANGED <<row, log>> /\ proc'[p] = Idle
      /\ \A q \in Process \ {p} : proc'[q] = proc[q]
    BY DEF Fail, Return, Step, tables, Typed, StateOK
<1>2. CASE p \in Adjuster
  <2>1. proc[p].pc # "log"
      BY DEF Fail, At
  <2>2. proc'[p].pc = "idle" /\ "idle" \notin AboutAdj
      BY <1>1 DEF Idle, AboutAdj
  <2>3. \A g \in Adjuster \ {p} : proc'[g] = proc[g]
      BY <1>1 DEF Process
  <2>4. QED
      BY <1>1, <1>2, <2>1, <2>2, <2>3, OnlyLooks
<1>3. CASE p \notin Adjuster
  <2>1. \A h \in Adjuster : proc'[h] = proc[h]
      BY <1>1, <1>3 DEF Process
  <2>2. /\ row.exists \in BOOLEAN /\ row'.exists \in BOOLEAN
        /\ \A h \in Adjuster : proc[h].known \in BOOLEAN
      BY DEF Typed, StateOK, Row, Handler, Process
  <2>3. QED
      BY <1>1, <2>1, <2>2, NothingAdjusted
<1>4. QED
    BY <1>2, <1>3

\* The adjustment on the balance is the sum of the adjustments on record,
\* whenever nobody is between the write of one and that of the other, for any
\* number of adjusters, unless two of them were changing it at a time or one
\* died in between: also when the row is missing, when it is opened
\* meanwhile, and when adjustments are deleted.
THEOREM LeaveAdjustmentsFoot == Spec => []AdjustmentsFoot
<1> DEFINE Reckoned == "adjustment" \notin astray => Footed
<1>1. Init => Reckoned
  <2> SUFFICES ASSUME Init PROVE Footed
      OBVIOUS
  <2>1. row.adjustment = 0
      BY DEF Init, OpeningRow, NoRow
  <2>2. Live = {}
      BY DEF Init, Live, NoEntry
  <2>3. SumLive = 0
    <3>1. log \in [Adj -> Entry]
        BY InitTyped DEF Typed, StateOK
    <3>2. SumLive = TotalOf(log) /\ LiveIn(log) = Live
        BY DEF SumLive, Live, TotalOf, LiveIn
    <3>3. TotalOf(log) = SumFunctionOnSet(Changes(log), LiveIn(log))
        BY <3>1, TotalIsSum
    <3>4. QED
        BY <2>2, <3>2, <3>3, SumOfNothing
  <2>4. \A h \in Adjuster : proc[h].pc = "idle"
      BY DEF Init, Process, Idle
  <2>5. QED
      BY <2>1, <2>2, <2>3, <2>4 DEF Footed, At, AdjustersApart, AboutAdj
<1>2. Typed /\ Reckoned /\ [Next]_vars => Reckoned'
  <2> SUFFICES ASSUME Typed, Reckoned, [Next]_vars, "adjustment" \notin astray' PROVE Footed'
      OBVIOUS
  <2>f. Footed
      BY HistoryGrows DEF Grows
  <2>t. /\ Typed' /\ row \in Row /\ row.exists \in BOOLEAN /\ row'.exists \in BOOLEAN
        /\ \A h \in Adjuster : proc[h].known \in BOOLEAN
    <3>1. Typed'
        BY NextTyped
    <3>2. row \in Row /\ row' \in Row /\ \A h \in Adjuster : proc[h] \in Handler
        BY <3>1 DEF Typed, StateOK, Process
    <3>3. QED
        BY <3>1, <3>2 DEF Row, Handler
  <2>1. ASSUME NEW p \in Creator \cup Decider \cup PortalUser, Create(p) \/ Decide(p) \/ Portal(p)
        PROVE  Footed'
    <3>1. log' = log
        BY <2>1 DEF Create, CheckOverlap, InsertRequest, GetLeaveBalance, CheckCached, MissCache,
               ReadUsage, ReadRow, Decide, ReadPending, WriteDecision, FindDecided, AddTaken,
               ReadStatus, WriteCancelled, RestoreTaken, Portal, PortalCreate, PortalReadPending,
               PortalOverwrite, tables
    <3>2. row'.adjustment = row.adjustment /\ row'.exists = row.exists
        BY <2>t, <2>1 DEF Row, Create, CheckOverlap, InsertRequest, GetLeaveBalance, CheckCached,
               MissCache, ReadUsage, ReadRow, Decide, ReadPending, WriteDecision, FindDecided,
               AddTaken, ReadStatus, WriteCancelled, RestoreTaken, Portal, PortalCreate,
               PortalReadPending, PortalOverwrite, tables
    <3>3. \A h \in Adjuster : proc'[h] = proc[h]
      <4>1. \A h \in Adjuster : h \in Process /\ h # p /\ p \in Process
          BY RolesAssumption DEF Process
      <4>2. QED
          BY <2>1, <4>1, OthersStay
    <3>4. QED
        BY <2>f, <2>t, <3>1, <3>2, <3>3, NothingAdjusted
  <2>2. ASSUME NEW carried \in Carry, OpenYear(carried)
        PROVE  Footed'
    <3>1. /\ log' = log /\ proc' = proc
          /\ ~row.exists /\ row'.adjustment = 0
        BY <2>2 DEF OpenYear, OpeningRow
    <3>2. row.adjustment = 0
        BY <2>f, <3>1 DEF Footed
    <3>3. QED
        BY <2>f, <2>t, <3>1, <3>2, NothingAdjusted
  <2>3. CASE Expire \/ UNCHANGED vars
    <3>1. log' = log /\ row' = row /\ proc' = proc
        BY <2>3 DEF Expire, vars, tables
    <3>2. QED
        BY <2>f, <2>t, <3>1, NothingAdjusted
  <2>4. QED
      BY <2>f, <2>t, <2>1, <2>2, <2>3, AdjustFoots, FailFoots DEF Next
<1>3. Reckoned => AdjustmentsFoot
    BY DEF Footed, AdjustmentsFoot, SumLive, Live
<1>4. QED
    BY <1>1, <1>2, <1>3, TypedHolds, PTL DEF Spec
=============================================================================
