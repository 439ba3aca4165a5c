---------------------------- MODULE AssetsProofs ----------------------------
(* Proofs about Assets, for any sets of assets, assignments, maintenance     *)
(* records and people, any number of requests that die.                      *)
EXTENDS Assets, TLAPS

-----------------------------------------------------------------------------
(* Typing.  A request that is on its way knows its asset and its item.       *)

Refers(h) ==
    /\ h.pc = "idle" => h.kind = "none" /\ h.asset = NoAsset
    /\ h.pc # "idle" => h.asset \in Asset
    /\ h.pc \in {"insert", "hand"} => h.kind = "assign"
    /\ h.pc \in {"close", "free"} => h.kind \in {"return", "lost"} /\ h.item \in Assignment
    /\ h.pc \in {"record", "down"} => h.kind = "log"
    /\ h.pc \in {"resolve", "up"} => h.kind = "resolve" /\ h.item \in Ticket
    /\ h.pc = "save" => h.kind = "edit"

\* What is assigned or recorded is about an asset; so is what is resolved.
Rows ==
    /\ \A n \in Assignment : assignment[n].state = "assigned" => assignment[n].asset \in Asset
    /\ \A k \in Ticket : ticket[k].state # "none" => ticket[k].asset \in Asset
    /\ \A c \in Clerk : At(c, "resolve") => ticket[Item(c)].asset \in Asset

Typed == TypeOK /\ Rows /\ \A c \in Clerk : Refers(proc[c])

LEMMA IdleTyped == Idle \in Handler /\ Refers(Idle)
BY DEF Idle, Handler, Refers, PC, Status, Chosen

LEMMA StepTyped ==
    ASSUME Typed, NEW c \in Clerk, NEW h \in Handler, Refers(h), Step(c, h)
    PROVE  /\ proc' \in [Clerk -> Handler] /\ \A d \in Clerk : Refers(proc'[d])
           /\ proc'[c] = h /\ \A d \in Clerk \ {c} : proc'[d] = proc[d]
BY DEF Typed, TypeOK, Step

\* A step that resolves nothing leaves what is resolved about an asset.
LEMMA RowsKept ==
    ASSUME Typed, UNCHANGED ticket,
           \A n \in Assignment : assignment'[n].state = "assigned" => assignment'[n].asset \in Asset,
           \A c \in Clerk : proc'[c] = proc[c] \/ proc'[c].pc # "resolve"
    PROVE  Rows'
BY DEF Typed, Rows, At, Item

LEMMA ReturnTyped ==
    ASSUME Typed, NEW c \in Clerk, Return(c)
    PROVE  /\ proc' \in [Clerk -> Handler] /\ \A d \in Clerk : Refers(proc'[d])
           /\ proc'[c].pc = "idle" /\ \A d \in Clerk \ {c} : proc'[d] = proc[d]
<1>1. Idle.pc = "idle"
    BY DEF Idle
<1>2. QED
    BY <1>1, IdleTyped, StepTyped DEF Return

\* The second statement follows the first, about the same rows.
LEMMA GotoTyped ==
    ASSUME Typed, NEW c \in Clerk, NEW pc \in PC, Goto(c, pc),
           <<proc[c].pc, pc>> \in {<<"insert", "hand">>, <<"close", "free">>,
                                   <<"record", "down">>, <<"resolve", "up">>}
    PROVE  /\ proc' \in [Clerk -> Handler] /\ \A d \in Clerk : Refers(proc'[d])
           /\ proc'[c].pc = pc /\ proc'[c].kind = proc[c].kind
           /\ proc'[c].asset = proc[c].asset /\ proc'[c].item = proc[c].item
           /\ \A d \in Clerk \ {c} : proc'[d] = proc[d]
<1> DEFINE h == [proc[c] EXCEPT !.pc = pc]
<1>1. proc[c] \in Handler /\ Refers(proc[c])
    BY DEF Typed, TypeOK
<1>2. /\ h \in Handler
      /\ h.pc = pc /\ h.kind = proc[c].kind /\ h.asset = proc[c].asset /\ h.item = proc[c].item
    BY <1>1 DEF Handler
<1>3. Step(c, h)
    BY DEF Goto
<1> HIDE DEF h
<1>4. Refers(h)
    BY <1>1, <1>2 DEF Refers
<1>5. QED
    BY <1>2, <1>3, <1>4, StepTyped

LEMMA BeginTyped ==
    ASSUME Typed, NEW c \in Clerk, NEW pc \in PC, NEW kind \in Kind, NEW a \in Asset,
           NEW item \in Assignment \cup Ticket \cup {Nothing}, NEW status \in Status,
           Begin(c, pc, kind, a, item, status),
           Refers([pc |-> pc, kind |-> kind, asset |-> a, item |-> item, status |-> status]),
           pc = "resolve" => ticket[item].asset \in Asset
    PROVE  Typed'
<1> DEFINE h == [pc |-> pc, kind |-> kind, asset |-> a, item |-> item, status |-> status]
<1>1. h \in Handler
    BY DEF Handler
<1>2. Step(c, h)
    BY DEF Begin
<1>3. /\ proc' \in [Clerk -> Handler] /\ \A d \in Clerk : Refers(proc'[d])
      /\ proc'[c] = h /\ \A d \in Clerk \ {c} : proc'[d] = proc[d]
    BY <1>1, <1>2, StepTyped
<1>4. UNCHANGED <<asset, assignment, ticket, faults>> /\ astray' \subseteq Asset
    BY DEF Begin, tables, Typed, TypeOK
<1>5. Rows'
    BY <1>3, <1>4 DEF Typed, Rows, At, Item
<1>6. QED
    BY <1>3, <1>4, <1>5 DEF Typed, TypeOK

LEMMA StatusTyped ==
    ASSUME Typed, NEW a \in Asset, NEW s \in Status, SetStatus(a, s)
    PROVE  asset' \in [Asset -> AssetRow]
BY DEF Typed, TypeOK, SetStatus, AssetRow

\* A statement about the asset is the last one of its request.
LEMMA LastTyped ==
    ASSUME Typed, NEW c \in Clerk, Return(c), asset' \in [Asset -> AssetRow],
           UNCHANGED <<assignment, ticket, faults, astray>>
    PROVE  Typed'
<1>1. Rows'
    BY ReturnTyped, RowsKept DEF Typed, Rows
<1>2. QED
    BY <1>1, ReturnTyped DEF Typed, TypeOK

LEMMA AssignTyped ==
    ASSUME Typed, NEW c \in Clerk, Assign(c)
    PROVE  Typed'
<1>p. proc[c] \in Handler /\ Refers(proc[c])
    BY DEF Typed, TypeOK
<1>1. ASSUME NEW a \in Asset, ReadAvailable(c, a)
      PROVE  Typed'
  <2>1. Refers([pc |-> "insert", kind |-> "assign", asset |-> a, item |-> Nothing,
                status |-> "assigned"])
      BY DEF Refers
  <2>2. QED
      BY <1>1, <2>1, BeginTyped DEF ReadAvailable, PC, Kind, Status
<1>2. ASSUME NEW n \in Assignment, InsertAssignment(c, n)
      PROVE  Typed'
  <2>1. proc[c].pc = "insert" /\ Mine(c) \in Asset
      BY <1>p, <1>2 DEF InsertAssignment, At, Refers, Mine
  <2>2. [asset |-> Mine(c), state |-> "assigned"] \in AssignmentRow
      BY <2>1 DEF AssignmentRow
  <2>3. /\ assignment' \in [Assignment -> AssignmentRow]
        /\ \A m \in Assignment : assignment'[m].state = "assigned" => assignment'[m].asset \in Asset
      BY <1>2, <2>1, <2>2 DEF InsertAssignment, Typed, TypeOK, Rows
  <2>4. /\ proc' \in [Clerk -> Handler] /\ \A d \in Clerk : Refers(proc'[d])
        /\ \A d \in Clerk : proc'[d] = proc[d] \/ proc'[d].pc # "resolve"
      BY <1>2, <2>1, GotoTyped DEF InsertAssignment, PC
  <2>5. Rows'
      BY <1>2, <2>3, <2>4, RowsKept DEF InsertAssignment
  <2>6. QED
      BY <1>2, <2>3, <2>4, <2>5 DEF InsertAssignment, Typed, TypeOK
<1>3. CASE HandOver(c)
  <2>1. Mine(c) \in Asset
      BY <1>p, <1>3 DEF HandOver, At, Refers, Mine
  <2>2. QED
      BY <1>3, <2>1, StatusTyped, LastTyped DEF HandOver, Status
<1>4. QED
    BY <1>1, <1>2, <1>3 DEF Assign

LEMMA CloseTyped ==
    ASSUME Typed, NEW c \in Clerk, Close(c)
    PROVE  Typed'
<1>p. proc[c] \in Handler /\ Refers(proc[c])
    BY DEF Typed, TypeOK
<1>1. ASSUME NEW n \in Assignment, NEW kind \in {"return", "lost"}, ReadOpen(c, n, kind)
      PROVE  Typed'
  <2> DEFINE a == assignment[n].asset
  <2>1. a \in Asset
      BY <1>1 DEF ReadOpen, Typed, Rows
  <2>2. AfterClosing(kind) \in Status
      BY DEF AfterClosing, Status, Chosen
  <2>3. Refers([pc |-> "close", kind |-> kind, asset |-> a, item |-> n,
                status |-> AfterClosing(kind)])
      BY <2>1 DEF Refers
  <2>4. QED
      BY <1>1, <2>1, <2>2, <2>3, BeginTyped DEF ReadOpen, PC, Kind
<1>2. CASE CloseAssignment(c)
  <2>1. proc[c].pc = "close" /\ Item(c) \in Assignment
      BY <1>p, <1>2 DEF CloseAssignment, At, Refers, Item
  <2>2. Outcome(proc[c].kind) \in {"returned", "lost"}
      BY DEF Outcome
  <2>3. /\ assignment' \in [Assignment -> AssignmentRow]
        /\ assignment'[Item(c)].state # "assigned"
        /\ \A m \in Assignment \ {Item(c)} : assignment'[m] = assignment[m]
      BY <1>2, <2>1, <2>2 DEF CloseAssignment, Typed, TypeOK, AssignmentRow
  <2>4. /\ proc' \in [Clerk -> Handler] /\ \A d \in Clerk : Refers(proc'[d])
        /\ \A d \in Clerk : proc'[d] = proc[d] \/ proc'[d].pc # "resolve"
      BY <1>2, <2>1, GotoTyped DEF CloseAssignment, PC
  <2>5. Rows'
      BY <1>2, <2>3, <2>4, RowsKept DEF CloseAssignment, Typed, Rows
  <2>6. QED
      BY <1>2, <2>3, <2>4, <2>5 DEF CloseAssignment, Typed, TypeOK
<1>3. CASE FreeAsset(c)
  <2>1. Mine(c) \in Asset /\ proc[c].status \in Status
      BY <1>p, <1>3 DEF FreeAsset, At, Refers, Mine, Handler
  <2>2. QED
      BY <1>3, <2>1, StatusTyped, LastTyped DEF FreeAsset
<1>4. QED
    BY <1>1, <1>2, <1>3 DEF Close
LEMMA MaintainTyped ==
    ASSUME Typed, NEW c \in Clerk, Maintain(c)
    PROVE  Typed'
<1>p. proc[c] \in Handler /\ Refers(proc[c])
    BY DEF Typed, TypeOK
<1>1. ASSUME NEW a \in Asset, ReadForTicket(c, a)
      PROVE  Typed'
  <2>1. Refers([pc |-> "record", kind |-> "log", asset |-> a, item |-> Nothing,
                status |-> "maintenance"])
      BY DEF Refers
  <2>2. QED
      BY <1>1, <2>1, BeginTyped DEF ReadForTicket, PC, Kind, Status, Chosen
<1>2. ASSUME NEW k \in Ticket, InsertTicket(c, k)
      PROVE  Typed'
  <2>1. proc[c].pc = "record" /\ Mine(c) \in Asset
      BY <1>p, <1>2 DEF InsertTicket, At, Refers, Mine
  <2>2. [asset |-> Mine(c), state |-> "open"] \in TicketRow
      BY <2>1 DEF TicketRow
  <2>3. /\ ticket' \in [Ticket -> TicketRow]
        /\ ticket'[k].asset \in Asset /\ \A i \in Ticket \ {k} : ticket'[i] = ticket[i]
      BY <1>2, <2>1, <2>2 DEF InsertTicket, Typed, TypeOK
  <2>4. /\ proc' \in [Clerk -> Handler] /\ \A d \in Clerk : Refers(proc'[d])
        /\ \A d \in Clerk : proc'[d] = proc[d] \/ proc'[d].pc # "resolve"
      BY <1>2, <2>1, GotoTyped DEF InsertTicket, PC
  <2>5. \A d \in Clerk : proc[d].pc = "resolve" => proc[d].item \in Ticket
      BY DEF Typed, Refers
  <2>6. Rows'
      BY <1>2, <2>3, <2>4, <2>5 DEF InsertTicket, Typed, Rows, At, Item
  <2>7. QED
      BY <1>2, <2>3, <2>4, <2>6 DEF InsertTicket, Typed, TypeOK
<1>3. CASE TakeDown(c)
  <2>1. Mine(c) \in Asset
      BY <1>p, <1>3 DEF TakeDown, At, Refers, Mine
  <2>2. QED
      BY <1>3, <2>1, StatusTyped, LastTyped DEF TakeDown, Status, Chosen
<1>4. ASSUME NEW k \in Ticket, ReadTicket(c, k)
      PROVE  Typed'
  <2> DEFINE a == ticket[k].asset
  <2>1. a \in Asset
      BY <1>4 DEF ReadTicket, Typed, Rows
  <2>2. Refers([pc |-> "resolve", kind |-> "resolve", asset |-> a, item |-> k,
                status |-> "available"])
      BY <2>1 DEF Refers
  <2>3. QED
      BY <1>4, <2>1, <2>2, BeginTyped DEF ReadTicket, PC, Kind, Status, Chosen
<1>5. CASE ResolveTicket(c)
  <2>1. proc[c].pc = "resolve" /\ Item(c) \in Ticket /\ ticket[Item(c)].asset \in Asset
      BY <1>p, <1>5 DEF ResolveTicket, At, Refers, Item, Typed, Rows
  <2>2. /\ ticket' \in [Ticket -> TicketRow]
        /\ \A i \in Ticket : ticket'[i].asset = ticket[i].asset
        /\ \A i \in Ticket \ {Item(c)} : ticket'[i] = ticket[i]
      BY <1>5, <2>1 DEF ResolveTicket, Typed, TypeOK, TicketRow
  <2>3. /\ proc' \in [Clerk -> Handler] /\ \A d \in Clerk : Refers(proc'[d])
        /\ \A d \in Clerk : proc'[d] = proc[d] \/ proc'[d].pc # "resolve"
      BY <1>5, <2>1, GotoTyped DEF ResolveTicket, PC
  <2>4. \A d \in Clerk : proc[d].pc = "resolve" => proc[d].item \in Ticket
      BY DEF Typed, Refers
  <2>5. Rows'
      BY <1>5, <2>1, <2>2, <2>3, <2>4 DEF ResolveTicket, Typed, Rows, At, Item
  <2>6. QED
      BY <1>5, <2>2, <2>3, <2>5 DEF ResolveTicket, Typed, TypeOK
<1>6. CASE PutBack(c)
  <2>1. Mine(c) \in Asset
      BY <1>p, <1>6 DEF PutBack, At, Refers, Mine
  <2>2. asset' \in [Asset -> AssetRow]
      BY <1>6, <2>1, StatusTyped DEF PutBack, Status, Chosen, Typed, TypeOK
  <2>3. QED
      BY <1>6, <2>2, LastTyped DEF PutBack
<1>7. QED
    BY <1>1, <1>2, <1>3, <1>4, <1>5, <1>6 DEF Maintain

LEMMA EditTyped ==
    ASSUME Typed, NEW c \in Clerk, Edit(c)
    PROVE  Typed'
<1>p. proc[c] \in Handler /\ Refers(proc[c])
    BY DEF Typed, TypeOK
<1>1. ASSUME NEW a \in Asset, NEW s \in Status, OpenDialog(c, a, s)
      PROVE  Typed'
  <2>1. Refers([pc |-> "save", kind |-> "edit", asset |-> a, item |-> Nothing, status |-> s])
      BY DEF Refers
  <2>2. QED
      BY <1>1, <2>1, BeginTyped DEF OpenDialog, PC, Kind
<1>2. CASE SaveDialog(c)
  <2>1. Mine(c) \in Asset /\ proc[c].status \in Status
      BY <1>p, <1>2 DEF SaveDialog, At, Refers, Mine, Handler
  <2>2. asset' \in [Asset -> AssetRow]
      BY <1>2, <2>1, StatusTyped DEF SaveDialog, Typed, TypeOK
  <2>3. QED
      BY <1>2, <2>2, LastTyped DEF SaveDialog
<1>3. QED
    BY <1>1, <1>2 DEF Edit

LEMMA TypedInit == Init => Typed
<1> SUFFICES ASSUME Init PROVE Typed
    OBVIOUS
<1>1. [status |-> "available", deleted |-> FALSE] \in AssetRow
    BY DEF AssetRow, Status, Chosen
<1>2. NoRow \in AssignmentRow /\ NoRow \in TicketRow /\ NoRow.state = "none"
    BY DEF NoRow, AssignmentRow, TicketRow
<1>3. asset \in [Asset -> AssetRow] /\ assignment \in [Assignment -> AssignmentRow]
        /\ ticket \in [Ticket -> TicketRow]
    BY <1>1, <1>2 DEF Init
<1>4. proc \in [Clerk -> Handler] /\ \A c \in Clerk : Refers(proc[c]) /\ proc[c].pc = "idle"
    BY IdleTyped DEF Init, Idle
<1>5. Rows
    BY <1>2, <1>4 DEF Init, Rows, At
<1>6. faults \in 0 .. MaxFaults /\ astray \subseteq Asset
    BY FaultsAssumption DEF Init
<1>7. QED
    BY <1>3, <1>4, <1>5, <1>6 DEF Typed, TypeOK

LEMMA TypedStep == Typed /\ [Next]_vars => Typed'
<1> SUFFICES ASSUME Typed, [Next]_vars PROVE Typed'
    OBVIOUS
<1>1. CASE UNCHANGED vars
    BY <1>1 DEF vars, tables, Typed, TypeOK, Rows, At, Item
<1>2. ASSUME NEW c \in Clerk, Die(c)
      PROVE  Typed'
  <2>1. faults' \in 0 .. MaxFaults /\ astray' \subseteq Asset
      BY <1>2, FaultsAssumption DEF Die, Typed, TypeOK, Refers, At, Mine
  <2>2. Rows'
      BY <1>2, ReturnTyped, RowsKept DEF Die, tables, Typed, Rows
  <2>3. QED
      BY <1>2, <2>1, <2>2, ReturnTyped DEF Die, tables, Typed, TypeOK
<1>3. ASSUME NEW a \in Asset, DeleteAsset(a)
      PROVE  Typed'
  <2>1. asset' \in [Asset -> AssetRow]
      BY <1>3 DEF DeleteAsset, Typed, TypeOK, AssetRow
  <2>2. QED
      BY <1>3, <2>1 DEF DeleteAsset, Typed, TypeOK, Rows, At, Item
<1>4. QED
    BY <1>1, <1>2, <1>3, AssignTyped, CloseTyped, MaintainTyped, EditTyped DEF Next

\* Every state of the assets has the type TypeOK states.
THEOREM TypeCorrect == Spec => []TypeOK
<1>1. Typed => TypeOK
    BY DEF Typed
<1>2. QED
    BY <1>1, TypedInit, TypedStep, PTL DEF Spec

THEOREM TypedHolds == Spec => []Typed
BY TypedInit, TypedStep, PTL DEF Spec

-----------------------------------------------------------------------------
(* Holders of the assets that did not go astray: no two writing requests met *)
(* at them, none found them held, and no assigning one stopped half way.     *)

Alone ==
    \A c, d \in Clerk :
        /\ Mine(c) = Mine(d)
        /\ Mine(c) \notin astray
        /\ proc[c].kind \in Writing
        /\ proc[d].kind \in Writing
        => c = d

\* Whoever is about to assign an asset or to write its status has found that
\* nobody holds it, or has seen to it.
VacantPC == {"insert", "free", "record", "down", "save"}
Vacant ==
    \A c \in Clerk :
        proc[c].pc \in VacantPC /\ Mine(c) \notin astray => ~Held(Mine(c))

\* What is about to be closed is an assignment of this asset, and open.
Closing ==
    \A c \in Clerk : At(c, "close") =>
        /\ assignment[Item(c)].asset = Mine(c)
        /\ assignment[Item(c)].state # "none"
        /\ Mine(c) \notin astray => assignment[Item(c)].state = "assigned"

Handing(a) == \E c \in Clerk : At(c, "hand") /\ Mine(c) = a

Kept == Alone /\ Vacant /\ Closing /\ OneHolder /\ HeldIsAssigned

LEMMA PCRows ==
    ASSUME Typed, NEW c \in Clerk, proc[c].pc \in VacantPC \cup {"hand", "close"}
    PROVE  proc[c].kind \in Writing /\ Mine(c) \in Asset
BY DEF Typed, Refers, Writing, VacantPC, Mine

\* Others at the same asset are ending a maintenance, or it went astray.
LEMMA Others ==
    ASSUME Typed, Kept, NEW c \in Clerk, NEW d \in Clerk \ {c},
           proc[c].pc \in VacantPC \cup {"hand", "close"}, Mine(d) = Mine(c),
           Mine(c) \notin astray
    PROVE  proc[d].pc \notin VacantPC \cup {"hand", "close"}
BY PCRows DEF Kept, Alone

\* A request that comes to its end and changes no assignment.
LEMMA LastKept ==
    ASSUME Typed, Kept, NEW c \in Clerk, Return(c), UNCHANGED assignment, astray \subseteq astray',
           HeldIsAssigned'
    PROVE  Kept'
<1>1. proc'[c].pc = "idle" /\ proc'[c].kind = "none" /\ \A d \in Clerk \ {c} : proc'[d] = proc[d]
    BY DEF Return, Step, Idle, Typed, TypeOK
<1>2. "none" \notin Writing
    BY DEF Writing
<1>3. Alone'
    BY <1>1, <1>2 DEF Kept, Alone, Mine
<1>4. \A a : Held(a)' <=> Held(a)
    BY DEF Held, Open
<1>5. Vacant'
  <2> SUFFICES ASSUME NEW d \in Clerk, proc'[d].pc \in VacantPC, Mine(d)' \notin astray'
               PROVE  ~Held(Mine(d))'
      BY DEF Vacant
  <2>1. d # c
      BY <1>1 DEF VacantPC
  <2>2. proc'[d] = proc[d]
      BY <1>1, <2>1
  <2>3. QED
      BY <2>2 DEF Kept, Vacant, Mine, Held, Open
<1>6. Closing'
    BY <1>1 DEF Kept, Closing, At, Item, Mine
<1>7. OneHolder'
    BY DEF Kept, OneHolder, Open
<1>8. QED
    BY <1>3, <1>5, <1>6, <1>7 DEF Kept

\* A second statement that changes neither an assignment nor an asset.
LEMMA GotoKept ==
    ASSUME Typed, Kept, NEW c \in Clerk, NEW pc \in PC, Goto(c, pc),
           <<proc[c].pc, pc>> \in {<<"record", "down">>, <<"resolve", "up">>},
           UNCHANGED <<asset, assignment, astray>>
    PROVE  Kept'
<1>1. /\ proc'[c].pc = pc /\ proc'[c].kind = proc[c].kind /\ proc'[c].asset = proc[c].asset
      /\ \A d \in Clerk \ {c} : proc'[d] = proc[d]
    BY GotoTyped
<1>2. Alone'
    BY <1>1 DEF Kept, Alone, Mine
<1>3. Vacant'
  <2> SUFFICES ASSUME NEW d \in Clerk, proc'[d].pc \in VacantPC, Mine(d)' \notin astray'
               PROVE  ~Held(Mine(d))'
      BY DEF Vacant
  <2>1. proc[d].pc \in VacantPC /\ proc'[d].asset = proc[d].asset
      BY <1>1 DEF VacantPC
  <2>2. QED
      BY <2>1 DEF Kept, Vacant, Mine, Held, Open
<1>4. Closing'
    BY <1>1 DEF Kept, Closing, At, Item, Mine
<1>5. OneHolder' /\ HeldIsAssigned'
  <2>1. \A d \in Clerk : At(d, "hand") => At(d, "hand")' /\ Mine(d)' = Mine(d)
      BY <1>1 DEF At, Mine
  <2>2. QED
      BY <2>1 DEF Kept, OneHolder, HeldIsAssigned, Held, Open
<1>6. QED
    BY <1>2, <1>3, <1>4, <1>5 DEF Kept

LEMMA BeginKept ==
    ASSUME Typed, Kept,
           NEW c \in Clerk, NEW pc \in PC \ {"hand"}, NEW kind \in Kind, NEW a \in Asset,
           NEW item, NEW status, Begin(c, pc, kind, a, item, status),
           pc \in VacantPC /\ ~Collides(kind, a) /\ a \notin astray => ~Held(a),
           pc = "close" => assignment[item] = [asset |-> a, state |-> "assigned"]
    PROVE  Kept'
<1>1. /\ proc'[c].pc = pc /\ proc'[c].kind = kind /\ proc'[c].asset = a /\ proc'[c].item = item
      /\ \A d \in Clerk \ {c} : proc'[d] = proc[d]
    BY DEF Begin, Step, Typed, TypeOK
<1>2. UNCHANGED <<asset, assignment>> /\ astray \subseteq astray'
    BY DEF Begin, tables
<1>a. Collides(kind, a) => a \in astray'
    BY DEF Begin
<1>3. Alone'
    BY <1>1, <1>2, <1>a DEF Collides, Kept, Alone, Mine
<1>4. Vacant'
  <2> SUFFICES ASSUME NEW d \in Clerk, proc'[d].pc \in VacantPC, Mine(d)' \notin astray'
               PROVE  ~Held(Mine(d))'
      BY DEF Vacant
  <2>1. CASE d = c
      BY <1>1, <1>2, <1>a, <2>1 DEF Mine, Held, Open
  <2>2. CASE d # c
      BY <1>1, <1>2, <2>2 DEF Kept, Vacant, Mine, Held, Open
  <2>3. QED
      BY <2>1, <2>2
<1>5. Closing'
    BY <1>1, <1>2 DEF Kept, Closing, At, Item, Mine
<1>6. OneHolder' /\ HeldIsAssigned'
  <2>1. \A d \in Clerk : At(d, "hand") => At(d, "hand")' /\ Mine(d)' = Mine(d)
      BY <1>1 DEF Begin, At, Mine
  <2>2. QED
      BY <1>2, <2>1 DEF Kept, OneHolder, HeldIsAssigned, Held, Open
<1>7. QED
    BY <1>3, <1>4, <1>5, <1>6 DEF Kept

\* The status of one asset is written by the last statement of c.
LEMMA StatusKept ==
    ASSUME Typed, Kept, NEW c \in Clerk, NEW s, Return(c), SetStatus(Mine(c), s),
           Mine(c) \in Asset, UNCHANGED <<assignment, astray>>,
           \/ Mine(c) \in astray
           \/ s = "assigned"
           \/ ~Held(Mine(c))
           \/ Handing(Mine(c)) /\ ~At(c, "hand"),
           At(c, "hand") => s = "assigned"
    PROVE  Kept'
<1>1. \A d \in Clerk \ {c} : proc'[d] = proc[d]
    BY DEF Return, Step, Typed, TypeOK
<1>2. /\ asset'[Mine(c)].status = s
      /\ \A a \in Asset \ {Mine(c)} : asset'[a] = asset[a]
    BY DEF SetStatus, Typed, TypeOK, AssetRow
<1>3. HeldIsAssigned'
  <2> SUFFICES ASSUME NEW a \in Asset \ astray', Held(a)'
               PROVE  (asset[a].status = "assigned")' \/ Handing(a)'
      BY DEF HeldIsAssigned, Handing
  <2>1. Held(a) /\ a \notin astray
      BY DEF Held, Open
  <2>2. CASE a = Mine(c)
    <3>1. CASE s = "assigned"
        BY <1>2, <2>2, <3>1
    <3>2. CASE Handing(Mine(c)) /\ ~At(c, "hand")
        BY <1>1, <2>2, <3>2 DEF Handing, At, Mine
    <3>3. QED
        BY <2>1, <2>2, <3>1, <3>2
  <2>3. CASE a # Mine(c)
    <3>1. CASE asset[a].status = "assigned"
        BY <1>2, <2>3, <3>1
    <3>2. CASE Handing(a)
        BY <1>1, <2>3, <3>2 DEF Handing, At, Mine
    <3>3. QED
        BY <2>1, <3>1, <3>2 DEF Kept, HeldIsAssigned, Handing
  <2>4. QED
      BY <2>2, <2>3
<1>4. QED
    BY <1>3, LastKept

LEMMA InsertKept ==
    ASSUME Typed, Kept, NEW c \in Clerk, NEW n \in Assignment, InsertAssignment(c, n)
    PROVE  Kept' /\ (Mine(c) \notin astray => Open(Mine(c)) = {})
<1>p. proc[c].pc = "insert" /\ Mine(c) \in Asset
    BY PCRows DEF InsertAssignment, At, VacantPC
<1>1. Mine(c) \notin astray => Open(Mine(c)) = {}
    BY <1>p DEF Kept, Vacant, VacantPC, Held
<1>2. /\ proc'[c].pc = "hand" /\ proc'[c].kind = proc[c].kind /\ proc'[c].asset = proc[c].asset
      /\ \A d \in Clerk \ {c} : proc'[d] = proc[d]
    BY <1>p, GotoTyped DEF InsertAssignment, PC
<1>3. /\ assignment'[n] = [asset |-> Mine(c), state |-> "assigned"]
      /\ \A m \in Assignment \ {n} : assignment'[m] = assignment[m]
      /\ assignment[n].state = "none" /\ asset' = asset /\ astray' = astray
    BY DEF InsertAssignment, Typed, TypeOK
<1>4. /\ \A a \in Asset \ {Mine(c)} : Open(a)' = Open(a)
      /\ Mine(c) \notin astray => Open(Mine(c)) = {} /\ \A m \in Assignment :
            assignment'[m] = [asset |-> Mine(c), state |-> "assigned"] => m = n
    BY <1>1, <1>3 DEF Open
<1>5. Alone'
    BY <1>2, <1>3 DEF Kept, Alone, Mine
<1>6. Vacant'
  <2> SUFFICES ASSUME NEW d \in Clerk, proc'[d].pc \in VacantPC, Mine(d)' \notin astray'
               PROVE  ~Held(Mine(d))'
      BY DEF Vacant
  <2>1. d # c /\ proc'[d] = proc[d] /\ Mine(d)' = Mine(d) /\ Mine(d) \notin astray
      BY <1>2, <1>3 DEF VacantPC, Mine
  <2>2. Mine(d) # Mine(c) /\ Mine(d) \in Asset
      BY <1>p, <2>1, Others, PCRows DEF VacantPC
  <2>3. Open(Mine(d)) = {}
      BY <2>1 DEF Kept, Vacant, Held
  <2>4. QED
      BY <1>4, <2>1, <2>2, <2>3 DEF Held, Mine
<1>7. Closing'
  <2> SUFFICES ASSUME NEW d \in Clerk, proc'[d].pc = "close"
               PROVE  /\ assignment'[Item(d)'].asset = Mine(d)'
                      /\ assignment'[Item(d)'].state # "none"
                      /\ Mine(d)' \notin astray' => assignment'[Item(d)'].state = "assigned"
      BY DEF Closing, At
  <2>1. d # c /\ proc'[d] = proc[d]
      BY <1>2
  <2>2. /\ assignment[Item(d)].asset = Mine(d) /\ assignment[Item(d)].state # "none"
        /\ Mine(d) \notin astray => assignment[Item(d)].state = "assigned"
        /\ Item(d) \in Assignment
      BY <2>1 DEF Kept, Closing, At, Typed, Refers, Item
  <2>3. QED
      BY <1>3, <2>1, <2>2 DEF Item, Mine
<1>8. OneHolder'
    BY <1>3, <1>4 DEF Kept, OneHolder, Open
<1>9. HeldIsAssigned'
  <2>1. At(c, "hand")' /\ Mine(c)' = Mine(c)
      BY <1>2 DEF At, Mine
  <2>2. \A d \in Clerk : At(d, "hand") => At(d, "hand")' /\ Mine(d)' = Mine(d)
      BY <1>p, <1>2 DEF At, Mine
  <2>3. QED
      BY <1>3, <1>4, <2>1, <2>2 DEF Kept, HeldIsAssigned, Held, Open
<1>10. QED
    BY <1>1, <1>5, <1>6, <1>7, <1>8, <1>9 DEF Kept

LEMMA CloseKept ==
    ASSUME Typed, Kept, NEW c \in Clerk, CloseAssignment(c)
    PROVE  /\ Kept'
           /\ Item(c) \in Assignment /\ assignment[Item(c)].state # "none"
           /\ assignment[Item(c)].state = "assigned" \/ assignment[Item(c)].asset \in astray
<1>p. proc[c].pc = "close" /\ Mine(c) \in Asset /\ Item(c) \in Assignment
    BY PCRows DEF CloseAssignment, At, VacantPC, Typed, Refers, Item
<1>1. /\ assignment[Item(c)].asset = Mine(c) /\ assignment[Item(c)].state # "none"
      /\ Mine(c) \notin astray => assignment[Item(c)].state = "assigned"
    BY <1>p DEF Kept, Closing, At
<1>2. /\ proc'[c].pc = "free" /\ proc'[c].kind = proc[c].kind /\ proc'[c].asset = proc[c].asset
      /\ \A d \in Clerk \ {c} : proc'[d] = proc[d]
    BY <1>p, GotoTyped DEF CloseAssignment, PC
<1>3. /\ assignment'[Item(c)].state \in {"returned", "lost"}
      /\ \A m \in Assignment \ {Item(c)} : assignment'[m] = assignment[m]
      /\ assignment'[Item(c)].asset = assignment[Item(c)].asset
      /\ asset' = asset /\ astray' = astray
    BY <1>p DEF CloseAssignment, Outcome, Typed, TypeOK, AssignmentRow
<1>4. assignment[Item(c)] \in AssignmentRow
    BY <1>p DEF Typed, TypeOK
<1>5. ASSUME Mine(c) \notin astray PROVE Open(Mine(c))' = {}
  <2>1. Item(c) \in Open(Mine(c))
      BY <1>p, <1>1, <1>4, <1>5 DEF Open, AssignmentRow
  <2>2. \A m \in Assignment : m \in Open(Mine(c)) => m = Item(c)
      BY <1>p, <1>5, <2>1 DEF Kept, OneHolder
  <2>3. Mine(c)' = Mine(c)
      BY <1>2 DEF Mine
  <2>4. QED
      BY <1>3, <2>2, <2>3 DEF Open
<1>6. \A a \in Asset : Open(a)' \subseteq Open(a)
    BY <1>3 DEF Open
<1>7. Alone'
    BY <1>2, <1>3 DEF Kept, Alone, Mine
<1>8. Vacant'
  <2> SUFFICES ASSUME NEW d \in Clerk, proc'[d].pc \in VacantPC, Mine(d)' \notin astray'
               PROVE  ~Held(Mine(d))'
      BY DEF Vacant
  <2>1. CASE d = c
      BY <1>2, <1>3, <1>5, <2>1 DEF Held, Mine
  <2>2. CASE d # c
    <3>1. proc'[d] = proc[d] /\ Mine(d)' = Mine(d) /\ Mine(d) \in Asset
        BY <1>2, <2>2, PCRows DEF Mine
    <3>2. Open(Mine(d)) = {}
        BY <1>3, <3>1 DEF Kept, Vacant, Held, Mine
    <3>3. QED
        BY <1>6, <3>1, <3>2 DEF Held
  <2>3. QED
      BY <2>1, <2>2
<1>9. Closing'
  <2> SUFFICES ASSUME NEW d \in Clerk, proc'[d].pc = "close"
               PROVE  /\ assignment'[Item(d)'].asset = Mine(d)'
                      /\ assignment'[Item(d)'].state # "none"
                      /\ Mine(d)' \notin astray' => assignment'[Item(d)'].state = "assigned"
      BY DEF Closing, At
  <2>1. d # c /\ proc'[d] = proc[d]
      BY <1>2
  <2>2. /\ assignment[Item(d)].asset = Mine(d) /\ assignment[Item(d)].state # "none"
        /\ Mine(d) \notin astray => assignment[Item(d)].state = "assigned"
        /\ Item(d) \in Assignment
      BY <2>1 DEF Kept, Closing, At, Typed, Refers, Item
  <2>3. Mine(d)' = Mine(d) /\ Item(d)' = Item(d)
      BY <2>1 DEF Mine, Item
  <2>4. CASE Item(d) = Item(c)
    <3>1. Mine(d) = Mine(c)
        BY <1>1, <2>2, <2>4
    <3>2. Mine(c) \in astray
        BY <1>p, <2>1, <3>1, Others
    <3>3. QED
        BY <1>1, <1>3, <2>3, <2>4, <3>1, <3>2
  <2>5. CASE Item(d) # Item(c)
      BY <1>3, <2>2, <2>3, <2>5
  <2>6. QED
      BY <2>4, <2>5
<1>10. OneHolder'
    BY <1>3, <1>6 DEF Kept, OneHolder
<1>11. HeldIsAssigned'
  <2>1. \A d \in Clerk : At(d, "hand") => At(d, "hand")' /\ Mine(d)' = Mine(d)
      BY <1>p, <1>2 DEF At, Mine
  <2>2. QED
      BY <1>3, <1>6, <2>1 DEF Kept, HeldIsAssigned, Held
<1>12. QED
    BY <1>p, <1>1, <1>7, <1>8, <1>9, <1>10, <1>11 DEF Kept

LEMMA AssignKept ==
    ASSUME Typed, Kept, NEW c \in Clerk, Assign(c)
    PROVE  Kept'
<1>1. ASSUME NEW a \in Asset, ReadAvailable(c, a)
      PROVE  Kept'
  <2>1. ~Collides("assign", a) => ~Handing(a)
      BY PCRows DEF Collides, Handing, At, Writing
  <2>2. ~Collides("assign", a) /\ a \notin astray => ~Held(a)
      BY <1>1, <2>1 DEF ReadAvailable, Kept, HeldIsAssigned, Handing
  <2>3. QED
      BY <1>1, <2>2, BeginKept DEF ReadAvailable, PC, Kind
<1>2. CASE HandOver(c)
    BY <1>2, PCRows, StatusKept DEF HandOver, At
<1>3. QED
    BY <1>1, <1>2, InsertKept DEF Assign

LEMMA ClosesKept ==
    ASSUME Typed, Kept, NEW c \in Clerk, Close(c)
    PROVE  Kept'
<1>1. ASSUME NEW n \in Assignment, NEW kind \in {"return", "lost"}, ReadOpen(c, n, kind)
      PROVE  Kept'
  <2> DEFINE a == assignment[n].asset
  <2>1. a \in Asset
      BY <1>1 DEF ReadOpen, Typed, Rows
  <2>2. assignment[n] = [asset |-> a, state |-> "assigned"]
      BY <1>1 DEF ReadOpen, Typed, TypeOK, AssignmentRow
  <2>3. "close" \in PC \ {"hand"} /\ "close" \notin VacantPC /\ kind \in Kind
      BY DEF PC, VacantPC, Kind
  <2>4. Begin(c, "close", kind, a, n, AfterClosing(kind))
      BY <1>1 DEF ReadOpen
  <2> HIDE DEF a
  <2>5. QED
      BY <2>1, <2>2, <2>3, <2>4, BeginKept
<1>2. CASE FreeAsset(c)
  <2>1. proc[c].pc = "free" /\ (Mine(c) \notin astray => ~Held(Mine(c))) /\ Mine(c) \in Asset
      BY <1>2, PCRows DEF FreeAsset, At, Kept, Vacant, VacantPC
  <2>2. QED
      BY <1>2, <2>1, StatusKept DEF FreeAsset, At
<1>3. QED
    BY <1>1, <1>2, CloseKept DEF Close

LEMMA MaintainKept ==
    ASSUME Typed, Kept, NEW c \in Clerk, Maintain(c)
    PROVE  Kept'
<1>1. ASSUME NEW a \in Asset, ReadForTicket(c, a)
      PROVE  Kept'
    BY <1>1, BeginKept DEF ReadForTicket, Collides, Writing, PC, Kind
<1>2. ASSUME NEW k \in Ticket, InsertTicket(c, k)
      PROVE  Kept'
    BY <1>2, GotoKept DEF InsertTicket, At, PC
<1>3. CASE TakeDown(c)
  <2>1. proc[c].pc = "down" /\ (Mine(c) \notin astray => ~Held(Mine(c))) /\ Mine(c) \in Asset
      BY <1>3, PCRows DEF TakeDown, At, Kept, Vacant, VacantPC
  <2>2. QED
      BY <1>3, <2>1, StatusKept DEF TakeDown, At
<1>4. ASSUME NEW k \in Ticket, ReadTicket(c, k)
      PROVE  Kept'
  <2>1. ticket[k].asset \in Asset
      BY <1>4 DEF ReadTicket, Typed, Rows
  <2>2. "resolve" \in PC \ {"hand"} /\ "resolve" \notin VacantPC /\ "resolve" \in Kind
      BY DEF PC, VacantPC, Kind
  <2>3. QED
      BY <1>4, <2>1, <2>2, BeginKept DEF ReadTicket
<1>5. CASE ResolveTicket(c)
    BY <1>5, GotoKept DEF ResolveTicket, At, PC
<1>6. CASE PutBack(c)
  <2>1. proc[c].pc = "up" /\ Mine(c) \in Asset
      BY <1>6 DEF PutBack, At, Mine, Typed, Refers
  <2>2. CASE asset[Mine(c)].status = "maintenance"
    <3>1. Mine(c) \in astray \/ ~Held(Mine(c)) \/ Handing(Mine(c))
        BY <2>1, <2>2 DEF Kept, HeldIsAssigned, Handing
    <3>2. QED
        BY <1>6, <2>1, <2>2, <3>1, StatusKept DEF PutBack, At
  <2>3. CASE asset[Mine(c)].status # "maintenance"
    <3>1. \A d \in Clerk \ {c} : proc'[d] = proc[d]
        BY <1>6 DEF PutBack, Return, Step, Typed, TypeOK
    <3>2. UNCHANGED <<asset, assignment, astray>>
        BY <1>6, <2>3 DEF PutBack
    <3>3. \A d \in Clerk : At(d, "hand") => At(d, "hand")' /\ Mine(d)' = Mine(d)
        BY <2>1, <3>1 DEF At, Mine
    <3>4. HeldIsAssigned'
        BY <3>2, <3>3 DEF Kept, HeldIsAssigned, Held, Open
    <3>5. QED
        BY <1>6, <3>2, <3>4, LastKept DEF PutBack
  <2>4. QED
      BY <2>2, <2>3
<1>7. QED
    BY <1>1, <1>2, <1>3, <1>4, <1>5, <1>6 DEF Maintain

LEMMA EditKept ==
    ASSUME Typed, Kept, NEW c \in Clerk, Edit(c)
    PROVE  Kept'
<1>1. ASSUME NEW a \in Asset, NEW s \in Status, OpenDialog(c, a, s)
      PROVE  Kept'
    BY <1>1, BeginKept DEF OpenDialog, Collides, Writing, PC, Kind
<1>2. CASE SaveDialog(c)
  <2>1. proc[c].pc = "save" /\ (Mine(c) \notin astray => ~Held(Mine(c))) /\ Mine(c) \in Asset
      BY <1>2, PCRows DEF SaveDialog, At, Kept, Vacant, VacantPC
  <2>2. CASE ~asset[Mine(c)].deleted
      BY <1>2, <2>1, <2>2, StatusKept DEF SaveDialog, At
  <2>3. CASE asset[Mine(c)].deleted
    <3>1. \A d \in Clerk \ {c} : proc'[d] = proc[d]
        BY <1>2 DEF SaveDialog, Return, Step, Typed, TypeOK
    <3>2. UNCHANGED <<asset, assignment, astray>>
        BY <1>2, <2>3 DEF SaveDialog
    <3>3. \A d \in Clerk : At(d, "hand") => At(d, "hand")' /\ Mine(d)' = Mine(d)
        BY <2>1, <3>1 DEF At, Mine
    <3>4. HeldIsAssigned'
        BY <3>2, <3>3 DEF Kept, HeldIsAssigned, Held, Open
    <3>5. QED
        BY <1>2, <3>2, <3>4, LastKept DEF SaveDialog
  <2>4. QED
      BY <2>2, <2>3
<1>3. QED
    BY <1>1, <1>2 DEF Edit

LEMMA DieKept ==
    ASSUME Typed, Kept, NEW c \in Clerk, Die(c)
    PROVE  Kept'
<1>1. astray \subseteq astray' /\ (At(c, "hand") => Mine(c) \in astray')
    BY DEF Die
<1>2. \A d \in Clerk \ {c} : proc'[d] = proc[d]
    BY DEF Die, Return, Step, Typed, TypeOK
<1>3. UNCHANGED <<asset, assignment>>
    BY DEF Die, tables
<1>4. \A d \in Clerk :
        At(d, "hand") => Mine(d) \in astray' \/ (At(d, "hand")' /\ Mine(d)' = Mine(d))
    BY <1>1, <1>2 DEF At, Mine
<1>5. HeldIsAssigned'
    BY <1>1, <1>3, <1>4 DEF Kept, HeldIsAssigned, Held, Open
<1>6. QED
    BY <1>1, <1>3, <1>5, LastKept DEF Die

LEMMA KeptInit == Init => Kept
<1> SUFFICES ASSUME Init PROVE Kept
    OBVIOUS
<1>1. \A c \in Clerk : proc[c].pc = "idle" /\ proc[c].kind = "none"
    BY DEF Init, Idle
<1>2. \A a : Open(a) = {}
    BY DEF Init, Open, NoRow
<1>3. "none" \notin Writing
    BY DEF Writing
<1>4. QED
    BY <1>1, <1>2, <1>3
    DEF Kept, Alone, Vacant, VacantPC, Closing, At, OneHolder, HeldIsAssigned, Held

LEMMA KeptStep == Typed /\ Kept /\ [Next]_vars => Kept'
<1> SUFFICES ASSUME Typed, Kept, [Next]_vars PROVE Kept'
    OBVIOUS
<1>1. ASSUME UNCHANGED <<assignment, proc, astray>>, \A a \in Asset : asset'[a].status = asset[a].status
      PROVE  Kept'
    BY <1>1 DEF Kept, Alone, Vacant, Closing, OneHolder, HeldIsAssigned, At, Mine, Item, Held, Open
<1>2. CASE UNCHANGED vars
    BY <1>1, <1>2 DEF vars, tables
<1>3. ASSUME NEW a \in Asset, DeleteAsset(a)
      PROVE  Kept'
    BY <1>1, <1>3 DEF DeleteAsset, Typed, TypeOK, AssetRow
<1>4. QED
    BY <1>2, <1>3, AssignKept, ClosesKept, MaintainKept, EditKept, DieKept DEF Next

\* An asset that did not go astray has one holder at most, whatever ends
\* maintenances meanwhile and wherever the other requests die.
THEOREM OneHolderAlways == Spec => []OneHolder
<1>1. Kept => OneHolder
    BY DEF Kept
<1>2. Typed /\ Kept /\ [Next]_vars => Kept'
    BY KeptStep
<1>3. QED
    BY <1>1, <1>2, KeptInit, TypedHolds, PTL DEF Spec

\* Such an asset is assigned when somebody holds it, or about to be.
THEOREM HeldIsAssignedAlways == Spec => []HeldIsAssigned
<1>1. Kept => HeldIsAssigned
    BY DEF Kept
<1>2. Typed /\ Kept /\ [Next]_vars => Kept'
    BY KeptStep
<1>3. QED
    BY <1>1, <1>2, KeptInit, TypedHolds, PTL DEF Spec

-----------------------------------------------------------------------------
(* The refinement: inserting an assignment gives the asset, closing it ends  *)
(* the custody, a collision or a death may lose an asset, and nothing else   *)
(* is seen of the two statements.                                            *)

LEMMA CustodyInit == Init => Custody!Init
BY DEF Init, Custody!Init, NoRow

LEMMA CustodyStep ==
    ASSUME Typed, Kept, [Next]_vars
    PROVE  [Custody!Next]_<<assignment, astray>>
<1>1. ASSUME NEW c \in Clerk, NEW n \in Assignment, InsertAssignment(c, n)
      PROVE  Custody!Give(n, Mine(c)) /\ Mine(c) \in Asset
  <2>1. Mine(c) \in astray \/ Open(Mine(c)) = {}
      BY <1>1, InsertKept
  <2>2. Mine(c) \in Asset
      BY <1>1, PCRows DEF InsertAssignment, At, VacantPC
  <2>3. QED
      BY <1>1, <2>1, <2>2 DEF InsertAssignment, Custody!Give, Custody!Open, Open
<1>2. ASSUME NEW c \in Clerk, CloseAssignment(c)
      PROVE  \E n \in Assignment, outcome \in {"returned", "lost"} : Custody!End(n, outcome)
  <2>1. /\ Item(c) \in Assignment /\ assignment[Item(c)].state # "none"
        /\ assignment[Item(c)].state = "assigned" \/ assignment[Item(c)].asset \in astray
      BY <1>2, CloseKept
  <2>2. Outcome(proc[c].kind) \in {"returned", "lost"}
      BY DEF Outcome
  <2>3. Custody!End(Item(c), Outcome(proc[c].kind))
      BY <1>2, <2>1 DEF CloseAssignment, Custody!End
  <2>4. QED
      BY <2>1, <2>2, <2>3
<1>b. ASSUME NEW c \in Clerk, NEW pc, NEW kind, NEW a \in Asset, NEW item, NEW status,
             Begin(c, pc, kind, a, item, status)
      PROVE  [Custody!Next]_<<assignment, astray>>
    BY <1>b DEF Begin, tables, Custody!Stray, Custody!Next
<1>d. ASSUME NEW c \in Clerk, Die(c)
      PROVE  [Custody!Next]_<<assignment, astray>>
  <2>1. At(c, "hand") => Mine(c) \in Asset
      BY PCRows DEF At
  <2>2. QED
      BY <1>d, <2>1 DEF Die, tables, Custody!Stray, Custody!Next
<1>3. ASSUME NEW c \in Clerk, Assign(c)
      PROVE  [Custody!Next]_<<assignment, astray>>
    BY <1>1, <1>3, <1>b DEF Assign, ReadAvailable, HandOver, Custody!Next
<1>4. ASSUME NEW c \in Clerk, Close(c)
      PROVE  [Custody!Next]_<<assignment, astray>>
  <2>1. ASSUME NEW n \in Assignment, NEW kind \in {"return", "lost"}, ReadOpen(c, n, kind)
        PROVE  [Custody!Next]_<<assignment, astray>>
    <3> DEFINE a == assignment[n].asset
    <3>1. a \in Asset /\ Begin(c, "close", kind, a, n, AfterClosing(kind))
        BY <2>1 DEF ReadOpen, Typed, Rows
    <3> HIDE DEF a
    <3>2. QED
        BY <3>1, <1>b
  <2>2. QED
      BY <1>2, <1>4, <2>1 DEF Close, FreeAsset, Custody!Next
<1>5. ASSUME NEW c \in Clerk, Maintain(c) \/ Edit(c)
      PROVE  [Custody!Next]_<<assignment, astray>>
  <2>1. ASSUME NEW k \in Ticket, ReadTicket(c, k)
        PROVE  [Custody!Next]_<<assignment, astray>>
    <3> DEFINE a == ticket[k].asset
    <3>1. a \in Asset /\ Begin(c, "resolve", "resolve", a, k, "available")
        BY <2>1 DEF ReadTicket, Typed, Rows
    <3> HIDE DEF a
    <3>2. QED
        BY <3>1, <1>b
  <2>2. ASSUME NEW a \in Asset, ReadForTicket(c, a) \/ \E s \in Status : OpenDialog(c, a, s)
        PROVE  [Custody!Next]_<<assignment, astray>>
      BY <1>b, <2>2 DEF ReadForTicket, OpenDialog
  <2>3. ASSUME (\E k \in Ticket : InsertTicket(c, k)) \/ TakeDown(c) \/ ResolveTicket(c)
                 \/ PutBack(c) \/ SaveDialog(c)
        PROVE  UNCHANGED <<assignment, astray>>
      BY <2>3 DEF InsertTicket, TakeDown, ResolveTicket, PutBack, SaveDialog
  <2>4. QED
      BY <1>5, <2>1, <2>2, <2>3 DEF Maintain, Edit
<1>6. CASE (\E a \in Asset : DeleteAsset(a)) \/ UNCHANGED vars
    BY <1>6 DEF DeleteAsset, vars, tables
<1>7. QED
    BY <1>3, <1>4, <1>5, <1>6, <1>d DEF Next

\* The two tables, written statement by statement, keep the promise of Custody,
\* that excepts the assets that went astray.
THEOREM AssetsImplementCustody == Spec => ImplementsCustody
<1>1. Typed /\ Kept /\ [Next]_vars => Kept'
    BY KeptStep
<1>2. Typed /\ Kept /\ [Next]_vars => [Custody!Next]_<<assignment, astray>>
    BY CustodyStep
<1>3. QED
    BY <1>1, <1>2, KeptInit, TypedHolds, CustodyInit, PTL DEF Spec, ImplementsCustody, Custody!Spec, Custody!vars
=============================================================================
