------------------------------- MODULE Assets -------------------------------
(* Assets of a company: who has them, when they are back, lost or under      *)
(* maintenance.                                                              *)
(*                                                                           *)
(* A request reads, then writes two tables in two statements, without a      *)
(* transaction and (but for the end of a maintenance) without a look at what *)
(* it overwrites.  Any of them may be made by several people of HR at a      *)
(* time, and die between its statements.  The code then does lose track of   *)
(* an asset: astray notes the assets it happened to, and the properties say  *)
(* that it happens to no other.                                              *)
EXTENDS Naturals

CONSTANTS
    Asset,          \* assets
    NoAsset,        \* a handler that is idle
    Assignment,     \* assignments that may be made
    Ticket,         \* maintenance records that may be opened
    Nothing,        \* a handler without an assignment or a ticket at hand
    Clerk,          \* people of HR, one request each
    MaxFaults       \* bound: requests that die

Kind == {"assign", "return", "lost", "log", "resolve", "edit"}

ASSUME NothingAssumption ==
    /\ NoAsset \notin Asset
    /\ Nothing \notin Assignment \cup Ticket
    /\ Assignment \cap Ticket = {}
ASSUME FaultsAssumption == MaxFaults \in Nat

VARIABLES
    asset,          \* rows of assets
    assignment,     \* rows of asset_assignments
    ticket,         \* rows of asset_maintenance
    proc,           \* requests: program counter and locals
    faults,         \* requests that died so far
    astray          \* history: assets two requests were at, or one of them left half assigned

tables == <<asset, assignment, ticket>>
vars == <<tables, proc, faults, astray>>

\* What may be chosen in the dialog; "assigned" may not.
Chosen == {"available", "maintenance", "lost", "retired"}
Status == Chosen \cup {"assigned"}
AssetRow == [status : Status, deleted : BOOLEAN]
AssignmentRow == [asset : Asset \cup {NoAsset}, state : {"none", "assigned", "returned", "lost"}]
\* A record in progress is open as well.
TicketRow == [asset : Asset \cup {NoAsset}, state : {"none", "open", "resolved"}]

PC == {"idle", "insert", "hand", "close", "free", "record", "down", "resolve", "up", "save"}

\* item: the assignment or ticket; status: what the asset is going to be.
Handler == [pc : PC, kind : Kind \cup {"none"}, asset : Asset \cup {NoAsset},
            item : Assignment \cup Ticket \cup {Nothing}, status : Status]

NoRow == [asset |-> NoAsset, state |-> "none"]
Idle == [pc |-> "idle", kind |-> "none", asset |-> NoAsset,
         item |-> Nothing, status |-> "available"]

TypeOK ==
    /\ asset \in [Asset -> AssetRow]
    /\ assignment \in [Assignment -> AssignmentRow]
    /\ ticket \in [Ticket -> TicketRow]
    /\ proc \in [Clerk -> Handler]
    /\ faults \in 0 .. MaxFaults
    /\ astray \subseteq Asset

Init ==
    /\ asset = [a \in Asset |-> [status |-> "available", deleted |-> FALSE]]
    /\ assignment = [n \in Assignment |-> NoRow]
    /\ ticket = [k \in Ticket |-> NoRow]
    /\ proc = [c \in Clerk |-> Idle]
    /\ faults = 0
    /\ astray = {}

-----------------------------------------------------------------------------
(* Helpers.                                                                  *)

At(c, pc) == proc[c].pc = pc
Mine(c) == proc[c].asset
Item(c) == proc[c].item
Step(c, handler) == proc' = [proc EXCEPT ![c] = handler]
Goto(c, pc) == Step(c, [proc[c] EXCEPT !.pc = pc])
Return(c) == Step(c, Idle)

Open(a) == {n \in Assignment : assignment[n] = [asset |-> a, state |-> "assigned"]}
Held(a) == Open(a) # {}

\* Requests that write the status whatever it is by then.
Writing == {"assign", "return", "lost", "log", "edit"}

\* The code does not keep such a request from an asset another one is at, nor
\* a maintenance or an edit from an asset somebody holds.
Collides(kind, a) ==
    /\ kind \in Writing
    /\ \/ kind \in {"log", "edit"} /\ Held(a)
       \/ \E c \in Clerk : Mine(c) = a /\ proc[c].kind \in Writing

\* A request has read what it is about and goes on at pc.
Begin(c, pc, kind, a, item, status) ==
    /\ At(c, "idle")
    /\ Step(c, [pc |-> pc, kind |-> kind, asset |-> a, item |-> item, status |-> status])
    /\ astray' = IF Collides(kind, a) THEN astray \cup {a} ELSE astray
    /\ UNCHANGED <<tables, faults>>

SetStatus(a, s) == asset' = [asset EXCEPT ![a].status = s]

-----------------------------------------------------------------------------
(* assignAsset.                                                              *)

\* Mutant: the status is not looked at.
ReadAny(c, a) ==
    /\ ~asset[a].deleted
    /\ Begin(c, "insert", "assign", a, Nothing, "assigned")

ReadAvailable(c, a) ==
    /\ ~asset[a].deleted
    /\ asset[a].status = "available"
    /\ Begin(c, "insert", "assign", a, Nothing, "assigned")

InsertAssignment(c, n) ==
    /\ At(c, "insert")
    /\ assignment[n].state = "none"
    /\ assignment' = [assignment EXCEPT ![n] = [asset |-> Mine(c), state |-> "assigned"]]
    /\ Goto(c, "hand")
    /\ UNCHANGED <<asset, ticket, faults, astray>>

\* Mutant: the asset stays as it is.
HandSilently(c) ==
    /\ At(c, "hand")
    /\ Return(c)
    /\ UNCHANGED <<tables, faults, astray>>

HandOver(c) ==
    /\ At(c, "hand")
    /\ SetStatus(Mine(c), "assigned")
    /\ Return(c)
    /\ UNCHANGED <<assignment, ticket, faults, astray>>

-----------------------------------------------------------------------------
(* returnAsset and markAssetLost.                                            *)

Outcome(kind) == IF kind = "return" THEN "returned" ELSE "lost"
AfterClosing(kind) == IF kind = "return" THEN "available" ELSE "lost"

\* Mutant: an assignment that has ended may end again.
ReadMade(c, n, kind) ==
    /\ assignment[n].state # "none"
    /\ Begin(c, "close", kind, assignment[n].asset, n, AfterClosing(kind))

ReadOpen(c, n, kind) ==
    /\ assignment[n].state = "assigned"
    /\ Begin(c, "close", kind, assignment[n].asset, n, AfterClosing(kind))

CloseAssignment(c) ==
    /\ At(c, "close")
    /\ assignment' = [assignment EXCEPT ![Item(c)].state = Outcome(proc[c].kind)]
    /\ Goto(c, "free")
    /\ UNCHANGED <<asset, ticket, faults, astray>>

FreeAsset(c) ==
    /\ At(c, "free")
    /\ SetStatus(Mine(c), proc[c].status)
    /\ Return(c)
    /\ UNCHANGED <<assignment, ticket, faults, astray>>

-----------------------------------------------------------------------------
(* createMaintenanceRecord and updateMaintenanceRecord.                      *)

ReadForTicket(c, a) ==
    /\ ~asset[a].deleted
    /\ Begin(c, "record", "log", a, Nothing, "maintenance")

InsertTicket(c, k) ==
    /\ At(c, "record")
    /\ ticket[k].state = "none"
    /\ ticket' = [ticket EXCEPT ![k] = [asset |-> Mine(c), state |-> "open"]]
    /\ Goto(c, "down")
    /\ UNCHANGED <<asset, assignment, faults, astray>>

TakeDown(c) ==
    /\ At(c, "down")
    /\ SetStatus(Mine(c), "maintenance")
    /\ Return(c)
    /\ UNCHANGED <<assignment, ticket, faults, astray>>

\* Also a record that is resolved already is resolved again.
ReadTicket(c, k) ==
    /\ ticket[k].state # "none"
    /\ Begin(c, "resolve", "resolve", ticket[k].asset, k, "available")

ResolveTicket(c) ==
    /\ At(c, "resolve")
    /\ ticket' = [ticket EXCEPT ![Item(c)].state = "resolved"]
    /\ Goto(c, "up")
    /\ UNCHANGED <<asset, assignment, faults, astray>>

\* Mutant: whatever the status is.
PutBackAnyway(c) ==
    /\ At(c, "up")
    /\ SetStatus(Mine(c), "available")
    /\ Return(c)
    /\ UNCHANGED <<assignment, ticket, faults, astray>>

PutBack(c) ==
    /\ At(c, "up")
    /\ IF asset[Mine(c)].status = "maintenance"
         THEN SetStatus(Mine(c), "available")
         ELSE UNCHANGED asset
    /\ Return(c)
    /\ UNCHANGED <<assignment, ticket, faults, astray>>

-----------------------------------------------------------------------------
(* The dialog to edit an asset, and its deletion.                            *)

\* The dialog sends the status it was opened with, or another one chosen.
OpenDialog(c, a, s) ==
    /\ ~asset[a].deleted
    /\ s \in Chosen \cup {asset[a].status}
    /\ Begin(c, "save", "edit", a, Nothing, s)

SaveDialog(c) ==
    /\ At(c, "save")
    /\ IF asset[Mine(c)].deleted
         THEN UNCHANGED asset
         ELSE SetStatus(Mine(c), proc[c].status)
    /\ Return(c)
    /\ UNCHANGED <<assignment, ticket, faults, astray>>

DeleteAsset(a) ==
    /\ ~asset[a].deleted
    /\ asset' = [asset EXCEPT ![a].deleted = TRUE]
    /\ UNCHANGED <<assignment, ticket, proc, faults, astray>>

-----------------------------------------------------------------------------

Die(c) ==
    /\ ~At(c, "idle")
    /\ faults < MaxFaults
    /\ faults' = faults + 1
    /\ astray' = IF At(c, "hand") THEN astray \cup {Mine(c)} ELSE astray
    /\ Return(c)
    /\ UNCHANGED tables

Assign(c) ==
    \/ \E a \in Asset : ReadAvailable(c, a)
    \/ \E n \in Assignment : InsertAssignment(c, n)
    \/ HandOver(c)

Close(c) ==
    \/ \E n \in Assignment, kind \in {"return", "lost"} : ReadOpen(c, n, kind)
    \/ CloseAssignment(c)
    \/ FreeAsset(c)

Maintain(c) ==
    \/ \E a \in Asset : ReadForTicket(c, a)
    \/ \E k \in Ticket : InsertTicket(c, k) \/ ReadTicket(c, k)
    \/ TakeDown(c)
    \/ ResolveTicket(c)
    \/ PutBack(c)

Edit(c) ==
    \/ \E a \in Asset, s \in Status : OpenDialog(c, a, s)
    \/ SaveDialog(c)

Next ==
    \/ \E c \in Clerk : Assign(c) \/ Close(c) \/ Maintain(c) \/ Edit(c) \/ Die(c)
    \/ \E a \in Asset : DeleteAsset(a)

Spec == Init /\ [][Next]_vars

-----------------------------------------------------------------------------
(* Properties.                                                               *)

\* Nobody makes sure of it in the database: an asset has one open assignment
\* at most, whatever resolves old maintenance records meanwhile, and wherever
\* a return, a loss or a maintenance stopped half way.
OneHolder == \A a \in Asset \ astray : \A m, n \in Open(a) : m = n

\* An asset somebody holds is shown as assigned, so that it is not offered to
\* anybody else, as soon as the request that assigned it is through.
HeldIsAssigned ==
    \A a \in Asset \ astray :
        Held(a) => \/ asset[a].status = "assigned"
                   \/ \E c \in Clerk : At(c, "hand") /\ Mine(c) = a

\* The assignments keep what Custody promises: given only when nobody holds
\* the asset, ended once, for good.
Custody == INSTANCE Custody

ImplementsCustody == Custody!Spec
=============================================================================
