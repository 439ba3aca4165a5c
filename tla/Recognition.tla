---------------------------- MODULE Recognition ----------------------------
(* Recognitions and the points they are worth: draft, approval, publication, *)
(* the ledger of points, and the redemption of points.                       *)
(*                                                                           *)
(* Three requests publish a recognition.  Each reads it again afterwards and *)
(* credits the points in the background, when the request may be answered    *)
(* already and other requests publish, edit or delete the same recognition.  *)
(* A recognition without points credits nobody and is left out, and so is    *)
(* the state of the workflow, that is shown next to the status.  A giver     *)
(* without an account, in whose place each publisher would pay, is left out. *)
EXTENDS Naturals, FiniteSets

CONSTANTS
    Recognition,    \* recognitions that may be made
    NoRecognition,  \* a handler that is about none
    User,           \* people, with the accounts they may have
    NoUser,         \* a handler that is about nobody's balance
    Client,         \* requests in progress
    Amount,         \* points a recognition, a grant or a redemption is about
    MaxPoints,      \* bound: points of a person when there are no more grants
    MaxFaults       \* bound: requests or background tasks that die

ASSUME NobodyAssumption == NoRecognition \notin Recognition /\ NoUser \notin User
ASSUME ClientAssumption == IsFiniteSet(Client) /\ Client # {}
ASSUME UserAssumption == IsFiniteSet(User) /\ User # {}
ASSUME AmountAssumption == Amount \subseteq Nat \ {0} /\ Amount # {}
ASSUME BoundAssumption == MaxPoints \in Nat /\ MaxFaults \in Nat

VARIABLES
    recognition,    \* rows of recognitions, with their recipients
    earned,         \* recognition_points: earned by a person for a recognition
    given,          \* recognition_points: given by the giver of a recognition
    plus,           \* recognition_points: sum of the rows earned and granted
    minus,          \* recognition_points: sum of the rows redeemed
    proc,           \* requests: program counter and locals
    faults          \* requests or background tasks that died so far

ledger == <<earned, given, plus, minus>>
vars == <<recognition, ledger, proc, faults>>

Recipients == (SUBSET User) \ {{}}
RecognitionRow ==
    [status : {"none", "draft", "pending", "approved", "rejected", "published"},
     points : Amount, to : Recipients, deleted : BOOLEAN]
Handler ==
    [pc : {"idle", "publish", "reread", "annotate", "award", "redeem"},
     about : Recognition \cup {NoRecognition}, user : User \cup {NoUser},
     points : Amount, to : Recipients]

SomePoints == CHOOSE p \in Amount : TRUE
Work(pc, r, u, p, to) == [pc |-> pc, about |-> r, user |-> u, points |-> p, to |-> to]
Idle == Work("idle", NoRecognition, NoUser, SomePoints, User)
NoRow == [status |-> "none", points |-> SomePoints, to |-> User, deleted |-> FALSE]

TypeOK ==
    /\ recognition \in [Recognition -> RecognitionRow]
    /\ earned \in [Recognition -> [User -> Nat]]
    /\ given \in [Recognition -> Nat]
    /\ plus \in [User -> Nat]
    /\ minus \in [User -> Nat]
    /\ proc \in [Client -> Handler]
    /\ faults \in 0 .. MaxFaults

Init ==
    /\ recognition = [r \in Recognition |-> NoRow]
    /\ earned = [r \in Recognition |-> [u \in User |-> 0]]
    /\ given = [r \in Recognition |-> 0]
    /\ plus = [u \in User |-> 0]
    /\ minus = [u \in User |-> 0]
    /\ proc = [c \in Client |-> Idle]
    /\ faults = 0

-----------------------------------------------------------------------------
(* Helpers.                                                                  *)

At(c, pc) == proc[c].pc = pc
Mine(c) == proc[c].about
Step(c, handler) == proc' = [proc EXCEPT ![c] = handler]
Return(c) == Step(c, Idle)

Live(r) == recognition[r].status # "none" /\ ~recognition[r].deleted
SetStatus(r, s) == recognition' = [recognition EXCEPT ![r].status = s]

\* A row is updated if it has one of the statuses, by a request of one step.
Move(r, from, to) ==
    /\ Live(r)
    /\ recognition[r].status \in from
    /\ SetStatus(r, to)
    /\ UNCHANGED <<ledger, proc, faults>>

\* A published recognition is read again by the request that published it.
ReadAgain(c, r) == Step(c, Work("reread", r, NoUser, SomePoints, User))

-----------------------------------------------------------------------------
(* A recognition and its approval.                                           *)

Row(s, p, to) == [status |-> s, points |-> p, to |-> to, deleted |-> FALSE]

CreateForApproval(r, p, to) ==
    /\ recognition[r].status = "none"
    /\ recognition' = [recognition EXCEPT ![r] = Row("pending", p, to)]
    /\ UNCHANGED <<ledger, proc, faults>>

CreatePublished(c, r, p, to) ==
    /\ At(c, "idle")
    /\ recognition[r].status = "none"
    /\ recognition' = [recognition EXCEPT ![r] = Row("published", p, to)]
    /\ ReadAgain(c, r)
    /\ UNCHANGED <<ledger, faults>>

\* A moderator edits it at any time, so that the author, who edits a draft that
\* may be one no more, adds nothing.
Edit(r, p, to) ==
    /\ Live(r)
    /\ recognition' = [recognition EXCEPT ![r].points = p, ![r].to = to]
    /\ UNCHANGED <<ledger, proc, faults>>

Delete(r) ==
    /\ Live(r)
    /\ recognition' = [recognition EXCEPT ![r].deleted = TRUE]
    /\ UNCHANGED <<ledger, proc, faults>>

Submit(r) == Move(r, {"draft"}, "pending")

SendBack(r) == Move(r, {"pending"}, "draft")
ApproveAsManager(r) == Move(r, {"pending"}, "approved")

\* Mutant: whatever its status is.
RejectAnything(r) ==
    Move(r, {"draft", "pending", "approved", "rejected", "published"}, "rejected")

Reject(r) == Move(r, {"draft", "pending", "approved", "rejected"}, "rejected")

\* Mutant: the approval publishes and credits nobody.
ApproveSilently(c, r) ==
    /\ At(c, "idle")
    /\ Live(r)
    /\ recognition[r].status \in {"pending", "approved"}
    /\ SetStatus(r, "published")
    /\ UNCHANGED <<ledger, proc, faults>>

ApproveAsHr(c, r) ==
    /\ At(c, "idle")
    /\ Live(r)
    /\ recognition[r].status \in {"pending", "approved"}
    /\ SetStatus(r, "published")
    /\ ReadAgain(c, r)
    /\ UNCHANGED <<ledger, faults>>

-----------------------------------------------------------------------------
(* Publishing, and the points.                                               *)

ReadForPublish(c, r) ==
    /\ At(c, "idle")
    /\ Live(r)
    /\ recognition[r].status # "published"
    /\ Step(c, Work("publish", r, NoUser, SomePoints, User))
    /\ UNCHANGED <<recognition, ledger, faults>>

\* Mutant: it is credited first and published later, if at all.
CreditFirst(c) ==
    /\ At(c, "publish")
    /\ ReadAgain(c, Mine(c))
    /\ UNCHANGED <<recognition, ledger, faults>>

\* The status may be another one by now.
Publish(c) ==
    /\ At(c, "publish")
    /\ IF Live(Mine(c))
         THEN SetStatus(Mine(c), "published") /\ ReadAgain(c, Mine(c))
         ELSE UNCHANGED recognition /\ Return(c)
    /\ UNCHANGED <<ledger, faults>>

\* What is credited is what the recognition says now, the points first.
Reread(c) ==
    /\ At(c, "reread")
    /\ IF Live(Mine(c))
         THEN Step(c, Work("annotate", Mine(c), NoUser, recognition[Mine(c)].points, User))
         ELSE Return(c)
    /\ UNCHANGED <<recognition, ledger, faults>>

\* Then the recipients, who may be those of an edit that has come in between.
Annotate(c) ==
    /\ At(c, "annotate")
    /\ Step(c, Work("award", Mine(c), NoUser, proc[c].points, recognition[Mine(c)].to))
    /\ UNCHANGED <<recognition, ledger, faults>>

\* Of p points each to S: one row per person and recognition.
Earn(r, p, S) ==
    LET new == {u \in S : earned[r][u] = 0}
    IN  /\ earned' = [earned EXCEPT ![r] = [u \in User |-> IF u \in new THEN p ELSE earned[r][u]]]
        /\ plus' = [u \in User |-> IF u \in new THEN plus[u] + p ELSE plus[u]]

Cost(p, S) == p * (IF S = {} THEN 1 ELSE Cardinality(S))

\* Mutant: a second row of the giver is passed over like one of a recipient.
AwardAgain(c, S) ==
    /\ At(c, "award")
    /\ S \subseteq proc[c].to
    /\ Earn(Mine(c), proc[c].points, S)
    /\ given' = [given EXCEPT ![Mine(c)] = IF @ = 0 THEN Cost(proc[c].points, S) ELSE @]
    /\ Return(c)
    /\ UNCHANGED <<recognition, minus, faults>>

\* Mutant: the giver pays for the recipients without an account, too.
AwardForAll(c, S) ==
    /\ At(c, "award")
    /\ S \subseteq proc[c].to
    /\ IF given[Mine(c)] = 0
         THEN /\ Earn(Mine(c), proc[c].points, S)
              /\ given' = [given EXCEPT ![Mine(c)] = Cost(proc[c].points, proc[c].to)]
         ELSE UNCHANGED <<earned, plus, given>>
    /\ Return(c)
    /\ UNCHANGED <<recognition, minus, faults>>

\* S are the recipients that have an active account.  A second row of the giver
\* breaks the transaction, and the rows of the recipients go with it.
Award(c, S) ==
    /\ At(c, "award")
    /\ S \subseteq proc[c].to
    /\ IF given[Mine(c)] = 0
         THEN /\ Earn(Mine(c), proc[c].points, S)
              /\ given' = [given EXCEPT ![Mine(c)] = Cost(proc[c].points, S)]
         ELSE UNCHANGED <<earned, plus, given>>
    /\ Return(c)
    /\ UNCHANGED <<recognition, minus, faults>>

-----------------------------------------------------------------------------
(* Grants and redemptions.                                                   *)

Grant(u, p) ==
    /\ plus[u] + p <= MaxPoints
    /\ plus' = [plus EXCEPT ![u] = @ + p]
    /\ UNCHANGED <<recognition, earned, given, minus, proc, faults>>

\* Mutant: what was redeemed before counts as available.
CheckEarnings(c, u, p) ==
    /\ At(c, "idle")
    /\ plus[u] >= p
    /\ Step(c, Work("redeem", NoRecognition, u, p, User))
    /\ UNCHANGED <<recognition, ledger, faults>>

\* There are p points available.
CheckBalance(c, u, p) ==
    /\ At(c, "idle")
    /\ plus[u] >= minus[u] + p
    /\ Step(c, Work("redeem", NoRecognition, u, p, User))
    /\ UNCHANGED <<recognition, ledger, faults>>

Redeem(c) ==
    /\ At(c, "redeem")
    /\ minus' = [minus EXCEPT ![proc[c].user] = @ + proc[c].points]
    /\ Return(c)
    /\ UNCHANGED <<recognition, earned, given, plus, faults>>

-----------------------------------------------------------------------------

\* The process stops, or the background task ends in an error that is logged.
Die(c) ==
    /\ ~At(c, "idle")
    /\ faults < MaxFaults
    /\ faults' = faults + 1
    /\ Return(c)
    /\ UNCHANGED <<recognition, ledger>>

Decide(r) ==
    \/ Delete(r) \/ Submit(r) \/ SendBack(r) \/ ApproveAsManager(r) \/ Reject(r)
    \/ \E p \in Amount, to \in Recipients : CreateForApproval(r, p, to) \/ Edit(r, p, to)

Start(c) ==
    \/ \E r \in Recognition : ApproveAsHr(c, r) \/ ReadForPublish(c, r)
    \/ \E r \in Recognition, p \in Amount, to \in Recipients : CreatePublished(c, r, p, to)
    \/ \E u \in User, p \in Amount : CheckBalance(c, u, p)

Continue(c) ==
    \/ Publish(c)
    \/ Reread(c)
    \/ Annotate(c)
    \/ \E S \in SUBSET User : Award(c, S)
    \/ Redeem(c)

Next ==
    \/ \E r \in Recognition : Decide(r)
    \/ \E c \in Client : Start(c) \/ Continue(c) \/ Die(c)
    \/ \E u \in User, p \in Amount : Grant(u, p)

Spec == Init /\ [][Next]_vars

\* A request that has begun goes on, unless it dies.
Fairness == \A c \in Client : WF_vars(Continue(c))
FairSpec == Spec /\ Fairness

-----------------------------------------------------------------------------
(* Properties.                                                               *)

Share(p, S) == [u \in User |-> IF u \in S THEN p ELSE 0]

\* The rows of a recognition are those of one award, all of them: the same
\* points for everyone who was credited, and the giver's row for their sum,
\* however many requests published it and whatever was edited in between.
Balanced ==
    \A r \in Recognition :
        \/ given[r] = 0 /\ \A u \in User : earned[r][u] = 0
        \/ \E p \in Amount, S \in SUBSET User :
               earned[r] = Share(p, S) /\ given[r] = Cost(p, S)

\* Points that were credited are for a recognition that is published, also if
\* it was rejected or sent back while a request was about to publish it.
EarnedWasPublished ==
    \A r \in Recognition : given[r] # 0 => recognition[r].status = "published"

\* The comment over the insert says that concurrent writes of the ledger are
\* serialized: so nobody redeems more than was earned and granted.
NoOverdraft == \A u \in User : minus[u] <= plus[u]

\* They are not, and every other request in progress may redeem once against
\* the same balance, but nobody goes further: what one check lets through is
\* seen by the next one after it is written.
OverdraftBounded ==
    \A u \in User, most \in Amount :
        (\A p \in Amount : p <= most)
            => minus[u] <= plus[u] + most * (Cardinality(Client) - 1)

\* Once a recognition is credited its rows stay what they are: a later request
\* that publishes it again adds nobody.
AwardedOnce ==
    [][\A r \in Recognition :
           given[r] # 0 => earned'[r] = earned[r] /\ given'[r] = given[r]]_vars

\* No decision that comes late takes back a recognition that is published.
PublishedForGood ==
    [][\A r \in Recognition :
           recognition[r].status = "published" => recognition'[r].status = "published"]_vars

\* A recognition that is published gets credited, unless it is deleted first
\* or a request dies: nobody publishes it a second time.
PublishedIsCredited ==
    \A r \in Recognition :
        recognition[r].status = "published"
            ~> given[r] # 0 \/ recognition[r].deleted \/ faults > 0
=============================================================================
