------------------------- MODULE RecognitionProofs -------------------------
(* Theorems about Recognition, for any number of people, recognitions and    *)
(* requests.                                                                 *)
EXTENDS Recognition, FiniteSetTheorems, TLAPS

\* What a request at work is about.
Refers ==
    /\ \A c \in Client :
           proc[c].pc \in {"publish", "reread", "annotate", "award"} => proc[c].about \in Recognition
    /\ \A c \in Client : proc[c].pc = "redeem" => proc[c].user \in User

Typed == TypeOK /\ Refers

-----------------------------------------------------------------------------
(* Facts about the operators.                                                *)

\* The points of an idle handler are points.
LEMMA SomePointsTyped == SomePoints \in Amount
BY AmountAssumption DEF SomePoints

\* A handler that is about nothing.
LEMMA WorkTyped ==
    ASSUME NEW pc \in {"idle", "publish", "reread", "annotate", "award", "redeem"},
           NEW r \in Recognition \cup {NoRecognition}, NEW u \in User \cup {NoUser},
           NEW p \in Amount, NEW to \in Recipients
    PROVE  /\ Work(pc, r, u, p, to) \in Handler
           /\ Work(pc, r, u, p, to).pc = pc
           /\ Work(pc, r, u, p, to).about = r
           /\ Work(pc, r, u, p, to).user = u
           /\ Work(pc, r, u, p, to).points = p
           /\ Work(pc, r, u, p, to).to = to
BY DEF Work, Handler

\* Everybody together are recipients.
LEMMA UserTyped == User \in Recipients
BY UserAssumption DEF Recipients

\* The idle handler is one.
LEMMA IdleTyped == Idle \in Handler /\ Idle.pc = "idle"
BY SomePointsTyped, UserTyped, WorkTyped DEF Idle

\* What an award costs the giver is never nothing.
LEMMA CostTyped ==
    ASSUME NEW p \in Amount, NEW S \in SUBSET User
    PROVE  Cost(p, S) \in Nat /\ Cost(p, S) # 0
<1> DEFINE n == IF S = {} THEN 1 ELSE Cardinality(S)
<1>1. n \in Nat /\ n # 0
  <2>1. IsFiniteSet(S)
    BY UserAssumption, FS_Subset
  <2>2. Cardinality(S) \in Nat
    BY <2>1, FS_CardinalityType
  <2>3. S # {} => Cardinality(S) # 0
    BY <2>1, FS_EmptySet
  <2> QED
    BY <2>2, <2>3
<1>2. p \in Nat /\ p # 0
  BY AmountAssumption
<1>3. Cost(p, S) = p * n
  BY DEF Cost
<1> HIDE DEF n
<1>4. p * n \in Nat /\ p * n # 0
  BY <1>1, <1>2, SMTT(30)
<1> QED
  BY <1>3, <1>4

\* A request goes on as another one.
LEMMA StepTyped ==
    ASSUME Typed, NEW c \in Client, NEW h \in Handler, Step(c, h),
           h.pc \in {"publish", "reread", "annotate", "award"} => h.about \in Recognition,
           h.pc = "redeem" => h.user \in User
    PROVE  /\ proc' \in [Client -> Handler]
           /\ Refers'
BY DEF Typed, TypeOK, Refers, Step

\* A request ends.
LEMMA ReturnTyped ==
    ASSUME Typed, NEW c \in Client, Return(c)
    PROVE  /\ proc' \in [Client -> Handler]
           /\ Refers'
BY IdleTyped, StepTyped DEF Return

\* A request reads again what it published.
LEMMA ReadAgainTyped ==
    ASSUME Typed, NEW c \in Client, NEW r \in Recognition, ReadAgain(c, r)
    PROVE  /\ proc' \in [Client -> Handler]
           /\ Refers'
<1> DEFINE h == Work("reread", r, NoUser, SomePoints, User)
<1>1. h \in Handler /\ h.pc = "reread" /\ h.about = r
  BY SomePointsTyped, UserTyped, WorkTyped
<1>2. Step(c, h)
  BY DEF ReadAgain
<1> HIDE DEF h
<1> QED
  BY <1>1, <1>2, StepTyped

\* A status is set.
LEMMA SetStatusTyped ==
    ASSUME Typed, NEW r \in Recognition,
           NEW s \in {"none", "draft", "pending", "approved", "rejected", "published"},
           SetStatus(r, s)
    PROVE  recognition' \in [Recognition -> RecognitionRow]
BY DEF Typed, TypeOK, SetStatus, RecognitionRow

-----------------------------------------------------------------------------
(* Types.                                                                    *)

LEMMA TypedInit == Init => Typed
<1> SUFFICES ASSUME Init PROVE Typed
  OBVIOUS
<1>1. NoRow \in RecognitionRow
  BY SomePointsTyped, UserTyped DEF NoRow, RecognitionRow
<1>2. TypeOK
  BY <1>1, IdleTyped, BoundAssumption DEF Init, TypeOK
<1>3. Refers
  BY IdleTyped DEF Init, Refers
<1> QED
  BY <1>2, <1>3 DEF Typed

LEMMA TypedDecide ==
    ASSUME Typed, NEW r \in Recognition, Decide(r)
    PROVE  Typed'
<1>1. ASSUME NEW from, NEW to \in {"draft", "pending", "approved", "rejected"},
             Move(r, from, to)
      PROVE  Typed'
  <2>1. recognition' \in [Recognition -> RecognitionRow]
    BY <1>1, SetStatusTyped DEF Move
  <2> QED
    BY <1>1, <2>1 DEF Typed, TypeOK, Refers, Move, ledger
<1>2. CASE Delete(r)
  <2>1. recognition' \in [Recognition -> RecognitionRow]
    BY <1>2 DEF Delete, Typed, TypeOK, RecognitionRow
  <2> QED
    BY <1>2, <2>1 DEF Typed, TypeOK, Refers, Delete, ledger
<1>3. ASSUME NEW p \in Amount, NEW to \in Recipients, CreateForApproval(r, p, to)
      PROVE  Typed'
  <2>1. Row("pending", p, to) \in RecognitionRow
    BY DEF Row, RecognitionRow
  <2>2. recognition' \in [Recognition -> RecognitionRow]
    BY <1>3, <2>1 DEF CreateForApproval, Typed, TypeOK
  <2> QED
    BY <1>3, <2>2 DEF Typed, TypeOK, Refers, CreateForApproval, ledger
<1>4. ASSUME NEW p \in Amount, NEW to \in Recipients, Edit(r, p, to)
      PROVE  Typed'
  <2>1. recognition' = [recognition EXCEPT ![r] =
                            [recognition[r] EXCEPT !.points = p, !.to = to]]
    BY <1>4 DEF Edit, Typed, TypeOK
  <2>2. [recognition[r] EXCEPT !.points = p, !.to = to] \in RecognitionRow
    BY DEF Typed, TypeOK, RecognitionRow
  <2>3. recognition' \in [Recognition -> RecognitionRow]
    BY <2>1, <2>2 DEF Typed, TypeOK
  <2> QED
    BY <1>4, <2>3 DEF Typed, TypeOK, Refers, Edit, ledger
<1>5. CASE Submit(r) \/ SendBack(r) \/ ApproveAsManager(r) \/ Reject(r)
  BY <1>1, <1>5 DEF Submit, SendBack, ApproveAsManager, Reject
<1> QED
  BY <1>2, <1>3, <1>4, <1>5 DEF Decide

LEMMA TypedStart ==
    ASSUME Typed, NEW c \in Client, Start(c)
    PROVE  Typed'
<1>1. ASSUME NEW r \in Recognition, ApproveAsHr(c, r)
      PROVE  Typed'
  <2>1. recognition' \in [Recognition -> RecognitionRow]
    BY <1>1, SetStatusTyped DEF ApproveAsHr
  <2>2. proc' \in [Client -> Handler] /\ Refers'
    BY <1>1, ReadAgainTyped DEF ApproveAsHr
  <2> QED
    BY <1>1, <2>1, <2>2 DEF Typed, TypeOK, ApproveAsHr, ledger
<1>2. ASSUME NEW r \in Recognition, ReadForPublish(c, r)
      PROVE  Typed'
  <2> DEFINE h == Work("publish", r, NoUser, SomePoints, User)
  <2>1. h \in Handler /\ h.pc = "publish" /\ h.about = r
    BY SomePointsTyped, UserTyped, WorkTyped
  <2>2. Step(c, h)
    BY <1>2 DEF ReadForPublish
  <2> HIDE DEF h
  <2>3. proc' \in [Client -> Handler] /\ Refers'
    BY <2>1, <2>2, StepTyped
  <2> QED
    BY <1>2, <2>3 DEF Typed, TypeOK, ReadForPublish, ledger
<1>3. ASSUME NEW r \in Recognition, NEW p \in Amount, NEW to \in Recipients,
             CreatePublished(c, r, p, to)
      PROVE  Typed'
  <2>1. Row("published", p, to) \in RecognitionRow
    BY DEF Row, RecognitionRow
  <2>2. recognition' \in [Recognition -> RecognitionRow]
    BY <1>3, <2>1 DEF CreatePublished, Typed, TypeOK
  <2>3. proc' \in [Client -> Handler] /\ Refers'
    BY <1>3, ReadAgainTyped DEF CreatePublished
  <2> QED
    BY <1>3, <2>2, <2>3 DEF Typed, TypeOK, CreatePublished, ledger
<1>4. ASSUME NEW u \in User, NEW p \in Amount, CheckBalance(c, u, p)
      PROVE  Typed'
  <2> DEFINE h == Work("redeem", NoRecognition, u, p, User)
  <2>1. h \in Handler /\ h.pc = "redeem" /\ h.user = u
    BY UserTyped, WorkTyped
  <2>2. Step(c, h)
    BY <1>4 DEF CheckBalance
  <2> HIDE DEF h
  <2>3. proc' \in [Client -> Handler] /\ Refers'
    BY <2>1, <2>2, StepTyped
  <2> QED
    BY <1>4, <2>3 DEF Typed, TypeOK, CheckBalance, ledger
<1> QED
  BY <1>1, <1>2, <1>3, <1>4 DEF Start

\* The rows of an award.
LEMMA EarnTyped ==
    ASSUME Typed, NEW r \in Recognition, NEW p \in Amount, NEW S, Earn(r, p, S)
    PROVE  earned' \in [Recognition -> [User -> Nat]] /\ plus' \in [User -> Nat]
<1>1. p \in Nat
  BY AmountAssumption
<1> QED
  BY <1>1 DEF Typed, TypeOK, Earn

LEMMA TypedContinue ==
    ASSUME Typed, NEW c \in Client, Continue(c)
    PROVE  Typed'
<1>1. CASE Publish(c)
  <2>1. Mine(c) \in Recognition
    BY <1>1 DEF Typed, Refers, Publish, At, Mine
  <2>2. recognition' \in [Recognition -> RecognitionRow]
    BY <1>1, <2>1, SetStatusTyped DEF Publish, Typed, TypeOK
  <2>3. proc' \in [Client -> Handler] /\ Refers'
    BY <1>1, <2>1, ReadAgainTyped, ReturnTyped DEF Publish
  <2> QED
    BY <1>1, <2>2, <2>3 DEF Typed, TypeOK, Publish, ledger
<1>2. CASE Reread(c)
  <2> DEFINE h == Work("annotate", Mine(c), NoUser, recognition[Mine(c)].points, User)
  <2>1. Mine(c) \in Recognition
    BY <1>2 DEF Typed, Refers, Reread, At, Mine
  <2>2. recognition[Mine(c)].points \in Amount
    BY <2>1 DEF Typed, TypeOK, RecognitionRow
  <2>3. h \in Handler /\ h.pc = "annotate" /\ h.about = Mine(c)
    BY <2>1, <2>2, UserTyped, WorkTyped
  <2>4. Step(c, h) \/ Return(c)
    BY <1>2 DEF Reread
  <2> HIDE DEF h
  <2>5. proc' \in [Client -> Handler] /\ Refers'
    BY <2>1, <2>3, <2>4, StepTyped, ReturnTyped
  <2> QED
    BY <1>2, <2>5 DEF Typed, TypeOK, Reread, ledger
<1>5. CASE Annotate(c)
  <2> DEFINE h == Work("award", Mine(c), NoUser, proc[c].points, recognition[Mine(c)].to)
  <2>1. Mine(c) \in Recognition /\ proc[c].points \in Amount
    BY <1>5 DEF Typed, TypeOK, Refers, Annotate, At, Mine, Handler
  <2>2. recognition[Mine(c)].to \in Recipients
    BY <2>1 DEF Typed, TypeOK, RecognitionRow
  <2>3. h \in Handler /\ h.pc = "award" /\ h.about = Mine(c)
    BY <2>1, <2>2, WorkTyped
  <2>4. Step(c, h)
    BY <1>5 DEF Annotate
  <2> HIDE DEF h
  <2>5. proc' \in [Client -> Handler] /\ Refers'
    BY <2>1, <2>3, <2>4, StepTyped
  <2> QED
    BY <1>5, <2>5 DEF Typed, TypeOK, Annotate, ledger
<1>3. ASSUME NEW S \in SUBSET User, Award(c, S)
      PROVE  Typed'
  <2>1. Mine(c) \in Recognition /\ proc[c].points \in Amount
    BY <1>3 DEF Typed, TypeOK, Refers, Award, At, Mine, Handler
  <2>2. Cost(proc[c].points, S) \in Nat
    BY <2>1, CostTyped
  <2>3. /\ earned' \in [Recognition -> [User -> Nat]]
        /\ plus' \in [User -> Nat]
        /\ given' \in [Recognition -> Nat]
    <3>1. CASE given[Mine(c)] = 0
      BY <1>3, <2>1, <2>2, <3>1, EarnTyped DEF Award, Typed, TypeOK
    <3>2. CASE given[Mine(c)] # 0
      BY <1>3, <3>2 DEF Award, Typed, TypeOK
    <3> QED
      BY <3>1, <3>2
  <2>4. proc' \in [Client -> Handler] /\ Refers'
    BY <1>3, ReturnTyped DEF Award
  <2> QED
    BY <1>3, <2>3, <2>4 DEF Typed, TypeOK, Award
<1>4. CASE Redeem(c)
  <2>1. proc[c].points \in Nat /\ proc[c].user \in User
    BY <1>4, AmountAssumption DEF Typed, TypeOK, Refers, Redeem, At, Handler
  <2>2. minus' \in [User -> Nat]
    BY <1>4, <2>1 DEF Redeem, Typed, TypeOK
  <2>3. proc' \in [Client -> Handler] /\ Refers'
    BY <1>4, ReturnTyped DEF Redeem
  <2> QED
    BY <1>4, <2>2, <2>3 DEF Typed, TypeOK, Redeem
<1> QED
  BY <1>1, <1>2, <1>3, <1>4, <1>5 DEF Continue

LEMMA TypedStep == Typed /\ [Next]_vars => Typed'
<1> SUFFICES ASSUME Typed, [Next]_vars PROVE Typed'
  OBVIOUS
<1>1. ASSUME NEW c \in Client, Die(c)
      PROVE  Typed'
  <2>1. proc' \in [Client -> Handler] /\ Refers'
    BY <1>1, ReturnTyped DEF Die
  <2>2. faults' \in 0 .. MaxFaults
    BY <1>1, BoundAssumption DEF Die, Typed, TypeOK
  <2> QED
    BY <1>1, <2>1, <2>2 DEF Typed, TypeOK, Die, ledger
<1>2. ASSUME NEW u \in User, NEW p \in Amount, Grant(u, p)
      PROVE  Typed'
  <2>1. plus' \in [User -> Nat]
    BY <1>2, AmountAssumption DEF Grant, Typed, TypeOK
  <2> QED
    BY <1>2, <2>1 DEF Typed, TypeOK, Refers, Grant
<1>3. CASE UNCHANGED vars
  BY <1>3 DEF Typed, TypeOK, Refers, vars, ledger
<1> QED
  BY <1>1, <1>2, <1>3, TypedDecide, TypedStart, TypedContinue DEF Next

\* Every reachable state is well-typed, and a request at work is about a
\* recognition or a balance that is there.
THEOREM TypedHolds == Spec => []Typed
BY TypedInit, TypedStep, PTL DEF Spec

\* Every variable keeps its type.
THEOREM TypeCorrect == Spec => []TypeOK
<1>1. Typed => TypeOK
  BY DEF Typed
<1> QED
  BY <1>1, TypedHolds, PTL

-----------------------------------------------------------------------------
(* One award.                                                                *)

\* One award, all of it, or none, for one recognition.
BalancedFor(r) ==
    \/ given[r] = 0 /\ \A u \in User : earned[r][u] = 0
    \/ \E p \in Amount, S \in SUBSET User : earned[r] = Share(p, S) /\ given[r] = Cost(p, S)

\* An award of a recognition that is not credited yet is the only one.
LEMMA FirstAward ==
    ASSUME Typed, Balanced, NEW c \in Client, NEW S \in SUBSET User, Award(c, S),
           given[Mine(c)] = 0
    PROVE  /\ Mine(c) \in Recognition /\ proc[c].points \in Amount
           /\ earned' = [earned EXCEPT ![Mine(c)] = Share(proc[c].points, S)]
           /\ given' = [given EXCEPT ![Mine(c)] = Cost(proc[c].points, S)]
<1> DEFINE r == Mine(c)
           p == proc[c].points
<1>1. r \in Recognition /\ p \in Amount
  BY DEF Typed, TypeOK, Refers, Award, At, Mine, Handler
<1>2. \A u \in User : earned[r][u] = 0
  BY <1>1, CostTyped DEF Balanced
<1>3. Earn(r, p, S) /\ given' = [given EXCEPT ![r] = Cost(p, S)]
  BY DEF Award
<1> HIDE DEF r, p
<1>4. [u \in User |-> IF u \in {v \in S : earned[r][v] = 0} THEN p ELSE earned[r][u]]
        = Share(p, S)
  BY <1>2 DEF Share
<1>5. earned' = [earned EXCEPT ![r] = Share(p, S)]
  BY <1>3, <1>4 DEF Earn
<1> QED
  BY <1>1, <1>3, <1>5 DEF r, p

\* An award of one that is credited is rolled back.
LEMMA LaterAward ==
    ASSUME NEW c \in Client, NEW S \in SUBSET User, Award(c, S), given[Mine(c)] # 0
    PROVE  UNCHANGED <<earned, given, plus>>
BY DEF Award

\* Only an award writes the rows of recognitions.
LEMMA RowsOnlyByAward ==
    ASSUME [Next]_vars, ~\E c \in Client, S \in SUBSET User : Award(c, S)
    PROVE  UNCHANGED <<earned, given>>
BY DEF Next, Decide, Start, Continue, Die, Grant, Move, Delete, Submit, SendBack,
       ApproveAsManager, Reject, CreateForApproval, Edit, ApproveAsHr, ReadForPublish,
       CreatePublished, CheckBalance, Publish, Reread, Annotate, Redeem, vars, ledger

LEMMA BalancedStep == Typed /\ Balanced /\ [Next]_vars => Balanced'
<1> SUFFICES ASSUME Typed, Balanced, [Next]_vars, NEW q \in Recognition
             PROVE  BalancedFor(q)'
  BY DEF Balanced, BalancedFor
<1>0. BalancedFor(q)
  BY DEF Balanced, BalancedFor
<1>1. ASSUME NEW c \in Client, NEW S \in SUBSET User, Award(c, S), given[Mine(c)] = 0
      PROVE  BalancedFor(q)'
  <2>1. CASE q = Mine(c)
    <3>1. /\ earned'[q] = Share(proc[c].points, S)
          /\ given'[q] = Cost(proc[c].points, S)
          /\ proc[c].points \in Amount
      BY <1>1, <2>1, FirstAward DEF Typed, TypeOK
    <3>2. \E p \in Amount, T \in SUBSET User :
              earned'[q] = Share(p, T) /\ given'[q] = Cost(p, T)
      BY <3>1
    <3> QED
      BY <3>2 DEF BalancedFor
  <2>2. CASE q # Mine(c)
    <3>1. earned'[q] = earned[q] /\ given'[q] = given[q]
      BY <1>1, <2>2, FirstAward DEF Typed, TypeOK
    <3> QED
      BY <1>0, <3>1 DEF BalancedFor
  <2> QED
    BY <2>1, <2>2
<1>2. CASE UNCHANGED <<earned, given>>
  BY <1>0, <1>2 DEF BalancedFor
<1> QED
  BY <1>1, <1>2, LaterAward, RowsOnlyByAward

\* However often a recognition is published and edited, its rows are those of
\* one award and sum up.
THEOREM BalancedAlways == Spec => []Balanced
<1>1. Init => Balanced
  BY DEF Init, Balanced
<1> QED
  BY <1>1, TypedHolds, BalancedStep, PTL DEF Spec

\* No step changes the rows of a recognition that is credited.
THEOREM AwardedOnceAlways == Spec => AwardedOnce
<1>1. Typed /\ Balanced /\ [Next]_vars =>
        [\A r \in Recognition :
             given[r] # 0 => earned'[r] = earned[r] /\ given'[r] = given[r]]_vars
  <2> SUFFICES ASSUME Typed, Balanced, [Next]_vars, NEW r \in Recognition, given[r] # 0
               PROVE  earned'[r] = earned[r] /\ given'[r] = given[r]
    OBVIOUS
  <2>1. ASSUME NEW c \in Client, NEW S \in SUBSET User, Award(c, S), given[Mine(c)] = 0
        PROVE  earned'[r] = earned[r] /\ given'[r] = given[r]
    BY <2>1, FirstAward DEF Typed, TypeOK
  <2> QED
    BY <2>1, LaterAward, RowsOnlyByAward
<1> QED
  BY <1>1, TypedHolds, BalancedAlways, PTL DEF Spec, AwardedOnce

-----------------------------------------------------------------------------
(* Publication.                                                              *)

\* What a step does to the status of a recognition.
StatusStep(r) ==
    recognition[r].status = "published" => recognition'[r].status = "published"

LEMMA PublishedStays ==
    ASSUME Typed, [Next]_vars, NEW q \in Recognition
    PROVE  StatusStep(q)
<1>1. ASSUME NEW r \in Recognition, Decide(r)
      PROVE  StatusStep(q)
  <2>1. CASE Delete(r) \/ Submit(r) \/ SendBack(r) \/ ApproveAsManager(r) \/ Reject(r)
    BY <2>1 DEF StatusStep, Typed, TypeOK, RecognitionRow, Move, SetStatus,
                Delete, Submit, SendBack, ApproveAsManager, Reject
  <2>2. ASSUME NEW p \in Amount, NEW to \in Recipients,
               CreateForApproval(r, p, to) \/ Edit(r, p, to)
        PROVE  StatusStep(q)
    BY <2>2 DEF StatusStep, Typed, TypeOK, RecognitionRow, CreateForApproval, Edit
  <2> QED
    BY <1>1, <2>1, <2>2 DEF Decide
<1>2. ASSUME NEW c \in Client, NEW r \in Recognition, ApproveAsHr(c, r)
      PROVE  StatusStep(q)
  BY <1>2 DEF StatusStep, Typed, TypeOK, RecognitionRow, ApproveAsHr, SetStatus
<1>3. ASSUME NEW c \in Client, NEW r \in Recognition, NEW p \in Amount,
             NEW to \in Recipients, CreatePublished(c, r, p, to)
      PROVE  StatusStep(q)
  BY <1>3 DEF StatusStep, Typed, TypeOK, RecognitionRow, CreatePublished
<1>4. ASSUME NEW c \in Client, Publish(c)
      PROVE  StatusStep(q)
  BY <1>4 DEF StatusStep, Typed, TypeOK, RecognitionRow, Publish, SetStatus
<1>5. CASE UNCHANGED recognition
  BY <1>5 DEF StatusStep
<1>6. \/ \E r \in Recognition : Decide(r)
      \/ \E c \in Client, r \in Recognition : ApproveAsHr(c, r)
      \/ \E c \in Client, r \in Recognition, p \in Amount, to \in Recipients :
             CreatePublished(c, r, p, to)
      \/ \E c \in Client : Publish(c)
      \/ UNCHANGED recognition
  BY DEF Next, Start, Continue, Die, Grant, ReadForPublish, CheckBalance, Reread, Annotate,
         Award, Redeem, vars
<1> QED
  BY <1>1, <1>2, <1>3, <1>4, <1>5, <1>6

\* No decision takes back a recognition that is published.
THEOREM PublishedForGoodAlways == Spec => PublishedForGood
<1>1. Typed /\ [Next]_vars =>
        [\A r \in Recognition :
             recognition[r].status = "published" => recognition'[r].status = "published"]_vars
  BY PublishedStays DEF StatusStep
<1> QED
  BY <1>1, TypedHolds, PTL DEF Spec, PublishedForGood

\* A request that is going to credit a recognition has published it.
Published ==
    \A c \in Client :
        proc[c].pc \in {"reread", "annotate", "award"} => recognition[proc[c].about].status = "published"

\* How a request comes to read again, or to credit, what is published.
LEMMA PublishedStep ==
    ASSUME Typed, Published, [Next]_vars, NEW d \in Client,
           proc'[d].pc \in {"reread", "annotate", "award"}
    PROVE  recognition'[proc'[d].about].status = "published"
<1>1. CASE proc'[d] = proc[d]
  BY <1>1, PublishedStays DEF StatusStep, Published, Typed, Refers
<1>2. ASSUME NEW c \in Client, Step(c, Idle)
      PROVE  proc'[d] = proc[d]
  BY <1>2, IdleTyped DEF Typed, TypeOK, Step
<1>3. ASSUME NEW c \in Client, NEW h \in Handler, Step(c, h),
             h.pc \in {"reread", "annotate", "award"} => recognition'[h.about].status = "published"
      PROVE  recognition'[proc'[d].about].status = "published"
  BY <1>1, <1>3 DEF Typed, TypeOK, Step
<1>4. ASSUME NEW c \in Client, NEW r \in Recognition, ReadAgain(c, r),
             recognition'[r].status = "published"
      PROVE  recognition'[proc'[d].about].status = "published"
  <2> DEFINE h == Work("reread", r, NoUser, SomePoints, User)
  <2>1. h \in Handler /\ h.about = r
    BY SomePointsTyped, UserTyped, WorkTyped
  <2>2. Step(c, h)
    BY <1>4 DEF ReadAgain
  <2> HIDE DEF h
  <2> QED
    BY <1>3, <1>4, <2>1, <2>2
<1>5. ASSUME NEW c \in Client, NEW r \in Recognition, ApproveAsHr(c, r)
      PROVE  recognition'[proc'[d].about].status = "published"
  BY <1>4, <1>5 DEF ApproveAsHr, SetStatus, Typed, TypeOK, RecognitionRow
<1>6. ASSUME NEW c \in Client, NEW r \in Recognition, NEW p \in Amount,
             NEW to \in Recipients, CreatePublished(c, r, p, to)
      PROVE  recognition'[proc'[d].about].status = "published"
  BY <1>4, <1>6 DEF CreatePublished, Row, Typed, TypeOK
<1>7. ASSUME NEW c \in Client, NEW r \in Recognition, ReadForPublish(c, r)
      PROVE  recognition'[proc'[d].about].status = "published"
  <2> DEFINE h == Work("publish", r, NoUser, SomePoints, User)
  <2>1. h \in Handler /\ h.pc = "publish"
    BY SomePointsTyped, UserTyped, WorkTyped
  <2>2. Step(c, h)
    BY <1>7 DEF ReadForPublish
  <2> HIDE DEF h
  <2> QED
    BY <1>3, <2>1, <2>2
<1>8. ASSUME NEW c \in Client, NEW u \in User, NEW p \in Amount, CheckBalance(c, u, p)
      PROVE  recognition'[proc'[d].about].status = "published"
  <2> DEFINE h == Work("redeem", NoRecognition, u, p, User)
  <2>1. h \in Handler /\ h.pc = "redeem"
    BY UserTyped, WorkTyped
  <2>2. Step(c, h)
    BY <1>8 DEF CheckBalance
  <2> HIDE DEF h
  <2> QED
    BY <1>3, <2>1, <2>2
<1>9. ASSUME NEW c \in Client, Publish(c)
      PROVE  recognition'[proc'[d].about].status = "published"
  <2>1. Mine(c) \in Recognition
    BY <1>9 DEF Typed, Refers, Publish, At, Mine
  <2>2. CASE Live(Mine(c))
    BY <1>4, <1>9, <2>1, <2>2 DEF Publish, SetStatus, Typed, TypeOK, RecognitionRow
  <2>3. CASE ~Live(Mine(c))
    BY <1>1, <1>2, <1>9, <2>3 DEF Publish, Return
  <2> QED
    BY <2>2, <2>3
<1>10. ASSUME NEW c \in Client, Reread(c)
       PROVE  recognition'[proc'[d].about].status = "published"
  <2> DEFINE h == Work("annotate", Mine(c), NoUser, recognition[Mine(c)].points, User)
  <2>1. Mine(c) \in Recognition /\ recognition[Mine(c)].status = "published"
    BY <1>10 DEF Typed, Refers, Published, Reread, At, Mine
  <2>2. recognition[Mine(c)].points \in Amount
    BY <2>1 DEF Typed, TypeOK, RecognitionRow
  <2>3. h \in Handler /\ h.about = Mine(c)
    BY <2>1, <2>2, UserTyped, WorkTyped
  <2>4. Step(c, h) \/ Step(c, Idle)
    BY <1>10 DEF Reread, Return
  <2>5. recognition' = recognition
    BY <1>10 DEF Reread
  <2> HIDE DEF h
  <2> QED
    BY <1>1, <1>2, <1>3, <2>1, <2>3, <2>4, <2>5
<1>12. ASSUME NEW c \in Client, Annotate(c)
       PROVE  recognition'[proc'[d].about].status = "published"
  <2> DEFINE h == Work("award", Mine(c), NoUser, proc[c].points, recognition[Mine(c)].to)
  <2>1. Mine(c) \in Recognition /\ recognition[Mine(c)].status = "published"
    BY <1>12 DEF Typed, Refers, Published, Annotate, At, Mine
  <2>2. proc[c].points \in Amount /\ recognition[Mine(c)].to \in Recipients
    BY <2>1 DEF Typed, TypeOK, RecognitionRow, Handler
  <2>3. h \in Handler /\ h.about = Mine(c)
    BY <2>1, <2>2, WorkTyped
  <2>4. Step(c, h) /\ recognition' = recognition
    BY <1>12 DEF Annotate
  <2> HIDE DEF h
  <2> QED
    BY <1>3, <2>1, <2>3, <2>4
<1>11. \/ \E c \in Client, r \in Recognition : ApproveAsHr(c, r) \/ ReadForPublish(c, r)
       \/ \E c \in Client, r \in Recognition, p \in Amount, to \in Recipients :
              CreatePublished(c, r, p, to)
       \/ \E c \in Client, u \in User, p \in Amount : CheckBalance(c, u, p)
       \/ \E c \in Client : Publish(c) \/ Reread(c) \/ Annotate(c)
       \/ \E c \in Client : Step(c, Idle)
       \/ UNCHANGED proc
  BY DEF Next, Decide, Start, Continue, Die, Grant, Award, Redeem, Move, Delete, Submit,
         SendBack, ApproveAsManager, Reject, CreateForApproval, Edit, Return, vars
<1> QED
  BY <1>1, <1>2, <1>5, <1>6, <1>7, <1>8, <1>9, <1>10, <1>11, <1>12

LEMMA PublishedHolds == Spec => []Published
<1>1. Init => Published
  BY IdleTyped DEF Init, Published
<1>2. Typed /\ Published /\ [Next]_vars => Published'
  BY PublishedStep DEF Published
<1> QED
  BY <1>1, <1>2, TypedHolds, PTL DEF Spec

\* Points are credited for published recognitions alone.
THEOREM EarnedWasPublishedAlways == Spec => []EarnedWasPublished
<1>1. Init => EarnedWasPublished
  BY DEF Init, EarnedWasPublished
<1>2. Typed /\ Balanced /\ Published /\ EarnedWasPublished /\ [Next]_vars
        => EarnedWasPublished'
  <2> SUFFICES ASSUME Typed, Balanced, Published, EarnedWasPublished, [Next]_vars,
                      NEW r \in Recognition, given'[r] # 0
               PROVE  recognition'[r].status = "published"
    BY DEF EarnedWasPublished
  <2>1. CASE given[r] # 0
    BY <2>1, PublishedStays DEF StatusStep, EarnedWasPublished
  <2>2. ASSUME given[r] = 0, NEW c \in Client, NEW S \in SUBSET User, Award(c, S),
               given[Mine(c)] = 0
        PROVE  recognition'[r].status = "published"
    <3>1. r = Mine(c)
      BY <2>2, FirstAward DEF Typed, TypeOK
    <3> QED
      BY <2>2, <3>1 DEF Published, Award, At, Mine
  <2> QED
    BY <2>1, <2>2, LaterAward, RowsOnlyByAward
<1> QED
  BY <1>1, <1>2, TypedHolds, BalancedAlways, PublishedHolds, PTL DEF Spec

-----------------------------------------------------------------------------
(* Balances.                                                                 *)

\* Redemptions of u that are going to be made.
Redeemers(u) == {c \in Client : proc[c].pc = "redeem" /\ proc[c].user = u}

Pending(u) == Cardinality(Redeemers(u))
Clients == Cardinality(Client)

Largest(m) == \A p \in Amount : p <= m

\* Since the last check of u's balance what is redeemed and what may still be
\* is covered, but for one redemption of each other request.  The first case
\* is that the one checked last is through, the second that it is to come.
Slack(u, m) ==
    \/ minus[u] + m * Pending(u) <= plus[u] + m * Clients - m
    \/ \E c \in Redeemers(u) :
           minus[u] + proc[c].points + m * Pending(u) <= plus[u] + m * Clients

Solvent == \A u \in User, m \in Amount : Largest(m) => Slack(u, m)

\* Counting requests.
LEMMA CountTyped ==
    ASSUME NEW S \in SUBSET Client
    PROVE  /\ IsFiniteSet(S) /\ Cardinality(S) \in Nat
           /\ Clients \in Nat /\ Clients # 0 /\ Cardinality(S) <= Clients
BY ClientAssumption, FS_Subset, FS_CardinalityType, FS_EmptySet DEF Clients

LEMMA PendingTyped ==
    ASSUME NEW u
    PROVE  /\ IsFiniteSet(Redeemers(u)) /\ Pending(u) \in Nat
           /\ Clients \in Nat /\ Clients # 0 /\ Pending(u) <= Clients
<1>1. Redeemers(u) \in SUBSET Client
    BY DEF Redeemers
<1>2. QED
    BY <1>1, CountTyped DEF Pending

LEMMA LaterTyped ==
    ASSUME NEW u
    PROVE  /\ IsFiniteSet(Redeemers(u)') /\ Pending(u)' \in Nat
           /\ Pending(u)' <= Clients /\ Clients' = Clients
<1>1. Redeemers(u)' \in SUBSET Client
    BY DEF Redeemers
<1>2. QED
    BY <1>1, CountTyped DEF Pending, Clients

\* Room for one more is room for as much as the most that is redeemed at once.
LEMMA Times ==
    ASSUME NEW m \in Nat, NEW j \in Nat, NEW k \in Nat, j <= k
    PROVE  m * j \in Nat /\ m * k \in Nat /\ m * j <= m * k
<1>1. PICK d \in Nat : k = j + d
    <2>1. k - j \in Nat /\ k = j + (k - j)
        OBVIOUS
    <2>2. QED
        BY <2>1
<1>2. m * k = m * j + m * d /\ m * j \in Nat /\ m * d \in Nat
    BY <1>1
<1>3. QED
    BY <1>2

LEMMA TimesLess ==
    ASSUME NEW m \in Nat, NEW j \in Nat, NEW k \in Nat, j + 1 <= k
    PROVE  m * j \in Nat /\ m * k \in Nat /\ m * j + m <= m * k
<1>1. j + 1 \in Nat
    OBVIOUS
<1>2. m * (j + 1) \in Nat /\ m * k \in Nat /\ m * (j + 1) <= m * k
    BY <1>1, Times
<1>3. m * (j + 1) = m * j + m /\ m * j \in Nat
    OBVIOUS
<1>4. QED
    BY <1>2, <1>3

\* A redemption that is going to be made is of a number of points.
LEMMA RedeemersTyped ==
    ASSUME Typed, NEW u \in User
    PROVE  /\ minus[u] \in Nat /\ plus[u] \in Nat
           /\ \A c \in Redeemers(u) : proc[c].points \in Amount /\ proc[c].points \in Nat
BY AmountAssumption DEF Typed, TypeOK, Redeemers, Handler

\* The bound that is kept is the one that is promised.
LEMMA SolventBounds == Typed /\ Solvent => OverdraftBounded
<1> SUFFICES ASSUME Typed, Solvent, NEW u \in User, NEW m \in Amount, Largest(m)
             PROVE  minus[u] <= plus[u] + m * (Cardinality(Client) - 1)
    BY DEF OverdraftBounded, Largest
<1> DEFINE n == Clients k == Pending(u)
<1>1. m \in Nat /\ n \in Nat /\ k \in Nat
    BY AmountAssumption, PendingTyped
<1>2. m * (n - 1) = m * n - m /\ m * n \in Nat /\ m * k \in Nat
    BY <1>1
<1>3. minus[u] \in Nat /\ plus[u] \in Nat
    BY DEF Typed, TypeOK
<1>4. Slack(u, m)
    BY DEF Solvent
<1>5. CASE minus[u] + m * k <= plus[u] + m * n - m
  <2>1. minus[u] <= plus[u] + m * n - m
      BY <1>2, <1>3, <1>5, <1>1
  <2>2. QED
      BY <1>2, <2>1 DEF Clients
<1>6. ASSUME NEW c \in Redeemers(u), minus[u] + proc[c].points + m * k <= plus[u] + m * n
      PROVE  minus[u] <= plus[u] + m * (Cardinality(Client) - 1)
  <2>1. proc[c].points \in Nat
      BY RedeemersTyped
  <2>2. k # 0
    <3>1. IsFiniteSet(Redeemers(u)) /\ Redeemers(u) # {}
        BY <1>6, PendingTyped
    <3>2. QED
        BY <3>1, FS_EmptySet DEF Pending
  <2>3. 0 \in Nat /\ 0 + 1 <= k
      BY <1>1, <2>2
  <2>4. m * 0 + m <= m * k
      BY <1>1, <2>3, TimesLess
  <2>5. m <= m * k
      BY <1>1, <2>4
  <2>6. minus[u] <= plus[u] + m * n - m
    <3> DEFINE x == m * n y == m * k q == proc[c].points
    <3>1. x \in Nat /\ y \in Nat /\ q \in Nat /\ m <= y /\ minus[u] + q + y <= plus[u] + x
        BY <1>2, <1>6, <2>1, <2>5
    <3> HIDE DEF x, y, q
    <3>2. minus[u] <= plus[u] + x - m
        BY <1>1, <1>3, <3>1
    <3>3. QED
        BY <3>2 DEF x
  <2>7. QED
      BY <1>2, <2>6 DEF Clients
<1>7. QED
    BY <1>4, <1>5, <1>6 DEF Slack

\* Only a redemption takes points away.
LEMMA PlusGrows ==
    ASSUME Typed, [Next]_vars, NEW u \in User
    PROVE  plus'[u] \in Nat /\ plus[u] \in Nat /\ plus[u] <= plus'[u]
<1>1. plus'[u] \in Nat /\ plus[u] \in Nat
  BY TypedStep DEF Typed, TypeOK
<1>2. ASSUME NEW v \in User, NEW p \in Amount, Grant(v, p)
      PROVE  plus[u] <= plus'[u]
  BY <1>1, <1>2, AmountAssumption DEF Grant, Typed, TypeOK
<1>3. ASSUME NEW c \in Client, NEW S \in SUBSET User, Award(c, S)
      PROVE  plus[u] <= plus'[u]
  <2>1. proc[c].points \in Nat
    BY AmountAssumption DEF Typed, TypeOK, Handler
  <2> QED
    BY <1>1, <1>3, <2>1 DEF Award, Earn
<1>4. \/ \E v \in User, p \in Amount : Grant(v, p)
      \/ \E c \in Client, S \in SUBSET User : Award(c, S)
      \/ UNCHANGED plus
  BY DEF Next, Decide, Start, Continue, Die, Move, Delete, Submit, SendBack,
         ApproveAsManager, Reject, CreateForApproval, Edit, ApproveAsHr, ReadForPublish,
         CreatePublished, CheckBalance, Publish, Reread, Annotate, Redeem, vars, ledger
<1> QED
  BY <1>1, <1>2, <1>3, <1>4

\* Arithmetic of a redemption: x is what the requests of all clients, y and z
\* what those at their redemption before and after may take at most.
LEMMA Spend ==
    ASSUME NEW a \in Nat, NEW p \in Nat, NEW q \in Nat, NEW b \in Nat, NEW m \in Nat,
           NEW x \in Nat, NEW y \in Nat, NEW z \in Nat, z + m <= y, p <= m
    PROVE  /\ a + y <= b + x - m => a + p + z <= b + x - m
           /\ a + q + y <= b + x => a + p + q + z <= b + x
           /\ a + p + y <= b + x => a + p + z <= b + x - m
OBVIOUS

LEMMA Keep ==
    ASSUME NEW a \in Nat, NEW q \in Nat, NEW b \in Nat, NEW d \in Nat, NEW m \in Nat,
           NEW x \in Nat, NEW y \in Nat, NEW z \in Nat, b <= d
    PROVE  /\ a + y <= b + x - m /\ z <= y => a + z <= d + x - m
           /\ a + q + y <= b + x /\ z <= y => a + q + z <= d + x
           /\ a + q + y <= b + x /\ z + m <= y => a + z <= d + x - m
OBVIOUS

\* Nothing is redeemed and nobody new is going to redeem.
LEMMA SlackKept ==
    ASSUME Typed, [Next]_vars, NEW u \in User, NEW m \in Amount, Slack(u, m), minus'[u] = minus[u],
           Redeemers(u)' \subseteq Redeemers(u),
           \A c \in Redeemers(u)' : proc'[c].points = proc[c].points
    PROVE  Slack(u, m)'
<1> DEFINE n == Clients k == Pending(u) j == Pending(u)'
<1>1. m \in Nat /\ n \in Nat /\ k \in Nat
    BY AmountAssumption, PendingTyped
<1>2. j \in Nat /\ j <= k
    BY PendingTyped, LaterTyped, FS_Subset DEF Pending
<1>3. m * j \in Nat /\ m * k \in Nat /\ m * j <= m * k /\ m * n \in Nat
    BY <1>1, <1>2, Times
<1>4. minus[u] \in Nat /\ plus[u] \in Nat /\ plus'[u] \in Nat /\ plus[u] <= plus'[u]
    BY PlusGrows DEF Typed, TypeOK
<1>5. Clients' = Clients
    BY DEF Clients
<1>6. CASE minus[u] + m * k <= plus[u] + m * n - m
  <2>1. minus[u] + m * j <= plus'[u] + m * n - m
      BY <1>1, <1>3, <1>4, <1>6, Keep
  <2>2. QED
      BY <1>5, <2>1 DEF Slack
<1>7. ASSUME NEW c \in Redeemers(u), minus[u] + proc[c].points + m * k <= plus[u] + m * n
      PROVE  Slack(u, m)'
  <2>1. proc[c].points \in Nat
      BY RedeemersTyped
  <2>2. CASE c \in Redeemers(u)'
    <3>1. minus[u] + proc[c].points + m * j <= plus'[u] + m * n
        BY <1>1, <1>3, <1>4, <1>7, <2>1, Keep
    <3>2. QED
        BY <1>5, <2>2, <3>1 DEF Slack
  <2>3. CASE c \notin Redeemers(u)'
    <3>1. Redeemers(u)' \subseteq Redeemers(u) \ {c}
        BY <2>3
    <3>2. IsFiniteSet(Redeemers(u)) /\ Cardinality(Redeemers(u) \ {c}) = k - 1
            /\ IsFiniteSet(Redeemers(u) \ {c})
        BY <1>7, PendingTyped, FS_RemoveElement DEF Pending
    <3>3. j <= k - 1
        BY <3>1, <3>2, FS_Subset DEF Pending
    <3>4. m * j + m <= m * k
        BY <1>1, <1>2, <3>3, TimesLess
    <3>5. minus[u] + m * j <= plus'[u] + m * n - m
        BY <1>1, <1>3, <1>4, <1>7, <2>1, <3>4, Keep
    <3>6. QED
        BY <1>5, <3>5 DEF Slack
  <2>4. QED
      BY <2>2, <2>3
<1>8. QED
    BY <1>6, <1>7 DEF Slack

LEMMA SolventStep == Typed /\ Solvent /\ [Next]_vars => Solvent'
<1> SUFFICES ASSUME Typed, Solvent, [Next]_vars PROVE Solvent'
  OBVIOUS
<1>1. ASSUME UNCHANGED minus, \A c \in Client : proc'[c] = proc[c] \/ proc'[c].pc # "redeem"
      PROVE  Solvent'
  <2> SUFFICES ASSUME NEW u \in User, NEW m \in Amount, Largest(m)
               PROVE  Slack(u, m)'
    BY DEF Solvent, Largest
  <2>1. Slack(u, m)
    BY DEF Solvent
  <2>2. /\ Redeemers(u)' \subseteq Redeemers(u)
        /\ \A c \in Redeemers(u)' : proc'[c].points = proc[c].points
    BY <1>1 DEF Redeemers
  <2> QED
    BY <1>1, <2>1, <2>2, SlackKept
<1>2. ASSUME NEW c \in Client, Redeem(c)
      PROVE  Solvent'
  <2>1. PICK v \in User, p \in Amount : v = proc[c].user /\ p = proc[c].points
    BY <1>2 DEF Typed, TypeOK, Refers, Redeem, At, Handler
  <2>0. p \in Nat /\ c \in Redeemers(v)
    BY <1>2, <2>1, AmountAssumption DEF Redeem, At, Redeemers
  <2>2. minus' = [minus EXCEPT ![v] = minus[v] + p] /\ plus' = plus
    BY <1>2, <2>1 DEF Redeem
  <2>3. proc'[c].pc # "redeem" /\ \A d \in Client \ {c} : proc'[d] = proc[d]
    BY <1>2, IdleTyped DEF Redeem, Return, Step, Typed, TypeOK
  <2>4. /\ Redeemers(v)' = Redeemers(v) \ {c}
        /\ \A u \in User \ {v} : Redeemers(u)' = Redeemers(u)
    <3>1. \A u, d : d \in Redeemers(u)' <=> d \in Redeemers(u) /\ d # c
      BY <2>3 DEF Redeemers
    <3>2. \A u \in User \ {v} : c \notin Redeemers(u)
      BY <2>1 DEF Redeemers
    <3> QED
      BY <3>1, <3>2
  <2> SUFFICES ASSUME NEW u \in User, NEW m \in Amount, Largest(m)
               PROVE  Slack(u, m)'
    BY DEF Solvent, Largest
  <2>5. Slack(u, m)
    BY DEF Solvent
  <2>6. CASE u # v
    <3>1. minus'[u] = minus[u]
      BY <2>1, <2>2, <2>6 DEF Typed, TypeOK
    <3>2. \A d \in Redeemers(u)' : proc'[d].points = proc[d].points
      BY <2>3 DEF Redeemers
    <3> QED
      BY <2>4, <2>5, <2>6, <3>1, <3>2, SlackKept
  <2>7. CASE u = v
    <3> DEFINE n == Clients k == Pending(v) j == Pending(v)'
    <3>1. IsFiniteSet(Redeemers(v)) /\ Cardinality(Redeemers(v) \ {c}) = Cardinality(Redeemers(v)) - 1
      BY <2>0, PendingTyped, FS_RemoveElement
    <3>2. m \in Nat /\ n \in Nat /\ k \in Nat /\ j \in Nat /\ j = k - 1
      BY <2>4, <3>1, AmountAssumption, PendingTyped, LaterTyped DEF Pending
    <3>3. m * j \in Nat /\ m * k \in Nat /\ m * n \in Nat /\ m * j + m <= m * k
      BY <3>2, TimesLess
    <3>4. minus[v] \in Nat /\ plus[v] \in Nat /\ minus'[v] = minus[v] + p /\ plus'[v] = plus[v]
      BY <2>0, <2>2 DEF Typed, TypeOK
    <3>5. p <= m
      BY <2>1 DEF Largest
    <3>6. Clients' = Clients
      BY DEF Clients
    <3>7. CASE minus[v] + m * k <= plus[v] + m * n - m
      <4>1. minus[v] + p + m * j <= plus[v] + m * n - m
        BY <2>0, <3>2, <3>3, <3>4, <3>5, <3>7, Spend
      <4> QED
        BY <2>7, <3>4, <3>6, <4>1 DEF Slack
    <3>8. ASSUME NEW d \in Redeemers(v), minus[v] + proc[d].points + m * k <= plus[v] + m * n
          PROVE  Slack(u, m)'
      <4>1. proc[d].points \in Nat
        BY RedeemersTyped
      <4>2. CASE d = c
        <5>1. minus[v] + p + m * j <= plus[v] + m * n - m
          BY <2>0, <3>2, <3>3, <3>4, <3>5, <3>8, <2>1, <4>2, Spend
        <5> QED
          BY <2>7, <3>4, <3>6, <5>1 DEF Slack
      <4>3. CASE d # c
        <5>1. minus[v] + p + proc[d].points + m * j <= plus[v] + m * n
          BY <2>0, <3>2, <3>3, <3>4, <3>5, <3>8, <4>1, Spend
        <5>2. d \in Redeemers(v)' /\ proc'[d].points = proc[d].points
          BY <2>3, <2>4, <3>8, <4>3 DEF Redeemers
        <5> QED
          BY <2>7, <3>4, <3>6, <5>1, <5>2 DEF Slack
      <4> QED
        BY <4>2, <4>3
    <3> QED
      BY <2>5, <2>7, <3>7, <3>8 DEF Slack
  <2> QED
    BY <2>6, <2>7
<1>3. ASSUME NEW c \in Client, NEW v \in User, NEW p \in Amount, CheckBalance(c, v, p)
      PROVE  Solvent'
  <2> DEFINE h == Work("redeem", NoRecognition, v, p, User)
  <2>1. h \in Handler /\ h.pc = "redeem" /\ h.user = v /\ h.points = p
    BY UserTyped DEF Work, Handler
  <2>2. Step(c, h)
    BY <1>3 DEF CheckBalance
  <2> HIDE DEF h
  <2>3. minus' = minus /\ plus' = plus /\ minus[v] + p <= plus[v] /\ proc[c].pc = "idle"
    BY <1>3 DEF CheckBalance, ledger, At
  <2>4. proc'[c] = h /\ \A d \in Client \ {c} : proc'[d] = proc[d]
    BY <2>2 DEF Step, Typed, TypeOK
  <2> SUFFICES ASSUME NEW u \in User, NEW m \in Amount, Largest(m)
               PROVE  Slack(u, m)'
    BY DEF Solvent, Largest
  <2>5. Slack(u, m)
    BY DEF Solvent
  <2>6. CASE u # v
    <3>1. Redeemers(u)' = Redeemers(u) /\ \A d \in Redeemers(u)' : proc'[d].points = proc[d].points
      BY <2>1, <2>3, <2>4, <2>6 DEF Redeemers
    <3> QED
      BY <2>3, <2>5, <3>1, SlackKept
  <2>7. CASE u = v
    <3> DEFINE n == Clients j == Pending(v)'
    <3>1. m \in Nat /\ n \in Nat /\ j \in Nat /\ j <= n /\ Clients' = Clients
      BY AmountAssumption, PendingTyped, LaterTyped
    <3>2. m * j \in Nat /\ m * n \in Nat /\ m * j <= m * n
      BY <3>1, Times
    <3>3. minus[v] \in Nat /\ plus[v] \in Nat /\ p \in Nat
      BY AmountAssumption DEF Typed, TypeOK
    <3>4. minus[v] + p + m * j <= plus[v] + m * n
      BY <2>3, <3>2, <3>3
    <3>5. c \in Redeemers(v)' /\ proc'[c].points = p
      BY <2>1, <2>4 DEF Redeemers
    <3> QED
      BY <2>3, <2>7, <3>1, <3>4, <3>5 DEF Slack
  <2> QED
    BY <2>6, <2>7
<1>4. ASSUME NEW c \in Client, NEW h \in Handler, h.pc # "redeem", Step(c, h)
      PROVE  \A d \in Client : proc'[d] = proc[d] \/ proc'[d].pc # "redeem"
  BY <1>4 DEF Step, Typed, TypeOK
<1>5. ASSUME NEW c \in Client, ~Redeem(c), Start(c) \/ Continue(c) \/ Die(c),
             ~\E u \in User, p \in Amount : CheckBalance(c, u, p)
      PROVE  Solvent'
  <2>1. UNCHANGED minus
    BY <1>5 DEF Start, Continue, Die, ApproveAsHr, ReadForPublish, CreatePublished,
                Publish, Reread, Annotate, Award, ledger
  <2>2. \/ \E r \in Recognition : ReadAgain(c, r)
        \/ \E r \in Recognition : Step(c, Work("publish", r, NoUser, SomePoints, User))
        \/ Reread(c)
        \/ Annotate(c)
        \/ Step(c, Idle)
    <3>1. Publish(c) => Mine(c) \in Recognition
      BY DEF Typed, Refers, Publish, At, Mine
    <3> QED
      BY <1>5, <3>1 DEF Start, Continue, Die, ApproveAsHr, ReadForPublish, CreatePublished,
                        Publish, Award, Return
  <2>3. ASSUME NEW r \in Recognition, NEW pc \in {"publish", "reread"},
               Step(c, Work(pc, r, NoUser, SomePoints, User))
        PROVE  \A d \in Client : proc'[d] = proc[d] \/ proc'[d].pc # "redeem"
    <3> DEFINE h == Work(pc, r, NoUser, SomePoints, User)
    <3>1. h \in Handler /\ h.pc = pc
      BY SomePointsTyped, UserTyped, WorkTyped
    <3> HIDE DEF h
    <3>2. h.pc # "redeem" /\ Step(c, h)
      BY <2>3, <3>1 DEF h
    <3> QED
      BY <1>4, <3>1, <3>2
  <2>4. CASE Reread(c)
    <3> DEFINE h == Work("annotate", Mine(c), NoUser, recognition[Mine(c)].points, User)
    <3>1. Mine(c) \in Recognition
      BY <2>4 DEF Typed, Refers, Reread, At, Mine
    <3>2. recognition[Mine(c)].points \in Amount
      BY <3>1 DEF Typed, TypeOK, RecognitionRow
    <3>3. h \in Handler /\ h.pc = "annotate"
      BY <3>1, <3>2, UserTyped, WorkTyped
    <3>4. Step(c, h) \/ Step(c, Idle)
      BY <2>4 DEF Reread, Return
    <3> HIDE DEF h
    <3> QED
      BY <1>1, <1>4, <2>1, <3>3, <3>4, IdleTyped
  <2>5. CASE Annotate(c)
    <3> DEFINE h == Work("award", Mine(c), NoUser, proc[c].points, recognition[Mine(c)].to)
    <3>1. Mine(c) \in Recognition /\ proc[c].points \in Amount
      BY <2>5 DEF Typed, TypeOK, Refers, Annotate, At, Mine, Handler
    <3>2. recognition[Mine(c)].to \in Recipients
      BY <3>1 DEF Typed, TypeOK, RecognitionRow
    <3>3. h \in Handler /\ h.pc = "award"
      BY <3>1, <3>2, WorkTyped
    <3>4. Step(c, h)
      BY <2>5 DEF Annotate
    <3> HIDE DEF h
    <3> QED
      BY <1>1, <1>4, <2>1, <3>3, <3>4
  <2> QED
    BY <1>1, <1>4, <2>1, <2>2, <2>3, <2>4, <2>5, IdleTyped DEF ReadAgain
<1>6. ASSUME UNCHANGED <<minus, proc>>
      PROVE  Solvent'
  BY <1>1, <1>6
<1>7. \/ \E c \in Client : Start(c) \/ Continue(c) \/ Die(c)
      \/ UNCHANGED <<minus, proc>>
  BY DEF Next, Decide, Grant, Move, Delete, Submit, SendBack, ApproveAsManager, Reject,
         CreateForApproval, Edit, vars, ledger
<1> QED
  BY <1>2, <1>3, <1>5, <1>6, <1>7

\* However many requests redeem at a time, whatever dies, no balance goes
\* below nothing by more than one redemption of each other request.
THEOREM OverdraftBoundedAlways == Spec => []OverdraftBounded
<1>1. Init => Solvent
  <2> SUFFICES ASSUME Init, NEW u \in User, NEW m \in Amount PROVE Slack(u, m)
    BY DEF Solvent
  <2>1. Redeemers(u) = {}
    BY IdleTyped DEF Init, Redeemers
  <2>2. Pending(u) = 0
    BY <2>1, FS_EmptySet DEF Pending
  <2>3. m \in Nat /\ Clients \in Nat /\ 0 + 1 <= Clients
    BY AmountAssumption, PendingTyped
  <2>4. m * 0 + m <= m * Clients /\ m * 0 = 0 /\ m * Clients \in Nat
    BY <2>3, TimesLess
  <2>5. minus[u] = 0 /\ plus[u] = 0
    BY DEF Init
  <2> QED
    BY <2>2, <2>3, <2>4, <2>5 DEF Slack
<1>2. Typed /\ Solvent /\ [Next]_vars => Solvent'
  BY SolventStep
<1>3. Typed /\ Solvent => OverdraftBounded
  BY SolventBounds
<1> QED
  BY <1>1, <1>2, <1>3, TypedHolds, PTL DEF Spec

=============================================================================
